SPECIFICATION Spec
CONSTANTS
    Issuers = {i1, i2}
    TxsPerIssuer = 2
    Funds = 7
    MaxFee = 2
    MaxSecond = 2
    MaxBursts = 2
CHECK_DEADLOCK FALSE
INVARIANT
    FeesCovered
PROPERTY
    BurstEnds
