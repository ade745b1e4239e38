SPECIFICATION Spec
CONSTANTS
    a1 = a1
    a2 = a2
    Addr = {a1, a2}
    MarketID = {1, 258}
    Word = 8
    NotFound = NotFound
    Kept = Kept
    Genesis <- MCGenesis
    Seeds <- MCSeeds
    Holdings <- MCHoldings
    AddrTail <- MCAddrTail
    Time = {0, 2}
    Text = {}
    Quantity = {1}
    Price = {2}
    Fee = 2
    MaxActionsPerTx = 2
    ValidityWindow = 2
    TimestampDivisor = 2
    Batches <- MCBatches
INVARIANTS
    TypeOK
    BalancesAccounted
    FailureKeepsFeeOnly
    ServedExactly
    FeesChargeable
    NeverDeadlocked
PROPERTIES
    TasksIsolated
    TotalsFollowHoldings
    SerialExecution
    BatchesFinish
