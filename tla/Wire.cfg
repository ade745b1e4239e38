SPECIFICATION Spec
CONSTANTS
    Addr = {a1}
    MarketID = {1, 13, 37, 42, 45, 53}
    Word = 64
    Base = 8
    LongLen = 2
    MaxActions = 2
    NotFound = NotFound
    Genesis <- MCGenesis
    Seeds <- MCSeeds
    Time = {0, 1, 2}
    Text <- MCText
    Quantity = {1, 40}
    Price = {3}
INVARIANTS
    ParsedAsBuyYes
    AcceptedExactly
    PanicsOnlyOnUnstorable
