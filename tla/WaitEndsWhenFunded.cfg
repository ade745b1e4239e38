SPECIFICATION Spec
CONSTANTS
    a1 = a1
    Addr = {a1}
    Account = a1
    MarketID = {}
    Word = 4
    NotFound = NotFound
    Min = 1
    Amounts = {1, 2}
PROPERTY WaitEndsWhenFunded
CHECK_DEADLOCK FALSE
