SPECIFICATION Spec
CONSTANTS
    a1 = a1
    a2 = a2
    Addr = {a1}
    MarketID = {0, 1}
    Word = 4
    NotFound = NotFound
    Genesis <- CreateGenesis
    Seeds <- NoSeeds
    Time = {0, 1, 2, 3}
    Text <- LimitText
    Quantity = {1}
    Price = {1}
INVARIANTS
    MarketUnderItsKey
    SharesHaveMarket
    SharesMatchTotals
    FailsOnlyOnZeroShares
PROPERTIES
    TotalsDriftOnlyOnReissue
