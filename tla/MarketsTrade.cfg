SPECIFICATION Spec
CONSTANTS
    a1 = a1
    a2 = a2
    Addr = {a1, a2}
    MarketID = {1}
    Word = 4
    NotFound = NotFound
    Genesis <- MCGenesis
    Seeds <- TradeSeeds
    Time = {0, 1, 2}
    Text = {}
    Quantity = {0, 1, 2}
    Price = {0, 1, 2}
INVARIANTS
    TypeOK
    SharesMatchTotals
    FailsOnlyOnZeroShares
PROPERTIES
    ClosedMarketsFrozen
    BalancesNeverGrow
    WholePurchases
