SPECIFICATION Spec
CONSTANTS
    a1 = a1
    a2 = a2
    Addr = {a1, a2}
    MarketID = {}
    Word = 4
    NotFound = NotFound
    Undecodable = Undecodable
    MaxAllocations = 3
    Allocations <- MCAllocations
INVARIANTS
    TypeOK
    AllocationsAddUp
    SupplyIsExact
    FailureExplained
CHECK_DEADLOCK FALSE
