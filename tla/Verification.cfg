SPECIFICATION Spec
CONSTANTS
    a1 = a1
    a2 = a2
    Addr = {a1, a2}
    MarketID = {258, 514}
    Word = 8
    NotFound = NotFound
    Genesis <- MCGenesis
    Seeds <- MCSeeds
    Holdings <- MCHoldings
    AddrTail <- MCAddrTail
    Time = {0, 2}
    Text = {}
    Quantity = {1}
    Price = {1, 3}
    Fee = 1
    MaxActionsPerTx = 2
    ValidityWindow = 2
    TimestampDivisor = 2
    Batches <- MCBatches
    MaxStreams = 2
    MaxBlocks = 1
CHECK_DEADLOCK FALSE
INVARIANTS
    ReplicasAgree
    BuiltBlocksVerify
