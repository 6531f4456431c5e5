SPECIFICATION MCSpec
CONSTANTS
    G = G
    A1 = A1
    A2 = A2
    A3 = A3
    B1 = B1
    B2 = B2
    C2 = C2
    D1 = D1
    None = None
    Genesis = G
    Block <- MCBlock
    Parent <- MCParent
    Height <- MCHeight
    Slot <- MCSlot
    Root <- MCRoot
    Own <- MCOwn
    Pooled = {1, 2, 3, 4, 5, 6}
    PriceOf <- MCPriceOf
    NonceOf <- MCNonceOf
    Capacity = 5
    Floors = {2, 3}
    BoundDivisor = 4
    MinLimit = 30
    TargetLimit = 45
    LimitCap = 120
    StoredBlock = {"x", "y"}
    BlockTxs <- MCBlockTxs
    LedgerReader = {"r", "s"}
    blockCacheLimit = 1
    Nothing = Nothing
INVARIANTS
    StoredComplete
    LegitimateChain
    HeadHeaviest
    OwnAccepted
    CachedWhole
PROPERTIES
    ImplementsForkChoice
    Stored
    EvictsCheapest
CHECK_DEADLOCK FALSE
