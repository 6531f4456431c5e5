SPECIFICATION StoreSpec
CONSTANTS
    Parts = {"nodes"}
    G = G
    A1 = A1
    A2 = A2
    A3 = A3
    B1 = B1
    B2 = B2
    C2 = C2
    D1 = D1
    None = None
    Genesis = G
    Block <- MCBlock
    Parent <- MCParent
    Height <- MCHeight
    Slot <- MCSlot
    Root <- MCRoot
    Own <- MCOwn
    MaxCrashes = 1
    Account = {1, 2}
    Tx <- MCTx
    Alloc <- MCAlloc
    Locked <- MCLocked
    GasLimit = {1, 2}
    GasPrice = {1, 2}
    PriceLimit = 1
    PriceBump = 100
    AccountSlots = 1
    GlobalSlots = 2
    AccountQueue = 2
    GlobalQueue = 2
    ReorgDepth = 1
    MaxHeight = 2
    NibbleBase = 4
    TriePrefix <- MCTriePrefix
    TrieKey <- MCTrieKey
    TrieVal = {1, 6}
    HashLen = 8
    CacheLimit = 1
    Starts <- MCStarts
    MaxTrieOps = 5
    PoolNode <- MCPoolNode
    Kids <- MCKids
    Outs <- MCOuts
    MineState = "s1"
    Committer = {"insert", "mine"}
    PoolJobs <- MCPoolJobs
    OnDisk = {"m1", "b", "t"}
    MaxPoolJobs = 1
    MaxPoolCrashes = 0
    Single = 8
    Small = 2
    SizeLen = 2
    Symbol = {0, 2, 7, 8, 9, 10, 11, 12, 13, 14, 15}
    MaxInput = 4
    GoValues <- MCGoValues
PROPERTY
    UncachedOnDisk
CHECK_DEADLOCK FALSE
