SPECIFICATION Spec
CONSTANTS
    Peer = {"p1", "p2"}
    Top = 3
    CacheLimit = 2
    MaxFetch = 2
    MaxHashes = 2
    MaxQueued = 3
    Scopes <- MCScopes
    Origin = {"p1", "p2"}
    Block = {"g", "a", "x", "b", "c"}
    Genesis = "g"
    Prev <- MCPrev
    Number <- MCNumber
    Difficulty <- MCDifficulty
    ValidBlock = {"g", "a", "c", "x"}
    Watched = "c"
    HashLimit = 1
    BlockLimit = 1
    MaxQueueDist = 1
    MaxUncleDist = 1
    MaxInputs = 3

    
PROPERTIES
    SyncEnds
    
CHECK_DEADLOCK FALSE
