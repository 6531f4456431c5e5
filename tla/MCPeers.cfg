SPECIFICATION Spec
CONSTANTS
    Inbound = {"i1", "i2"}
    Outbound = {"o1"}
    Silent = {"i2"}
    PeerIds = {"a", "b"}
    SelfId = "s"
    AcceptSlots = 1
    MaxSessions = 2
    GossipNode = {"a", "b", "c"}
    Miner = "a"
    Topologies <- MCTopologies
    Request = {"r1", "r2", "r3"}
    RequestFrom <- MCRequestFrom
    RequestType <- MCRequestType
    RespTimeout = 1
    BucketSize = 2
    UdpTime = 3
    Listener = {"s1", "s2"}
    FeedSender = {"p", "q"}
    ChanCap = 1
    MinerCaller = {"r"}
    MaxStopCh = 2
INVARIANTS
    OnePeerPerNode
    RegistrationExact
    MarkedHears
    UnderTimer
PROPERTIES
    RunEnds
    
    SpreadEnds
    FeedFaithful
    
CHECK_DEADLOCK FALSE
