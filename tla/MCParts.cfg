SPECIFICATION Spec
CONSTANTS
    ByteBits = 1
    WordBytes = 5
    LimbBytes = 2
    StackLimit = 18
    PoolLimit = 2
    MaxUint = 1023
    WordSize = 2
    MemLimit = 60
    AllButOne = 4
    Price <- MCPrice
    Operand = {0, 1, 3, 1022, 1024}
    InitialGas = 60
    PlainLen <- MCPlainLen
    SealedLens = {6, 8}
    FrameBlock = 4
    LenBase = 2
    Payloads = {1, 4, 7, 8}
    MaxFrames = 2
    BNu = 1
    BNP = 103
    BNOrder = 97
    BNR = 256
    BNnp = 169
    BNXi = 2
    BNXiPowers <- MCXiPowers
    BNb = 5
    BNNaf <- MCNaf
    BNGen <- MCGen
    BNTwistGen <- MCTwistGen
    BNTwistOther <- MCTwistOther
    MaxScalar = 105
    PairScalars = {0, 1, 5, 96, 97}
INVARIANTS
    
    StackSound
    
    PairingsExact
    StreamsInStep
CHECK_DEADLOCK FALSE
