SPECIFICATION MCSpec
CONSTANTS
    genesis = genesis
    alice = alice
    bob = bob
    Account <- MCAccount
    GenesisCandidate = genesis
    Alloc <- MCAlloc
    MinDelegateState = 1
    MinDelegateDuration = 1
    DelayDuration = 1
    BlockGas = 2
    TxGas = 1
    MaxAmount = 2
    MaxTime = 2
    ConfBlock = {"g", "a1", "a2", "a3", "b2"}
    ConfParent <- MCConfParent
    ConfHeight <- MCConfHeight
    MinerOf <- MCMinerOf
    ConsensusSize = 2
    ConfCaller = {"insert", "mine"}
    Importer = "insert"
    Voter = {"x", "y", "z"}
    Me = "x"
INVARIANT
    VotesConsistent
PROPERTIES
    HoldingsConserved
    
CHECK_DEADLOCK FALSE
