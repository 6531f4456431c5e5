SPECIFICATION Spec
CONSTANTS
    Account = {1, 2, 3}
    GenesisCandidate = 1
    MaxValidatorSize = 2
    BlockRepeat = 2
    MinStartQuantity = 1
    DelayEpcho = 1
    MaxWeight = 20
    MayLogout = {2}
    MaxVote = 1
    MaxTime = 12
INVARIANT
    ValidatorQuorum

    
CHECK_DEADLOCK FALSE
