SPECIFICATION Spec
CONSTANTS
    alice = alice
    contract = contract
    created = created
    ripemd = ripemd
    miner = miner
    Address = {alice, contract, created, ripemd, miner}
    Key = {1}
    Word = {0, 1}
    Ripemd = ripemd
    Precompile = {ripemd}
    CreateAddress <- MCCreateAddress
    CallCreateDepth = 1
    AllButOne = 4
    MaxCodeSize = 1
    Gas <- MCGas
    Genesis <- MCGenesis
    Sender = alice
    Coinbase = miner
    GasLimit = 9
    Intrinsic = {0, 9}
    Batch <- MCBatch
    Request = {1, 9}
    Target = {contract, created, ripemd}
    Size = {0, 1, 2}
INVARIANT
    CopiesFaithful
PROPERTIES
    ImplementsCallStack
    TokensConserved
CHECK_DEADLOCK FALSE
