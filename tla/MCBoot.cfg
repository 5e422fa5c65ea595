CONSTANTS
    MAX_INIT_ARGS = 1
    MAX_INIT_ENVS = 3
    Name = {"A"}
    Char = {"x"}
    Fn = {"e", "f", "g"}
    MaxOption = 3
    initcalls <- MCinitcalls
    MaxAsync = 2
SPECIFICATION FairSpec
INVARIANTS
    TypeOK
    NoOops
    InitmemInUse
    InLinkOrder
    IrqsAsExpected
    InitAsRequested
PROPERTIES
    StateAdvances
    BootEnds
