CONSTANTS
    MAX_INIT_ARGS = 2
    MAX_INIT_ENVS = 3
    Name = {"HOME", "A"}
    Char = {"x", "y"}
    Fn = {"f"}
    MaxOption = 5
SPECIFICATION ArgsSpec
INVARIANTS
    ArgsTypeOK
    LoopsEnd
    VectorsEnd
    ArgumentsAsTyped
    LastValueWins
