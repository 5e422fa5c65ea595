CONSTANTS
    Char = {"e", "x", "i", "t", " "}
    BUFFER = 2
    MaxLine = 5
    MaxFork = 2
    MaxOther = 1
SPECIFICATION FairSpec
INVARIANTS
    ArgumentsFit
    BlocksAreFreed
    OneChildAtATime
    ArgvIsWords
PROPERTY LinesComplete
