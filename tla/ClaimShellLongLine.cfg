CONSTANTS
    Char = {"e", " "}
    BUFFER = 2
    MaxLine = 5
    MaxFork = 1
    MaxOther = 1
SPECIFICATION Spec
INVARIANT LongLinesAreKept
