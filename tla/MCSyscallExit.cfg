CONSTANTS
    Flag <- ExitFlags
    NR = 1
    IA32_NR = 1
    X32 = 1
    WORD = 4
    UINT = 2
    MaxRaise = 2
SPECIFICATION FairSpec
INVARIANTS
    ReadyForUser
    ContextWarningsSilent
    WorkAfterEntry
    OneTimeWork
PROPERTIES
    FlagsAreServed
    EveryEntryReturns
