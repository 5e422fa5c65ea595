CONSTANTS
    root = root
    user = user
    Thread = {root, user}
    NoThread = NoThread
    uid <- MCuid
    Proc <- MCProc
    Nr = {0}
    NRS = 1
    SIZE = 2
    FREE = 3
    WORD = 4
    INT = 6
SPECIFICATION Spec
INVARIANTS
    TypeOK
    LockDiscipline
    SlotJustified
    ArmedHasOwner
PROPERTIES
    SlotChangeEntitled
    DenialsFollowPolicy
    LossesExplained
