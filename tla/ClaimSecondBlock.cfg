CONSTANTS
    root = root
    user = user
    Thread = {root, user}
    NoThread = NoThread
    uid <- MCuid
    Proc = {0, 1}
    Nr = {1}
    NRS = 2
    SIZE = 2
    FREE = 3
    WORD = 5
    INT = 4
SPECIFICATION Spec
PROPERTY SecondBlockKeepsDenial
