CONSTANTS
    Flag = {}
    NR = 2
    IA32_NR = 2
    X32 = 2
    WORD = 8
    UINT = 4
    MaxRaise = 0
SPECIFICATION Spec
INVARIANT DeniedCallFails
