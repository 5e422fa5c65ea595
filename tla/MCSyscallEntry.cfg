CONSTANTS
    Flag = {"SYSCALL_TRACE", "SYSCALL_EMU", "SECCOMP"}
    NR = 2
    IA32_NR = 2
    X32 = 2
    WORD = 8
    UINT = 4
    MaxRaise = 0
SPECIFICATION Spec
INVARIANTS
    TypeOK
    SeccompSeesWhatRuns
    RefusedIsNeverRun
