CONSTANTS
    self = self
    other = other
    Thread = {self, other}
    NoThread = NoThread
    uid <- MCuid
    Proc <- MCProc
    Nr = {1}
    NRS = 2
    SIZE = 2
    FREE = 3
    WORD = 5
    INT = 4
    sandboxCall <- MCsandboxCall
    X32 = 2
    MaxDenials = 1
SPECIFICATION DispatchFairSpec
INVARIANTS
    MutexSleepsSafely
    
PROPERTY EveryCallReturns
