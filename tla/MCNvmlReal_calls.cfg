SPECIFICATION Spec
CONSTANTS
    p1 = p1
    p2 = p2
    Pids <- OnePid
    NumDevices = 2
    K = 1
    Errors = {"soft", "hard"}
    MaxTime = 3
INVARIANTS
    TypeOK
    OnlyForgottenIsSkipped
    NothingRepeated
    MemoryOnce
