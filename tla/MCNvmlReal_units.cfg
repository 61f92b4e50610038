SPECIFICATION Spec
CONSTANTS
    p1 = p1
    p2 = p2
    Pids <- OnePid
    NumDevices = 1
    K = 1000
    Errors = {}
    MaxTime = 3
INVARIANTS
    NothingSkipped
