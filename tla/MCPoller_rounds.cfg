SPECIFICATION FairSpec
CONSTANTS
    p1 = p1
    p2 = p2
    Pids <- OnePid
    NumDevices = 2
    MaxDevices = 1
    Cap = 1
    Fallible = {"detail", "summary"}
    MaxTick = 2
INVARIANTS
    TypeOK
    IInv
PROPERTIES
    ImplementsPublication
    Shutdown
    RoundsAreAdvertised
