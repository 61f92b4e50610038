SPECIFICATION SteadySpec
CONSTANTS
    p1 = p1
    p2 = p2
    Pids <- OnePid
    NumDevices = 1
    MaxDevices = 1
    Cap = 2
    Fallible = {}
    MaxTick = 2
INVARIANTS
    FreshnessGateSuffices
