SPECIFICATION DumpSpec
CONSTANTS
    p1 = p1
    p2 = p2
    Pids <- TwoPids
    NumDevices = 1
    MaxDevices = 1
    Cap = 1
    Fallible = {"meta"}
    MaxTick = 2
SYMMETRY PidSymmetry
INVARIANTS
    DumpTypeOK
    DataBeforeMeta
    SummaryAfterDetail
    DeviceBeforeDetail
    NothingOlderThanMeta
    DetailNotOlderThanSummary
