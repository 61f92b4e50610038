SPECIFICATION SteadySpec
CONSTANTS
    p1 = p1
    p2 = p2
    Pids <- OnePid
    NumDevices = 2
    MaxDevices = 1
    Cap = 2
    Fallible = {}
    MaxTick = 2
INVARIANTS
    AdvertisedDevicesPresent
