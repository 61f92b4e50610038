SPECIFICATION Spec
CONSTANTS
    Pids = {0, 1, 2}
    Devs = {0, 1}
    Byte = 4
    Values = {0, 1}
    Stamps = {1, 2}
    MaxSamples = 3
INVARIANTS
    TypeOK
    DetailIsPeak
    DetailOfEachSampled
    SummaryOfDetail
