SPECIFICATION Spec
CONSTANTS
    Interval = 3
    MaxRound = 3
    Offsets <- Epoch
    MaxBack = 0
    Width = 256
INVARIANT LiveIsFresh
