SPECIFICATION Spec
CONSTANTS
    Interval = 2
    MaxRound = 3
    Offsets <- Settable
    MaxBack = 3
    Width = 256
INVARIANTS
    TypeOK
    AdvertisedInTime
    SilenceIsBounded
PROPERTY NoBurst
