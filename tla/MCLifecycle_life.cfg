SPECIFICATION FairSpec
CONSTANTS
    p1 = p1
    p2 = p2
    Procs <- TwoProcs
    Policies <- Prudent
INVARIANTS
    TypeOK
    RunningOwnsPins
    ConsumersSurvive
    CleanExitLeavesNoPin
    SourceLoadedWhenUsed
PROPERTY SignalEnds
