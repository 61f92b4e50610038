SPECIFICATION Spec
CONSTANTS
    p1 = p1
    p2 = p2
    Procs <- TwoProcs
    Policies <- Default
INVARIANT PinnedWhileRunning
