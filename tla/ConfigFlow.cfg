SPECIFICATION Spec
CONSTANTS
    Workers = {w1, w2}
    MaxCalls = 2
    MaxEvents = 1
    Down = Down
    NoFile = NoFile
SYMMETRY Symmetry
CHECK_DEADLOCK FALSE
INVARIANTS
    AppliedIsLive
    
    FailedApplyRestores
    GuiFollowsLan
    RevertedWanNotLive
    SetupCompleteMeansLive
    RecoveredFunnel
    BadgeSettles
PROPERTY FilesRefine
