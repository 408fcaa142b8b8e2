CONSTANTS
    SetupWait = 2
    MaxRounds = 3
    ReadWait = 2
    IdleWait = 1
    Modes = {"direct", "shape"}
    MaxData = 2
CHECK_DEADLOCK FALSE
SPECIFICATION Spec
INVARIANTS
    SetupIsBounded
    LossIsExplained
PROPERTIES
    RelayEnds
    NoOrphans
