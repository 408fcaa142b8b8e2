CONSTANTS
    Keys = {k1, k2}
    Window = 2
    MaxHits = 2
    MaxTime = 6
    Period = 3
CHECK_DEADLOCK FALSE
SPECIFICATION Spec
INVARIANTS
    GoMemoryBound
PROPERTIES
    Implements
