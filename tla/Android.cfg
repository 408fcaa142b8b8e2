CONSTANTS
    MaxSessions = 2
    Fallbacks = 2
CHECK_DEADLOCK FALSE
SPECIFICATION Spec
INVARIANTS
    OrphanIsExplained
PROPERTIES
    EndIsTold
