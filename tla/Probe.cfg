CONSTANTS
    Situations <- MCSituations
    Repeats = 2
    MaxLost = 1
CHECK_DEADLOCK FALSE
SPECIFICATION DPSpec
INVARIANTS
    DiagnosisIsSound
    CrashIsExplained
    MistrustIsExplained
    PassMeansArrived
PROPERTIES
    RunEnds
