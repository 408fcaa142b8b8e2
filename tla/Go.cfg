CONSTANT Cap = 1
CHECK_DEADLOCK FALSE
SPECIFICATION GCSpec
INVARIANTS
    DownloadArrives
PROPERTIES
    RequestIsAnswered
    ConnectionEnds
