CONSTANTS
    Sessions = {x1}
    Idle = 2
    WriteLimit = 1
    FirstLimit = 1
    Rotation = 1
    Kinds = {"data", "padlike", "end"}
    MaxData = 2
    MaxQueue = 1
    MaxChunks = 1
    ClientReads = FALSE
    BackendReads = FALSE
CHECK_DEADLOCK FALSE
SPECIFICATION FairSpec
INVARIANTS
    UpstreamInOrder
    ActiveIsExact
    CancelledWaitIsBounded
PROPERTIES
    FinIsLast
    EndedSessionCloses
    NoGoroutineLeaks
