CONSTANTS
    Sids = {s1}
    Conns = {c1}
    None = None
    MaxFrames = 3
    MaxChunks = 1
    Disciplined = FALSE
    ReuseIds = FALSE
    SendRaises = TRUE
    SendsOn = TRUE
    Tails = {"plain", "padlike"}
CHECK_DEADLOCK FALSE
SPECIFICATION FairSpec
PROPERTIES
    OpenIsAnswered
    EndedStreamCloses
    SessionFreesAll
    BackendEndIsTold
