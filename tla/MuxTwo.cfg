CONSTANTS
    Sids = {s1, s2}
    Conns = {c1, c2}
    None = None
    MaxFrames = 3
    MaxChunks = 2
    Disciplined = TRUE
    ReuseIds = FALSE
    SendRaises = TRUE
    SendsOn = FALSE
    Tails = {"plain", "padlike"}
CHECK_DEADLOCK FALSE
SPECIFICATION Spec
SYMMETRY Symmetry
INVARIANTS
    TypeInv
    TableIsExact
    StreamWellFormed
PROPERTIES
    DataLossIsExplained
