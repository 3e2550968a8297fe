SPECIFICATION Spec
CONSTANTS
    draft = draft
    revise = revise
    publish = publish
    w1 = w1
    w2 = w2
    Worker = {w1, w2}
    Thread = {t1}
    Node <- LoopNodes
    First = draft
    End = End
    Ghost = Ghost
    None = None
    Route <- LoopRoute
    Gate = {revise}
    Mapped = {revise}
    Style <- LoopStyle
    MaxAttempts <- LoopAttempts
    RecursionLimit = 4
    Shared = TRUE
    MaxCalls = 4
    MaxCrashes = 1
INVARIANTS
    PathIsWalk
    LogIsTrace
PROPERTIES
    GateHonoured
SYMMETRY Workers
CHECK_DEADLOCK FALSE
