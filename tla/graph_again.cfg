SPECIFICATION Spec
CONSTANTS
    draft = draft
    revise = revise
    publish = publish
    w1 = w1
    w2 = w2
    Worker = {w1, w2}
    Thread = {t1}
    Node <- AgainNodes
    First = draft
    End = End
    Ghost = Ghost
    None = None
    Route <- AgainRoute
    Gate = {}
    Mapped = {draft}
    Style <- AgainStyle
    MaxAttempts <- AgainAttempts
    RecursionLimit = 4
    Shared = FALSE
    MaxCalls = 4
    MaxCrashes = 2
INVARIANTS
    LogIsTrace
CHECK_DEADLOCK FALSE
