SPECIFICATION Spec
CONSTANTS
    p1 = p1
    p2 = p2
    r1 = r1
    r2 = r2
    f1 = f1
    f2 = f2
    f3 = f3
    Proc = {p1}
    Request = {r1}
    File = {f1, f2, f3}
    Paths <- SinglePaths
    Patch <- SinglePatch
    None = None
    EditsAnytime = FALSE
    MaxEdits = 0
    MaxCrashes = 2
INVARIANTS
    RecoveryPossible
CHECK_DEADLOCK FALSE
