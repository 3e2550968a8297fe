SPECIFICATION Spec
CONSTANTS
    p1 = p1
    p2 = p2
    r1 = r1
    r2 = r2
    f1 = f1
    f2 = f2
    f3 = f3
    Proc = {p1, p2}
    Request = {r1, r2}
    File = {f1, f2}
    Paths <- NestedPaths
    Patch <- NestedPatch
    None = None
    EditsAnytime = TRUE
    MaxEdits = 1
    MaxCrashes = 1
PROPERTIES
    WritesNeedIntent
    LedgersOnlyGrow
SYMMETRY Procs
CHECK_DEADLOCK FALSE
