SPECIFICATION FairSpec
CONSTANTS
    p1 = p1
    p2 = p2
    r1 = r1
    r2 = r2
    f1 = f1
    f2 = f2
    f3 = f3
    Proc = {p1}
    Request = {r1, r2}
    File = {f1, f2, f3}
    Paths <- ApartPaths
    Patch <- ApartPatch
    None = None
    EditsAnytime = FALSE
    MaxEdits = 1
    MaxCrashes = 2
INVARIANTS
    TornMeansIntent
    LedgerIsTrue
PROPERTIES
    TerminalMeansImage
    LockIsReleased
    ImplementsAtomicPatch
CHECK_DEADLOCK FALSE
