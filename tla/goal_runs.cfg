SPECIFICATION FairSpec
CONSTANTS
    base = base
    left = left
    right = right
    top = top
    Goal <- Diamond
    Deps <- DiamondDeps
    Declared <- DiamondDeclared
    Priority <- DiamondPriority
    Key <- DiamondKey
    Required = {base, left, top}
    MaxAttempts <- DiamondAttempts
    Doubtful = {right, top}
    Touches <- DiamondTouches
    MaxCycles = 4
    MaxWorkers = 2
    MaxRuns = 2
    None = None
INVARIANTS
    ActsOnProven
    NothingLeftUndone
    PassedIsSound
    CheckpointIsReport
PROPERTIES
    Irrevocable
    ImplementsBoard
    Terminates
CHECK_DEADLOCK FALSE
