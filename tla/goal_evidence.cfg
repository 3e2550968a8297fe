SPECIFICATION Spec
CONSTANTS
    base = base
    left = left
    right = right
    top = top
    Goal <- Pair
    Deps <- PairDeps
    Declared <- PairNumber
    Priority <- PairNumber
    Key <- PairNumber
    Required = {left, right}
    MaxAttempts <- PairAttempts
    Doubtful = {}
    Touches <- PairTouches
    MaxCycles = 4
    MaxWorkers = 2
    MaxRuns = 1
    None = None
INVARIANTS
    ProvenWhenAchieved
CHECK_DEADLOCK FALSE
