SPECIFICATION FairSpec
CONSTANTS
    local = local
    api = api
    harness = harness
    f1 = f1
    f2 = f2
    Worker = {local, api, harness}
    Score = {1, 2}
    Minimum = 1
    MaxRounds = 2
    Requests <- AllRequests
    Failure = {f1, f2}
    None = None
INVARIANTS
    RaceIsFair
    SuccessStands
PROPERTIES
    RunEnds
CHECK_DEADLOCK FALSE
