SPECIFICATION FairSpec
CONSTANTS
    build = build
    test = test
    deploy = deploy
    broken = broken
    timer = timer
    agent = agent
    Tasks = {build, test, deploy, broken}
    Ticks = {timer, agent}
    Created <- QueueCreated
    Deps <- QueueDeps
    Empty = {broken}
    Raising = {test}
    MaxAttempts <- QueueAttempts
    Limit = 2
    None = None
    MaxLosses = 1
INVARIANTS
    AttemptsMatchStatus
    RunsAreCounted
    CompletedOverCompleted
PROPERTIES
    DecisionsStand
    Served
    ServesInBatches
CHECK_DEADLOCK FALSE
