SPECIFICATION FairSpec
CONSTANTS
    base = base
    mid = mid
    leaf = leaf
    full = full
    small = small
    Services = {base, mid, leaf}
    Manifests = {full, small}
    Order <- ChainOrder
    Deps <- ChainDeps
    Policy <- ChainPolicy
    None = None
    MaxCopies = 7
    MaxDeaths = 2
    MaxSupervisors = 2
INVARIANTS
    Owned
    StoppedMeansGone
    TableIsManifest
    FileNamesTheLiving
PROPERTIES
    StartsOverDependencies
    StopsDependentsFirst
    ImplementsFleet
    CallsEnd
    Heals
CHECK_DEADLOCK FALSE
