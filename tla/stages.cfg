\* Two processes, three stages, five leases; no symmetry, for some of the
\* properties are temporal.
CONSTANTS
    p1 = p1
    p2 = p2
    Procs = {p1, p2}
    NoProc = NoProc
    AppSpec = AppSpec
    NoRoot = NoRoot
    StageCount = 3
    MaxLeases = 5
    MaxCrashes = 3
    MaxReplaced = 1
SPECIFICATION FairSpec
CHECK_DEADLOCK FALSE
INVARIANTS
    RunsAreOne
PROPERTIES
    PublishedIsFinal
    
