\* Two processes, two root bindings, a directory that may be swapped for
\* another; no symmetry, for some of the properties are temporal.
CONSTANTS
    Procs = {p1, p2}
    NoProc = NoProc
    Dirs = {d1, d2}
    HomeDir = d1
    ExpectedDirs = {d1, d2}
    Roots = {r1, r2}
    NoRoot = NoRoot
    MaxLeases = 3
    MaxChanges = 2
SPECIFICATION FairSpec
CHECK_DEADLOCK FALSE
INVARIANTS
    TypeOK
    AtMostOneValid
    HistoryIsAuditTrail
    NoSpuriousLoss
PROPERTIES
    ImplementsFencedLease
    AcquireReturns
