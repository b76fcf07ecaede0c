\* Two processes, two views, one output root.
CONSTANTS
    p1 = p1
    p2 = p2
    v1 = v1
    v2 = v2
    Procs <- MCProcs
    NoProc = NoProc
    Views <- MCViews
    Roots = {"out"}
    MaxIssues = 3
    MaxEvaluations = 3
    MaxCrashes = 2
    MaxErrors = 2
SPECIFICATION Spec
SYMMETRY Symmetry
CHECK_DEADLOCK FALSE
INVARIANTS
    TypeOK
    OpenedOnceGuarded
    SpentIsClosed
PROPERTIES
    OneFinalVerdict
