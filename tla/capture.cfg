CONSTANTS
    p1 = p1
    p2 = p2
    Procs = {p1, p2}
    NoProc = NoProc
    a1 = a1
    a2 = a2
    Activities = {a1, a2}
    NoActivity = NoActivity
    NumRequests = 2
    Answers <- MCAnswers
    MaxRequests = 3
    MaxVolume = 2
    MaxRetries = 1
    MaxRuns = 3
    MaxCrashes = 2
SPECIFICATION Spec
SYMMETRY Symmetry
INVARIANTS JournalIsAccepted  AtMostOneLate 
CHECK_DEADLOCK FALSE
