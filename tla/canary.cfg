\* Two processes under the fairness of the scheduler, two seals, two possible
\* answers, three runs of the command; no symmetry, for RunEnds is temporal.
CONSTANTS
    Procs = {p1, p2}
    NoProc = NoProc
    Seals = {s1, s2}
    NoSeal = NoSeal
    Answers = {a1, a2}
    NoAnswer = NoAnswer
    MaxStarts = 3
    MaxChanges = 2
SPECIFICATION FairSpec
CHECK_DEADLOCK FALSE
INVARIANTS
    TypeOK
    BudgetHeld
    EvidenceStands
PROPERTIES
    KeepsPromise
    RunEnds
