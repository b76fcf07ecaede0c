--------------------------- MODULE ComputeProofs ---------------------------
(***************************************************************************)
(* Machine-checked proofs about the local compute scheduler and its GPU    *)
(* lease files, for every set of jobs, dependencies, devices and bounds.   *)
(*                                                                         *)
(* ComputeScheduler: what run() holds at each place (Control), and, until  *)
(* somebody cancels a job or a job has a second line in                    *)
(* compute_jobs.jsonl (Calm), what the rows of the store say: jobs start   *)
(* when they are due, success is final, and a run that ends by itself      *)
(* forgets nothing.                                                        *)
(*                                                                         *)
(* GpuLease: while schedulers come one after another, a device is given to *)
(* one job at a time and the lock files tell who has it.                   *)
(***************************************************************************)
EXTENDS ComputeScheduler, GpuLease, TLAPS, WellFoundedInduction, FiniteSetTheorems

-----------------------------------------------------------------------------
(* The invariant: where a run is, and what it holds *)

Pooling == main \in {"collect", "judge", "drain", "raise"}

Snapshots == [job: Jobs, known: SUBSET Jobs, status: [Jobs -> Statuses],
              attempts: [Jobs -> Nat]]

Counted ==
    /\ crashes \in Nat /\ faults \in Nat /\ cancels \in 0..MaxCancels
    /\ snapshot = NoSnapshot \/ snapshot \in Snapshots
    /\ cancels = 0 => snapshot = NoSnapshot

\* What run() has in its hands at each place.
Phase ==
    /\ main \in {"down", "plan", "report"} => queue = {} /\ batch = {}
    /\ main \in {"down", "plan", "schedule", "collect", "report"} => job = NoLine
    /\ main = "lease" => job \in lines /\ job \notin batch /\ job \notin queue
    /\ Pooling => queue = {}
    /\ main \in {"judge", "drain", "raise"} => job \in batch
    /\ queue \cap batch = {}

\* Only lines of the batch have threads at work; a run that is over has an
\* outcome.
Thread(l) ==
    /\ Busy(l) => l \in batch /\ Pooling
    /\ l \in batch /\ Pooling => worker[l] # "none"
    /\ worker[l] \in {"record", "finish", "done"} => result[l] # "none"
    /\ worker[l] = "raised" => faults > 0

\* Why run() is where it is.
Called ==
    /\ main \in {"judge", "drain"} =>
          worker[job] = "done" /\ result[job] \in Failures
    /\ main = "drain" => FailFast
    /\ main = "raise" => worker[job] = "raised"

\* GPUs are leased to lines in hand.
Allotment ==
    /\ \A l \in Lines: leases[l] # 0 => l \in batch \/ l = job
    /\ main \in {"judge", "drain", "raise"} => leases[job] = 0
    /\ crashes = 0 /\ faults = 0 /\ ~FailFast => leaked = 0

Control ==
    /\ TypeOK /\ Counted /\ Phase /\ Called /\ Allotment
    /\ \A l \in Lines: Thread(l)

-----------------------------------------------------------------------------
(* The invariant: what the store says of the jobs *)

\* Nobody has cancelled a job, and no job was submitted twice.
Calm ==
    /\ cancels = 0
    /\ \A l, m \in lines: JobOf(l) = JobOf(m) => l = m

Sound(j) ==
    /\ status[j] = "success" => lastRun[j] = "success"
    /\ launches[j] <= attempts[j] /\ attempts[j] <= MaxRetries[j] + 1
    /\ j \notin known => status[j] = "pending"
    /\ status[j] # "cancelled"

\* A line that has been found runnable and not been started.
Due(j) == DependenciesSatisfied(j) /\ RetriesLeft(j) /\ status[j] # "success"

\* A line that a thread works on.
Worked(l) ==
    /\ DependenciesSatisfied(JobOf(l))
    /\ worker[l] # "done" => status[JobOf(l)] # "success"
    /\ worker[l] = "count" => RetriesLeft(JobOf(l))
    /\ worker[l] \in {"mark", "launch"} => launches[JobOf(l)] < attempts[JobOf(l)]
    /\ worker[l] = "finish" => lastRun[JobOf(l)] = result[l]
    /\ worker[l] = "done" => status[JobOf(l)] = result[l] /\ JobOf(l) \in known

InHand(l) ==
    /\ l \in queue => Due(JobOf(l))
    /\ l = job /\ main = "lease" => Due(JobOf(l))
    /\ l \in batch /\ ~Pooling => Due(JobOf(l))
    /\ l \in batch /\ Pooling => Worked(l)

InBatch(j) == \E l \in batch: JobOf(l) = j

Undisturbed == crashes = 0 /\ faults = 0

\* Where a row that says leased or running must be of a job in the batch.
Exact ==
    \/ Undisturbed
    \/ resume /\ main \in {"plan", "schedule", "lease", "collect", "judge"}
    \/ resume /\ main = "report" /\ ~FailFast

Marked(j) == Exact /\ status[j] \in {"leased", "running"} => InBatch(j)

\* A job whose latest run failed is on record or in hand, or will be runnable.
Failed(j) ==
    Undisturbed /\ lastRun[j] \in Failures =>
        \/ status[j] \in Failures \cup {"resumed"}
        \/ InBatch(j)
        \/ status[j] = "pending" /\ DependenciesSatisfied(j) /\ RetriesLeft(j)

\* Batches are made until no job can run but those that need a device.
CpuInBatch == \E m \in batch: ~OnGpu(m)

Planned(l) ==
    /\ main \in {"schedule", "lease"} /\ Runnable(JobOf(l)) /\ ~OnGpu(l) =>
          l \in queue \/ l \in batch \/ CpuInBatch
    /\ main = "report" /\ Runnable(JobOf(l)) /\ ~OnGpu(l) =>
          FailFast /\ \E j \in known: status[j] \in Failures

Jobwise == \A j \in Jobs: Sound(j) /\ Marked(j) /\ Failed(j)
Linewise == \A l \in lines: InHand(l) /\ Planned(l)

IInv == Control /\ (Calm => Jobwise /\ Linewise)

-----------------------------------------------------------------------------
(* Sums over finite sets *)

LEMMA Smallest ==
    ASSUME NEW T \in SUBSET Nat, T # {}
    PROVE  \E x \in T: \A y \in T: x <= y
<1>1. \E x \in T: \A y \in T: ~ (<<y, x>> \in OpToRel(<, Nat))
  BY NatLessThanWellFounded, WFMin, Zenon
<1>2. PICK x \in T: \A y \in T: ~ (<<y, x>> \in OpToRel(<, Nat))
  BY <1>1
<1>3. \A y \in T: ~ (y < x)
  BY <1>2 DEF OpToRel
<1>4. QED BY <1>3

Any(s) == CHOOSE x \in s: TRUE
Rest(s) == s \ {Any(s)}

\* g gives each set in D the sum of F over it.
Adds(F, D, g) ==
    g = [s \in D |-> IF s = {} THEN 0 ELSE F[Any(s)] + g[Rest(s)]]

\* The subsets of S of at most n elements.
UpTo(S, n) == {s \in SUBSET S: Cardinality(s) <= n}

Natural(F, S) == \A x \in S: F[x] \in Nat

LEMMA RestFacts ==
    ASSUME NEW S, IsFiniteSet(S), NEW s \in SUBSET S, s # {}
    PROVE  /\ Any(s) \in s /\ Any(s) \in S /\ Rest(s) \in SUBSET S
           /\ Cardinality(s) \in Nat \ {0}
           /\ Cardinality(Rest(s)) = Cardinality(s) - 1
<1>1. Any(s) \in s
  BY DEF Any
<1>2. IsFiniteSet(s)
  BY FS_Subset
<1>3. Cardinality(s) \in Nat /\ Cardinality(s) # 0
  BY <1>2, FS_CardinalityType, FS_EmptySet
<1>4. Cardinality(s \ {Any(s)}) = Cardinality(s) - 1
  BY <1>1, <1>2, FS_RemoveElement
<1>5. QED BY <1>1, <1>3, <1>4 DEF Rest

LEMMA SumsUpTo ==
    ASSUME NEW S, IsFiniteSet(S), NEW F, Natural(F, S), NEW n \in Nat
    PROVE  \E g \in [UpTo(S, n) -> Nat]: Adds(F, UpTo(S, n), g)
<1> DEFINE Bad == {m \in Nat: ~\E g \in [UpTo(S, m) -> Nat]: Adds(F, UpTo(S, m), g)}
<1>1. SUFFICES ASSUME NEW m \in Bad, \A k \in Bad: m <= k PROVE FALSE
  <2>1. Bad \in SUBSET Nat
    OBVIOUS
  <2>2. n \in Bad \/ \E g \in [UpTo(S, n) -> Nat]: Adds(F, UpTo(S, n), g)
    OBVIOUS
  <2> HIDE DEF Bad
  <2>3. QED BY <1>1, <2>1, <2>2, Smallest
<1>2. \A s \in SUBSET S: IsFiniteSet(s) /\ Cardinality(s) \in Nat
  BY FS_Subset, FS_CardinalityType
<1>3. CASE m = 0
  <2> DEFINE g == [s \in UpTo(S, 0) |-> 0]
  <2>1. \A s \in UpTo(S, 0): s = {}
    BY <1>2, FS_EmptySet DEF UpTo
  <2>2. g \in [UpTo(S, 0) -> Nat] /\ Adds(F, UpTo(S, 0), g)
    BY <2>1 DEF Adds
  <2>3. QED BY <1>3, <2>2
<1>4. CASE m # 0
  <2>1. m - 1 \in Nat /\ m - 1 \notin Bad
    BY <1>1, <1>4
  <2>2. PICK g \in [UpTo(S, m - 1) -> Nat]: Adds(F, UpTo(S, m - 1), g)
    BY <2>1
  <2> DEFINE Value(s) == IF s = {} THEN 0 ELSE F[Any(s)] + g[Rest(s)]
             h == [s \in UpTo(S, m) |-> Value(s)]
  <2>3. ASSUME NEW s \in UpTo(S, m), s # {}
        PROVE  /\ Rest(s) \in UpTo(S, m - 1) /\ Rest(s) \in UpTo(S, m)
               /\ Any(s) \in S
    BY <1>2, <2>3, RestFacts DEF UpTo
  <2>4. \A s \in UpTo(S, m): Value(s) \in Nat
    BY <2>3 DEF Natural
  <2>5. h \in [UpTo(S, m) -> Nat]
    BY <2>4
  <2>6. \A s \in UpTo(S, m - 1): g[s] = Value(s)
    BY <2>2 DEF Adds
  <2>7. \A s \in UpTo(S, m - 1): s \in UpTo(S, m)
    BY <1>2 DEF UpTo
  <2>8. \A s \in UpTo(S, m - 1): h[s] = g[s]
    BY <2>6, <2>7
  <2>9. \A s \in UpTo(S, m): s # {} => h[Rest(s)] = g[Rest(s)]
    BY <2>3, <2>8
  <2>10. h = [s \in UpTo(S, m) |-> IF s = {} THEN 0 ELSE F[Any(s)] + h[Rest(s)]]
    BY <2>9
  <2>11. QED BY <2>5, <2>10 DEF Adds
<1>5. QED BY <1>3, <1>4

LEMMA SumExists ==
    ASSUME NEW S, IsFiniteSet(S), NEW F, Natural(F, S)
    PROVE  \E g \in [SUBSET S -> Nat]: Adds(F, SUBSET S, g)
<1>1. SUBSET S = UpTo(S, Cardinality(S)) /\ Cardinality(S) \in Nat
  BY FS_Subset, FS_CardinalityType DEF UpTo
<1>2. \E g \in [UpTo(S, Cardinality(S)) -> Nat]: Adds(F, UpTo(S, Cardinality(S)), g)
  BY <1>1, SumsUpTo
<1>3. QED BY <1>1, <1>2

LEMMA SumUnique ==
    ASSUME NEW S, IsFiniteSet(S), NEW F,
           NEW g, Adds(F, SUBSET S, g), NEW h, Adds(F, SUBSET S, h)
    PROVE  g[S] = h[S]
<1> DEFINE Bad == {n \in Nat: \E s \in SUBSET S: Cardinality(s) = n /\ h[s] # g[s]}
<1>1. \A s \in SUBSET S: Cardinality(s) \in Nat
  BY FS_Subset, FS_CardinalityType
<1>2. SUFFICES ASSUME NEW n \in Bad, \A m \in Bad: n <= m PROVE FALSE
  <2>1. Bad \in SUBSET Nat
    OBVIOUS
  <2>2. g[S] = h[S] \/ Bad # {}
    BY <1>1
  <2> HIDE DEF Bad
  <2>3. QED BY <1>2, <2>1, <2>2, Smallest
<1>3. PICK s \in SUBSET S: Cardinality(s) = n /\ h[s] # g[s]
  OBVIOUS
<1>4. CASE s = {}
  BY <1>3, <1>4 DEF Adds
<1>5. CASE s # {}
  <2>1. Rest(s) \in SUBSET S /\ Cardinality(Rest(s)) = n - 1 /\ n - 1 \in Nat
    BY <1>3, <1>5, RestFacts
  <2>2. n - 1 \notin Bad
    BY <1>2, <2>1
  <2>3. h[Rest(s)] = g[Rest(s)]
    BY <2>1, <2>2
  <2>4. h[s] = F[Any(s)] + h[Rest(s)] /\ g[s] = F[Any(s)] + g[Rest(s)]
    BY <1>3, <1>5 DEF Adds
  <2>5. QED BY <1>3, <2>3, <2>4
<1>6. QED BY <1>4, <1>5

Sum(F, S) == (CHOOSE g: Adds(F, SUBSET S, g))[S]

LEMMA SumIs ==
    ASSUME NEW S, IsFiniteSet(S), NEW F, NEW g, Adds(F, SUBSET S, g)
    PROVE  Sum(F, S) = g[S]
<1> DEFINE h == CHOOSE x: Adds(F, SUBSET S, x)
<1>1. Adds(F, SUBSET S, h)
  OBVIOUS
<1> HIDE DEF h
<1>2. h[S] = g[S]
  BY <1>1, SumUnique
<1>3. QED BY <1>2 DEF Sum, h

LEMMA LeasedSum == Leased = Sum(leases, Lines)
BY SMT DEF Leased, MapThenSumSet, MapThenFoldSet, Sum, Adds, Any, Rest

LEMMA LinesFinite == IsFiniteSet(Lines)
<1>1. IsFiniteSet(1..MaxLines)
  BY BoundsAssumption, FS_Interval
<1>2. QED BY <1>1, JobsAssumption, FS_Product DEF Lines

\* What is leased is a number of GPUs, and none when no line has any.
LEMMA LeasedFacts ==
    ASSUME leases \in [Lines -> Nat]
    PROVE  Leased \in Nat /\ ((\A l \in Lines: leases[l] = 0) => Leased = 0)
<1>1. Natural(leases, Lines)
  BY DEF Natural
<1>2. PICK g \in [SUBSET Lines -> Nat]: Adds(leases, SUBSET Lines, g)
  BY <1>1, LinesFinite, SumExists
<1>3. Leased = g[Lines]
  BY <1>2, LinesFinite, SumIs, LeasedSum
<1>4. ASSUME \A l \in Lines: leases[l] = 0 PROVE Leased = 0
  <2> DEFINE z == [s \in SUBSET Lines |-> 0]
  <2>1. \A s \in SUBSET Lines: s # {} => Any(s) \in Lines /\ Rest(s) \in SUBSET Lines
    BY LinesFinite, RestFacts
  <2>2. Adds(leases, SUBSET Lines, z)
    BY <1>4, <2>1 DEF Adds
  <2>3. z[Lines] = 0
    OBVIOUS
  <2> HIDE DEF z
  <2>4. QED BY <2>2, <2>3, LinesFinite, SumIs, LeasedSum
<1>5. g[Lines] \in Nat
  BY <1>2
<1>6. QED BY <1>3, <1>4, <1>5

-----------------------------------------------------------------------------
(* Lines *)

LEMMA LineFacts ==
    /\ NoLine \notin Lines
    /\ \A l \in Lines: JobOf(l) \in Jobs /\ l[2] \in Nat /\ l = <<l[1], l[2]>>
BY BoundsAssumption DEF NoLine, Lines, JobOf

\* The line considered next is in the queue.
LEMMA FirstIn ==
    ASSUME NEW ls \in SUBSET Lines, ls # {}
    PROVE  First(ls) \in ls
<1> DEFINE js == {l[1]: l \in ls}
<1>1. PICK j \in js: \A i \in js: j <= i
  <2>1. js \in SUBSET Nat /\ js # {}
    BY JobsAssumption DEF Lines
  <2> HIDE DEF js
  <2>2. QED BY <2>1, Smallest
<1> DEFINE ns == {l[2]: l \in {m \in ls: m[1] = j}}
<1>2. PICK n \in ns: \A i \in ns: n <= i
  <2>1. ns \in SUBSET Nat /\ ns # {}
    BY <1>1, LineFacts
  <2> HIDE DEF ns
  <2>2. QED BY <2>1, Smallest
<1>3. PICK l \in ls: l[1] = j /\ l[2] = n
  BY <1>2
<1>4. ASSUME NEW m \in ls PROVE l[1] < m[1] \/ (l[1] = m[1] /\ l[2] <= m[2])
  <2>1. j <= m[1] /\ j \in Nat /\ m[1] \in Nat
    BY <1>1, JobsAssumption DEF Lines
  <2>2. CASE m[1] = j
    <3>1. m[2] \in ns
      BY <2>2
    <3>2. QED BY <1>2, <1>3, <2>2, <3>1
  <2>3. CASE m[1] # j
    BY <1>3, <2>1, <2>3
  <2>4. QED BY <2>2, <2>3
<1>5. \E x \in ls: \A m \in ls: x[1] < m[1] \/ (x[1] = m[1] /\ x[2] <= m[2])
  BY <1>4
<1>6. QED BY <1>5 DEF First

-----------------------------------------------------------------------------
(* Where a run is: the steps of the loop *)

LEMMA RowFacts ==
    \A k, s, a: [known |-> k, status |-> s, attempts |-> a] \in Rows <=>
        k \in SUBSET Jobs /\ s \in [Jobs -> Statuses] /\ a \in [Jobs -> Nat]
BY DEF Rows

LEMMA StatusFacts ==
    /\ {"pending", "leased", "running", "success", "cancelled", "resumed",
        "failed", "timed_out"} = Statuses
    /\ Failures = {"failed", "timed_out"}
BY DEF Statuses, Failures

LEMMA ControlInit == Init => Control
<1> SUFFICES ASSUME Init PROVE Control
  OBVIOUS
<1>1. TypeOK
  <2>1. [known |-> known, status |-> status, attempts |-> attempts] \in Rows
    BY RowFacts, StatusFacts DEF Init
  <2>2. lines \subseteq Lines /\ queue \subseteq lines /\ batch \subseteq lines
        /\ job \in lines \cup {NoLine}
    BY DEF Init
  <2>3. /\ main = "down" /\ resume \in BOOLEAN /\ snapshot = NoSnapshot
        /\ worker \in [Lines -> {"none"}] /\ result \in [Lines -> {"none"}]
        /\ leases \in [Lines -> {0}] /\ leaked = 0
        /\ lastRun \in [Jobs -> {"none"}] /\ launches \in [Jobs -> {0}]
    BY DEF Init
  <2>4. /\ worker \in [Lines -> {"none", "count", "mark", "launch", "run", "record",
                               "finish", "done", "raised"}]
        /\ result \in [Lines -> {"none", "success"} \cup Failures]
        /\ leases \in [Lines -> Nat] /\ leaked \in Nat
        /\ lastRun \in [Jobs -> {"none", "success"} \cup Failures]
        /\ launches \in [Jobs -> Nat]
    BY <2>3
  <2>5. QED BY <2>1, <2>2, <2>3, <2>4 DEF TypeOK
<1>2. Counted /\ Phase /\ Called
  BY BoundsAssumption DEF Init, Counted, Phase, Called, Pooling
<1>3. Allotment
  BY DEF Init, Allotment
<1>4. \A l \in Lines: Thread(l)
  BY DEF Init, Thread, Busy, Pooling
<1>5. QED BY <1>1, <1>2, <1>3, <1>4 DEF Control

\* Steps of the store alone.
Apart ==
    UNCHANGED <<main, resume, queue, batch, job, worker, result, leases, leaked,
                lastRun, launches, crashes, faults>>

LEMMA ApartFrame ==
    ASSUME Control, Apart, lines \subseteq lines'
    PROVE  Phase' /\ Called' /\ Allotment' /\ (\A l \in Lines: Thread(l)')
BY DEF Control, Apart, Phase, Called, Allotment, Thread, Busy, Pooling

LEMMA SubmitControl ==
    ASSUME Control, Submit PROVE Control'
<1> USE DEF threads, loop, devices, history, events
<1>1. Apart /\ lines' = lines \cup NewLines(Jobs) /\ known' = Jobs
      /\ UNCHANGED <<status, attempts, snapshot, cancels>> /\ NewLines(Jobs) \subseteq Lines
  BY DEF Submit, Apart
<1>2. TypeOK'
  BY <1>1, RowFacts DEF Control, TypeOK, Apart
<1>3. Counted'
  BY <1>1 DEF Control, Counted, Apart
<1>4. QED BY <1>1, <1>2, <1>3, ApartFrame DEF Control

LEMMA SubmitTornControl ==
    ASSUME Control, SubmitTorn PROVE Control'
<1> USE DEF threads, loop, devices, history, events
<1>1. Apart /\ lines \subseteq lines' /\ UNCHANGED <<known, status, attempts, snapshot, cancels>>
      /\ lines' \subseteq Lines
  BY DEF SubmitTorn, Apart, Control, TypeOK
<1>2. TypeOK'
  BY <1>1, RowFacts DEF Control, TypeOK, Apart
<1>3. Counted'
  BY <1>1 DEF Control, Counted, Apart
<1>4. QED BY <1>1, <1>2, <1>3, ApartFrame DEF Control

LEMMA CancelReadControl ==
    ASSUME Control, NEW j \in Jobs, CancelRead(j) PROVE Control'
<1> USE DEF store, threads, loop, devices, history, events
<1>1. Apart /\ UNCHANGED <<lines, known, status, attempts>> /\ cancels' = cancels + 1
      /\ snapshot' = [job |-> j, known |-> known, status |-> status, attempts |-> attempts]
      /\ cancels < MaxCancels
  BY DEF CancelRead, Apart
<1>2. snapshot' \in Snapshots /\ snapshot'.job \in Jobs
  BY <1>1, RowFacts DEF Control, TypeOK, Snapshots
<1>3. TypeOK'
  BY <1>1, <1>2, RowFacts DEF Control, TypeOK, Apart
<1>4. Counted'
  BY <1>1, <1>2, BoundsAssumption DEF Control, Counted, Apart
<1>5. QED BY <1>1, <1>3, <1>4, ApartFrame DEF Control

LEMMA CancelWriteControl ==
    ASSUME Control, CancelWrite PROVE Control'
<1> USE DEF store, threads, loop, devices, history, events
<1>1. Apart /\ UNCHANGED <<lines, cancels>> /\ snapshot # NoSnapshot /\ snapshot' = NoSnapshot
      /\ known' = snapshot.known \cup {snapshot.job} /\ attempts' = snapshot.attempts
      /\ status' = [snapshot.status EXCEPT ![snapshot.job] = "cancelled"]
  BY DEF CancelWrite, Apart
<1>2. snapshot \in Snapshots
  BY <1>1 DEF Control, Counted
<1>3. /\ snapshot.known \in SUBSET Jobs /\ snapshot.job \in Jobs
      /\ snapshot.status \in [Jobs -> Statuses] /\ snapshot.attempts \in [Jobs -> Nat]
  BY <1>2 DEF Snapshots
<1>4. TypeOK'
  BY <1>1, <1>3, RowFacts, StatusFacts DEF Control, TypeOK, Apart
<1>5. Counted'
  BY <1>1 DEF Control, Counted, Apart
<1>6. QED BY <1>1, <1>4, <1>5, ApartFrame DEF Control

\* Steps of the loop outside the pool: no thread is at work.
LEMMA StillThreads ==
    ASSUME Control, ~Pooling, ~Pooling', UNCHANGED <<worker, result, faults>>
    PROVE  \A l \in Lines: Thread(l)'
BY DEF Control, Thread, Busy, Pooling

LEMMA StartControl ==
    ASSUME Control, NEW r \in BOOLEAN, Start(r) PROVE Control'
<1> USE DEF threads, devices, history
<1>1. /\ main = "down" /\ main' = "plan" /\ resume' = r
      /\ status' = IF r THEN [j \in Jobs |-> Resumed(j)] ELSE status
      /\ UNCHANGED <<lines, known, attempts, worker, result, queue, batch, job, leases, leaked,
                     snapshot, lastRun, launches, crashes, faults, cancels>>
  BY DEF Start
<1>2. TypeOK'
  <2>1. \A j \in Jobs: Resumed(j) \in Statuses
    BY RowFacts, StatusFacts DEF Control, TypeOK, Resumed
  <2>2. status' \in [Jobs -> Statuses]
    BY <1>1, <2>1, RowFacts DEF Control, TypeOK
  <2>3. QED BY <1>1, <2>2, RowFacts DEF Control, TypeOK
<1>3. Counted' /\ Phase' /\ Called' /\ Allotment'
  BY <1>1 DEF Control, Counted, Phase, Called, Allotment, Pooling
<1>4. \A l \in Lines: Thread(l)'
  BY <1>1, StillThreads DEF Pooling
<1>5. QED BY <1>2, <1>3, <1>4 DEF Control

LEMMA PlanControl ==
    ASSUME Control, Plan PROVE Control'
<1> USE DEF store, threads, devices, history, events
<1>1. /\ main = "plan" /\ queue' = {l \in lines: Runnable(JobOf(l))}
      /\ main' = IF queue' = {} THEN "report" ELSE "schedule"
      /\ UNCHANGED <<lines, known, status, attempts, worker, result, resume, batch, job, leases,
                     leaked, snapshot, lastRun, launches, crashes, faults, cancels>>
  BY DEF Plan
<1>2. TypeOK'
  BY <1>1 DEF Control, TypeOK
<1>3. Counted' /\ Phase' /\ Called' /\ Allotment'
  BY <1>1 DEF Control, Counted, Phase, Called, Allotment, Pooling
<1>4. \A l \in Lines: Thread(l)'
  BY <1>1, StillThreads DEF Pooling
<1>5. QED BY <1>2, <1>3, <1>4 DEF Control

\* The candidate is a line of the queue, not in the batch.
LEMMA CandidateIn ==
    ASSUME Control, queue # {}
    PROVE  Candidate \in queue /\ Candidate \in lines /\ Candidate \in Lines
           /\ Candidate \notin batch /\ Candidate # NoLine
<1>1. Candidate \in queue
  BY FirstIn DEF Candidate, Control, TypeOK
<1>2. QED BY <1>1, LineFacts DEF Control, TypeOK, Phase

LEMMA ConsiderControl ==
    ASSUME Control, Consider PROVE Control'
<1> USE DEF store, threads, devices, history, events
<1> DEFINE c == Candidate
<1>1. /\ main = "schedule" /\ queue' = queue \ {c} /\ batch' \in {batch, batch \cup {c}}
      /\ c \in queue /\ c \in lines
      /\ UNCHANGED <<lines, known, status, attempts, worker, result, main, resume, job, leases,
                     leaked, snapshot, lastRun, launches, crashes, faults, cancels>>
  BY CandidateIn DEF Consider
<1> HIDE DEF c
<1>2. TypeOK'
  BY <1>1 DEF Control, TypeOK
<1>3. Counted' /\ Phase' /\ Called' /\ Allotment'
  BY <1>1 DEF Control, Counted, Phase, Called, Allotment, Pooling
<1>4. \A l \in Lines: Thread(l)'
  BY <1>1, StillThreads DEF Pooling
<1>5. QED BY <1>2, <1>3, <1>4 DEF Control

LEMMA LeaseControl ==
    ASSUME Control, Lease PROVE Control'
<1> USE DEF store, threads, history, events
<1> DEFINE c == Candidate
<1>1. /\ main = "schedule" /\ queue' = queue \ {c} /\ leaked' \in 0..leaked
      /\ leases' = [leases EXCEPT ![c] = GpusOf[JobOf(c)]] /\ job' = c /\ main' = "lease"
      /\ UNCHANGED <<lines, known, status, attempts, worker, result, resume, batch,
                     snapshot, lastRun, launches, crashes, faults, cancels>>
  BY DEF Lease
<1>2. c \in queue /\ c \in lines /\ c \in Lines /\ c \notin batch
  BY CandidateIn DEF Lease
<1>3. GpusOf[JobOf(c)] \in Nat
  BY <1>2, LineFacts, SpecAssumption
<1> HIDE DEF c
<1>4. TypeOK'
  BY <1>1, <1>2, <1>3 DEF Control, TypeOK
<1>5. Counted' /\ Phase' /\ Called'
  BY <1>1, <1>2 DEF Control, Counted, Phase, Called, Pooling
<1>6. Allotment'
  <2>1. \A l \in Lines: leases'[l] # 0 => l \in batch' \/ l = job'
    BY <1>1, <1>2, LineFacts DEF Control, Allotment, TypeOK, Phase
  <2>2. leaked = 0 => leaked' = 0
    BY <1>1
  <2>3. QED BY <1>1, <2>1, <2>2 DEF Control, Allotment
<1>7. \A l \in Lines: Thread(l)'
  BY <1>1, StillThreads DEF Pooling
<1>8. QED BY <1>4, <1>5, <1>6, <1>7 DEF Control

LEMMA MarkLeasedControl ==
    ASSUME Control, MarkLeased PROVE Control'
<1> USE DEF threads, devices, history, events
<1>1. /\ main = "lease" /\ UpdateStatus(JobOf(job), "leased") /\ batch' = batch \cup {job}
      /\ job' = NoLine /\ main' = "schedule"
      /\ UNCHANGED <<lines, attempts, worker, result, resume, queue, leases, leaked,
                     snapshot, lastRun, launches, crashes, faults, cancels>>
  BY DEF MarkLeased
<1>2. job \in lines /\ job \notin queue
  BY <1>1 DEF Control, Phase
<1>3. JobOf(job) \in Jobs
  BY <1>2, LineFacts DEF Control, TypeOK
<1>4. TypeOK'
  BY <1>1, <1>2, <1>3, RowFacts, StatusFacts DEF Control, TypeOK, UpdateStatus
<1>5. Counted' /\ Phase' /\ Called' /\ Allotment'
  BY <1>1, <1>2 DEF Control, Counted, Phase, Called, Allotment, Pooling
<1>6. \A l \in Lines: Thread(l)'
  BY <1>1, StillThreads DEF Pooling
<1>7. QED BY <1>4, <1>5, <1>6 DEF Control

LEMMA NoLeaseControl ==
    ASSUME Control, NoLease PROVE Control'
<1> USE DEF threads, history, events
<1> DEFINE c == Candidate
<1>1. /\ main = "schedule" /\ queue' = queue \ {c} /\ leaked' \in 0..leaked
      /\ IF FailFast THEN UpdateStatus(JobOf(c), "failed") ELSE UNCHANGED <<known, status>>
      /\ UNCHANGED <<lines, attempts, worker, result, main, resume, batch, job, leases,
                     snapshot, lastRun, launches, crashes, faults, cancels>>
  BY DEF NoLease
<1>2. c \in Lines
  BY CandidateIn DEF NoLease
<1>3. JobOf(c) \in Jobs
  BY <1>2, LineFacts
<1> HIDE DEF c
<1>4. TypeOK'
  BY <1>1, <1>3, RowFacts, StatusFacts DEF Control, TypeOK, UpdateStatus
<1>5. Counted' /\ Phase' /\ Called'
  BY <1>1 DEF Control, Counted, Phase, Called, Pooling
<1>6. Allotment'
  <2>1. leaked = 0 => leaked' = 0
    BY <1>1
  <2>2. QED BY <1>1, <2>1 DEF Control, Allotment
<1>7. \A l \in Lines: Thread(l)'
  BY <1>1, StillThreads DEF Pooling
<1>8. QED BY <1>4, <1>5, <1>6, <1>7 DEF Control

LEMMA DispatchControl ==
    ASSUME Control, Dispatch PROVE Control'
<1> USE DEF store, devices, history, events
<1>1. /\ main = "schedule" /\ queue = {} /\ main' = IF batch = {} THEN "report" ELSE "collect"
      /\ worker' = [l \in Lines |-> IF l \in batch THEN "count" ELSE "none"]
      /\ result' = [l \in Lines |-> "none"]
      /\ UNCHANGED <<lines, known, status, attempts, resume, queue, batch, job, leases, leaked,
                     snapshot, lastRun, launches, crashes, faults, cancels>>
  BY DEF Dispatch
<1>2. TypeOK'
  BY <1>1 DEF Control, TypeOK
<1>3. Counted' /\ Phase' /\ Called' /\ Allotment'
  BY <1>1 DEF Control, Counted, Phase, Called, Allotment, Pooling
<1>4. \A l \in Lines: Thread(l)'
  BY <1>1 DEF Thread, Busy, Pooling
<1>5. QED BY <1>2, <1>3, <1>4 DEF Control

LEMMA ReportControl ==
    ASSUME Control, Report PROVE Control'
<1> USE DEF store, threads, devices, history, events
<1>1. /\ main = "report" /\ main' = "down"
      /\ UNCHANGED <<lines, known, status, attempts, worker, result, resume, queue, batch, job,
                     leases, leaked, snapshot, lastRun, launches, crashes, faults, cancels>>
  BY DEF Report
<1>2. TypeOK'
  BY <1>1 DEF Control, TypeOK
<1>3. Counted' /\ Phase' /\ Called' /\ Allotment'
  BY <1>1 DEF Control, Counted, Phase, Called, Allotment, Pooling
<1>4. \A l \in Lines: Thread(l)'
  BY <1>1, StillThreads DEF Pooling
<1>5. QED BY <1>2, <1>3, <1>4 DEF Control

-----------------------------------------------------------------------------
(* Where a run is: the steps of the threads *)

\* A thread's step: of l alone, whose result it may set, and of l's job.
Threads(l) ==
    /\ UNCHANGED <<lines, main, resume, queue, batch, job, leases, leaked, snapshot,
                   crashes, cancels>>
    /\ worker[l] \notin {"none", "done", "raised"}
    /\ worker' = [worker EXCEPT ![l] = worker'[l]]
    /\ result' = [result EXCEPT ![l] = result'[l]]
    /\ worker'[l] \in {"mark", "launch", "run", "record", "finish", "done", "raised"}
    /\ worker'[l] \in {"record", "finish", "done"} => result'[l] # "none"
    /\ faults' \in Nat /\ (faults = 0 /\ faults' # 0 => worker'[l] = "raised")
    /\ faults' >= faults /\ (worker'[l] = "raised" => faults' > 0)

LEMMA ThreadsFrame ==
    ASSUME Control, NEW l \in Lines, Threads(l)
    PROVE  Counted' /\ Phase' /\ Called' /\ Allotment' /\ \A m \in Lines: Thread(m)'
<1>1. worker \in [Lines -> {"none", "count", "mark", "launch", "run",
                            "record", "finish", "done", "raised"}]
      /\ result \in [Lines -> {"none", "success"} \cup Failures]
  BY DEF Control, TypeOK
<1>2. \A m \in Lines: m # l => worker'[m] = worker[m] /\ result'[m] = result[m]
  BY <1>1 DEF Threads
<1>3. l \in batch /\ Pooling
  BY DEF Control, Thread, Busy, Threads
<1>4. Counted' /\ Phase'
  BY DEF Control, Counted, Phase, Threads, Pooling
<1>5. Called'
  <2>1. main \in {"judge", "drain", "raise"} => job \in Lines /\ job # l
    BY DEF Control, Called, Phase, TypeOK, Threads
  <2>2. QED BY <1>2, <2>1 DEF Control, Called, Threads
<1>6. Allotment'
  <2>1. faults' = 0 => faults = 0
    BY DEF Threads, Control, Counted
  <2>2. QED BY <2>1 DEF Control, Allotment, Threads
<1>7. ASSUME NEW m \in Lines PROVE Thread(m)'
  <2>1. CASE m = l
    BY <1>3, <2>1 DEF Thread, Busy, Threads, Pooling
  <2>2. CASE m # l
    <3>1. faults > 0 => faults' > 0
      BY DEF Threads, Control, Counted
    <3>2. QED BY <1>2, <2>2, <3>1 DEF Control, Thread, Busy, Threads, Pooling
  <2>3. QED BY <2>1, <2>2
<1>8. QED BY <1>4, <1>5, <1>6, <1>7

\* What every step of a thread leaves alone.
LEMMA GotoFacts ==
    ASSUME Control, NEW l \in Lines, NEW from, NEW to, Goto(l, from, to),
           result' = result \/ result' = [result EXCEPT ![l] = result'[l]],
           from \notin {"none", "done", "raised"},
           to \in {"mark", "launch", "run", "record", "finish", "done"},
           to \in {"record", "finish", "done"} => result'[l] # "none"
    PROVE  Threads(l) /\ worker'[l] = to /\ l \in batch /\ l \in lines /\ JobOf(l) \in Jobs
           /\ worker[l] = from /\ faults' = faults
<1>1. worker \in [Lines -> {"none", "count", "mark", "launch", "run",
                            "record", "finish", "done", "raised"}]
      /\ result \in [Lines -> {"none", "success"} \cup Failures]
  BY DEF Control, TypeOK
<1>2. worker[l] = from /\ worker' = [worker EXCEPT ![l] = to]
      /\ UNCHANGED <<lines, main, resume, queue, batch, job, leases, leaked, snapshot,
                     crashes, cancels, faults>>
  BY DEF Goto, loop, devices, events
<1>3. worker'[l] = to /\ faults \in Nat
  BY <1>1, <1>2 DEF Control, Counted
<1>4. result' = [result EXCEPT ![l] = result'[l]]
  BY <1>1
<1>5. Threads(l)
  <2>1. worker' = [worker EXCEPT ![l] = worker'[l]]
    BY <1>2, <1>3
  <2>2. faults' \in Nat /\ faults' >= faults /\ faults' = faults
    BY <1>2, <1>3
  <2>3. to # "raised"
    OBVIOUS
  <2>4. QED BY <1>2, <1>3, <1>4, <2>1, <2>2, <2>3 DEF Threads
<1>6. l \in batch /\ l \in lines
  BY <1>2 DEF Control, Thread, Busy, TypeOK
<1>7. QED BY <1>2, <1>3, <1>5, <1>6, LineFacts

\* Types, but for what the step does to the store and the history.
LEMMA ThreadsType ==
    ASSUME Control, NEW l \in Lines, Threads(l),
           known' \in SUBSET Jobs, status' \in [Jobs -> Statuses],
           attempts' \in [Jobs -> Nat], launches' \in [Jobs -> Nat],
           lastRun' \in [Jobs -> {"none", "success"} \cup Failures],
           result'[l] \in {"none", "success"} \cup Failures
    PROVE  Control'
<1>1. [known |-> known', status |-> status', attempts |-> attempts'] \in Rows
  BY RowFacts
<1>2. worker' \in [Lines -> {"none", "count", "mark", "launch", "run",
                             "record", "finish", "done", "raised"}]
      /\ result' \in [Lines -> {"none", "success"} \cup Failures]
  BY DEF Control, TypeOK, Threads
<1>3. TypeOK'
  BY <1>1, <1>2 DEF Control, TypeOK, Threads
<1>4. QED BY <1>3, ThreadsFrame DEF Control

LEMMA Typed ==
    ASSUME Control
    PROVE  /\ known \in SUBSET Jobs /\ status \in [Jobs -> Statuses]
           /\ attempts \in [Jobs -> Nat] /\ launches \in [Jobs -> Nat]
           /\ lastRun \in [Jobs -> {"none", "success"} \cup Failures]
           /\ result \in [Lines -> {"none", "success"} \cup Failures]
           /\ worker \in [Lines -> {"none", "count", "mark", "launch", "run",
                                    "record", "finish", "done", "raised"}]
           /\ lines \in SUBSET Lines /\ queue \in SUBSET lines /\ batch \in SUBSET lines
           /\ crashes \in Nat /\ faults \in Nat
BY RowFacts DEF Control, TypeOK, Counted

LEMMA WorkControl ==
    ASSUME Control, NEW l \in Lines, Work(l)
    PROVE  Control' /\ Threads(l) /\ l \in batch /\ l \in lines /\ JobOf(l) \in Jobs
           /\ faults' = faults
<1> USE Typed, StatusFacts
<1>1. CASE CountAttempt(l)
  <2>1. result' = result /\ UNCHANGED <<status, lastRun, launches>>
        /\ attempts' = [attempts EXCEPT ![JobOf(l)] = @ + 1]
        /\ known' = known \cup {JobOf(l)} /\ Goto(l, "count", "mark")
    BY <1>1 DEF CountAttempt, history
  <2>2. Threads(l) /\ l \in batch /\ l \in lines /\ JobOf(l) \in Jobs /\ faults' = faults
    BY <2>1, GotoFacts
  <2>3. QED BY <2>1, <2>2, ThreadsType
<1>2. CASE MarkRunning(l)
  <2>1. result' = result /\ UNCHANGED <<attempts, lastRun, launches>>
        /\ UpdateStatus(JobOf(l), "running") /\ Goto(l, "mark", "launch")
    BY <1>2 DEF MarkRunning, history
  <2>2. Threads(l) /\ l \in batch /\ l \in lines /\ JobOf(l) \in Jobs /\ faults' = faults
    BY <2>1, GotoFacts
  <2>3. QED BY <2>1, <2>2, ThreadsType DEF UpdateStatus
<1>3. CASE Launch(l)
  <2>1. result' = result /\ UNCHANGED <<known, status, attempts, lastRun>>
        /\ launches' = [launches EXCEPT ![JobOf(l)] = @ + 1] /\ Goto(l, "launch", "run")
    BY <1>3 DEF Launch
  <2>2. Threads(l) /\ l \in batch /\ l \in lines /\ JobOf(l) \in Jobs /\ faults' = faults
    BY <2>1, GotoFacts
  <2>3. QED BY <2>1, <2>2, ThreadsType
<1>4. CASE LaunchFails(l) \/ Exit(l)
  <2>1. PICK r \in {"success"} \cup Failures: result' = [result EXCEPT ![l] = r]
    BY <1>4 DEF LaunchFails, Exit
  <2>2. UNCHANGED <<known, status, attempts, lastRun, launches>>
        /\ (Goto(l, "launch", "record") \/ Goto(l, "run", "record"))
    BY <1>4 DEF LaunchFails, Exit, history
  <2>3. result'[l] = r /\ r # "none"
    BY <2>1
  <2>4. result' = [result EXCEPT ![l] = result'[l]]
    BY <2>1, <2>3
  <2>5. Threads(l) /\ l \in batch /\ l \in lines /\ JobOf(l) \in Jobs /\ faults' = faults
    BY <2>2, <2>3, <2>4, GotoFacts
  <2>6. QED BY <2>1, <2>2, <2>3, <2>5, ThreadsType
<1>5. CASE Record(l)
  <2>1. result' = result /\ UNCHANGED <<known, status, attempts, launches>>
        /\ lastRun' = [lastRun EXCEPT ![JobOf(l)] = result[l]] /\ Goto(l, "record", "finish")
    BY <1>5 DEF Record
  <2>2. result[l] # "none"
    BY <2>1 DEF Goto, Control, Thread
  <2>3. Threads(l) /\ l \in batch /\ l \in lines /\ JobOf(l) \in Jobs /\ faults' = faults
    BY <2>1, <2>2, GotoFacts
  <2>4. QED BY <2>1, <2>3, ThreadsType
<1>6. CASE Finish(l)
  <2>1. result' = result /\ UNCHANGED <<attempts, lastRun, launches>>
        /\ UpdateStatus(JobOf(l), result[l]) /\ Goto(l, "finish", "done")
    BY <1>6 DEF Finish, history
  <2>2. result[l] # "none"
    BY <2>1 DEF Goto, Control, Thread
  <2>3. Threads(l) /\ l \in batch /\ l \in lines /\ JobOf(l) \in Jobs /\ faults' = faults
    BY <2>1, <2>2, GotoFacts
  <2>4. result[l] \in Statuses
    BY <2>2
  <2>5. QED BY <2>1, <2>3, <2>4, ThreadsType DEF UpdateStatus
<1>7. QED BY <1>1, <1>2, <1>3, <1>4, <1>5, <1>6 DEF Work

LEMMA WorkerRaisesControl ==
    ASSUME Control, NEW l \in Lines, WorkerRaises(l)
    PROVE  Control' /\ l \in batch /\ faults' # 0
<1> USE Typed
<1>1. /\ worker[l] \in {"count", "mark", "launch", "record", "finish"}
      /\ worker' = [worker EXCEPT ![l] = "raised"] /\ faults' = faults + 1
      /\ UNCHANGED <<lines, known, status, attempts, result, main, resume, queue, batch, job,
                     leases, leaked, snapshot, lastRun, launches, crashes, cancels>>
  BY DEF WorkerRaises, store, loop, devices, history
<1>2. worker'[l] = "raised" /\ faults' \in Nat /\ faults' > 0 /\ faults' >= faults
  BY <1>1
<1>3. result' = [result EXCEPT ![l] = result'[l]]
  BY <1>1
<1>4. Threads(l)
  BY <1>1, <1>2, <1>3 DEF Threads
<1>5. Control'
  BY <1>1, <1>4, ThreadsType
<1>6. l \in batch
  BY <1>1 DEF Control, Thread, Busy
<1>7. QED BY <1>2, <1>5, <1>6

-----------------------------------------------------------------------------
(* Where a run is: the pool *)

LEMMA CollectControl ==
    ASSUME Control, NEW l \in Lines, Collect(l) PROVE Control'
<1> USE DEF store, threads, history, events
<1>1. /\ main = "collect" /\ l \in batch /\ worker[l] \in {"done", "raised"}
      /\ leases' = [leases EXCEPT ![l] = 0]
      /\ UNCHANGED <<lines, known, status, attempts, worker, result, resume, queue, leaked,
                     snapshot, lastRun, launches, crashes, faults, cancels>>
  BY DEF Collect
<1>2. \/ /\ batch' = batch \ {l} /\ job' = NoLine
         /\ main' = IF batch' = {} THEN "plan" ELSE "collect"
      \/ /\ batch' = batch /\ job' = l
         /\ \/ worker[l] = "raised" /\ main' = "raise"
            \/ worker[l] = "done" /\ result[l] \in Failures /\ main' = "judge"
  BY <1>1 DEF Collect, Taken, Collected
<1>3. queue = {} /\ job = NoLine /\ Pooling
  BY <1>1 DEF Control, Phase, Pooling
<1>4. leases' \in [Lines -> Nat] /\ leases'[l] = 0
      /\ \A m \in Lines: m # l => leases'[m] = leases[m]
  BY <1>1 DEF Control, TypeOK
<1>5. TypeOK'
  BY <1>1, <1>2, <1>4 DEF Control, TypeOK
<1>6. Counted' /\ Phase' /\ Called'
  BY <1>1, <1>2, <1>3 DEF Control, Counted, Phase, Called, Pooling
<1>7. Allotment'
  <2>1. \A m \in Lines: leases'[m] # 0 => m \in batch' \/ m = job'
    BY <1>2, <1>3, <1>4, LineFacts DEF Control, Allotment
  <2>2. main' \in {"judge", "drain", "raise"} => leases'[job'] = 0
    BY <1>2, <1>4
  <2>3. QED BY <1>1, <2>1, <2>2 DEF Control, Allotment
<1>8. ASSUME NEW m \in Lines PROVE Thread(m)'
  <2>1. ~Busy(l)
    BY <1>1 DEF Busy
  <2>2. m \in batch' => m \in batch
    BY <1>2
  <2>3. Busy(m) => m \in batch' /\ Pooling'
    <3>1. Busy(m) => m \in batch /\ m # l
      BY <2>1 DEF Control, Thread
    <3>2. QED BY <1>2, <3>1 DEF Pooling
  <2>4. Busy(m)' = Busy(m)
    BY <1>1 DEF Busy
  <2>5. QED BY <1>1, <1>3, <2>2, <2>3, <2>4 DEF Control, Thread
<1>9. QED BY <1>5, <1>6, <1>7, <1>8 DEF Control

LEMMA JudgeControl ==
    ASSUME Control, Judge PROVE Control'
<1> USE DEF threads, devices, history, events
<1>1. /\ main = "judge"
      /\ UNCHANGED <<lines, attempts, worker, result, resume, queue, leases, leaked,
                     snapshot, lastRun, launches, crashes, faults, cancels>>
  BY DEF Judge
<1>2. /\ job \in batch /\ worker[job] = "done" /\ result[job] \in Failures /\ queue = {}
      /\ leases[job] = 0 /\ Pooling
  BY <1>1 DEF Control, Phase, Called, Allotment, Pooling
<1>3. \/ UpdateStatus(JobOf(job), "pending")
      \/ UNCHANGED <<known, status>>
  BY DEF Judge
<1>4. \/ /\ batch' = batch \ {job} /\ job' = NoLine
         /\ main' = IF batch' = {} THEN "plan" ELSE "collect"
      \/ FailFast /\ main' = "drain" /\ batch' = batch /\ job' = job
  BY DEF Judge, Collected
<1>5. JobOf(job) \in Jobs
  BY <1>2, Typed, LineFacts
<1>6. TypeOK'
  <2>1. known' \in SUBSET Jobs /\ status' \in [Jobs -> Statuses]
    BY <1>3, <1>5, Typed, StatusFacts DEF UpdateStatus
  <2>2. QED BY <1>1, <1>4, <2>1, Typed, RowFacts DEF Control, TypeOK
<1>7. Counted' /\ Phase' /\ Called'
  BY <1>1, <1>2, <1>4 DEF Control, Counted, Phase, Called, Pooling
<1>8. Allotment'
  BY <1>1, <1>2, <1>4 DEF Control, Allotment
<1>9. ASSUME NEW m \in Lines PROVE Thread(m)'
  <2>1. ~Busy(job)
    BY <1>2 DEF Busy
  <2>2. m \in batch' => m \in batch
    BY <1>4
  <2>3. Busy(m) => m \in batch' /\ Pooling'
    <3>1. Busy(m) => m \in batch /\ m # job
      BY <2>1 DEF Control, Thread
    <3>2. QED BY <1>4, <3>1 DEF Pooling
  <2>4. Busy(m)' = Busy(m)
    BY <1>1 DEF Busy
  <2>5. QED BY <1>1, <1>2, <2>2, <2>3, <2>4 DEF Control, Thread
<1>10. QED BY <1>6, <1>7, <1>8, <1>9 DEF Control

\* run() is over, one way or another.
LEMMA OverControl ==
    ASSUME Control, Over, main' \in {"report", "down"}, ~(Undisturbed' /\ ~FailFast),
           crashes' \in Nat,
           UNCHANGED <<lines, known, status, attempts, resume, snapshot, lastRun, launches,
                       faults, cancels>>
    PROVE  Control'
<1>1. leaked' \in Nat
  BY LeasedFacts DEF Over, Control, TypeOK
<1>2. /\ batch' = {} /\ queue' = {} /\ job' = NoLine
      /\ worker' = [l \in Lines |-> "none"] /\ result' = [l \in Lines |-> "none"]
      /\ leases' = [l \in Lines |-> 0]
  BY DEF Over
<1>3. TypeOK'
  BY <1>1, <1>2, Typed, RowFacts DEF Control, TypeOK
<1>4. Counted' /\ Phase' /\ Called' /\ Allotment'
  BY <1>2 DEF Control, Counted, Phase, Called, Allotment, Pooling, Undisturbed
<1>5. \A l \in Lines: Thread(l)'
  BY <1>2 DEF Thread, Busy
<1>6. QED BY <1>3, <1>4, <1>5 DEF Control

LEMMA LeavePoolControl ==
    ASSUME Control, LeavePool PROVE Control'
<1> USE DEF store, history, events
<1>1. /\ main \in {"drain", "raise"} /\ main' = IF main = "drain" THEN "report" ELSE "down"
      /\ Over
      /\ UNCHANGED <<lines, known, status, attempts, resume, snapshot, lastRun, launches,
                     crashes, faults, cancels>>
  BY DEF LeavePool
<1>2. FailFast \/ faults # 0
  <2>1. CASE main = "raise"
    <3>1. job \in Lines /\ worker[job] = "raised"
      BY <2>1, Typed DEF Control, Phase, Called
    <3>2. faults > 0
      BY <3>1 DEF Control, Thread
    <3>3. QED BY <3>2, Typed
  <2>2. QED BY <1>1, <2>1 DEF Control, Called
<1>3. ~(Undisturbed' /\ ~FailFast) /\ crashes' \in Nat
  BY <1>1, <1>2, Typed DEF Undisturbed
<1>4. QED BY <1>1, <1>3, OverControl

LEMMA CrashControl ==
    ASSUME Control, Crash PROVE Control'
<1> USE DEF store, history
<1>1. /\ main' = "down" /\ Over /\ crashes' = crashes + 1
      /\ UNCHANGED <<lines, known, status, attempts, resume, snapshot, lastRun, launches,
                     faults, cancels>>
  BY DEF Crash
<1>2. crashes' \in Nat /\ crashes' # 0
  BY <1>1, Typed
<1>3. QED BY <1>1, <1>2, OverControl DEF Undisturbed

LEMMA ControlStutter == Control /\ UNCHANGED vars => Control'
<1> SUFFICES ASSUME Control, UNCHANGED vars PROVE Control'
  OBVIOUS
<1> USE DEF vars, store, threads, loop, devices, history, events
<1>1. TypeOK'
  BY DEF Control, TypeOK
<1>2. Counted' /\ Phase' /\ Called' /\ Allotment' /\ \A l \in Lines: Thread(l)'
  BY DEF Control, Counted, Phase, Called, Allotment, Pooling, Thread, Busy
<1>3. QED BY <1>1, <1>2 DEF Control

LEMMA ControlStep == Control /\ [Next]_vars => Control'
<1> SUFFICES ASSUME Control, Next PROVE Control'
  BY ControlStutter
<1>1. CASE Submit \/ SubmitTorn
  BY <1>1, SubmitControl, SubmitTornControl
<1>2. CASE \E r \in BOOLEAN: Start(r)
  BY <1>2, StartControl
<1>3. CASE Plan \/ Consider \/ Lease \/ MarkLeased \/ NoLease \/ Dispatch
  BY <1>3, PlanControl, ConsiderControl, LeaseControl, MarkLeasedControl, NoLeaseControl,
     DispatchControl
<1>4. CASE (\E l \in Lines: Collect(l)) \/ Judge \/ LeavePool \/ Report
  BY <1>4, CollectControl, JudgeControl, LeavePoolControl, ReportControl
<1>5. CASE \E l \in Lines: Work(l) \/ WorkerRaises(l)
  BY <1>5, WorkControl, WorkerRaisesControl
<1>6. CASE Crash \/ CancelWrite \/ \E j \in Jobs: CancelRead(j)
  BY <1>6, CrashControl, CancelWriteControl, CancelReadControl
<1>7. QED BY <1>1, <1>2, <1>3, <1>4, <1>5, <1>6 DEF Next, Loop

-----------------------------------------------------------------------------
(* What the store says of the jobs: frames *)

LEMMA DepsIn ==
    \A j \in Jobs: /\ Deps[j] \in SUBSET Jobs /\ GpusOf[j] \in Nat
                   /\ MaxRetries[j] \in Nat
BY SpecAssumption

\* What has succeeded stays so, and so what waits for it may go on.
LEMMA DepsKept ==
    ASSUME \A d \in Jobs: status[d] = "success" => status'[d] = "success",
           NEW j \in Jobs, DependenciesSatisfied(j)
    PROVE  DependenciesSatisfied(j)'
BY DepsIn DEF DependenciesSatisfied

LEMMA DepsNew ==
    ASSUME \A d \in Jobs: status'[d] = "success" => status[d] = "success",
           NEW j \in Jobs, DependenciesSatisfied(j)'
    PROVE  DependenciesSatisfied(j)
BY DepsIn DEF DependenciesSatisfied

\* Nothing is in hand when a run is down or plans.
LEMMA NothingInHand ==
    ASSUME Control', main' \in {"down", "plan"}
    PROVE  Linewise'
<1>1. queue' = {} /\ batch' = {}
  BY DEF Control, Phase
<1>2. ASSUME NEW l \in lines' PROVE InHand(l)' /\ Planned(l)'
  BY <1>1 DEF InHand, Planned
<1>3. QED BY <1>2 DEF Linewise

\* The step takes no job's line from the batch and leaves rows and history alone.
LEMMA JobsKept ==
    ASSUME Jobwise, Exact' => Exact, Undisturbed' => Undisturbed,
           UNCHANGED <<known, status, attempts, lastRun, launches>>,
           \A j \in Jobs: InBatch(j) => InBatch(j)'
    PROVE  Jobwise'
<1> SUFFICES ASSUME NEW j \in Jobs PROVE Sound(j)' /\ Marked(j)' /\ Failed(j)'
  BY DEF Jobwise
<1>1. Sound(j) /\ Marked(j) /\ Failed(j) /\ (InBatch(j) => InBatch(j)')
  BY DEF Jobwise
<1>2. Sound(j)'
  BY <1>1 DEF Sound
<1>3. Marked(j)'
  BY <1>1 DEF Marked
<1>4. Failed(j)'
  <2>1. DependenciesSatisfied(j) => DependenciesSatisfied(j)'
    BY DEF DependenciesSatisfied
  <2>2. RetriesLeft(j) => RetriesLeft(j)'
    BY DEF RetriesLeft
  <2>3. QED BY <1>1, <2>1, <2>2 DEF Failed
<1>5. QED BY <1>2, <1>3, <1>4

\* With rows and history as they were, a line is due, or runnable, as it was.
Kept == UNCHANGED <<known, status, attempts, lastRun, launches, resume>>

LEMMA LineKept ==
    ASSUME Kept, NEW j
    PROVE  /\ Due(j) => Due(j)'
           /\ Runnable(j)' => Runnable(j)
BY DEF Kept, Due, Runnable, DependenciesSatisfied, RetriesLeft

LEMMA RunnableIsDue == \A j: Runnable(j) => Due(j)
BY DEF Runnable, Due, Failures

-----------------------------------------------------------------------------
(* What the store says of the jobs: the steps of the loop *)

CalmPart == Control /\ Calm /\ Jobwise /\ Linewise

LEMMA SubmitJobs ==
    ASSUME CalmPart, Control', Submit \/ SubmitTorn PROVE Jobwise' /\ Linewise'
<1>1. /\ main = "down" /\ main' = "down" /\ known \subseteq known' /\ batch' = batch
      /\ UNCHANGED <<status, attempts, lastRun, launches, resume, crashes, faults>>
  BY Typed DEF Submit, SubmitTorn, threads, loop, history, events, CalmPart
<1>2. Linewise'
  BY <1>1, NothingInHand
<1>3. ASSUME NEW j \in Jobs PROVE Sound(j)' /\ Marked(j)' /\ Failed(j)'
  <2>1. Sound(j) /\ Marked(j) /\ Failed(j)
    BY DEF CalmPart, Jobwise
  <2>2. Sound(j)'
    BY <1>1, <2>1 DEF Sound
  <2>3. Marked(j)'
    BY <1>1, <2>1 DEF Marked, Exact, Undisturbed, InBatch
  <2>4. Failed(j)'
    BY <1>1, <2>1 DEF Failed, Undisturbed, InBatch, DependenciesSatisfied, RetriesLeft
  <2>5. QED BY <2>2, <2>3, <2>4
<1>4. QED BY <1>2, <1>3 DEF Jobwise

LEMMA StartJobs ==
    ASSUME CalmPart, Control', NEW r \in BOOLEAN, Start(r) PROVE Jobwise' /\ Linewise'
<1>1. /\ main = "down" /\ main' = "plan" /\ resume' = r
      /\ status' = IF r THEN [j \in Jobs |-> Resumed(j)] ELSE status
      /\ UNCHANGED <<known, attempts, batch, lastRun, launches, crashes, faults>>
  BY DEF Start, history
<1>2. Linewise'
  BY <1>1, NothingInHand
<1>3. \A j \in Jobs: status[j] \in Statuses /\ ~InBatch(j)
  BY <1>1, Typed DEF CalmPart, Control, Phase, InBatch
<1>4. ASSUME NEW j \in Jobs
      PROVE  /\ status'[j] = "success" <=> status[j] = "success"
             /\ status'[j] = "pending" <=> status[j] = "pending"
             /\ status'[j] = "cancelled" <=> status[j] = "cancelled"
             /\ r => status'[j] \notin {"leased", "running"} \/ j \notin known
             /\ status'[j] = status[j] \/ status'[j] = "resumed"
  BY <1>1, <1>3 DEF Resumed, Failures
<1>5. ASSUME NEW j \in Jobs PROVE Sound(j)' /\ Marked(j)' /\ Failed(j)'
  <2>1. Sound(j) /\ Marked(j) /\ Failed(j)
    BY DEF CalmPart, Jobwise
  <2>2. Sound(j)'
    BY <1>1, <1>4, <2>1 DEF Sound
  <2>3. Marked(j)'
    <3>1. CASE r
      BY <1>4, <2>1, <2>2, <3>1, <1>1 DEF Marked, Sound
    <3>2. CASE ~r
      BY <1>1, <2>1, <3>2 DEF Marked, Exact, Undisturbed, InBatch
    <3>3. QED BY <3>1, <3>2
  <2>4. Failed(j)'
    <3>1. DependenciesSatisfied(j) => DependenciesSatisfied(j)'
      BY <1>4, DepsKept
    <3>2. RetriesLeft(j) => RetriesLeft(j)'
      BY <1>1 DEF RetriesLeft
    <3>3. QED BY <1>1, <1>3, <1>4, <2>1, <3>1, <3>2 DEF Failed, Undisturbed
  <2>5. QED BY <2>2, <2>3, <2>4
<1>6. QED BY <1>2, <1>5 DEF Jobwise

LEMMA PlanJobs ==
    ASSUME CalmPart, Control', Plan PROVE Jobwise' /\ Linewise'
<1>1. /\ main = "plan" /\ main' \in {"schedule", "report"} /\ Kept
      /\ queue' = {l \in lines: Runnable(JobOf(l))} /\ (main' = "report" => queue' = {})
      /\ UNCHANGED <<lines, batch, job, crashes, faults>>
  BY DEF Plan, store, history, events, Kept
<1>2. batch = {}
  BY <1>1 DEF CalmPart, Control, Phase
<1>3. Jobwise'
  BY <1>1, JobsKept DEF CalmPart, Kept, Exact, Undisturbed, InBatch
<1>4. ASSUME NEW l \in lines PROVE InHand(l)' /\ Planned(l)'
  <2>1. /\ Due(JobOf(l)) => Due(JobOf(l))'
        /\ Runnable(JobOf(l))' => Runnable(JobOf(l))
        /\ Runnable(JobOf(l)) => Due(JobOf(l))
    BY <1>1, LineKept, RunnableIsDue
  <2>2. InHand(l)'
    BY <1>1, <1>2, <2>1 DEF InHand
  <2>3. Planned(l)'
    BY <1>1, <2>1 DEF Planned
  <2>4. QED BY <2>2, <2>3
<1>5. QED BY <1>1, <1>3, <1>4 DEF Linewise

\* A batch that has room for no CPU job has one.
LEMMA NoRoom ==
    ASSUME Control, NEW l \in Lines, ~OnGpu(l), PassedOver(l), status[JobOf(l)] # "success"
    PROVE  CpuInBatch
<1> SUFFICES ASSUME ~CpuInBatch PROVE FALSE
  OBVIOUS
<1> DEFINE room == Max({1, MaxCpu})
<1>1. Scheduled(FALSE) >= room
  BY DEF PassedOver
<1>2. {m \in batch: OnGpu(m) = FALSE} = {}
  BY DEF CpuInBatch
<1>3. Scheduled(FALSE) = 0
  BY <1>2, FS_EmptySet DEF Scheduled
<1>4. room \in Nat /\ room >= 1
  <2>1. MaxCpu \in Nat
    BY ConfigAssumption
  <2>2. \E x \in {1, MaxCpu}: \A y \in {1, MaxCpu}: x >= y
    BY <2>1
  <2>3. QED BY <2>1, <2>2 DEF Max
<1> HIDE DEF room
<1>5. 0 >= room
  BY <1>1, <1>3
<1>6. QED BY <1>4, <1>5

LEMMA ConsiderJobs ==
    ASSUME CalmPart, Control', Consider PROVE Jobwise' /\ Linewise'
<1> DEFINE c == Candidate
<1>1. /\ main = "schedule" /\ main' = main /\ Kept /\ queue' = queue \ {c}
      /\ PassedOver(c) \/ ~OnGpu(c)
      /\ batch' = IF PassedOver(c) THEN batch ELSE batch \cup {c}
      /\ UNCHANGED <<lines, job, crashes, faults>>
  BY DEF Consider, store, history, events, Kept
<1>2. c \in queue /\ c \in Lines /\ c \in lines
  BY CandidateIn DEF Consider, CalmPart
<1>3. Due(JobOf(c))
  BY <1>2 DEF CalmPart, Linewise, InHand
<1> HIDE DEF c
<1>4. batch \subseteq batch' /\ (CpuInBatch => CpuInBatch')
  BY <1>1 DEF CpuInBatch, OnGpu
<1>5. Jobwise'
  BY <1>1, <1>4, JobsKept DEF CalmPart, Kept, Exact, Undisturbed, InBatch
<1>6. ASSUME NEW l \in lines PROVE InHand(l)' /\ Planned(l)'
  <2>1. /\ Due(JobOf(l)) => Due(JobOf(l))'
        /\ Runnable(JobOf(l))' => Runnable(JobOf(l))
        /\ InHand(l) /\ Planned(l) /\ OnGpu(l)' = OnGpu(l)
    BY <1>1, LineKept DEF CalmPart, Linewise, OnGpu
  <2>2. InHand(l)'
    <3>1. ~Pooling /\ ~Pooling' /\ main' # "lease"
      BY <1>1 DEF Pooling
    <3>2. l \in batch' => l \in batch \/ l = c
      BY <1>1
    <3>3. QED BY <1>1, <1>3, <2>1, <3>1, <3>2 DEF InHand
  <2>3. Planned(l)'
    <3>1. CASE l = c /\ PassedOver(c) /\ ~OnGpu(c)
      <4>1. status[JobOf(c)] # "success" /\ Control
        BY <1>3 DEF Due, CalmPart
      <4>2. CpuInBatch
        BY <1>2, <3>1, <4>1, NoRoom
      <4>3. QED BY <1>1, <1>4, <4>2 DEF Planned
    <3>2. CASE l = c /\ ~PassedOver(c)
      BY <1>1, <3>2 DEF Planned
    <3>3. CASE l = c /\ OnGpu(c)
      BY <1>1, <2>1, <3>3 DEF Planned
    <3>4. CASE l # c
      BY <1>1, <1>4, <2>1, <3>4 DEF Planned
    <3>5. QED BY <3>1, <3>2, <3>3, <3>4
  <2>4. QED BY <2>2, <2>3
<1>7. QED BY <1>1, <1>5, <1>6 DEF Linewise

LEMMA LeaseJobs ==
    ASSUME CalmPart, Control', Lease PROVE Jobwise' /\ Linewise'
<1> DEFINE c == Candidate
<1>1. /\ main = "schedule" /\ main' = "lease" /\ Kept /\ queue' = queue \ {c}
      /\ job' = c /\ OnGpu(c)
      /\ UNCHANGED <<lines, batch, crashes, faults>>
  BY DEF Lease, store, history, events, Kept
<1>2. c \in queue /\ c \in Lines /\ c \in lines
  BY CandidateIn DEF Lease, CalmPart
<1>3. Due(JobOf(c))
  BY <1>2 DEF CalmPart, Linewise, InHand
<1> HIDE DEF c
<1>4. Jobwise'
  BY <1>1, JobsKept DEF CalmPart, Kept, Exact, Undisturbed, InBatch
<1>5. ASSUME NEW l \in lines PROVE InHand(l)' /\ Planned(l)'
  <2>1. /\ Due(JobOf(l)) => Due(JobOf(l))'
        /\ Runnable(JobOf(l))' => Runnable(JobOf(l))
        /\ InHand(l) /\ Planned(l) /\ OnGpu(l)' = OnGpu(l)
    BY <1>1, LineKept DEF CalmPart, Linewise, OnGpu
  <2>2. InHand(l)'
    <3>1. ~Pooling /\ ~Pooling'
      BY <1>1 DEF Pooling
    <3>2. QED BY <1>1, <1>3, <2>1, <3>1 DEF InHand
  <2>3. Planned(l)'
    <3>1. CASE l = c
      BY <1>1, <2>1, <3>1 DEF Planned
    <3>2. CASE l # c
      BY <1>1, <2>1, <3>2 DEF Planned, CpuInBatch, OnGpu
    <3>3. QED BY <3>1, <3>2
  <2>4. QED BY <2>2, <2>3
<1>6. QED BY <1>1, <1>4, <1>5 DEF Linewise


\* A job whose row and history the step leaves alone.
Same(j) ==
    /\ status'[j] = status[j] /\ attempts'[j] = attempts[j]
    /\ launches'[j] = launches[j] /\ lastRun'[j] = lastRun[j]
    /\ j \in known' <=> j \in known

LEMMA OtherJob ==
    ASSUME NEW j \in Jobs, Sound(j), Marked(j), Failed(j), Same(j),
           Exact' => Exact, Undisturbed' => Undisturbed, InBatch(j) => InBatch(j)',
           DependenciesSatisfied(j) => DependenciesSatisfied(j)'
    PROVE  Sound(j)' /\ Marked(j)' /\ Failed(j)'
<1>1. Sound(j)'
  BY DEF Sound, Same
<1>2. Marked(j)'
  BY DEF Marked, Same
<1>3. RetriesLeft(j) => RetriesLeft(j)'
  BY DEF RetriesLeft, Same
<1>4. Failed(j)'
  BY <1>3 DEF Failed, Same
<1>5. QED BY <1>1, <1>2, <1>4

\* A line that the step does not touch.
Aside(l) ==
    /\ worker'[l] = worker[l] /\ result'[l] = result[l]
    /\ l \in queue' => l \in queue
    /\ l \in batch' => l \in batch
    /\ l = job' /\ main' = "lease" => l = job /\ main = "lease"
    /\ Same(JobOf(l))

LEMMA OtherLine ==
    ASSUME NEW l, InHand(l), Aside(l), Pooling' <=> Pooling,
           DependenciesSatisfied(JobOf(l)) => DependenciesSatisfied(JobOf(l))'
    PROVE  InHand(l)'
<1>1. Due(JobOf(l)) => Due(JobOf(l))'
  BY DEF Due, Aside, Same, RetriesLeft
<1>2. Worked(l) => Worked(l)'
  BY DEF Worked, Aside, Same, RetriesLeft
<1>3. QED BY <1>1, <1>2 DEF InHand, Aside

LEMMA SameIsRunnable ==
    ASSUME NEW j \in Jobs, Same(j), resume' = resume,
           \A d \in Jobs: status'[d] = "success" => status[d] = "success",
           Runnable(j)'
    PROVE  Runnable(j)
BY DepsNew DEF Runnable, Same, RetriesLeft

LEMMA MarkLeasedJobs ==
    ASSUME CalmPart, Control', MarkLeased PROVE Jobwise' /\ Linewise'
<1> USE Typed DEF CalmPart
<1>0. PICK x: x = job
  OBVIOUS
<1>a. PICK j: j = JobOf(x)
  OBVIOUS
<1>1. /\ main = "lease" /\ main' = "schedule" /\ batch' = batch \cup {x} /\ job' = NoLine
      /\ status' = [status EXCEPT ![j] = "leased"] /\ known' = known \cup {j}
      /\ UNCHANGED <<lines, attempts, worker, result, resume, queue, lastRun, launches,
                     crashes, faults>>
  BY <1>0, <1>a DEF MarkLeased, UpdateStatus, threads, history, events
<1>2. x \in lines /\ x \in Lines /\ x \notin queue /\ j \in Jobs
  BY <1>0, <1>a, <1>1, LineFacts DEF Control, Phase, TypeOK
<1>3. Due(j)
  BY <1>0, <1>a, <1>1, <1>2 DEF Linewise, InHand
<1>4. ~Pooling /\ ~Pooling' /\ (Exact' => Exact) /\ (Undisturbed' => Undisturbed)
  BY <1>1 DEF Pooling, Exact, Undisturbed
<1>5. /\ status'[j] = "leased" /\ status[j] # "success"
      /\ \A i \in Jobs: i # j => Same(i)
      /\ \A i \in Jobs: status'[i] = "success" <=> status[i] = "success"
  BY <1>1, <1>2, <1>3 DEF Due, Same
<1>6. \A i \in Jobs: /\ DependenciesSatisfied(i) => DependenciesSatisfied(i)'
                     /\ InBatch(i) => InBatch(i)'
  BY <1>1, <1>5, DepsKept DEF InBatch
<1>7. InBatch(j)'
  BY <1>a, <1>1 DEF InBatch
<1>8. ASSUME NEW i \in Jobs PROVE Sound(i)' /\ Marked(i)' /\ Failed(i)'
  <2>1. Sound(i) /\ Marked(i) /\ Failed(i)
    BY DEF Jobwise
  <2>2. CASE i = j
    <3>1. Sound(j)'
      BY <1>1, <1>5, <2>1, <2>2 DEF Sound
    <3>2. Marked(j)' /\ Failed(j)'
      BY <1>7 DEF Marked, Failed
    <3>3. QED BY <2>2, <3>1, <3>2
  <2>3. CASE i # j
    BY <1>4, <1>5, <1>6, <2>1, <2>3, OtherJob
  <2>4. QED BY <2>2, <2>3
<1>9. ASSUME NEW l \in lines PROVE InHand(l)' /\ Planned(l)'
  <2>1. InHand(l) /\ Planned(l) /\ JobOf(l) \in Jobs /\ (OnGpu(l)' <=> OnGpu(l))
    BY LineFacts DEF Control, TypeOK, Linewise, OnGpu
  <2>2. CASE l = x
    <3>1. Due(j)'
      BY <1>1, <1>2, <1>3, <1>5, <1>6 DEF Due, RetriesLeft
    <3>2. InHand(l)'
      BY <1>1, <1>2, <1>4, <2>2, <3>1, <1>a DEF InHand
    <3>3. Planned(l)'
      BY <1>1, <2>2 DEF Planned
    <3>4. QED BY <3>2, <3>3
  <2>3. CASE l # x
    <3>1. JobOf(l) # j
      BY <1>2, <2>3, <1>a DEF Calm
    <3>2. Aside(l)
      BY <1>1, <1>5, <2>1, <2>3, <3>1 DEF Aside
    <3>3. InHand(l)'
      BY <1>4, <1>6, <2>1, <3>2, OtherLine
    <3>4. Runnable(JobOf(l))' => Runnable(JobOf(l))
      BY <1>1, <1>5, <2>1, <3>1, SameIsRunnable
    <3>5. Planned(l)'
      BY <1>1, <2>1, <3>4 DEF Planned, CpuInBatch, OnGpu
    <3>6. QED BY <3>3, <3>5
  <2>4. QED BY <2>2, <2>3
<1>10. QED BY <1>1, <1>8, <1>9 DEF Jobwise, Linewise

LEMMA NoLeaseJobs ==
    ASSUME CalmPart, Control', NoLease PROVE Jobwise' /\ Linewise'
<1> DEFINE c == Candidate  j == JobOf(c)
<1> USE Typed DEF CalmPart
<1>1. /\ main = "schedule" /\ main' = main /\ queue' = queue \ {c} /\ OnGpu(c) /\ queue # {}
      /\ IF FailFast THEN status' = [status EXCEPT ![j] = "failed"] /\ known' = known \cup {j}
         ELSE UNCHANGED <<known, status>>
      /\ UNCHANGED <<lines, attempts, worker, result, resume, batch, job, lastRun, launches,
                     crashes, faults>>
  BY DEF NoLease, UpdateStatus, threads, history, events
<1>2. c \in queue /\ c \in lines /\ c \in Lines /\ c \notin batch /\ j \in Jobs
  BY <1>1, CandidateIn, LineFacts
<1>3. Due(j)
  BY <1>2 DEF Linewise, InHand
<1>4. \A l \in lines: JobOf(l) = j => l = c
  BY <1>2 DEF Calm
<1>a. j = JobOf(c)
  OBVIOUS
<1> HIDE DEF c, j
<1>5. (Pooling' <=> Pooling) /\ (Exact' => Exact) /\ (Undisturbed' => Undisturbed)
  BY <1>1 DEF Pooling, Exact, Undisturbed
<1>6. /\ status[j] # "success" /\ status'[j] \in {status[j], "failed"}
      /\ (status'[j] = "failed" /\ j \in known') \/ Same(j)
      /\ \A i \in Jobs: i # j => Same(i)
      /\ \A i \in Jobs: status'[i] = "success" <=> status[i] = "success"
  BY <1>1, <1>2, <1>3 DEF Due, Same
<1>7. \A i \in Jobs: /\ DependenciesSatisfied(i) => DependenciesSatisfied(i)'
                     /\ InBatch(i) => InBatch(i)'
  BY <1>1, <1>6, DepsKept DEF InBatch
<1>8. ASSUME NEW i \in Jobs PROVE Sound(i)' /\ Marked(i)' /\ Failed(i)'
  <2>1. Sound(i) /\ Marked(i) /\ Failed(i)
    BY DEF Jobwise
  <2>2. CASE ~Same(i)
    <3>1. i = j /\ status'[i] = "failed" /\ i \in known'
      BY <1>6, <2>2
    <3>2. Sound(i)'
      BY <1>1, <2>1, <3>1 DEF Sound
    <3>3. Marked(i)' /\ Failed(i)'
      BY <3>1 DEF Marked, Failed, Failures
    <3>4. QED BY <3>2, <3>3
  <2>3. CASE Same(i)
    BY <1>5, <1>7, <2>1, <2>3, OtherJob
  <2>4. QED BY <2>2, <2>3
<1>9. ASSUME NEW l \in lines PROVE InHand(l)' /\ Planned(l)'
  <2>1. InHand(l) /\ Planned(l) /\ JobOf(l) \in Jobs /\ (OnGpu(l)' <=> OnGpu(l))
    BY LineFacts DEF Control, TypeOK, Linewise, OnGpu
  <2>2. CASE l = c
    <3>1. InHand(l)'
      BY <1>1, <1>2, <2>2 DEF InHand
    <3>2. Planned(l)'
      BY <1>1, <2>1, <2>2 DEF Planned
    <3>3. QED BY <3>1, <3>2
  <2>3. CASE l # c
    <3>1. Same(JobOf(l))
      BY <1>4, <1>6, <2>1, <2>3
    <3>2. Aside(l)
      BY <1>1, <3>1 DEF Aside
    <3>3. InHand(l)'
      BY <1>5, <1>7, <2>1, <3>2, OtherLine
    <3>4. Runnable(JobOf(l))' => Runnable(JobOf(l))
      BY <1>1, <1>6, <2>1, <3>1, SameIsRunnable
    <3>5. Planned(l)'
      BY <1>1, <2>1, <2>3, <3>4 DEF Planned, CpuInBatch, OnGpu
    <3>6. QED BY <3>3, <3>5
  <2>4. QED BY <2>2, <2>3
<1>10. QED BY <1>1, <1>8, <1>9 DEF Jobwise, Linewise

LEMMA DispatchJobs ==
    ASSUME CalmPart, Control', Dispatch PROVE Jobwise' /\ Linewise'
<1> USE Typed DEF CalmPart
<1>1. /\ main = "schedule" /\ queue = {} /\ main' = IF batch = {} THEN "report" ELSE "collect"
      /\ worker' = [l \in Lines |-> IF l \in batch THEN "count" ELSE "none"]
      /\ UNCHANGED <<lines, queue, batch, job, crashes, faults>> /\ Kept
  BY DEF Dispatch, store, history, events, Kept
<1>2. Jobwise'
  BY <1>1, JobsKept DEF Kept, Exact, Undisturbed, InBatch
<1>3. ASSUME NEW l \in lines PROVE InHand(l)' /\ Planned(l)'
  <2>1. InHand(l) /\ Planned(l) /\ l \in Lines /\ (OnGpu(l)' <=> OnGpu(l))
    BY DEF Control, TypeOK, Linewise, OnGpu
  <2>2. /\ Due(JobOf(l)) => Due(JobOf(l))'
        /\ Runnable(JobOf(l))' => Runnable(JobOf(l))
    BY <1>1, LineKept
  <2>3. ~Pooling /\ main' # "lease" /\ (Pooling' <=> batch # {})
    BY <1>1 DEF Pooling
  <2>4. l \in batch => worker'[l] = "count"
    BY <1>1, <2>1
  <2>5. l \in batch => Worked(l)'
    BY <2>1, <2>2, <2>3, <2>4 DEF InHand, Worked, Due
  <2>6. InHand(l)'
    BY <1>1, <2>3, <2>5 DEF InHand
  <2>7. Planned(l)'
    BY <1>1, <2>1, <2>2 DEF Planned, CpuInBatch
  <2>8. QED BY <2>6, <2>7
<1>4. QED BY <1>1, <1>2, <1>3 DEF Linewise

-----------------------------------------------------------------------------
(* What the store says of the jobs: the steps of the threads *)

LEMMA WorkFrame ==
    ASSUME CalmPart, Control', NEW l \in Lines, Threads(l), faults' = faults,
           l \in batch, l \in lines,
           \A i \in Jobs: i # JobOf(l) => Same(i),
           \A d \in Jobs: status[d] = "success" => status'[d] = "success",
           Sound(JobOf(l))', Worked(l)'
    PROVE  Jobwise' /\ Linewise'
<1> DEFINE j == JobOf(l)
<1> USE Typed DEF CalmPart
<1>1. /\ UNCHANGED <<lines, main, resume, queue, batch, job, crashes>>
      /\ \A m \in Lines: m # l => worker'[m] = worker[m] /\ result'[m] = result[m]
      /\ Busy(l)
  BY DEF Threads, Busy
<1>2. Pooling /\ Pooling' /\ queue = {} /\ j \in Jobs
  BY <1>1, LineFacts DEF Control, Thread, Pooling, Phase
<1>3. (Exact' => Exact) /\ (Undisturbed' => Undisturbed) /\ (Pooling' <=> Pooling)
  BY <1>1, <1>2 DEF Exact, Undisturbed
<1>4. InBatch(j)'
  BY <1>1 DEF InBatch
<1> HIDE DEF j
<1>5. ASSUME NEW i \in Jobs PROVE Sound(i)' /\ Marked(i)' /\ Failed(i)'
  <2>1. CASE i = j
    BY <1>4, <2>1 DEF Marked, Failed, j
  <2>2. CASE i # j
    <3>1. Sound(i) /\ Marked(i) /\ Failed(i)
      BY DEF Jobwise
    <3>2. DependenciesSatisfied(i) => DependenciesSatisfied(i)'
      BY DepsKept
    <3>3. InBatch(i) => InBatch(i)'
      BY <1>1 DEF InBatch
    <3>4. Same(i)
      BY <2>2 DEF j
    <3>5. QED BY <1>3, <3>1, <3>2, <3>3, <3>4, OtherJob
  <2>3. QED BY <2>1, <2>2
<1>6. ASSUME NEW m \in lines PROVE InHand(m)' /\ Planned(m)'
  <2>1. InHand(m) /\ m \in Lines /\ JobOf(m) \in Jobs
    BY LineFacts DEF Control, TypeOK, Linewise
  <2>2. ASSUME m = l PROVE InHand(m)'
    <3>1. InHand(l)'
      BY <1>1, <1>2 DEF InHand, Pooling
    <3>2. QED BY <2>2, <3>1
  <2>3. ASSUME m # l PROVE InHand(m)'
    <3>1. Same(JobOf(m))
      BY <2>1, <2>3 DEF Calm
    <3>2. Aside(m)
      BY <1>1, <2>1, <2>3, <3>1 DEF Aside
    <3>3. DependenciesSatisfied(JobOf(m)) => DependenciesSatisfied(JobOf(m))'
      BY <2>1, DepsKept
    <3>4. QED BY <1>3, <2>1, <3>2, <3>3, OtherLine
  <2>4. InHand(m)'
    BY <2>2, <2>3
  <2>5. Planned(m)'
    BY <1>2 DEF Planned, Pooling
  <2>6. QED BY <2>4, <2>5
<1>7. QED BY <1>1, <1>5, <1>6 DEF Jobwise, Linewise

LEMMA WorkJobs ==
    ASSUME CalmPart, Control', NEW l \in Lines, Work(l) PROVE Jobwise' /\ Linewise'
<1> DEFINE j == JobOf(l)
<1> USE Typed DEF CalmPart, history
<1>1. Threads(l) /\ l \in batch /\ l \in lines /\ j \in Jobs /\ faults' = faults
  BY WorkControl
<1>2. InHand(l) /\ Sound(j)
  BY <1>1 DEF Linewise, Jobwise
<1>3. Worked(l) /\ worker[l] # "done"
  BY <1>1, <1>2 DEF InHand, Threads, Control, Thread, Busy
<1>4. DependenciesSatisfied(j) /\ status[j] # "success" /\ MaxRetries[j] \in Nat
  BY <1>1, <1>3, DepsIn DEF Worked
<1> SUFFICES /\ \A i \in Jobs: i # j => Same(i)
             /\ \A d \in Jobs: status[d] = "success" => status'[d] = "success"
             /\ Sound(j)' /\ (DependenciesSatisfied(j)' => Worked(l)')
  <2> HIDE DEF j
  <2>1. DependenciesSatisfied(j)'
    BY <1>1, <1>4, DepsKept
  <2> USE DEF j
  <2>2. QED BY <1>1, <2>1, WorkFrame
<1>5. CASE CountAttempt(l)
  <2>1. /\ worker[l] = "count" /\ worker'[l] = "mark"
        /\ attempts' = [attempts EXCEPT ![j] = @ + 1] /\ known' = known \cup {j}
        /\ UNCHANGED <<status, lastRun, launches>>
    BY <1>5 DEF CountAttempt, Goto
  <2>2. RetriesLeft(j)
    BY <1>3, <2>1 DEF Worked
  <2> HIDE DEF j
  <2>3. attempts'[j] = attempts[j] + 1 /\ attempts[j] \in Nat /\ launches[j] \in Nat
        /\ \A i \in Jobs: i # j => Same(i)
    BY <1>1, <2>1 DEF Same
  <2>4. Sound(j)'
    BY <1>2, <1>4, <2>1, <2>2, <2>3 DEF Sound, RetriesLeft
  <2>5. launches'[j] < attempts'[j]
    BY <1>2, <2>1, <2>3 DEF Sound
  <2>6. DependenciesSatisfied(j)' => Worked(l)'
    BY <1>4, <2>1, <2>5 DEF Worked, j
  <2>7. QED BY <2>1, <2>3, <2>4, <2>6
<1>6. CASE MarkRunning(l)
  <2>1. /\ worker[l] = "mark" /\ worker'[l] = "launch"
        /\ status' = [status EXCEPT ![j] = "running"] /\ known' = known \cup {j}
        /\ UNCHANGED <<attempts, lastRun, launches>>
    BY <1>6 DEF MarkRunning, Goto, UpdateStatus
  <2> HIDE DEF j
  <2>2. status'[j] = "running" /\ \A i \in Jobs: i # j => Same(i)
    BY <1>1, <2>1 DEF Same
  <2>3. Sound(j)'
    BY <1>2, <2>1, <2>2 DEF Sound
  <2>4. DependenciesSatisfied(j)' => Worked(l)'
    BY <1>3, <2>1, <2>2 DEF Worked, j
  <2>5. QED BY <1>4, <2>2, <2>3, <2>4 DEF Same
<1>7. CASE Launch(l)
  <2>1. /\ worker[l] = "launch" /\ worker'[l] = "run"
        /\ launches' = [launches EXCEPT ![j] = @ + 1]
        /\ UNCHANGED <<known, status, attempts, lastRun>>
    BY <1>7 DEF Launch, Goto
  <2>2. launches[j] < attempts[j]
    BY <1>3, <2>1 DEF Worked
  <2> HIDE DEF j
  <2>3. launches'[j] = launches[j] + 1 /\ attempts[j] \in Nat /\ launches[j] \in Nat
        /\ \A i \in Jobs: i # j => Same(i)
    BY <1>1, <2>1 DEF Same
  <2>4. Sound(j)'
    BY <1>2, <2>1, <2>2, <2>3 DEF Sound
  <2>5. DependenciesSatisfied(j)' => Worked(l)'
    BY <1>4, <2>1 DEF Worked, j
  <2>6. QED BY <2>1, <2>3, <2>4, <2>5
<1>8. CASE LaunchFails(l) \/ Exit(l)
  <2>1. /\ worker'[l] = "record"
        /\ UNCHANGED <<known, status, attempts, lastRun, launches>>
    BY <1>8 DEF LaunchFails, Exit, Goto
  <2> HIDE DEF j
  <2>2. \A i \in Jobs: Same(i)
    BY <2>1 DEF Same
  <2>3. Sound(j)'
    BY <1>2, <2>1 DEF Sound
  <2>4. DependenciesSatisfied(j)' => Worked(l)'
    BY <1>4, <2>1 DEF Worked, j
  <2>5. QED BY <2>1, <2>2, <2>3, <2>4
<1>9. CASE Record(l)
  <2>1. /\ worker'[l] = "finish" /\ lastRun' = [lastRun EXCEPT ![j] = result[l]]
        /\ UNCHANGED <<known, status, attempts, launches, result>>
    BY <1>9 DEF Record, Goto
  <2> HIDE DEF j
  <2>2. lastRun'[j] = result[l] /\ \A i \in Jobs: i # j => Same(i)
    BY <1>1, <2>1 DEF Same
  <2>3. Sound(j)'
    BY <1>2, <1>4, <2>1 DEF Sound
  <2>4. DependenciesSatisfied(j)' => Worked(l)'
    BY <1>4, <2>1, <2>2 DEF Worked, j
  <2>5. QED BY <2>1, <2>2, <2>3, <2>4
<1>10. CASE Finish(l)
  <2>1. /\ worker[l] = "finish" /\ worker'[l] = "done"
        /\ status' = [status EXCEPT ![j] = result[l]] /\ known' = known \cup {j}
        /\ UNCHANGED <<attempts, lastRun, launches, result>>
    BY <1>10 DEF Finish, Goto, UpdateStatus
  <2>2. lastRun[j] = result[l]
    BY <1>3, <2>1 DEF Worked
  <2>3. status'[j] = result[l] /\ \A i \in Jobs: i # j => Same(i)
    <3> HIDE DEF j
    <3>1. QED BY <1>1, <2>1 DEF Same
  <2> HIDE DEF j
  <2>4. Sound(j)'
    BY <1>2, <2>1, <2>2, <2>3, StatusFacts DEF Sound
  <2>5. DependenciesSatisfied(j)' => Worked(l)'
    BY <2>1, <2>3 DEF Worked, j
  <2>6. QED BY <1>4, <2>3, <2>4, <2>5 DEF Same
<1>11. QED BY <1>5, <1>6, <1>7, <1>8, <1>9, <1>10 DEF Work

LEMMA WorkerRaisesJobs ==
    ASSUME CalmPart, Control', NEW l \in Lines, WorkerRaises(l) PROVE Jobwise' /\ Linewise'
<1> USE Typed DEF CalmPart
<1>1. /\ worker[l] \in {"count", "mark", "launch", "record", "finish"}
      /\ worker' = [worker EXCEPT ![l] = "raised"] /\ Kept
      /\ UNCHANGED <<lines, result, main, queue, batch, job, crashes>>
  BY DEF WorkerRaises, store, loop, history, Kept
<1>2. l \in batch /\ faults' # 0
  BY WorkerRaisesControl
<1>3. Pooling /\ Pooling' /\ queue = {}
  BY <1>1 DEF Control, Thread, Busy, Pooling, Phase
<1>4. Jobwise'
  BY <1>1, <1>2, JobsKept DEF Kept, Exact, Undisturbed, InBatch
<1>5. ASSUME NEW m \in lines PROVE InHand(m)' /\ Planned(m)'
  <2>1. InHand(m) /\ m \in Lines
    BY DEF Control, TypeOK, Linewise
  <2>2. worker'[m] = worker[m] \/ (worker[m] # "done" /\ worker'[m] = "raised")
    <3>1. worker \in [Lines -> {"none", "count", "mark", "launch", "run",
                                "record", "finish", "done", "raised"}]
      BY Typed
    <3>2. QED BY <1>1, <2>1, <3>1
  <2>3. DependenciesSatisfied(JobOf(m)) => DependenciesSatisfied(JobOf(m))'
    BY <1>1 DEF Kept, DependenciesSatisfied
  <2>4. Worked(m) => Worked(m)'
    BY <1>1, <2>2, <2>3 DEF Kept, Worked, RetriesLeft
  <2>5. InHand(m)'
    BY <1>1, <1>3, <2>1, <2>4 DEF InHand, Pooling
  <2>6. Planned(m)'
    BY <1>3 DEF Planned, Pooling
  <2>7. QED BY <2>5, <2>6
<1>6. QED BY <1>1, <1>4, <1>5 DEF Linewise

-----------------------------------------------------------------------------
(* What the store says of the jobs: the ends of jobs and runs *)

\* The batch goes on as it was.
LEMMA PoolingLines ==
    ASSUME CalmPart, Control', Pooling, Pooling', Kept,
           UNCHANGED <<lines, worker, result, queue, batch>>
    PROVE  Linewise'
<1> SUFFICES ASSUME NEW m \in lines PROVE InHand(m)' /\ Planned(m)'
  BY DEF Linewise
<1>1. InHand(m)
  BY DEF CalmPart, Linewise
<1>2. main' # "lease"
  BY DEF Pooling
<1>3. Aside(m)
  BY <1>2 DEF Kept, Aside, Same
<1>4. DependenciesSatisfied(JobOf(m)) => DependenciesSatisfied(JobOf(m))'
  BY DEF Kept, DependenciesSatisfied
<1>5. InHand(m)'
  BY <1>1, <1>3, <1>4, OtherLine
<1>6. Planned(m)'
  BY DEF Planned, Pooling
<1>7. QED BY <1>5, <1>6

\* A line leaves the batch.
LEMMA Leaves ==
    ASSUME CalmPart, Control', NEW x \in batch, main \in {"collect", "judge"},
           batch' = batch \ {x}, job' = NoLine,
           main' = IF batch' = {} THEN "plan" ELSE "collect",
           UNCHANGED <<lines, worker, result, resume, queue, crashes, faults>>,
           \A i \in Jobs: i # JobOf(x) => Same(i),
           \A d \in Jobs: status[d] = "success" => status'[d] = "success",
           Sound(JobOf(x))', Marked(JobOf(x))', Failed(JobOf(x))'
    PROVE  Jobwise' /\ Linewise'
<1> USE DEF CalmPart
<1>1. Pooling /\ queue = {} /\ x \in lines
  BY DEF Pooling, Control, Phase, TypeOK
<1>2. (Exact' => Exact) /\ (Undisturbed' => Undisturbed)
  BY DEF Exact, Undisturbed
<1>3. ASSUME NEW i \in Jobs, i # JobOf(x) PROVE Sound(i)' /\ Marked(i)' /\ Failed(i)'
  <2>1. Sound(i) /\ Marked(i) /\ Failed(i) /\ Same(i)
    BY <1>3 DEF Jobwise
  <2>2. InBatch(i) => InBatch(i)'
    BY <1>3 DEF InBatch
  <2>3. DependenciesSatisfied(i) => DependenciesSatisfied(i)'
    BY DepsKept
  <2>4. QED BY <1>2, <2>1, <2>2, <2>3, OtherJob
<1>4. ASSUME NEW i \in Jobs, i = JobOf(x) PROVE Sound(i)' /\ Marked(i)' /\ Failed(i)'
  BY <1>4
<1>5. Jobwise'
  BY <1>3, <1>4 DEF Jobwise
<1>6. CASE main' = "plan"
  BY <1>5, <1>6, NothingInHand
<1>7. CASE main' = "collect"
  <2>1. Pooling'
    BY <1>7 DEF Pooling
  <2>2. ASSUME NEW m \in lines PROVE InHand(m)' /\ Planned(m)'
    <3>1. InHand(m) /\ JobOf(m) \in Jobs
      BY LineFacts DEF Control, TypeOK, Linewise
    <3>2. ASSUME m = x PROVE InHand(m)'
      BY <1>1, <1>7, <3>2 DEF InHand
    <3>3. ASSUME m # x PROVE InHand(m)'
      <4>1. JobOf(m) # JobOf(x)
        BY <1>1, <3>3 DEF Calm
      <4>2. Aside(m)
        BY <1>7, <3>1, <4>1 DEF Aside
      <4>3. DependenciesSatisfied(JobOf(m)) => DependenciesSatisfied(JobOf(m))'
        BY <3>1, DepsKept
      <4>4. QED BY <1>1, <2>1, <3>1, <4>2, <4>3, OtherLine
    <3>4. Planned(m)'
      BY <1>7 DEF Planned
    <3>5. QED BY <3>2, <3>3, <3>4
  <2>3. QED BY <1>5, <2>2 DEF Linewise
<1>8. QED BY <1>6, <1>7

LEMMA CollectJobs ==
    ASSUME CalmPart, Control', NEW l \in Lines, Collect(l) PROVE Jobwise' /\ Linewise'
<1> USE Typed DEF CalmPart
<1>1. /\ main = "collect" /\ l \in batch /\ worker[l] \in {"done", "raised"} /\ Kept
      /\ UNCHANGED <<lines, worker, result, queue, crashes, faults>>
  BY DEF Collect, store, threads, history, events, Kept
<1>2. Pooling /\ l \in lines /\ JobOf(l) \in Jobs /\ main = "collect"
  BY <1>1, LineFacts DEF Pooling, Control, TypeOK
<1>3. CASE worker[l] = "done" /\ result[l] \notin Failures
  <2>1. /\ batch' = batch \ {l} /\ job' = NoLine
        /\ main' = IF batch' = {} THEN "plan" ELSE "collect"
    BY <1>3 DEF Collect, Taken, Collected
  <2>2. Worked(l) /\ Thread(l) /\ Sound(JobOf(l))
    BY <1>1, <1>2 DEF Linewise, InHand, Jobwise, Control
  <2>3. result[l] = "success"
    BY <1>3, <2>2 DEF Thread
  <2>4. status[JobOf(l)] = "success" /\ lastRun[JobOf(l)] = "success"
    BY <1>3, <2>2, <2>3 DEF Worked, Sound
  <2>5. Sound(JobOf(l))'
    BY <1>1, <2>2 DEF Sound, Kept
  <2>6. Marked(JobOf(l))' /\ Failed(JobOf(l))'
    BY <1>1, <2>4 DEF Marked, Failed, Failures, Kept
  <2>7. \A i \in Jobs: Same(i) /\ (status[i] = "success" => status'[i] = "success")
    BY <1>1 DEF Kept, Same
  <2>8. resume' = resume
    BY <1>1 DEF Kept
  <2>9. QED BY <1>1, <2>1, <2>5, <2>6, <2>7, <2>8, Leaves
<1>4. CASE ~(worker[l] = "done" /\ result[l] \notin Failures)
  <2>1. batch' = batch /\ main' \in {"raise", "judge"}
    BY <1>4 DEF Collect, Taken
  <2>2. Jobwise'
    BY <1>1, <2>1, JobsKept DEF Kept, Exact, Undisturbed, InBatch
  <2>3. Pooling'
    BY <2>1 DEF Pooling
  <2>4. QED BY <1>1, <1>2, <2>1, <2>2, <2>3, PoolingLines
<1>5. QED BY <1>3, <1>4

LEMMA JudgeJobs ==
    ASSUME CalmPart, Control', Judge PROVE Jobwise' /\ Linewise'
<1> USE Typed DEF CalmPart
<1>0. PICK x: x = job
  OBVIOUS
<1>a. PICK j: j = JobOf(x)
  OBVIOUS
<1>1. /\ main = "judge"
      /\ UNCHANGED <<lines, attempts, worker, result, resume, queue, lastRun, launches,
                     crashes, faults>>
  BY DEF Judge, threads, history, events
<1>2. /\ x \in batch /\ worker[x] = "done" /\ result[x] \in Failures /\ Pooling
      /\ x \in lines /\ j \in Jobs
  BY <1>0, <1>a, <1>1, LineFacts DEF Control, Phase, Called, Pooling, TypeOK
<1>3. InHand(x) /\ Sound(j)
  BY <1>2 DEF Linewise, Jobwise
<1>4. status[j] = result[x] /\ j \in known /\ DependenciesSatisfied(j)
  BY <1>a, <1>2, <1>3 DEF InHand, Worked
<1>5. CASE RetriesLeft(j)
  <2>1. /\ status' = [status EXCEPT ![j] = "pending"] /\ known' = known \cup {j}
        /\ batch' = batch \ {x} /\ job' = NoLine
        /\ main' = IF batch' = {} THEN "plan" ELSE "collect"
    BY <1>0, <1>a, <1>5 DEF Judge, UpdateStatus, Collected
  <2>2. /\ status'[j] = "pending" /\ j \in known' /\ \A i \in Jobs: i # j => Same(i)
        /\ \A d \in Jobs: status[d] = "success" => status'[d] = "success"
    BY <1>1, <1>2, <1>4, <2>1 DEF Same, Failures
  <2>3. DependenciesSatisfied(j)' /\ RetriesLeft(j)'
    <3>1. DependenciesSatisfied(j)'
      BY <1>2, <1>4, <2>2, DepsKept
    <3>2. RetriesLeft(j)'
      BY <1>1, <1>5 DEF RetriesLeft
    <3>3. QED BY <3>1, <3>2
  <2>4. Sound(j)'
    BY <1>1, <1>3, <2>2 DEF Sound
  <2>5. Marked(j)' /\ Failed(j)'
    BY <2>2, <2>3 DEF Marked, Failed
  <2>6. Sound(JobOf(x))' /\ Marked(JobOf(x))' /\ Failed(JobOf(x))'
    BY <1>a, <2>4, <2>5
  <2>7. \A i \in Jobs: i # JobOf(x) => Same(i)
    BY <1>a, <2>2
  <2>8. QED BY <1>1, <1>2, <2>1, <2>2, <2>6, <2>7, Leaves
<1>6. CASE ~RetriesLeft(j) /\ ~FailFast
  <2>1. /\ UNCHANGED <<known, status>>
        /\ batch' = batch \ {x} /\ job' = NoLine
        /\ main' = IF batch' = {} THEN "plan" ELSE "collect"
    BY <1>0, <1>a, <1>6 DEF Judge, Collected
  <2>2. \A i \in Jobs: Same(i) /\ (status[i] = "success" => status'[i] = "success")
    BY <1>1, <2>1 DEF Same
  <2>3. Sound(j)'
    BY <1>1, <1>3, <2>1 DEF Sound
  <2>4. Marked(j)' /\ Failed(j)'
    BY <1>2, <1>4, <2>1 DEF Marked, Failed, Failures
  <2>5. Sound(JobOf(x))' /\ Marked(JobOf(x))' /\ Failed(JobOf(x))'
    BY <1>a, <2>3, <2>4
  <2>6. QED BY <1>1, <1>2, <2>1, <2>2, <2>5, Leaves
<1>7. CASE ~RetriesLeft(j) /\ FailFast
  <2>1. main' = "drain" /\ UNCHANGED <<known, status, batch>>
    BY <1>0, <1>a, <1>7 DEF Judge
  <2>2. Kept /\ Pooling'
    BY <1>1, <2>1 DEF Kept, Pooling
  <2>3. Jobwise'
    BY <1>1, <2>1, JobsKept DEF Exact, Undisturbed, InBatch
  <2>4. QED BY <1>1, <1>2, <2>1, <2>2, <2>3, PoolingLines
<1>8. QED BY <1>5, <1>6, <1>7

LEMMA LeavePoolJobs ==
    ASSUME CalmPart, Control', LeavePool PROVE Jobwise' /\ Linewise'
<1> USE Typed DEF CalmPart
<1>0. PICK x: x = job
  OBVIOUS
<1>1. /\ main \in {"drain", "raise"} /\ \A l \in batch: worker[l] \in {"done", "raised"}
      /\ main' = IF main = "drain" THEN "report" ELSE "down"
      /\ batch' = {} /\ queue' = {} /\ Kept
      /\ UNCHANGED <<lines, crashes, faults>>
  BY DEF LeavePool, Over, store, history, events, Kept
<1>2. Pooling /\ x \in batch /\ batch \subseteq lines /\ lines \subseteq Lines
  BY <1>0, <1>1 DEF Control, Phase, Pooling, TypeOK
<1>3. ASSUME NEW l \in batch, worker[l] = "done"
      PROVE  /\ JobOf(l) \in known /\ status[JobOf(l)] = result[l]
             /\ result[l] \in {"success"} \cup Failures
  <2>1. InHand(l) /\ Thread(l) /\ l \in Lines
    BY <1>2 DEF Linewise, Control
  <2>2. QED BY <1>2, <1>3, <2>1 DEF InHand, Worked, Thread
<1>4. \A j \in Jobs: Sound(j)'
  BY <1>1 DEF Jobwise, Kept, Sound
<1>5. CASE main = "raise"
  <2>1. main' = "down" /\ faults' # 0
    BY <1>0, <1>1, <1>2, <1>5 DEF Control, Called, Thread
  <2>2. \A j \in Jobs: Marked(j)' /\ Failed(j)'
    BY <2>1 DEF Marked, Failed, Exact, Undisturbed
  <2>3. QED BY <1>4, <2>1, <2>2, NothingInHand DEF Jobwise
<1>6. CASE main = "drain"
  <2>1. /\ main' = "report" /\ FailFast /\ worker[x] = "done" /\ result[x] \in Failures
    BY <1>0, <1>1, <1>6 DEF Control, Called
  <2>2. JobOf(x) \in known' /\ status'[JobOf(x)] \in Failures
    BY <1>1, <1>2, <1>3, <2>1 DEF Kept
  <2>3. ASSUME NEW l \in lines PROVE InHand(l)' /\ Planned(l)'
    BY <1>1, <2>1, <2>2 DEF InHand, Planned
  <2>4. ASSUME Undisturbed', NEW j \in Jobs, InBatch(j)
        PROVE  status[j] \in {"success"} \cup Failures
    <3>1. PICK l \in batch: JobOf(l) = j
      BY <2>4 DEF InBatch
    <3>2. worker[l] # "raised"
      BY <1>1, <1>2, <2>4 DEF Undisturbed, Control, Thread
    <3>3. worker[l] = "done"
      BY <1>1, <3>2
    <3>4. QED BY <1>3, <3>1, <3>3
  <2>5. ASSUME NEW j \in Jobs PROVE Marked(j)' /\ Failed(j)'
    <3>1. Marked(j) /\ Failed(j) /\ Sound(j)
      BY DEF Jobwise
    <3>2. (Exact' => Undisturbed') /\ (Undisturbed' => Undisturbed) /\ (Undisturbed => Exact)
      BY <1>1, <2>1 DEF Exact, Undisturbed
    <3>3. Marked(j)'
      BY <1>1, <2>4, <3>1, <3>2 DEF Marked, Failures, Kept
    <3>4. DependenciesSatisfied(j) => DependenciesSatisfied(j)'
      BY <1>1 DEF Kept, DependenciesSatisfied
    <3>5. RetriesLeft(j) => RetriesLeft(j)'
      BY <1>1 DEF Kept, RetriesLeft
    <3>6. Undisturbed' /\ lastRun[j] \in Failures /\ InBatch(j) => status[j] \in Failures
      BY <2>4, <3>1 DEF Sound, Failures
    <3>7. Failed(j)'
      BY <1>1, <3>1, <3>2, <3>4, <3>5, <3>6 DEF Failed, Kept
    <3>8. QED BY <3>3, <3>7
  <2>6. QED BY <1>1, <1>4, <2>3, <2>5 DEF Jobwise, Linewise
<1>7. QED BY <1>1, <1>5, <1>6

LEMMA ReportJobs ==
    ASSUME CalmPart, Control', Report PROVE Jobwise' /\ Linewise'
<1>1. main = "report" /\ main' = "down" /\ Kept /\ UNCHANGED <<batch, crashes, faults>>
  BY DEF Report, store, history, events, Kept
<1>2. Jobwise'
  BY <1>1, JobsKept DEF CalmPart, Kept, Exact, Undisturbed, InBatch
<1>3. QED BY <1>1, <1>2, NothingInHand

LEMMA CrashJobs ==
    ASSUME CalmPart, Control', Crash PROVE Jobwise' /\ Linewise'
<1>1. main' = "down" /\ crashes' # 0 /\ Kept
  BY DEF Crash, store, history, Kept, CalmPart, Control, Counted
<1>2. \A j \in Jobs: Sound(j)'
  BY <1>1 DEF CalmPart, Jobwise, Kept, Sound
<1>3. \A j \in Jobs: Marked(j)' /\ Failed(j)'
  BY <1>1 DEF Marked, Failed, Exact, Undisturbed
<1>4. QED BY <1>1, <1>2, <1>3, NothingInHand DEF Jobwise

LEMMA StutterJobs ==
    ASSUME CalmPart, Control', UNCHANGED vars PROVE Jobwise' /\ Linewise'
<1> USE DEF CalmPart
<1>1. /\ Kept
      /\ UNCHANGED <<lines, worker, result, main, queue, batch, job, crashes, faults>>
  BY DEF vars, store, threads, loop, history, events, Kept
<1>2. Jobwise'
  BY <1>1, JobsKept DEF Kept, Exact, Undisturbed, InBatch
<1>3. ASSUME NEW l \in lines PROVE InHand(l)' /\ Planned(l)'
  <2>1. InHand(l) /\ Planned(l)
    BY DEF Linewise
  <2>2. Aside(l) /\ (Pooling' <=> Pooling) /\ (OnGpu(l)' <=> OnGpu(l))
    BY <1>1 DEF Kept, Aside, Same, Pooling, OnGpu
  <2>3. DependenciesSatisfied(JobOf(l)) => DependenciesSatisfied(JobOf(l))'
    BY <1>1 DEF Kept, DependenciesSatisfied
  <2>4. InHand(l)'
    BY <2>1, <2>2, <2>3, OtherLine
  <2>5. Runnable(JobOf(l))' => Runnable(JobOf(l))
    BY <1>1, LineKept
  <2>6. Planned(l)'
    BY <1>1, <2>1, <2>2, <2>5 DEF Planned, CpuInBatch, OnGpu, Kept
  <2>7. QED BY <2>4, <2>6
<1>4. QED BY <1>1, <1>2, <1>3 DEF Linewise

\* Calm ends for good.
LEMMA CalmBack ==
    ASSUME Control, Calm', [Next]_vars
    PROVE  Calm /\ (\A j \in Jobs: ~CancelRead(j)) /\ ~CancelWrite
<1> USE DEF store, threads, loop, devices, history, events, vars
<1>1. lines \subseteq lines' /\ (cancels' = cancels \/ cancels' = cancels + 1)
  <2>1. CASE Submit \/ SubmitTorn
    BY <2>1 DEF Submit, SubmitTorn
  <2>2. CASE \E r \in BOOLEAN: Start(r)
    BY <2>2 DEF Start
  <2>3. CASE Plan \/ Consider \/ Lease \/ MarkLeased
    BY <2>3 DEF Plan, Consider, Lease, MarkLeased
  <2>4. CASE NoLease \/ Dispatch \/ \E l \in Lines: Collect(l)
    BY <2>4 DEF NoLease, Dispatch, Collect
  <2>5. CASE Judge \/ LeavePool \/ Report
    BY <2>5 DEF Judge, LeavePool, Report
  <2>6. CASE \E l \in Lines: Work(l)
    BY <2>6 DEF Work, CountAttempt, MarkRunning, Launch, LaunchFails, Exit, Record, Finish, Goto
  <2>7. CASE (\E l \in Lines: WorkerRaises(l)) \/ Crash
    BY <2>7 DEF WorkerRaises, Crash
  <2>8. CASE (\E j \in Jobs: CancelRead(j)) \/ CancelWrite
    BY <2>8 DEF CancelRead, CancelWrite
  <2>9. CASE UNCHANGED vars
    BY <2>9
  <2>10. QED BY <2>1, <2>2, <2>3, <2>4, <2>5, <2>6, <2>7, <2>8, <2>9 DEF Next, Loop
<1>2. cancels = 0 /\ cancels' = 0
  BY <1>1 DEF Calm, Control, Counted
<1>3. Calm
  BY <1>1, <1>2 DEF Calm, JobOf
<1>4. snapshot = NoSnapshot
  BY <1>2 DEF Control, Counted
<1>5. QED BY <1>2, <1>3, <1>4 DEF CancelRead, CancelWrite

LEMMA CalmStep ==
    ASSUME CalmPart, Calm', [Next]_vars PROVE Jobwise' /\ Linewise'
<1>1. Control'
  BY ControlStep DEF CalmPart
<1>2. (\A j \in Jobs: ~CancelRead(j)) /\ ~CancelWrite
  BY CalmBack DEF CalmPart
<1>3. CASE Submit \/ SubmitTorn
  BY <1>1, <1>3, SubmitJobs
<1>4. CASE \E r \in BOOLEAN: Start(r)
  BY <1>1, <1>4, StartJobs
<1>5. CASE Loop
  BY <1>1, <1>5, PlanJobs, ConsiderJobs, LeaseJobs, MarkLeasedJobs, NoLeaseJobs,
     DispatchJobs, CollectJobs, JudgeJobs, LeavePoolJobs, ReportJobs DEF Loop
<1>6. CASE \E l \in Lines: Work(l) \/ WorkerRaises(l)
  BY <1>1, <1>6, WorkJobs, WorkerRaisesJobs
<1>7. CASE Crash
  BY <1>1, <1>7, CrashJobs
<1>8. CASE UNCHANGED vars
  BY <1>1, <1>8, StutterJobs
<1>9. QED BY <1>2, <1>3, <1>4, <1>5, <1>6, <1>7, <1>8 DEF Next

-----------------------------------------------------------------------------
(* Theorems *)

\* Before the first run nothing is in hand and nothing is on record.
THEOREM Initially == Init => IInv
<1> SUFFICES ASSUME Init PROVE IInv
  OBVIOUS
<1>1. Control
  BY ControlInit
<1>2. ASSUME NEW j \in Jobs PROVE Sound(j) /\ Marked(j) /\ Failed(j)
  BY DepsIn DEF Init, Sound, Marked, Failed, Failures
<1>3. Linewise
  BY DEF Init, Linewise
<1>4. QED BY <1>1, <1>2, <1>3 DEF IInv, Jobwise

\* Every step of run(), of a worker thread, of submit_jobs, of cancel-job and of
\* a kill keeps the invariant; once a run is not calm it has the Control part.
THEOREM Inductive == IInv /\ [Next]_vars => IInv'
<1> SUFFICES ASSUME IInv, [Next]_vars PROVE IInv'
  OBVIOUS
<1>1. Control'
  BY ControlStep DEF IInv
<1>2. ASSUME Calm' PROVE Jobwise' /\ Linewise'
  <2>1. CalmPart
    BY <1>2, CalmBack DEF IInv, CalmPart
  <2>2. QED BY <1>2, <2>1, CalmStep
<1>3. QED BY <1>1, <1>2 DEF IInv

\* The invariant holds in every state of the scheduler.
THEOREM InvariantHolds == Spec => []IInv
BY Initially, Inductive, PTL DEF Spec

\* The store, the loop, the threads and the leases have their types in every
\* state: in particular no line is worked on that is not in compute_jobs.jsonl.
THEOREM TypeCorrect == Spec => []TypeOK
<1>1. IInv => TypeOK
  BY DEF IInv, Control
<1>2. QED BY <1>1, InvariantHolds, PTL

LEMMA GivenBack == Control => DevicesGivenBack
<1> SUFFICES ASSUME Control, crashes = 0 /\ faults = 0 /\ ~FailFast /\ main \in {"down", "plan"}
             PROVE  leaked = 0 /\ Leased = 0
  BY DEF DevicesGivenBack
<1>1. leaked = 0
  BY DEF Control, Allotment
<1>2. \A l \in Lines: leases[l] = 0
  BY LineFacts DEF Control, Allotment, Phase
<1>3. Leased = 0
  BY <1>2, LeasedFacts DEF Control, TypeOK
<1>4. QED BY <1>1, <1>3

\* A run that neither dies, raises nor stops at its first failure gives back
\* every GPU before it plans again or ends, cancelled jobs and jobs with several
\* lines included.
THEOREM GivesBack == Spec => []DevicesGivenBack
<1>1. IInv => DevicesGivenBack
  BY GivenBack DEF IInv
<1>2. QED BY <1>1, InvariantHolds, PTL

LEMMA StartIsDue ==
    ASSUME CalmPart PROVE StartsAreDue
<1> USE Typed DEF CalmPart
<1>1. ASSUME NEW l \in Lines, Busy(l), NEW d \in Deps[JobOf(l)]
      PROVE  status[d] = "success" /\ lastRun[d] = "success"
  <2>1. l \in batch /\ l \in lines /\ Pooling /\ d \in Jobs
    BY <1>1, LineFacts, DepsIn DEF Control, Thread, TypeOK
  <2>2. Worked(l) /\ Sound(d)
    BY <2>1 DEF Linewise, InHand, Jobwise
  <2>3. QED BY <1>1, <2>2 DEF Worked, DependenciesSatisfied, Sound
<1>2. ASSUME NEW j \in Jobs PROVE launches[j] <= MaxRetries[j] + 1
  <2>1. launches[j] \in Nat /\ attempts[j] \in Nat /\ MaxRetries[j] \in Nat
    BY DepsIn
  <2>2. launches[j] <= attempts[j] /\ attempts[j] <= MaxRetries[j] + 1
    BY DEF Jobwise, Sound
  <2>3. QED BY <2>1, <2>2
<1>3. QED BY <1>1, <1>2 DEF StartsAreDue, DependenciesFirst, LaunchesBounded

LEMMA NoneForgotten ==
    ASSUME CalmPart PROVE NothingForgotten
<1> USE Typed DEF CalmPart
<1>1. TypeOK /\ DevicesGivenBack
  BY GivenBack DEF Control
<1>2. ASSUME main = "report", NEW l \in lines
      PROVE  /\ batch = {} /\ JobOf(l) \in Jobs /\ Planned(l) /\ ~InBatch(JobOf(l))
             /\ Sound(JobOf(l)) /\ Marked(JobOf(l)) /\ Failed(JobOf(l))
  BY <1>2, LineFacts DEF Control, TypeOK, Phase, Linewise, Jobwise, InBatch
<1>3. ASSUME main = "report", resume, ~FailFast, NEW l \in lines
      PROVE  \/ status[JobOf(l)] \in {"success", "cancelled"}
             \/ ~DependenciesSatisfied(JobOf(l)) \/ ~RetriesLeft(JobOf(l))
             \/ OnGpu(l)
  <2>1. status[JobOf(l)] \notin {"leased", "running"}
    BY <1>2, <1>3 DEF Marked, Exact
  <2>2. OnGpu(l) \/ ~Runnable(JobOf(l))
    BY <1>2, <1>3 DEF Planned
  <2>3. status[JobOf(l)] \in Statuses
    BY <1>2, <1>3
  <2>4. QED BY <1>3, <2>1, <2>2, <2>3 DEF Runnable, Statuses
<1>4. ASSUME main = "report", ReportStatus = "success", crashes = 0, faults = 0,
             NEW l \in lines, lastRun[JobOf(l)] \in Failures
      PROVE  \/ status[JobOf(l)] = "resumed"
             \/ status[JobOf(l)] = "pending" /\ OnGpu(l)
  <2>1. \A j \in known: status[j] \notin Failures
    BY <1>4 DEF ReportStatus
  <2>2. JobOf(l) \in known \/ status[JobOf(l)] = "pending"
    BY <1>2, <1>4 DEF Sound
  <2>3. status[JobOf(l)] \notin Failures
    BY <2>1, <2>2 DEF Failures
  <2>4. OnGpu(l) \/ ~Runnable(JobOf(l))
    BY <1>2, <1>4, <2>1 DEF Planned
  <2>5. QED BY <1>2, <1>4, <2>3, <2>4 DEF Failed, Undisturbed, Runnable
<1>5. QED BY <1>1, <1>3, <1>4 DEF NothingForgotten, JobsAccountedFor, FailuresReported

LEMMA SuccessKept ==
    ASSUME CalmPart, Calm', [Next]_vars, NEW j \in Jobs, status[j] = "success"
    PROVE  status'[j] = "success" /\ launches'[j] = launches[j]
<1> USE Typed DEF CalmPart, store, history, vars
<1>1. (\A i \in Jobs: ~CancelRead(i)) /\ ~CancelWrite
  BY CalmBack
<1>2. CASE Submit \/ SubmitTorn
  BY <1>2 DEF Submit, SubmitTorn
<1>3. CASE \E r \in BOOLEAN: Start(r)
  BY <1>3 DEF Start, Resumed, Failures
<1>4. CASE Plan \/ Consider \/ Lease \/ Dispatch \/ Report
  BY <1>4 DEF Plan, Consider, Lease, Dispatch, Report
<1>5. CASE LeavePool \/ Crash \/ \E l \in Lines: Collect(l) \/ WorkerRaises(l)
  BY <1>5 DEF LeavePool, Crash, Collect, WorkerRaises
<1>6. CASE MarkLeased
  <2>1. PICK x: x = job
    OBVIOUS
  <2>2. main = "lease" /\ launches' = launches /\ status' = [status EXCEPT ![JobOf(x)] = "leased"]
    BY <1>6, <2>1 DEF MarkLeased, UpdateStatus
  <2>3. x \in lines /\ InHand(x)
    BY <2>1, <2>2 DEF Control, Phase, Linewise
  <2>4. JobOf(x) # j
    BY <2>1, <2>2, <2>3 DEF InHand, Due
  <2>5. QED BY <2>2, <2>4
<1>7. CASE NoLease
  <2>1. PICK x: x = Candidate
    OBVIOUS
  <2>2. queue # {} /\ launches' = launches
        /\ (status' = status \/ status' = [status EXCEPT ![JobOf(x)] = "failed"])
    BY <1>7, <2>1 DEF NoLease, UpdateStatus
  <2>3. x \in queue /\ x \in lines /\ InHand(x)
    BY <2>1, <2>2, CandidateIn DEF Linewise
  <2>4. JobOf(x) # j
    BY <2>3 DEF InHand, Due
  <2>5. QED BY <2>2, <2>4
<1>8. CASE \E l \in Lines: Work(l)
  <2>1. PICK l \in Lines: Work(l)
    BY <1>8
  <2>2. Threads(l) /\ l \in batch /\ l \in lines /\ InHand(l)
    BY <2>1, WorkControl DEF Linewise
  <2>3. Worked(l) /\ worker[l] # "done"
    BY <2>2 DEF InHand, Threads, Control, Thread, Busy
  <2>4. JobOf(l) # j
    BY <2>3 DEF Worked
  <2>5. /\ \/ status' = status \/ status' = [status EXCEPT ![JobOf(l)] = "running"]
           \/ status' = [status EXCEPT ![JobOf(l)] = result[l]]
        /\ \/ launches' = launches
           \/ launches' = [launches EXCEPT ![JobOf(l)] = @ + 1]
    BY <2>1 DEF Work, CountAttempt, MarkRunning, Launch, LaunchFails, Exit, Record, Finish,
                UpdateStatus
  <2>6. QED BY <2>4, <2>5
<1>9. CASE Judge
  <2>1. PICK x: x = job
    OBVIOUS
  <2>2. main = "judge" /\ launches' = launches
        /\ (status' = status \/ status' = [status EXCEPT ![JobOf(x)] = "pending"])
    BY <1>9, <2>1 DEF Judge, UpdateStatus
  <2>3. /\ x \in batch /\ x \in lines /\ Pooling /\ worker[x] = "done"
        /\ result[x] \in Failures /\ InHand(x)
    BY <2>1, <2>2 DEF Control, Phase, Called, Pooling, TypeOK, Linewise
  <2>4. JobOf(x) # j
    BY <2>3 DEF InHand, Worked, Failures
  <2>5. QED BY <2>2, <2>4
<1>10. QED BY <1>1, <1>2, <1>3, <1>4, <1>5, <1>6, <1>7, <1>8, <1>9 DEF Next, Loop

\* Until a job is cancelled or has a second line, jobs are worked on only after
\* all they depend on has succeeded, and are started max_retries + 1 times at
\* most, over all runs, resumes, kills and errors.
THEOREM StartsDue == Spec => [](Calm => StartsAreDue)
<1>1. IInv => (Calm => StartsAreDue)
  BY StartIsDue DEF IInv, CalmPart
<1>2. QED BY <1>1, InvariantHolds, PTL

\* Until then, a run that resumes and ends by itself leaves no job that could
\* still run on a CPU, and one that reports success hides no failed job, for
\* every batch size, every order of the threads and every error in between.
THEOREM ForgetsNothing == Spec => [](Calm => NothingForgotten)
<1>1. IInv => (Calm => NothingForgotten)
  BY NoneForgotten DEF IInv, CalmPart
<1>2. QED BY <1>1, InvariantHolds, PTL

\* Until then, no step takes back a success or starts the job again.
THEOREM SuccessStays ==
    Spec => [][Calm' => \A j \in Jobs: status[j] = "success" =>
                   status'[j] = "success" /\ launches'[j] = launches[j]]_vars
<1>1. IInv /\ [Next]_vars =>
          [Calm' => \A j \in Jobs: status[j] = "success" =>
              status'[j] = "success" /\ launches'[j] = launches[j]]_vars
  BY CalmBack, SuccessKept DEF IInv, CalmPart
<1>2. QED BY <1>1, InvariantHolds, PTL DEF Spec

\* That is no condition where no job gets a second line and cancel-job is
\* not used: the instances that the runs check.
THEOREM OneLine ==
    ASSUME MaxLines = 1, MaxCancels = 0
    PROVE  Spec => []StartsAreDue /\ []NothingForgotten /\ SuccessIsFinal
<1>1. Control => Calm
  <2> SUFFICES ASSUME Control PROVE Calm
    OBVIOUS
  <2>1. cancels = 0
    BY DEF Control, Counted
  <2>2. ASSUME NEW l \in lines, NEW m \in lines, JobOf(l) = JobOf(m) PROVE l = m
    <3>1. l \in Jobs \X {1} /\ m \in Jobs \X {1}
      <4>1. 1..1 = {1}
        OBVIOUS
      <4>2. QED BY <4>1 DEF Control, TypeOK, Lines
    <3>2. QED BY <2>2, <3>1 DEF JobOf
  <2>3. QED BY <2>1, <2>2 DEF Calm
<1>2. IInv => CalmPart
  BY <1>1 DEF IInv, CalmPart
<1>3. IInv => StartsAreDue /\ NothingForgotten
  BY <1>2, StartIsDue, NoneForgotten
<1>4. IInv /\ IInv' /\ [Next]_vars =>
          [\A j \in Jobs: status[j] = "success" =>
              status'[j] = "success" /\ launches'[j] = launches[j]]_vars
  <2>1. IInv' => Calm'
    BY <1>1, PTL DEF IInv
  <2>2. QED BY <1>2, <2>1, SuccessKept
<1>5. QED BY <1>3, <1>4, InvariantHolds, PTL DEF Spec, SuccessIsFinal

-----------------------------------------------------------------------------
(***************************************************************************)
(* The lock files: the hypothesis and the invariant                        *)
(***************************************************************************)

\* A process is at work, or holds leases.
Engaged(p) == at[p] # "idle" \/ HeldBy(p) # {}

\* One scheduler after another.
OneAtATime == \A p, q \in Procs: Engaged(p) /\ Engaged(q) => p = q

\* The uses are told apart by their leases and share no device; only jobs of
\* a running batch have ended.
Uses ==
    /\ \A u \in holds: u.lease <= issued
    /\ \A u, v \in holds: u.lease = v.lease => u = v
    /\ Disjoint(holds)
    /\ \A l \in ended: \E u \in holds: u.lease = l /\ running[u.proc]

\* A heartbeat is of a running job; the file it rewrites is the lease's, then
\* empty.  No two heartbeats meet.
Beats ==
    /\ \A b \in beat:
          /\ \E u \in holds: u.lease = b.lease /\ running[u.proc]
          /\ b.lease \notin ended
          /\ b.stage = "read" => file[b.gpu].lease = b.lease
          /\ b.stage # "read" => b.stage = "opened" /\ file[b.gpu] = Empty
    /\ \A b, c \in beat: b.lease = c.lease \/ b.gpu = c.gpu => b = c

Opened(l, g) == [lease |-> l, gpu |-> g, stage |-> "opened"]

\* The files of a use are being written by the call that drew its lease.
Fresh(u) == at[u.proc] = "write" /\ lease[u.proc] = u.lease

\* Each device of a job that has not ended has the file of its lease.
Recorded ==
    \A u \in holds: (u.lease \notin ended /\ ~Fresh(u)) =>
        \A g \in u.gpus: file[g] = Full(u.lease) \/ Opened(u.lease, g) \in beat

\* A full file is of a lease that is held, or was left behind.
Owned ==
    \A g \in Devices:
        file[g].kind = "full" => file[g].lease \in LeasesOf(holds) \cup abandoned

\* An empty file has been created, or is being rewritten.
Making(p, g) ==
    \/ at[p] \in {"create", "rollback"} /\ g \in mine[p]
    \/ at[p] = "write" /\ g \in todo[p]

Whole ==
    kills = 0 =>
        \A g \in Devices: file[g] = Empty =>
            \/ \E p \in Procs: Making(p, g)
            \/ \E b \in beat: b.gpu = g

\* Every empty file is of one of the devices.
EmptiesIn(gpus) == \A g \in Devices: file[g] = Empty => g \in gpus
EmptyAll(gpus) == \A g \in gpus: file[g] = Empty

Sweeping(p) ==
    /\ at[p] = "sweep" => mine[p] = {} /\ EmptiesIn(todo[p])
    /\ at[p] = "unlink" =>
          /\ EmptiesIn(todo[p])
          /\ \E g \in Devices: mine[p] = {g} /\ ~file[g].fresh

Creating(p) ==
    /\ at[p] \in {"create", "rollback"} =>
          EmptiesIn(mine[p]) /\ EmptyAll(mine[p])
    /\ at[p] = "create" => want[p] > 0 /\ mine[p] \cap todo[p] = {}

Writing(p) ==
    at[p] = "write" =>
        /\ [lease |-> lease[p], gpus |-> mine[p], proc |-> p] \in holds
        /\ todo[p] \subseteq mine[p]
        /\ EmptiesIn(todo[p]) /\ EmptyAll(todo[p])
        /\ \A g \in mine[p] \ todo[p]: file[g] = Full(lease[p])

Releasing(p) ==
    /\ at[p] \in {"release", "remove"} =>
          /\ running[p] /\ lease[p] \in ended
          /\ \E u \in holds: u.lease = lease[p] /\ u.proc = p
          /\ \A g \in Devices: file[g].lease = lease[p] => g \in todo[p]
    /\ at[p] = "remove" => \E g \in Devices: mine[p] = {g} /\ file[g].lease = lease[p]

Acquiring == {"sweep", "unlink", "create", "rollback", "write"}

Placed(p) ==
    /\ at[p] = "idle" => todo[p] = {} /\ mine[p] = {} /\ want[p] = 0
    /\ at[p] \in Acquiring => ~running[p]
    /\ running[p] => HeldBy(p) # {}
    /\ want[p] > 0 /\ at[p] # "write" => issued < MaxLeases
    /\ Sweeping(p) /\ Creating(p) /\ Writing(p) /\ Releasing(p)

FilesInv ==
    /\ GpuTypeOK /\ Uses /\ Beats /\ Recorded /\ Owned /\ Whole
    /\ \A p \in Procs: Placed(p)

-----------------------------------------------------------------------------
LEMMA FileFacts ==
    /\ Absent \in LockFile /\ Absent.kind = "absent" /\ Absent.lease = 0
    /\ Absent.fresh = FALSE
    /\ Empty \in LockFile /\ Empty.kind = "empty" /\ Empty.lease = 0
    /\ Empty.fresh = FALSE
    /\ \A l \in Leases: /\ Full(l) \in LockFile /\ Full(l).kind = "full"
                        /\ Full(l).lease = l /\ Full(l).fresh = TRUE
    /\ \A f \in LockFile:
          \/ f = Absent
          \/ f = Empty
          \/ f.kind = "full" /\ f.lease \in Leases /\ f.fresh \in BOOLEAN
    /\ \A f \in LockFile: f.kind = "full" =>
          /\ [f EXCEPT !.fresh = FALSE] \in LockFile
          /\ [f EXCEPT !.fresh = FALSE].kind = "full"
          /\ [f EXCEPT !.fresh = FALSE].lease = f.lease
<1> DEFINE Records == [kind: {"full"}, lease: Leases, fresh: BOOLEAN]
<1>1. \A f \in LockFile: f = Absent \/ f = Empty \/ f \in Records
  BY DEF LockFile
<1>2. \A f \in Records: f \in LockFile /\ f.kind = "full"
                        /\ f.lease \in Leases /\ f.fresh \in BOOLEAN
  BY DEF LockFile
<1>3. \A f \in Records: /\ [f EXCEPT !.fresh = FALSE] \in Records
                        /\ [f EXCEPT !.fresh = FALSE].lease = f.lease
  OBVIOUS
<1>4. \A l \in Leases: /\ Full(l) \in Records /\ Full(l).lease = l
                       /\ Full(l).fresh = TRUE
  BY DEF Full
<1>5. /\ Absent \in LockFile /\ Absent.kind = "absent" /\ Absent.lease = 0
      /\ Absent.fresh = FALSE
      /\ Empty \in LockFile /\ Empty.kind = "empty" /\ Empty.lease = 0
      /\ Empty.fresh = FALSE
  BY DEF LockFile, Absent, Empty
<1> HIDE DEF Records
<1>6. \A f \in LockFile: f.kind = "full" => f \in Records
  BY <1>1, <1>5
<1>7. QED BY <1>1, <1>2, <1>3, <1>4, <1>5, <1>6

LEMMA LeaseFacts == 0 \notin Leases /\ \A l \in Leases: l \in Nat /\ l > 0
BY LeaseBoundsAssumption DEF Leases

LEMMA UseFacts ==
    \A u \in Use: u.lease \in Leases /\ u.gpus \in SUBSET Devices /\ u.proc \in Procs
BY DEF Use

LEMMA BeatFacts ==
    \A b \in [lease: Leases, gpu: Devices, stage: {"read", "opened", "unlinked"}]:
        /\ b.lease \in Leases /\ b.gpu \in Devices
        /\ b.stage \in {"read", "opened", "unlinked"}
        /\ b.stage = "opened" => b = Opened(b.lease, b.gpu)
        /\ [b EXCEPT !.stage = "opened"] = Opened(b.lease, b.gpu)
BY DEF Opened

LEMMA OpenedFacts ==
    \A l \in Leases, g \in Devices:
        /\ Opened(l, g) \in [lease: Leases, gpu: Devices,
                             stage: {"read", "opened", "unlinked"}]
        /\ Opened(l, g).lease = l /\ Opened(l, g).gpu = g
        /\ Opened(l, g).stage = "opened"
BY DEF Opened

\* The least of a set of devices is one of them.
LEMMA LeastDevice ==
    ASSUME NEW gpus \in SUBSET Devices, gpus # {}
    PROVE  Min(gpus) \in gpus
<1>1. gpus \in SUBSET Nat
  BY DevicesAssumption
<1>2. \E x \in gpus : \A y \in gpus : ~ (<<y, x>> \in OpToRel(<, Nat))
  BY <1>1, NatLessThanWellFounded, WFMin, Zenon
<1>3. PICK x \in gpus : \A y \in gpus : ~ (<<y, x>> \in OpToRel(<, Nat))
  BY <1>2
<1>4. \A y \in gpus : ~ (y < x)
  BY <1>1, <1>3 DEF OpToRel
<1>5. \A y \in gpus : x <= y
  BY <1>1, <1>4
<1>6. QED BY <1>5 DEF Min

-----------------------------------------------------------------------------
(* Who else is there when a process takes a step: nobody *)

Only(p) ==
    /\ \A u \in holds: u.proc = p
    /\ \A q \in Procs: q # p => at[q] = "idle"

LEMMA Alone ==
    ASSUME OneAtATime, GpuTypeOK, NEW p \in Procs, Engaged(p)
    PROVE  Only(p)
<1>1. \A q \in Procs: q # p => ~Engaged(q)
  BY DEF OneAtATime
<1>2. \A u \in holds: u.proc \in Procs /\ u \in HeldBy(u.proc)
  BY UseFacts DEF GpuTypeOK, HeldBy
<1>3. QED BY <1>1, <1>2 DEF Only, Engaged

\* The step changes nothing of the other processes.
Local(p) ==
    \A q \in Procs: q # p =>
        /\ at'[q] = at[q] /\ todo'[q] = todo[q] /\ mine'[q] = mine[q]
        /\ want'[q] = want[q] /\ running'[q] = running[q]

LEMMA Others ==
    ASSUME FilesInv, NEW p \in Procs, Only(p), Local(p)
    PROVE  \A q \in Procs: q # p => Placed(q)'
<1> SUFFICES ASSUME NEW q \in Procs, q # p PROVE Placed(q)'
  OBVIOUS
<1>1. at[q] = "idle" /\ at'[q] = "idle"
  BY DEF Only, Local
<1>2. todo'[q] = {} /\ mine'[q] = {} /\ want'[q] = 0
  BY <1>1 DEF FilesInv, Placed, Local
<1>3. HeldBy(q) = {}
  BY DEF Only, HeldBy
<1>4. running[q] = FALSE
  BY <1>3 DEF FilesInv, Placed, GpuTypeOK
<1>5. running'[q] = FALSE
  BY <1>4 DEF Local
<1>6. QED BY <1>1, <1>2, <1>5 DEF Placed, Sweeping, Creating, Writing, Releasing,
             Acquiring

LEMMA Quiet ==
    ASSUME FilesInv, NEW p \in Procs, Only(p), ~running[p]
    PROVE  beat = {} /\ ended = {}
BY DEF FilesInv, Only, Uses, Beats

\* A removal that takes no file from under a heartbeat.
LEMMA Unlinked ==
    ASSUME FilesInv, NEW g \in Devices, Unlink(g), file[g] # Empty \/ beat = {}
    PROVE  beat' = beat
<1>1. \A b \in beat: ~(b.gpu = g /\ b.stage = "opened")
  BY BeatFacts DEF FilesInv, Beats
<1>2. QED BY <1>1 DEF Unlink

-----------------------------------------------------------------------------
\* Before the first acquire there are no lock files, leases or heartbeats.
THEOREM FilesInitially == GpuInit => FilesInv
<1> SUFFICES ASSUME GpuInit PROVE FilesInv
  OBVIOUS
<1>1. GpuTypeOK
  BY FileFacts, LeaseBoundsAssumption DEF GpuInit, GpuTypeOK
<1>2. Uses /\ Beats /\ Recorded
  BY DEF GpuInit, Uses, Beats, Recorded, Disjoint
<1>3. Owned /\ Whole
  BY FileFacts DEF GpuInit, Owned, Whole
<1>4. \A p \in Procs: HeldBy(p) = {}
  BY DEF GpuInit, HeldBy
<1>5. \A p \in Procs: Placed(p)
  BY DEF GpuInit, Placed, Sweeping, Creating, Writing, Releasing, Acquiring
<1>6. QED BY <1>1, <1>2, <1>3, <1>5 DEF FilesInv

-----------------------------------------------------------------------------
(* Sweeping *)

LEMMA AloneAfter ==
    ASSUME OneAtATime', GpuTypeOK, NEW p \in Procs, at'[p] # "idle",
           \A q \in Procs: q # p => at'[q] = at[q], holds' = holds
    PROVE  Only(p)
<1>1. \A q \in Procs: q # p => ~Engaged(q)'
  BY DEF OneAtATime, Engaged
<1>2. \A q \in Procs: q # p => at[q] = "idle" /\ ~\E u \in holds: u.proc = q
  BY <1>1 DEF Engaged, HeldBy
<1>3. QED BY <1>2, UseFacts DEF Only, GpuTypeOK

\* Nothing that the files are about changes.
Looks(p) ==
    /\ UNCHANGED <<file, holds, ended, abandoned, beat, issued, kills, running>>
    /\ Local(p)

LEMMA LooksFrame ==
    ASSUME FilesInv, NEW p \in Procs, Looks(p)
    PROVE  Uses' /\ Beats' /\ Owned'
BY DEF FilesInv, Looks, Uses, Beats, Owned, Disjoint, LeasesOf

LEMMA BeginSweepStep ==
    ASSUME FilesInv, OneAtATime', NEW p \in Procs, NEW n \in Sizes \cup {0},
           BeginSweep(p, n), n > 0 => issued < MaxLeases,
           sweeps' \in 0..MaxSweeps
    PROVE  FilesInv'
<1> USE DEF MoveTo, Visit, jobs, locals, counters
<1>1. GpuTypeOK'
  BY DEF FilesInv, GpuTypeOK, BeginSweep, Present
<1>2. Only(p)
  BY AloneAfter DEF FilesInv, GpuTypeOK, BeginSweep
<1>3. Looks(p)
  BY DEF FilesInv, GpuTypeOK, BeginSweep, Looks, Local
<1>4. Uses' /\ Beats' /\ Owned'
  BY <1>3, LooksFrame
<1>5. \A q \in Procs: q # p => Placed(q)'
  BY <1>2, <1>3, Others DEF Looks
<1>6. ~running[p] /\ at[p] = "idle" /\ at'[p] = "sweep" /\ mine[p] = {}
      /\ mine'[p] = {} /\ running'[p] = running[p] /\ want'[p] = n
      /\ todo'[p] = Present
  BY DEF FilesInv, GpuTypeOK, BeginSweep, Placed
<1>7. beat = {} /\ ended = {}
  BY <1>2, <1>6, Quiet
<1>8. Recorded'
  BY <1>2, <1>3, <1>6 DEF FilesInv, Recorded, Fresh, Looks, Only
<1>9. Whole'
  <2>1. \A q \in Procs, g \in Devices: ~Making(q, g)
    BY <1>2, <1>6 DEF Only, Making
  <2>2. QED BY <1>3, <1>7, <2>1 DEF FilesInv, Whole, Looks
<1>10. Placed(p)'
  <2>1. EmptiesIn(todo[p])'
    BY <1>3, <1>6, FileFacts DEF EmptiesIn, Present, Looks
  <2>2. issued' = issued
    BY <1>3 DEF Looks
  <2>3. QED BY <1>6, <2>1, <2>2 DEF Placed, Sweeping, Creating, Writing, Releasing,
               Acquiring
<1>11. QED BY <1>1, <1>4, <1>5, <1>8, <1>9, <1>10 DEF FilesInv

LEMMA BeginAcquireStep ==
    ASSUME FilesInv, OneAtATime', NEW p \in Procs, NEW n \in Sizes, BeginAcquire(p, n)
    PROVE  FilesInv'
<1>1. Only(p)
  BY AloneAfter DEF FilesInv, GpuTypeOK, BeginAcquire, BeginSweep, MoveTo, jobs
<1>2. {q \in Procs: want[q] > 0} = {}
  BY <1>1 DEF Only, FilesInv, Placed, BeginAcquire, BeginSweep
<1>3. issued < MaxLeases
  <2>1. Cardinality({q \in Procs: want[q] > 0}) = 0
    BY <1>2, FS_EmptySet, Zenon
  <2>2. issued + Cardinality({q \in Procs: want[q] > 0}) < MaxLeases
    BY DEF BeginAcquire
  <2>3. issued + 0 < MaxLeases
    BY <2>1, <2>2
  <2>4. QED BY <2>3, LeaseBoundsAssumption DEF FilesInv, GpuTypeOK
<1>4. sweeps' \in 0..MaxSweeps
  BY DEF BeginAcquire, FilesInv, GpuTypeOK
<1>5. QED BY <1>3, <1>4, BeginSweepStep DEF BeginAcquire

LEMMA ReleaseStaleStep ==
    ASSUME FilesInv, OneAtATime', NEW p \in Procs, ReleaseStale(p)
    PROVE  FilesInv'
<1>1. sweeps' \in 0..MaxSweeps
  BY LeaseBoundsAssumption DEF ReleaseStale, FilesInv, GpuTypeOK
<1>2. QED BY <1>1, BeginSweepStep DEF ReleaseStale

LEMMA SweepReadStep ==
    ASSUME FilesInv, OneAtATime, NEW p \in Procs, NEW g \in Devices, SweepRead(p, g)
    PROVE  FilesInv'
<1> USE DEF MoveTo, Visited, jobs, locals, counters
<1>1. GpuTypeOK'
  BY DEF FilesInv, GpuTypeOK, SweepRead
<1>2. Only(p) /\ at[p] = "sweep" /\ g \in todo[p]
  BY Alone DEF FilesInv, SweepRead, Engaged
<1>3. Looks(p)
  BY DEF FilesInv, GpuTypeOK, SweepRead, Looks, Local
<1>4. Uses' /\ Beats' /\ Owned'
  BY <1>3, LooksFrame
<1>5. \A q \in Procs: q # p => Placed(q)'
  BY <1>2, <1>3, Others DEF Looks
<1>6. ~running[p] /\ running'[p] = running[p] /\ want'[p] = want[p]
      /\ issued' = issued /\ file' = file /\ mine[p] = {} /\ EmptiesIn(todo[p])
      /\ HeldBy(p)' = HeldBy(p)
  BY <1>2 DEF FilesInv, GpuTypeOK, SweepRead, Placed, Acquiring, Sweeping, HeldBy
<1>7. beat = {} /\ ended = {}
  BY <1>2, <1>6, Quiet
<1>8. at'[p] \in {"sweep", "unlink"}
  BY <1>2 DEF SweepRead, FilesInv, GpuTypeOK
<1>9. Recorded'
  BY <1>2, <1>3, <1>8 DEF FilesInv, Recorded, Fresh, Looks, Only
<1>10. Whole'
  <2>1. \A q \in Procs, d \in Devices: ~Making(q, d)
    BY <1>2 DEF Only, Making
  <2>2. QED BY <1>3, <1>7, <2>1 DEF FilesInv, Whole, Looks
<1>11. Placed(p)'
  <2>1. CASE IsStale(g)
    <3>1. at'[p] = "unlink" /\ mine'[p] = {g} /\ todo'[p] = todo[p]
      BY <2>1 DEF SweepRead, FilesInv, GpuTypeOK
    <3>2. ~file'[g].fresh /\ EmptiesIn(todo[p])'
      BY <1>6, <2>1, <3>1 DEF IsStale, EmptiesIn
    <3>3. QED BY <1>2, <1>6, <3>1, <3>2 DEF FilesInv, Placed, Sweeping, Creating,
                 Writing, Releasing, Acquiring
  <2>2. CASE ~IsStale(g)
    <3>1. at'[p] = "sweep" /\ mine'[p] = {} /\ todo'[p] = todo[p] \ {g}
      BY <1>2, <1>6, <2>2 DEF SweepRead, FilesInv, GpuTypeOK
    <3>2. file[g] # Empty
      BY <2>2, FileFacts DEF IsStale
    <3>3. EmptiesIn(todo[p])'
      BY <1>6, <3>1, <3>2 DEF EmptiesIn
    <3>4. QED BY <1>2, <1>6, <3>1, <3>3 DEF FilesInv, Placed, Sweeping, Creating,
                 Writing, Releasing, Acquiring
  <2>3. QED BY <2>1, <2>2
<1>12. QED BY <1>1, <1>4, <1>5, <1>9, <1>10, <1>11 DEF FilesInv

LEMMA SweepUnlinkStep ==
    ASSUME FilesInv, OneAtATime, NEW p \in Procs, NEW g \in Devices, SweepUnlink(p, g)
    PROVE  FilesInv'
<1> USE DEF MoveTo, Visited, Put, jobs, locals, counters
<1>1. Only(p) /\ at[p] = "unlink"
  BY Alone DEF FilesInv, SweepUnlink, Engaged
<1>2. ~running[p] /\ running' = running /\ want' = want /\ lease' = lease
      /\ issued' = issued /\ holds' = holds /\ ended' = ended /\ abandoned' = abandoned
      /\ mine[p] = {g} /\ EmptiesIn(todo[p]) /\ ~file[g].fresh
  BY <1>1 DEF SweepUnlink, FilesInv, Placed, Acquiring, Sweeping
<1>3. beat = {} /\ ended = {}
  BY <1>1, <1>2, Quiet
<1>4. beat' = {}
  BY <1>3, Unlinked DEF SweepUnlink
<1>5. file' = [file EXCEPT ![g] = Absent] /\ at' = [at EXCEPT ![p] = "sweep"]
      /\ todo' = [todo EXCEPT ![p] = @ \ {g}] /\ mine' = [mine EXCEPT ![p] = {}]
  BY DEF SweepUnlink, Unlink
<1>6. GpuTypeOK'
  BY <1>2, <1>4, <1>5, FileFacts DEF FilesInv, GpuTypeOK, SweepUnlink
<1>7. Uses' /\ Beats'
  BY <1>2, <1>4 DEF FilesInv, Uses, Beats, Disjoint
<1>8. Recorded'
  <2> SUFFICES ASSUME NEW u \in holds, NEW d \in u.gpus
               PROVE  file'[d] = Full(u.lease)
    BY <1>2 DEF Recorded
  <2>1. u.proc = p /\ u.lease \in Leases /\ d \in Devices
    BY <1>1, UseFacts DEF FilesInv, GpuTypeOK, Only
  <2>2. file[d] = Full(u.lease)
    BY <1>1, <1>3, <2>1 DEF FilesInv, Recorded, Fresh
  <2>3. d # g
    BY <1>2, <2>1, <2>2, FileFacts
  <2>4. QED BY <1>5, <2>1, <2>2, <2>3 DEF FilesInv, GpuTypeOK
<1>9. Owned'
  BY <1>2, <1>5, FileFacts DEF FilesInv, GpuTypeOK, Owned, LeasesOf
<1>10. Whole'
  <2>1. \A q \in Procs, d \in Devices: ~Making(q, d)
    BY <1>1 DEF Only, Making
  <2>2. kills' = kills /\ \A d \in Devices: file'[d] = Empty => file[d] = Empty
    BY <1>5, FileFacts DEF SweepUnlink, FilesInv, GpuTypeOK
  <2>3. QED BY <1>3, <1>4, <2>1, <2>2 DEF FilesInv, Whole
<1>11. \A q \in Procs: q # p => Placed(q)'
  BY <1>1, <1>2, <1>5, Others DEF Local, FilesInv, GpuTypeOK
<1>12. Placed(p)'
  <2>1. at'[p] = "sweep" /\ mine'[p] = {} /\ todo'[p] = todo[p] \ {g}
    BY <1>5 DEF FilesInv, GpuTypeOK
  <2>2. EmptiesIn(todo[p])'
    BY <1>2, <1>5, <2>1, FileFacts DEF EmptiesIn, FilesInv, GpuTypeOK
  <2>3. QED BY <1>1, <1>2, <2>1, <2>2 DEF FilesInv, Placed, Sweeping, Creating,
               Writing, Releasing, Acquiring
<1>13. QED BY <1>6, <1>7, <1>8, <1>9, <1>10, <1>11, <1>12 DEF FilesInv

LEMMA SweepDoneStep ==
    ASSUME FilesInv, OneAtATime, NEW p \in Procs, SweepDone(p)
    PROVE  FilesInv'
<1> USE DEF MoveTo, Visit, Return, jobs, locals, counters
<1>1. Only(p) /\ at[p] = "sweep" /\ todo[p] = {}
  BY Alone DEF FilesInv, SweepDone, Engaged
<1>2. ~running[p] /\ running' = running /\ issued' = issued /\ file' = file
      /\ mine[p] = {} /\ EmptiesIn({}) /\ HeldBy(p)' = HeldBy(p)
  BY <1>1 DEF SweepDone, FilesInv, Placed, Acquiring, Sweeping, HeldBy
<1>3. \/ want[p] = 0 /\ Return(p)
      \/ /\ want[p] # 0 /\ at' = [at EXCEPT ![p] = "create"]
         /\ \E available \in SUBSET Devices: todo' = [todo EXCEPT ![p] = available]
         /\ UNCHANGED <<mine, want, lease>>
  BY DEF SweepDone
<1>4. want[p] \in Nat
  <2>1. want[p] \in Sizes \cup {0}
    BY DEF FilesInv, GpuTypeOK
  <2>2. \A n \in Sizes: n \in Nat
    BY SizesAssumption
  <2>3. QED BY <2>1, <2>2
<1>5. GpuTypeOK'
  <2>1. /\ at' \in [Procs -> {"idle", "sweep", "unlink", "create", "rollback",
                              "write", "release", "remove"}]
        /\ todo' \in [Procs -> SUBSET Devices] /\ mine' \in [Procs -> SUBSET Devices]
        /\ want' \in [Procs -> Sizes \cup {0}]
        /\ lease' \in [Procs -> Leases \cup {0}]
    BY <1>3 DEF FilesInv, GpuTypeOK
  <2>2. QED BY <2>1 DEF FilesInv, GpuTypeOK, SweepDone
<1>6. Looks(p)
  BY <1>3 DEF FilesInv, GpuTypeOK, SweepDone, Looks, Local
<1>7. Uses' /\ Beats' /\ Owned'
  BY <1>6, LooksFrame
<1>8. \A q \in Procs: q # p => Placed(q)'
  BY <1>1, <1>6, Others DEF Looks
<1>9. beat = {} /\ ended = {}
  BY <1>1, <1>2, Quiet
<1>10. Recorded'
  <2>1. at'[p] \in {"idle", "create"}
    BY <1>3 DEF FilesInv, GpuTypeOK
  <2>2. QED BY <1>1, <1>6, <2>1 DEF FilesInv, Recorded, Fresh, Looks, Only
<1>11. Whole'
  <2>1. \A q \in Procs, d \in Devices: ~Making(q, d)
    BY <1>1 DEF Only, Making
  <2>2. QED BY <1>6, <1>9, <2>1 DEF FilesInv, Whole, Looks
<1>12. Placed(p)'
  <2>1. CASE want[p] = 0
    <3>1. at'[p] = "idle" /\ todo'[p] = {} /\ mine'[p] = {} /\ want'[p] = 0
      BY <1>3, <2>1 DEF FilesInv, GpuTypeOK
    <3>2. QED BY <1>2, <3>1 DEF Placed, Sweeping, Creating, Writing, Releasing,
                 Acquiring
  <2>2. CASE want[p] # 0
    <3>1. at'[p] = "create" /\ mine'[p] = {} /\ want'[p] = want[p] /\ want[p] > 0
      BY <1>2, <1>3, <1>4, <2>2 DEF FilesInv, GpuTypeOK
    <3>2. EmptiesIn(mine[p])' /\ EmptyAll(mine[p])'
      BY <1>2, <3>1 DEF EmptiesIn, EmptyAll
    <3>3. QED BY <1>1, <1>2, <3>1, <3>2 DEF FilesInv, Placed, Sweeping, Creating,
                 Writing, Releasing, Acquiring
  <2>3. QED BY <2>1, <2>2
<1>13. QED BY <1>5, <1>7, <1>8, <1>10, <1>11, <1>12 DEF FilesInv

-----------------------------------------------------------------------------
(* Acquiring *)

LEMMA CreateStep ==
    ASSUME FilesInv, OneAtATime, NEW p \in Procs, Create(p)
    PROVE  FilesInv'
<1> USE DEF MoveTo, Visited, Put, jobs, locals, counters
<1>1. Only(p) /\ at[p] = "create" /\ todo[p] # {}
  BY Alone DEF FilesInv, Create, Engaged
<1> DEFINE g == Min(todo[p])
<1>2. g \in todo[p] /\ g \in Devices
  BY <1>1, LeastDevice DEF FilesInv, GpuTypeOK
<1>3. ~running[p] /\ running' = running /\ want' = want /\ lease' = lease /\ at' = at
      /\ issued' = issued /\ holds' = holds /\ ended' = ended /\ abandoned' = abandoned
      /\ beat' = beat /\ want[p] > 0 /\ mine[p] \cap todo[p] = {} /\ issued < MaxLeases
      /\ EmptiesIn(mine[p]) /\ EmptyAll(mine[p]) /\ kills' = kills
      /\ sweeps' = sweeps
  BY <1>1 DEF Create, FilesInv, Placed, Acquiring, Creating
<1>4. beat = {} /\ ended = {}
  BY <1>1, <1>3, Quiet
<1>5. /\ todo' = [todo EXCEPT ![p] = @ \ {g}]
      /\ \/ /\ file[g].kind = "absent" /\ file' = [file EXCEPT ![g] = Empty]
            /\ mine' = [mine EXCEPT ![p] = @ \cup {g}]
         \/ file[g].kind # "absent" /\ UNCHANGED <<file, mine>>
  BY DEF Create, Creatable
<1> HIDE DEF g
<1>6. GpuTypeOK'
  <2>1. file' \in [Devices -> LockFile]
    BY <1>2, <1>5, FileFacts DEF FilesInv, GpuTypeOK
  <2>2. todo' \in [Procs -> SUBSET Devices] /\ mine' \in [Procs -> SUBSET Devices]
    BY <1>2, <1>5 DEF FilesInv, GpuTypeOK
  <2>3. QED BY <1>3, <2>1, <2>2 DEF FilesInv, GpuTypeOK
<1>7. Uses' /\ Beats'
  BY <1>3, <1>4 DEF FilesInv, Uses, Beats, Disjoint
<1>8. Recorded'
  <2> SUFFICES ASSUME NEW u \in holds, NEW d \in u.gpus
               PROVE  file'[d] = Full(u.lease)
    BY <1>3 DEF Recorded
  <2>1. u.proc = p /\ u.lease \in Leases /\ d \in Devices
    BY <1>1, UseFacts DEF FilesInv, GpuTypeOK, Only
  <2>2. file[d] = Full(u.lease)
    BY <1>1, <1>4, <2>1 DEF FilesInv, Recorded, Fresh
  <2>3. file[d].kind # "absent"
    BY <2>1, <2>2, FileFacts
  <2>4. QED BY <1>5, <2>1, <2>2, <2>3 DEF FilesInv, GpuTypeOK
<1>9. Owned'
  BY <1>3, <1>5, FileFacts DEF FilesInv, GpuTypeOK, Owned, LeasesOf
<1>10. /\ EmptiesIn(mine[p])' /\ EmptyAll(mine[p])'
       /\ mine'[p] \cap todo'[p] = {} /\ at'[p] = "create"
  <2>1. CASE file[g].kind = "absent"
    <3>1. mine'[p] = mine[p] \cup {g} /\ todo'[p] = todo[p] \ {g}
          /\ file' = [file EXCEPT ![g] = Empty]
      BY <1>5, <2>1 DEF FilesInv, GpuTypeOK
    <3>2. QED BY <1>1, <1>2, <1>3, <3>1, FileFacts DEF FilesInv, GpuTypeOK, EmptiesIn, EmptyAll
  <2>2. CASE file[g].kind # "absent"
    BY <1>1, <1>3, <1>5, <2>2 DEF FilesInv, GpuTypeOK, EmptiesIn, EmptyAll
  <2>3. QED BY <2>1, <2>2
<1>11. Whole'
  BY <1>10 DEF Whole, Making, EmptiesIn
<1>12. \A q \in Procs: q # p => Placed(q)'
  BY <1>1, <1>3, <1>5, Others DEF Local, FilesInv, GpuTypeOK
<1>13. Placed(p)'
  <2>1. HeldBy(p)' = HeldBy(p)
    BY <1>3 DEF HeldBy
  <2>2. QED BY <1>1, <1>3, <1>10, <2>1 DEF Placed, Sweeping, Creating, Writing,
               Releasing, Acquiring
<1>14. QED BY <1>6, <1>7, <1>8, <1>9, <1>11, <1>12, <1>13 DEF FilesInv

LEMMA RollbackStep ==
    ASSUME FilesInv, OneAtATime, NEW p \in Procs, Rollback(p)
    PROVE  FilesInv'
<1> USE DEF MoveTo, Visit, Put, jobs, locals, counters
<1>1. Only(p) /\ at[p] \in {"create", "rollback"}
  BY Alone DEF FilesInv, Rollback, Engaged
<1>2. ~running[p] /\ running' = running /\ issued' = issued /\ holds' = holds
      /\ ended' = ended /\ abandoned' = abandoned /\ kills' = kills /\ sweeps' = sweeps
      /\ EmptiesIn(mine[p]) /\ EmptyAll(mine[p]) /\ HeldBy(p)' = HeldBy(p)
  BY <1>1 DEF Rollback, FilesInv, Placed, Acquiring, Creating, HeldBy
<1>3. beat = {} /\ ended = {}
  BY <1>1, <1>2, Quiet
<1>4. CASE mine[p] = {}
  <2>1. Return(p) /\ file' = file /\ beat' = beat
    BY <1>4 DEF Rollback
  <2>2. GpuTypeOK'
    <3>1. /\ at' \in [Procs -> {"idle", "sweep", "unlink", "create", "rollback",
                                "write", "release", "remove"}]
          /\ todo' \in [Procs -> SUBSET Devices] /\ mine' \in [Procs -> SUBSET Devices]
          /\ want' \in [Procs -> Sizes \cup {0}]
          /\ lease' \in [Procs -> Leases \cup {0}]
      BY <2>1 DEF FilesInv, GpuTypeOK, Return
    <3>2. QED BY <1>2, <2>1, <3>1 DEF FilesInv, GpuTypeOK
  <2>3. Looks(p)
    BY <1>2, <2>1 DEF FilesInv, GpuTypeOK, Return, Looks, Local
  <2>4. Uses' /\ Beats' /\ Owned'
    BY <2>3, LooksFrame
  <2>5. \A q \in Procs: q # p => Placed(q)'
    BY <1>1, <2>3, Others DEF Looks
  <2>6. /\ at'[p] = "idle" /\ todo'[p] = {} /\ mine'[p] = {} /\ want'[p] = 0
        /\ running'[p] = running[p]
    BY <1>2, <2>1 DEF FilesInv, GpuTypeOK, Return
  <2>7. Recorded'
    BY <1>1, <2>3, <2>6 DEF FilesInv, Recorded, Fresh, Looks, Only
  <2>8. Whole'
    <3>1. \A d \in Devices: file'[d] # Empty
      BY <1>2, <1>4, <2>1 DEF EmptiesIn
    <3>2. QED BY <3>1 DEF Whole
  <2>9. Placed(p)'
    BY <1>2, <2>6 DEF Placed, Sweeping, Creating, Writing, Releasing, Acquiring
  <2>10. QED BY <2>2, <2>4, <2>5, <2>7, <2>8, <2>9 DEF FilesInv
<1>5. CASE mine[p] # {}
  <2>1. PICK g \in mine[p]:
            /\ Unlink(g) /\ mine' = [mine EXCEPT ![p] = @ \ {g}]
            /\ at' = [at EXCEPT ![p] = "rollback"]
            /\ UNCHANGED <<todo, want, lease>>
    BY <1>5 DEF Rollback
  <2>2. g \in Devices /\ file[g] = Empty /\ file' = [file EXCEPT ![g] = Absent]
    BY <1>2, <2>1 DEF EmptyAll, Unlink, FilesInv, GpuTypeOK
  <2>3. beat' = {}
    BY <1>3, <2>1, <2>2, Unlinked
  <2>4. GpuTypeOK'
    BY <1>2, <2>1, <2>2, <2>3, FileFacts DEF FilesInv, GpuTypeOK
  <2>5. Uses' /\ Beats'
    BY <1>2, <2>3 DEF FilesInv, Uses, Beats, Disjoint
  <2>6. Recorded'
    <3> SUFFICES ASSUME NEW u \in holds, NEW d \in u.gpus
                 PROVE  file'[d] = Full(u.lease)
      BY <1>2 DEF Recorded
    <3>1. u.proc = p /\ u.lease \in Leases /\ d \in Devices
      BY <1>1, UseFacts DEF FilesInv, GpuTypeOK, Only
    <3>2. file[d] = Full(u.lease)
      BY <1>1, <1>3, <3>1 DEF FilesInv, Recorded, Fresh
    <3>3. d # g
      BY <2>2, <3>1, <3>2, FileFacts
    <3>4. QED BY <2>2, <3>1, <3>2, <3>3 DEF FilesInv, GpuTypeOK
  <2>7. Owned'
    BY <1>2, <2>2, FileFacts DEF FilesInv, GpuTypeOK, Owned, LeasesOf
  <2>8. /\ EmptiesIn(mine[p])' /\ EmptyAll(mine[p])' /\ at'[p] = "rollback"
        /\ want'[p] = want[p]
    BY <1>2, <2>1, <2>2, FileFacts DEF FilesInv, GpuTypeOK, EmptiesIn, EmptyAll
  <2>9. Whole'
    BY <2>8 DEF Whole, Making, EmptiesIn
  <2>10. \A q \in Procs: q # p => Placed(q)'
    BY <1>1, <1>2, <2>1, Others DEF Local, FilesInv, GpuTypeOK
  <2>11. Placed(p)'
    BY <1>1, <1>2, <2>8 DEF FilesInv, Placed, Sweeping, Creating, Writing, Releasing,
       Acquiring
  <2>12. QED BY <2>4, <2>5, <2>6, <2>7, <2>9, <2>10, <2>11 DEF FilesInv
<1>6. QED BY <1>4, <1>5

LEMMA DrawStep ==
    ASSUME FilesInv, OneAtATime, NEW p \in Procs, Draw(p)
    PROVE  FilesInv'
<1> USE DEF MoveTo, Visit, Put, jobs, locals, counters
<1> DEFINE new == [lease |-> issued + 1, gpus |-> mine[p], proc |-> p]
<1>1. Only(p) /\ at[p] = "create"
  BY Alone DEF FilesInv, Draw, Engaged
<1>2. ~running[p] /\ running' = running /\ issued' = issued + 1
      /\ ended' = ended /\ abandoned' = abandoned /\ kills' = kills /\ sweeps' = sweeps
      /\ want[p] > 0 /\ issued < MaxLeases /\ file' = file /\ beat' = beat
      /\ EmptiesIn(mine[p]) /\ EmptyAll(mine[p])
      /\ mine' = mine /\ want' = want
  BY <1>1 DEF Draw, FilesInv, Placed, Acquiring, Creating
<1>3. beat = {} /\ ended = {}
  BY <1>1, <1>2, Quiet
<1>4. /\ lease' = [lease EXCEPT ![p] = issued + 1]
      /\ holds' = holds \cup {new}
      /\ todo' = [todo EXCEPT ![p] = mine[p]] /\ at' = [at EXCEPT ![p] = "write"]
  BY <1>2 DEF Draw
<1>5. issued + 1 \in Leases /\ issued \in Nat /\ mine[p] \in SUBSET Devices
      /\ issued + 1 \in 0..MaxLeases
  BY <1>2, LeaseBoundsAssumption DEF FilesInv, GpuTypeOK, Leases
<1>6. new \in Use /\ new.lease = issued + 1 /\ new.gpus = mine[p] /\ new.proc = p
  BY <1>5 DEF Use
<1>7. \A u \in holds: u.lease \in Leases /\ u.lease <= issued /\ u.proc = p
                      /\ u.gpus \in SUBSET Devices
  BY <1>1, UseFacts DEF FilesInv, GpuTypeOK, Uses, Only
<1>8. \A u \in holds: \A d \in u.gpus: file[d] = Full(u.lease)
  BY <1>1, <1>3, <1>7 DEF FilesInv, Recorded, Fresh
<1>9. \A u \in holds: u.gpus \cap mine[p] = {} /\ u.lease # new.lease
  <2> SUFFICES ASSUME NEW u \in holds PROVE u.gpus \cap mine[p] = {} /\ u.lease # new.lease
    OBVIOUS
  <2>1. u.lease # new.lease
    BY <1>5, <1>6, <1>7, LeaseFacts
  <2>2. \A d \in mine[p]: file[d] = Empty
    BY <1>2 DEF EmptyAll
  <2>3. Full(u.lease) # Empty
    BY <1>7, FileFacts
  <2>4. QED BY <1>8, <2>1, <2>2, <2>3
<1>10. [lease |-> lease'[p], gpus |-> mine'[p], proc |-> p] = new
  BY <1>2, <1>4 DEF FilesInv, GpuTypeOK
<1> HIDE DEF new
<1>11. GpuTypeOK'
  <2>1. holds' \subseteq Use
    BY <1>4, <1>6 DEF FilesInv, GpuTypeOK
  <2>2. lease' \in [Procs -> Leases \cup {0}] /\ todo' \in [Procs -> SUBSET Devices]
    BY <1>4, <1>5 DEF FilesInv, GpuTypeOK
  <2>3. QED BY <1>2, <1>4, <1>5, <2>1, <2>2 DEF FilesInv, GpuTypeOK
<1>12. Uses'
  <2>1. \A u \in holds': u.lease <= issued'
    BY <1>2, <1>4, <1>5, <1>6, <1>7, LeaseFacts
  <2>2. \A u, v \in holds': u.lease = v.lease => u = v
    BY <1>4, <1>9 DEF FilesInv, Uses
  <2>3. Disjoint(holds)'
    BY <1>4, <1>6, <1>9 DEF FilesInv, Uses, Disjoint
  <2>4. QED BY <1>2, <1>3, <2>1, <2>2, <2>3 DEF Uses
<1>13. Beats'
  BY <1>2, <1>3 DEF Beats
<1>14. at'[p] = "write" /\ todo'[p] = mine[p] /\ lease'[p] = issued + 1
       /\ mine'[p] = mine[p] /\ running'[p] = running[p] /\ want'[p] = want[p]
  BY <1>2, <1>4 DEF FilesInv, GpuTypeOK
<1>15. Recorded'
  <2> SUFFICES ASSUME NEW u \in holds', ~Fresh(u)', NEW d \in u.gpus
               PROVE  file'[d] = Full(u.lease)
    BY DEF Recorded
  <2>1. u # new
    BY <1>6, <1>14 DEF Fresh
  <2>2. QED BY <1>2, <1>4, <1>8, <2>1
<1>16. Owned'
  BY <1>2, <1>4 DEF FilesInv, Owned, LeasesOf
<1>17. Whole'
  BY <1>2, <1>14 DEF Whole, Making, EmptiesIn
<1>18. \A q \in Procs: q # p => Placed(q)'
  BY <1>1, <1>2, <1>4, Others DEF Local, FilesInv, GpuTypeOK
<1>19. Placed(p)'
  <2>1. EmptiesIn(todo[p])' /\ EmptyAll(todo[p])'
    BY <1>2, <1>14 DEF EmptiesIn, EmptyAll
  <2>2. Writing(p)'
    BY <1>4, <1>10, <1>14, <2>1 DEF Writing
  <2>3. QED BY <1>2, <1>14, <2>2 DEF Placed, Sweeping, Creating, Releasing, Acquiring
<1>20. QED BY <1>11, <1>12, <1>13, <1>15, <1>16, <1>17, <1>18, <1>19 DEF FilesInv

LEMMA WriteStep ==
    ASSUME FilesInv, OneAtATime, NEW p \in Procs, Write(p)
    PROVE  FilesInv'
<1> USE DEF MoveTo, Visited, Put, jobs, locals, counters
<1> DEFINE new == [lease |-> lease[p], gpus |-> mine[p], proc |-> p]
<1>1. Only(p) /\ at[p] = "write"
  BY Alone DEF FilesInv, Write, Engaged
<1>2. ~running[p] /\ running' = running /\ issued' = issued /\ holds' = holds
      /\ ended' = ended /\ abandoned' = abandoned /\ kills' = kills /\ sweeps' = sweeps
      /\ beat' = beat /\ HeldBy(p)' = HeldBy(p)
  BY <1>1 DEF Write, FilesInv, Placed, Acquiring, HeldBy
<1>3. beat = {} /\ ended = {}
  BY <1>1, <1>2, Quiet
<1>4. /\ new \in holds /\ todo[p] \subseteq mine[p]
      /\ EmptiesIn(todo[p]) /\ EmptyAll(todo[p])
      /\ \A d \in mine[p] \ todo[p]: file[d] = Full(lease[p])
  BY <1>1 DEF FilesInv, Placed, Writing
<1>5. new.lease = lease[p] /\ new.gpus = mine[p] /\ lease[p] \in Leases
      /\ mine[p] \in SUBSET Devices /\ todo[p] \in SUBSET Devices
  BY <1>4, UseFacts DEF FilesInv, GpuTypeOK
<1>6. ASSUME NEW u \in holds, u # new, NEW d \in u.gpus
      PROVE  /\ file[d] = Full(u.lease) /\ d \in Devices /\ d \notin mine[p]
             /\ u.lease \in Leases
  <2>1. u.lease # lease[p] /\ u.gpus \cap new.gpus = {}
    BY <1>4, <1>5, <1>6 DEF FilesInv, Uses, Disjoint
  <2>2. u.lease \in Leases /\ d \in Devices
    BY <1>6, UseFacts DEF FilesInv, GpuTypeOK
  <2>3. file[d] = Full(u.lease)
    BY <1>1, <1>3, <1>6, <2>1 DEF FilesInv, Recorded, Fresh, Only
  <2>4. QED BY <1>5, <1>6, <2>1, <2>2, <2>3
<1>7. Uses' /\ Beats'
  BY <1>2, <1>3 DEF FilesInv, Uses, Beats, Disjoint
<1> HIDE DEF new
<1>8. CASE todo[p] = {}
  <2>1. Return(p) /\ file' = file
    BY <1>8 DEF Write
  <2>2. GpuTypeOK'
    <3>1. /\ at' \in [Procs -> {"idle", "sweep", "unlink", "create", "rollback",
                                "write", "release", "remove"}]
          /\ todo' \in [Procs -> SUBSET Devices] /\ mine' \in [Procs -> SUBSET Devices]
          /\ want' \in [Procs -> Sizes \cup {0}]
          /\ lease' \in [Procs -> Leases \cup {0}]
      BY <2>1 DEF FilesInv, GpuTypeOK, Return, Visit
    <3>2. QED BY <1>2, <2>1, <3>1 DEF FilesInv, GpuTypeOK
  <2>3. /\ at'[p] = "idle" /\ todo'[p] = {} /\ mine'[p] = {} /\ want'[p] = 0
        /\ running'[p] = running[p]
    BY <1>2, <2>1 DEF FilesInv, GpuTypeOK, Return, Visit
  <2>4. Recorded'
    <3>1. ASSUME NEW u \in holds, NEW d \in u.gpus PROVE file'[d] = Full(u.lease)
      BY <1>4, <1>5, <1>6, <1>8, <2>1, <3>1
    <3>2. QED BY <1>2, <3>1 DEF Recorded
  <2>5. Owned'
    BY <1>2, <2>1 DEF FilesInv, Owned, LeasesOf
  <2>6. Whole'
    BY <1>4, <1>8, <2>1 DEF Whole, EmptiesIn
  <2>7. \A q \in Procs: q # p => Placed(q)'
    BY <1>1, <1>2, <2>1, Others DEF Local, FilesInv, GpuTypeOK, Return, Visit
  <2>8. Placed(p)'
    BY <1>2, <2>3 DEF Placed, Sweeping, Creating, Writing, Releasing, Acquiring
  <2>9. QED BY <1>7, <2>2, <2>4, <2>5, <2>6, <2>7, <2>8 DEF FilesInv
<1>9. CASE todo[p] # {}
  <2> DEFINE g == Min(todo[p])
  <2>1. g \in todo[p] /\ g \in Devices /\ g \in mine[p]
    BY <1>4, <1>5, <1>9, LeastDevice
  <2>2. /\ file' = [file EXCEPT ![g] = Full(lease[p])]
        /\ todo' = [todo EXCEPT ![p] = @ \ {g}]
        /\ UNCHANGED <<at, mine, want, lease>>
    BY <1>9 DEF Write
  <2> HIDE DEF g
  <2>3. GpuTypeOK'
    BY <1>2, <1>5, <2>1, <2>2, FileFacts DEF FilesInv, GpuTypeOK
  <2>4. todo'[p] = todo[p] \ {g} /\ mine'[p] = mine[p] /\ lease'[p] = lease[p]
        /\ at'[p] = "write" /\ running'[p] = running[p]
    BY <1>1, <1>2, <2>2 DEF FilesInv, GpuTypeOK
  <2>5. file'[g] = Full(lease[p]) /\ \A d \in Devices: d # g => file'[d] = file[d]
    BY <2>1, <2>2 DEF FilesInv, GpuTypeOK
  <2>6. Recorded'
    <3> SUFFICES ASSUME NEW u \in holds, ~Fresh(u)', NEW d \in u.gpus
                 PROVE  file'[d] = Full(u.lease)
      BY <1>2 DEF Recorded
    <3>1. u.proc = p
      BY <1>1 DEF Only
    <3>2. u # new
      BY <1>5, <2>4, <3>1 DEF Fresh
    <3>3. QED BY <1>6, <2>1, <2>5, <3>2
  <2>7. Owned'
    <3>1. lease[p] \in LeasesOf(holds)'
      BY <1>2, <1>4, <1>5 DEF LeasesOf
    <3>2. QED BY <1>2, <1>5, <2>5, <3>1, FileFacts DEF FilesInv, Owned, LeasesOf
  <2>8. EmptiesIn(todo[p])' /\ EmptyAll(todo[p])'
        /\ \A d \in mine[p] \ todo'[p]: file'[d] = Full(lease[p])
    BY <1>4, <1>5, <2>1, <2>4, <2>5, FileFacts DEF EmptiesIn, EmptyAll
  <2>9. Whole'
    BY <2>4, <2>8 DEF Whole, Making, EmptiesIn
  <2>10. \A q \in Procs: q # p => Placed(q)'
    BY <1>1, <1>2, <2>2, Others DEF Local, FilesInv, GpuTypeOK
  <2>11. Placed(p)'
    <3>1. Writing(p)'
      BY <1>2, <1>4, <2>4, <2>8 DEF Writing, new
    <3>2. QED BY <1>2, <2>4, <3>1 DEF Placed, Sweeping, Creating, Releasing, Acquiring
  <2>12. QED BY <1>7, <2>3, <2>6, <2>7, <2>9, <2>10, <2>11 DEF FilesInv
<1>10. QED BY <1>8, <1>9

-----------------------------------------------------------------------------
(* The batch runs *)

LEMMA RunBatchStep ==
    ASSUME FilesInv, OneAtATime, NEW p \in Procs, RunBatch(p)
    PROVE  FilesInv'
<1> USE DEF jobs, locals, counters
<1>1. Only(p)
  BY Alone DEF FilesInv, RunBatch, Engaged
<1>2. /\ at[p] = "idle" /\ ~running[p] /\ HeldBy(p) # {}
      /\ running' = [running EXCEPT ![p] = TRUE]
      /\ UNCHANGED <<file, at, todo, mine, want, lease, holds, ended, abandoned, beat,
                     issued, kills, sweeps>>
  BY DEF RunBatch
<1>3. beat = {} /\ ended = {}
  BY <1>1, <1>2, Quiet
<1>4. GpuTypeOK'
  BY <1>2 DEF FilesInv, GpuTypeOK
<1>5. Uses' /\ Beats'
  BY <1>2, <1>3 DEF FilesInv, Uses, Beats, Disjoint
<1>6. Recorded' /\ Owned' /\ Whole'
  BY <1>2 DEF FilesInv, Recorded, Owned, Whole, Fresh, LeasesOf, Making
<1>7. \A q \in Procs: q # p => Placed(q)'
  BY <1>1, <1>2, Others DEF Local, FilesInv, GpuTypeOK
<1>8. Placed(p)'
  BY <1>2 DEF FilesInv, Placed, Sweeping, Creating, Writing, Releasing, Acquiring, HeldBy
<1>9. QED BY <1>4, <1>5, <1>6, <1>7, <1>8 DEF FilesInv

\* A heartbeat changes no process: where each one is depends on a few facts
\* about the files.
Behind(p) ==
    /\ UNCHANGED <<at, todo, mine, want, lease, running, holds, ended, issued>>
    /\ at[p] \in {"idle", "release", "remove"}
    /\ at[p] \in {"release", "remove"} =>
          \A g \in Devices: (file'[g].lease = lease[p]) <=> (file[g].lease = lease[p])

LEMMA BehindFrame ==
    ASSUME FilesInv, NEW p \in Procs, Only(p), Behind(p)
    PROVE  \A q \in Procs: Placed(q)'
<1>1. Placed(p)'
  <2>1. Releasing(p)'
    <3> USE DEF Releasing, Behind, FilesInv, Placed
    <3>1. CASE at[p] = "idle"
      BY <3>1
    <3>2. CASE at[p] = "release"
      BY <3>2
    <3>3. CASE at[p] = "remove"
      BY <3>3
    <3>4. QED BY <3>1, <3>2, <3>3
  <2>2. QED BY <2>1 DEF FilesInv, Placed, Sweeping, Creating, Writing, Acquiring, Behind,
               HeldBy
<1>2. Local(p)
  BY DEF Behind, Local
<1>3. QED BY <1>1, <1>2, Others

\* Whose heartbeat it is.
LEMMA Beater ==
    ASSUME FilesInv, OneAtATime, NEW b \in beat
    PROVE  \E u \in holds:
              /\ u.lease = b.lease /\ u.proc \in Procs /\ running[u.proc]
              /\ Only(u.proc) /\ at[u.proc] \in {"idle", "release", "remove"}
<1>1. PICK u \in holds: u.lease = b.lease /\ running[u.proc]
  BY DEF FilesInv, Beats
<1>2. u.proc \in Procs /\ u \in HeldBy(u.proc)
  BY UseFacts DEF FilesInv, GpuTypeOK, HeldBy
<1>3. Only(u.proc)
  BY <1>2, Alone DEF FilesInv, Engaged
<1>4. at[u.proc] \in {"idle", "release", "remove"}
  BY <1>1, <1>2 DEF FilesInv, Placed, GpuTypeOK, Acquiring
<1>5. QED BY <1>1, <1>2, <1>3, <1>4

LEMMA BeatReadStep ==
    ASSUME FilesInv, OneAtATime, NEW u \in holds, NEW g \in Devices, BeatRead(u, g)
    PROVE  FilesInv'
<1> USE DEF jobs, locals, counters
<1> DEFINE new == [lease |-> u.lease, gpu |-> g, stage |-> "read"]
<1>1. /\ running[u.proc] /\ u.lease \notin ended /\ ~Beating(u)
      /\ file[g].lease = u.lease /\ beat' = beat \cup {new}
      /\ UNCHANGED <<file, at, todo, mine, want, lease, running, holds, ended, abandoned,
                     issued, kills, sweeps>>
  BY DEF BeatRead, Live
<1>2. u.lease \in Leases /\ u.proc \in Procs /\ u \in HeldBy(u.proc)
  BY UseFacts DEF FilesInv, GpuTypeOK, HeldBy
<1>3. Only(u.proc)
  BY <1>2, Alone DEF FilesInv, Engaged
<1>4. at[u.proc] \in {"idle", "release", "remove"}
  BY <1>1, <1>2 DEF FilesInv, Placed, GpuTypeOK, Acquiring
<1>5. new.lease = u.lease /\ new.gpu = g /\ new.stage = "read"
      /\ new \in [lease: Leases, gpu: Devices, stage: {"read", "opened", "unlinked"}]
  BY <1>2
<1> HIDE DEF new
<1>6. GpuTypeOK'
  BY <1>1, <1>5 DEF FilesInv, GpuTypeOK
<1>7. Uses'
  BY <1>1 DEF FilesInv, Uses, Disjoint
<1>8. Beats'
  <2>1. ASSUME NEW b \in beat PROVE b.lease # u.lease /\ b.gpu # g
    <3>1. b.lease # u.lease
      BY <1>1 DEF Beating
    <3>2. b.stage = "read" => b.gpu # g
      BY <1>1, <3>1 DEF FilesInv, Beats
    <3>3. b.stage # "read" => b.gpu # g
      BY <1>1, <1>2, FileFacts, LeaseFacts DEF FilesInv, Beats
    <3>4. QED BY <3>1, <3>2, <3>3
  <2>2. \A b, c \in beat': b.lease = c.lease \/ b.gpu = c.gpu => b = c
    BY <1>1, <1>5, <2>1 DEF FilesInv, Beats
  <2>3. \A b \in beat':
          /\ \E v \in holds: v.lease = b.lease /\ running[v.proc]
          /\ b.lease \notin ended
          /\ b.stage = "read" => file[b.gpu].lease = b.lease
          /\ b.stage # "read" => b.stage = "opened" /\ file[b.gpu] = Empty
    BY <1>1, <1>5 DEF FilesInv, Beats
  <2>4. QED BY <1>1, <2>2, <2>3 DEF Beats
<1>9. Recorded'
  BY <1>1 DEF FilesInv, Recorded, Fresh
<1>10. Owned' /\ Whole'
  BY <1>1 DEF FilesInv, Owned, Whole, LeasesOf, Making
<1>11. \A q \in Procs: Placed(q)'
  BY <1>1, <1>2, <1>3, <1>4, BehindFrame DEF Behind
<1>12. QED BY <1>6, <1>7, <1>8, <1>9, <1>10, <1>11 DEF FilesInv

LEMMA BeatOpenStep ==
    ASSUME FilesInv, OneAtATime, NEW b \in beat, BeatOpen(b)
    PROVE  FilesInv'
<1> USE DEF jobs, locals, counters
<1>1. PICK u \in holds:
          /\ u.lease = b.lease /\ u.proc \in Procs /\ running[u.proc]
          /\ Only(u.proc) /\ at[u.proc] \in {"idle", "release", "remove"}
  BY Beater
<1> DEFINE new == Opened(b.lease, b.gpu)
<1>2. b.lease \in Leases /\ b.gpu \in Devices /\ b.stage = "read"
      /\ [b EXCEPT !.stage = "opened"] = new
  BY BeatFacts DEF FilesInv, GpuTypeOK, BeatOpen
<1>3. /\ file' = [file EXCEPT ![b.gpu] = Empty] /\ beat' = (beat \ {b}) \cup {new}
      /\ UNCHANGED <<at, todo, mine, want, lease, running, holds, ended, abandoned,
                     issued, kills, sweeps>>
  BY <1>2 DEF BeatOpen, Put
<1>4. new.lease = b.lease /\ new.gpu = b.gpu /\ new.stage = "opened"
      /\ new \in [lease: Leases, gpu: Devices, stage: {"read", "opened", "unlinked"}]
  BY <1>2, OpenedFacts
<1>5. file[b.gpu].lease = b.lease /\ b.lease \notin ended
  BY <1>2 DEF FilesInv, Beats
<1>6. file'[b.gpu] = Empty /\ \A d \in Devices: d # b.gpu => file'[d] = file[d]
  BY <1>2, <1>3 DEF FilesInv, GpuTypeOK
<1>7. \A c \in beat: c # b => c.lease # b.lease /\ c.gpu # b.gpu /\ c.gpu \in Devices
  BY BeatFacts DEF FilesInv, Beats, GpuTypeOK
<1> HIDE DEF new
<1>8. GpuTypeOK'
  BY <1>2, <1>3, <1>4, FileFacts DEF FilesInv, GpuTypeOK
<1>9. Uses'
  BY <1>3 DEF FilesInv, Uses, Disjoint
<1>10. Beats'
  <2>1. \A c, d \in beat': c.lease = d.lease \/ c.gpu = d.gpu => c = d
    BY <1>3, <1>4, <1>7 DEF FilesInv, Beats
  <2>2. ASSUME NEW c \in beat'
        PROVE  /\ \E v \in holds: v.lease = c.lease /\ running[v.proc]
               /\ c.lease \notin ended
               /\ c.stage = "read" => file'[c.gpu].lease = c.lease
               /\ c.stage # "read" => c.stage = "opened" /\ file'[c.gpu] = Empty
    <3>1. CASE c = new
      BY <1>1, <1>4, <1>5, <1>6, <3>1
    <3>2. CASE c \in beat /\ c # b
      BY <1>6, <1>7, <3>2 DEF FilesInv, Beats
    <3>3. QED BY <1>3, <3>1, <3>2
  <2>3. QED BY <1>3, <2>1, <2>2 DEF Beats
<1>11. Recorded'
  <2> SUFFICES ASSUME NEW v \in holds, v.lease \notin ended, ~Fresh(v), NEW d \in v.gpus
               PROVE  file'[d] = Full(v.lease) \/ Opened(v.lease, d) \in beat'
    BY <1>3 DEF Recorded, Fresh
  <2>1. v.lease \in Leases /\ d \in Devices
    BY UseFacts DEF FilesInv, GpuTypeOK
  <2>2. CASE Opened(v.lease, d) \in beat
    BY <1>2, <1>3, <2>1, <2>2, OpenedFacts
  <2>3. CASE file[d] = Full(v.lease) /\ d # b.gpu
    BY <1>6, <2>1, <2>3
  <2>4. CASE file[d] = Full(v.lease) /\ d = b.gpu
    <3>1. v.lease = b.lease
      BY <1>5, <2>1, <2>4, FileFacts
    <3>2. QED BY <1>3, <2>4, <3>1 DEF new
  <2>5. QED BY <2>2, <2>3, <2>4 DEF FilesInv, Recorded
<1>12. Owned'
  BY <1>3, <1>6, FileFacts DEF FilesInv, Owned, LeasesOf
<1>13. Whole'
  <2> SUFFICES ASSUME kills = 0, NEW d \in Devices, file'[d] = Empty
               PROVE  (\E p \in Procs: Making(p, d)) \/ \E c \in beat': c.gpu = d
    BY <1>3 DEF Whole, Making
  <2>1. CASE d = b.gpu
    BY <1>3, <1>4, <2>1
  <2>2. CASE d # b.gpu
    BY <1>3, <1>6, <2>2 DEF FilesInv, Whole
  <2>3. QED BY <2>1, <2>2
<1>14. \A q \in Procs: Placed(q)'
  <2>1. at[u.proc] \in {"release", "remove"} => lease[u.proc] \in ended
    BY <1>1 DEF FilesInv, Placed, Releasing
  <2>2. at[u.proc] \in {"release", "remove"} =>
            lease[u.proc] # b.lease /\ lease[u.proc] # 0
    BY <1>5, <2>1, LeaseFacts DEF FilesInv, GpuTypeOK
  <2>3. Behind(u.proc)
    BY <1>1, <1>3, <1>5, <1>6, <2>2, FileFacts DEF Behind
  <2>4. QED BY <1>1, <2>3, BehindFrame
<1>15. QED BY <1>8, <1>9, <1>10, <1>11, <1>12, <1>13, <1>14 DEF FilesInv

LEMMA BeatWriteStep ==
    ASSUME FilesInv, OneAtATime, NEW b \in beat, BeatWrite(b)
    PROVE  FilesInv'
<1> USE DEF jobs, locals, counters
<1>1. PICK u \in holds:
          /\ u.lease = b.lease /\ u.proc \in Procs /\ running[u.proc]
          /\ Only(u.proc) /\ at[u.proc] \in {"idle", "release", "remove"}
  BY Beater
<1>2. b.lease \in Leases /\ b.gpu \in Devices /\ b.stage = "opened"
      /\ b = Opened(b.lease, b.gpu) /\ file[b.gpu] = Empty /\ b.lease \notin ended
  BY BeatFacts DEF FilesInv, GpuTypeOK, BeatWrite, Beats
<1>3. /\ file' = [file EXCEPT ![b.gpu] = Full(b.lease)] /\ beat' = beat \ {b}
      /\ UNCHANGED <<at, todo, mine, want, lease, running, holds, ended, abandoned,
                     issued, kills, sweeps>>
  BY <1>2 DEF BeatWrite, Put
<1>4. /\ file'[b.gpu] = Full(b.lease)
      /\ \A d \in Devices: d # b.gpu => file'[d] = file[d]
  BY <1>2, <1>3 DEF FilesInv, GpuTypeOK
<1>5. \A c \in beat': c \in beat /\ c.lease # b.lease /\ c.gpu # b.gpu /\ c.gpu \in Devices
  BY <1>3, BeatFacts DEF FilesInv, Beats, GpuTypeOK
<1>6. GpuTypeOK'
  BY <1>2, <1>3, FileFacts DEF FilesInv, GpuTypeOK
<1>7. Uses'
  BY <1>3 DEF FilesInv, Uses, Disjoint
<1>8. Beats'
  <2>1. \A c, d \in beat': c.lease = d.lease \/ c.gpu = d.gpu => c = d
    BY <1>3 DEF FilesInv, Beats
  <2>2. \A c \in beat':
          /\ \E v \in holds: v.lease = c.lease /\ running[v.proc]
          /\ c.lease \notin ended
          /\ c.stage = "read" => file'[c.gpu].lease = c.lease
          /\ c.stage # "read" => c.stage = "opened" /\ file'[c.gpu] = Empty
    BY <1>4, <1>5 DEF FilesInv, Beats
  <2>3. QED BY <1>3, <2>1, <2>2 DEF Beats
<1>9. Recorded'
  <2> SUFFICES ASSUME NEW v \in holds, v.lease \notin ended, ~Fresh(v), NEW d \in v.gpus
               PROVE  file'[d] = Full(v.lease) \/ Opened(v.lease, d) \in beat'
    BY <1>3 DEF Recorded, Fresh
  <2>1. v.lease \in Leases /\ d \in Devices
    BY UseFacts DEF FilesInv, GpuTypeOK
  <2>2. CASE Opened(v.lease, d) = b
    BY <1>4, <2>1, <2>2, OpenedFacts
  <2>3. CASE Opened(v.lease, d) \in beat /\ Opened(v.lease, d) # b
    BY <1>3, <2>3
  <2>4. CASE file[d] = Full(v.lease)
    <3>1. d # b.gpu
      BY <1>2, <2>1, <2>4, FileFacts
    <3>2. QED BY <1>4, <2>1, <2>4, <3>1
  <2>5. QED BY <2>2, <2>3, <2>4 DEF FilesInv, Recorded
<1>10. Owned'
  <2>1. b.lease \in LeasesOf(holds)
    BY <1>1 DEF LeasesOf
  <2>2. QED BY <1>2, <1>3, <1>4, <2>1, FileFacts DEF FilesInv, Owned, LeasesOf
<1>11. Whole'
  <2> SUFFICES ASSUME kills = 0, NEW d \in Devices, file'[d] = Empty
               PROVE  (\E p \in Procs: Making(p, d)) \/ \E c \in beat': c.gpu = d
    BY <1>3 DEF Whole, Making
  <2>1. d # b.gpu
    BY <1>2, <1>4, FileFacts
  <2>2. (\E p \in Procs: Making(p, d)) \/ \E c \in beat: c.gpu = d
    BY <1>4, <2>1 DEF FilesInv, Whole
  <2>3. QED BY <1>3, <2>1, <2>2
<1>12. \A q \in Procs: Placed(q)'
  <2>1. at[u.proc] \in {"release", "remove"} => lease[u.proc] \in ended
    BY <1>1 DEF FilesInv, Placed, Releasing
  <2>2. at[u.proc] \in {"release", "remove"} =>
            lease[u.proc] # b.lease /\ lease[u.proc] # 0
    BY <1>2, <2>1, LeaseFacts DEF FilesInv, GpuTypeOK
  <2>3. Behind(u.proc)
    BY <1>1, <1>2, <1>3, <1>4, <2>2, FileFacts DEF Behind
  <2>4. QED BY <1>1, <2>3, BehindFrame
<1>13. QED BY <1>6, <1>7, <1>8, <1>9, <1>10, <1>11, <1>12 DEF FilesInv

LEMMA EndJobStep ==
    ASSUME FilesInv, OneAtATime, NEW u \in holds, EndJob(u)
    PROVE  FilesInv'
<1> USE DEF jobs, locals, counters
<1>1. /\ running[u.proc] /\ u.lease \notin ended /\ ~Beating(u)
      /\ ended' = ended \cup {u.lease}
      /\ UNCHANGED <<file, at, todo, mine, want, lease, running, holds, abandoned, beat,
                     issued, kills, sweeps>>
  BY DEF EndJob, Live
<1>2. u.lease \in Leases /\ u.proc \in Procs /\ u \in HeldBy(u.proc)
  BY UseFacts DEF FilesInv, GpuTypeOK, HeldBy
<1>3. GpuTypeOK'
  BY <1>1, <1>2 DEF FilesInv, GpuTypeOK
<1>4. Uses'
  BY <1>1 DEF FilesInv, Uses, Disjoint
<1>5. Beats'
  <2>1. \A b \in beat: b.lease # u.lease
    BY <1>1 DEF Beating
  <2>2. QED BY <1>1, <2>1 DEF FilesInv, Beats
<1>6. Recorded' /\ Owned' /\ Whole'
  BY <1>1 DEF FilesInv, Recorded, Fresh, Owned, Whole, LeasesOf, Making
<1>7. \A q \in Procs: Placed(q)'
  BY <1>1 DEF FilesInv, Placed, Sweeping, Creating, Writing, Releasing, Acquiring,
     EmptiesIn, EmptyAll, HeldBy
<1>8. QED BY <1>3, <1>4, <1>5, <1>6, <1>7 DEF FilesInv

LEMMA BeginReleaseStep ==
    ASSUME FilesInv, OneAtATime, NEW u \in holds, BeginRelease(u)
    PROVE  FilesInv'
<1> USE DEF jobs, locals, counters, MoveTo, Visit
<1> DEFINE p == u.proc
<1>1. u.lease \in Leases /\ p \in Procs /\ u \in HeldBy(p)
  BY UseFacts DEF FilesInv, GpuTypeOK, HeldBy
<1> HIDE DEF p
<1>2. /\ u.lease \in ended /\ at[p] = "idle" /\ at' = [at EXCEPT ![p] = "release"]
      /\ todo' = [todo EXCEPT ![p] = Present]
      /\ lease' = [lease EXCEPT ![p] = u.lease]
      /\ UNCHANGED <<file, mine, want, running, holds, ended, abandoned, beat,
                     issued, kills, sweeps>>
  BY DEF BeginRelease, p
<1>3. Only(p) /\ u.proc = p
  BY <1>1, Alone DEF FilesInv, Engaged, p
<1>4. GpuTypeOK'
  BY <1>1, <1>2 DEF FilesInv, GpuTypeOK, Present
<1>5. Looks(p)
  BY <1>1, <1>2 DEF Looks, Local, FilesInv, GpuTypeOK
<1>6. Uses' /\ Beats' /\ Owned'
  BY <1>1, <1>5, LooksFrame
<1>7. \A q \in Procs: q # p => Placed(q)'
  BY <1>1, <1>3, <1>5, Others DEF Looks
<1>8. at'[p] = "release" /\ todo'[p] = Present /\ lease'[p] = u.lease
      /\ want'[p] = want[p] /\ want[p] = 0
  BY <1>1, <1>2 DEF FilesInv, GpuTypeOK, Placed
<1>9. Recorded'
  BY <1>1, <1>2, <1>3, <1>8 DEF FilesInv, Recorded, Fresh, Only
<1>10. Whole'
  <2>1. \A q \in Procs, d \in Devices: ~Making(q, d)
    BY <1>2, <1>3 DEF Only, Making
  <2>2. QED BY <1>2, <2>1 DEF FilesInv, Whole
<1>11. Placed(p)'
  <2>1. running[p]
    BY <1>2, <1>3 DEF FilesInv, Uses, Only
  <2>2. \A g \in Devices: file[g].lease = u.lease => g \in Present
    BY <1>1, FileFacts, LeaseFacts DEF Present, FilesInv, GpuTypeOK
  <2>3. Releasing(p)'
    BY <1>2, <1>3, <1>8, <2>1, <2>2 DEF Releasing
  <2>4. QED BY <1>1, <1>2, <1>8, <2>1, <2>3 DEF Placed, Sweeping, Creating, Writing,
               Acquiring, HeldBy
<1>12. QED BY <1>4, <1>6, <1>7, <1>9, <1>10, <1>11 DEF FilesInv

\* A process that releases holds the lease, whose job has ended.
LEMMA Releaser ==
    ASSUME FilesInv, OneAtATime, NEW p \in Procs, at[p] \in {"release", "remove"}
    PROVE  /\ Only(p) /\ running[p] /\ lease[p] \in ended /\ lease[p] \in Leases
           /\ \E u \in holds: u.lease = lease[p] /\ u.proc = p
           /\ \A g \in Devices: file[g].lease = lease[p] => g \in todo[p]
           /\ \A q \in Procs, d \in Devices: ~Making(q, d)
<1>1. Only(p)
  BY Alone DEF FilesInv, Engaged
<1>2. running[p] /\ lease[p] \in ended
  BY DEF FilesInv, Placed, Releasing
<1>3. lease[p] \in Leases
  BY <1>2 DEF FilesInv, GpuTypeOK
<1>4. \A q \in Procs, d \in Devices: ~Making(q, d)
  BY <1>1 DEF Only, Making
<1>5. QED BY <1>1, <1>2, <1>3, <1>4 DEF FilesInv, Placed, Releasing

LEMMA ReleaseReadStep ==
    ASSUME FilesInv, OneAtATime, NEW p \in Procs, NEW g \in Devices, ReleaseRead(p, g)
    PROVE  FilesInv'
<1> USE DEF jobs, locals, counters, MoveTo, Visited
<1>1. at[p] = "release" /\ g \in todo[p]
      /\ UNCHANGED <<file, want, lease, running, holds, ended, abandoned, beat,
                     issued, kills, sweeps>>
  BY DEF ReleaseRead
<1>2. /\ Only(p) /\ running[p] /\ lease[p] \in ended /\ lease[p] \in Leases
      /\ \E u \in holds: u.lease = lease[p] /\ u.proc = p
      /\ \A d \in Devices: file[d].lease = lease[p] => d \in todo[p]
      /\ \A q \in Procs, d \in Devices: ~Making(q, d)
  BY <1>1, Releaser
<1>3. GpuTypeOK'
  BY <1>1 DEF FilesInv, GpuTypeOK, ReleaseRead
<1>4. Looks(p)
  BY <1>1 DEF Looks, Local, FilesInv, GpuTypeOK, ReleaseRead
<1>5. Uses' /\ Beats' /\ Owned'
  BY <1>4, LooksFrame
<1>6. \A q \in Procs: q # p => Placed(q)'
  BY <1>2, <1>4, Others DEF Looks
<1>7. at'[p] \in {"release", "remove"}
  BY <1>1 DEF ReleaseRead, FilesInv, GpuTypeOK
<1>8. Recorded'
  BY <1>1, <1>2, <1>7 DEF FilesInv, Recorded, Fresh, Only
<1>9. Whole'
  BY <1>1, <1>2 DEF FilesInv, Whole
<1>10. Placed(p)'
  <2>1. Releasing(p)'
    <3>1. CASE Owns(p, g)
      <4>1. at'[p] = "remove" /\ mine'[p] = {g} /\ todo'[p] = todo[p]
        BY <3>1 DEF ReleaseRead, FilesInv, GpuTypeOK
      <4>2. QED BY <1>1, <1>2, <3>1, <4>1 DEF Releasing, Owns
    <3>2. CASE ~Owns(p, g)
      <4>1. at'[p] = "release" /\ todo'[p] = todo[p] \ {g}
        BY <1>1, <3>2 DEF ReleaseRead, FilesInv, GpuTypeOK
      <4>2. QED BY <1>1, <1>2, <3>2, <4>1 DEF Releasing, Owns
    <3>3. QED BY <3>1, <3>2
  <2>2. running[p] => HeldBy(p)' # {}
    BY <1>1 DEF HeldBy, FilesInv, Placed
  <2>3. want[p] > 0 => issued < MaxLeases
    BY <1>1 DEF FilesInv, Placed
  <2>4. QED BY <1>1, <1>7, <2>1, <2>2, <2>3 DEF Placed, Sweeping, Creating, Writing,
               Acquiring
<1>11. QED BY <1>3, <1>5, <1>6, <1>8, <1>9, <1>10 DEF FilesInv

LEMMA ReleaseUnlinkStep ==
    ASSUME FilesInv, OneAtATime, NEW p \in Procs, NEW g \in Devices, ReleaseUnlink(p, g)
    PROVE  FilesInv'
<1> USE DEF jobs, locals, counters, MoveTo, Visited, Put
<1>1. at[p] = "remove" /\ g \in mine[p] /\ Unlink(g)
      /\ at' = [at EXCEPT ![p] = "release"]
      /\ todo' = [todo EXCEPT ![p] = @ \ {g}] /\ mine' = [mine EXCEPT ![p] = {}]
      /\ UNCHANGED <<want, lease, running, holds, ended, abandoned,
                     issued, kills, sweeps>>
  BY DEF ReleaseUnlink
<1>2. /\ Only(p) /\ running[p] /\ lease[p] \in ended /\ lease[p] \in Leases
      /\ \E u \in holds: u.lease = lease[p] /\ u.proc = p
      /\ \A d \in Devices: file[d].lease = lease[p] => d \in todo[p]
      /\ \A q \in Procs, d \in Devices: ~Making(q, d)
  BY <1>1, Releaser
<1>3. file[g].lease = lease[p]
  BY <1>1 DEF FilesInv, Placed, Releasing
<1>4. file[g] # Empty
  BY <1>2, <1>3, FileFacts, LeaseFacts
<1>5. beat' = beat
  BY <1>1, <1>4, Unlinked
<1>6. file' = [file EXCEPT ![g] = Absent]
      /\ file'[g] = Absent /\ \A d \in Devices: d # g => file'[d] = file[d]
  BY <1>1 DEF Unlink, FilesInv, GpuTypeOK
<1>7. GpuTypeOK'
  BY <1>1, <1>5, <1>6, FileFacts DEF FilesInv, GpuTypeOK
<1>8. Uses'
  BY <1>1 DEF FilesInv, Uses, Disjoint
<1>9. \A b \in beat: b.gpu # g /\ b.gpu \in Devices
  <2> SUFFICES ASSUME NEW b \in beat PROVE b.gpu # g /\ b.gpu \in Devices
    OBVIOUS
  <2>1. b.lease # lease[p]
    BY <1>2 DEF FilesInv, Beats
  <2>2. b.stage = "read" => b.gpu # g
    BY <1>3, <2>1 DEF FilesInv, Beats
  <2>3. b.stage # "read" => b.gpu # g
    BY <1>4 DEF FilesInv, Beats
  <2>4. QED BY <2>2, <2>3, BeatFacts DEF FilesInv, GpuTypeOK
<1>10. Beats'
  BY <1>1, <1>5, <1>6, <1>9 DEF FilesInv, Beats
<1>11. Recorded'
  <2> SUFFICES ASSUME NEW v \in holds, v.lease \notin ended, NEW d \in v.gpus
               PROVE  file'[d] = Full(v.lease) \/ Opened(v.lease, d) \in beat'
    BY <1>1 DEF Recorded
  <2>1. v.lease \in Leases /\ d \in Devices /\ v.lease # lease[p]
    BY <1>2, UseFacts DEF FilesInv, GpuTypeOK
  <2>2. file[d] = Full(v.lease) \/ Opened(v.lease, d) \in beat
    BY <1>1, <1>2 DEF FilesInv, Recorded, Fresh, Only
  <2>3. CASE file[d] = Full(v.lease)
    <3>1. d # g
      BY <1>3, <2>1, <2>3, FileFacts
    <3>2. QED BY <1>6, <2>1, <2>3, <3>1
  <2>4. QED BY <1>5, <2>2, <2>3
<1>12. Owned'
  BY <1>1, <1>6, FileFacts DEF FilesInv, Owned, LeasesOf
<1>13. Whole'
  BY <1>1, <1>2, <1>5, <1>6, FileFacts DEF FilesInv, Whole
<1>14. \A q \in Procs: q # p => Placed(q)'
  BY <1>1, <1>2, Others DEF Local, FilesInv, GpuTypeOK
<1>15. Placed(p)'
  <2>1. at'[p] = "release" /\ todo'[p] = todo[p] \ {g}
    BY <1>1 DEF FilesInv, GpuTypeOK
  <2>2. \A d \in Devices: file'[d].lease = lease[p] => d \in todo'[p]
    BY <1>2, <1>6, <2>1, FileFacts, LeaseFacts
  <2>3. Releasing(p)'
    BY <1>1, <1>2, <2>1, <2>2 DEF Releasing
  <2>4. running[p] => HeldBy(p)' # {}
    BY <1>1 DEF HeldBy, FilesInv, Placed
  <2>5. want[p] > 0 => issued < MaxLeases
    BY <1>1 DEF FilesInv, Placed
  <2>6. QED BY <1>1, <2>1, <2>3, <2>4, <2>5 DEF Placed, Sweeping, Creating, Writing,
               Acquiring
<1>16. QED BY <1>7, <1>8, <1>10, <1>11, <1>12, <1>13, <1>14, <1>15 DEF FilesInv

LEMMA ReleaseDoneStep ==
    ASSUME FilesInv, OneAtATime, NEW p \in Procs, ReleaseDone(p)
    PROVE  FilesInv'
<1> USE DEF jobs, locals, counters, MoveTo, Visit
<1>1. /\ at[p] = "release" /\ todo[p] = {} /\ Return(p)
      /\ holds' = {u \in holds: u.lease # lease[p]}
      /\ ended' = ended \ {lease[p]}
      /\ running' = [running EXCEPT ![p] = {u \in holds': u.proc = p} # {}]
      /\ UNCHANGED <<file, abandoned, beat, issued, kills, sweeps>>
  BY DEF ReleaseDone
<1>2. /\ Only(p) /\ running[p] /\ lease[p] \in ended /\ lease[p] \in Leases
      /\ \A d \in Devices: file[d].lease # lease[p]
      /\ \A q \in Procs, d \in Devices: ~Making(q, d)
  BY <1>1, Releaser
<1>3. /\ at'[p] = "idle" /\ todo'[p] = {} /\ mine'[p] = {} /\ want'[p] = 0
      /\ running'[p] = ({u \in holds': u.proc = p} # {})
  BY <1>1 DEF Return, FilesInv, GpuTypeOK
<1>4. GpuTypeOK'
  <2>1. /\ at' \in [Procs -> {"idle", "sweep", "unlink", "create", "rollback",
                              "write", "release", "remove"}]
        /\ todo' \in [Procs -> SUBSET Devices] /\ mine' \in [Procs -> SUBSET Devices]
        /\ want' \in [Procs -> Sizes \cup {0}]
        /\ lease' \in [Procs -> Leases \cup {0}]
    BY <1>1 DEF FilesInv, GpuTypeOK, Return
  <2>2. running' \in [Procs -> BOOLEAN]
    BY <1>1 DEF FilesInv, GpuTypeOK
  <2>3. QED BY <1>1, <2>1, <2>2 DEF FilesInv, GpuTypeOK
<1>5. \A u \in holds': u \in holds /\ u.lease # lease[p] /\ u.proc = p
      /\ running'[u.proc]
  BY <1>1, <1>2, <1>3 DEF Only
<1>6. Uses'
  <2>1. \A l \in ended': \E u \in holds': u.lease = l /\ running'[u.proc]
    <3> SUFFICES ASSUME NEW l \in ended, l # lease[p]
                 PROVE  \E u \in holds': u.lease = l /\ running'[u.proc]
      BY <1>1
    <3>1. PICK u \in holds: u.lease = l
      BY DEF FilesInv, Uses
    <3>2. u \in holds'
      BY <1>1, <3>1
    <3>3. QED BY <1>5, <3>1, <3>2
  <2>2. QED BY <1>1, <1>5, <2>1 DEF FilesInv, Uses, Disjoint
<1>7. Beats'
  <2>1. \A b \in beat: \E u \in holds': u.lease = b.lease /\ running'[u.proc]
    BY <1>1, <1>2, <1>5 DEF FilesInv, Beats
  <2>2. QED BY <1>1, <2>1 DEF FilesInv, Beats
<1>8. Recorded'
  BY <1>1, <1>2, <1>5 DEF FilesInv, Recorded, Fresh, Only
<1>9. Owned'
  <2>1. \A g \in Devices: file[g].lease \in LeasesOf(holds) =>
            file[g].lease \in LeasesOf(holds')
    BY <1>1, <1>2 DEF LeasesOf
  <2>2. QED BY <1>1, <2>1 DEF FilesInv, Owned, LeasesOf
<1>10. Whole'
  BY <1>1, <1>2 DEF FilesInv, Whole
<1>11. \A q \in Procs: q # p => Placed(q)'
  BY <1>1, <1>2, Others DEF Local, FilesInv, GpuTypeOK, Return
<1>12. Placed(p)'
  <2>1. running'[p] => HeldBy(p)' # {}
    BY <1>3, Zenon DEF HeldBy
  <2>2. QED BY <1>3, <2>1 DEF Placed, Sweeping, Creating, Writing, Releasing,
               Acquiring
<1>13. QED BY <1>4, <1>6, <1>7, <1>8, <1>9, <1>10, <1>11, <1>12 DEF FilesInv

\* Whoever goes is the only one there was.
LEMMA GoneFacts ==
    ASSUME FilesInv, NEW p \in Procs, Only(p), Gone(p)
    PROVE  /\ holds' = {} /\ ended' = {}
           /\ abandoned' = abandoned \cup LeasesOf(holds) /\ abandoned' \subseteq Leases
           /\ running' = [running EXCEPT ![p] = FALSE] /\ running'[p] = FALSE
<1>1. HeldBy(p) = holds
  BY DEF Only, HeldBy
<1>2. \A l \in ended: l \in LeasesOf(holds)
  BY DEF FilesInv, Uses, LeasesOf
<1>3. LeasesOf(holds) \subseteq Leases
  BY UseFacts DEF LeasesOf, FilesInv, GpuTypeOK
<1>4. QED BY <1>1, <1>2, <1>3 DEF Gone, FilesInv, GpuTypeOK

LEMMA FailFastStep ==
    ASSUME FilesInv, OneAtATime, NEW p \in Procs, FailFastReturn(p)
    PROVE  FilesInv'
<1> USE DEF jobs, locals, counters
<1>1. /\ at[p] = "idle" /\ running[p] /\ LeasesOf(HeldBy(p)) \subseteq ended /\ Gone(p)
      /\ UNCHANGED <<file, at, todo, mine, want, lease, beat, issued, kills, sweeps>>
  BY DEF FailFastReturn
<1>2. Only(p)
  BY <1>1, Alone DEF FilesInv, Engaged, Placed
<1>3. /\ holds' = {} /\ ended' = {}
      /\ abandoned' = abandoned \cup LeasesOf(holds) /\ abandoned' \subseteq Leases
      /\ running' = [running EXCEPT ![p] = FALSE] /\ running'[p] = FALSE
  BY <1>1, <1>2, GoneFacts
<1>4. beat = {}
  <2>1. \A u \in holds: u.lease \in ended
    BY <1>1, <1>2 DEF LeasesOf, HeldBy, Only
  <2>2. QED BY <2>1 DEF FilesInv, Beats
<1>5. GpuTypeOK'
  BY <1>1, <1>3 DEF FilesInv, GpuTypeOK
<1>6. Uses' /\ Beats' /\ Recorded'
  BY <1>1, <1>3, <1>4 DEF Uses, Beats, Recorded, Disjoint
<1>7. Owned'
  BY <1>1, <1>3 DEF FilesInv, Owned
<1>8. Whole'
  BY <1>1 DEF FilesInv, Whole, Making
<1>9. \A q \in Procs: q # p => Placed(q)'
  BY <1>1, <1>2, <1>3, Others DEF Local, FilesInv, GpuTypeOK
<1>10. Placed(p)'
  BY <1>1, <1>3 DEF FilesInv, Placed, Sweeping, Creating, Writing, Releasing, Acquiring
<1>11. QED BY <1>5, <1>6, <1>7, <1>8, <1>9, <1>10 DEF FilesInv

LEMMA CrashStep ==
    ASSUME FilesInv, OneAtATime, NEW p \in Procs, Kill(p)
    PROVE  FilesInv'
<1> USE DEF jobs, locals, counters, MoveTo, Visit
<1>1. /\ kills < MaxKills
      /\ at[p] # "idle" \/ HeldBy(p) # {}
      /\ kills' = kills + 1 /\ Gone(p) /\ Return(p)
      /\ beat' = {b \in beat: b.lease \notin LeasesOf(HeldBy(p))}
      /\ UNCHANGED <<file, issued, sweeps>>
  BY DEF Kill
<1>2. Only(p)
  BY <1>1, Alone DEF FilesInv, Engaged
<1>3. /\ holds' = {} /\ ended' = {}
      /\ abandoned' = abandoned \cup LeasesOf(holds) /\ abandoned' \subseteq Leases
      /\ running' = [running EXCEPT ![p] = FALSE] /\ running'[p] = FALSE
  BY <1>1, <1>2, GoneFacts
<1>4. beat' = {}
  <2>1. HeldBy(p) = holds
    BY <1>2 DEF Only, HeldBy
  <2>2. \A b \in beat: b.lease \in LeasesOf(holds)
    BY DEF FilesInv, Beats, LeasesOf
  <2>3. QED BY <1>1, <2>1, <2>2
<1>5. /\ at'[p] = "idle" /\ todo'[p] = {} /\ mine'[p] = {} /\ want'[p] = 0
  BY <1>1 DEF Return, FilesInv, GpuTypeOK
<1>6. kills' \in 0..MaxKills /\ kills' # 0
  BY <1>1, LeaseBoundsAssumption DEF FilesInv, GpuTypeOK
<1>7. GpuTypeOK'
  <2>1. /\ at' \in [Procs -> {"idle", "sweep", "unlink", "create", "rollback",
                              "write", "release", "remove"}]
        /\ todo' \in [Procs -> SUBSET Devices] /\ mine' \in [Procs -> SUBSET Devices]
        /\ want' \in [Procs -> Sizes \cup {0}]
        /\ lease' \in [Procs -> Leases \cup {0}]
    BY <1>1 DEF FilesInv, GpuTypeOK, Return
  <2>2. QED BY <1>1, <1>3, <1>4, <1>6, <2>1 DEF FilesInv, GpuTypeOK
<1>8. Uses' /\ Beats' /\ Recorded'
  BY <1>3, <1>4 DEF Uses, Beats, Recorded, Disjoint
<1>9. Owned'
  BY <1>1, <1>3 DEF FilesInv, Owned
<1>10. Whole'
  BY <1>6 DEF Whole
<1>11. \A q \in Procs: q # p => Placed(q)'
  BY <1>1, <1>2, <1>3, Others DEF Local, FilesInv, GpuTypeOK, Return
<1>12. Placed(p)'
  BY <1>3, <1>5 DEF Placed, Sweeping, Creating, Writing, Releasing, Acquiring
<1>13. QED BY <1>7, <1>8, <1>9, <1>10, <1>11, <1>12 DEF FilesInv

LEMMA AgeStep ==
    ASSUME FilesInv, NEW g \in Devices, Age(g)
    PROVE  FilesInv'
<1> USE DEF jobs, locals, counters
<1> DEFINE old == [file[g] EXCEPT !.fresh = FALSE]
<1>1. /\ file[g].fresh /\ file[g].lease \notin LeasesOf(holds)
      /\ file' = [file EXCEPT ![g] = old]
      /\ UNCHANGED <<at, todo, mine, want, lease, running, holds, ended, abandoned, beat,
                     issued, kills, sweeps>>
  BY DEF Age, Put
<1>2. file[g] \in LockFile
  BY DEF FilesInv, GpuTypeOK
<1>3. file[g].kind = "full"
  BY <1>1, <1>2, FileFacts
<1>4. /\ old \in LockFile /\ old.kind = "full" /\ old.lease = file[g].lease
      /\ old # Empty /\ file[g] # Empty
  BY <1>2, <1>3, FileFacts
<1> HIDE DEF old
<1>5. /\ file'[g] = old /\ \A d \in Devices: d # g => file'[d] = file[d]
  BY <1>1 DEF FilesInv, GpuTypeOK
<1>6. /\ \A d \in Devices: file'[d].lease = file[d].lease
      /\ \A d \in Devices: file'[d].kind = file[d].kind
      /\ \A d \in Devices: (file'[d] = Empty) <=> (file[d] = Empty)
  BY <1>3, <1>4, <1>5
<1>7. \A u \in holds: \A d \in u.gpus: file[d] = Full(u.lease) => file'[d] = Full(u.lease)
  <2> SUFFICES ASSUME NEW u \in holds, NEW d \in u.gpus, file[d] = Full(u.lease)
               PROVE  file'[d] = Full(u.lease)
    OBVIOUS
  <2>1. d \in Devices /\ file[d].lease = u.lease
    BY UseFacts, FileFacts DEF FilesInv, GpuTypeOK
  <2>2. d # g
    BY <1>1, <2>1 DEF LeasesOf
  <2>3. QED BY <1>5, <2>1, <2>2
<1>8. GpuTypeOK'
  BY <1>1, <1>4 DEF FilesInv, GpuTypeOK
<1>9. Uses'
  BY <1>1 DEF FilesInv, Uses, Disjoint
<1>10. Beats'
  <2>1. \A b \in beat: b.gpu \in Devices
    BY BeatFacts DEF FilesInv, GpuTypeOK
  <2>2. QED BY <1>1, <1>6, <2>1 DEF FilesInv, Beats
<1>11. Recorded'
  BY <1>1, <1>7 DEF FilesInv, Recorded, Fresh
<1>12. Owned' /\ Whole'
  BY <1>1, <1>6 DEF FilesInv, Owned, Whole, LeasesOf, Making
<1>13. ASSUME NEW p \in Procs PROVE Placed(p)'
  <2>1. Sweeping(p)'
    <3>1. \A d \in Devices: ~file[d].fresh => ~file'[d].fresh
      BY <1>1, <1>5
    <3>2. QED BY <1>1, <1>6, <3>1 DEF FilesInv, Placed, Sweeping, EmptiesIn
  <2>2. Creating(p)'
    BY <1>1, <1>6 DEF FilesInv, Placed, Creating, EmptiesIn, EmptyAll, GpuTypeOK
  <2>3. Writing(p)'
    <3>1. at[p] = "write" =>
            \A d \in mine[p] \ todo[p]: file[d] = Full(lease[p]) => file'[d] = Full(lease[p])
      BY <1>7 DEF FilesInv, Placed, Writing
    <3>2. QED BY <1>1, <1>6, <3>1 DEF FilesInv, Placed, Writing, EmptiesIn, EmptyAll, GpuTypeOK
  <2>4. Releasing(p)'
    BY <1>1, <1>6 DEF FilesInv, Placed, Releasing
  <2>5. QED BY <1>1, <2>1, <2>2, <2>3, <2>4 DEF FilesInv, Placed, HeldBy
<1>14. QED BY <1>8, <1>9, <1>10, <1>11, <1>12, <1>13 DEF FilesInv

-----------------------------------------------------------------------------
(* The theorems *)

LEMMA Stutter == FilesInv /\ UNCHANGED gpuVars => FilesInv'
BY DEF gpuVars, locals, jobs, counters, FilesInv, GpuTypeOK, Uses, Beats, Recorded, Owned, Whole,
   Placed, Sweeping, Creating, Writing, Releasing, Acquiring, Fresh, Disjoint, LeasesOf,
   Making, EmptiesIn, EmptyAll, HeldBy

\* Every step of one scheduler after another keeps the invariant.
THEOREM FilesInductive ==
    FilesInv /\ OneAtATime /\ OneAtATime' /\ [GpuNext]_gpuVars => FilesInv'
<1> SUFFICES ASSUME FilesInv, OneAtATime, OneAtATime', GpuNext PROVE FilesInv'
  BY Stutter
<1>1. ASSUME NEW p \in Procs, Acquire(p) PROVE FilesInv'
  <2>1. CASE \E n \in Sizes: BeginAcquire(p, n)
    BY <2>1, BeginAcquireStep
  <2>2. CASE \E g \in Devices: SweepRead(p, g) \/ SweepUnlink(p, g)
    BY <2>2, SweepReadStep, SweepUnlinkStep
  <2>3. CASE SweepDone(p) \/ Create(p) \/ Rollback(p)
    BY <2>3, SweepDoneStep, CreateStep, RollbackStep
  <2>4. CASE Draw(p) \/ Write(p)
    BY <2>4, DrawStep, WriteStep
  <2>5. QED BY <1>1, <2>1, <2>2, <2>3, <2>4 DEF Acquire
<1>2. ASSUME NEW p \in Procs, Release(p) PROVE FilesInv'
  BY <1>2, ReleaseReadStep, ReleaseUnlinkStep, ReleaseDoneStep DEF Release
<1>3. ASSUME NEW p \in Procs, ReleaseStale(p) \/ RunBatch(p) PROVE FilesInv'
  BY <1>3, ReleaseStaleStep, RunBatchStep
<1>4. ASSUME NEW p \in Procs, FailFastReturn(p) \/ Kill(p) PROVE FilesInv'
  BY <1>4, FailFastStep, CrashStep
<1>5. ASSUME Heartbeat PROVE FilesInv'
  BY <1>5, BeatReadStep, BeatOpenStep, BeatWriteStep DEF Heartbeat
<1>6. ASSUME NEW u \in holds, EndJob(u) \/ BeginRelease(u) PROVE FilesInv'
  BY <1>6, EndJobStep, BeginReleaseStep
<1>7. ASSUME NEW g \in Devices, Age(g) PROVE FilesInv'
  BY <1>7, AgeStep
<1>8. QED BY <1>1, <1>2, <1>3, <1>4, <1>5, <1>6, <1>7 DEF GpuNext

\* The invariant holds in every state in which schedulers have come one after
\* another so far.
THEOREM FilesInvHolds == GpuSpec /\ []OneAtATime => []FilesInv
<1>1. GpuInit => FilesInv
  BY FilesInitially
<1>2. FilesInv /\ OneAtATime /\ OneAtATime' /\ [GpuNext]_gpuVars => FilesInv'
  BY FilesInductive
<1>3. QED BY <1>1, <1>2, PTL DEF GpuSpec

\* As long as schedulers come one after another, no two jobs are given the
\* same device, whatever is killed, swept, rewritten or left behind.
THEOREM Exclusive == GpuSpec /\ []OneAtATime => []ExclusivePerDevice
<1>1. FilesInv => ExclusivePerDevice
  BY DEF FilesInv, Uses, Disjoint, ExclusivePerDevice, Held
<1>2. QED BY <1>1, FilesInvHolds, PTL

LEMMA FilesAreExact ==
    ASSUME FilesInv, OneAtATime PROVE LockFilesAreExact
<1>1. \A u \in holds: u.lease \in Leases /\ u.proc \in Procs /\ u.gpus \in SUBSET Devices
  BY UseFacts DEF FilesInv, GpuTypeOK
<1>2. RunningIsRecorded
  <2>1. \A u \in holds: running[u.proc] => ~Fresh(u)
    BY <1>1 DEF FilesInv, Placed, Acquiring, Fresh
  <2>2. \A u \in holds: \A g \in u.gpus: file[g] = Full(u.lease) => file[g].lease = u.lease
    BY <1>1, FileFacts
  <2>3. QED BY <2>1, <2>2 DEF FilesInv, Recorded, RunningIsRecorded, Opened
<1>3. AllOrNothing
  <2> SUFFICES ASSUME kills = 0, beat = {}, \A p \in Procs: at[p] = "idle",
                      NEW g \in Present
               PROVE  file[g].lease \in LeasesOf(holds) \cup abandoned
    BY DEF AllOrNothing
  <2>1. g \in Devices /\ file[g].kind # "absent"
    BY DEF Present
  <2>2. file[g] # Empty
    BY <2>1 DEF FilesInv, Whole, Making
  <2>3. file[g].kind = "full"
    BY <2>1, <2>2, FileFacts DEF FilesInv, GpuTypeOK
  <2>4. QED BY <2>1, <2>3 DEF FilesInv, Owned
<1>4. SweptBeforeCreating
  <2> SUFFICES ASSUME NEW p \in Procs, at[p] = "create", todo[p] = Devices, NEW g \in Present
               PROVE  file[g].lease # 0
    BY DEF SweptBeforeCreating
  <2>1. g \in Devices /\ file[g].kind # "absent"
    BY DEF Present
  <2>2. g \notin mine[p] /\ EmptiesIn(mine[p])
    BY <2>1 DEF FilesInv, Placed, Creating
  <2>3. file[g] # Empty
    BY <2>1, <2>2 DEF EmptiesIn
  <2>4. QED BY <2>1, <2>3, FileFacts, LeaseFacts DEF FilesInv, GpuTypeOK
<1>5. QED BY <1>2, <1>3, <1>4 DEF FilesInv, LockFilesAreExact

\* As long as schedulers come one after another, the lock files tell who uses
\* the devices.
THEOREM FilesExact == GpuSpec /\ []OneAtATime => []LockFilesAreExact
<1>1. FilesInv /\ OneAtATime => LockFilesAreExact
  BY FilesAreExact
<1>2. QED BY <1>1, FilesInvHolds, PTL

\* With one process, as the run has it, that is no condition.
THEOREM OneProcess ==
    ASSUME \A p, q \in Procs: p = q
    PROVE  GpuSpec => []ExclusivePerDevice /\ []LockFilesAreExact
<1>1. OneAtATime
  BY DEF OneAtATime
<1>2. QED BY <1>1, Exclusive, FilesExact, PTL
=============================================================================
