------------------------- MODULE ApplicationStages -------------------------
(***************************************************************************)
(* ApplicationStageMachine of platform/governance/network/stage_machine.py *)
(* with the journal, the immutable generations and the write-once pointers *)
(* it is built on.                                                         *)
(*                                                                         *)
(* Under the lease of the application's directory a run takes the stages   *)
(* in order: journal the start, execute, publish a generation, point at    *)
(* it, journal the commit.  Then it snapshots the journal and publishes    *)
(* the application and its pointer.  A run can die between any two of      *)
(* these durable writes; the next one reads what it finds and goes on from *)
(* there, or raises.                                                       *)
(*                                                                         *)
(* A content hash is modelled by what makes it differ: a generation holds  *)
(* the lease binding of the run that wrote it, so within one stage its     *)
(* hash is that run's fence, and 0 is the hash of the application spec.    *)
(***************************************************************************)
EXTENDS Naturals, Sequences, FiniteSets

CONSTANTS
    Procs,          \* operating-system processes that run the application
    NoProc,         \* "nobody"
    AppSpec,        \* the application spec hash, the lease's root binding
    NoRoot,         \* "no root binding yet"
    StageCount,     \* number of stages
    MaxLeases,      \* bound on the number of runs
    MaxCrashes,     \* bound on deaths
    MaxReplaced     \* bound on replacements of the lock file

ASSUME NoProcAssumption == NoProc \notin Procs
ASSUME StageCountAssumption == StageCount \in Nat \ {0}
ASSUME BoundsAssumption ==
    MaxLeases \in Nat /\ MaxCrashes \in Nat /\ MaxReplaced \in Nat

VARIABLES
    owner, fence, root, torn,   \* the lease, as FencedLease promises it
    replaced,       \* times the lock file was replaced: no checkpoint passes
    journal,        \* rows of stage_journal/events.jsonl
    checkpoint,     \* rows that stage_journal/checkpoint.json vouches for
    generations,    \* stage generations on disk
    pointer,        \* each stage's publication/current.json, 0 if absent
    executions,     \* how often each stage's executor has returned
    snapshots,      \* journal snapshots on disk
    applications,   \* application generations on disk
    current,        \* the application's current.json, 0 if absent
    pc,             \* where each process is in run()
    prior,          \* hashes of the stages its run has behind it
    crashes         \* how many deaths there have been

lease == <<owner, fence, root, torn>>
files == <<journal, checkpoint, generations, pointer, executions, snapshots,
           applications, current>>
vars == <<lease, replaced, files, pc, prior, crashes>>

Lease == INSTANCE FencedLease WITH Roots <- {AppSpec}

Stages == 1..StageCount
Hash == Nat             \* fences, and 0 for the application spec

Row == [event: {"stage_started", "stage_committed"}, stage: Stages,
        input: Hash, output: Hash, fence: Nat]
Generation == [fence: Nat, input: Hash]
Snapshot == [outputs: Seq(Hash), sequence: Nat]
Application == [fence: Nat, outputs: Seq(Hash), snapshot: Snapshot]

PCs == {"idle", "acquired", "adopt", "look", "start", "started", "execute",
        "publish", "point", "commit", "committed", "apply", "finish",
        "verify", "returning", "failed"}

TypeOK ==
    /\ Lease!TypeOK
    /\ replaced \in 0..MaxReplaced
    /\ journal \in Seq(Row)
    /\ checkpoint \in 0..Len(journal)
    /\ generations \in [Stages -> SUBSET Generation]
    /\ pointer \in [Stages -> Hash]
    /\ executions \in [Stages -> Nat]
    /\ snapshots \subseteq Snapshot
    /\ applications \subseteq Application
    /\ current \in Hash
    /\ pc \in [Procs -> PCs]
    /\ prior \in [Procs -> Seq(Hash)]
    /\ \A p \in Procs: Len(prior[p]) <= StageCount
    /\ crashes \in 0..MaxCrashes

(***************************************************************************)
(* What a run reads.                                                       *)
(***************************************************************************)
\* The stage the run of p is at, and its input root.
At(p) == Len(prior[p]) + 1
Input(p) == IF prior[p] = <<>> THEN 0 ELSE prior[p][Len(prior[p])]

RowsOf(event, k) ==
    {i \in DOMAIN journal: journal[i].event = event /\ journal[i].stage = k}

Starts(k) == RowsOf("stage_started", k)
Commits(k) == RowsOf("stage_committed", k)

\* _validate_historical_binding: the lease history names that acquisition.
Granted(f) == f \in 1..fence

EventValid(rows, input, output) ==
    /\ Cardinality(rows) = 1
    /\ \A i \in rows: /\ journal[i].input = input
                      /\ journal[i].output = output
                      /\ Granted(journal[i].fence)

\* _validate_stage of the generation the stage's pointer names.
StageValid(k, input) ==
    /\ [fence |-> pointer[k], input |-> input] \in generations[k]
    /\ Granted(pointer[k])

\* A published stage with its start journaled, and its commit if there is one.
Reusable(k, input) ==
    /\ StageValid(k, input)
    /\ EventValid(Starts(k), input, 0)
    /\ Commits(k) # {} => EventValid(Commits(k), input, pointer[k])

\* journal.checkpoint() does not raise.
CheckpointMatches == checkpoint = Len(journal)

\* The input root of stage k in a chain of stage hashes.
ChainInput(outputs, k) == IF k = 1 THEN 0 ELSE outputs[k - 1]

\* validate_application() does not raise.
ApplicationValid(a) ==
    /\ Granted(a.fence)
    /\ a.snapshot \in snapshots
    /\ CheckpointMatches
    /\ a.snapshot.sequence = Len(journal)
    /\ Len(journal) = 2 * StageCount
    /\ \A k \in Stages:
          LET input == ChainInput(a.outputs, k) IN
          /\ StageValid(k, input)
          /\ EventValid(Starts(k), input, 0)
          /\ EventValid(Commits(k), input, pointer[k])
          /\ a.outputs[k] = pointer[k]
    /\ a.snapshot.outputs = a.outputs
    /\ current \in {0, a.fence}

-----------------------------------------------------------------------------
Init ==
    /\ Lease!Init
    /\ replaced = 0
    /\ journal = <<>>
    /\ checkpoint = 0
    /\ generations = [k \in Stages |-> {}]
    /\ pointer = [k \in Stages |-> 0]
    /\ executions = [k \in Stages |-> 0]
    /\ snapshots = {}
    /\ applications = {}
    /\ current = 0
    /\ pc = [p \in Procs |-> "idle"]
    /\ prior = [p \in Procs |-> <<>>]
    /\ crashes = 0

Goto(p, label) == pc' = [pc EXCEPT ![p] = label]

\* The run of p has passed the lease checkpoint in front of this step.
Runs(p, label) == pc[p] = label /\ replaced = 0

\* The run is over, and with it the lease.
Leave(p) ==
    /\ Lease!Drop(p)
    /\ Goto(p, "idle")
    /\ prior' = [prior EXCEPT ![p] = <<>>]

\* Mutant: the lease is not waited for.
AcquireUnlocked(p) ==
    /\ pc[p] = "idle"
    /\ fence < MaxLeases /\ replaced = 0 /\ ~torn
    /\ owner' = p
    /\ fence' = fence + 1
    /\ root' = AppSpec
    /\ Goto(p, "acquired")
    /\ UNCHANGED <<torn, replaced, files, prior, crashes>>

\* A replaced lock file is not admissible for a new lease either.
Acquire(p) ==
    /\ pc[p] = "idle"
    /\ fence < MaxLeases
    /\ replaced = 0
    /\ Lease!Grant(p, AppSpec)
    /\ Goto(p, "acquired")
    /\ UNCHANGED <<replaced, files, prior, crashes>>

\* _existing_application: the pointed one, else one that lacks its pointer.
Find(p) ==
    /\ Runs(p, "acquired")
    /\ \/ /\ current # 0
          /\ Goto(p, "verify")
       \/ /\ current = 0
          /\ applications = {}
          /\ Goto(p, "look")
       \/ /\ current = 0
          /\ applications # {}
          /\ Goto(p, IF /\ Cardinality(applications) = 1
                        /\ \A a \in applications: ApplicationValid(a)
                     THEN "adopt" ELSE "failed")
    /\ UNCHANGED <<lease, replaced, files, prior, crashes>>

Adopt(p) ==
    /\ Runs(p, "adopt")
    /\ \E a \in applications: current' = a.fence
    /\ Goto(p, "verify")
    /\ UNCHANGED <<lease, replaced, journal, checkpoint, generations, pointer,
                   executions, snapshots, applications, prior, crashes>>

(***************************************************************************)
(* The loop over the stages                                                *)
(***************************************************************************)
\* Mutant: a stage found published counts as committed.
ReuseUncommitted(p) ==
    LET k == At(p) IN
    /\ Runs(p, "look")
    /\ k \in Stages
    /\ pointer[k] # 0
    /\ IF StageValid(k, Input(p)) /\ EventValid(Starts(k), Input(p), 0)
       THEN /\ prior' = [prior EXCEPT ![p] = Append(@, pointer[k])]
            /\ UNCHANGED pc
       ELSE /\ Goto(p, "failed")
            /\ UNCHANGED prior
    /\ UNCHANGED <<lease, replaced, files, crashes>>

\* The stage is published: go on to the next, or first write the commit row
\* that the run which published it did not live to write.
Reuse(p) ==
    LET k == At(p) IN
    /\ Runs(p, "look")
    /\ k \in Stages
    /\ pointer[k] # 0
    /\ IF Reusable(k, Input(p)) /\ Commits(k) # {}
       THEN /\ prior' = [prior EXCEPT ![p] = Append(@, pointer[k])]
            /\ UNCHANGED pc
       ELSE /\ Goto(p, IF Reusable(k, Input(p)) THEN "commit" ELSE "failed")
            /\ UNCHANGED prior
    /\ UNCHANGED <<lease, replaced, files, crashes>>

\* Mutant: the start is journaled by every run that executes the stage.
EnterAgain(p) ==
    /\ Runs(p, "look")
    /\ At(p) \in Stages
    /\ pointer[At(p)] = 0
    /\ Goto(p, "start")
    /\ UNCHANGED <<lease, replaced, files, prior, crashes>>

\* The stage is not published: journal its start unless an earlier run did.
Enter(p) ==
    LET k == At(p) IN
    /\ Runs(p, "look")
    /\ k \in Stages
    /\ pointer[k] = 0
    /\ Goto(p, CASE Commits(k) # {} -> "failed"
                 [] Commits(k) = {} /\ Starts(k) = {} -> "start"
                 [] OTHER -> IF EventValid(Starts(k), Input(p), 0)
                             THEN "execute" ELSE "failed")
    /\ UNCHANGED <<lease, replaced, files, prior, crashes>>

\* DurableHashJournal.append up to the fsync of events.jsonl.  A row with the
\* same event id is a conflict: it names another lease.
AppendRow(p, event, output, next) ==
    IF RowsOf(event, At(p)) = {}
    THEN /\ journal' = Append(journal, [event |-> event, stage |-> At(p),
                                        input |-> Input(p), output |-> output,
                                        fence |-> fence])
         /\ Goto(p, next)
    ELSE /\ Goto(p, "failed")
         /\ UNCHANGED journal

Start(p) ==
    /\ Runs(p, "start")
    /\ AppendRow(p, "stage_started", 0, "started")
    /\ UNCHANGED <<lease, replaced, checkpoint, generations, pointer,
                   executions, snapshots, applications, current, prior, crashes>>

\* The rest of append: checkpoint.json is replaced.
Started(p) ==
    /\ pc[p] = "started"
    /\ checkpoint' = Len(journal)
    /\ Goto(p, "execute")
    /\ UNCHANGED <<lease, replaced, journal, generations, pointer, executions,
                   snapshots, applications, current, prior, crashes>>

Execute(p) ==
    /\ Runs(p, "execute")
    /\ executions' = [executions EXCEPT ![At(p)] = @ + 1]
    /\ Goto(p, "publish")
    /\ UNCHANGED <<lease, replaced, journal, checkpoint, generations, pointer,
                   snapshots, applications, current, prior, crashes>>

Publish(p) ==
    /\ Runs(p, "publish")
    /\ generations' = [generations EXCEPT ![At(p)] =
                         @ \cup {[fence |-> fence, input |-> Input(p)]}]
    /\ Goto(p, "point")
    /\ UNCHANGED <<lease, replaced, journal, checkpoint, pointer, executions,
                   snapshots, applications, current, prior, crashes>>

\* publish_current_pointer: the pointer is written once.
Point(p) ==
    /\ Runs(p, "point")
    /\ IF pointer[At(p)] \in {0, fence}
       THEN /\ pointer' = [pointer EXCEPT ![At(p)] = fence]
            /\ Goto(p, "commit")
       ELSE UNCHANGED pointer /\ Goto(p, "failed")
    /\ UNCHANGED <<lease, replaced, journal, checkpoint, generations,
                   executions, snapshots, applications, current, prior, crashes>>

Commit(p) ==
    /\ Runs(p, "commit")
    /\ AppendRow(p, "stage_committed", pointer[At(p)], "committed")
    /\ UNCHANGED <<lease, replaced, checkpoint, generations, pointer,
                   executions, snapshots, applications, current, prior, crashes>>

Committed(p) ==
    /\ pc[p] = "committed"
    /\ checkpoint' = Len(journal)
    /\ prior' = [prior EXCEPT ![p] = Append(@, pointer[At(p)])]
    /\ Goto(p, "look")
    /\ UNCHANGED <<lease, replaced, journal, generations, pointer, executions,
                   snapshots, applications, current, crashes>>

-----------------------------------------------------------------------------
(***************************************************************************)
(* The application                                                         *)
(***************************************************************************)
TakeSnapshot(p) ==
    /\ Runs(p, "look")
    /\ At(p) \notin Stages
    /\ CheckpointMatches
    /\ snapshots' = snapshots \cup {[outputs |-> prior[p],
                                     sequence |-> Len(journal)]}
    /\ Goto(p, "apply")
    /\ UNCHANGED <<lease, replaced, journal, checkpoint, generations, pointer,
                   executions, applications, current, prior, crashes>>

\* journal.checkpoint() raises: events.jsonl is ahead of checkpoint.json.
SnapshotRefused(p) ==
    /\ Runs(p, "look")
    /\ At(p) \notin Stages
    /\ ~CheckpointMatches
    /\ Goto(p, "failed")
    /\ UNCHANGED <<lease, replaced, files, prior, crashes>>

Apply(p) ==
    /\ Runs(p, "apply")
    /\ applications' = applications \cup
          {[fence |-> fence, outputs |-> prior[p],
            snapshot |-> [outputs |-> prior[p], sequence |-> Len(journal)]]}
    /\ Goto(p, "finish")
    /\ UNCHANGED <<lease, replaced, journal, checkpoint, generations, pointer,
                   executions, snapshots, current, prior, crashes>>

Finish(p) ==
    /\ Runs(p, "finish")
    /\ IF current \in {0, fence}
       THEN current' = fence /\ Goto(p, "verify")
       ELSE UNCHANGED current /\ Goto(p, "failed")
    /\ UNCHANGED <<lease, replaced, journal, checkpoint, generations, pointer,
                   executions, snapshots, applications, prior, crashes>>

\* validate_application of what current.json names, before run() returns it.
Verify(p) ==
    /\ Runs(p, "verify")
    /\ Goto(p, IF \E a \in applications: a.fence = current /\ ApplicationValid(a)
               THEN "returning" ELSE "failed")
    /\ UNCHANGED <<lease, replaced, files, prior, crashes>>

\* The "with lease" block is left, normally or by an exception.
Release(p) ==
    /\ pc[p] \in {"returning", "failed"}
    /\ Leave(p)
    /\ UNCHANGED <<replaced, files, crashes>>

\* A lease checkpoint raises.
LoseLease(p) ==
    /\ replaced > 0
    /\ pc[p] \notin {"idle", "started", "committed", "returning", "failed"}
    /\ Leave(p)
    /\ UNCHANGED <<replaced, files, crashes>>

-----------------------------------------------------------------------------
(***************************************************************************)
(* The environment                                                         *)
(***************************************************************************)
Crash(p) ==
    /\ crashes < MaxCrashes
    /\ pc[p] # "idle"
    /\ crashes' = crashes + 1
    /\ Leave(p)
    /\ UNCHANGED <<replaced, files>>

\* A process dies between the durable writes of the lease itself, taking it
\* or giving it back: no run is granted a lease again.
TearLease ==
    /\ crashes < MaxCrashes
    /\ replaced = 0
    /\ \A p \in Procs: pc[p] \in {"idle", "returning", "failed"}
    /\ Lease!Tear
    /\ crashes' = crashes + 1
    /\ pc' = [p \in Procs |-> "idle"]
    /\ prior' = [p \in Procs |-> <<>>]
    /\ UNCHANGED <<replaced, files>>

Replace ==
    /\ replaced < MaxReplaced
    /\ fence > 0
    /\ replaced' = replaced + 1
    /\ UNCHANGED <<lease, files, pc, prior, crashes>>

Step(p) ==
    \/ Find(p) \/ Adopt(p)
    \/ Reuse(p) \/ Enter(p) \/ Start(p) \/ Started(p) \/ Execute(p)
    \/ Publish(p) \/ Point(p) \/ Commit(p) \/ Committed(p)
    \/ TakeSnapshot(p) \/ SnapshotRefused(p) \/ Apply(p) \/ Finish(p)
    \/ Verify(p) \/ Release(p) \/ LoseLease(p)

Next ==
    \/ \E p \in Procs: Acquire(p) \/ Step(p) \/ Crash(p)
    \/ TearLease
    \/ Replace

Spec == Init /\ [][Next]_vars

\* A run that is not killed goes on: its executors return, and every other
\* step is a file operation of its own process.
Fairness == \A p \in Procs: WF_vars(Step(p))

FairSpec == Spec /\ Fairness

-----------------------------------------------------------------------------
(***************************************************************************)
(* Properties                                                              *)
(***************************************************************************)
\* The i-th row that a run writes under lease f when nothing interrupts it.
UninterruptedRow(i, f) ==
    LET k == (i + 1) \div 2 IN
    [event |-> IF i = 2 * k THEN "stage_committed" ELSE "stage_started",
     stage |-> k,
     input |-> IF k = 1 THEN 0 ELSE pointer[k - 1],
     output |-> IF i = 2 * k THEN pointer[k] ELSE 0,
     fence |-> f]

\* However often runs die and are repeated, the journal is the one that a
\* single uninterrupted run would have written: every stage started once and
\* committed once, in order, on the output of the stage before it, by ever
\* newer leases.
JournalIsOneRun ==
    \A i \in DOMAIN journal:
        /\ journal[i] = UninterruptedRow(i, journal[i].fence)
        /\ i > 1 => journal[i - 1].fence <= journal[i].fence

\* The application is published at most once: a run that dies between the
\* generation and its pointer is finished by the next, not repeated.
PublishedOnce == Cardinality(applications) <= 1

\* What current.json names stays valid for every later run: its snapshot, its
\* stage pointers and the journal agree, and the journal is checkpointed.
CurrentIsValid ==
    current # 0 =>
        \E a \in applications: a.fence = current /\ ApplicationValid(a)

\* There is one application, and it is one every later run accepts.
OneApplication == PublishedOnce /\ CurrentIsValid

\* No crash makes a later run raise, wherever it happens, except one: between
\* the last commit row and its checkpoint file, where no later append repairs
\* the checkpoint.
FailsOnlyWhenTorn ==
    \A p \in Procs: pc[p] = "failed" =>
        /\ Len(journal) = 2 * StageCount
        /\ checkpoint < Len(journal)

\* Repeated runs look like one run: in the journal, in what they publish, and
\* to the caller.
RunsAreOne ==
    TypeOK /\ JournalIsOneRun /\ OneApplication /\ FailsOnlyWhenTorn

\* What is published is final: no pointer ever moves, and a stage whose
\* pointer is there is not executed again by any run.
PublishedIsFinal ==
    [][ /\ \A k \in Stages: pointer[k] # 0 =>
              pointer'[k] = pointer[k] /\ executions'[k] = executions[k]
        /\ current # 0 => current' = current ]_vars

\* Once crashes have stopped, the next run publishes the application, unless
\* the lock file is replaced under it or the last commit was torn.
NextRunPublishes ==
    \A p \in Procs:
        (pc[p] = "acquired" /\ crashes = MaxCrashes)
            ~> (current # 0 \/ replaced > 0 \/ ~CheckpointMatches)
=============================================================================
