------------------------------ MODULE GpuLease ------------------------------
(***************************************************************************)
(* GpuLeaseManager of platform/compute/scheduler/lease.py: one lock file   *)
(* per GPU, created with O_EXCL and filled with the lease afterwards, kept *)
(* alive by rewriting its heartbeat, and swept once the heartbeat is old   *)
(* or cannot be read.  Every system call on a lock file is a step.         *)
(*                                                                         *)
(* A process acquires leases for a batch of jobs, runs the batch with one  *)
(* heartbeat thread per job, and releases each lease when its job ends, as *)
(* LocalComputeScheduler.run does; or it only sweeps, as the command       *)
(* release-stale-leases does.                                              *)
(***************************************************************************)
EXTENDS Naturals, FiniteSetsExt

CONSTANTS
    Procs,          \* processes that share the state directory
    Devices,        \* device indices, tried in increasing order
    Sizes,          \* values of required_gpus
    MaxLeases,      \* bound on leases drawn
    MaxKills,       \* bound on processes killed
    MaxSweeps       \* bound on release-stale-leases commands

ASSUME DevicesAssumption == Devices \subseteq Nat /\ IsFiniteSet(Devices)
ASSUME SizesAssumption == Sizes \subseteq Nat \ {0}
ASSUME LeaseBoundsAssumption ==
    MaxLeases \in Nat /\ MaxKills \in Nat /\ MaxSweeps \in Nat

VARIABLES
    file,       \* the lock file of each GPU: [kind, lease, fresh]
    at, todo, mine, want, lease,    \* each process: its call's local state
    running,    \* each process: its batch is running
    holds,      \* leases drawn and not yet released: [lease, gpus, proc]
    beat,       \* heartbeats being written: [lease, gpu, stage]
    ended,      \* held leases whose job has ended
    abandoned,  \* leases whose scheduler is gone and never released them
    issued, kills, sweeps

locals == <<at, todo, mine, want, lease>>
jobs == <<running, holds, ended, abandoned>>
counters == <<issued, kills, sweeps>>
gpuVars == <<file, locals, jobs, beat, counters>>

Leases == 1..MaxLeases
Absent == [kind |-> "absent", lease |-> 0, fresh |-> FALSE]
Empty == [kind |-> "empty", lease |-> 0, fresh |-> FALSE]
Full(l) == [kind |-> "full", lease |-> l, fresh |-> TRUE]
LockFile == {Absent, Empty} \cup
            [kind: {"full"}, lease: Leases, fresh: BOOLEAN]

Use == [lease: Leases, gpus: SUBSET Devices, proc: Procs]

GpuTypeOK ==
    /\ file \in [Devices -> LockFile]
    /\ at \in [Procs -> {"idle", "sweep", "unlink", "create", "rollback",
                         "write", "release", "remove"}]
    /\ todo \in [Procs -> SUBSET Devices] /\ mine \in [Procs -> SUBSET Devices]
    /\ want \in [Procs -> Sizes \cup {0}]
    /\ lease \in [Procs -> Leases \cup {0}]
    /\ running \in [Procs -> BOOLEAN]
    /\ holds \subseteq Use
    /\ ended \subseteq Leases /\ abandoned \subseteq Leases
    /\ beat \subseteq [lease: Leases, gpu: Devices,
                       stage: {"read", "opened", "unlinked"}]
    /\ issued \in 0..MaxLeases
    /\ kills \in 0..MaxKills /\ sweeps \in 0..MaxSweeps

GpuInit ==
    /\ file = [g \in Devices |-> Absent]
    /\ at = [p \in Procs |-> "idle"]
    /\ todo = [p \in Procs |-> {}] /\ mine = [p \in Procs |-> {}]
    /\ want = [p \in Procs |-> 0] /\ lease = [p \in Procs |-> 0]
    /\ running = [p \in Procs |-> FALSE]
    /\ holds = {} /\ ended = {} /\ abandoned = {} /\ beat = {}
    /\ issued = 0 /\ kills = 0 /\ sweeps = 0

HeldBy(p) == {u \in holds: u.proc = p}
LeasesOf(uses) == {u.lease: u \in uses}
Present == {g \in Devices: file[g].kind # "absent"}

Put(g, content) == file' = [file EXCEPT ![g] = content]

\* A heartbeat that has the file open goes on writing to the removed file.
Unlink(g) ==
    /\ Put(g, Absent)
    /\ beat' = {IF b.gpu = g /\ b.stage = "opened"
                THEN [b EXCEPT !.stage = "unlinked"] ELSE b: b \in beat}

MoveTo(p, to) == at' = [at EXCEPT ![p] = to]
Visit(p, gpus) == todo' = [todo EXCEPT ![p] = gpus]
Visited(p, g) == todo' = [todo EXCEPT ![p] = @ \ {g}]

\* The call returns: the process forgets its local variables.
Return(p) ==
    /\ MoveTo(p, "idle")
    /\ Visit(p, {})
    /\ mine' = [mine EXCEPT ![p] = {}]
    /\ want' = [want EXCEPT ![p] = 0]
    /\ lease' = [lease EXCEPT ![p] = 0]

-----------------------------------------------------------------------------
(***************************************************************************)
(* release_stale_leases, alone or at the start of acquire_gpu_lease        *)
(***************************************************************************)
\* glob lists the lock files; n = 0 stands for the command.
BeginSweep(p, n) ==
    /\ at[p] = "idle" /\ ~running[p]
    /\ MoveTo(p, "sweep")
    /\ Visit(p, Present)
    /\ want' = [want EXCEPT ![p] = n]
    /\ UNCHANGED <<file, mine, lease, jobs, beat, issued, kills>>

BeginAcquire(p, n) ==
    /\ issued + Cardinality({q \in Procs: want[q] > 0}) < MaxLeases
    /\ BeginSweep(p, n)
    /\ UNCHANGED sweeps

ReleaseStale(p) ==
    /\ sweeps < MaxSweeps
    /\ HeldBy(p) = {}
    /\ BeginSweep(p, 0)
    /\ sweeps' = sweeps + 1

\* _read_json gives {} for a missing, empty or torn file: no heartbeat.
IsStale(g) == ~file[g].fresh

\* The file is read; mine holds it until it has been removed.
SweepRead(p, g) ==
    /\ at[p] = "sweep" /\ g \in todo[p]
    /\ IF IsStale(g)
       THEN MoveTo(p, "unlink") /\ mine' = [mine EXCEPT ![p] = {g}] /\ UNCHANGED todo
       ELSE Visited(p, g) /\ UNCHANGED <<at, mine>>
    /\ UNCHANGED <<file, want, lease, jobs, beat, counters>>

SweepUnlink(p, g) ==
    /\ at[p] = "unlink" /\ g \in mine[p]
    /\ Unlink(g)
    /\ Visited(p, g)
    /\ MoveTo(p, "sweep")
    /\ mine' = [mine EXCEPT ![p] = {}]
    /\ UNCHANGED <<want, lease, jobs, counters>>

\* After its sweep acquire_gpu_lease probes: any device may be out of sight.
SweepDone(p) ==
    /\ at[p] = "sweep" /\ todo[p] = {}
    /\ IF want[p] = 0
       THEN Return(p)
       ELSE /\ MoveTo(p, "create")
            /\ \E available \in SUBSET Devices: Visit(p, available)
            /\ UNCHANGED <<mine, want, lease>>
    /\ UNCHANGED <<file, jobs, beat, counters>>

(***************************************************************************)
(* acquire_gpu_lease                                                       *)
(***************************************************************************)
\* Mutant: os.open without O_EXCL.
CreatableAlways(g) == TRUE

\* os.open with O_CREAT | O_EXCL succeeds.
Creatable(g) == file[g].kind = "absent"

\* The next device is tried; one whose file exists is passed over.
Create(p) ==
    /\ at[p] = "create" /\ todo[p] # {}
    /\ Cardinality(mine[p]) < want[p]
    /\ LET g == Min(todo[p])
       IN /\ Visited(p, g)
          /\ IF Creatable(g)
             THEN Put(g, Empty) /\ mine' = [mine EXCEPT ![p] = @ \cup {g}]
             ELSE UNCHANGED <<file, mine>>
    /\ UNCHANGED <<at, want, lease, jobs, beat, counters>>

TooFew(p) == todo[p] = {} /\ Cardinality(mine[p]) < want[p]

\* Mutant: return None at once.
RollbackNothing(p) ==
    /\ at[p] = "create" /\ TooFew(p)
    /\ Return(p)
    /\ UNCHANGED <<file, beat, jobs, counters>>

\* Too few devices: the lock files created are removed one by one.
Rollback(p) ==
    /\ at[p] = "rollback" \/ (at[p] = "create" /\ TooFew(p))
    /\ IF mine[p] = {}
       THEN Return(p) /\ UNCHANGED <<file, beat>>
       ELSE \E g \in mine[p]:
              /\ Unlink(g)
              /\ mine' = [mine EXCEPT ![p] = @ \ {g}]
              /\ MoveTo(p, "rollback")
              /\ UNCHANGED <<todo, want, lease>>
    /\ UNCHANGED <<jobs, counters>>

\* A lease id is drawn for the devices selected.
Draw(p) ==
    /\ at[p] = "create" /\ Cardinality(mine[p]) = want[p]
    /\ issued' = issued + 1
    /\ lease' = [lease EXCEPT ![p] = issued']
    /\ holds' = holds \cup {[lease |-> issued', gpus |-> mine[p], proc |-> p]}
    /\ Visit(p, mine[p])
    /\ MoveTo(p, "write")
    /\ UNCHANGED <<file, mine, want, running, ended, abandoned, beat,
                   kills, sweeps>>

\* path.write_text; it creates the file anew when something removed it.
Write(p) ==
    /\ at[p] = "write"
    /\ IF todo[p] = {}
       THEN Return(p) /\ UNCHANGED file
       ELSE LET g == Min(todo[p])
            IN /\ Put(g, Full(lease[p]))
               /\ Visited(p, g)
               /\ UNCHANGED <<at, mine, want, lease>>
    /\ UNCHANGED <<jobs, beat, counters>>

-----------------------------------------------------------------------------
(***************************************************************************)
(* The batch runs: heartbeats in the threads, releases in the main thread  *)
(***************************************************************************)
RunBatch(p) ==
    /\ at[p] = "idle" /\ ~running[p] /\ HeldBy(p) # {}
    /\ running' = [running EXCEPT ![p] = TRUE]
    /\ UNCHANGED <<file, locals, holds, ended, abandoned, beat, counters>>

Beating(u) == \E b \in beat: b.lease = u.lease

\* The job of a lease runs under its thread, which is between heartbeats.
Live(u) ==
    u \in holds /\ running[u.proc] /\ u.lease \notin ended /\ ~Beating(u)

\* heartbeat: the file is read and found to be the lease's ...
BeatRead(u, g) ==
    /\ Live(u)
    /\ file[g].lease = u.lease
    /\ beat' = beat \cup {[lease |-> u.lease, gpu |-> g, stage |-> "read"]}
    /\ UNCHANGED <<file, locals, jobs, counters>>

\* ... opened, which truncates it or creates it anew, ...
BeatOpen(b) ==
    /\ b.stage = "read"
    /\ Put(b.gpu, Empty)
    /\ beat' = (beat \ {b}) \cup {[b EXCEPT !.stage = "opened"]}
    /\ UNCHANGED <<locals, jobs, counters>>

\* ... and written.
BeatWrite(b) ==
    /\ b.stage # "read"
    /\ IF b.stage = "opened" THEN Put(b.gpu, Full(b.lease)) ELSE UNCHANGED file
    /\ beat' = beat \ {b}
    /\ UNCHANGED <<locals, jobs, counters>>

\* The job's process ends, and with it the thread that kept its heartbeat.
EndJob(u) ==
    /\ Live(u)
    /\ ended' = ended \cup {u.lease}
    /\ UNCHANGED <<file, locals, running, holds, abandoned, beat, counters>>

\* release_lease: glob, then each file is read and, if it is the lease's, removed.
BeginRelease(u) ==
    /\ u \in holds /\ u.lease \in ended
    /\ at[u.proc] = "idle"
    /\ MoveTo(u.proc, "release")
    /\ Visit(u.proc, Present)
    /\ lease' = [lease EXCEPT ![u.proc] = u.lease]
    /\ UNCHANGED <<file, mine, want, jobs, beat, counters>>

\* The file read is the lease's.
Owns(p, g) == file[g].lease = lease[p]

ReleaseRead(p, g) ==
    /\ at[p] = "release" /\ g \in todo[p]
    /\ IF Owns(p, g)
       THEN MoveTo(p, "remove") /\ mine' = [mine EXCEPT ![p] = {g}] /\ UNCHANGED todo
       ELSE Visited(p, g) /\ UNCHANGED <<at, mine>>
    /\ UNCHANGED <<file, want, lease, jobs, beat, counters>>

ReleaseUnlink(p, g) ==
    /\ at[p] = "remove" /\ g \in mine[p]
    /\ Unlink(g)
    /\ Visited(p, g)
    /\ MoveTo(p, "release")
    /\ mine' = [mine EXCEPT ![p] = {}]
    /\ UNCHANGED <<want, lease, jobs, counters>>

\* The batch is over when its last lease is released.
ReleaseDone(p) ==
    /\ at[p] = "release" /\ todo[p] = {}
    /\ holds' = {u \in holds: u.lease # lease[p]}
    /\ ended' = ended \ {lease[p]}
    /\ running' = [running EXCEPT ![p] = {u \in holds': u.proc = p} # {}]
    /\ Return(p)
    /\ UNCHANGED <<file, abandoned, beat, counters>>

\* The scheduler's process is over; what it held stays on disk.
Gone(p) ==
    /\ holds' = holds \ HeldBy(p)
    /\ ended' = ended \ LeasesOf(HeldBy(p))
    /\ abandoned' = abandoned \cup LeasesOf(HeldBy(p))
    /\ running' = [running EXCEPT ![p] = FALSE]

\* fail_fast: run() returns from the middle of the loop that releases.
FailFastReturn(p) ==
    /\ at[p] = "idle" /\ running[p]
    /\ LeasesOf(HeldBy(p)) \subseteq ended
    /\ Gone(p)
    /\ UNCHANGED <<file, locals, beat, counters>>

\* The process is killed; what its jobs do after that is not followed.
Kill(p) ==
    /\ kills < MaxKills
    /\ at[p] # "idle" \/ HeldBy(p) # {}
    /\ kills' = kills + 1
    /\ beat' = {b \in beat: b.lease \notin LeasesOf(HeldBy(p))}
    /\ Gone(p)
    /\ Return(p)
    /\ UNCHANGED <<file, issued, sweeps>>

\* heartbeat_timeout_seconds pass since a heartbeat that no thread renews.
Age(g) ==
    /\ file[g].fresh
    /\ file[g].lease \notin LeasesOf(holds)
    /\ Put(g, [file[g] EXCEPT !.fresh = FALSE])
    /\ UNCHANGED <<locals, jobs, beat, counters>>

-----------------------------------------------------------------------------
Acquire(p) ==
    \/ \E n \in Sizes: BeginAcquire(p, n)
    \/ \E g \in Devices: SweepRead(p, g) \/ SweepUnlink(p, g)
    \/ SweepDone(p) \/ Create(p) \/ Rollback(p) \/ Draw(p) \/ Write(p)

Release(p) ==
    \/ \E g \in Devices: ReleaseRead(p, g) \/ ReleaseUnlink(p, g)
    \/ ReleaseDone(p)

Heartbeat ==
    \/ \E u \in holds, g \in Devices: BeatRead(u, g)
    \/ \E b \in beat: BeatOpen(b) \/ BeatWrite(b)

GpuNext ==
    \/ \E p \in Procs: \/ Acquire(p) \/ Release(p)
                       \/ ReleaseStale(p) \/ RunBatch(p)
                       \/ FailFastReturn(p) \/ Kill(p)
    \/ Heartbeat
    \/ \E u \in holds: EndJob(u) \/ BeginRelease(u)
    \/ \E g \in Devices: Age(g)

GpuSpec == GpuInit /\ [][GpuNext]_gpuVars

-----------------------------------------------------------------------------
(***************************************************************************)
(* Properties                                                              *)
(***************************************************************************)
\* Leases from the moment they are drawn to the end of their job.
Held == {u \in holds: u.lease \notin ended}

Disjoint(uses) == \A u, v \in uses: u # v => u.gpus \cap v.gpus = {}

\* No two leases held by live schedulers share a GPU, whatever was killed,
\* swept, rewritten or left behind before ("Local GPU lease files for exclusive
\* per-device shard jobs").
ExclusivePerDevice == Disjoint(Held)

\* Every GPU of a running job has the job's lease on disk, except while that
\* very file is being rewritten by its heartbeat.
RunningIsRecorded ==
    \A u \in holds: (running[u.proc] /\ u.lease \notin ended) =>
        \A g \in u.gpus:
            \/ file[g].lease = u.lease
            \/ [lease |-> u.lease, gpu |-> g, stage |-> "opened"] \in beat

\* All or nothing: between calls a lock file belongs to a lease somebody
\* holds or a scheduler left behind; a refused acquire leaves none, and a
\* release none of its own.
AllOrNothing ==
    (kills = 0 /\ beat = {} /\ \A p \in Procs: at[p] = "idle") =>
        \A g \in Present: file[g].lease \in LeasesOf(holds) \cup abandoned

\* A scheduler that died between creating a lock file and filling it costs no
\* device for ever: when the sweep of an acquire is over, every lock file left
\* names a lease, whose heartbeat will age.
SweptBeforeCreating ==
    \A p \in Procs: (at[p] = "create" /\ todo[p] = Devices) =>
        \A g \in Present: file[g].lease # 0

\* Lock files tell who uses the devices: a running job has its files, and none
\* outlives those who would remove it.
LockFilesAreExact ==
    GpuTypeOK /\ RunningIsRecorded /\ AllOrNothing /\ SweptBeforeCreating
=============================================================================
