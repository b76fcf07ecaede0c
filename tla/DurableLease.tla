---------------------------- MODULE DurableLease ----------------------------
(***************************************************************************)
(* ReplacementSafeLease of platform/governance/network/lease.py.           *)
(*                                                                         *)
(* A process opens the directory the canonical path names, takes flock on  *)
(* that directory's inode, checks the durable files in it (lock record,    *)
(* lease history, fence state), publishes a new record with the next       *)
(* fence, appends it to the history and seals the fence state, in three    *)
(* writes between which it can die.  While it holds the lease the lock     *)
(* file may be replaced, truncated, linked or removed, and the directory   *)
(* itself may be moved away and another put at its path: a checkpoint must *)
(* notice.                                                                 *)
(***************************************************************************)
EXTENDS Naturals, Sequences, FiniteSets

CONSTANTS
    Procs,          \* operating-system processes
    NoProc,         \* "no process"
    Dirs,           \* directory inodes that can be at the canonical path
    HomeDir,        \* the inode there at first
    ExpectedDirs,   \* inodes that expected_parent_identity accepts
    Roots,          \* root bindings (hashes of final seals) callers ask for
    NoRoot,         \* "no root binding"
    MaxLeases,      \* bound on the number of acquisitions
    MaxChanges      \* bound on replacements by the environment

ASSUME NoProcAssumption == NoProc \notin Procs
ASSUME DirsAssumption == HomeDir \in Dirs /\ ExpectedDirs \subseteq Dirs
ASSUME RootsAssumption == NoRoot \notin Roots
ASSUME BoundsAssumption == MaxLeases \in Nat /\ MaxChanges \in Nat

VARIABLES
    canonical,  \* the inode the canonical path names
    flock,      \* the process holding LOCK_EX on each inode
    published,  \* the lease last published as lock record of each directory
    form,       \* what is at the lock file's path now, see Forms
    history,    \* the lease history of each directory
    fenceState, \* the fence state of each directory
    pc,         \* where each process is in acquire, checkpoint or release
    dir,        \* the inode its parent_fd refers to
    want,       \* the root binding it asked for
    mine,       \* the identity of the lease it is acquiring or holds
    leases,     \* how many lease identities have been drawn (fresh nonces)
    changes     \* how many replacements the environment has made

vars == <<canonical, flock, published, form, history, fenceState,
          pc, dir, want, mine, leases, changes>>

durable == <<published, form, history, fenceState>>

(***************************************************************************)
(* Data.  A nonce stands for lease_nonce, the digest and the xattr secret: *)
(* all three are drawn or computed afresh for every acquisition.           *)
(***************************************************************************)
Lease == [nonce: Nat \ {0}, fence: Nat \ {0}, root: Roots]
NoLease == [nonce |-> 0, fence |-> 0, root |-> NoRoot]

Acquired == {"lease_acquired", "lease_takeover"}
Event == [event: Acquired \cup {"lease_released"}, lease: Lease]

FenceState == [active: BOOLEAN, lease: Lease \cup {NoLease}, sequence: Nat]
NoState == [active |-> FALSE, lease |-> NoLease, sequence |-> 0]

\* intact: the file os.replace put there; absent: no such file; empty: no
\* bytes; foreign: other bytes; copy: the same bytes in another inode; clone:
\* also the same extended attribute; linked: the file with a second hard link.
Forms == {"intact", "absent", "empty", "foreign", "copy", "clone", "linked"}

PCs == {"idle", "waiting", "locked", "admitted", "published", "logged",
        "sealed", "held", "releasing"}

\* The points at which a process holds flock on its directory.
Locking == PCs \ {"idle", "waiting"}

TypeOK ==
    /\ canonical \in Dirs
    /\ flock \in [Dirs -> Procs \cup {NoProc}]
    /\ published \in [Dirs -> Lease \cup {NoLease}]
    /\ form \in [Dirs -> Forms]
    /\ history \in [Dirs -> Seq(Event)]
    /\ fenceState \in [Dirs -> FenceState]
    /\ pc \in [Procs -> PCs]
    /\ dir \in [Procs -> Dirs]
    /\ want \in [Procs -> Roots \cup {NoRoot}]
    /\ mine \in [Procs -> Lease \cup {NoLease}]
    /\ leases \in Nat
    /\ changes \in Nat

(***************************************************************************)
(* What the code reads.                                                    *)
(***************************************************************************)
\* Mutant: the history may be longer than the state says.
StateMatchesHistoryLoosely(d, root) ==
    LET s == fenceState[d] IN
    /\ s.lease.root = root
    /\ \E i \in 1..Len(history[d]): history[d][i].lease.fence = s.lease.fence

\* _validate_state_history for the directory and the caller's root binding.
StateMatchesHistory(d, root) ==
    LET s == fenceState[d] IN
    /\ s.lease.root = root
    /\ s.sequence = Len(history[d])
    /\ \A i \in 1..Len(history[d]): history[d][i].lease.fence <= s.lease.fence
    /\ \E i \in 1..Len(history[d]): history[d][i].lease.fence = s.lease.fence

\* Mutant: only a released lease can be followed by another.
AdmissibleIfReleased(d, root) ==
    IF fenceState[d].lease = NoLease
    THEN /\ history[d] = <<>>
         /\ form[d] \in {"absent", "empty"}
    ELSE /\ StateMatchesHistory(d, root)
         /\ form[d] \in {"intact", "clone"}
         /\ published[d] = fenceState[d].lease
         /\ ~fenceState[d].active

\* The checks of acquire() before it draws a new fence: a first acquisition
\* wants no history and no lock file (or the legacy empty one), a later one
\* wants the lock record and its attribute to be the ones the state names.
Admissible(d, root) ==
    IF fenceState[d].lease = NoLease
    THEN /\ history[d] = <<>>
         /\ form[d] \in {"absent", "empty"}
    ELSE /\ StateMatchesHistory(d, root)
         /\ form[d] \in {"intact", "clone"}
         /\ published[d] = fenceState[d].lease

\* Mutant: the canonical path is not compared with the held directory.
CheckpointPassesAnywhere(p) ==
    LET d == dir[p] IN
    /\ form[d] = "intact"
    /\ published[d] = mine[p]
    /\ StateMatchesHistory(d, want[p])
    /\ fenceState[d].active
    /\ fenceState[d].lease = mine[p]

\* checkpoint() does not raise.
CheckpointPasses(p) ==
    LET d == dir[p] IN
    /\ canonical = d
    /\ form[d] = "intact"
    /\ published[d] = mine[p]
    /\ StateMatchesHistory(d, want[p])
    /\ fenceState[d].active
    /\ fenceState[d].lease = mine[p]

-----------------------------------------------------------------------------
Init ==
    /\ canonical = HomeDir
    /\ flock = [d \in Dirs |-> NoProc]
    /\ published = [d \in Dirs |-> NoLease]
    /\ form \in [Dirs -> {"absent", "empty"}]
    /\ history = [d \in Dirs |-> <<>>]
    /\ fenceState = [d \in Dirs |-> NoState]
    /\ pc = [p \in Procs |-> "idle"]
    /\ dir = [p \in Procs |-> HomeDir]
    /\ want = [p \in Procs |-> NoRoot]
    /\ mine = [p \in Procs |-> NoLease]
    /\ leases = 0
    /\ changes = 0

(***************************************************************************)
(* acquire()                                                               *)
(***************************************************************************)
\* Acquisitions under way that have not drawn a nonce yet.
Waiters == {q \in Procs: pc[q] \in {"waiting", "locked"}}

\* The directory is opened and its identity compared before flock blocks.
Open(p, root) ==
    /\ pc[p] = "idle"
    /\ leases + Cardinality(Waiters) < MaxLeases
    /\ canonical \in ExpectedDirs
    /\ pc' = [pc EXCEPT ![p] = "waiting"]
    /\ dir' = [dir EXCEPT ![p] = canonical]
    /\ want' = [want EXCEPT ![p] = root]
    /\ UNCHANGED <<canonical, flock, durable, mine, leases, changes>>

Lock(p) ==
    /\ pc[p] = "waiting"
    /\ flock[dir[p]] = NoProc
    /\ flock' = [flock EXCEPT ![dir[p]] = p]
    /\ pc' = [pc EXCEPT ![p] = "locked"]
    /\ UNCHANGED <<canonical, durable, dir, want, mine, leases, changes>>

\* Mutant: the root binding is taken from the fence state, not the caller.
AdmitWithPriorRoot(p) ==
    LET prior == fenceState[dir[p]].lease IN
    /\ pc[p] = "locked"
    /\ canonical = dir[p]
    /\ Admissible(dir[p], want[p])
    /\ mine' = [mine EXCEPT ![p] = [nonce |-> leases + 1,
                                    fence |-> prior.fence + 1,
                                    root |-> prior.root]]
    /\ leases' = leases + 1
    /\ pc' = [pc EXCEPT ![p] = "admitted"]
    /\ UNCHANGED <<canonical, flock, durable, dir, want, changes>>

Admit(p) ==
    LET d == dir[p] IN
    /\ pc[p] = "locked"
    /\ canonical = d
    /\ Admissible(d, want[p])
    /\ mine' = [mine EXCEPT ![p] = [nonce |-> leases + 1,
                                    fence |-> fenceState[d].lease.fence + 1,
                                    root |-> want[p]]]
    /\ leases' = leases + 1
    /\ pc' = [pc EXCEPT ![p] = "admitted"]
    /\ UNCHANGED <<canonical, flock, durable, dir, want, changes>>

\* The handle is gone, and with it what it referred to.
Forget(p) ==
    /\ pc' = [pc EXCEPT ![p] = "idle"]
    /\ dir' = [dir EXCEPT ![p] = HomeDir]
    /\ want' = [want EXCEPT ![p] = NoRoot]
    /\ mine' = [mine EXCEPT ![p] = NoLease]
    /\ UNCHANGED <<canonical, leases, changes>>

\* Closing the descriptors drops the lock.
Close(p) ==
    /\ flock' = [flock EXCEPT ![dir[p]] = NoProc]
    /\ Forget(p)

\* Mutant: the refusal raises without unlocking.
RefuseKeepingLock(p) ==
    /\ pc[p] = "locked"
    /\ canonical # dir[p] \/ ~Admissible(dir[p], want[p])
    /\ Forget(p)
    /\ UNCHANGED <<flock, durable>>

Refuse(p) ==
    /\ pc[p] = "locked"
    /\ canonical # dir[p] \/ ~Admissible(dir[p], want[p])
    /\ Close(p)
    /\ UNCHANGED durable

Publish(p) ==
    /\ pc[p] = "admitted"
    /\ published' = [published EXCEPT ![dir[p]] = mine[p]]
    /\ form' = [form EXCEPT ![dir[p]] = "intact"]
    /\ pc' = [pc EXCEPT ![p] = "published"]
    /\ UNCHANGED <<canonical, flock, history, fenceState, dir, want, mine,
                   leases, changes>>

\* Mutant: every acquisition is logged alike.
LogAcquiredAlike(p) ==
    /\ pc[p] = "published"
    /\ history' = [history EXCEPT ![dir[p]] =
                     Append(@, [event |-> "lease_acquired", lease |-> mine[p]])]
    /\ pc' = [pc EXCEPT ![p] = "logged"]
    /\ UNCHANGED <<canonical, flock, published, form, fenceState, dir, want,
                   mine, leases, changes>>

\* A takeover is an acquisition whose predecessor never released.
LogAcquired(p) ==
    LET kind == IF fenceState[dir[p]].active THEN "lease_takeover"
                                             ELSE "lease_acquired"
    IN
    /\ pc[p] = "published"
    /\ history' = [history EXCEPT ![dir[p]] =
                     Append(@, [event |-> kind, lease |-> mine[p]])]
    /\ pc' = [pc EXCEPT ![p] = "logged"]
    /\ UNCHANGED <<canonical, flock, published, form, fenceState, dir, want,
                   mine, leases, changes>>

WriteState(p, active) ==
    fenceState' = [fenceState EXCEPT ![dir[p]] =
                     [active |-> active, lease |-> mine[p],
                      sequence |-> Len(history[dir[p]])]]

SealState(p) ==
    /\ pc[p] = "logged"
    /\ WriteState(p, TRUE)
    /\ pc' = [pc EXCEPT ![p] = "sealed"]
    /\ UNCHANGED <<canonical, flock, published, form, history, dir, want,
                   mine, leases, changes>>

\* The checkpoint "acquisition_complete": acquire() returns or raises.
Confirm(p) ==
    /\ pc[p] = "sealed"
    /\ CheckpointPasses(p)
    /\ pc' = [pc EXCEPT ![p] = "held"]
    /\ UNCHANGED <<canonical, flock, durable, dir, want, mine, leases, changes>>

FailConfirm(p) ==
    /\ pc[p] = "sealed"
    /\ ~CheckpointPasses(p)
    /\ Close(p)
    /\ UNCHANGED durable

(***************************************************************************)
(* release(), from __exit__ after success or after an exception            *)
(***************************************************************************)
LogReleased(p) ==
    /\ pc[p] = "held"
    /\ CheckpointPasses(p)
    /\ history' = [history EXCEPT ![dir[p]] =
                     Append(@, [event |-> "lease_released", lease |-> mine[p]])]
    /\ pc' = [pc EXCEPT ![p] = "releasing"]
    /\ UNCHANGED <<canonical, flock, published, form, fenceState, dir, want,
                   mine, leases, changes>>

FinishRelease(p) ==
    /\ pc[p] = "releasing"
    /\ WriteState(p, FALSE)
    /\ Close(p)
    /\ UNCHANGED <<published, form, history>>

\* The owner-safe checkpoint of release() raises: nothing is written.
LoseLease(p) ==
    /\ pc[p] = "held"
    /\ ~CheckpointPasses(p)
    /\ Close(p)
    /\ UNCHANGED durable

(***************************************************************************)
(* The environment                                                         *)
(***************************************************************************)
\* The process dies, or one of its writes raises, or abandon() is called.
Crash(p) ==
    /\ pc[p] \in Locking
    /\ Close(p)
    /\ UNCHANGED durable

\* A process waiting for flock is killed.
CrashWaiting(p) ==
    /\ pc[p] = "waiting"
    /\ Forget(p)
    /\ UNCHANGED <<flock, durable>>

ReplaceLockFile(d, f) ==
    /\ changes < MaxChanges
    /\ f # form[d]
    /\ published[d] = NoLease => f \in {"absent", "empty", "foreign"}
    /\ f # "intact" \/ form[d] = "linked"       \* a link can be removed again
    /\ f = "linked" => form[d] = "intact"
    /\ form' = [form EXCEPT ![d] = f]
    /\ changes' = changes + 1
    /\ UNCHANGED <<canonical, flock, published, history, fenceState,
                   pc, dir, want, mine, leases>>

ReplaceParent(d) ==
    /\ changes < MaxChanges
    /\ d # canonical
    /\ canonical' = d
    /\ changes' = changes + 1
    /\ UNCHANGED <<flock, durable, pc, dir, want, mine, leases>>

-----------------------------------------------------------------------------
Step(p) ==
    \/ Lock(p) \/ Admit(p) \/ Refuse(p)
    \/ Publish(p) \/ LogAcquired(p) \/ SealState(p)
    \/ Confirm(p) \/ FailConfirm(p)
    \/ LogReleased(p) \/ FinishRelease(p) \/ LoseLease(p)

Next ==
    \/ \E p \in Procs: Step(p) \/ Crash(p) \/ CrashWaiting(p)
    \/ \E p \in Procs, root \in Roots: Open(p, root)
    \/ \E d \in Dirs, f \in Forms: ReplaceLockFile(d, f)
    \/ \E d \in Dirs: ReplaceParent(d)

Spec == Init /\ [][Next]_vars

(***************************************************************************)
(* Fairness.  A process that is not killed goes on to its next statement,  *)
(* the work done under the lease ends (its only network call has a 30 s    *)
(* timeout), and the kernel serves the waiters of a flock in order, so a   *)
(* waiter to whom the lock is offered again and again gets it.             *)
(***************************************************************************)
Fairness == \A p \in Procs: WF_vars(Step(p)) /\ SF_vars(Lock(p))

FairSpec == Spec /\ Fairness

-----------------------------------------------------------------------------
(***************************************************************************)
(* Properties                                                              *)
(***************************************************************************)
\* The caller of p's lease may go on: its next checkpoint does not raise.
Valid(p) == pc[p] = "held" /\ CheckpointPasses(p)

\* However lock files and directories are replaced, two processes never both
\* pass lease.checkpoint(): the code under the lease runs alone.
AtMostOneValid == \A p, q \in Procs: Valid(p) /\ Valid(q) => p = q

\* A process that passes a checkpoint has the highest fence its directory has
\* ever granted, and the history names its lease exactly once as acquired
\* (every other acquisition has a lower fence), which is what validate_historical_lease_binding asks of evidence later.
ValidIsNewestAndRecorded ==
    \A p \in Procs: Valid(p) =>
        LET h == history[dir[p]]
            acquisitions == {i \in 1..Len(h): h[i].event \in Acquired}
        IN \E i \in acquisitions:
              /\ h[i].lease = mine[p]
              /\ \A j \in acquisitions \ {i}: h[j].lease.fence < mine[p].fence

\* The history is an audit trail one can read: the k-th acquisition has fence
\* k, a release follows the acquisition it ends, "lease_takeover" is written
\* exactly when the predecessor never released, and one directory serves one
\* root binding for ever.
HistoryReads ==
    \A d \in Dirs: \A i \in 1..Len(history[d]):
        LET h == history[d]
            event == h[i].event
            earlier == {j \in 1..i: h[j].event \in Acquired}
        IN /\ h[i].lease.fence = Cardinality(earlier)
           /\ h[i].lease.root = h[1].lease.root
           /\ event = "lease_released" => i > 1 /\ h[i - 1].event \in Acquired
                                                /\ h[i - 1].lease = h[i].lease
           /\ event = "lease_takeover" => i > 1 /\ h[i - 1].event \in Acquired
           /\ event = "lease_acquired" =>
                 i = 1 \/ h[i - 1].event = "lease_released"

\* History and leases agree: the history reads like one, and whoever works
\* under a lease is its latest acquisition.
HistoryIsAuditTrail == HistoryReads /\ ValidIsNewestAndRecorded

\* Whatever other processes do, or wherever they die, the holder's checkpoints
\* pass while nobody has touched the lock file or the directory.
HolderGoesOn ==
    \A p \in Procs: pc[p] \in {"sealed", "held"} /\ changes = 0
        => CheckpointPasses(p)

\* Somebody is between two of the durable writes of directory d.
Writing(d) == \E p \in Procs: /\ pc[p] \in {"published", "logged", "releasing"}
                              /\ dir[p] = d

\* A crash left the durable files of d disagreeing.
Torn(d) ==
    /\ ~Writing(d)
    /\ \/ fenceState[d].sequence # Len(history[d])
       \/ fenceState[d].lease \notin {NoLease, published[d]}

\* A crash outside the write windows never costs the directory: once it has
\* been sealed and is free, its root can be acquired again (as a takeover if
\* the holder died), unless files were replaced.
FreeIsAcquirable ==
    \A d \in Dirs:
        /\ flock[d] = NoProc
        /\ fenceState[d].lease # NoLease
        /\ ~Torn(d)
        /\ changes = 0
        => Admissible(d, fenceState[d].lease.root)

\* Only a replacement or a crash between two durable writes costs a lease: not
\* the holder's, and not the next one's.
NoSpuriousLoss == HolderGoesOn /\ FreeIsAcquirable

\* acquire() comes back: a process that asked for the lease gets it, is
\* refused or dies, and does not stay blocked behind other processes.
AcquireReturns ==
    \A p \in Procs: (pc[p] \notin {"idle", "held"}) ~> (pc[p] \in {"idle", "held"})

(***************************************************************************)
(* Refinement: each directory by itself is a FencedLease.  The lease is    *)
(* granted when its fence state is sealed.                                 *)
(***************************************************************************)
Owners(d) == {p \in Procs: /\ pc[p] \in {"sealed", "held", "releasing"}
                           /\ dir[p] = d}

Owner(d) == IF Owners(d) = {} THEN NoProc ELSE CHOOSE p \in Owners(d): TRUE

Abstract(d) == INSTANCE FencedLease WITH
                   owner <- Owner(d),
                   fence <- fenceState[d].lease.fence,
                   root <- fenceState[d].lease.root,
                   torn <- Torn(d)

\* Every directory behaves as a fenced lease: one owner at a time, fences
\* 1, 2, 3, ..., one root binding for ever, and no grant after a torn write.  (The conjunction over d of
\* Abstract(d)!Spec, with the quantifier inside the box.)
ImplementsFencedLease ==
    /\ \A d \in Dirs: Abstract(d)!Init
    /\ [][\A d \in Dirs: [Abstract(d)!Next]_(Abstract(d)!vars)]_vars
=============================================================================
