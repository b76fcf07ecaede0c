-------------------------- MODULE DurableLeaseProofs --------------------------
(***************************************************************************)
(* Machine-checked proofs about DurableLease, for every set of processes,  *)
(* directories and root bindings and every bound.                          *)
(***************************************************************************)
EXTENDS DurableLease, TLAPS, FiniteSetTheorems

-----------------------------------------------------------------------------
(* Type correctness                                                        *)

\* NoLease is recognised by its fence, and a real lease never has fence 0.
LEMMA LeaseFence ==
    /\ NoLease.fence = 0 /\ NoLease.nonce = 0 /\ NoLease.root = NoRoot
    /\ \A l \in Lease \cup {NoLease}: l.fence \in Nat /\ l.nonce \in Nat
    /\ \A l \in Lease: l.fence # 0 /\ l.nonce # 0 /\ l.root \in Roots
BY DEF Lease, NoLease

\* What closing a handle does keeps every variable in its type.
LEMMA CloseType ==
    ASSUME TypeOK, NEW p \in Procs, Forget(p)
    PROVE  /\ pc' \in [Procs -> PCs]
           /\ dir' \in [Procs -> Dirs]
           /\ want' \in [Procs -> Roots \cup {NoRoot}]
           /\ mine' \in [Procs -> Lease \cup {NoLease}]
           /\ canonical' \in Dirs
           /\ leases' \in Nat
           /\ changes' \in Nat
           /\ (flock' = [flock EXCEPT ![dir[p]] = NoProc] =>
                 flock' \in [Dirs -> Procs \cup {NoProc}])
BY DirsAssumption DEF TypeOK, Forget, PCs

\* While a process has work to log or seal it has a real lease in hand.
InHand == \A p \in Procs:
    pc[p] \in {"admitted", "published", "logged", "sealed", "held", "releasing"}
        => mine[p] \in Lease

\* A process past Open has a root binding.
Wanted == \A p \in Procs: pc[p] # "idle" => want[p] \in Roots

TypeInv == TypeOK /\ InHand /\ Wanted

\* Nothing has been written or opened yet: no lease is in hand or wanted.
THEOREM TypeInit == Init => TypeInv
BY DirsAssumption DEF Init, TypeInv, TypeOK, InHand, Wanted, PCs, Forms, NoState, FenceState

\* A process that closes loses its lease and its wish with it.
LEMMA CloseInv ==
    ASSUME TypeInv, NEW p \in Procs, Close(p), UNCHANGED durable
    PROVE  TypeInv'
<1>1. TypeOK'
  BY CloseType DEF TypeInv, TypeOK, Close, durable
<1>2. InHand' /\ Wanted'
  BY DEF TypeInv, TypeOK, InHand, Wanted, Close, Forget
<1>3. QED BY <1>1, <1>2 DEF TypeInv

\* Sealing a fence state writes one of the right type.
LEMMA WriteStateType ==
    ASSUME TypeOK, NEW p \in Procs, NEW active \in BOOLEAN,
           mine[p] \in Lease, WriteState(p, active)
    PROVE  fenceState' \in [Dirs -> FenceState]
<1>1. dir[p] \in Dirs /\ history[dir[p]] \in Seq(Event)
  BY DEF TypeOK
<1>2. Len(history[dir[p]]) \in Nat
  BY <1>1
<1>3. [active |-> active, lease |-> mine[p], sequence |-> Len(history[dir[p]])]
        \in FenceState
  BY <1>2 DEF FenceState
<1>4. QED BY <1>1, <1>3 DEF TypeOK, WriteState

\* Every open, grant, checkpoint, close, crash and replacement of files keeps the
\* types and what a process has in hand.
THEOREM TypeStep == TypeInv /\ [Next]_vars => TypeInv'
<1> SUFFICES ASSUME TypeInv, [Next]_vars PROVE TypeInv'
  OBVIOUS
<1> USE DEF TypeInv
<1>1. ASSUME NEW p \in Procs, NEW root \in Roots, Open(p, root) PROVE TypeInv'
  BY <1>1 DEF Open, TypeOK, InHand, Wanted, PCs, durable
<1>2. ASSUME NEW p \in Procs, Lock(p) PROVE TypeInv'
  BY <1>2 DEF Lock, TypeOK, InHand, Wanted, PCs, durable
<1>3. ASSUME NEW p \in Procs, Admit(p) PROVE TypeInv'
  <2> DEFINE fresh == [nonce |-> leases + 1,
                       fence |-> fenceState[dir[p]].lease.fence + 1,
                       root |-> want[p]]
  <2>1. fenceState[dir[p]].lease \in Lease \cup {NoLease}
    BY DEF TypeOK, FenceState
  <2>2. fresh \in Lease
    BY <1>3, <2>1, LeaseFence DEF Admit, TypeOK, Wanted, Lease
  <2>3. mine' = [mine EXCEPT ![p] = fresh]
    BY <1>3 DEF Admit
  <2> HIDE DEF fresh
  <2>4. QED BY <1>3, <2>2, <2>3 DEF Admit, TypeOK, InHand, Wanted, PCs, durable
<1>4. ASSUME NEW p \in Procs, Refuse(p) PROVE TypeInv'
  BY <1>4, CloseInv DEF Refuse
<1>5. ASSUME NEW p \in Procs, Publish(p) PROVE TypeInv'
  BY <1>5 DEF Publish, TypeOK, InHand, Wanted, PCs, Forms
<1>6. ASSUME NEW p \in Procs, LogAcquired(p) PROVE TypeInv'
  <2> DEFINE kind == IF fenceState[dir[p]].active THEN "lease_takeover"
                                                  ELSE "lease_acquired"
             row == [event |-> kind, lease |-> mine[p]]
  <2>1. row \in Event
    BY <1>6 DEF LogAcquired, InHand, Event, Acquired
  <2>2. history' = [history EXCEPT ![dir[p]] = Append(@, row)]
    BY <1>6 DEF LogAcquired
  <2> HIDE DEF row
  <2>3. history' \in [Dirs -> Seq(Event)]
    BY <2>1, <2>2 DEF TypeOK
  <2>4. QED BY <1>6, <2>3 DEF LogAcquired, TypeOK, InHand, Wanted, PCs
<1>7. ASSUME NEW p \in Procs, SealState(p) PROVE TypeInv'
  <2>1. fenceState' \in [Dirs -> FenceState]
    BY <1>7, WriteStateType DEF SealState, InHand
  <2>2. QED BY <1>7, <2>1 DEF SealState, TypeOK, InHand, Wanted, PCs
<1>8. ASSUME NEW p \in Procs, Confirm(p) PROVE TypeInv'
  BY <1>8 DEF Confirm, TypeOK, InHand, Wanted, PCs, durable
<1>9. ASSUME NEW p \in Procs, FailConfirm(p) PROVE TypeInv'
  BY <1>9, CloseInv DEF FailConfirm
<1>10. ASSUME NEW p \in Procs, LogReleased(p) PROVE TypeInv'
  <2> DEFINE row == [event |-> "lease_released", lease |-> mine[p]]
  <2>1. row \in Event
    BY <1>10 DEF LogReleased, InHand, Event, Acquired
  <2>2. history' = [history EXCEPT ![dir[p]] = Append(@, row)]
    BY <1>10 DEF LogReleased
  <2> HIDE DEF row
  <2>3. history' \in [Dirs -> Seq(Event)]
    BY <2>1, <2>2 DEF TypeOK
  <2>4. QED BY <1>10, <2>3 DEF LogReleased, TypeOK, InHand, Wanted, PCs
<1>11. ASSUME NEW p \in Procs, FinishRelease(p) PROVE TypeInv'
  <2>1. fenceState' \in [Dirs -> FenceState]
    BY <1>11, WriteStateType DEF FinishRelease, InHand
  <2>2. TypeOK'
    BY <1>11, <2>1, CloseType DEF FinishRelease, Close, TypeOK
  <2>3. InHand' /\ Wanted'
    BY <1>11 DEF FinishRelease, TypeOK, InHand, Wanted, Close, Forget
  <2>4. QED BY <2>2, <2>3
<1>12. ASSUME NEW p \in Procs, LoseLease(p) PROVE TypeInv'
  BY <1>12, CloseInv DEF LoseLease
<1>13. ASSUME NEW p \in Procs, Crash(p) PROVE TypeInv'
  BY <1>13, CloseInv DEF Crash
<1>14. ASSUME NEW p \in Procs, CrashWaiting(p) PROVE TypeInv'
  <2>1. TypeOK'
    BY <1>14, CloseType DEF CrashWaiting, durable, TypeOK
  <2>2. InHand' /\ Wanted'
    BY <1>14 DEF CrashWaiting, TypeOK, InHand, Wanted, Forget
  <2>3. QED BY <2>1, <2>2
<1>15. ASSUME NEW d \in Dirs, NEW f \in Forms, ReplaceLockFile(d, f) PROVE TypeInv'
  BY <1>15 DEF ReplaceLockFile, TypeOK, InHand, Wanted
<1>16. ASSUME NEW d \in Dirs, ReplaceParent(d) PROVE TypeInv'
  BY <1>16 DEF ReplaceParent, TypeOK, InHand, Wanted, durable
<1>17. CASE UNCHANGED vars
  BY <1>17 DEF vars, durable, TypeOK, InHand, Wanted
<1>18. QED
  BY <1>1, <1>2, <1>3, <1>4, <1>5, <1>6, <1>7, <1>8, <1>9, <1>10, <1>11,
     <1>12, <1>13, <1>14, <1>15, <1>16, <1>17 DEF Next, Step

\* Every reachable state is of the declared type, whatever the bounds.
THEOREM TypeCorrect == Spec => []TypeOK
<1>1. Spec => []TypeInv
  BY TypeInit, TypeStep, PTL DEF Spec
<1>2. TypeInv => TypeOK
  BY DEF TypeInv
<1>3. QED BY <1>1, <1>2, PTL

-----------------------------------------------------------------------------
(* Mutual exclusion                                                        *)

\* A process past flock is the one the directory's lock belongs to.
FlockInv == \A p \in Procs: pc[p] \in Locking => flock[dir[p]] = p

\* What the durable files of a directory say when nobody is writing them and
\* no crash has torn them.
Coherent(d) ==
    /\ fenceState[d].sequence = Len(history[d])
    /\ fenceState[d].lease \in {NoLease, published[d]}

\* What a process past the admission checks relies on, step by step.
ProgressInv == \A p \in Procs:
    LET d == dir[p] IN
    /\ pc[p] \in {"admitted", "published", "logged"} =>
         /\ mine[p].fence = fenceState[d].lease.fence + 1
         /\ fenceState[d].lease.root \in {NoRoot, mine[p].root}
    /\ pc[p] = "admitted" => Coherent(d)
    /\ pc[p] \in {"published", "logged", "sealed", "held", "releasing"} =>
         published[d] = mine[p]
    /\ pc[p] \in {"sealed", "held", "releasing"} => fenceState[d].lease = mine[p]
    /\ pc[p] \in {"sealed", "held"} => fenceState[d].sequence = Len(history[d])

\* A fence state without a lease is the absent one.
Unsealed == \A d \in Dirs:
    fenceState[d].lease = NoLease => fenceState[d].sequence = 0

SafeInv == TypeInv /\ FlockInv /\ Unsealed /\ ProgressInv

LEMMA SafeInit == Init => SafeInv
<1> SUFFICES ASSUME Init PROVE SafeInv
  OBVIOUS
<1>1. TypeInv
  BY TypeInit
<1>2. FlockInv /\ ProgressInv
  BY DEF Init, FlockInv, ProgressInv, Locking
<1>3. Unsealed
  BY DEF Init, Unsealed, NoState
<1>4. QED BY <1>1, <1>2, <1>3 DEF SafeInv

\* Two processes past flock are in different directories.
LEMMA Apart ==
    ASSUME TypeOK, FlockInv, NEW p \in Procs, NEW q \in Procs,
           pc[p] \in Locking, pc[q] \in Locking, p # q
    PROVE  dir[p] # dir[q]
BY DEF FlockInv

\* Whoever has the handle closed keeps the locks of all others.
LEMMA CloseFlock ==
    ASSUME TypeOK, FlockInv, NEW p \in Procs, pc[p] \in Locking, Close(p)
    PROVE  FlockInv'
<1> SUFFICES ASSUME NEW q \in Procs, pc'[q] \in Locking
             PROVE  flock'[dir'[q]] = q
  BY DEF FlockInv
<1>1. q # p
  BY DEF Close, Forget, TypeOK, Locking
<1>2. pc[q] \in Locking /\ dir'[q] = dir[q] /\ flock[dir[q]] = q
  BY <1>1 DEF Close, Forget, TypeOK, FlockInv
<1>3. dir[q] # dir[p]
  BY <1>1, <1>2, Apart
<1>4. QED BY <1>2, <1>3 DEF Close, TypeOK

LEMMA FlockStep == ASSUME TypeInv, FlockInv, [Next]_vars PROVE FlockInv'
<1>1. ASSUME NEW p \in Procs, NEW root \in Roots, Open(p, root) PROVE FlockInv'
  BY <1>1 DEF Open, TypeInv, TypeOK, FlockInv, Locking
<1>2. ASSUME NEW p \in Procs, Lock(p) PROVE FlockInv'
  BY <1>2, NoProcAssumption DEF Lock, TypeInv, TypeOK, FlockInv, Locking
<1>3. ASSUME NEW p \in Procs, Admit(p) \/ Publish(p) \/ LogAcquired(p)
                              \/ SealState(p) \/ Confirm(p) \/ LogReleased(p)
      PROVE  FlockInv'
  <2>1. /\ pc[p] \in Locking /\ flock' = flock /\ dir' = dir
        /\ \E to \in PCs: pc' = [pc EXCEPT ![p] = to]
    <3>1. CASE Admit(p)
      BY <3>1 DEF Admit, Locking, PCs
    <3>2. CASE Publish(p)
      BY <3>2 DEF Publish, Locking, PCs
    <3>3. CASE LogAcquired(p)
      BY <3>3 DEF LogAcquired, Locking, PCs
    <3>4. CASE SealState(p)
      BY <3>4 DEF SealState, Locking, PCs
    <3>5. CASE Confirm(p)
      BY <3>5 DEF Confirm, Locking, PCs
    <3>6. CASE LogReleased(p)
      BY <3>6 DEF LogReleased, Locking, PCs
    <3>7. QED BY <1>3, <3>1, <3>2, <3>3, <3>4, <3>5, <3>6
  <2>2. \A q \in Procs: q # p => pc'[q] = pc[q]
    BY <2>1 DEF TypeInv, TypeOK
  <2>3. QED BY <2>1, <2>2 DEF FlockInv
<1>4. ASSUME NEW p \in Procs, Refuse(p) \/ FailConfirm(p) \/ FinishRelease(p)
                              \/ LoseLease(p) \/ Crash(p)
      PROVE  FlockInv'
  BY <1>4, CloseFlock DEF Refuse, FailConfirm, FinishRelease, LoseLease, Crash,
                          TypeInv, Locking, PCs
<1>5. ASSUME NEW p \in Procs, CrashWaiting(p) PROVE FlockInv'
  BY <1>5 DEF CrashWaiting, Forget, TypeInv, TypeOK, FlockInv, Locking
<1>6. ASSUME NEW d \in Dirs, NEW f \in Forms, ReplaceLockFile(d, f) PROVE FlockInv'
  BY <1>6 DEF ReplaceLockFile, FlockInv
<1>7. ASSUME NEW d \in Dirs, ReplaceParent(d) PROVE FlockInv'
  BY <1>7 DEF ReplaceParent, FlockInv
<1>8. CASE UNCHANGED vars
  BY <1>8 DEF vars, FlockInv
<1>9. QED
  BY <1>1, <1>2, <1>3, <1>4, <1>5, <1>6, <1>7, <1>8 DEF Next, Step

\* Two processes never both pass a checkpoint, whatever happens to the lock
\* file and the directory.
THEOREM MutualExclusion == Spec => []AtMostOneValid
<1>1. TypeInv /\ FlockInv => AtMostOneValid
  <2> SUFFICES ASSUME FlockInv, NEW p \in Procs, NEW q \in Procs,
                      Valid(p), Valid(q)
               PROVE  p = q
    BY DEF AtMostOneValid
  <2>1. dir[p] = canonical /\ dir[q] = canonical
    BY DEF Valid, CheckpointPasses
  <2>2. pc[p] \in Locking /\ pc[q] \in Locking
    BY DEF Valid, Locking, PCs
  <2>3. QED BY <2>1, <2>2 DEF FlockInv
<1>2. Init => TypeInv /\ FlockInv
  BY SafeInit DEF SafeInv
<1>3. TypeInv /\ FlockInv /\ [Next]_vars => (TypeInv /\ FlockInv)'
  BY TypeStep, FlockStep
<1>4. QED BY <1>1, <1>2, <1>3, PTL DEF Spec

-----------------------------------------------------------------------------
(* What a process past the admission checks relies on is stable.           *)

\* Two directories' worth of files are independent: a step of one process
\* keeps ProgressInv if it keeps the files of all other directories and
\* establishes the process's own part of the invariant.
ProgressOf(p) ==
    LET d == dir[p] IN
    /\ pc[p] \in {"admitted", "published", "logged"} =>
         /\ mine[p].fence = fenceState[d].lease.fence + 1
         /\ fenceState[d].lease.root \in {NoRoot, mine[p].root}
    /\ pc[p] = "admitted" => Coherent(d)
    /\ pc[p] \in {"published", "logged", "sealed", "held", "releasing"} =>
         published[d] = mine[p]
    /\ pc[p] \in {"sealed", "held", "releasing"} => fenceState[d].lease = mine[p]
    /\ pc[p] \in {"sealed", "held"} => fenceState[d].sequence = Len(history[d])

\* The durable files that ProgressInv is about, of one directory.
Files(d) == <<published[d], fenceState[d], history[d]>>

\* A step of p that writes at most its own directory leaves q's part alone.
LEMMA OthersProgress ==
    ASSUME TypeOK, FlockInv, ProgressInv,
           NEW p \in Procs, NEW q \in Procs, p # q, pc[p] \in Locking,
           pc'[q] = pc[q], dir'[q] = dir[q], mine'[q] = mine[q],
           \A d \in Dirs: d # dir[p] => UNCHANGED Files(d)
    PROVE  ProgressOf(q)'
<1>1. CASE pc[q] \in Locking
  <2>1. dir[q] # dir[p] /\ dir[q] \in Dirs
    BY <1>1, Apart DEF TypeOK
  <2>2. UNCHANGED Files(dir[q])
    BY <2>1
  <2>3. ProgressOf(q)
    BY DEF ProgressInv, ProgressOf
  <2>4. QED BY <2>2, <2>3 DEF ProgressOf, Files, Coherent
<1>2. CASE pc[q] \notin Locking
  BY <1>2 DEF ProgressOf, Locking, PCs
<1>3. QED BY <1>1, <1>2

LEMMA UnsealedStep == ASSUME TypeInv, Unsealed, [Next]_vars PROVE Unsealed'
<1>1. CASE UNCHANGED fenceState
  BY <1>1 DEF Unsealed
<1>2. ASSUME NEW p \in Procs, NEW active \in BOOLEAN, mine[p] \in Lease,
             WriteState(p, active)
      PROVE  Unsealed'
  <2> SUFFICES ASSUME NEW d \in Dirs, fenceState'[d].lease = NoLease
               PROVE  fenceState'[d].sequence = 0
    BY DEF Unsealed
  <2>1. d # dir[p]
    BY <1>2, LeaseFence DEF WriteState, TypeInv, TypeOK
  <2>2. fenceState'[d] = fenceState[d]
    BY <1>2, <2>1 DEF WriteState, TypeInv, TypeOK
  <2>3. QED BY <2>2 DEF Unsealed
<1>3. ASSUME NEW p \in Procs, SealState(p) \/ FinishRelease(p)
      PROVE  Unsealed'
  BY <1>2, <1>3 DEF SealState, FinishRelease, TypeInv, InHand
<1>4. QED
  BY <1>1, <1>3 DEF Next, Step, vars, durable, Open, Lock, Admit, Refuse, Publish,
     LogAcquired, Confirm, FailConfirm, LogReleased, LoseLease, Crash,
     CrashWaiting, ReplaceLockFile, ReplaceParent

LEMMA ProgressStep ==
    ASSUME TypeInv, FlockInv, Unsealed, ProgressInv, [Next]_vars
    PROVE  ProgressInv'
<1> USE DEF TypeInv
<1>a. (\A p \in Procs: ProgressOf(p)') => ProgressInv'
  BY DEF ProgressInv, ProgressOf
<1>b. \A p \in Procs: ProgressOf(p)
  BY DEF ProgressInv, ProgressOf
<1> USE DEF ProgressOf
<1>1. ASSUME NEW p \in Procs, NEW root \in Roots, Open(p, root) PROVE ProgressInv'
  <2> SUFFICES ASSUME NEW q \in Procs PROVE ProgressOf(q)'
    BY <1>a
  <2>1. QED BY <1>1, <1>b DEF Open, TypeOK, Coherent, durable
<1>2. ASSUME NEW p \in Procs, Lock(p) PROVE ProgressInv'
  <2> SUFFICES ASSUME NEW q \in Procs PROVE ProgressOf(q)'
    BY <1>a
  <2>1. QED BY <1>2, <1>b DEF Lock, TypeOK, Coherent, durable
<1>3. ASSUME NEW p \in Procs, Admit(p) PROVE ProgressInv'
  <2> SUFFICES ASSUME NEW q \in Procs PROVE ProgressOf(q)'
    BY <1>a
  <2>1. CASE q = p
    <3>1. pc'[q] = "admitted" /\ dir' = dir /\ UNCHANGED durable
      BY <1>3, <2>1 DEF Admit, TypeOK
    <3>2. mine'[q].fence = fenceState[dir[q]].lease.fence + 1
          /\ fenceState[dir[q]].lease.root \in {NoRoot, mine'[q].root}
      BY <1>3, <2>1, LeaseFence
         DEF Admit, Admissible, StateMatchesHistory, TypeOK
    <3>3. Coherent(dir[q])
      <4>1. CASE fenceState[dir[q]].lease = NoLease
        BY <1>3, <2>1, <4>1 DEF Admit, Admissible, Coherent, Unsealed, TypeOK
      <4>2. CASE fenceState[dir[q]].lease # NoLease
        BY <1>3, <2>1, <4>2 DEF Admit, Admissible, Coherent, StateMatchesHistory
      <4>3. QED BY <4>1, <4>2
    <3>4. QED BY <3>1, <3>2, <3>3 DEF Coherent, durable
  <2>2. CASE q # p
    BY <1>3, <2>2, <1>b DEF Admit, TypeOK, Coherent, durable
  <2>3. QED BY <2>1, <2>2
<1>4. ASSUME NEW p \in Procs, Close(p), pc[p] \in Locking,
             \A d \in Dirs: d # dir[p] => UNCHANGED Files(d)
      PROVE  ProgressInv'
  <2> SUFFICES ASSUME NEW q \in Procs PROVE ProgressOf(q)'
    BY <1>a
  <2>1. CASE q = p
    BY <1>4, <2>1 DEF Close, Forget, TypeOK
  <2>2. CASE q # p
    BY <1>4, <2>2, OthersProgress DEF Close, Forget, TypeOK
  <2>3. QED BY <2>1, <2>2
<1>5. ASSUME NEW p \in Procs,
             Refuse(p) \/ FailConfirm(p) \/ LoseLease(p) \/ Crash(p)
      PROVE  ProgressInv'
  BY <1>4, <1>5 DEF Refuse, FailConfirm, LoseLease, Crash, Locking, PCs,
                    durable, Files
<1>6. ASSUME NEW p \in Procs, FinishRelease(p) PROVE ProgressInv'
  <2>1. \A d \in Dirs: d # dir[p] => UNCHANGED Files(d)
    BY <1>6 DEF FinishRelease, WriteState, Files, TypeOK
  <2>2. QED BY <1>4, <1>6, <2>1 DEF FinishRelease, Locking, PCs
<1>7. ASSUME NEW p \in Procs, pc[p] \in Locking,
             \A q \in Procs \ {p}: pc'[q] = pc[q], dir' = dir, mine' = mine,
             \A d \in Dirs: d # dir[p] => UNCHANGED Files(d),
             ProgressOf(p)'
      PROVE  ProgressInv'
  <2> SUFFICES ASSUME NEW q \in Procs, q # p PROVE ProgressOf(q)'
    BY <1>a, <1>7
  <2>1. QED BY <1>7, OthersProgress
<1>8. ASSUME NEW p \in Procs, Publish(p) PROVE ProgressInv'
  <2>1. pc'[p] = "published" /\ dir' = dir /\ mine' = mine
        /\ UNCHANGED <<fenceState, history>> /\ published'[dir[p]] = mine[p]
    BY <1>8 DEF Publish, TypeOK
  <2>2. \A d \in Dirs: d # dir[p] => UNCHANGED Files(d)
    BY <1>8 DEF Publish, Files, TypeOK
  <2>3. ProgressOf(p)'
    BY <1>8, <1>b, <2>1 DEF Publish
  <2>4. QED BY <1>7, <1>8, <2>1, <2>2, <2>3 DEF Publish, Locking, PCs, TypeOK
<1>9. ASSUME NEW p \in Procs, LogAcquired(p) PROVE ProgressInv'
  <2>1. pc'[p] = "logged" /\ dir' = dir /\ mine' = mine
        /\ UNCHANGED <<fenceState, published>>
    BY <1>9 DEF LogAcquired, TypeOK
  <2>2. \A d \in Dirs: d # dir[p] => UNCHANGED Files(d)
    BY <1>9 DEF LogAcquired, Files, TypeOK
  <2>3. ProgressOf(p)'
    BY <1>9, <1>b, <2>1 DEF LogAcquired
  <2>4. QED BY <1>7, <1>9, <2>1, <2>2, <2>3 DEF LogAcquired, Locking, PCs, TypeOK
<1>10. ASSUME NEW p \in Procs, SealState(p) PROVE ProgressInv'
  <2>1. pc'[p] = "sealed" /\ dir' = dir /\ mine' = mine
        /\ UNCHANGED <<history, published>>
        /\ fenceState'[dir[p]].lease = mine[p]
        /\ fenceState'[dir[p]].sequence = Len(history[dir[p]])
    BY <1>10 DEF SealState, WriteState, TypeOK
  <2>2. \A d \in Dirs: d # dir[p] => UNCHANGED Files(d)
    BY <1>10 DEF SealState, WriteState, Files, TypeOK
  <2>3. ProgressOf(p)'
    BY <1>10, <1>b, <2>1 DEF SealState
  <2>4. QED BY <1>7, <1>10, <2>1, <2>2, <2>3 DEF SealState, Locking, PCs, TypeOK
<1>11. ASSUME NEW p \in Procs, Confirm(p) PROVE ProgressInv'
  <2>1. pc'[p] = "held" /\ dir' = dir /\ mine' = mine /\ UNCHANGED durable
    BY <1>11 DEF Confirm, TypeOK
  <2>2. ProgressOf(p)'
    BY <1>11, <1>b, <2>1 DEF Confirm, durable
  <2>3. QED BY <1>7, <1>11, <2>1, <2>2 DEF Confirm, Locking, PCs, TypeOK, durable, Files
<1>12. ASSUME NEW p \in Procs, LogReleased(p) PROVE ProgressInv'
  <2>1. pc'[p] = "releasing" /\ dir' = dir /\ mine' = mine
        /\ UNCHANGED <<fenceState, published>>
    BY <1>12 DEF LogReleased, TypeOK
  <2>2. \A d \in Dirs: d # dir[p] => UNCHANGED Files(d)
    BY <1>12 DEF LogReleased, Files, TypeOK
  <2>3. ProgressOf(p)'
    BY <1>12, <1>b, <2>1 DEF LogReleased
  <2>4. QED BY <1>7, <1>12, <2>1, <2>2, <2>3 DEF LogReleased, Locking, PCs, TypeOK
<1>13. ASSUME NEW p \in Procs, CrashWaiting(p) PROVE ProgressInv'
  <2> SUFFICES ASSUME NEW q \in Procs PROVE ProgressOf(q)'
    BY <1>a
  <2>1. QED BY <1>13, <1>b DEF CrashWaiting, Forget, TypeOK, Coherent, durable
<1>14. ASSUME UNCHANGED <<pc, dir, mine, published, fenceState, history>>
       PROVE  ProgressInv'
  BY <1>14 DEF ProgressInv, Coherent
<1>15. ASSUME NEW d \in Dirs, NEW f \in Forms,
              ReplaceLockFile(d, f) \/ ReplaceParent(d)
       PROVE  ProgressInv'
  BY <1>14, <1>15 DEF ReplaceLockFile, ReplaceParent, durable
<1>16. CASE UNCHANGED vars
  BY <1>14, <1>16 DEF vars, durable
<1>17. QED
  BY <1>1, <1>2, <1>3, <1>5, <1>6, <1>8, <1>9, <1>10, <1>11, <1>12, <1>13,
     <1>15, <1>16, DirsAssumption DEF Next, Step, Forms

\* The invariant about the locks, the durable fence and the calls in progress
\* holds in every state.
THEOREM SafeInvariant == Spec => []SafeInv
<1>1. SafeInv /\ [Next]_vars => SafeInv'
  BY TypeStep, FlockStep, UnsealedStep, ProgressStep DEF SafeInv
<1>2. QED BY SafeInit, <1>1, PTL DEF Spec

-----------------------------------------------------------------------------
(* Every directory is a fenced lease.                                      *)

AbstractNext(d) == [Abstract(d)!Next]_(Abstract(d)!vars)

\* The owner of a directory, if there is one, is the process in its lock.
LEMMA OwnerIs ==
    ASSUME TypeOK, FlockInv, NEW d \in Dirs, NEW p \in Procs,
           dir[p] = d, pc[p] \in {"sealed", "held", "releasing"}
    PROVE  Owner(d) = p
<1>1. p \in Owners(d)
  BY DEF Owners
<1>2. \A q \in Owners(d): q = p
  BY Apart DEF Owners, Locking, PCs
<1>3. QED BY <1>1, <1>2 DEF Owner

\* The abstract steps, in terms of the detailed state.
LEMMA Quiet ==
    ASSUME NEW d \in Dirs, UNCHANGED <<Owner(d), Torn(d), fenceState[d].lease>>
    PROVE  AbstractNext(d)
BY DEF AbstractNext, Abstract!vars

LEMMA Granting ==
    ASSUME NEW d \in Dirs, NEW p \in Procs, NEW r \in Roots,
           fenceState[d].lease.root \in {NoRoot, r}, fenceState'[d].lease.root = r,
           Owner(d) = NoProc, Owner(d)' = p, Torn(d) = FALSE, Torn(d)' = FALSE,
           fenceState'[d].lease.fence = fenceState[d].lease.fence + 1
    PROVE  AbstractNext(d)
BY DEF AbstractNext, Abstract!Next, Abstract!Grant

LEMMA Dropping ==
    ASSUME NEW d \in Dirs, NEW p \in Procs, Owner(d) = p, Owner(d)' = NoProc,
           UNCHANGED <<Torn(d), fenceState[d].lease>>
    PROVE  AbstractNext(d)
BY DEF AbstractNext, Abstract!Next, Abstract!Drop

LEMMA Tearing ==
    ASSUME NEW d \in Dirs, Torn(d) = FALSE, Torn(d)' = TRUE, Owner(d)' = NoProc,
           UNCHANGED fenceState[d].lease
    PROVE  AbstractNext(d)
BY DEF AbstractNext, Abstract!Next, Abstract!Tear

\* Nothing changes for a directory whose files, owners and writers stay.
LEMMA Unaffected ==
    ASSUME NEW d \in Dirs,
           Owners(d)' = Owners(d), Writing(d)' = Writing(d), UNCHANGED Files(d)
    PROVE  AbstractNext(d)
<1>1. UNCHANGED Owner(d)
  BY DEF Owner
<1>2. UNCHANGED Torn(d)
  BY DEF Torn, Files
<1>3. QED BY <1>1, <1>2, Quiet DEF Files

\* A step of p elsewhere.
LEMMA Elsewhere ==
    ASSUME TypeOK, NEW p \in Procs, NEW d \in Dirs, d # dir[p],
           UNCHANGED Files(d),
           \A q \in Procs \ {p}: pc'[q] = pc[q] /\ dir'[q] = dir[q],
           dir'[p] = dir[p] \/ pc'[p] \in {"idle", "waiting"}
    PROVE  AbstractNext(d)
<1>1. Owners(d)' = Owners(d)
  BY DEF Owners
<1>2. Writing(d)' = Writing(d)
  BY DEF Writing
<1>3. QED BY <1>1, <1>2, Unaffected

\* Only the process in the lock of a directory can own or be writing it.
LEMMA Sole ==
    ASSUME TypeOK, FlockInv, NEW p \in Procs, pc[p] \in Locking
    PROVE  /\ Owners(dir[p]) \subseteq {p}
           /\ Writing(dir[p]) => pc[p] \in {"published", "logged", "releasing"}
BY Apart DEF Owners, Writing, Locking, PCs

\* Closing a handle drops, tears or changes nothing in its directory.
LEMMA Closing ==
    ASSUME TypeOK, FlockInv, NEW p \in Procs, pc[p] \in Locking, Close(p),
           NEW d \in Dirs, d = dir[p],
           UNCHANGED fenceState[d].lease,
           Torn(d) => Torn(d)'
    PROVE  AbstractNext(d)
<1>1. Owners(d)' = {}
  <2> SUFFICES ASSUME NEW q \in Procs,
                      pc'[q] \in {"sealed", "held", "releasing"}, dir'[q] = d
               PROVE  FALSE
    BY DEF Owners
  <2>1. q # p
    BY DEF Close, Forget, TypeOK
  <2>2. pc[q] \in Locking /\ dir[q] = d
    BY <2>1 DEF Close, Forget, TypeOK, Locking, PCs
  <2>3. QED BY <2>1, <2>2, Apart
<1>2. Owner(d)' = NoProc
  BY <1>1 DEF Owner
<1>3. Owner(d) \in {NoProc, p}
  BY Sole DEF Owner
<1>4. Torn(d) \in BOOLEAN /\ Torn(d)' \in BOOLEAN
  BY DEF Torn
<1>5. CASE Torn(d)' = Torn(d)
  <2>1. CASE Owner(d) = p
    BY <1>2, <1>5, <2>1, Dropping
  <2>2. CASE Owner(d) = NoProc
    BY <1>2, <1>5, <2>2, Quiet
  <2>3. QED BY <1>3, <2>1, <2>2
<1>6. CASE Torn(d)' # Torn(d)
  BY <1>2, <1>4, <1>6, Tearing
<1>7. QED BY <1>5, <1>6

\* A crash or a refusal leaves torn files torn.
LEMMA TornStays ==
    ASSUME TypeOK, FlockInv, NEW p \in Procs, pc[p] \in Locking, Close(p),
           NEW d \in Dirs, d = dir[p], UNCHANGED durable, Torn(d)
    PROVE  Torn(d)'
<1>1. ~Writing(d)'
  <2> SUFFICES ASSUME NEW q \in Procs, dir'[q] = d,
                      pc'[q] \in {"published", "logged", "releasing"}
               PROVE  FALSE
    BY DEF Writing
  <2>1. q # p
    BY DEF Close, Forget, TypeOK
  <2>2. dir[q] = d /\ pc[q] \in Locking
    BY <2>1 DEF Close, Forget, TypeOK, Locking, PCs
  <2>3. QED BY <2>1, <2>2, Apart
<1>2. QED BY <1>1 DEF Torn, durable

LEMMA RefinementStep ==
    ASSUME SafeInv, [Next]_vars, NEW d \in Dirs
    PROVE  AbstractNext(d)
<1> USE DEF SafeInv, TypeInv
<1>p. \A p \in Procs: ProgressOf(p)
  BY DEF ProgressInv, ProgressOf
\* Steps that neither own nor write before and after.
<1>1. ASSUME NEW p \in Procs, UNCHANGED durable,
             \A q \in Procs \ {p}: pc'[q] = pc[q] /\ dir'[q] = dir[q],
             pc[p] \in {"idle", "waiting", "locked", "admitted"},
             pc'[p] \in {"idle", "waiting", "locked", "admitted"}
      PROVE  AbstractNext(d)
  <2>1. Owners(d)' = Owners(d)
    BY <1>1 DEF Owners
  <2>2. Writing(d)' = Writing(d)
    BY <1>1 DEF Writing
  <2>3. QED BY <1>1, <2>1, <2>2, Unaffected DEF durable, Files
<1>2. ASSUME NEW p \in Procs, NEW root \in Roots,
             Open(p, root) \/ Lock(p) \/ Admit(p) \/ CrashWaiting(p)
      PROVE  AbstractNext(d)
  BY <1>1, <1>2 DEF Open, Lock, Admit, CrashWaiting, Forget, TypeOK
<1>3. ASSUME NEW p \in Procs, pc[p] \in Locking, Close(p), UNCHANGED durable
      PROVE  AbstractNext(d)
  <2>1. CASE d = dir[p]
    BY <1>3, <2>1, Closing, TornStays DEF durable
  <2>2. CASE d # dir[p]
    BY <1>3, <2>2, Elsewhere DEF Close, Forget, TypeOK, durable, Files
  <2>3. QED BY <2>1, <2>2
<1>4. ASSUME NEW p \in Procs,
             Refuse(p) \/ FailConfirm(p) \/ LoseLease(p) \/ Crash(p)
      PROVE  AbstractNext(d)
  BY <1>3, <1>4 DEF Refuse, FailConfirm, LoseLease, Crash, Locking, PCs
<1>5. ASSUME NEW p \in Procs, Publish(p) PROVE AbstractNext(d)
  <2>1. CASE d # dir[p]
    BY <1>5, <2>1, Elsewhere DEF Publish, TypeOK, Files
  <2>2. CASE d = dir[p]
    <3>1. Owners(d)' = Owners(d)
      BY <1>5 DEF Publish, Owners, TypeOK
    <3>2. Torn(d) = FALSE
      BY <1>5, <1>p, <2>2 DEF Publish, ProgressOf, Coherent, Torn
    <3>3. Torn(d)' = FALSE
      BY <1>5, <2>2 DEF Publish, Torn, Writing, TypeOK
    <3>4. UNCHANGED fenceState[d].lease
      BY <1>5 DEF Publish
    <3>5. UNCHANGED Owner(d)
      BY <3>1 DEF Owner
    <3>6. QED BY <3>2, <3>3, <3>4, <3>5, Quiet
  <2>3. QED BY <2>1, <2>2
<1>6. ASSUME NEW p \in Procs, LogAcquired(p) PROVE AbstractNext(d)
  <2>1. CASE d # dir[p]
    BY <1>6, <2>1, Elsewhere DEF LogAcquired, TypeOK, Files
  <2>2. CASE d = dir[p]
    <3>1. Owners(d)' = Owners(d)
      BY <1>6 DEF LogAcquired, Owners, TypeOK
    <3>2. Torn(d) = FALSE
      BY <1>6, <2>2 DEF LogAcquired, Torn, Writing
    <3>3. Torn(d)' = FALSE
      BY <1>6, <2>2 DEF LogAcquired, Torn, Writing, TypeOK
    <3>4. UNCHANGED fenceState[d].lease
      BY <1>6 DEF LogAcquired
    <3>5. UNCHANGED Owner(d)
      BY <3>1 DEF Owner
    <3>6. QED BY <3>2, <3>3, <3>4, <3>5, Quiet
  <2>3. QED BY <2>1, <2>2
<1>7. ASSUME NEW p \in Procs, SealState(p) PROVE AbstractNext(d)
  <2>1. CASE d # dir[p]
    BY <1>7, <2>1, Elsewhere DEF SealState, WriteState, TypeOK, Files
  <2>2. CASE d = dir[p]
    <3>1. Owners(d) = {} /\ Owners(d)' = {p}
      <4>1. Owners(d) = {}
        BY <1>7, <2>2, Sole DEF SealState, Owners, Locking, PCs
      <4>2. QED BY <1>7, <2>2, <4>1 DEF SealState, Owners, TypeOK
    <3>2. Owner(d) = NoProc /\ Owner(d)' = p
      BY <3>1 DEF Owner
    <3>3. Torn(d) = FALSE
      BY <1>7, <2>2 DEF SealState, Torn, Writing
    <3>4. fenceState'[d].lease = mine[p]
          /\ fenceState'[d].sequence = Len(history[d])
      BY <1>7, <2>2 DEF SealState, WriteState, TypeOK
    <3>5. Torn(d)' = FALSE
      BY <1>7, <1>p, <2>2, <3>4 DEF SealState, Torn, ProgressOf
    <3>6. /\ mine[p].fence = fenceState[d].lease.fence + 1
          /\ fenceState[d].lease.root \in {NoRoot, mine[p].root}
          /\ mine[p].root \in Roots
      BY <1>7, <1>p, <2>2, LeaseFence DEF SealState, ProgressOf, InHand
    <3>7. QED BY <3>2, <3>3, <3>4, <3>5, <3>6, Granting
  <2>3. QED BY <2>1, <2>2
<1>8. ASSUME NEW p \in Procs, Confirm(p) PROVE AbstractNext(d)
  <2>1. Owners(d)' = Owners(d)
    BY <1>8 DEF Confirm, Owners, TypeOK
  <2>2. Writing(d)' = Writing(d)
    BY <1>8 DEF Confirm, Writing, TypeOK
  <2>3. QED BY <1>8, <2>1, <2>2, Unaffected DEF Confirm, durable, Files
<1>9. ASSUME NEW p \in Procs, LogReleased(p) PROVE AbstractNext(d)
  <2>1. CASE d # dir[p]
    BY <1>9, <2>1, Elsewhere DEF LogReleased, TypeOK, Files
  <2>2. CASE d = dir[p]
    <3>1. Owners(d)' = Owners(d)
      BY <1>9 DEF LogReleased, Owners, TypeOK
    <3>2. Torn(d) = FALSE
      BY <1>9, <1>p, <2>2 DEF LogReleased, Torn, ProgressOf
    <3>3. Torn(d)' = FALSE
      BY <1>9, <2>2 DEF LogReleased, Torn, Writing, TypeOK
    <3>4. UNCHANGED fenceState[d].lease
      BY <1>9 DEF LogReleased
    <3>5. UNCHANGED Owner(d)
      BY <3>1 DEF Owner
    <3>6. QED BY <3>2, <3>3, <3>4, <3>5, Quiet
  <2>3. QED BY <2>1, <2>2
<1>10. ASSUME NEW p \in Procs, FinishRelease(p) PROVE AbstractNext(d)
  <2>1. CASE d # dir[p]
    BY <1>10, <2>1, Elsewhere DEF FinishRelease, WriteState, Close, Forget, TypeOK, Files
  <2>2. CASE d = dir[p]
    <3>1. ~Torn(d)
      BY <1>10, <2>2 DEF FinishRelease, Torn, Writing
    <3>2. fenceState'[d].lease = fenceState[d].lease
      BY <1>10, <1>p, <2>2 DEF FinishRelease, WriteState, ProgressOf, TypeOK
    <3>3. QED BY <1>10, <2>2, <3>1, <3>2, Closing DEF FinishRelease, Locking, PCs
  <2>3. QED BY <2>1, <2>2
<1>11. ASSUME UNCHANGED <<pc, dir, published, fenceState, history>>
       PROVE  AbstractNext(d)
  <2>1. Owners(d)' = Owners(d) /\ Writing(d)' = Writing(d)
    BY <1>11 DEF Owners, Writing
  <2>2. QED BY <1>11, <2>1, Unaffected DEF Files
<1>12. ASSUME NEW e \in Dirs, NEW f \in Forms,
              ReplaceLockFile(e, f) \/ ReplaceParent(e)
       PROVE  AbstractNext(d)
  BY <1>11, <1>12 DEF ReplaceLockFile, ReplaceParent, durable
<1>13. CASE UNCHANGED vars
  BY <1>11, <1>13 DEF vars, durable
<1>14. ASSUME NEW p \in Procs, Lock(p) \/ Admit(p) \/ CrashWaiting(p)
       PROVE  AbstractNext(d)
  BY <1>1, <1>14 DEF Lock, Admit, CrashWaiting, Forget, TypeOK
<1>15. QED
  BY <1>2, <1>4, <1>5, <1>6, <1>7, <1>8, <1>9, <1>10, <1>12, <1>13, <1>14
     DEF Next, Step, Forms

LEMMA RefinementInit == ASSUME Init, NEW d \in Dirs PROVE Abstract(d)!Init
<1>1. Owner(d) = NoProc
  BY DEF Init, Owner, Owners
<1>2. fenceState[d].lease.fence = 0 /\ fenceState[d].lease.root = NoRoot
  BY DEF Init, NoState, NoLease
<1>3. Torn(d) = FALSE
  BY DEF Init, Torn, NoState
<1>4. QED BY <1>1, <1>2, <1>3 DEF Abstract!Init

\* For any number of processes and directories, every directory's lease is
\* granted to one process at a time, with fences 1, 2, 3, ..., and never again
\* once a crash has torn its files.
THEOREM Refinement == Spec => ImplementsFencedLease
<1>1. Init => \A d \in Dirs: Abstract(d)!Init
  BY RefinementInit
<1>2. SafeInv /\ [Next]_vars => \A d \in Dirs: [Abstract(d)!Next]_(Abstract(d)!vars)
  BY RefinementStep DEF AbstractNext
<1>3. QED BY <1>1, <1>2, SafeInvariant, PTL DEF Spec, ImplementsFencedLease

-----------------------------------------------------------------------------
(* The history is an audit trail.                                          *)

Acquisitions(h, i) == {j \in 1..i: h[j].event \in Acquired}

\* What HistoryReads says of one history.
Reads(h) ==
    \A i \in 1..Len(h):
       /\ h[i].lease.fence = Cardinality(Acquisitions(h, i))
       /\ h[i].lease.root = h[1].lease.root
       /\ h[i].event = "lease_released" => i > 1 /\ h[i - 1].event \in Acquired
                                                 /\ h[i - 1].lease = h[i].lease
       /\ h[i].event = "lease_takeover" => i > 1 /\ h[i - 1].event \in Acquired
       /\ h[i].event = "lease_acquired" => i = 1 \/ h[i - 1].event = "lease_released"

\* What the next row may be.
Follows(h, e) ==
    \/ /\ h = <<>> /\ e.event = "lease_acquired" /\ e.lease.fence = 1
    \/ /\ h # <<>> /\ e.event = "lease_released"
       /\ h[Len(h)].event \in Acquired /\ h[Len(h)].lease = e.lease
    \/ /\ h # <<>>
       /\ e.event = IF h[Len(h)].event \in Acquired THEN "lease_takeover"
                                                   ELSE "lease_acquired"
       /\ e.lease.fence = h[Len(h)].lease.fence + 1
       /\ e.lease.root = h[Len(h)].lease.root

LEMMA AcquisitionsFinite ==
    ASSUME NEW h, NEW i \in Nat
    PROVE  /\ IsFiniteSet(Acquisitions(h, i))
           /\ Cardinality(Acquisitions(h, i)) \in Nat
<1>1. IsFiniteSet(1..i)
  BY FS_Interval
<1>2. Acquisitions(h, i) \in SUBSET (1..i)
  BY DEF Acquisitions
<1>3. IsFiniteSet(Acquisitions(h, i))
  BY <1>1, <1>2, FS_Subset
<1>4. QED BY <1>3, FS_CardinalityType

LEMMA AppendReads ==
    ASSUME NEW h \in Seq(Event), NEW e \in Event, Reads(h), Follows(h, e)
    PROVE  Reads(Append(h, e))
<1> DEFINE k == Append(h, e)
           n == Len(h)
<1>1. /\ k \in Seq(Event) /\ Len(k) = n + 1 /\ n \in Nat
      /\ \A i \in 1..n: k[i] = h[i]
      /\ k[n + 1] = e
      /\ h # <<>> => n # 0
  OBVIOUS
<1> HIDE DEF k, n
<1>2. \A i \in 1..n: Acquisitions(k, i) = Acquisitions(h, i)
  BY <1>1 DEF Acquisitions
<1>3. Acquisitions(k, n + 1) =
         Acquisitions(h, n) \cup (IF e.event \in Acquired THEN {n + 1} ELSE {})
  <2>1. 1..(n + 1) = (1..n) \cup {n + 1}
    BY <1>1
  <2>2. QED BY <1>1, <2>1 DEF Acquisitions
<1>4. Cardinality(Acquisitions(k, n + 1)) =
         Cardinality(Acquisitions(h, n)) + (IF e.event \in Acquired THEN 1 ELSE 0)
  <2>1. IsFiniteSet(Acquisitions(h, n)) /\ Cardinality(Acquisitions(h, n)) \in Nat
    BY <1>1, AcquisitionsFinite
  <2>2. n + 1 \notin Acquisitions(h, n)
    BY <1>1 DEF Acquisitions
  <2>3. CASE e.event \in Acquired
    BY <1>3, <2>1, <2>2, <2>3, FS_AddElement
  <2>4. CASE e.event \notin Acquired
    <3>1. Acquisitions(k, n + 1) = Acquisitions(h, n)
      BY <1>3, <2>4
    <3>2. QED BY <2>1, <2>4, <3>1
  <2>5. QED BY <2>3, <2>4
<1>5. n # 0 => /\ h[n].lease.fence = Cardinality(Acquisitions(h, n))
               /\ h[n].lease.root = h[1].lease.root /\ k[n] = h[n] /\ k[1] = h[1]
  BY <1>1 DEF Reads, n
<1>6. ASSUME NEW i \in 1..n
      PROVE  /\ k[i].lease.fence = Cardinality(Acquisitions(k, i))
             /\ k[i].lease.root = k[1].lease.root
             /\ k[i].event = "lease_released" => i > 1 /\ k[i - 1].event \in Acquired
                                                       /\ k[i - 1].lease = k[i].lease
             /\ k[i].event = "lease_takeover" => i > 1 /\ k[i - 1].event \in Acquired
             /\ k[i].event = "lease_acquired" => i = 1 \/ k[i - 1].event = "lease_released"
  <2>1. k[i] = h[i] /\ k[1] = h[1] /\ Acquisitions(k, i) = Acquisitions(h, i)
    BY <1>1, <1>2
  <2>2. i > 1 => k[i - 1] = h[i - 1]
    BY <1>1
  <2>3. i = 1 \/ i > 1
    BY <1>1
  <2>4. QED BY <2>1, <2>2, <2>3 DEF Reads, n
<1>7. CASE h = <<>> /\ e.event = "lease_acquired" /\ e.lease.fence = 1
  <2>1. n = 0
    BY <1>7 DEF n
  <2>2. Cardinality(Acquisitions(h, 0)) = 0
    BY FS_EmptySet DEF Acquisitions
  <2>3. QED BY <1>1, <1>4, <1>7, <2>1, <2>2 DEF Reads, Acquired, k
<1>8. CASE /\ h # <<>> /\ e.event = "lease_released"
           /\ h[n].event \in Acquired /\ h[n].lease = e.lease
  <2>1. e.event \notin Acquired /\ n # 0 /\ n + 1 > 1 /\ (n + 1) - 1 = n
    BY <1>1, <1>8 DEF Acquired
  <2>2. e.lease.fence = Cardinality(Acquisitions(k, n + 1))
    BY <1>4, <1>5, <1>8, <2>1, <1>1, AcquisitionsFinite
  <2>3. e.lease.root = k[1].lease.root /\ k[n] = h[n]
    BY <1>5, <1>8, <2>1
  <2>4. k[n].event \in Acquired /\ k[n].lease = e.lease /\ e.event = "lease_released"
    BY <1>8, <2>3
  <2>5. \A i \in 1..(n + 1): i \notin 1..n => i = n + 1
    BY <1>1
  <2> HIDE <1>8
  <2>6. QED BY <1>1, <1>6, <2>1, <2>2, <2>3, <2>4, <2>5 DEF Reads, k
<1>9. CASE /\ h # <<>>
           /\ e.event = IF h[n].event \in Acquired THEN "lease_takeover" ELSE "lease_acquired"
           /\ e.lease.fence = h[n].lease.fence + 1
           /\ e.lease.root = h[n].lease.root
  <2>1. e.event \in Acquired /\ n # 0 /\ n + 1 > 1 /\ (n + 1) - 1 = n
    BY <1>1, <1>9 DEF Acquired
  <2>2. e.lease.fence = Cardinality(Acquisitions(k, n + 1))
    BY <1>4, <1>5, <1>9, <2>1
  <2>3. h[n] \in Event
    BY <1>1, <2>1
  <2>4. h[n].event \notin Acquired => h[n].event = "lease_released"
    BY <2>3 DEF Event
  <2>5. e.lease.root = k[1].lease.root /\ k[n] = h[n]
    BY <1>5, <1>9, <2>1
  <2>6. /\ e.event # "lease_released"
        /\ e.event = "lease_takeover" => k[n].event \in Acquired
        /\ e.event = "lease_acquired" => k[n].event = "lease_released"
    BY <1>9, <2>1, <2>4, <2>5 DEF Acquired
  <2>7. \A i \in 1..(n + 1): i \notin 1..n => i = n + 1
    BY <1>1
  <2> HIDE <1>9
  <2>8. QED BY <1>1, <1>6, <2>1, <2>2, <2>5, <2>6, <2>7 DEF Reads, k
<1>10. QED BY <1>7, <1>8, <1>9 DEF Follows, n

\* The fence state tells of a row of the history, or of none.
Told(d) ==
    LET s == fenceState[d]
        h == history[d]
    IN /\ s.sequence = 0 => s.lease = NoLease /\ ~s.active
       /\ s.sequence # 0 => /\ s.sequence \in 1..Len(h)
                            /\ h[s.sequence].lease = s.lease
                            /\ s.active <=> h[s.sequence].event \in Acquired

\* What a process knows of the last row.
Logging(p) ==
    LET h == history[dir[p]]
        s == fenceState[dir[p]]
    IN /\ pc[p] \in {"admitted", "published"} => s.sequence = Len(h)
       /\ pc[p] = "logged" => /\ h # <<>> /\ h[Len(h)].lease = mine[p]
                              /\ h[Len(h)].event \in Acquired
       /\ pc[p] \in {"sealed", "held"} => s.active
       /\ pc[p] = "releasing" => /\ h # <<>> /\ h[Len(h)].lease = mine[p]
                                 /\ h[Len(h)].event \notin Acquired
       /\ pc[p] \in {"admitted", "published", "logged", "sealed", "held"} =>
             mine[p].root = want[p]

\* What holds while nobody has replaced anything.
Untouched ==
    changes = 0 =>
       /\ \A p \in Procs: pc[p] # "idle" => dir[p] = canonical
       /\ \A d \in Dirs: published[d] # NoLease => form[d] = "intact"

Audited ==
    /\ \A d \in Dirs: Reads(history[d]) /\ Told(d)
    /\ \A p \in Procs: Logging(p)

LEMMA UntouchedStep == TypeInv /\ Untouched /\ [Next]_vars => Untouched'
<1> SUFFICES ASSUME TypeInv, Untouched, [Next]_vars, changes' = 0
             PROVE  /\ \A p \in Procs: pc'[p] # "idle" => dir'[p] = canonical'
                    /\ \A d \in Dirs: published'[d] # NoLease => form'[d] = "intact"
  BY DEF Untouched
<1>1. CASE UNCHANGED vars
  BY <1>1 DEF vars, Untouched
<1>2. ASSUME NEW d \in Dirs, NEW f \in Forms, ReplaceLockFile(d, f) \/ ReplaceParent(d)
      PROVE  FALSE
  BY <1>2 DEF ReplaceLockFile, ReplaceParent, TypeInv, TypeOK
<1>3. ASSUME NEW p \in Procs, NEW root \in Roots, Open(p, root)
      PROVE  UNCHANGED changes /\ Untouched'
  BY <1>3 DEF Open, durable, TypeInv, TypeOK, Untouched
<1>4. ASSUME NEW p \in Procs, Publish(p)
      PROVE  UNCHANGED changes /\ Untouched'
  BY <1>4 DEF Publish, TypeInv, TypeOK, Untouched
<1>5. ASSUME NEW p \in Procs,
             Lock(p) \/ Admit(p) \/ LogAcquired(p) \/ SealState(p) \/ Confirm(p)
                \/ LogReleased(p)
      PROVE  UNCHANGED changes /\ Untouched'
  <2>1. /\ pc[p] # "idle" /\ UNCHANGED <<canonical, dir, published, form, changes>>
        /\ \A q \in Procs: q # p => pc'[q] = pc[q]
    BY <1>5 DEF Lock, Admit, LogAcquired, SealState, Confirm, LogReleased, durable,
       TypeInv, TypeOK
  <2>2. QED BY <2>1 DEF Untouched
<1>6. ASSUME NEW p \in Procs,
             Refuse(p) \/ FailConfirm(p) \/ FinishRelease(p) \/ LoseLease(p) \/ Crash(p)
                \/ CrashWaiting(p)
      PROVE  UNCHANGED changes /\ Untouched'
  <2>1. Forget(p) /\ UNCHANGED <<published, form>>
    BY <1>6 DEF Refuse, FailConfirm, FinishRelease, LoseLease, Crash, CrashWaiting, Close,
       durable
  <2>2. QED BY <2>1 DEF Forget, Untouched, TypeInv, TypeOK
<1>7. QED
  BY <1>1, <1>2, <1>3, <1>4, <1>5, <1>6, DirsAssumption DEF Next, Step, Untouched, Forms

\* A row is written by the process in the lock of the directory, which knows
\* the last one.
LEMMA OthersLogging ==
    ASSUME TypeInv, FlockInv, NEW p \in Procs, NEW q \in Procs, p # q, pc[p] \in Locking,
           pc'[q] = pc[q], dir'[q] = dir[q], mine'[q] = mine[q], want'[q] = want[q],
           \A d \in Dirs: d # dir[p] => UNCHANGED <<history[d], fenceState[d]>>,
           Logging(q)
    PROVE  Logging(q)'
<1>1. CASE pc[q] \in Locking
  <2>1. dir[q] # dir[p] /\ dir[q] \in Dirs
    BY <1>1, Apart DEF TypeInv, TypeOK
  <2>2. UNCHANGED <<history[dir[q]], fenceState[dir[q]]>>
    BY <2>1
  <2>3. QED BY <2>2 DEF Logging
<1>2. CASE pc[q] \notin Locking
  BY <1>2 DEF Logging, Locking, PCs
<1>3. QED BY <1>1, <1>2

LEMMA QuietAudit ==
    ASSUME Audited, UNCHANGED <<history, fenceState>>, \A p \in Procs: Logging(p)'
    PROVE  Audited'
BY DEF Audited, Told

LEMMA QuietAuditStep ==
    ASSUME SafeInv, Audited, NEW p \in Procs,
           \/ \E root \in Roots: Open(p, root)
           \/ Lock(p) \/ Admit(p) \/ Publish(p) \/ Confirm(p)
           \/ Refuse(p) \/ FailConfirm(p) \/ LoseLease(p) \/ Crash(p) \/ CrashWaiting(p)
    PROVE  Audited'
<1> USE DEF SafeInv, TypeInv
<1>1. UNCHANGED <<history, fenceState>>
  BY DEF Open, Lock, Admit, Publish, Confirm, Refuse, FailConfirm, LoseLease, Crash,
     CrashWaiting, durable
<1>2. ASSUME NEW q \in Procs, q # p PROVE Logging(q)'
  <2>1. pc'[q] = pc[q] /\ dir'[q] = dir[q] /\ mine'[q] = mine[q] /\ want'[q] = want[q]
    BY <1>2 DEF Open, Lock, Admit, Publish, Confirm, Refuse, FailConfirm, LoseLease, Crash,
       CrashWaiting, Close, Forget, TypeOK
  <2>2. Logging(q)
    BY DEF Audited
  <2>3. QED BY <1>1, <2>1, <2>2 DEF Logging
<1>3. Logging(p)'
  <2>1. CASE \/ \E root \in Roots: Open(p, root)
             \/ Lock(p) \/ Refuse(p) \/ FailConfirm(p) \/ LoseLease(p) \/ Crash(p)
             \/ CrashWaiting(p)
    <3>1. pc'[p] \in {"idle", "waiting", "locked"}
      BY <2>1 DEF Open, Lock, Refuse, FailConfirm, LoseLease, Crash, CrashWaiting, Close,
         Forget, TypeOK
    <3>2. QED BY <3>1 DEF Logging
  <2>2. CASE Admit(p)
    <3> DEFINE d == dir[p]
    <3>1. pc'[p] = "admitted" /\ mine'[p].root = want[p] /\ UNCHANGED <<dir, want>>
      BY <2>2 DEF Admit, TypeOK
    <3>2. fenceState[d].sequence = Len(history[d])
      <4>1. Admissible(d, want[p]) /\ d \in Dirs
        BY <2>2 DEF Admit, TypeOK
      <4>2. CASE fenceState[d].lease = NoLease
        BY <4>1, <4>2 DEF Admissible, Unsealed
      <4>3. CASE fenceState[d].lease # NoLease
        BY <4>1, <4>3 DEF Admissible, StateMatchesHistory
      <4>4. QED BY <4>2, <4>3
    <3>3. QED BY <1>1, <3>1, <3>2 DEF Logging
  <2>3. CASE Publish(p)
    <3>1. /\ pc[p] = "admitted" /\ pc'[p] = "published" /\ UNCHANGED <<dir, want, mine>>
          /\ Logging(p)
      BY <2>3 DEF Publish, TypeOK, Audited
    <3>2. QED BY <1>1, <3>1 DEF Logging
  <2>4. CASE Confirm(p)
    <3>1. /\ pc[p] = "sealed" /\ pc'[p] = "held" /\ UNCHANGED <<dir, want, mine>>
          /\ Logging(p)
      BY <2>4 DEF Confirm, TypeOK, Audited
    <3>2. QED BY <1>1, <3>1 DEF Logging
  <2>5. QED BY <2>1, <2>2, <2>3, <2>4
<1>4. QED BY <1>1, <1>2, <1>3, QuietAudit

\* A row keeps what the fence state tells.
LEMMA RowAudit ==
    ASSUME SafeInv, Audited, NEW p \in Procs, pc[p] \in Locking,
           NEW e \in Event, Follows(history[dir[p]], e),
           history' = [history EXCEPT ![dir[p]] = Append(history[dir[p]], e)],
           UNCHANGED <<fenceState, dir, want, mine>>,
           \A q \in Procs: q # p => pc'[q] = pc[q],
           Logging(p)'
    PROVE  Audited'
<1> USE DEF SafeInv
<1>1. dir[p] \in Dirs /\ history[dir[p]] \in Seq(Event)
  BY DEF TypeInv, TypeOK
<1>2. \A d \in Dirs: d # dir[p] => history'[d] = history[d]
  BY DEF TypeInv, TypeOK
<1>3. history'[dir[p]] = Append(history[dir[p]], e)
  BY <1>1 DEF TypeInv, TypeOK
<1>4. ASSUME NEW d \in Dirs PROVE Reads(history'[d]) /\ Told(d)'
  <2>1. CASE d # dir[p]
    BY <1>2, <2>1 DEF Audited, Told
  <2>2. CASE d = dir[p]
    <3>1. Reads(history[d]) /\ Told(d)
      BY DEF Audited
    <3>2. Reads(history'[d])
      BY <1>1, <1>3, <2>2, <3>1, AppendReads
    <3>3. \A i \in 1..Len(history[d]):
             i \in 1..Len(history'[d]) /\ history'[d][i] = history[d][i]
      BY <1>1, <1>3, <2>2
    <3>4. QED BY <3>1, <3>2, <3>3 DEF Told
  <2>3. QED BY <2>1, <2>2
<1>5. ASSUME NEW q \in Procs, q # p PROVE Logging(q)'
  <2>1. Logging(q)
    BY DEF Audited
  <2>2. QED BY <1>2, <1>5, <2>1, OthersLogging
<1>6. QED BY <1>4, <1>5 DEF Audited

LEMMA LogAcquiredAudit ==
    ASSUME SafeInv, Audited, NEW p \in Procs, LogAcquired(p)
    PROVE  Audited'
<1> USE DEF SafeInv, TypeInv
<1> DEFINE d == dir[p]
           h == history[d]
           s == fenceState[d]
           e == [event |-> IF s.active THEN "lease_takeover" ELSE "lease_acquired",
                 lease |-> mine[p]]
<1>1. /\ d \in Dirs /\ h \in Seq(Event) /\ pc[p] = "published" /\ mine[p] \in Lease
      /\ s \in FenceState
  BY DEF LogAcquired, TypeOK, InHand
<1>2. e \in Event /\ e.event \in Acquired
  BY <1>1 DEF Event, Acquired
<1>3. /\ history' = [history EXCEPT ![d] = Append(h, e)] /\ pc'[p] = "logged"
      /\ \A q \in Procs: q # p => pc'[q] = pc[q]
      /\ UNCHANGED <<fenceState, dir, want, mine>>
  BY DEF LogAcquired, TypeOK
<1>4. /\ s.sequence = Len(h) /\ mine[p].root = want[p] /\ Told(d)
  BY <1>1 DEF Audited, Logging
<1>5. mine[p].fence = s.lease.fence + 1 /\ s.lease.root \in {NoRoot, mine[p].root}
  BY <1>1 DEF ProgressInv
<1>6. Follows(h, e)
  <2>1. CASE h = <<>>
    <3>1. s.lease = NoLease /\ ~s.active
      BY <1>4, <2>1 DEF Told
    <3>2. QED BY <1>5, <2>1, <3>1, LeaseFence DEF Follows
  <2>2. CASE h # <<>>
    <3>1. Len(h) # 0 /\ Len(h) \in 1..Len(h)
      BY <1>1, <2>2
    <3>2. h[Len(h)].lease = s.lease /\ (s.active <=> h[Len(h)].event \in Acquired)
      BY <1>4, <3>1 DEF Told
    <3>3. s.lease.root = mine[p].root
      <4>1. h[Len(h)] \in Event
        BY <1>1, <3>1
      <4>2. h[Len(h)].lease.root \in Roots
        BY <4>1, LeaseFence DEF Event
      <4>3. QED BY <1>5, <3>2, <4>2, RootsAssumption
    <3>4. QED BY <1>5, <2>2, <3>2, <3>3 DEF Follows
  <2>3. QED BY <2>1, <2>2
<1>7. Logging(p)'
  <2>1. history'[d] = Append(h, e)
    BY <1>1, <1>3 DEF TypeOK
  <2>2. Append(h, e) # <<>> /\ Append(h, e)[Len(Append(h, e))] = e
    BY <1>1, <1>2
  <2> HIDE DEF h
  <2>3. e.lease = mine[p]
    OBVIOUS
  <2> HIDE DEF e
  <2>4. QED BY <1>2, <1>3, <1>4, <2>1, <2>2, <2>3 DEF Logging
<1> HIDE DEF e
<1>8. QED BY <1>1, <1>2, <1>3, <1>6, <1>7, RowAudit DEF Locking, PCs

LEMMA LogReleasedAudit ==
    ASSUME SafeInv, Audited, NEW p \in Procs, LogReleased(p)
    PROVE  Audited'
<1> USE DEF SafeInv, TypeInv
<1> DEFINE d == dir[p]
           h == history[d]
           s == fenceState[d]
           e == [event |-> "lease_released", lease |-> mine[p]]
<1>1. /\ d \in Dirs /\ h \in Seq(Event) /\ pc[p] = "held" /\ mine[p] \in Lease
  BY DEF LogReleased, TypeOK, InHand
<1>2. e \in Event /\ e.event \notin Acquired /\ e.event = "lease_released" /\ e.lease = mine[p]
  BY <1>1 DEF Event, Acquired
<1>3. /\ history' = [history EXCEPT ![d] = Append(h, e)] /\ pc'[p] = "releasing"
      /\ \A q \in Procs: q # p => pc'[q] = pc[q]
      /\ UNCHANGED <<fenceState, dir, want, mine>>
  BY DEF LogReleased, TypeOK
<1>4. s.sequence = Len(h) /\ s.lease = mine[p] /\ s.active /\ Told(d)
  BY <1>1 DEF Audited, ProgressInv, LogReleased, CheckpointPasses
<1>5. Len(h) # 0 /\ h # <<>>
  BY <1>1, <1>4 DEF Told
<1>6. h[Len(h)].lease = mine[p] /\ h[Len(h)].event \in Acquired
  BY <1>4, <1>5 DEF Told
<1>7. Logging(p)'
  <2>1. history'[d] = Append(h, e)
    BY <1>1, <1>3 DEF TypeOK
  <2>2. Append(h, e) # <<>> /\ Append(h, e)[Len(Append(h, e))] = e
    BY <1>1, <1>2
  <2> HIDE DEF h, e
  <2>3. QED BY <1>2, <1>3, <2>1, <2>2 DEF Logging
<1> HIDE DEF e
<1>8. Follows(h, e)
  BY <1>2, <1>5, <1>6 DEF Follows
<1>9. QED BY <1>1, <1>2, <1>3, <1>7, <1>8, RowAudit DEF Locking, PCs

LEMMA SealAudit ==
    ASSUME SafeInv, Audited, NEW p \in Procs, SealState(p) \/ FinishRelease(p)
    PROVE  Audited'
<1> USE DEF SafeInv, TypeInv
<1> DEFINE d == dir[p]
           h == history[d]
           n == Len(h)
<1>1. /\ d \in Dirs /\ h \in Seq(Event) /\ n \in Nat /\ pc[p] \in {"logged", "releasing"}
      /\ pc[p] \in Locking /\ history' = history
  <2>1. d \in Dirs /\ h \in Seq(Event)
    BY DEF TypeOK
  <2>2. n \in Nat
    BY <2>1
  <2>3. pc[p] \in {"logged", "releasing"} /\ history' = history
    BY DEF SealState, FinishRelease
  <2>4. QED BY <2>1, <2>2, <2>3 DEF Locking, PCs
<1>2. PICK active \in BOOLEAN:
         WriteState(p, active) /\ (active <=> pc[p] = "logged")
  BY DEF SealState, FinishRelease
<1>3. /\ fenceState'[d] = [active |-> active, lease |-> mine[p], sequence |-> n]
      /\ \A b \in Dirs: b # d => fenceState'[b] = fenceState[b]
  BY <1>1, <1>2 DEF WriteState, TypeOK
<1>4. h # <<>> /\ h[n].lease = mine[p] /\ (active <=> h[n].event \in Acquired)
  <2>1. Logging(p)
    BY DEF Audited
  <2>2. QED BY <1>1, <1>2, <2>1 DEF Logging
<1>5. n # 0 /\ n \in 1..n
  BY <1>1, <1>4
<1>6. ASSUME NEW b \in Dirs PROVE Reads(history'[b]) /\ Told(b)'
  <2>1. Reads(history[b]) /\ Told(b)
    BY DEF Audited
  <2>2. CASE b # d
    BY <1>1, <1>3, <2>1, <2>2 DEF Told
  <2>3. CASE b = d
    BY <1>1, <1>3, <1>4, <1>5, <2>1, <2>3 DEF Told
  <2>4. QED BY <2>2, <2>3
<1>7. /\ \A q \in Procs: q # p => /\ pc'[q] = pc[q] /\ dir'[q] = dir[q]
                                  /\ mine'[q] = mine[q] /\ want'[q] = want[q]
  BY DEF SealState, FinishRelease, Close, Forget, TypeOK
<1>8. ASSUME NEW q \in Procs, q # p PROVE Logging(q)'
  <2>1. Logging(q)
    BY DEF Audited
  <2>2. \A b \in Dirs: b # d => UNCHANGED <<history[b], fenceState[b]>>
    BY <1>1, <1>3
  <2>3. QED BY <1>1, <1>7, <1>8, <2>1, <2>2, OthersLogging
<1>9. Logging(p)'
  <2>1. CASE FinishRelease(p)
    BY <2>1 DEF FinishRelease, Close, Forget, Logging, TypeOK
  <2>2. CASE SealState(p)
    <3>1. /\ pc[p] = "logged" /\ pc'[p] = "sealed" /\ UNCHANGED <<dir, want, mine>>
          /\ Logging(p)
      BY <2>2 DEF SealState, TypeOK, Audited
    <3>2. fenceState'[d].active
      BY <1>2, <1>3, <3>1
    <3>3. QED BY <3>1, <3>2 DEF Logging
  <2>3. QED BY <2>1, <2>2
<1>10. QED BY <1>6, <1>8, <1>9 DEF Audited

LEMMA AuditStep == SafeInv /\ Audited /\ [Next]_vars => Audited'
<1> SUFFICES ASSUME SafeInv, Audited, [Next]_vars PROVE Audited'
  OBVIOUS
<1>1. CASE UNCHANGED vars
  BY <1>1 DEF vars, durable, Audited, Told, Logging
<1>2. ASSUME NEW d \in Dirs, NEW f \in Forms, ReplaceLockFile(d, f) \/ ReplaceParent(d)
      PROVE  Audited'
  BY <1>2 DEF ReplaceLockFile, ReplaceParent, durable, Audited, Told, Logging
<1>3. QED
  BY <1>1, <1>2, QuietAuditStep, LogAcquiredAudit, LogReleasedAudit, SealAudit,
     DirsAssumption DEF Next, Step, Forms

AuditInv == SafeInv /\ Audited /\ Untouched

LEMMA AuditInit == Init => Audited /\ Untouched
<1> SUFFICES ASSUME Init PROVE Audited /\ Untouched
  OBVIOUS
<1>1. Untouched
  BY DEF Init, Untouched
<1>2. ASSUME NEW d \in Dirs PROVE Reads(history[d]) /\ Told(d)
  <2>1. history[d] = <<>> /\ fenceState[d] = NoState
    BY DEF Init
  <2>2. Reads(history[d])
    BY <2>1 DEF Reads
  <2>3. QED BY <2>1, <2>2 DEF Told, NoState
<1>3. ASSUME NEW p \in Procs PROVE Logging(p)
  BY DEF Init, Logging
<1>4. QED BY <1>1, <1>2, <1>3 DEF Audited

LEMMA AuditInvariant == Spec => []AuditInv
<1>1. Init => AuditInv
  BY SafeInit, AuditInit DEF AuditInv
<1>2. AuditInv /\ [Next]_vars => AuditInv'
  BY TypeStep, FlockStep, UnsealedStep, ProgressStep, AuditStep, UntouchedStep
     DEF AuditInv, SafeInv
<1>3. QED BY <1>1, <1>2, PTL DEF Spec

\* In a history that reads well, the last row has the highest fence, and its
\* lease is acquired in one row only.
LEMMA LastIsHighest ==
    ASSUME NEW h \in Seq(Event), Reads(h), Len(h) # 0
    PROVE  /\ \A i \in 1..Len(h): h[i].lease.fence <= h[Len(h)].lease.fence
           /\ h[Len(h)].event \in Acquired =>
                 \A i \in 1..Len(h): i # Len(h) => h[i].lease.fence < h[Len(h)].lease.fence
<1> DEFINE n == Len(h)
<1>1. n \in Nat /\ n \in 1..n
  OBVIOUS
<1> SUFFICES ASSUME NEW i \in 1..n
             PROVE  /\ h[i].lease.fence <= h[n].lease.fence
                    /\ h[n].event \in Acquired /\ i # n =>
                          h[i].lease.fence < h[n].lease.fence
  OBVIOUS
<1>2. /\ h[i].lease.fence = Cardinality(Acquisitions(h, i))
      /\ h[n].lease.fence = Cardinality(Acquisitions(h, n))
  BY <1>1 DEF Reads
<1> HIDE DEF n
<1>3. IsFiniteSet(Acquisitions(h, n)) /\ Cardinality(Acquisitions(h, n)) \in Nat
  BY <1>1, AcquisitionsFinite
<1>4. i \in Nat /\ Cardinality(Acquisitions(h, i)) \in Nat
  BY <1>1, AcquisitionsFinite
<1>5. Acquisitions(h, i) \in SUBSET Acquisitions(h, n)
  BY <1>1 DEF Acquisitions
<1>6. /\ Cardinality(Acquisitions(h, i)) <= Cardinality(Acquisitions(h, n))
      /\ Cardinality(Acquisitions(h, n)) = Cardinality(Acquisitions(h, i)) =>
            Acquisitions(h, n) = Acquisitions(h, i)
  BY <1>3, <1>5, FS_Subset
<1>7. h[n].event \in Acquired /\ i # n => Acquisitions(h, n) # Acquisitions(h, i)
  BY <1>1 DEF Acquisitions
<1>8. QED BY <1>2, <1>3, <1>4, <1>6, <1>7

\* The fence state of a directory in order is the last row of its history.
LEMMA StateIsLast ==
    ASSUME TypeOK, Audited, NEW d \in Dirs,
           fenceState[d].lease # NoLease, fenceState[d].sequence = Len(history[d])
    PROVE  /\ Len(history[d]) # 0 /\ Len(history[d]) \in 1..Len(history[d])
           /\ history[d] \in Seq(Event) /\ Reads(history[d])
           /\ history[d][Len(history[d])].lease = fenceState[d].lease
           /\ fenceState[d].active <=> history[d][Len(history[d])].event \in Acquired
           /\ StateMatchesHistory(d, fenceState[d].lease.root)
<1> DEFINE h == history[d]
           s == fenceState[d]
<1>1. h \in Seq(Event) /\ Reads(h) /\ Told(d)
  BY DEF TypeOK, Audited
<1>2. /\ Len(h) # 0 /\ Len(h) \in 1..Len(h) /\ h[Len(h)].lease = s.lease
      /\ s.active <=> h[Len(h)].event \in Acquired
  BY <1>1 DEF Told
<1>3. \A i \in 1..Len(h): h[i].lease.fence <= s.lease.fence
  BY <1>1, <1>2, LastIsHighest
<1>4. StateMatchesHistory(d, s.lease.root)
  BY <1>2, <1>3 DEF StateMatchesHistory
<1>5. QED BY <1>1, <1>2, <1>4

\* A process whose checkpoint passes holds the last row of the history.
LEMMA NewestAndRecorded ==
    ASSUME TypeInv, Audited PROVE ValidIsNewestAndRecorded
<1> SUFFICES ASSUME NEW p \in Procs, Valid(p)
             PROVE  LET h == history[dir[p]]
                        acquisitions == {i \in 1..Len(h): h[i].event \in Acquired}
                    IN \E i \in acquisitions:
                          /\ h[i].lease = mine[p]
                          /\ \A j \in acquisitions \ {i}: h[j].lease.fence < mine[p].fence
  BY DEF ValidIsNewestAndRecorded
<1> DEFINE d == dir[p]
           h == history[d]
           n == Len(h)
<1>1. d \in Dirs /\ mine[p] \in Lease
  BY DEF TypeInv, TypeOK, InHand, Valid
<1>2. /\ fenceState[d].active /\ fenceState[d].lease = mine[p] /\ mine[p] # NoLease
      /\ fenceState[d].sequence = n
  BY <1>1, LeaseFence DEF Valid, CheckpointPasses, StateMatchesHistory
<1>3. /\ n \in 1..n /\ n # 0 /\ h \in Seq(Event) /\ Reads(h)
      /\ h[n].lease = mine[p] /\ h[n].event \in Acquired
  BY <1>1, <1>2, StateIsLast DEF TypeInv
<1>4. \A j \in 1..n: j # n => h[j].lease.fence < h[n].lease.fence
  BY <1>3, LastIsHighest
<1> HIDE DEF n, h, d
<1>5. QED BY <1>3, <1>4 DEF n, h, d

\* The k-th acquisition a directory's history records has fence k, a release
\* follows the acquisition it ends, a takeover an acquisition never released,
\* and whoever passes a checkpoint is the latest acquisition: for any number
\* of processes, directories, crashes and replacements.
THEOREM AuditTrail == Spec => []HistoryIsAuditTrail
<1>1. AuditInv => HistoryIsAuditTrail
  <2> SUFFICES ASSUME AuditInv PROVE HistoryIsAuditTrail
    OBVIOUS
  <2>1. \A d \in Dirs: Reads(history[d])
    BY DEF AuditInv, Audited
  <2>2. HistoryReads
    BY <2>1 DEF HistoryReads, Reads, Acquisitions
  <2>3. ValidIsNewestAndRecorded
    BY NewestAndRecorded DEF AuditInv, SafeInv
  <2>4. QED BY <2>2, <2>3 DEF HistoryIsAuditTrail
<1>2. QED BY <1>1, AuditInvariant, PTL

LEMMA HolderPasses == AuditInv => HolderGoesOn
<1> SUFFICES ASSUME AuditInv, NEW p \in Procs, pc[p] \in {"sealed", "held"}, changes = 0
             PROVE  CheckpointPasses(p)
  BY DEF HolderGoesOn
<1> USE DEF AuditInv, SafeInv
<1> DEFINE d == dir[p]
<1>1. d \in Dirs /\ mine[p] \in Lease /\ mine[p] # NoLease
  BY LeaseFence DEF TypeInv, TypeOK, InHand
<1>2. /\ published[d] = mine[p] /\ fenceState[d].lease = mine[p]
      /\ fenceState[d].sequence = Len(history[d])
  BY DEF ProgressInv
<1>3. fenceState[d].active /\ mine[p].root = want[p]
  BY DEF Audited, Logging
<1>4. canonical = d /\ form[d] = "intact"
  BY <1>1, <1>2 DEF Untouched
<1>5. StateMatchesHistory(d, want[p])
  BY <1>1, <1>2, <1>3, StateIsLast DEF TypeInv
<1>6. QED BY <1>2, <1>3, <1>4, <1>5 DEF CheckpointPasses

LEMMA FreeAdmits == AuditInv => FreeIsAcquirable
<1> SUFFICES ASSUME AuditInv, NEW d \in Dirs, flock[d] = NoProc,
                    fenceState[d].lease # NoLease, ~Torn(d), changes = 0
             PROVE  Admissible(d, fenceState[d].lease.root)
  BY DEF FreeIsAcquirable
<1> USE DEF AuditInv, SafeInv
<1>1. ~Writing(d)
  BY NoProcAssumption DEF Writing, FlockInv, Locking, PCs
<1>2. fenceState[d].sequence = Len(history[d]) /\ published[d] = fenceState[d].lease
  BY <1>1 DEF Torn
<1>3. form[d] = "intact"
  BY <1>2 DEF Untouched
<1>4. StateMatchesHistory(d, fenceState[d].lease.root)
  BY <1>2, StateIsLast DEF TypeInv
<1>5. QED BY <1>2, <1>3, <1>4 DEF Admissible

\* Nobody's crash or acquisition costs the holder its lease, and a crash outside
\* the write windows never costs the directory: only a replacement of files or
\* a crash between two durable writes does.
THEOREM OnlyDamageCosts == Spec => []NoSpuriousLoss
<1>1. AuditInv => NoSpuriousLoss
  BY HolderPasses, FreeAdmits DEF NoSpuriousLoss
<1>2. QED BY <1>1, AuditInvariant, PTL
=============================================================================
