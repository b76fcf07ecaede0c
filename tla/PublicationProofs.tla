-------------------------- MODULE PublicationProofs --------------------------
(***************************************************************************)
(* Machine-checked proofs about the two components that publish: the       *)
(* stages of a response application and the prepared-generation publisher, *)
(* for every set of processes and every bound.                             *)
(*                                                                         *)
(* ApplicationStages: repeated runs look like one run, and what is         *)
(* published is final.  The inductive invariant says how far the journal   *)
(* and the pointers can be apart, and where in its stage the run that      *)
(* holds the lease can be for the files to look as they do.                *)
(*                                                                         *)
(* PreparedGeneration: a call publishes its own bytes, current.json names  *)
(* a frozen generation without stray files, and a call raises for a        *)
(* reason.  The invariant says who holds the lock of an identity and what  *)
(* the directories of a call are at each of its places.                    *)
(***************************************************************************)
EXTENDS ApplicationStages, PreparedGeneration, TLAPS, FiniteSetTheorems

-----------------------------------------------------------------------------
(* The invariant *)

\* The hash that stage k is executed on.
From(k) == IF k = 1 THEN 0 ELSE pointer[k - 1]

\* The two rows of stage k, written under lease f.
StartedRow(k, f) ==
    [event |-> "stage_started", stage |-> k, input |-> From(k), output |-> 0,
     fence |-> f]

CommittedRow(k, f) ==
    [event |-> "stage_committed", stage |-> k, input |-> From(k),
     output |-> pointer[k], fence |-> f]

\* Rows 2k-1 and 2k of the journal are the start and the commit of stage k.
Line(k) ==
    /\ 2 * k - 1 \in DOMAIN journal =>
          journal[2 * k - 1] = StartedRow(k, journal[2 * k - 1].fence)
    /\ 2 * k \in DOMAIN journal =>
          journal[2 * k] = CommittedRow(k, journal[2 * k].fence)

\* A row names a lease that was granted, after the row in front of it did.
Dated(i) ==
    /\ Granted(journal[i].fence)
    /\ i > 1 => journal[i - 1].fence <= journal[i].fence

\* The journal is the beginning of an uninterrupted one.
Written ==
    /\ Len(journal) <= 2 * StageCount
    /\ \A k \in Stages : Line(k)
    /\ \A i \in DOMAIN journal : Dated(i)

\* A stage is published between its two rows, on the output of the one before.
Between(k) ==
    /\ 2 * k <= Len(journal) => pointer[k] # 0
    /\ pointer[k] # 0 => 2 * k - 1 <= Len(journal) /\ StageValid(k, From(k))

InOrder == \A k \in Stages : Between(k)

\* Every output of a list is what its stage has published.
Outputs(outputs) ==
    /\ Len(outputs) = StageCount
    /\ \A k \in Stages : outputs[k] = pointer[k]

\* The journal is complete, and checkpointed.
AllCommitted == Len(journal) = 2 * StageCount /\ CheckpointMatches

\* What there is of snapshots, applications and current.json is of one piece.
Ended ==
    /\ \A s \in snapshots :
          AllCommitted /\ s.sequence = Len(journal) /\ Outputs(s.outputs)
    /\ \A a \in applications :
          Granted(a.fence) /\ a.snapshot \in snapshots /\ a.snapshot.outputs = a.outputs
    /\ \A a, b \in applications : a = b
    /\ current # 0 => \E a \in applications : a.fence = current

\* The stages a run has behind it are committed, with the outputs it has in hand.
Behind(p) ==
    /\ 2 * Len(prior[p]) <= Len(journal)
    /\ \A i \in 1..Len(prior[p]) : prior[p][i] = pointer[i]

\* There is no application yet.
Unpublished == applications = {} /\ current = 0

\* The journal ends that many rows into the stage of p.
AtStage(p, rows) ==
    /\ At(p) \in Stages
    /\ Len(journal) = 2 * Len(prior[p]) + rows

\* The snapshot that a run which is through its stages takes.
Handed(p) == [outputs |-> prior[p], sequence |-> Len(journal)]

\* What the files look like when the run of p is at its pc.
Placed(p) ==
    /\ pc[p] \notin {"acquired", "adopt", "verify", "returning", "failed"} =>
          Behind(p)
    /\ pc[p] \in {"look", "start", "started", "execute", "publish", "point",
                  "commit", "committed", "apply"} => Unpublished
    /\ pc[p] \in {"acquired", "adopt"} => prior[p] = <<>>
    /\ pc[p] = "adopt" => current = 0 /\ applications # {}
    /\ pc[p] = "start" => AtStage(p, 0) /\ pointer[At(p)] = 0
    /\ pc[p] \in {"started", "execute", "publish", "point"} =>
          AtStage(p, 1) /\ pointer[At(p)] = 0
    /\ pc[p] = "point" =>
          [fence |-> fence, input |-> Input(p)] \in generations[At(p)]
    /\ pc[p] = "commit" => AtStage(p, 1) /\ pointer[At(p)] # 0
    /\ pc[p] = "committed" => AtStage(p, 2)
    /\ pc[p] \in {"apply", "finish"} =>
          Len(prior[p]) = StageCount /\ Handed(p) \in snapshots
    /\ pc[p] = "finish" =>
          current = 0 /\ \E a \in applications : a.fence = fence
    /\ pc[p] = "verify" => current # 0
    /\ pc[p] = "failed" =>
          Len(journal) = 2 * StageCount /\ checkpoint < Len(journal)

\* Only the holder of the lease is inside run().
Alone ==
    \A p \in Procs :
       IF pc[p] = "idle" THEN prior[p] = <<>>
       ELSE owner = p /\ Granted(fence) /\ Placed(p)

Inv == TypeOK /\ Written /\ InOrder /\ Ended /\ Alone

-----------------------------------------------------------------------------
(* Reading the journal *)

LEMMA Halves ==
    ASSUME NEW n \in Nat \ {0}
    PROVE  \E k \in Nat \ {0} : n = 2 * k - 1 \/ n = 2 * k
<1>1. (n + 1) \div 2 \in Nat \ {0}
  OBVIOUS
<1>2. n = 2 * ((n + 1) \div 2) - 1 \/ n = 2 * ((n + 1) \div 2)
  OBVIOUS
<1>3. QED BY <1>1, <1>2

LEMMA HalvesOf ==
    ASSUME NEW k \in Nat
    PROVE  (2 * k) \div 2 = k /\ (2 * k + 1) \div 2 = k
OBVIOUS

LEMMA RowType ==
    ASSUME TypeOK, NEW i \in DOMAIN journal
    PROVE  /\ journal[i] \in Row
           /\ i \in 1..Len(journal)
           /\ Len(journal) \in Nat
BY DEF TypeOK

LEMMA AtType ==
    ASSUME TypeOK, NEW p \in Procs
    PROVE  /\ Len(prior[p]) \in 0..StageCount
           /\ prior[p] \in Seq(Nat)
           /\ At(p) \in 1..(StageCount + 1)
           /\ At(p) = Len(prior[p]) + 1
           /\ Input(p) \in Nat
BY StageCountAssumption DEF TypeOK, At, Input, Hash

LEMMA StageRows ==
    ASSUME TypeOK, Written, NEW k \in Stages
    PROVE  /\ Starts(k) = IF 2 * k - 1 <= Len(journal) THEN {2 * k - 1} ELSE {}
           /\ Commits(k) = IF 2 * k <= Len(journal) THEN {2 * k} ELSE {}
<1>1. k \in Nat \ {0} /\ StageCount \in Nat /\ Len(journal) \in Nat
  BY StageCountAssumption DEF Stages, TypeOK
<1>2. \A i \in DOMAIN journal : \E m \in Stages : i = 2 * m - 1 \/ i = 2 * m
  <2>1. SUFFICES ASSUME NEW i \in DOMAIN journal
                 PROVE  \E m \in Stages : i = 2 * m - 1 \/ i = 2 * m
    OBVIOUS
  <2>2. i \in Nat \ {0} /\ i <= 2 * StageCount
    BY <1>1, RowType DEF Written
  <2>3. PICK m \in Nat \ {0} : i = 2 * m - 1 \/ i = 2 * m
    BY <2>2, Halves
  <2>4. m \in Stages
    BY <1>1, <2>2, <2>3 DEF Stages
  <2>5. QED BY <2>3, <2>4
<1>3. \A m \in Stages :
         /\ 2 * m - 1 \in DOMAIN journal =>
               journal[2 * m - 1].event = "stage_started" /\ journal[2 * m - 1].stage = m
         /\ 2 * m \in DOMAIN journal =>
               journal[2 * m].event = "stage_committed" /\ journal[2 * m].stage = m
  <2>1. SUFFICES ASSUME NEW m \in Stages
                 PROVE  /\ 2 * m - 1 \in DOMAIN journal =>
                              /\ journal[2 * m - 1].event = "stage_started"
                              /\ journal[2 * m - 1].stage = m
                        /\ 2 * m \in DOMAIN journal =>
                              /\ journal[2 * m].event = "stage_committed"
                              /\ journal[2 * m].stage = m
    OBVIOUS
  <2>2. 2 * m - 1 \in DOMAIN journal =>
           journal[2 * m - 1] = StartedRow(m, journal[2 * m - 1].fence)
    BY DEF Written, Line
  <2>3. 2 * m \in DOMAIN journal =>
           journal[2 * m] = CommittedRow(m, journal[2 * m].fence)
    BY DEF Written, Line
  <2>4. \A f : /\ StartedRow(m, f).event = "stage_started"
               /\ StartedRow(m, f).stage = m
               /\ CommittedRow(m, f).event = "stage_committed"
               /\ CommittedRow(m, f).stage = m
    BY DEF StartedRow, CommittedRow
  <2>5. QED BY <2>2, <2>3, <2>4
<1>4. DOMAIN journal = 1..Len(journal)
  BY DEF TypeOK
<1>5. \A m \in Stages : m \in Nat \ {0}
  BY <1>1 DEF Stages
<1>6. \A i \in Starts(k) : i = 2 * k - 1
  <2>1. SUFFICES ASSUME NEW i \in Starts(k) PROVE i = 2 * k - 1
    OBVIOUS
  <2>2. PICK m \in Stages : i = 2 * m - 1 \/ i = 2 * m
    BY <1>2 DEF Starts, RowsOf
  <2>3. /\ i \in DOMAIN journal /\ journal[i].stage = k
        /\ journal[i].event = "stage_started"
    BY DEF Starts, RowsOf
  <2>4. CASE i = 2 * m - 1
    BY <1>3, <2>3, <2>4
  <2>5. CASE i = 2 * m
    BY <1>3, <2>3, <2>5
  <2>6. QED BY <2>2, <2>4, <2>5
<1>7. \A i \in Commits(k) : i = 2 * k
  <2>1. SUFFICES ASSUME NEW i \in Commits(k) PROVE i = 2 * k
    OBVIOUS
  <2>2. PICK m \in Stages : i = 2 * m - 1 \/ i = 2 * m
    BY <1>2 DEF Commits, RowsOf
  <2>3. /\ i \in DOMAIN journal /\ journal[i].stage = k
        /\ journal[i].event = "stage_committed"
    BY DEF Commits, RowsOf
  <2>4. CASE i = 2 * m - 1
    BY <1>3, <2>3, <2>4
  <2>5. CASE i = 2 * m
    BY <1>3, <2>3, <2>5
  <2>6. QED BY <2>2, <2>4, <2>5
<1>8. 2 * k - 1 <= Len(journal) => 2 * k - 1 \in Starts(k)
  BY <1>1, <1>3, <1>4 DEF Starts, RowsOf
<1>9. 2 * k <= Len(journal) => 2 * k \in Commits(k)
  BY <1>1, <1>3, <1>4 DEF Commits, RowsOf
<1>10. Starts(k) \subseteq DOMAIN journal /\ Commits(k) \subseteq DOMAIN journal
  BY DEF Starts, Commits, RowsOf
<1>11. QED BY <1>1, <1>4, <1>6, <1>7, <1>8, <1>9, <1>10

\* What the journal says of a stage is what its pointer says.
LEMMA RowsAreValid ==
    ASSUME TypeOK, Written, NEW k \in Stages
    PROVE  /\ 2 * k - 1 <= Len(journal) => EventValid(Starts(k), From(k), 0)
           /\ 2 * k <= Len(journal) => EventValid(Commits(k), From(k), pointer[k])
<1>1. k \in Nat \ {0} /\ Len(journal) \in Nat /\ DOMAIN journal = 1..Len(journal)
  BY StageCountAssumption DEF Stages, TypeOK
<1>2. Cardinality({2 * k - 1}) = 1 /\ Cardinality({2 * k}) = 1
  BY FS_Singleton
<1>3. ASSUME 2 * k - 1 <= Len(journal) PROVE EventValid(Starts(k), From(k), 0)
  <2>1. Starts(k) = {2 * k - 1} /\ 2 * k - 1 \in DOMAIN journal
    BY <1>1, <1>3, StageRows
  <2>2. /\ journal[2 * k - 1] = StartedRow(k, journal[2 * k - 1].fence)
        /\ Granted(journal[2 * k - 1].fence)
    BY <2>1 DEF Written, Line, Dated
  <2>3. journal[2 * k - 1].input = From(k) /\ journal[2 * k - 1].output = 0
    BY <2>2 DEF StartedRow
  <2>4. QED BY <1>2, <2>1, <2>2, <2>3 DEF EventValid
<1>4. ASSUME 2 * k <= Len(journal)
      PROVE  EventValid(Commits(k), From(k), pointer[k])
  <2>1. Commits(k) = {2 * k} /\ 2 * k \in DOMAIN journal
    BY <1>1, <1>4, StageRows
  <2>2. /\ journal[2 * k] = CommittedRow(k, journal[2 * k].fence)
        /\ Granted(journal[2 * k].fence)
    BY <2>1 DEF Written, Line, Dated
  <2>3. journal[2 * k].input = From(k) /\ journal[2 * k].output = pointer[k]
    BY <2>2 DEF CommittedRow
  <2>4. QED BY <1>2, <2>1, <2>2, <2>3 DEF EventValid
<1>5. QED BY <1>3, <1>4

LEMMA BehindInput ==
    ASSUME TypeOK, InOrder, NEW p \in Procs, Behind(p), At(p) \in Stages
    PROVE  Input(p) = From(At(p))
BY AtType DEF Behind, Input, From, At, Stages

LEMMA StagesAreReusable ==
    ASSUME TypeOK, Written, InOrder, NEW k \in Stages, pointer[k] # 0
    PROVE  Reusable(k, From(k))
<1>1. 2 * k - 1 <= Len(journal) /\ StageValid(k, From(k))
  BY DEF InOrder, Between
<1>2. Commits(k) # {} => 2 * k <= Len(journal)
  BY StageRows
<1>3. QED BY <1>1, <1>2, RowsAreValid DEF Reusable

LEMMA ApplicationsAreValid ==
    ASSUME TypeOK, Written, InOrder, Ended, NEW a \in applications,
           current \in {0, a.fence}
    PROVE  ApplicationValid(a)
<1>1. /\ Granted(a.fence) /\ a.snapshot \in snapshots
      /\ a.snapshot.outputs = a.outputs
  BY DEF Ended
<1>2. /\ AllCommitted /\ a.snapshot.sequence = Len(journal)
      /\ Outputs(a.outputs)
  BY <1>1 DEF Ended
<1>3. \A k \in Stages : ChainInput(a.outputs, k) = From(k)
  <2>1. \A k \in Stages : k # 1 => k - 1 \in Stages
    BY StageCountAssumption DEF Stages
  <2>2. QED BY <1>2, <2>1 DEF ChainInput, From, Outputs
<1>4. ASSUME NEW k \in Stages
      PROVE  /\ StageValid(k, From(k))
             /\ EventValid(Starts(k), From(k), 0)
             /\ EventValid(Commits(k), From(k), pointer[k])
             /\ a.outputs[k] = pointer[k]
  <2>1. k \in 1..StageCount /\ Len(journal) = 2 * StageCount
    BY <1>2 DEF AllCommitted, Stages
  <2>2. 2 * k <= Len(journal) /\ 2 * k - 1 <= Len(journal)
    BY <2>1, StageCountAssumption
  <2>3. StageValid(k, From(k))
    BY <2>2 DEF InOrder, Between
  <2>4. QED BY <1>2, <2>2, <2>3, RowsAreValid DEF Outputs
<1>5. QED BY <1>1, <1>2, <1>3, <1>4 DEF ApplicationValid, AllCommitted

-----------------------------------------------------------------------------
(* What a step may leave alone *)

LEMMA WrittenFrame ==
    ASSUME Written, fence \in Nat, fence' \in Nat, fence <= fence',
           UNCHANGED <<journal, pointer>>
    PROVE  Written'
<1>1. ASSUME NEW k \in Stages PROVE Line(k)'
  BY DEF Written, Line, StartedRow, CommittedRow, From
<1>2. ASSUME NEW i \in DOMAIN journal PROVE Dated(i)'
  BY DEF Written, Dated, Granted
<1>3. QED BY <1>1, <1>2 DEF Written

LEMMA InOrderFrame ==
    ASSUME InOrder, fence \in Nat, fence' \in Nat, fence <= fence',
           UNCHANGED <<journal, pointer>>,
           \A k \in Stages : generations[k] \subseteq generations'[k]
    PROVE  InOrder'
<1>1. ASSUME NEW k \in Stages PROVE Between(k)'
  <2>1. From(k)' = From(k)
    BY DEF From
  <2>2. \A f : Granted(f) => Granted(f)'
    BY DEF Granted
  <2>3. ASSUME NEW x, StageValid(k, x) PROVE StageValid(k, x)'
    BY <2>2, <2>3 DEF StageValid
  <2>4. Between(k)
    BY DEF InOrder
  <2>5. QED BY <2>1, <2>3, <2>4 DEF Between
<1>2. QED BY <1>1 DEF InOrder

LEMMA EndedFrame ==
    ASSUME Ended, fence \in Nat, fence' \in Nat, fence <= fence',
           UNCHANGED <<journal, checkpoint, pointer, snapshots, applications, current>>
    PROVE  Ended'
BY DEF Ended, AllCommitted, CheckpointMatches, Outputs, Granted

\* While a row is missing there is no snapshot and no application.
LEMMA NoneYet ==
    ASSUME Ended, Len(journal) # 2 * StageCount
    PROVE  snapshots = {} /\ applications = {} /\ current = 0
BY DEF Ended, AllCommitted

LEMMA Bounds ==
    ASSUME TypeOK
    PROVE  fence \in Nat /\ Len(journal) \in Nat /\ checkpoint \in Nat
           /\ owner \in Procs \cup {NoProc}
BY DEF TypeOK, Lease!TypeOK

LEMMA OthersIdle ==
    ASSUME Alone, NEW p \in Procs, pc[p] # "idle"
    PROVE  /\ owner = p /\ Granted(fence) /\ Placed(p)
           /\ \A q \in Procs : q # p => pc[q] = "idle" /\ prior[q] = <<>>
BY DEF Alone

LEMMA Moved ==
    ASSUME TypeOK, Alone, NEW p \in Procs, pc[p] # "idle", NEW l, Goto(p, l),
           UNCHANGED <<owner, fence>>, l # "idle", prior' \in [Procs -> Seq(Hash)],
           \A q \in Procs : q # p => prior'[q] = prior[q],
           Placed(p)'
    PROVE  Alone'
<1>1. pc'[p] = l /\ \A q \in Procs : q # p => pc'[q] = pc[q]
  BY DEF Goto, TypeOK
<1>2. Granted(fence)'
  BY OthersIdle DEF Granted
<1>3. QED BY <1>1, <1>2, OthersIdle DEF Alone

LEMMA Left ==
    ASSUME TypeOK, Alone, NEW p \in Procs, pc[p] # "idle", Leave(p)
    PROVE  /\ Alone'
           /\ UNCHANGED fence
           /\ Lease!TypeOK'
           /\ pc' \in [Procs -> PCs]
           /\ prior' \in [Procs -> Seq(Hash)]
           /\ \A q \in Procs : Len(prior'[q]) <= StageCount
<1>1. /\ pc' = [pc EXCEPT ![p] = "idle"]
      /\ prior' = [prior EXCEPT ![p] = <<>>]
      /\ owner' = NoProc /\ UNCHANGED <<fence, root, torn>>
  BY DEF Leave, Goto, Lease!Drop
<1>2. \A q \in Procs : pc'[q] = "idle" /\ prior'[q] = <<>>
  BY <1>1, OthersIdle DEF TypeOK
<1>3. Alone'
  BY <1>2 DEF Alone
<1>4. Lease!TypeOK'
  BY <1>1 DEF TypeOK, Lease!TypeOK
<1>5. /\ pc' \in [Procs -> PCs]
      /\ prior' \in [Procs -> Seq(Hash)]
      /\ \A q \in Procs : Len(prior'[q]) <= StageCount
  BY <1>1, <1>2, StageCountAssumption DEF TypeOK, PCs
<1>6. QED BY <1>1, <1>3, <1>4, <1>5

-----------------------------------------------------------------------------
(* Taking, losing and giving back the lease *)

LEMMA InitInv == Init => Inv
<1>1. SUFFICES ASSUME Init PROVE Inv
  OBVIOUS
<1>2. /\ journal = <<>> /\ checkpoint = 0 /\ snapshots = {} /\ applications = {}
      /\ current = 0 /\ replaced = 0 /\ crashes = 0 /\ fence = 0 /\ root = NoRoot
      /\ owner = NoProc /\ torn = FALSE
      /\ generations = [k \in Stages |-> {}]
      /\ pointer = [k \in Stages |-> 0]
      /\ executions = [k \in Stages |-> 0]
      /\ pc = [p \in Procs |-> "idle"]
      /\ prior = [p \in Procs |-> <<>>]
  BY <1>1 DEF Init, Lease!Init
<1>3. TypeOK
  <2>1. journal \in Seq(Row) /\ checkpoint \in 0..Len(journal)
    BY <1>2
  <2>2. prior \in [Procs -> Seq(Hash)] /\ \A p \in Procs : Len(prior[p]) <= StageCount
    BY <1>2, StageCountAssumption
  <2>3. Lease!TypeOK /\ replaced \in 0..MaxReplaced /\ crashes \in 0..MaxCrashes
    <3>1. owner = NoProc /\ fence = 0 /\ root = NoRoot /\ torn = FALSE
      BY <1>2
    <3>2. Lease!TypeOK
      BY <3>1 DEF Lease!TypeOK
    <3>3. replaced = 0 /\ crashes = 0
      BY <1>2
    <3>4. replaced \in 0..MaxReplaced /\ crashes \in 0..MaxCrashes
      BY <3>3, BoundsAssumption
    <3>5. QED BY <3>2, <3>4
  <2>4. /\ generations \in [Stages -> SUBSET Generation]
        /\ pointer \in [Stages -> Hash]
        /\ executions \in [Stages -> Nat]
        /\ snapshots \subseteq Snapshot
        /\ applications \subseteq Application
        /\ current \in Hash
        /\ pc \in [Procs -> PCs]
    BY <1>2 DEF Hash, PCs
  <2>5. QED BY <2>1, <2>2, <2>3, <2>4 DEF TypeOK
<1>4. Written /\ InOrder /\ Ended /\ Alone
  <2>1. \A k \in Stages : Line(k) /\ Between(k)
    <3>1. \A k \in Stages : k \in Nat \ {0} /\ pointer[k] = 0
      BY <1>2, StageCountAssumption DEF Stages
    <3>2. Len(journal) = 0 /\ DOMAIN journal = {}
      BY <1>2
    <3>3. QED BY <3>1, <3>2 DEF Line, Between
  <2>2. Written /\ InOrder
    BY <1>2, <2>1, StageCountAssumption DEF Written, InOrder
  <2>3. Ended /\ Alone
    BY <1>2 DEF Ended, Alone
  <2>4. QED BY <2>2, <2>3
<1>5. QED BY <1>3, <1>4 DEF Inv

LEMMA AcquireInv ==
    ASSUME Inv, NEW p \in Procs, Acquire(p)
    PROVE  Inv'
<1>1. TypeOK /\ Written /\ InOrder /\ Ended /\ Alone
  BY DEF Inv
<1>2. /\ owner = NoProc /\ owner' = p /\ fence' = fence + 1 /\ root' = AppSpec
      /\ torn' = torn /\ pc[p] = "idle" /\ pc' = [pc EXCEPT ![p] = "acquired"]
      /\ UNCHANGED <<replaced, files, prior, crashes>>
  BY DEF Acquire, Lease!Grant, Goto
<1>3. fence \in Nat /\ fence' \in Nat /\ fence <= fence'
  BY <1>1, <1>2, Bounds
<1>4. TypeOK'
  BY <1>1, <1>2, <1>3 DEF TypeOK, Lease!TypeOK, PCs, files
<1>5. Written' /\ InOrder' /\ Ended'
  BY <1>1, <1>2, <1>3, WrittenFrame, InOrderFrame, EndedFrame DEF files
<1>6. \A q \in Procs : pc[q] = "idle" /\ prior[q] = <<>>
  BY <1>1, <1>2, NoProcAssumption DEF Alone
<1>7. Placed(p)'
  BY <1>1, <1>2, <1>6 DEF Placed, TypeOK
<1>8. Alone'
  <2>1. Granted(fence)'
    BY <1>2, <1>3 DEF Granted
  <2>2. QED BY <1>1, <1>2, <1>6, <1>7, <2>1 DEF Alone, TypeOK
<1>9. QED BY <1>4, <1>5, <1>8 DEF Inv

LEMMA LeaveInv ==
    ASSUME Inv, NEW p \in Procs, pc[p] # "idle", Leave(p),
           UNCHANGED <<replaced, files>>, crashes' \in 0..MaxCrashes
    PROVE  Inv'
<1>1. TypeOK /\ Written /\ InOrder /\ Ended /\ Alone
  BY DEF Inv
<1>2. /\ Alone' /\ UNCHANGED fence /\ Lease!TypeOK' /\ pc' \in [Procs -> PCs]
      /\ prior' \in [Procs -> Seq(Hash)]
      /\ \A q \in Procs : Len(prior'[q]) <= StageCount
  BY <1>1, Left
<1>3. TypeOK'
  BY <1>1, <1>2 DEF TypeOK, files
<1>4. Written' /\ InOrder' /\ Ended'
  BY <1>1, <1>2, Bounds, WrittenFrame, InOrderFrame, EndedFrame DEF files
<1>5. QED BY <1>2, <1>3, <1>4 DEF Inv

LEMMA LosesInv ==
    ASSUME Inv, NEW p \in Procs, Release(p) \/ LoseLease(p) \/ Crash(p)
    PROVE  Inv'
<1>1. pc[p] # "idle" /\ Leave(p) /\ UNCHANGED <<replaced, files>>
  BY DEF Release, LoseLease, Crash
<1>2. crashes' \in 0..MaxCrashes
  BY BoundsAssumption DEF Inv, TypeOK, Release, LoseLease, Crash
<1>3. QED BY <1>1, <1>2, LeaveInv

LEMMA TearLeaseInv ==
    ASSUME Inv, TearLease
    PROVE  Inv'
<1>1. TypeOK /\ Written /\ InOrder /\ Ended /\ Alone
  BY DEF Inv
<1>2. /\ torn' = TRUE /\ owner' = NoProc /\ UNCHANGED <<fence, root>>
      /\ crashes < MaxCrashes /\ crashes' = crashes + 1
      /\ pc' = [p \in Procs |-> "idle"]
      /\ prior' = [p \in Procs |-> <<>>]
      /\ UNCHANGED <<replaced, files>>
  BY DEF TearLease, Lease!Tear
<1>3. TypeOK'
  BY <1>1, <1>2, BoundsAssumption, StageCountAssumption
  DEF TypeOK, Lease!TypeOK, PCs, files
<1>4. Written' /\ InOrder' /\ Ended'
  BY <1>1, <1>2, Bounds, WrittenFrame, InOrderFrame, EndedFrame DEF files
<1>5. Alone'
  BY <1>2 DEF Alone
<1>6. QED BY <1>3, <1>4, <1>5 DEF Inv

\* The environment replaces the lock file, or nothing happens.
LEMMA StillInv ==
    ASSUME Inv, UNCHANGED <<lease, files, pc, prior, crashes>>,
           replaced' \in 0..MaxReplaced
    PROVE  Inv'
<1>1. TypeOK /\ Written /\ InOrder /\ Ended /\ Alone
  BY DEF Inv
<1>2. TypeOK'
  BY <1>1 DEF TypeOK, Lease!TypeOK, files, lease
<1>3. Written' /\ InOrder' /\ Ended'
  BY <1>1, Bounds, WrittenFrame, InOrderFrame, EndedFrame DEF files, lease
<1>4. \A p \in Procs : Placed(p) => Placed(p)'
  BY DEF Placed, Behind, Unpublished, AtStage, At, Input, Handed, files, lease
<1>5. Alone'
  BY <1>1, <1>4 DEF Alone, Granted, lease
<1>6. QED BY <1>2, <1>3, <1>5 DEF Inv

-----------------------------------------------------------------------------
(* The steps that only read *)

LEMMA ReadsOnly ==
    ASSUME Inv, NEW p \in Procs, pc[p] # "idle", NEW l \in PCs \ {"idle"},
           Goto(p, l), UNCHANGED <<lease, replaced, files, crashes>>,
           prior' \in [Procs -> Seq(Hash)],
           \A q \in Procs : Len(prior'[q]) <= StageCount,
           \A q \in Procs : q # p => prior'[q] = prior[q],
           Placed(p)'
    PROVE  Inv'
<1>1. TypeOK /\ Written /\ InOrder /\ Ended /\ Alone
  BY DEF Inv
<1>2. pc' \in [Procs -> PCs]
  BY <1>1 DEF TypeOK, Goto
<1>3. TypeOK'
  BY <1>1, <1>2 DEF TypeOK, Lease!TypeOK, files, lease
<1>4. Written' /\ InOrder' /\ Ended'
  BY <1>1, Bounds, WrittenFrame, InOrderFrame, EndedFrame DEF files, lease
<1>5. Alone'
  BY <1>1, Moved DEF lease
<1>6. QED BY <1>3, <1>4, <1>5 DEF Inv

\* The same with what the run has in hand left alone.
LEMMA LooksOnly ==
    ASSUME Inv, NEW p \in Procs, pc[p] # "idle", NEW l \in PCs \ {"idle"},
           Goto(p, l), UNCHANGED <<lease, replaced, files, prior, crashes>>,
           pc'[p] = l => Placed(p)'
    PROVE  Inv'
<1>1. pc'[p] = l
  BY DEF Inv, TypeOK, Goto
<1>2. /\ prior' \in [Procs -> Seq(Hash)]
      /\ \A q \in Procs : Len(prior'[q]) <= StageCount
      /\ \A q \in Procs : q # p => prior'[q] = prior[q]
  BY DEF Inv, TypeOK
<1>3. QED BY <1>1, <1>2, ReadsOnly

LEMMA FindInv ==
    ASSUME Inv, NEW p \in Procs, Find(p)
    PROVE  Inv'
<1>1. TypeOK /\ Written /\ InOrder /\ Ended /\ Alone
  BY DEF Inv
<1>2. pc[p] = "acquired" /\ UNCHANGED <<lease, replaced, files, prior, crashes>>
  BY DEF Find, Runs
<1>3. prior[p] = <<>> /\ Len(journal) \in Nat
  BY <1>1, <1>2, OthersIdle, Bounds DEF Placed
<1>4. CASE current # 0
  <2>1. Goto(p, "verify")
    BY <1>4 DEF Find
  <2>2. pc'[p] = "verify" => Placed(p)'
    BY <1>2, <1>4 DEF Placed, files
  <2>3. QED BY <1>2, <2>1, <2>2, LooksOnly DEF PCs
<1>5. CASE current = 0 /\ applications = {}
  <2>1. Goto(p, "look")
    BY <1>5 DEF Find
  <2>2. pc'[p] = "look" => Placed(p)'
    BY <1>2, <1>3, <1>5 DEF Placed, Behind, Unpublished, files
  <2>3. QED BY <1>2, <2>1, <2>2, LooksOnly DEF PCs
<1>6. CASE current = 0 /\ applications # {}
  <2>1. PICK a \in applications : applications = {a}
    <3>1. PICK a : a \in applications
      BY <1>6
    <3>2. \A b \in applications : b = a
      BY <1>1, <3>1 DEF Ended
    <3>3. QED BY <3>1, <3>2
  <2>2. Cardinality(applications) = 1
    BY <2>1, FS_Singleton
  <2>3. ApplicationValid(a)
    BY <1>1, <1>6, <2>1, ApplicationsAreValid
  <2>4. \A b \in applications : ApplicationValid(b)
    BY <2>1, <2>3
  <2>5. Goto(p, "adopt")
    BY <1>6, <2>2, <2>4 DEF Find
  <2>6. pc'[p] = "adopt" => Placed(p)'
    BY <1>2, <1>3, <1>6 DEF Placed, files
  <2>7. QED BY <1>2, <2>5, <2>6, LooksOnly DEF PCs
<1>7. QED BY <1>4, <1>5, <1>6

LEMMA ReuseInv ==
    ASSUME Inv, NEW p \in Procs, Reuse(p)
    PROVE  Inv'
<1>1. TypeOK /\ Written /\ InOrder /\ Ended /\ Alone
  BY DEF Inv
<1>2. /\ pc[p] = "look" /\ At(p) \in Stages /\ pointer[At(p)] # 0
      /\ UNCHANGED <<lease, replaced, files, crashes>>
  BY DEF Reuse, Runs
<1>3. Behind(p) /\ Unpublished
  BY <1>1, <1>2, OthersIdle DEF Placed
<1>4. /\ Len(prior[p]) \in Nat /\ At(p) = Len(prior[p]) + 1 /\ prior[p] \in Seq(Nat)
      /\ Len(journal) \in Nat /\ At(p) \in 1..StageCount
  BY <1>1, <1>2, AtType, Bounds DEF Stages
<1>5. Reusable(At(p), Input(p))
  BY <1>1, <1>2, <1>3, BehindInput, StagesAreReusable
<1>6. CASE Commits(At(p)) # {}
  <2>1. 2 * At(p) <= Len(journal)
    BY <1>1, <1>2, <1>6, StageRows
  <2>2. /\ prior' = [prior EXCEPT ![p] = Append(prior[p], pointer[At(p)])]
        /\ pc' = pc
    BY <1>5, <1>6 DEF Reuse
  <2>3. pointer[At(p)] \in Nat
    BY <1>1, <1>2 DEF TypeOK, Hash
  <2>4. /\ prior'[p] = Append(prior[p], pointer[At(p)])
        /\ \A q \in Procs : q # p => prior'[q] = prior[q]
        /\ prior'[p] \in Seq(Nat)
    BY <1>1, <1>4, <2>2, <2>3 DEF TypeOK
  <2>5. /\ Len(prior'[p]) = At(p)
        /\ \A i \in 1..Len(prior'[p]) : prior'[p][i] = pointer[i]
    BY <1>3, <1>4, <2>3, <2>4 DEF Behind
  <2>6. prior' \in [Procs -> Seq(Hash)] /\ \A q \in Procs : Len(prior'[q]) <= StageCount
    BY <1>1, <1>4, <2>2, <2>4, <2>5 DEF TypeOK, Hash
  <2>7. Behind(p)' /\ Unpublished'
    BY <1>2, <1>3, <2>1, <2>5 DEF Behind, Unpublished, files
  <2>8. pc'[p] = "look"
    BY <1>2, <2>2
  <2>9. Placed(p)'
    BY <2>7, <2>8 DEF Placed
  <2>10. Goto(p, "look")
    BY <1>1, <1>2, <2>2 DEF Goto, TypeOK
  <2>11. QED BY <1>2, <2>4, <2>6, <2>9, <2>10, ReadsOnly DEF PCs
<1>7. CASE Commits(At(p)) = {}
  <2>1. Goto(p, "commit") /\ UNCHANGED prior
    BY <1>5, <1>7 DEF Reuse
  <2>2. Len(journal) < 2 * At(p)
    <3>1. ~ (2 * At(p) <= Len(journal))
      BY <1>1, <1>2, <1>7, StageRows
    <3>2. QED BY <1>4, <3>1
  <2>3. 2 * At(p) - 1 <= Len(journal)
    BY <1>1, <1>2 DEF InOrder, Between
  <2>4. AtStage(p, 1)
    BY <1>2, <1>4, <2>2, <2>3 DEF AtStage
  <2>5. AtStage(p, 1)' /\ Behind(p)' /\ Unpublished' /\ pointer'[At(p)'] # 0
    BY <1>2, <1>3, <2>1, <2>4 DEF AtStage, Behind, Unpublished, At, files
  <2>6. pc'[p] = "commit" => Placed(p)'
    BY <2>5 DEF Placed
  <2>7. QED BY <1>2, <2>1, <2>6, LooksOnly DEF PCs
<1>8. QED BY <1>6, <1>7

LEMMA EnterInv ==
    ASSUME Inv, NEW p \in Procs, Enter(p)
    PROVE  Inv'
<1>1. TypeOK /\ Written /\ InOrder /\ Ended /\ Alone
  BY DEF Inv
<1>2. /\ pc[p] = "look" /\ At(p) \in Stages /\ pointer[At(p)] = 0
      /\ UNCHANGED <<lease, replaced, files, prior, crashes>>
  BY DEF Enter, Runs
<1>3. Behind(p) /\ Unpublished
  BY <1>1, <1>2, OthersIdle DEF Placed
<1>4. /\ Len(prior[p]) \in Nat /\ At(p) = Len(prior[p]) + 1
      /\ Len(journal) \in Nat /\ 2 * Len(prior[p]) <= Len(journal)
  BY <1>1, <1>2, <1>3, AtType, Bounds DEF Behind
<1>5. Len(journal) < 2 * At(p)
  BY <1>1, <1>2, <1>4 DEF InOrder, Between
<1>6. Commits(At(p)) = {}
  BY <1>1, <1>2, <1>4, <1>5, StageRows
<1>7. Behind(p)' /\ Unpublished' /\ At(p)' = At(p) /\ pointer' = pointer
  BY <1>2, <1>3 DEF Behind, Unpublished, At, files
<1>8. CASE Starts(At(p)) = {}
  <2>1. Goto(p, "start")
    BY <1>6, <1>8 DEF Enter
  <2>2. Len(journal) < 2 * At(p) - 1
    <3>1. ~ (2 * At(p) - 1 <= Len(journal))
      BY <1>1, <1>2, <1>8, StageRows
    <3>2. QED BY <1>4, <3>1
  <2>3. AtStage(p, 0)'
    BY <1>2, <1>4, <1>7, <2>2 DEF AtStage, files
  <2>4. pc'[p] = "start" => Placed(p)'
    BY <1>2, <1>7, <2>3 DEF Placed
  <2>5. QED BY <1>2, <2>1, <2>4, LooksOnly DEF PCs
<1>9. CASE Starts(At(p)) # {}
  <2>1. 2 * At(p) - 1 <= Len(journal)
    BY <1>1, <1>2, <1>9, StageRows
  <2>2. EventValid(Starts(At(p)), Input(p), 0)
    BY <1>1, <1>2, <1>3, <2>1, BehindInput, RowsAreValid
  <2>3. Goto(p, "execute")
    BY <1>6, <1>9, <2>2 DEF Enter
  <2>4. AtStage(p, 1)'
    BY <1>2, <1>4, <1>5, <1>7, <2>1 DEF AtStage, files
  <2>5. pc'[p] = "execute" => Placed(p)'
    BY <1>2, <1>7, <2>4 DEF Placed
  <2>6. QED BY <1>2, <2>3, <2>5, LooksOnly DEF PCs
<1>10. QED BY <1>8, <1>9

LEMMA SnapshotRefusedInv ==
    ASSUME Inv, NEW p \in Procs, SnapshotRefused(p)
    PROVE  Inv'
<1>1. TypeOK /\ Written /\ InOrder /\ Ended /\ Alone
  BY DEF Inv
<1>2. /\ pc[p] = "look" /\ At(p) \notin Stages /\ checkpoint # Len(journal)
      /\ Goto(p, "failed") /\ UNCHANGED <<lease, replaced, files, prior, crashes>>
  BY DEF SnapshotRefused, Runs, CheckpointMatches
<1>3. Behind(p)
  BY <1>1, <1>2, OthersIdle DEF Placed
<1>4. Len(prior[p]) = StageCount
  BY <1>1, <1>2, AtType, StageCountAssumption DEF Stages
<1>5. Len(journal) = 2 * StageCount /\ checkpoint < Len(journal)
  BY <1>1, <1>2, <1>3, <1>4, StageCountAssumption, Bounds DEF Behind, Written, TypeOK
<1>6. pc'[p] = "failed" => Placed(p)'
  BY <1>2, <1>5 DEF Placed, files
<1>7. QED BY <1>2, <1>6, LooksOnly DEF PCs

LEMMA VerifyInv ==
    ASSUME Inv, NEW p \in Procs, Verify(p)
    PROVE  Inv'
<1>1. TypeOK /\ Written /\ InOrder /\ Ended /\ Alone
  BY DEF Inv
<1>2. pc[p] = "verify" /\ UNCHANGED <<lease, replaced, files, prior, crashes>>
  BY DEF Verify, Runs
<1>3. current # 0
  BY <1>1, <1>2, OthersIdle DEF Placed
<1>4. \E a \in applications : a.fence = current /\ ApplicationValid(a)
  BY <1>1, <1>3, ApplicationsAreValid DEF Ended
<1>5. Goto(p, "returning")
  BY <1>4 DEF Verify
<1>6. pc'[p] = "returning" => Placed(p)'
  BY DEF Placed
<1>7. QED BY <1>2, <1>5, <1>6, LooksOnly DEF PCs

-----------------------------------------------------------------------------
(* The rows of the journal *)

\* A row at the end of the journal, the one that the run's stage has to have.
LEMMA RowAppended ==
    ASSUME TypeOK, Written, InOrder, NEW r \in Row, NEW k \in Stages,
           journal' = Append(journal, r), UNCHANGED <<fence, pointer, generations>>,
           Granted(fence), r.fence = fence,
           \/ Len(journal) = 2 * k - 2 /\ r = StartedRow(k, fence)
           \/ Len(journal) = 2 * k - 1 /\ r = CommittedRow(k, fence) /\ pointer[k] # 0
    PROVE  /\ Written' /\ InOrder'
           /\ journal' \in Seq(Row) /\ Len(journal') = Len(journal) + 1
<1> DEFINE n == Len(journal)
<1>1. /\ n \in Nat /\ Len(journal') = n + 1 /\ journal' \in Seq(Row)
      /\ DOMAIN journal = 1..n /\ DOMAIN journal' = 1..(n + 1)
      /\ journal'[n + 1] = r
      /\ \A i \in 1..n : journal'[i] = journal[i]
  BY DEF TypeOK
<1>2. k \in 1..StageCount /\ StageCount \in Nat
  BY StageCountAssumption DEF Stages
<1>3. n = 2 * k - 2 \/ n = 2 * k - 1
  OBVIOUS
<1>4. n + 1 <= 2 * StageCount
  BY <1>1, <1>2, <1>3
<1> HIDE DEF n
<1>5. ASSUME NEW m \in Stages PROVE Line(m)'
  <2>1. m \in Nat \ {0}
    BY <1>2 DEF Stages
  <2>2. From(m)' = From(m) /\ pointer' = pointer
    BY DEF From
  <2>3. Line(m)
    BY DEF Written
  <2>4. CASE 2 * m - 1 = n + 1
    <3>1. m = k /\ n = 2 * k - 2
      BY <1>2, <1>3, <2>1, <2>4
    <3>2. r = StartedRow(k, fence)
      BY <1>2, <3>1 DEF n
    <3>3. journal'[2 * m - 1] = r
      BY <1>1, <2>4
    <3>4. 2 * m \notin DOMAIN journal'
      BY <1>1, <2>1, <2>4
    <3>5. QED BY <2>2, <3>1, <3>2, <3>3, <3>4 DEF Line, StartedRow
  <2>5. CASE 2 * m = n + 1
    <3>1. m = k /\ n = 2 * k - 1
      BY <1>2, <1>3, <2>1, <2>5
    <3>2. r = CommittedRow(k, fence)
      BY <1>2, <3>1 DEF n
    <3>3. journal'[2 * m] = r
      BY <1>1, <2>5
    <3>4. 2 * m - 1 \in 1..n
      BY <1>1, <2>1, <2>5
    <3>5. journal'[2 * m - 1] = StartedRow(m, journal'[2 * m - 1].fence)
      BY <1>1, <2>3, <3>4 DEF Line
    <3>6. QED BY <2>2, <3>1, <3>2, <3>3, <3>5 DEF Line, StartedRow, CommittedRow
  <2>6. CASE 2 * m # n + 1 /\ 2 * m - 1 # n + 1
    <3>1. /\ 2 * m - 1 \in 1..(n + 1) => 2 * m - 1 \in 1..n
          /\ 2 * m \in 1..(n + 1) => 2 * m \in 1..n
      BY <1>1, <2>1, <2>6
    <3>2. /\ 2 * m - 1 \in DOMAIN journal' =>
                journal'[2 * m - 1] = StartedRow(m, journal'[2 * m - 1].fence)
          /\ 2 * m \in DOMAIN journal' =>
                journal'[2 * m] = CommittedRow(m, journal'[2 * m].fence)
      BY <1>1, <2>3, <3>1 DEF Line
    <3>3. QED BY <2>2, <3>2 DEF Line, StartedRow, CommittedRow
  <2>7. QED BY <2>4, <2>5, <2>6
<1>6. ASSUME NEW i \in DOMAIN journal' PROVE Dated(i)'
  <2>1. CASE i = n + 1
    <3>1. journal'[i].fence = fence /\ fence' = fence
      BY <1>1, <2>1
    <3>2. ASSUME i > 1 PROVE journal'[i - 1].fence <= journal'[i].fence
      <4>1. i - 1 \in 1..n /\ i - 1 \in DOMAIN journal
        BY <1>1, <2>1, <3>2
      <4>2. Granted(journal[i - 1].fence) /\ fence \in Nat
        BY <4>1, Bounds DEF Written, Dated
      <4>3. journal'[i - 1] = journal[i - 1]
        BY <1>1, <4>1
      <4>4. QED BY <3>1, <4>2, <4>3 DEF Granted
    <3>3. QED BY <3>1, <3>2 DEF Dated, Granted
  <2>2. CASE i # n + 1
    <3>1. i \in 1..n /\ i \in DOMAIN journal
      BY <1>1, <2>2
    <3>2. Dated(i)
      BY <3>1 DEF Written
    <3>3. journal'[i] = journal[i]
      BY <1>1, <3>1
    <3>4. i > 1 => journal'[i - 1] = journal[i - 1]
      BY <1>1, <3>1
    <3>5. QED BY <3>2, <3>3, <3>4 DEF Dated, Granted
  <2>3. QED BY <2>1, <2>2
<1>7. Written'
  BY <1>1, <1>4, <1>5, <1>6 DEF Written
<1>8. ASSUME NEW m \in Stages PROVE Between(m)'
  <2>1. m \in Nat \ {0}
    BY <1>2 DEF Stages
  <2>2. Between(m)
    BY DEF InOrder
  <2>3. StageValid(m, From(m)) => StageValid(m, From(m))'
    BY DEF StageValid, From, Granted
  <2>4. 2 * m <= n + 1 => pointer[m] # 0
    <3>1. CASE 2 * m = n + 1
      <4>1. m = k /\ n = 2 * k - 1
        BY <1>2, <1>3, <2>1, <3>1
      <4>2. QED BY <1>2, <4>1 DEF n
    <3>2. CASE 2 * m # n + 1
      BY <1>1, <2>1, <2>2, <3>2 DEF Between, n
    <3>3. QED BY <3>1, <3>2
  <2>5. pointer[m] # 0 => 2 * m - 1 <= n + 1
    BY <1>1, <2>1, <2>2 DEF Between, n
  <2>6. QED BY <1>1, <2>2, <2>3, <2>4, <2>5 DEF Between
<1>9. InOrder'
  BY <1>8 DEF InOrder
<1>10. QED BY <1>1, <1>7, <1>9 DEF n

\* Nothing is published yet when a row is written.
LEMMA EndedAppend ==
    ASSUME TypeOK, Ended, Len(journal) < 2 * StageCount,
           UNCHANGED <<snapshots, applications, current>>
    PROVE  Ended'
<1>1. snapshots = {} /\ applications = {} /\ current = 0
  BY NoneYet, Bounds, StageCountAssumption
<1>2. QED BY <1>1 DEF Ended

LEMMA JournaledInv ==
    ASSUME Inv, NEW p \in Procs, pc[p] # "idle", NEW l \in PCs \ {"idle"},
           Goto(p, l), NEW r \in Row, NEW k \in Stages,
           journal' = Append(journal, r), r.fence = fence,
           UNCHANGED <<lease, replaced, checkpoint, generations, pointer,
                       executions, snapshots, applications, current, prior, crashes>>,
           \/ Len(journal) = 2 * k - 2 /\ r = StartedRow(k, fence)
           \/ Len(journal) = 2 * k - 1 /\ r = CommittedRow(k, fence) /\ pointer[k] # 0,
           pc'[p] = l /\ Len(journal') = Len(journal) + 1 => Placed(p)'
    PROVE  Inv'
<1>1. TypeOK /\ Written /\ InOrder /\ Ended /\ Alone
  BY DEF Inv
<1>2. Granted(fence) /\ UNCHANGED <<owner, fence, root, torn>>
  BY <1>1, OthersIdle DEF lease
<1>3. /\ Written' /\ InOrder'
      /\ journal' \in Seq(Row) /\ Len(journal') = Len(journal) + 1
  BY <1>1, <1>2, RowAppended
<1>4. pc'[p] = l /\ pc' \in [Procs -> PCs]
  BY <1>1 DEF TypeOK, Goto
<1>5. checkpoint' \in 0..Len(journal')
  BY <1>1, <1>3, Bounds DEF TypeOK
<1>6. TypeOK'
  BY <1>1, <1>2, <1>3, <1>4, <1>5 DEF TypeOK, Lease!TypeOK
<1>7. Len(journal) < 2 * StageCount
  BY <1>1, StageCountAssumption, Bounds DEF Stages
<1>8. Ended'
  BY <1>1, <1>7, EndedAppend
<1>9. prior' \in [Procs -> Seq(Hash)] /\ \A q \in Procs : q # p => prior'[q] = prior[q]
  BY <1>1 DEF TypeOK
<1>10. Alone'
  BY <1>1, <1>2, <1>3, <1>4, <1>9, Moved
<1>11. QED BY <1>3, <1>6, <1>8, <1>10 DEF Inv

LEMMA StartInv ==
    ASSUME Inv, NEW p \in Procs, Start(p)
    PROVE  Inv'
<1>1. TypeOK /\ Written /\ InOrder /\ Ended /\ Alone
  BY DEF Inv
<1>2. /\ pc[p] = "start"
      /\ UNCHANGED <<lease, replaced, checkpoint, generations, pointer,
                     executions, snapshots, applications, current, prior, crashes>>
  BY DEF Start, Runs
<1>3. /\ Behind(p) /\ Unpublished /\ AtStage(p, 0) /\ pointer[At(p)] = 0
      /\ Granted(fence)
  BY <1>1, <1>2, OthersIdle DEF Placed
<1>4. /\ At(p) \in Stages /\ At(p) = Len(prior[p]) + 1 /\ Len(prior[p]) \in Nat
      /\ Len(journal) = 2 * At(p) - 2 /\ Input(p) = From(At(p)) /\ Input(p) \in Nat
      /\ fence \in Nat
  BY <1>1, <1>3, AtType, BehindInput, Bounds DEF AtStage
<1>5. Starts(At(p)) = {}
  <2>1. ~ (2 * At(p) - 1 <= Len(journal))
    BY <1>4
  <2>2. QED BY <1>1, <1>4, <2>1, StageRows
<1>6. StartedRow(At(p), fence) \in Row
  BY <1>4 DEF StartedRow, Row, Hash
<1>7. journal' = Append(journal, StartedRow(At(p), fence)) /\ Goto(p, "started")
  BY <1>4, <1>5 DEF Start, AppendRow, Starts, StartedRow
<1>8. StartedRow(At(p), fence).fence = fence
  BY DEF StartedRow
<1>9. ASSUME pc'[p] = "started", Len(journal') = Len(journal) + 1
      PROVE  Placed(p)'
  <2>1. Behind(p)'
    BY <1>2, <1>3, <1>4, <1>9 DEF Behind
  <2>2. AtStage(p, 1)' /\ pointer'[At(p)'] = 0 /\ Unpublished'
    BY <1>2, <1>3, <1>4, <1>9 DEF AtStage, At, Unpublished
  <2>3. QED BY <1>9, <2>1, <2>2 DEF Placed
<1>10. QED BY <1>2, <1>4, <1>6, <1>7, <1>8, <1>9, JournaledInv DEF PCs

LEMMA CommitInv ==
    ASSUME Inv, NEW p \in Procs, Commit(p)
    PROVE  Inv'
<1>1. TypeOK /\ Written /\ InOrder /\ Ended /\ Alone
  BY DEF Inv
<1>2. /\ pc[p] = "commit"
      /\ UNCHANGED <<lease, replaced, checkpoint, generations, pointer,
                     executions, snapshots, applications, current, prior, crashes>>
  BY DEF Commit, Runs
<1>3. /\ Behind(p) /\ Unpublished /\ AtStage(p, 1) /\ pointer[At(p)] # 0
      /\ Granted(fence)
  BY <1>1, <1>2, OthersIdle DEF Placed
<1>4. /\ At(p) \in Stages /\ At(p) = Len(prior[p]) + 1 /\ Len(prior[p]) \in Nat
      /\ Len(journal) = 2 * At(p) - 1 /\ Input(p) = From(At(p)) /\ Input(p) \in Nat
      /\ fence \in Nat /\ pointer[At(p)] \in Nat
  <2>1. At(p) \in Stages /\ Len(journal) = 2 * Len(prior[p]) + 1
    BY <1>3 DEF AtStage
  <2>2. pointer[At(p)] \in Nat
    BY <1>1, <2>1 DEF TypeOK, Hash
  <2>3. QED BY <1>1, <1>3, <2>1, <2>2, AtType, BehindInput, Bounds
<1>5. Commits(At(p)) = {}
  <2>1. ~ (2 * At(p) <= Len(journal))
    BY <1>4
  <2>2. QED BY <1>1, <1>4, <2>1, StageRows
<1>6. CommittedRow(At(p), fence) \in Row
  BY <1>4 DEF CommittedRow, Row, Hash
<1>7. journal' = Append(journal, CommittedRow(At(p), fence)) /\ Goto(p, "committed")
  BY <1>4, <1>5 DEF Commit, AppendRow, Commits, CommittedRow
<1>8. CommittedRow(At(p), fence).fence = fence
  BY DEF CommittedRow
<1>9. ASSUME pc'[p] = "committed", Len(journal') = Len(journal) + 1
      PROVE  Placed(p)'
  <2>1. Behind(p)'
    BY <1>2, <1>3, <1>4, <1>9 DEF Behind
  <2>2. AtStage(p, 2)' /\ Unpublished'
    BY <1>2, <1>3, <1>4, <1>9 DEF AtStage, At, Unpublished
  <2>3. QED BY <1>9, <2>1, <2>2 DEF Placed
<1>10. QED BY <1>2, <1>3, <1>4, <1>6, <1>7, <1>8, <1>9, JournaledInv DEF PCs

-----------------------------------------------------------------------------
(* The other writes *)

\* A step that writes anything but the journal, the pointers and what the run
\* has in hand.
LEMMA WritesInv ==
    ASSUME Inv, NEW p \in Procs, pc[p] # "idle", NEW l \in PCs \ {"idle"},
           Goto(p, l), UNCHANGED <<lease, replaced, journal, pointer, crashes>>,
           checkpoint' \in 0..Len(journal),
           generations' \in [Stages -> SUBSET Generation],
           \A k \in Stages : generations[k] \subseteq generations'[k],
           executions' \in [Stages -> Nat],
           snapshots' \subseteq Snapshot,
           applications' \subseteq Application,
           current' \in Hash,
           prior' \in [Procs -> Seq(Hash)],
           \A q \in Procs : Len(prior'[q]) <= StageCount,
           \A q \in Procs : q # p => prior'[q] = prior[q],
           Ended',
           pc'[p] = l => Placed(p)'
    PROVE  Inv'
<1>1. TypeOK /\ Written /\ InOrder /\ Ended /\ Alone
  BY DEF Inv
<1>2. pc'[p] = l /\ pc' \in [Procs -> PCs]
  BY <1>1 DEF TypeOK, Goto
<1>3. TypeOK'
  BY <1>1, <1>2 DEF TypeOK, Lease!TypeOK, lease
<1>4. Written' /\ InOrder'
  BY <1>1, Bounds, WrittenFrame, InOrderFrame DEF lease
<1>5. Alone'
  BY <1>1, <1>2, Moved DEF lease
<1>6. QED BY <1>3, <1>4, <1>5 DEF Inv

\* The checkpoint is brought up to the journal.
LEMMA EndedCheckpoint ==
    ASSUME Ended, checkpoint' = Len(journal),
           UNCHANGED <<journal, pointer, snapshots, applications, current, fence>>
    PROVE  Ended'
BY DEF Ended, AllCommitted, CheckpointMatches, Outputs, Granted

LEMMA StartedInv ==
    ASSUME Inv, NEW p \in Procs, Started(p)
    PROVE  Inv'
<1>1. TypeOK /\ Written /\ InOrder /\ Ended /\ Alone
  BY DEF Inv
<1>2. /\ pc[p] = "started" /\ checkpoint' = Len(journal) /\ Goto(p, "execute")
      /\ UNCHANGED <<lease, replaced, journal, generations, pointer, executions,
                     snapshots, applications, current, prior, crashes>>
  BY DEF Started
<1>3. Placed(p)
  BY <1>1, <1>2, OthersIdle
<1>4. Ended'
  BY <1>1, <1>2, EndedCheckpoint DEF lease
<1>5. pc'[p] = "execute" => Placed(p)'
  BY <1>2, <1>3 DEF Placed, Behind, Unpublished, AtStage, At
<1>6. checkpoint' \in 0..Len(journal)
  BY <1>1, <1>2, Bounds
<1>7. QED BY <1>1, <1>2, <1>4, <1>5, <1>6, WritesInv DEF TypeOK, PCs

LEMMA CommittedInv ==
    ASSUME Inv, NEW p \in Procs, Committed(p)
    PROVE  Inv'
<1>1. TypeOK /\ Written /\ InOrder /\ Ended /\ Alone
  BY DEF Inv
<1>2. /\ pc[p] = "committed" /\ checkpoint' = Len(journal) /\ Goto(p, "look")
      /\ prior' = [prior EXCEPT ![p] = Append(prior[p], pointer[At(p)])]
      /\ UNCHANGED <<lease, replaced, journal, generations, pointer, executions,
                     snapshots, applications, current, crashes>>
  BY DEF Committed
<1>3. Behind(p) /\ Unpublished /\ AtStage(p, 2)
  BY <1>1, <1>2, OthersIdle DEF Placed
<1>4. /\ Len(prior[p]) \in Nat /\ At(p) = Len(prior[p]) + 1 /\ prior[p] \in Seq(Nat)
      /\ At(p) \in 1..StageCount /\ At(p) \in Stages /\ Len(journal) = 2 * At(p)
  BY <1>1, <1>3, AtType DEF AtStage, Stages
<1>5. pointer[At(p)] \in Nat
  BY <1>1, <1>4 DEF TypeOK, Hash
<1>6. /\ prior'[p] = Append(prior[p], pointer[At(p)])
      /\ \A q \in Procs : q # p => prior'[q] = prior[q]
      /\ prior'[p] \in Seq(Nat)
  BY <1>1, <1>2, <1>4, <1>5 DEF TypeOK
<1>7. /\ Len(prior'[p]) = At(p)
      /\ \A i \in 1..Len(prior'[p]) : prior'[p][i] = pointer[i]
  BY <1>3, <1>4, <1>5, <1>6 DEF Behind
<1>8. prior' \in [Procs -> Seq(Hash)] /\ \A q \in Procs : Len(prior'[q]) <= StageCount
  BY <1>1, <1>2, <1>4, <1>6, <1>7 DEF TypeOK, Hash
<1>9. Behind(p)' /\ Unpublished'
  BY <1>2, <1>3, <1>4, <1>7 DEF Behind, Unpublished
<1>10. pc'[p] = "look" => Placed(p)'
  BY <1>9 DEF Placed
<1>11. Ended'
  BY <1>1, <1>2, EndedCheckpoint DEF lease
<1>12. checkpoint' \in 0..Len(journal)
  BY <1>1, <1>2, Bounds
<1>13. QED BY <1>1, <1>2, <1>6, <1>8, <1>10, <1>11, <1>12, WritesInv DEF TypeOK, PCs

LEMMA ExecuteInv ==
    ASSUME Inv, NEW p \in Procs, Execute(p)
    PROVE  Inv'
<1>1. TypeOK /\ Written /\ InOrder /\ Ended /\ Alone
  BY DEF Inv
<1>2. /\ pc[p] = "execute" /\ Goto(p, "publish")
      /\ executions' = [executions EXCEPT ![At(p)] = executions[At(p)] + 1]
      /\ UNCHANGED <<lease, replaced, journal, checkpoint, generations, pointer,
                     snapshots, applications, current, prior, crashes>>
  BY DEF Execute, Runs
<1>3. Placed(p)
  BY <1>1, <1>2, OthersIdle
<1>4. Ended'
  BY <1>1, <1>2, Bounds, EndedFrame DEF lease
<1>5. pc'[p] = "publish" => Placed(p)'
  BY <1>2, <1>3 DEF Placed, Behind, Unpublished, AtStage, At
<1>6. executions' \in [Stages -> Nat]
  <2>1. executions \in [Stages -> Nat] /\ At(p) \in Stages
    BY <1>1, <1>2, <1>3 DEF TypeOK, Placed, AtStage
  <2>2. QED BY <1>2, <2>1
<1>7. QED BY <1>1, <1>2, <1>4, <1>5, <1>6, WritesInv DEF TypeOK, PCs

LEMMA PublishInv ==
    ASSUME Inv, NEW p \in Procs, Publish(p)
    PROVE  Inv'
<1> DEFINE new == [fence |-> fence, input |-> Input(p)]
<1>1. TypeOK /\ Written /\ InOrder /\ Ended /\ Alone
  BY DEF Inv
<1>2. /\ pc[p] = "publish" /\ Goto(p, "point")
      /\ generations' = [generations EXCEPT ![At(p)] = generations[At(p)] \cup {new}]
      /\ UNCHANGED <<lease, replaced, journal, checkpoint, pointer, executions,
                     snapshots, applications, current, prior, crashes>>
  BY DEF Publish, Runs
<1>3. Placed(p) /\ At(p) \in Stages
  BY <1>1, <1>2, OthersIdle DEF Placed, AtStage
<1>4. new \in Generation
  BY <1>1, AtType, Bounds DEF Generation, Hash
<1>5. /\ generations' \in [Stages -> SUBSET Generation]
      /\ \A k \in Stages : generations[k] \subseteq generations'[k]
      /\ new \in generations'[At(p)]
  <2> HIDE DEF new
  <2>1. generations \in [Stages -> SUBSET Generation]
    BY <1>1 DEF TypeOK
  <2>2. QED BY <1>2, <1>3, <1>4, <2>1
<1>6. Ended'
  BY <1>1, <1>2, Bounds, EndedFrame DEF lease
<1>7. fence' = fence /\ At(p)' = At(p) /\ Input(p)' = Input(p)
  BY <1>2 DEF lease, At, Input
<1>8. [fence |-> fence, input |-> Input(p)]' \in generations'[At(p)']
  BY <1>5, <1>7
<1>9. pc'[p] = "point" => Placed(p)'
  BY <1>2, <1>3, <1>8 DEF Placed, Behind, Unpublished, AtStage, At
<1>10. QED BY <1>1, <1>2, <1>5, <1>6, <1>9, WritesInv DEF TypeOK, PCs

\* The stage's pointer is written, for the first time.
LEMMA PointInv ==
    ASSUME Inv, NEW p \in Procs, Point(p)
    PROVE  Inv'
<1>1. TypeOK /\ Written /\ InOrder /\ Ended /\ Alone
  BY DEF Inv
<1>2. /\ pc[p] = "point"
      /\ UNCHANGED <<lease, replaced, journal, checkpoint, generations,
                     executions, snapshots, applications, current, prior, crashes>>
  BY DEF Point, Runs
<1>3. /\ Behind(p) /\ Unpublished /\ AtStage(p, 1) /\ pointer[At(p)] = 0
      /\ [fence |-> fence, input |-> Input(p)] \in generations[At(p)]
      /\ Granted(fence)
  BY <1>1, <1>2, OthersIdle DEF Placed
<1> DEFINE k == At(p)
<1>4. /\ k \in Stages /\ k = Len(prior[p]) + 1 /\ Len(prior[p]) \in Nat
      /\ Len(journal) = 2 * k - 1 /\ Input(p) = From(k) /\ fence \in Nat
  BY <1>1, <1>3, AtType, BehindInput, Bounds DEF AtStage
<1>5. pointer' = [pointer EXCEPT ![k] = fence] /\ Goto(p, "commit")
  BY <1>3 DEF Point
<1> HIDE DEF k
<1>6. /\ pointer'[k] = fence /\ fence # 0 /\ fence' = fence
      /\ \A m \in Stages : m # k => pointer'[m] = pointer[m]
      /\ pointer' \in [Stages -> Hash]
  BY <1>1, <1>2, <1>3, <1>4, <1>5 DEF TypeOK, Granted, lease, Hash
<1>7. \A m \in Stages : m \in Nat \ {0} /\ m <= StageCount /\ (m # 1 => m - 1 \in Stages)
  BY StageCountAssumption DEF Stages
<1>8. ASSUME NEW m \in Stages, m <= k
      PROVE  From(m)' = From(m)
  <2>1. m # 1 => m - 1 \in Stages /\ m - 1 # k
    BY <1>4, <1>7, <1>8
  <2>2. QED BY <1>6, <2>1 DEF From
<1>9. pc'[p] = "commit" /\ pc' \in [Procs -> PCs]
  BY <1>1, <1>2, <1>5 DEF TypeOK, Goto, PCs
<1>10. TypeOK'
  BY <1>1, <1>2, <1>6, <1>9 DEF TypeOK, Lease!TypeOK, lease
<1>11. ASSUME NEW m \in Stages PROVE Line(m)'
  <2>1. Line(m)
    BY <1>1 DEF Written
  <2>2. DOMAIN journal = 1..Len(journal)
    BY <1>1 DEF TypeOK
  <2>3. CASE m < k
    <3>1. From(m)' = From(m) /\ pointer'[m] = pointer[m]
      BY <1>4, <1>6, <1>7, <1>8, <2>3
    <3>2. QED BY <1>2, <2>1, <3>1 DEF Line, StartedRow, CommittedRow
  <2>4. CASE m = k
    <3>1. From(m)' = From(m)
      BY <1>4, <1>7, <1>8, <2>4
    <3>2. 2 * m \notin DOMAIN journal
      BY <1>4, <1>7, <2>2, <2>4
    <3>3. QED BY <1>2, <2>1, <3>1, <3>2 DEF Line, StartedRow
  <2>5. CASE m > k
    <3>1. 2 * m \notin DOMAIN journal /\ 2 * m - 1 \notin DOMAIN journal
      BY <1>4, <1>7, <2>2, <2>5
    <3>2. QED BY <1>2, <3>1 DEF Line
  <2>6. QED BY <1>4, <1>7, <2>3, <2>4, <2>5
<1>12. ASSUME NEW i \in DOMAIN journal PROVE Dated(i)'
  BY <1>1, <1>2, <1>6 DEF Written, Dated, Granted
<1>13. Written'
  BY <1>1, <1>2, <1>11, <1>12 DEF Written
<1>14. ASSUME NEW m \in Stages PROVE Between(m)'
  <2>1. Between(m)
    BY <1>1 DEF InOrder
  <2>2. CASE m = k
    <3>1. From(m)' = From(m)
      BY <1>4, <1>7, <1>8, <2>2
    <3>2. StageValid(m, From(m))'
      BY <1>2, <1>3, <1>4, <1>6, <2>2, <3>1 DEF StageValid, Granted, k
    <3>3. 2 * m - 1 <= Len(journal)
      BY <1>4, <1>7, <2>2
    <3>4. QED BY <1>2, <1>6, <2>2, <3>2, <3>3 DEF Between
  <2>3. CASE m < k
    <3>1. From(m)' = From(m) /\ pointer'[m] = pointer[m]
      BY <1>4, <1>6, <1>7, <1>8, <2>3
    <3>2. StageValid(m, From(m)) => StageValid(m, From(m))'
      BY <1>2, <1>6, <3>1 DEF StageValid, Granted
    <3>3. QED BY <1>2, <2>1, <3>1, <3>2 DEF Between
  <2>4. CASE m > k
    <3>1. pointer'[m] = pointer[m]
      BY <1>4, <1>6, <1>7, <2>4
    <3>2. ~ (2 * m - 1 <= Len(journal)) /\ ~ (2 * m <= Len(journal))
      BY <1>4, <1>7, <2>4
    <3>3. QED BY <1>2, <2>1, <3>1, <3>2 DEF Between
  <2>5. QED BY <1>4, <1>7, <2>2, <2>3, <2>4
<1>15. InOrder'
  BY <1>14 DEF InOrder
<1>16. Len(journal) # 2 * StageCount
  BY <1>4, <1>7, StageCountAssumption
<1>17. Ended'
  BY <1>1, <1>2, <1>16, NoneYet DEF Ended
<1>18. Behind(p)'
  <2>1. \A i \in 1..Len(prior[p]) : i \in Stages /\ i # k
    BY <1>4, <1>7, StageCountAssumption DEF Stages
  <2>2. QED BY <1>2, <1>3, <1>6, <2>1 DEF Behind
<1>19. AtStage(p, 1)' /\ Unpublished' /\ At(p)' = k
  BY <1>2, <1>3 DEF AtStage, At, Unpublished, k
<1>20. Placed(p)'
  BY <1>6, <1>9, <1>18, <1>19 DEF Placed
<1>21. prior' \in [Procs -> Seq(Hash)]
  BY <1>1, <1>2 DEF TypeOK
<1>22. Alone'
  BY <1>1, <1>2, <1>5, <1>20, <1>21, Moved DEF lease
<1>23. QED BY <1>10, <1>13, <1>15, <1>17, <1>22 DEF Inv

-----------------------------------------------------------------------------
(* Publishing the application *)

\* What a run has in hand after its last stage is what the stages published.
LEMMA HandIsWhole ==
    ASSUME TypeOK, NEW p \in Procs, Behind(p), Len(prior[p]) = StageCount
    PROVE  Outputs(prior[p])
BY DEF Behind, Outputs, Stages

LEMMA TakeSnapshotInv ==
    ASSUME Inv, NEW p \in Procs, TakeSnapshot(p)
    PROVE  Inv'
<1>1. TypeOK /\ Written /\ InOrder /\ Ended /\ Alone
  BY DEF Inv
<1>2. /\ pc[p] = "look" /\ At(p) \notin Stages /\ CheckpointMatches
      /\ snapshots' = snapshots \cup {Handed(p)} /\ Goto(p, "apply")
      /\ UNCHANGED <<lease, replaced, journal, checkpoint, generations, pointer,
                     executions, applications, current, prior, crashes>>
  BY DEF TakeSnapshot, Runs, Handed
<1>3. Behind(p) /\ Unpublished
  BY <1>1, <1>2, OthersIdle DEF Placed
<1>4. Len(prior[p]) = StageCount /\ Outputs(prior[p])
  BY <1>1, <1>2, <1>3, AtType, HandIsWhole, StageCountAssumption DEF Stages
<1>5. AllCommitted
  BY <1>1, <1>2, <1>3, <1>4, StageCountAssumption, Bounds
  DEF Behind, Written, AllCommitted
<1>6. Handed(p).outputs = prior[p] /\ Handed(p).sequence = Len(journal)
  BY DEF Handed
<1>7. Handed(p) \in Snapshot
  BY <1>1 DEF Handed, Snapshot, TypeOK
<1>8. \A s \in snapshots' :
         AllCommitted /\ s.sequence = Len(journal) /\ Outputs(s.outputs)
  BY <1>1, <1>2, <1>4, <1>5, <1>6 DEF Ended
<1>9. Ended'
  BY <1>2, <1>3, <1>8
  DEF Ended, Unpublished, AllCommitted, CheckpointMatches, Outputs
<1>10. pc'[p] = "apply" => Placed(p)'
  BY <1>2, <1>3, <1>4 DEF Placed, Behind, Unpublished, Handed
<1>11. QED BY <1>1, <1>2, <1>7, <1>9, <1>10, WritesInv DEF TypeOK, PCs

LEMMA ApplyInv ==
    ASSUME Inv, NEW p \in Procs, Apply(p)
    PROVE  Inv'
<1> DEFINE a == [fence |-> fence, outputs |-> prior[p], snapshot |-> Handed(p)]
<1>1. TypeOK /\ Written /\ InOrder /\ Ended /\ Alone
  BY DEF Inv
<1>2. /\ pc[p] = "apply" /\ Goto(p, "finish")
      /\ applications' = applications \cup {a}
      /\ UNCHANGED <<lease, replaced, journal, checkpoint, generations, pointer,
                     executions, snapshots, current, prior, crashes>>
  BY DEF Apply, Runs, Handed
<1>3. /\ Behind(p) /\ Unpublished /\ Len(prior[p]) = StageCount
      /\ Handed(p) \in snapshots /\ Granted(fence)
  BY <1>1, <1>2, OthersIdle DEF Placed
<1>4. applications' = {a} /\ current = 0
  BY <1>2, <1>3 DEF Unpublished
<1>5. a.fence = fence /\ a.outputs = prior[p] /\ a.snapshot = Handed(p)
      /\ Handed(p).outputs = prior[p]
  BY DEF Handed
<1>6. a \in Application
  BY <1>1, <1>3, Bounds DEF Application, TypeOK
<1> HIDE DEF a
<1>7. Ended'
  BY <1>1, <1>2, <1>3, <1>4, <1>5
  DEF Ended, AllCommitted, CheckpointMatches, Outputs, Granted, lease
<1>8. pc'[p] = "finish" => Placed(p)'
  BY <1>2, <1>3, <1>4, <1>5 DEF Placed, Behind, Handed, lease
<1>9. applications' \subseteq Application
  BY <1>4, <1>6
<1>10. QED BY <1>1, <1>2, <1>7, <1>8, <1>9, WritesInv DEF TypeOK, PCs

\* current.json is written, for the first time, with the hash of a generation.
LEMMA CurrentInv ==
    ASSUME Inv, NEW p \in Procs, pc[p] # "idle", Goto(p, "verify"),
           NEW a \in applications, current' = a.fence,
           UNCHANGED <<lease, replaced, journal, checkpoint, generations, pointer,
                       executions, snapshots, applications, prior, crashes>>
    PROVE  Inv'
<1>1. TypeOK /\ Written /\ InOrder /\ Ended /\ Alone
  BY DEF Inv
<1>2. Granted(a.fence) /\ a.fence # 0 /\ a.fence \in Nat
  BY <1>1, Bounds DEF Ended, Granted
<1>3. Ended'
  BY <1>1 DEF Ended, AllCommitted, CheckpointMatches, Outputs, Granted, lease
<1>4. pc'[p] = "verify" => Placed(p)'
  BY <1>2 DEF Placed
<1>5. current' \in Hash
  BY <1>2 DEF Hash
<1>6. QED BY <1>1, <1>3, <1>4, <1>5, WritesInv DEF TypeOK, PCs

LEMMA AdoptInv ==
    ASSUME Inv, NEW p \in Procs, Adopt(p)
    PROVE  Inv'
<1>1. PICK a \in applications : current' = a.fence
  BY DEF Adopt
<1>2. QED BY <1>1, CurrentInv DEF Adopt, Runs

LEMMA FinishInv ==
    ASSUME Inv, NEW p \in Procs, Finish(p)
    PROVE  Inv'
<1>1. pc[p] = "finish"
  BY DEF Finish, Runs
<1>2. current = 0 /\ \E a \in applications : a.fence = fence
  BY <1>1, OthersIdle DEF Inv, Placed
<1>3. PICK a \in applications : a.fence = fence
  BY <1>2
<1>4. current' = fence /\ Goto(p, "verify")
  BY <1>2 DEF Finish
<1>5. QED BY <1>1, <1>3, <1>4, CurrentInv DEF Finish, Runs

-----------------------------------------------------------------------------
(* The theorems *)

LEMMA StepInv ==
    ASSUME Inv, NEW p \in Procs, Step(p)
    PROVE  Inv'
BY FindInv, AdoptInv, ReuseInv, EnterInv, StartInv, StartedInv, ExecuteInv,
   PublishInv, PointInv, CommitInv, CommittedInv, TakeSnapshotInv,
   SnapshotRefusedInv, ApplyInv, FinishInv, VerifyInv, LosesInv DEF Step

LEMMA NextInv ==
    ASSUME Inv, [Next]_vars
    PROVE  Inv'
<1>1. CASE \E p \in Procs : Acquire(p) \/ Step(p) \/ Crash(p)
  BY <1>1, AcquireInv, StepInv, LosesInv
<1>2. CASE TearLease
  BY <1>2, TearLeaseInv
<1>3. CASE Replace
  <2>1. replaced' \in 0..MaxReplaced
    BY <1>3, BoundsAssumption DEF Replace, Inv, TypeOK
  <2>2. QED BY <1>3, <2>1, StillInv DEF Replace
<1>4. CASE UNCHANGED vars
  <2>1. replaced' \in 0..MaxReplaced
    BY <1>4 DEF vars, Inv, TypeOK
  <2>2. QED BY <1>4, <2>1, StillInv DEF vars
<1>5. QED BY <1>1, <1>2, <1>3, <1>4 DEF Next

\* The fields a run is made of have their types, whatever dies and is repeated.
THEOREM TypeCorrect == Spec => []TypeOK
<1>1. Init => Inv
  BY InitInv
<1>2. Inv /\ [Next]_vars => Inv'
  BY NextInv
<1>3. Inv => TypeOK
  BY DEF Inv
<1>4. QED BY <1>1, <1>2, <1>3, PTL DEF Spec

LEMMA JournalFollows ==
    ASSUME Inv
    PROVE  JournalIsOneRun
<1>1. TypeOK /\ Written
  BY DEF Inv
<1>2. SUFFICES ASSUME NEW i \in DOMAIN journal
               PROVE  journal[i] = UninterruptedRow(i, journal[i].fence)
  BY <1>1 DEF JournalIsOneRun, Written, Dated
<1>3. i \in Nat \ {0} /\ i <= 2 * StageCount
  <2>1. i \in 1..Len(journal) /\ Len(journal) \in Nat
    BY <1>1, RowType
  <2>2. QED BY <1>1, <2>1, StageCountAssumption DEF Written
<1>4. PICK k \in Nat \ {0} : i = 2 * k - 1 \/ i = 2 * k
  BY <1>3, Halves
<1>5. k \in Stages /\ (i + 1) \div 2 = k /\ i \in Nat
  BY <1>3, <1>4, StageCountAssumption, HalvesOf DEF Stages
<1>6. Line(k)
  BY <1>1, <1>5 DEF Written
<1>7. CASE i = 2 * k - 1
  <2>1. journal[i] = StartedRow(k, journal[i].fence)
    BY <1>6, <1>7 DEF Line
  <2>2. i # 2 * k
    BY <1>4, <1>7
  <2>3. \A f : UninterruptedRow(i, f) = StartedRow(k, f)
    BY <1>5, <2>2 DEF UninterruptedRow, StartedRow, From
  <2>4. QED BY <2>1, <2>3
<1>8. CASE i = 2 * k
  <2>1. journal[i] = CommittedRow(k, journal[i].fence)
    BY <1>6, <1>8 DEF Line
  <2>2. \A f : UninterruptedRow(i, f) = CommittedRow(k, f)
    BY <1>5, <1>8 DEF UninterruptedRow, CommittedRow, From
  <2>3. QED BY <2>1, <2>2
<1>9. QED BY <1>4, <1>7, <1>8

LEMMA ApplicationFollows ==
    ASSUME Inv
    PROVE  OneApplication
<1>1. TypeOK /\ Written /\ InOrder /\ Ended
  BY DEF Inv
<1>2. PublishedOnce
  <2>1. CASE applications = {}
    BY <2>1, FS_EmptySet DEF PublishedOnce
  <2>2. CASE applications # {}
    <3>1. PICK a : a \in applications
      BY <2>2
    <3>2. \A b \in applications : b = a
      BY <1>1, <3>1 DEF Ended
    <3>3. applications = {a}
      BY <3>1, <3>2
    <3>4. QED BY <3>3, FS_Singleton DEF PublishedOnce
  <2>3. QED BY <2>1, <2>2
<1>3. CurrentIsValid
  BY <1>1, ApplicationsAreValid DEF CurrentIsValid, Ended
<1>4. QED BY <1>2, <1>3 DEF OneApplication

\* However often runs die and are repeated, of any number of processes and
\* stages: the journal is the one a single run would have written, one
\* application is published and stays valid, and a run raises in one case only.
THEOREM RepeatedRunsAreOne == Spec => []RunsAreOne
<1>1. Init => Inv
  BY InitInv
<1>2. Inv /\ [Next]_vars => Inv'
  BY NextInv
<1>3. Inv => RunsAreOne
  <2>1. Inv => FailsOnlyWhenTorn
    BY OthersIdle DEF Inv, FailsOnlyWhenTorn, Placed
  <2>2. QED BY <2>1, JournalFollows, ApplicationFollows DEF RunsAreOne, Inv
<1>4. QED BY <1>1, <1>2, <1>3, PTL DEF Spec

LEMMA StepIsFinal ==
    ASSUME Inv, [Next]_vars
    PROVE  /\ \A k \in Stages : pointer[k] # 0 =>
                 pointer'[k] = pointer[k] /\ executions'[k] = executions[k]
           /\ current # 0 => current' = current
<1> DEFINE Final == /\ \A k \in Stages : pointer[k] # 0 =>
                          pointer'[k] = pointer[k] /\ executions'[k] = executions[k]
                    /\ current # 0 => current' = current
<1>1. CASE UNCHANGED <<pointer, executions, current>>
  BY <1>1
<1>2. ASSUME NEW p \in Procs, Execute(p) PROVE Final
  <2>1. pointer[At(p)] = 0 /\ UNCHANGED <<pointer, current>>
    BY <1>2, OthersIdle DEF Execute, Runs, Inv, Placed
  <2>2. \A k \in Stages : k # At(p) => executions'[k] = executions[k]
    BY <1>2 DEF Execute, Inv, TypeOK
  <2>3. QED BY <2>1, <2>2
<1>3. ASSUME NEW p \in Procs, Point(p) PROVE Final
  <2>1. pointer[At(p)] = 0 /\ UNCHANGED <<executions, current>>
    BY <1>3, OthersIdle DEF Point, Runs, Inv, Placed
  <2>2. \A k \in Stages : k # At(p) => pointer'[k] = pointer[k]
    BY <1>3 DEF Point, Inv, TypeOK
  <2>3. QED BY <2>1, <2>2
<1>4. ASSUME NEW p \in Procs, Adopt(p) \/ Finish(p) PROVE Final
  BY <1>4, OthersIdle DEF Adopt, Finish, Runs, Inv, Placed
<1>5. ASSUME NEW p \in Procs, Acquire(p) \/ Step(p) \/ Crash(p) PROVE Final
  <2>1. CASE Acquire(p) \/ Crash(p)
    BY <2>1 DEF Acquire, Crash, files
  <2>2. CASE Step(p)
    <3>1. CASE Execute(p) \/ Point(p) \/ Adopt(p) \/ Finish(p)
      BY <3>1, <1>2, <1>3, <1>4
    <3>2. CASE Find(p) \/ Reuse(p) \/ Enter(p) \/ SnapshotRefused(p) \/ Verify(p)
               \/ Release(p) \/ LoseLease(p)
      BY <3>2 DEF Find, Reuse, Enter, SnapshotRefused, Verify, Release, LoseLease, files
    <3>3. CASE Start(p) \/ Started(p) \/ Publish(p) \/ Commit(p) \/ Committed(p)
               \/ TakeSnapshot(p) \/ Apply(p)
      BY <3>3 DEF Start, Started, Publish, Commit, Committed, TakeSnapshot, Apply
    <3>4. QED BY <2>2, <3>1, <3>2, <3>3 DEF Step
  <2>3. QED BY <1>5, <2>1, <2>2
<1>6. CASE TearLease \/ Replace \/ UNCHANGED vars
  BY <1>6 DEF TearLease, Replace, vars, files
<1>7. QED BY <1>5, <1>6 DEF Next

\* No pointer ever moves, and no run executes a stage that is published.
THEOREM PublishedStands == Spec => PublishedIsFinal
<1>1. Init => Inv
  BY InitInv
<1>2. Inv /\ [Next]_vars => Inv'
  BY NextInv
<1>3. Inv /\ [Next]_vars =>
         [ /\ \A k \in Stages : pointer[k] # 0 =>
                 pointer'[k] = pointer[k] /\ executions'[k] = executions[k]
           /\ current # 0 => current' = current ]_vars
  BY StepIsFinal
<1>4. QED BY <1>1, <1>2, <1>3, PTL DEF Spec, PublishedIsFinal

-----------------------------------------------------------------------------
(***************************************************************************)
(* The prepared-generation publisher: the invariant                        *)
(***************************************************************************)
\* The places at which a call holds the lock of its identity.
Locking == {"unseal", "rename", "reseal", "check", "compare", "refreeze",
            "point", "raised"}

Held ==
    \A p \in Publishers: /\ place[p] \in Locking => lock[id[p]] = p
                         /\ place[p] = "idle" => id[p] = NoId

\* A prepared directory is open for its rename only, and holds what its
\* closure says except, then, a stray file.
Prepared ==
    \A p \in Publishers:
        /\ place[p] # "idle" => ~closure[p].stray
        /\ tree[p].mode = "open" => place[p] = "rename"
        /\ place[p] = "rename" => /\ tree[p] \in Tree
                                  /\ tree[p].mode = "open"
                                  /\ tree[p].files.bytes = closure[p].bytes
        /\ place[p] \in {"prepared", "waiting", "unseal", "compare", "refreeze"} =>
                  tree[p] \in Tree /\ tree[p].files = closure[p]

\* The files of the generation a call is about to point at are its own.
Exact(p) == StrayAfterCompare \/ target[id[p]].files = closure[p]

\* What a call has made of the generation of its identity.
Published ==
    \A p \in Publishers:
        /\ place[p] \in {"reseal", "check", "refreeze", "point"} =>
                  /\ target[id[p]] \in Tree
                  /\ target[id[p]].files.bytes = closure[p].bytes
        /\ place[p] = "reseal" => target[id[p]].mode = "open"
        /\ place[p] \in {"check", "point"} => target[id[p]].mode = "frozen"
        /\ place[p] \in {"refreeze", "point"} => Exact(p)

Targets == \A g \in Ids: target[g].mode # "writable"

\* The pointer is exact, if nothing is dropped between compare and freeze.
Pointed ==
    latest # NoId =>
        /\ target[latest].mode = "frozen"
        /\ StrayAfterCompare \/ ~target[latest].files.stray

PublisherInv == PublisherTypeOK /\ Held /\ Prepared /\ Published /\ Targets /\ Pointed

-----------------------------------------------------------------------------
LEMMA TreeFacts ==
    /\ NoTree \notin Tree
    /\ NoTree.mode = "absent" /\ NoTree.files = NoClosure
    /\ \A t \in Tree: /\ t.files \in Closure
                      /\ t.files.bytes \in Bytes /\ t.files.stray \in BOOLEAN
                      /\ t.mode \in {"writable", "frozen", "open"}
    /\ \A t \in Tree, m \in {"writable", "frozen", "open"}:
          /\ [t EXCEPT !.mode = m] \in Tree
          /\ [t EXCEPT !.mode = m].mode = m
          /\ [t EXCEPT !.mode = m].files = t.files
    /\ \A t \in Tree: /\ AddStray(t) \in Tree
                      /\ AddStray(t).mode = t.mode
                      /\ AddStray(t).files.bytes = t.files.bytes
BY NoBytesAssumption DEF Tree, NoTree, NoClosure, Closure, AddStray

\* Before the first call there are no generations, locks or prepared directories.
THEOREM PublisherInitially == PublisherInit => PublisherInv
<1> SUFFICES ASSUME PublisherInit PROVE PublisherInv
  OBVIOUS
<1>1. PublisherTypeOK
  BY PublisherBoundsAssumption, NoIdAssumption DEF PublisherInit, PublisherTypeOK, Places
<1>2. Held /\ Prepared /\ Published
  BY TreeFacts DEF PublisherInit, Held, Prepared, Published, Locking
<1>3. Targets /\ Pointed
  BY TreeFacts DEF PublisherInit, Targets, Pointed
<1>4. QED BY <1>1, <1>2, <1>3 DEF PublisherInv

LEMMA FreezeStep ==
    ASSUME PublisherInv, NEW p \in Publishers, Freeze(p)
    PROVE  PublisherInv'
<1> USE DEF PublisherInv, MoveTo, SetTree, SetTarget, disk, counters
<1>1. PublisherTypeOK'
  BY TreeFacts, PublisherBoundsAssumption DEF Freeze, PublisherTypeOK, Places, Prepared
<1>2. Held'
  BY DEF Freeze, PublisherTypeOK, Held, Locking
<1>3. Prepared'
  <2>1. tree[p] \in Tree /\ tree[p].files = closure[p]
    BY DEF Freeze, Prepared
  <2>2. tree'[p] \in Tree /\ tree'[p].files = closure[p]
    BY <2>1, TreeFacts DEF Freeze, PublisherTypeOK
  <2>3. ASSUME NEW q \in Publishers, q # p PROVE tree'[q] = tree[q] /\ place'[q] = place[q]
    BY <2>3 DEF Freeze, PublisherTypeOK
  <2>4. QED BY <2>1, <2>2, <2>3, TreeFacts DEF Freeze, PublisherTypeOK, Prepared
<1>4. Published'
  BY TreeFacts DEF Freeze, PublisherTypeOK, Held, Locking, Prepared, Published, Exact
<1>5. Targets'
  BY TreeFacts DEF Freeze, PublisherTypeOK, Targets, Prepared
<1>6. Pointed'
  BY TreeFacts DEF Freeze, PublisherTypeOK, Pointed, Published, Exact, Held, Locking
<1>7. QED BY <1>1, <1>2, <1>3, <1>4, <1>5, <1>6

LEMMA LockStep ==
    ASSUME PublisherInv, NEW p \in Publishers, Lock(p)
    PROVE  PublisherInv'
<1> USE DEF PublisherInv, MoveTo, SetTree, SetTarget, disk, counters
<1>1. PublisherTypeOK'
  BY TreeFacts DEF Lock, PublisherTypeOK, Places
<1>2. Held'
  BY NoPublisherAssumption DEF Lock, PublisherTypeOK, Held, Locking
<1>3. Prepared'
  BY TreeFacts DEF Lock, PublisherTypeOK, Prepared
<1>4. Published'
  BY TreeFacts DEF Lock, PublisherTypeOK, Held, Locking, Prepared, Published, Exact
<1>5. Targets'
  BY TreeFacts DEF Lock, PublisherTypeOK, Targets, Prepared
<1>6. Pointed'
  BY TreeFacts DEF Lock, PublisherTypeOK, Pointed, Published, Exact, Held, Locking
<1>7. QED BY <1>1, <1>2, <1>3, <1>4, <1>5, <1>6

LEMMA UnsealStep ==
    ASSUME PublisherInv, NEW p \in Publishers, Unseal(p)
    PROVE  PublisherInv'
<1> USE DEF PublisherInv, MoveTo, SetTree, SetTarget, disk, counters
<1>1. PublisherTypeOK'
  BY TreeFacts, PublisherBoundsAssumption DEF Unseal, PublisherTypeOK, Places, Prepared
<1>2. Held'
  BY DEF Unseal, PublisherTypeOK, Held, Locking
<1>3. Prepared'
  <2>1. tree[p] \in Tree /\ tree[p].files = closure[p]
    BY DEF Unseal, Prepared
  <2>2. tree'[p] \in Tree /\ tree'[p].files = closure[p]
    BY <2>1, TreeFacts DEF Unseal, PublisherTypeOK
  <2>3. ASSUME NEW q \in Publishers, q # p PROVE tree'[q] = tree[q] /\ place'[q] = place[q]
    BY <2>3 DEF Unseal, PublisherTypeOK
  <2>4. QED BY <2>1, <2>2, <2>3, TreeFacts DEF Unseal, PublisherTypeOK, Prepared
<1>4. Published'
  BY TreeFacts DEF Unseal, PublisherTypeOK, Held, Locking, Prepared, Published, Exact
<1>5. Targets'
  BY TreeFacts DEF Unseal, PublisherTypeOK, Targets, Prepared
<1>6. Pointed'
  BY TreeFacts DEF Unseal, PublisherTypeOK, Pointed, Published, Exact, Held, Locking
<1>7. QED BY <1>1, <1>2, <1>3, <1>4, <1>5, <1>6

LEMMA RenameStep ==
    ASSUME PublisherInv, NEW p \in Publishers, Rename(p)
    PROVE  PublisherInv'
<1> USE DEF PublisherInv, MoveTo, SetTree, SetTarget, disk, counters
<1>1. PublisherTypeOK'
  BY TreeFacts DEF Rename, PublisherTypeOK, Places
<1>2. Held'
  BY DEF Rename, PublisherTypeOK, Held, Locking
<1>3. Prepared'
  BY TreeFacts DEF Rename, PublisherTypeOK, Prepared
<1>4. Published'
  BY TreeFacts DEF Rename, PublisherTypeOK, Held, Locking, Prepared, Published, Exact
<1>5. Targets'
  BY TreeFacts DEF Rename, PublisherTypeOK, Targets, Prepared
<1>6. Pointed'
  BY TreeFacts DEF Rename, PublisherTypeOK, Pointed, Published, Exact, Held, Locking
<1>7. QED BY <1>1, <1>2, <1>3, <1>4, <1>5, <1>6

LEMMA RenameRaisesStep ==
    ASSUME PublisherInv, NEW p \in Publishers, RenameRaises(p)
    PROVE  PublisherInv'
<1> USE DEF PublisherInv, MoveTo, SetTree, SetTarget, disk, counters
<1>1. PublisherTypeOK'
  <2>1. renameErrors' \in 0..MaxRenameErrors
    BY PublisherBoundsAssumption DEF RenameRaises, PublisherTypeOK
  <2>2. tree' \in [Publishers -> Tree \cup {NoTree}]
    BY TreeFacts DEF RenameRaises, PublisherTypeOK, Prepared
  <2>3. QED BY <2>1, <2>2 DEF RenameRaises, PublisherTypeOK, Places
<1>2. Held'
  BY DEF RenameRaises, PublisherTypeOK, Held, Locking
<1>3. Prepared'
  BY TreeFacts DEF RenameRaises, PublisherTypeOK, Prepared
<1>4. Published'
  BY TreeFacts DEF RenameRaises, PublisherTypeOK, Held, Locking, Prepared, Published, Exact
<1>5. Targets'
  BY TreeFacts DEF RenameRaises, PublisherTypeOK, Targets, Prepared
<1>6. Pointed'
  BY TreeFacts DEF RenameRaises, PublisherTypeOK, Pointed, Published, Exact, Held, Locking
<1>7. QED BY <1>1, <1>2, <1>3, <1>4, <1>5, <1>6

LEMMA ResealStep ==
    ASSUME PublisherInv, NEW p \in Publishers, Reseal(p)
    PROVE  PublisherInv'
<1> USE DEF PublisherInv, MoveTo, SetTree, SetTarget, disk, counters
<1>1. PublisherTypeOK'
  BY TreeFacts DEF Reseal, PublisherTypeOK, Places, Prepared, Published
<1>2. Held'
  BY DEF Reseal, PublisherTypeOK, Held, Locking
<1>3. Prepared'
  BY TreeFacts DEF Reseal, PublisherTypeOK, Prepared
<1>4. Published'
  <2>1. ASSUME NEW q \in Publishers, q # p, place[q] \in Locking PROVE id[q] # id[p]
    BY <2>1 DEF Reseal, Held, Locking
  <2>2. /\ target[id[p]] \in Tree
        /\ target'[id[p]].mode = "frozen"
        /\ target'[id[p]].files = target[id[p]].files
        /\ target'[id[p]] \in Tree
    BY TreeFacts DEF Reseal, PublisherTypeOK, Published
  <2>3. ASSUME NEW q \in Publishers, q # p, place[q] \in Locking
        PROVE  target'[id[q]] = target[id[q]] /\ place'[q] = place[q]
    BY <2>1, <2>3 DEF Reseal, PublisherTypeOK
  <2>4. QED BY <2>1, <2>2, <2>3 DEF Reseal, PublisherTypeOK, Published, Exact, Locking
<1>5. Targets'
  BY TreeFacts DEF Reseal, PublisherTypeOK, Targets, Prepared
<1>6. Pointed'
  BY TreeFacts DEF Reseal, PublisherTypeOK, Pointed, Published, Exact, Held, Locking
<1>7. QED BY <1>1, <1>2, <1>3, <1>4, <1>5, <1>6

LEMMA CheckStep ==
    ASSUME PublisherInv, NEW p \in Publishers, Check(p)
    PROVE  PublisherInv'
<1> USE DEF PublisherInv, MoveTo, SetTree, SetTarget, disk, counters
<1>1. PublisherTypeOK'
  BY TreeFacts DEF Check, PublisherTypeOK, Places
<1>2. Held'
  BY DEF Check, PublisherTypeOK, Held, Locking
<1>3. Prepared'
  BY TreeFacts DEF Check, PublisherTypeOK, Prepared
<1>4. Published'
  BY TreeFacts DEF Check, PublisherTypeOK, Held, Locking, Prepared, Published, Exact
<1>5. Targets'
  BY TreeFacts DEF Check, PublisherTypeOK, Targets, Prepared
<1>6. Pointed'
  BY TreeFacts DEF Check, PublisherTypeOK, Pointed, Published, Exact, Held, Locking
<1>7. QED BY <1>1, <1>2, <1>3, <1>4, <1>5, <1>6

LEMMA CompareStep ==
    ASSUME PublisherInv, NEW p \in Publishers, Compare(p)
    PROVE  PublisherInv'
<1> USE DEF PublisherInv, MoveTo, SetTree, SetTarget, disk, counters
<1>1. PublisherTypeOK'
  BY TreeFacts DEF Compare, PublisherTypeOK, Places
<1>2. Held'
  BY DEF Compare, PublisherTypeOK, Held, Locking
<1>3. Prepared'
  BY TreeFacts DEF Compare, PublisherTypeOK, Prepared
<1>4. Published'
  <2>1. ASSUME target[id[p]].files = tree[p].files
        PROVE  target[id[p]] \in Tree /\ target[id[p]].files = closure[p]
    <3>1. tree[p].files = closure[p] /\ tree[p].files.bytes \in Bytes
      BY TreeFacts DEF Compare, Prepared
    <3>2. target[id[p]] # NoTree
      BY <2>1, <3>1, NoBytesAssumption DEF NoTree, NoClosure
    <3>3. QED BY <2>1, <3>1, <3>2 DEF Compare, PublisherTypeOK
  <2>2. QED BY <2>1 DEF Compare, PublisherTypeOK, Published, Exact
<1>5. Targets'
  BY TreeFacts DEF Compare, PublisherTypeOK, Targets, Prepared
<1>6. Pointed'
  BY TreeFacts DEF Compare, PublisherTypeOK, Pointed, Published, Exact, Held, Locking
<1>7. QED BY <1>1, <1>2, <1>3, <1>4, <1>5, <1>6

LEMMA RefreezeStep ==
    ASSUME PublisherInv, NEW p \in Publishers, Refreeze(p)
    PROVE  PublisherInv'
<1> USE DEF PublisherInv, MoveTo, SetTree, SetTarget, disk, counters
<1>1. PublisherTypeOK'
  BY TreeFacts DEF Refreeze, PublisherTypeOK, Places, Prepared, Published
<1>2. Held'
  BY DEF Refreeze, PublisherTypeOK, Held, Locking
<1>3. Prepared'
  BY TreeFacts DEF Refreeze, PublisherTypeOK, Prepared
<1>4. Published'
  <2>1. ASSUME NEW q \in Publishers, q # p, place[q] \in Locking PROVE id[q] # id[p]
    BY <2>1 DEF Refreeze, Held, Locking
  <2>2. /\ target[id[p]] \in Tree
        /\ target'[id[p]].mode = "frozen"
        /\ target'[id[p]].files = target[id[p]].files
        /\ target'[id[p]] \in Tree
    BY TreeFacts DEF Refreeze, PublisherTypeOK, Published
  <2>3. ASSUME NEW q \in Publishers, q # p, place[q] \in Locking
        PROVE  target'[id[q]] = target[id[q]] /\ place'[q] = place[q]
    BY <2>1, <2>3 DEF Refreeze, PublisherTypeOK
  <2>4. QED BY <2>1, <2>2, <2>3 DEF Refreeze, PublisherTypeOK, Published, Exact, Locking
<1>5. Targets'
  BY TreeFacts DEF Refreeze, PublisherTypeOK, Targets, Prepared
<1>6. Pointed'
  BY TreeFacts DEF Refreeze, PublisherTypeOK, Pointed, Published, Exact, Held, Locking
<1>7. QED BY <1>1, <1>2, <1>3, <1>4, <1>5, <1>6

LEMMA PointStep ==
    ASSUME PublisherInv, NEW p \in Publishers, PointAt(p)
    PROVE  PublisherInv'
<1> USE DEF PublisherInv, MoveTo, SetTree, SetTarget, disk, counters, Forget, Unlock
<1>1. PublisherTypeOK'
  BY TreeFacts DEF PointAt, PublisherTypeOK, Places
<1>2. Held'
  BY DEF PointAt, PublisherTypeOK, Held, Locking
<1>3. Prepared'
  BY TreeFacts DEF PointAt, PublisherTypeOK, Prepared
<1>4. Published'
  BY TreeFacts DEF PointAt, PublisherTypeOK, Held, Locking, Prepared, Published, Exact
<1>5. Targets'
  BY TreeFacts DEF PointAt, PublisherTypeOK, Targets, Prepared
<1>6. Pointed'
  BY TreeFacts DEF PointAt, PublisherTypeOK, Pointed, Published, Exact, Prepared
<1>7. QED BY <1>1, <1>2, <1>3, <1>4, <1>5, <1>6

LEMMA RaiseStep ==
    ASSUME PublisherInv, NEW p \in Publishers, Raise(p)
    PROVE  PublisherInv'
<1> USE DEF PublisherInv, MoveTo, SetTree, SetTarget, disk, counters, Forget, Unlock
<1>1. PublisherTypeOK'
  BY TreeFacts DEF Raise, PublisherTypeOK, Places
<1>2. Held'
  BY DEF Raise, PublisherTypeOK, Held, Locking
<1>3. Prepared'
  BY TreeFacts DEF Raise, PublisherTypeOK, Prepared
<1>4. Published'
  BY TreeFacts DEF Raise, PublisherTypeOK, Held, Locking, Prepared, Published, Exact
<1>5. Targets'
  BY TreeFacts DEF Raise, PublisherTypeOK, Targets, Prepared
<1>6. Pointed'
  BY TreeFacts DEF Raise, PublisherTypeOK, Pointed, Published, Exact, Held, Locking
<1>7. QED BY <1>1, <1>2, <1>3, <1>4, <1>5, <1>6

LEMMA CrashStep ==
    ASSUME PublisherInv, NEW p \in Publishers, Die(p)
    PROVE  PublisherInv'
<1> USE DEF PublisherInv, MoveTo, SetTree, SetTarget, disk, counters, Forget, Unlock
<1>1. PublisherTypeOK'
  BY PublisherBoundsAssumption, TreeFacts DEF Die, PublisherTypeOK, Places
<1>2. Held'
  BY DEF Die, PublisherTypeOK, Held, Locking
<1>3. Prepared'
  BY TreeFacts DEF Die, PublisherTypeOK, Prepared
<1>4. Published'
  BY TreeFacts DEF Die, PublisherTypeOK, Held, Locking, Prepared, Published, Exact
<1>5. Targets'
  BY TreeFacts DEF Die, PublisherTypeOK, Targets, Prepared
<1>6. Pointed'
  BY TreeFacts DEF Die, PublisherTypeOK, Pointed, Published, Exact, Held, Locking
<1>7. QED BY <1>1, <1>2, <1>3, <1>4, <1>5, <1>6

LEMMA StrayInPreparedStep ==
    ASSUME PublisherInv, NEW p \in Publishers, StrayInPrepared(p)
    PROVE  PublisherInv'
<1> USE DEF PublisherInv, MoveTo, SetTree, SetTarget, disk, counters
<1>1. PublisherTypeOK'
  BY TreeFacts, PublisherBoundsAssumption DEF StrayInPrepared, PublisherTypeOK, Places, Prepared
<1>2. Held'
  BY DEF StrayInPrepared, PublisherTypeOK, Held, Locking
<1>3. Prepared'
  BY TreeFacts DEF StrayInPrepared, PublisherTypeOK, Prepared
<1>4. Published'
  BY TreeFacts DEF StrayInPrepared, PublisherTypeOK, Held, Locking, Prepared, Published, Exact
<1>5. Targets'
  BY TreeFacts DEF StrayInPrepared, PublisherTypeOK, Targets, Prepared
<1>6. Pointed'
  BY TreeFacts DEF StrayInPrepared, PublisherTypeOK, Pointed, Published, Exact, Held, Locking
<1>7. QED BY <1>1, <1>2, <1>3, <1>4, <1>5, <1>6

LEMMA CallStep ==
    ASSUME PublisherInv, NEW p \in Publishers, NEW g \in Ids, NEW b \in Bytes, Call(p, g, b)
    PROVE  PublisherInv'
<1> USE DEF PublisherInv, MoveTo, SetTree, disk
<1> DEFINE content == [bytes |-> b, stray |-> FALSE]
           new == [files |-> content, mode |-> "writable"]
<1>1. content \in Closure /\ new \in Tree /\ new.files = content /\ ~content.stray
      /\ new.mode = "writable"
  BY DEF Closure, Tree
<1>2. /\ closure' = [closure EXCEPT ![p] = content]
      /\ tree' = [tree EXCEPT ![p] = new]
  BY DEF Call
<1> HIDE DEF content, new
<1>3. PublisherTypeOK'
  <2>1. publications' \in 0..MaxPublications
    BY PublisherBoundsAssumption DEF Call, PublisherTypeOK
  <2>2. tree' \in [Publishers -> Tree \cup {NoTree}]
    BY <1>1, <1>2 DEF PublisherTypeOK
  <2>3. closure' \in [Publishers -> Closure \cup {NoClosure}]
    BY <1>1, <1>2 DEF PublisherTypeOK
  <2>4. \A q \in Publishers: place'[q] # "idle" => id'[q] \in Ids /\ closure'[q] \in Closure
    BY <1>1, <1>2 DEF Call, PublisherTypeOK
  <2>5. \A h \in Ids: lock'[h] # NoPublisher => id'[lock'[h]] = h
    BY NoIdAssumption DEF Call, PublisherTypeOK, Held, Locking
  <2>6. QED BY <2>1, <2>2, <2>3, <2>4, <2>5 DEF Call, PublisherTypeOK, Places
<1>4. Held'
  BY DEF Call, PublisherTypeOK, Held, Locking
<1>5. Prepared'
  <2>1. tree'[p] = new /\ closure'[p] = content /\ place'[p] = "prepared"
    BY <1>2 DEF Call, PublisherTypeOK
  <2>2. ASSUME NEW q \in Publishers, q # p
        PROVE  tree'[q] = tree[q] /\ closure'[q] = closure[q] /\ place'[q] = place[q]
    BY <1>2, <2>2 DEF Call, PublisherTypeOK
  <2>3. QED BY <1>1, <2>1, <2>2 DEF Prepared
<1>6. Published'
  BY <1>2 DEF Call, PublisherTypeOK, Published, Exact
<1>7. Targets' /\ Pointed'
  BY DEF Call, Targets, Pointed
<1>8. QED BY <1>3, <1>4, <1>5, <1>6, <1>7

LEMMA StrayInTargetStep ==
    ASSUME PublisherInv, NEW g \in Ids, StrayInTarget(g)
    PROVE  PublisherInv'
<1> USE DEF PublisherInv
<1>1. target[g] \in Tree
  BY TreeFacts DEF StrayInTarget, PublisherTypeOK
<1>2. /\ target'[g] = AddStray(target[g])
      /\ target'[g] \in Tree
      /\ target'[g].mode = "open"
      /\ target'[g].files.bytes = target[g].files.bytes
  BY <1>1, TreeFacts DEF StrayInTarget, PublisherTypeOK
<1>3. \A h \in Ids \ {g}: target'[h] = target[h]
  BY DEF StrayInTarget, PublisherTypeOK
<1>4. PublisherTypeOK'
  <2>1. target' \in [Ids -> Tree \cup {NoTree}]
    BY <1>2 DEF StrayInTarget, PublisherTypeOK
  <2>2. strays' \in 0..MaxStrays
    BY PublisherBoundsAssumption DEF StrayInTarget, PublisherTypeOK
  <2>3. QED BY <2>1, <2>2 DEF StrayInTarget, PublisherTypeOK
<1>5. Held' /\ Prepared'
  BY DEF StrayInTarget, Held, Prepared
<1>6. Published'
  BY <1>1, <1>2, <1>3 DEF StrayInTarget, PublisherTypeOK, Published, Exact
<1>7. Targets'
  BY <1>2, <1>3 DEF Targets
<1>8. Pointed'
  BY <1>3 DEF StrayInTarget, PublisherTypeOK, Pointed
<1>9. QED BY <1>4, <1>5, <1>6, <1>7, <1>8

LEMMA Stutter == PublisherInv /\ UNCHANGED publisherVars => PublisherInv'
BY DEF PublisherInv, PublisherTypeOK, Held, Prepared, Published, Exact, Targets, Pointed,
       publisherVars, disk, counters

\* Every step of a call, a death and a stray file keep the invariant.
THEOREM PublisherInductive == PublisherInv /\ [PublisherNext]_publisherVars => PublisherInv'
<1> SUFFICES ASSUME PublisherInv, [PublisherNext]_publisherVars PROVE PublisherInv'
  OBVIOUS
<1>1. CASE \E p \in Publishers, g \in Ids, b \in Bytes: Call(p, g, b)
  BY <1>1, CallStep
<1>2. ASSUME NEW p \in Publishers, PublisherStep(p) PROVE PublisherInv'
  BY <1>2, FreezeStep, LockStep, UnsealStep, RenameStep, RenameRaisesStep,
     ResealStep, CheckStep, CompareStep, RefreezeStep, PointStep, RaiseStep
     DEF PublisherStep
<1>3. ASSUME NEW p \in Publishers, Die(p) \/ StrayInPrepared(p) PROVE PublisherInv'
  BY <1>3, CrashStep, StrayInPreparedStep
<1>4. CASE \E g \in Ids: StrayInTarget(g)
  BY <1>4, StrayInTargetStep
<1>5. CASE UNCHANGED publisherVars
  BY <1>5, Stutter
<1>6. QED BY <1>1, <1>2, <1>3, <1>4, <1>5 DEF PublisherNext

\* The invariant holds in every state of the publisher.
THEOREM PublisherInvHolds == PublisherSpec => []PublisherInv
<1>1. QED BY PublisherInitially, PublisherInductive, PTL DEF PublisherSpec

-----------------------------------------------------------------------------
\* The variables of the publisher keep their types, and a lock is held only
\* by a call that is under way for its identity.
THEOREM PublisherTypes == PublisherSpec => []PublisherTypeOK
<1>1. PublisherInv => PublisherTypeOK
  BY DEF PublisherInv
<1>2. QED BY <1>1, PublisherInvHolds, PTL

\* Stray files or not: who gets past the checks of
\* publish_prepared_generation publishes the bytes it has prepared, and
\* never an identity that holds others.
THEOREM OwnBytes == PublisherSpec => []PublishesOwnBytes
<1>1. PublisherInv => PublishesOwnBytes
  BY DEF PublisherInv, Published, PublishesOwnBytes
<1>2. QED BY <1>1, PublisherInvHolds, PTL

\* Unless a stray file arrives between the compare and the freeze of an
\* existing generation, what current.json names is frozen and holds exactly
\* the files that were prepared, through every kill and every other publisher.
THEOREM PointerSound ==
    ASSUME StrayAfterCompare = FALSE
    PROVE  PublisherSpec => []PointerIsExact
<1>1. PublisherInv => PointerIsExact
  BY DEF PublisherInv, Pointed, PointerIsExact
<1>2. QED BY <1>1, PublisherInvHolds, PTL

-----------------------------------------------------------------------------
(* Why a call raises                                                       *)

\* Until a stray file arrives, none is anywhere.
Clean ==
    strays = 0 => /\ \A g \in Ids: ~target[g].files.stray
                  /\ \A p \in Publishers: ~tree[p].files.stray

\* What a call found under the lock is still so: nothing can appear, or go,
\* at its identity before it has renamed or compared.
Looked ==
    \A p \in Publishers: /\ place[p] \in {"unseal", "rename"} => target[id[p]] = NoTree
                         /\ place[p] = "compare" => target[id[p]] # NoTree

Reason(p) ==
    \/ renameErrors > 0
    \/ strays > 0
    \/ target[id[p]] # NoTree /\ target[id[p]].files.bytes # closure[p].bytes

Reasons == \A p \in Publishers: place[p] = "raised" => Reason(p)

Justified == Clean /\ Looked /\ Reasons

\* Before the first call nobody has a reason to raise.
THEOREM JustifiedInit == PublisherInit => Justified
BY TreeFacts DEF PublisherInit, Justified, Clean, Looked, Reasons, NoTree, NoClosure

\* Two calls past the lock are at different identities.
LEMMA Apart ==
    ASSUME Held, NEW p \in Publishers, NEW q \in Publishers, p # q,
           place[p] \in Locking, place[q] \in Locking
    PROVE  id[p] # id[q]
BY DEF Held

LEMMA FreezeJustified ==
    ASSUME PublisherInv, Justified, NEW p \in Publishers, Freeze(p)
    PROVE  Justified'
<1> USE DEF PublisherInv, MoveTo, SetTree, SetTarget, disk, counters, Justified, Forget, Unlock
<1>1. Clean'
  BY TreeFacts DEF Freeze, PublisherTypeOK, Clean, NoTree, NoClosure, Closure
<1>2. Looked'
  BY TreeFacts, Apart DEF Freeze, PublisherTypeOK, Looked, Held, Locking
<1>3. Reasons'
  BY TreeFacts, Apart DEF Freeze, PublisherTypeOK, Looked, Reasons, Reason, Locking, Clean
<1>4. QED BY <1>1, <1>2, <1>3

LEMMA LockJustified ==
    ASSUME PublisherInv, Justified, NEW p \in Publishers, Lock(p)
    PROVE  Justified'
<1> USE DEF PublisherInv, MoveTo, SetTree, SetTarget, disk, counters, Justified, Forget, Unlock
<1>1. Clean'
  BY TreeFacts DEF Lock, PublisherTypeOK, Clean, NoTree, NoClosure, Closure
<1>2. Looked'
  BY TreeFacts, Apart DEF Lock, PublisherTypeOK, Looked, Held, Locking
<1>3. Reasons'
  BY TreeFacts, Apart DEF Lock, PublisherTypeOK, Looked, Reasons, Reason, Locking, Clean
<1>4. QED BY <1>1, <1>2, <1>3

LEMMA UnsealJustified ==
    ASSUME PublisherInv, Justified, NEW p \in Publishers, Unseal(p)
    PROVE  Justified'
<1> USE DEF PublisherInv, MoveTo, SetTree, SetTarget, disk, counters, Justified, Forget, Unlock
<1>1. Clean'
  BY TreeFacts DEF Unseal, PublisherTypeOK, Clean, NoTree, NoClosure, Closure
<1>2. Looked'
  BY TreeFacts, Apart DEF Unseal, PublisherTypeOK, Looked, Held, Locking
<1>3. Reasons'
  BY TreeFacts, Apart DEF Unseal, PublisherTypeOK, Looked, Reasons, Reason, Locking, Clean
<1>4. QED BY <1>1, <1>2, <1>3

LEMMA RenameJustified ==
    ASSUME PublisherInv, Justified, NEW p \in Publishers, Rename(p)
    PROVE  Justified'
<1> USE DEF PublisherInv, MoveTo, SetTree, SetTarget, disk, counters, Justified, Forget, Unlock
<1>1. Clean'
  BY TreeFacts DEF Rename, PublisherTypeOK, Clean, NoTree, NoClosure, Closure
<1>2. Looked'
  BY TreeFacts, Apart DEF Rename, PublisherTypeOK, Looked, Held, Locking
<1>3. Reasons'
  BY TreeFacts, Apart DEF Rename, PublisherTypeOK, Looked, Reasons, Reason, Locking, Clean
<1>4. QED BY <1>1, <1>2, <1>3

LEMMA RenameRaisesJustified ==
    ASSUME PublisherInv, Justified, NEW p \in Publishers, RenameRaises(p)
    PROVE  Justified'
<1> USE DEF PublisherInv, MoveTo, SetTree, SetTarget, disk, counters, Justified, Forget, Unlock
<1>1. Clean'
  BY TreeFacts DEF RenameRaises, PublisherTypeOK, Clean, NoTree, NoClosure, Closure
<1>2. Looked'
  BY TreeFacts, Apart DEF RenameRaises, PublisherTypeOK, Looked, Held, Locking
<1>3. Reasons'
  BY TreeFacts, Apart DEF RenameRaises, PublisherTypeOK, Looked, Reasons, Reason, Locking, Clean
<1>4. QED BY <1>1, <1>2, <1>3

LEMMA ResealJustified ==
    ASSUME PublisherInv, Justified, NEW p \in Publishers, Reseal(p)
    PROVE  Justified'
<1> USE DEF PublisherInv, MoveTo, SetTree, SetTarget, disk, counters, Justified, Forget, Unlock
<1>1. Clean'
  BY TreeFacts DEF Reseal, PublisherTypeOK, Clean, NoTree, NoClosure, Closure
<1>2. Looked'
  BY TreeFacts, Apart DEF Reseal, PublisherTypeOK, Looked, Held, Locking
<1>3. Reasons'
  BY TreeFacts, Apart DEF Reseal, PublisherTypeOK, Looked, Reasons, Reason, Locking, Clean
<1>4. QED BY <1>1, <1>2, <1>3

LEMMA CheckJustified ==
    ASSUME PublisherInv, Justified, NEW p \in Publishers, Check(p)
    PROVE  Justified'
<1> USE DEF PublisherInv, MoveTo, SetTree, SetTarget, disk, counters, Justified, Forget, Unlock
<1>1. Clean'
  BY TreeFacts DEF Check, PublisherTypeOK, Clean, NoTree, NoClosure, Closure
<1>2. Looked'
  BY TreeFacts, Apart DEF Check, PublisherTypeOK, Looked, Held, Locking
<1>3. Reasons'
  <2>1. CASE target[id[p]].files = closure[p]
    BY <2>1 DEF Check, PublisherTypeOK, Reasons, Reason
  <2>2. CASE target[id[p]].files # closure[p]
    <3>1. /\ target[id[p]] \in Tree /\ closure[p] \in Closure
          /\ target[id[p]].files.bytes = closure[p].bytes
          /\ ~closure[p].stray
      BY DEF Check, PublisherTypeOK, Published, Prepared
    <3>2. target[id[p]].files.stray
      BY <2>2, <3>1 DEF Tree, Closure
    <3>3. strays > 0
      BY <3>2 DEF Check, PublisherTypeOK, Clean
    <3>4. QED BY <3>3 DEF Check, Reasons, Reason
  <2>3. QED BY <2>1, <2>2
<1>4. QED BY <1>1, <1>2, <1>3

LEMMA CompareJustified ==
    ASSUME PublisherInv, Justified, NEW p \in Publishers, Compare(p)
    PROVE  Justified'
<1> USE DEF PublisherInv, MoveTo, SetTree, SetTarget, disk, counters, Justified, Forget, Unlock
<1>1. Clean'
  BY TreeFacts DEF Compare, PublisherTypeOK, Clean, NoTree, NoClosure, Closure
<1>2. Looked'
  BY TreeFacts, Apart DEF Compare, PublisherTypeOK, Looked, Held, Locking
<1>3. Reasons'
  <2>1. CASE target[id[p]].files = tree[p].files
    BY <2>1 DEF Compare, PublisherTypeOK, Reasons, Reason
  <2>2. CASE target[id[p]].files # tree[p].files
    <3>1. /\ target[id[p]] # NoTree /\ target[id[p]] \in Tree
          /\ tree[p].files = closure[p] /\ closure[p] \in Closure
      BY DEF Compare, PublisherTypeOK, Prepared, Looked
    <3>2. \/ target[id[p]].files.bytes # closure[p].bytes
          \/ target[id[p]].files.stray # tree[p].files.stray
      BY <2>2, <3>1 DEF Tree, Closure
    <3>3. CASE target[id[p]].files.bytes # closure[p].bytes
      BY <2>2, <3>1, <3>3 DEF Compare, PublisherTypeOK, Reasons, Reason
    <3>4. CASE target[id[p]].files.stray # tree[p].files.stray
      <4>1. strays > 0
        BY <3>4, <3>1 DEF Compare, PublisherTypeOK, Clean, Tree, Closure
      <4>2. QED BY <4>1 DEF Compare, Reasons, Reason
    <3>5. QED BY <3>2, <3>3, <3>4
  <2>3. QED BY <2>1, <2>2
<1>4. QED BY <1>1, <1>2, <1>3

LEMMA RefreezeJustified ==
    ASSUME PublisherInv, Justified, NEW p \in Publishers, Refreeze(p)
    PROVE  Justified'
<1> USE DEF PublisherInv, MoveTo, SetTree, SetTarget, disk, counters, Justified, Forget, Unlock
<1>1. Clean'
  BY TreeFacts DEF Refreeze, PublisherTypeOK, Clean, NoTree, NoClosure, Closure
<1>2. Looked'
  BY TreeFacts, Apart DEF Refreeze, PublisherTypeOK, Looked, Held, Locking
<1>3. Reasons'
  BY TreeFacts, Apart DEF Refreeze, PublisherTypeOK, Looked, Reasons, Reason, Locking, Clean
<1>4. QED BY <1>1, <1>2, <1>3

LEMMA PointJustified ==
    ASSUME PublisherInv, Justified, NEW p \in Publishers, PointAt(p)
    PROVE  Justified'
<1> USE DEF PublisherInv, MoveTo, SetTree, SetTarget, disk, counters, Justified, Forget, Unlock
<1>1. Clean'
  BY TreeFacts DEF PointAt, PublisherTypeOK, Clean, NoTree, NoClosure, Closure
<1>2. Looked'
  BY TreeFacts, Apart DEF PointAt, PublisherTypeOK, Looked, Held, Locking
<1>3. Reasons'
  BY TreeFacts, Apart DEF PointAt, PublisherTypeOK, Looked, Reasons, Reason, Locking, Clean
<1>4. QED BY <1>1, <1>2, <1>3

LEMMA RaiseJustified ==
    ASSUME PublisherInv, Justified, NEW p \in Publishers, Raise(p)
    PROVE  Justified'
<1> USE DEF PublisherInv, MoveTo, SetTree, SetTarget, disk, counters, Justified, Forget, Unlock
<1>1. Clean'
  BY TreeFacts DEF Raise, PublisherTypeOK, Clean, NoTree, NoClosure, Closure
<1>2. Looked'
  BY TreeFacts, Apart DEF Raise, PublisherTypeOK, Looked, Held, Locking
<1>3. Reasons'
  BY TreeFacts, Apart DEF Raise, PublisherTypeOK, Looked, Reasons, Reason, Locking, Clean
<1>4. QED BY <1>1, <1>2, <1>3

LEMMA CrashJustified ==
    ASSUME PublisherInv, Justified, NEW p \in Publishers, Die(p)
    PROVE  Justified'
<1> USE DEF PublisherInv, MoveTo, SetTree, SetTarget, disk, counters, Justified, Forget, Unlock
<1>1. Clean'
  BY TreeFacts DEF Die, PublisherTypeOK, Clean, NoTree, NoClosure, Closure
<1>2. Looked'
  BY TreeFacts, Apart DEF Die, PublisherTypeOK, Looked, Held, Locking
<1>3. Reasons'
  BY TreeFacts, Apart DEF Die, PublisherTypeOK, Looked, Reasons, Reason, Locking, Clean
<1>4. QED BY <1>1, <1>2, <1>3

LEMMA StrayInPreparedJustified ==
    ASSUME PublisherInv, Justified, NEW p \in Publishers, StrayInPrepared(p)
    PROVE  Justified'
<1> USE DEF PublisherInv, MoveTo, SetTree, SetTarget, disk, counters, Justified, Forget, Unlock
<1>1. Clean'
  BY TreeFacts DEF StrayInPrepared, PublisherTypeOK, Clean, NoTree, NoClosure, Closure
<1>2. Looked'
  BY TreeFacts, Apart DEF StrayInPrepared, PublisherTypeOK, Looked, Held, Locking
<1>3. Reasons'
  BY TreeFacts, Apart DEF StrayInPrepared, PublisherTypeOK, Looked, Reasons, Reason, Locking, Clean
<1>4. QED BY <1>1, <1>2, <1>3

LEMMA CallJustified ==
    ASSUME PublisherInv, Justified,
           NEW p \in Publishers, NEW g \in Ids, NEW b \in Bytes, Call(p, g, b)
    PROVE  Justified'
<1> USE DEF PublisherInv, Justified, MoveTo, SetTree, disk
<1>1. Clean'
  BY DEF Call, PublisherTypeOK, Clean
<1>2. Looked'
  BY DEF Call, PublisherTypeOK, Looked
<1>3. Reasons'
  BY DEF Call, PublisherTypeOK, Reasons, Reason
<1>4. QED BY <1>1, <1>2, <1>3

LEMMA StrayInTargetJustified ==
    ASSUME PublisherInv, Justified, NEW g \in Ids, StrayInTarget(g)
    PROVE  Justified'
<1> USE DEF PublisherInv, Justified
<1>1. strays' > 0
  BY DEF StrayInTarget, PublisherTypeOK
<1>2. Clean' /\ Reasons'
  BY <1>1 DEF Clean, Reasons, Reason
<1>3. Looked'
  BY TreeFacts DEF StrayInTarget, PublisherTypeOK, Looked
<1>4. QED BY <1>2, <1>3

LEMMA StutterJustified == Justified /\ UNCHANGED publisherVars => Justified'
BY DEF Justified, Clean, Looked, Reasons, Reason, publisherVars, disk, counters

\* Every step keeps the reasons of the calls that raise.
THEOREM JustifiedStep ==
    PublisherInv /\ Justified /\ [PublisherNext]_publisherVars => Justified'
<1> SUFFICES ASSUME PublisherInv, Justified, [PublisherNext]_publisherVars PROVE Justified'
  OBVIOUS
<1>1. CASE \E p \in Publishers, g \in Ids, b \in Bytes: Call(p, g, b)
  BY <1>1, CallJustified
<1>2. ASSUME NEW p \in Publishers, PublisherStep(p) PROVE Justified'
  BY <1>2, FreezeJustified, LockJustified, UnsealJustified, RenameJustified,
     RenameRaisesJustified, ResealJustified, CheckJustified, CompareJustified,
     RefreezeJustified, PointJustified, RaiseJustified
     DEF PublisherStep
<1>3. ASSUME NEW p \in Publishers, Die(p) \/ StrayInPrepared(p) PROVE Justified'
  BY <1>3, CrashJustified, StrayInPreparedJustified
<1>4. CASE \E g \in Ids: StrayInTarget(g)
  BY <1>4, StrayInTargetJustified
<1>5. CASE UNCHANGED publisherVars
  BY <1>5, StutterJustified
<1>6. QED BY <1>1, <1>2, <1>3, <1>4, <1>5 DEF PublisherNext

\* Publication is idempotent for any number of publishers: a call of
\* publish_prepared_generation raises only after an error of os.rename, a
\* stray file, or at an identity that holds other bytes, and never because
\* somebody else has published the same bytes or was killed while doing so.
THEOREM OnlyForAReason == PublisherSpec => []RaisesForAReason
<1>1. PublisherInv /\ Reasons => RaisesForAReason
  <2> SUFFICES ASSUME PublisherInv, Reasons, NEW p \in Publishers, place[p] = "raised",
                      ~(renameErrors > 0), ~(strays > 0)
               PROVE  target[id[p]].files.bytes \in Bytes \ {closure[p].bytes}
    BY DEF RaisesForAReason, PublisherInv
  <2>1. /\ target[id[p]] # NoTree
        /\ target[id[p]].files.bytes # closure[p].bytes
    BY DEF Reasons, Reason
  <2>2. target[id[p]] \in Tree
    BY <2>1 DEF PublisherInv, PublisherTypeOK
  <2>3. QED BY <2>1, <2>2, TreeFacts
<1>2. PublisherSpec => []Justified
  BY JustifiedInit, JustifiedStep, PublisherInvHolds, PTL DEF PublisherSpec
<1>3. QED BY <1>1, <1>2, PublisherInvHolds, PTL DEF Justified
=============================================================================
