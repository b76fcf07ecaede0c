------------------------ MODULE SealedHoldoutProofs ------------------------
(***************************************************************************)
(* Machine-checked proofs about SealedHoldout, for every set of processes, *)
(* views and output roots and every bound: the types, that the payloads of *)
(* a view are opened at most once and only under the sentinel, that an     *)
(* accepted result is unique and stays accepted, and that an evaluation    *)
(* nobody kills closes its capability.                                     *)
(***************************************************************************)
EXTENDS SealedHoldout, TLAPS

-----------------------------------------------------------------------------
(* Steps                                                                   *)

\* What process p does next.
Act(p) ==
    \/ \E v \in Views, r \in Roots: Issue(p, v, r)
    \/ \E c \in Capabilities: Validate(p, c)
    \/ Step(p) \/ Raise(p) \/ RaiseAgain(p) \/ Crash(p)

LEMMA NextIsAct == Next => \E p \in Procs: Act(p)
BY DEF Next, Act

LEMMA NoCapIsNone == NoCap \notin Capabilities /\ \A c \in Capabilities: c.id \in 1..MaxIssues
BY BoundsAssumption DEF NoCap, Capabilities

\* Whoever is not idle has a capability in hand.
LEMMA InHand ==
    ASSUME TypeOK, NEW p \in Procs, pc[p] # "idle"
    PROVE  cap[p] \in Capabilities
BY DEF TypeOK

LEMMA LineType ==
    ASSUME TypeOK, NEW i \in 1..Len(ledger)
    PROVE  ledger[i].cap \in Capabilities
<1>1. ledger[i] \in Event
  BY DEF TypeOK
<1>2. QED BY <1>1 DEF Event

\* A ledger that has grown by one line.
LEMMA Grown ==
    ASSUME ledger \in Seq(Event), NEW c \in Capabilities,
           NEW e \in {"issued", "consumption_started"} \cup Terminal,
           Append1(e, c)
    PROVE  /\ ledger' \in Seq(Event)
           /\ Len(ledger') = Len(ledger) + 1
           /\ \A i \in 1..Len(ledger): ledger'[i] = ledger[i]
           /\ ledger'[Len(ledger) + 1] = [event |-> e, cap |-> c]
<1>1. [event |-> e, cap |-> c] \in Event
  BY DEF Event
<1>2. QED BY <1>1 DEF Append1

\* What leaving a command does to its process and to the lock.
LEMMA Left ==
    ASSUME TypeOK, NEW p \in Procs, Leave(p)
    PROVE  /\ pc' \in [Procs -> {"idle"} \cup Issuing \cup Evaluating]
           /\ cap' \in [Procs -> Capabilities \cup {NoCap}]
           /\ \A q \in Procs: (cap'[q] = NoCap) <=> (pc'[q] = "idle")
           /\ lock' \in Procs \cup {NoProc}
BY DEF TypeOK, Leave

-----------------------------------------------------------------------------
(* Type correctness                                                        *)

\* The empty registry has its types.
THEOREM TypeInit == Init => TypeOK
<1> SUFFICES ASSUME Init PROVE TypeOK
  OBVIOUS
<1>1. ledger \in Seq(Event)
  BY DEF Init
<1>2. QED BY <1>1, BoundsAssumption DEF Init, TypeOK

\* Every step of a registry command and of an agent keeps the types.
THEOREM TypeStep == TypeOK /\ [Next]_vars => TypeOK'
<1> SUFFICES ASSUME TypeOK, [Next]_vars PROVE TypeOK'
  OBVIOUS
<1> USE BoundsAssumption
<1>1. CASE UNCHANGED vars
  BY <1>1 DEF TypeOK, vars, registry, output, bounds
<1>2. ASSUME NEW p \in Procs, NEW v \in Views, NEW r \in Roots, Issue(p, v, r)
      PROVE  TypeOK'
  <2>1. [id |-> issues + 1, view |-> v, root |-> r] \in Capabilities
    BY <1>2 DEF Issue, TypeOK, Capabilities
  <2>2. QED BY <1>2, <2>1, NoCapIsNone
            DEF Issue, TypeOK, Issuing, registry, output
<1>3. ASSUME NEW p \in Procs, NEW c \in Capabilities, Validate(p, c)
      PROVE  TypeOK'
  BY <1>3, NoCapIsNone DEF Validate, TypeOK, Evaluating, registry, output
<1>4. ASSUME NEW p \in Procs,
             RefuseView(p) \/ RefuseCapability(p) \/ Crash(p)
      PROVE  TypeOK'
  <2>1. Leave(p)
    BY <1>4 DEF RefuseView, RefuseCapability, Crash
  <2>2. QED BY <1>4, <2>1, Left DEF RefuseView, RefuseCapability, Crash, TypeOK,
                                    registry, output, bounds
<1>5. ASSUME NEW p \in Procs, Register(p) \/ Begin(p) \/ Finish(p)
      PROVE  TypeOK'
  BY <1>5 DEF Register, Begin, Finish, Goto, Lock, TypeOK, Issuing, Evaluating,
              registry, output, bounds
<1>6. ASSUME NEW p \in Procs, WriteManifest(p)
      PROVE  TypeOK'
  BY <1>6, InHand DEF WriteManifest, Goto, TypeOK, Issuing, output, bounds
<1>7. ASSUME NEW p \in Procs, LogIssued(p) \/ Complete(p) \/ LogBlocked(p)
      PROVE  TypeOK'
  <2>1. ledger' \in Seq(Event)
    BY <1>7, InHand, Grown DEF LogIssued, Complete, LogBlocked, Terminal, TypeOK
  <2>2. QED BY <1>7, <2>1 DEF LogIssued, Complete, LogBlocked, Leave, TypeOK,
                              output, bounds
<1>8. ASSUME NEW p \in Procs, LogStarted(p)
      PROVE  TypeOK'
  <2>1. ledger' \in Seq(Event)
    BY <1>8, InHand, Grown DEF LogStarted, Goto, TypeOK
  <2>2. QED BY <1>8, <2>1 DEF LogStarted, Goto, TypeOK, Evaluating, output, bounds
<1>9. ASSUME NEW p \in Procs,
             WriteSentinel(p) \/ OpenView(p) \/ Publish(p) \/ Point(p)
      PROVE  TypeOK'
  <2>1. cap[p] \in Capabilities /\ cap[p].root \in Roots /\ cap[p].view \in Views
        /\ cap[p].id \in 0..MaxIssues
    BY <1>9, InHand DEF WriteSentinel, OpenView, Publish, Point, Goto, Capabilities
  <2>2. pc' \in [Procs -> {"idle"} \cup Issuing \cup Evaluating]
        /\ \A q \in Procs: (cap'[q] = NoCap) <=> (pc'[q] = "idle")
    BY <1>9 DEF WriteSentinel, OpenView, Publish, Point, Goto, TypeOK, Evaluating
  <2>3. CASE WriteSentinel(p)
    BY <2>1, <2>2, <2>3 DEF WriteSentinel, TypeOK, registry, bounds
  <2>4. CASE OpenView(p)
    BY <2>1, <2>2, <2>4 DEF OpenView, TypeOK, registry, output, bounds
  <2>5. CASE Publish(p)
    BY <2>1, <2>2, <2>5 DEF Publish, TypeOK, registry, bounds
  <2>6. CASE Point(p)
    BY <2>1, <2>2, <2>6 DEF Point, TypeOK, registry, bounds
  <2>7. QED BY <1>9, <2>3, <2>4, <2>5, <2>6
<1>10. ASSUME NEW p \in Procs, Raise(p)
       PROVE  TypeOK'
  <2>1. ledger' \in Seq(Event)
    BY <1>10, InHand, Grown DEF Raise, Terminal, TypeOK
  <2>2. QED BY <1>10, <2>1 DEF Raise, TypeOK, Evaluating, output
<1>11. ASSUME NEW p \in Procs, RaiseAgain(p)
       PROVE  TypeOK'
  <2>1. ledger' \in Seq(Event)
    BY <1>11, InHand, Grown DEF RaiseAgain, Terminal, TypeOK
  <2>2. QED BY <1>11, <2>1 DEF RaiseAgain, Leave, TypeOK, output
<1>12. ASSUME NEW p \in Procs, Block(p)
       PROVE  TypeOK'
  BY <1>12 DEF Block, Goto, Lock, Leave, TypeOK, Evaluating, registry, output, bounds
<1>13. QED
  BY <1>1, <1>2, <1>3, <1>4, <1>5, <1>6, <1>7, <1>8, <1>9, <1>10, <1>11, <1>12
     DEF Next, Step

\* Every variable keeps its type.
THEOREM TypeCorrect == Spec => []TypeOK
<1>1. QED BY TypeInit, TypeStep, PTL DEF Spec

-----------------------------------------------------------------------------
(* The invariant                                                           *)

InLedger(c) == \E i \in 1..Len(ledger): ledger[i].cap = c
Started(c) == Logged({"consumption_started"}, c)
Ended(c) == Logged(Terminal, c)

\* Where a process has the registry's lock.
Holding == {"manifest", "log", "start", "complete", "close"}
LockInv == \A p \in Procs: pc[p] \in Holding => lock = p

\* An id stands for one capability, wherever it is found.
Known(c) ==
    c \in manifests \/ InLedger(c) \/ \E p \in Procs: pc[p] # "idle" /\ cap[p] = c
Distinct ==
    \A c, d \in Capabilities: Known(c) /\ Known(d) =>
        c.id <= issues /\ (c.id = d.id => c = d)

\* A view is registered for one capability, and whoever is registering a view
\* is the first to do so.
OneOfView ==
    \A i, j \in 1..Len(ledger):
        ledger[i].cap.view = ledger[j].cap.view => ledger[i].cap = ledger[j].cap
Fresh == \A p \in Procs: pc[p] \in {"manifest", "log"} => ~Registered(cap[p].view)

\* Who evaluates has an issued capability.
Issued == \A p \in Procs: pc[p] \in Evaluating => InLedger(cap[p])

\* A capability is spent on the ledger by its only consumer, which has not
\* closed it unless it is about to try once more.
Spending ==
    \A p \in Procs:
        /\ pc[p] = "start" => ~Started(cap[p])
        /\ pc[p] \in Consuming \ {"start"} => Started(cap[p])
        /\ pc[p] \in Consuming \ {"block"} => ~Ended(cap[p])
Alone ==
    \A p, q \in Procs:
        pc[p] \in Consuming /\ pc[q] \in Consuming /\ cap[p] = cap[q] => p = q

\* The payloads are opened once, on the way from "open" to "publish".
Opening ==
    /\ \A p \in Procs: pc[p] = "open" => cap[p].root \in sentinels
    /\ \A p \in Procs: pc[p] \in {"start", "guard", "open"} =>
           opened[cap[p].view] = 0
    /\ \A p \in Procs: pc[p] = "publish" => opened[cap[p].view] >= 1
    /\ \A c \in results: opened[c.view] >= 1

Registry == TypeOK /\ LockInv /\ Distinct /\ OneOfView /\ Fresh /\ Issued
Inv == /\ Registry /\ Spending /\ Alone /\ Opening
       /\ OpenedOnce /\ OpenedIsGuarded

\* What a line says that a process at this point appends.
LineOf == [log |-> "issued", start |-> "consumption_started",
           complete |-> "completed", close |-> "blocked"]

LEMMA LineFacts ==
    /\ DOMAIN LineOf = {"log", "start", "complete", "close"}
    /\ LineOf["log"] = "issued" /\ LineOf["start"] = "consumption_started"
    /\ LineOf["complete"] = "completed" /\ LineOf["close"] = "blocked"
    /\ \A s \in DOMAIN LineOf: LineOf[s] \in {"issued", "consumption_started"} \cup Terminal
BY DEF LineOf, Terminal

\* The ledger changes by one line of the process that steps, or not at all.
LEMMA LedgerMoves ==
    ASSUME NEW p \in Procs, Act(p)
    PROVE  \/ ledger' = ledger
           \/ pc[p] \in DOMAIN LineOf /\ Append1(LineOf[pc[p]], cap[p])
BY LineFacts
   DEF Act, Issue, Validate, Step, Raise, RaiseAgain, Crash, RefuseView, Register,
       WriteManifest, LogIssued, RefuseCapability, Begin, LogStarted,
       WriteSentinel, OpenView, Publish, Point, Finish, Complete, Block,
       LogBlocked, Goto, registry, output, bounds

\* Nobody else moves.
LEMMA OthersStay ==
    ASSUME TypeOK, NEW p \in Procs, Act(p), NEW q \in Procs, q # p
    PROVE  pc'[q] = pc[q] /\ cap'[q] = cap[q]
BY DEF TypeOK, Act, Issue, Validate, Step, Raise, RaiseAgain, Crash, RefuseView,
       Register, WriteManifest, LogIssued, RefuseCapability, Begin, LogStarted,
       WriteSentinel, OpenView, Publish, Point, Finish, Complete, Block,
       LogBlocked, Goto, Leave, registry, output, bounds

\* Where a step takes its own process.
LEMMA Moves ==
    ASSUME TypeOK, NEW p \in Procs, Act(p)
    PROVE  \/ pc'[p] = "idle"
           \/ pc[p] = "idle" /\ pc'[p] \in {"register", "begin"}
           \/ /\ cap'[p] = cap[p]
              /\ \/ pc[p] = "register" /\ pc'[p] = "manifest"
                 \/ pc[p] = "manifest" /\ pc'[p] = "log"
                 \/ pc[p] = "begin" /\ pc'[p] = "start"
                 \/ pc[p] = "start" /\ pc'[p] = "guard"
                 \/ pc[p] = "guard" /\ pc'[p] = "open"
                 \/ pc[p] = "open" /\ pc'[p] = "publish"
                 \/ pc[p] = "publish" /\ pc'[p] = "point"
                 \/ pc[p] = "point" /\ pc'[p] = "finish"
                 \/ pc[p] = "finish" /\ pc'[p] = "complete"
                 \/ pc[p] = "block" /\ pc'[p] = "close"
                 \/ pc'[p] = "block" /\ pc[p] \in
                      {"guard", "open", "publish", "point", "finish", "complete"}
BY DEF TypeOK, Act, Issue, Validate, Step, Raise, RaiseAgain, Crash, RefuseView,
       Register, WriteManifest, LogIssued, RefuseCapability, Begin, LogStarted,
       WriteSentinel, OpenView, Publish, Point, Finish, Complete, Block,
       LogBlocked, Goto, Leave, registry, output, bounds

\* What the lines of a grown ledger say.
LEMMA GrownSays ==
    ASSUME TypeOK, NEW p \in Procs, pc[p] \in DOMAIN LineOf,
           Append1(LineOf[pc[p]], cap[p]), NEW es, NEW c
    PROVE  /\ Logged(es, c)' <=>
                 Logged(es, c) \/ (LineOf[pc[p]] \in es /\ cap[p].id = c.id)
           /\ InLedger(c)' <=> InLedger(c) \/ cap[p] = c
           /\ Registered(c)' <=> Registered(c) \/ cap[p].view = c
<1>1. cap[p] \in Capabilities
  BY InHand, LineFacts
<1>2. /\ Len(ledger) \in Nat
      /\ Len(ledger') = Len(ledger) + 1
      /\ \A i \in 1..Len(ledger): ledger'[i] = ledger[i]
      /\ ledger'[Len(ledger) + 1] = [event |-> LineOf[pc[p]], cap |-> cap[p]]
  BY <1>1, Grown, LineFacts DEF TypeOK
<1>3. QED BY <1>2 DEF Logged, InLedger, Registered

\* Whoever is inside the lock of the ledger keeps it until it leaves.
THEOREM LockStep ==
    ASSUME TypeOK, LockInv, NEW p \in Procs, Act(p)
    PROVE  LockInv'
<1> SUFFICES ASSUME NEW q \in Procs, pc'[q] \in Holding PROVE lock' = q
  BY DEF LockInv
<1>1. CASE q = p
  BY <1>1 DEF LockInv, Holding, TypeOK, Act, Issue, Validate, Step, Raise, RaiseAgain,
       Crash, RefuseView, Register, WriteManifest, LogIssued, RefuseCapability,
       Begin, LogStarted, WriteSentinel, OpenView, Publish, Point, Finish, Complete,
       Block, LogBlocked, Goto, Leave, Lock, registry, output, bounds
<1>2. CASE q # p
  <2>1. lock = q
    BY <1>2, OthersStay DEF LockInv
  <2>2. QED
    BY <1>2, <2>1, NoProcAssumption DEF LockInv, Holding, TypeOK, Act, Issue, Validate,
       Step, Raise, RaiseAgain,
       Crash, RefuseView, Register, WriteManifest, LogIssued, RefuseCapability,
       Begin, LogStarted, WriteSentinel, OpenView, Publish, Point, Finish, Complete,
       Block, LogBlocked, Goto, Leave, Lock, registry, output, bounds
<1>3. QED BY <1>1, <1>2

\* Whatever a step leaves known was known before, but for what Issue draws.
LEMMA KnownBefore ==
    ASSUME Registry, NEW p \in Procs, Act(p), NEW c \in Capabilities, Known(c)'
    PROVE  \/ Known(c) /\ issues <= issues'
           \/ \E v \in Views, r \in Roots: Issue(p, v, r) /\ c = cap'[p]
<1>1. issues <= issues'
  BY DEF Registry, TypeOK, Act, Issue, Validate, Step, Raise, RaiseAgain, Crash,
         RefuseView, Register, WriteManifest, LogIssued, RefuseCapability, Begin,
         LogStarted, WriteSentinel, OpenView, Publish, Point, Finish, Complete,
         Block, LogBlocked, registry, output, bounds
<1>2. CASE c \in manifests'
  <2>1. c \in manifests \/ (pc[p] # "idle" /\ c = cap[p])
    BY <1>2 DEF Act, Issue, Validate, Step, Raise, RaiseAgain, Crash, RefuseView,
         Register, WriteManifest, LogIssued, RefuseCapability, Begin, LogStarted,
         WriteSentinel, OpenView, Publish, Point, Finish, Complete, Block,
         LogBlocked, Goto, registry, output, bounds
  <2>2. QED BY <1>1, <2>1 DEF Known
<1>3. CASE InLedger(c)'
  <2>1. CASE ledger' = ledger
    BY <1>1, <1>3, <2>1 DEF Known, InLedger
  <2>2. CASE pc[p] \in DOMAIN LineOf /\ Append1(LineOf[pc[p]], cap[p])
    <3>1. InLedger(c) \/ cap[p] = c
      BY <1>3, <2>2, GrownSays DEF Registry
    <3>2. pc[p] # "idle"
      BY <2>2, LineFacts
    <3>3. QED BY <1>1, <3>1, <3>2 DEF Known
  <2>3. QED BY <2>1, <2>2, LedgerMoves
<1>4. ASSUME NEW q \in Procs, pc'[q] # "idle", cap'[q] = c
      PROVE  \/ Known(c)
             \/ \E v \in Views, r \in Roots: Issue(p, v, r) /\ c = cap'[p]
  <2>1. CASE q # p
    BY <1>4, <2>1, OthersStay DEF Known, Registry
  <2>2. CASE q = p /\ pc[p] # "idle"
    <3>1. cap'[p] = cap[p]
      BY <1>4, <2>2, Moves DEF Registry
    <3>2. QED BY <1>4, <2>2, <3>1 DEF Known
  <2>3. CASE q = p /\ pc[p] = "idle"
    <3>1. \/ \E v \in Views, r \in Roots: Issue(p, v, r)
          \/ \E d \in Capabilities: Validate(p, d)
      BY <1>4, <2>3 DEF Act, Step, Raise, RaiseAgain, Crash, RefuseView,
         Register, WriteManifest, LogIssued, RefuseCapability, Begin, LogStarted,
         WriteSentinel, OpenView, Publish, Point, Finish, Complete, Block,
         LogBlocked, Goto
    <3>2. ASSUME NEW d \in Capabilities, Validate(p, d) PROVE Known(c)
      <4>1. c \in manifests
        BY <1>4, <2>3, <3>2 DEF Validate, Registry, TypeOK
      <4>2. QED BY <4>1 DEF Known
    <3>3. QED BY <1>4, <2>3, <3>1, <3>2
  <2>4. QED BY <2>1, <2>2, <2>3
<1>5. QED BY <1>1, <1>2, <1>3, <1>4 DEF Known

\* No step registers a second capability of the identity of another.
THEOREM DistinctStep ==
    ASSUME Registry, NEW p \in Procs, Act(p)
    PROVE  Distinct'
<1> SUFFICES ASSUME NEW c \in Capabilities, NEW d \in Capabilities,
                    Known(c)', Known(d)'
             PROVE  c.id <= issues' /\ (c.id = d.id => c = d)
  BY DEF Distinct
<1>1. ASSUME NEW x \in Capabilities, Known(x)'
      PROVE  \/ Known(x) /\ x.id <= issues /\ issues <= issues'
             \/ x = cap'[p] /\ x.id = issues + 1 /\ issues' = issues + 1
  <2>1. CASE Known(x) /\ issues <= issues'
    BY <2>1 DEF Registry, Distinct
  <2>2. ASSUME NEW v \in Views, NEW r \in Roots, Issue(p, v, r), x = cap'[p]
        PROVE  x.id = issues + 1 /\ issues' = issues + 1
    BY <2>2 DEF Issue, Registry, TypeOK
  <2>3. QED BY <1>1, <2>1, <2>2, KnownBefore
<1>2. issues \in Nat /\ c.id \in Nat /\ d.id \in Nat
  BY BoundsAssumption DEF Registry, TypeOK, Capabilities
<1>3. \/ Known(c) /\ c.id <= issues /\ issues <= issues'
      \/ c = cap'[p] /\ c.id = issues + 1 /\ issues' = issues + 1
  BY <1>1
<1>4. \/ Known(d) /\ d.id <= issues /\ issues <= issues'
      \/ d = cap'[p] /\ d.id = issues + 1 /\ issues' = issues + 1
  BY <1>1
<1>5. Known(c) /\ Known(d) /\ c.id = d.id => c = d
  BY DEF Registry, Distinct
<1>6. issues' \in Nat
  BY <1>2, <1>3, TypeStep DEF Registry, TypeOK, Act, Next
<1>7. QED BY <1>2, <1>3, <1>4, <1>5, <1>6

\* No step registers a second capability of a view, and whoever evaluates has
\* one that was issued.
THEOREM OneOfViewStep ==
    ASSUME Registry, NEW p \in Procs, Act(p)
    PROVE  OneOfView' /\ Fresh' /\ Issued'
<1>1. CASE ledger' = ledger
  <2>1. OneOfView'
    BY <1>1 DEF Registry, OneOfView
  <2>2. ASSUME NEW q \in Procs, pc'[q] \in {"manifest", "log"}
        PROVE  ~Registered(cap'[q].view)
    <3>1. CASE pc[q] \in {"manifest", "log"} /\ cap'[q] = cap[q]
      BY <3>1 DEF Registry, Fresh
    <3>2. CASE q = p /\ Register(p)
      BY <3>2 DEF Register
    <3>3. QED
      BY <2>2, <3>1, <3>2, OthersStay, Moves DEF Registry, TypeOK, Act, Issue, Validate, Step,
         Raise, RaiseAgain, Crash, RefuseView,
         Register, WriteManifest, LogIssued, RefuseCapability, Begin, LogStarted,
         WriteSentinel, OpenView, Publish, Point, Finish, Complete, Block,
         LogBlocked, Goto, Leave
  <2>3. Fresh'
    BY <1>1, <2>2 DEF Fresh, Registered
  <2>4. ASSUME NEW q \in Procs, pc'[q] \in Evaluating
        PROVE  InLedger(cap'[q])
    <3>1. CASE pc[q] \in Evaluating /\ cap'[q] = cap[q]
      BY <3>1 DEF Registry, Issued
    <3>2. ASSUME NEW c \in Capabilities, Validate(p, c), q = p
          PROVE  InLedger(cap'[q])
      <4>1. PICK i \in 1..Len(ledger): ledger[i].cap.id = c.id
        BY <3>2 DEF Validate, Logged
      <4>2. ledger[i].cap \in Capabilities
        BY <4>1, LineType DEF Registry
      <4>3. Known(ledger[i].cap) /\ Known(c)
        BY <3>2, <4>1 DEF Known, InLedger, Validate
      <4>4. ledger[i].cap = c
        BY <4>1, <4>2, <4>3 DEF Registry, Distinct
      <4>5. cap'[q] = c
        BY <3>2 DEF Validate, Registry, TypeOK
      <4>6. QED BY <4>1, <4>4, <4>5 DEF InLedger
    <3>3. QED
      BY <2>4, <3>1, <3>2, OthersStay DEF Registry, TypeOK, Evaluating, Act, Issue, Validate, Step,
         Raise, RaiseAgain, Crash, RefuseView,
         Register, WriteManifest, LogIssued, RefuseCapability, Begin, LogStarted,
         WriteSentinel, OpenView, Publish, Point, Finish, Complete, Block,
         LogBlocked, Goto, Leave
  <2>5. Issued'
    BY <1>1, <2>4 DEF Issued, InLedger
  <2>6. QED BY <2>1, <2>3, <2>5
<1>2. CASE pc[p] \in DOMAIN LineOf /\ Append1(LineOf[pc[p]], cap[p])
  <2>1. lock = p
    BY <1>2, LineFacts DEF Registry, LockInv, Holding
  <2>2. /\ \A i \in 1..Len(ledger): ledger'[i] = ledger[i]
        /\ Len(ledger) \in Nat /\ Len(ledger') = Len(ledger) + 1
        /\ ledger'[Len(ledger) + 1].cap = cap[p]
    <3>1. cap[p] \in Capabilities
      BY <1>2, InHand, LineFacts DEF Registry
    <3>2. ledger \in Seq(Event)
      BY DEF Registry, TypeOK
    <3>3. /\ Len(ledger') = Len(ledger) + 1
          /\ \A i \in 1..Len(ledger): ledger'[i] = ledger[i]
          /\ ledger'[Len(ledger) + 1] = [event |-> LineOf[pc[p]], cap |-> cap[p]]
      BY <1>2, <3>1, <3>2, Grown, LineFacts
    <3>4. QED BY <3>2, <3>3
  <2>3. \A i \in 1..Len(ledger): ledger[i].cap.view = cap[p].view => ledger[i].cap = cap[p]
    <3>1. CASE pc[p] = "log"
      BY <3>1 DEF Registry, Fresh, Registered
    <3>2. CASE pc[p] \in Evaluating
      BY <3>2 DEF Registry, Issued, InLedger, OneOfView
    <3>3. QED BY <1>2, <3>1, <3>2, LineFacts DEF Evaluating
  <2>4. OneOfView'
    BY <2>2, <2>3 DEF Registry, OneOfView
  <2>5. \A q \in Procs: pc'[q] \notin {"manifest", "log"}
    BY <1>2, <2>1, LineFacts, OthersStay, Moves DEF Registry, LockInv, Holding
  <2>6. Fresh'
    BY <2>5 DEF Fresh
  <2>7. ASSUME NEW q \in Procs, pc'[q] \in Evaluating
        PROVE  InLedger(cap[q]) /\ cap'[q] = cap[q]
    <3>1. CASE q # p
      BY <2>7, <3>1, OthersStay DEF Registry, Issued
    <3>2. CASE q = p
      BY <1>2, <2>7, <3>2, Moves, LineFacts DEF Registry, Issued, Evaluating
    <3>3. QED BY <3>1, <3>2
  <2>8. Issued'
    BY <2>2, <2>7 DEF Issued, InLedger
  <2>9. QED BY <2>4, <2>6, <2>8
<1>3. QED BY <1>1, <1>2, LedgerMoves

\* The ledger, its lock and the capabilities on it stay consistent.
THEOREM RegistryStep == Registry /\ [Next]_vars => Registry'
<1> SUFFICES ASSUME Registry, [Next]_vars PROVE Registry'
  OBVIOUS
<1>1. TypeOK'
  BY TypeStep DEF Registry
<1>2. CASE UNCHANGED vars
  BY <1>1, <1>2 DEF Registry, LockInv, Distinct, Known, InLedger, OneOfView, Fresh,
       Registered, Issued, vars, registry, output, bounds
<1>3. ASSUME NEW p \in Procs, Act(p) PROVE Registry'
  BY <1>1, <1>3, LockStep, DistinctStep, OneOfViewStep DEF Registry
<1>4. QED BY <1>2, <1>3, NextIsAct

\* A capability at hand that the ledger names by its id is named in person.
LEMMA LoggedKnown ==
    ASSUME Registry, NEW c \in Capabilities, Known(c), NEW es, Logged(es, c)
    PROVE  \E i \in 1..Len(ledger): ledger[i].event \in es /\ ledger[i].cap = c
<1>1. PICK i \in 1..Len(ledger): ledger[i].event \in es /\ ledger[i].cap.id = c.id
  BY DEF Logged
<1>2. ledger[i].cap \in Capabilities /\ Known(ledger[i].cap)
  BY LineType DEF Registry, Known, InLedger
<1>3. ledger[i].cap = c
  BY <1>1, <1>2 DEF Registry, Distinct
<1>4. QED BY <1>1, <1>3

LEMMA SameView ==
    ASSUME Registry, NEW c, NEW d, InLedger(c), InLedger(d), c.view = d.view
    PROVE  c = d
BY DEF Registry, OneOfView, InLedger

LEMMA SameId ==
    ASSUME Registry, NEW p \in Procs, NEW q \in Procs,
           pc[p] # "idle", pc[q] # "idle", cap[p].id = cap[q].id
    PROVE  cap[p] = cap[q]
<1>1. cap[p] \in Capabilities /\ cap[q] \in Capabilities
  BY InHand DEF Registry
<1>2. QED BY <1>1 DEF Registry, Distinct, Known

\* The actions behind the moves that matter below.
LEMMA MovesBy ==
    ASSUME TypeOK, NEW p \in Procs, Act(p)
    PROVE  /\ pc[p] = "begin" /\ pc'[p] = "start" => Begin(p)
           /\ pc[p] = "start" /\ pc'[p] = "guard" => LogStarted(p)
           /\ pc[p] = "guard" /\ pc'[p] = "open" => WriteSentinel(p)
           /\ pc[p] = "open" /\ pc'[p] = "publish" => OpenView(p)
           /\ pc[p] = "finish" /\ pc'[p] = "complete" => Terminable(p)
           /\ pc[p] = "block" /\ pc'[p] = "close" => Terminable(p)
BY DEF TypeOK, Act, Issue, Validate, Step, Raise, RaiseAgain, Crash, RefuseView,
       Register, WriteManifest, LogIssued, RefuseCapability, Begin, LogStarted,
       WriteSentinel, OpenView, Publish, Point, Finish, Complete, Block,
       LogBlocked, Goto, Leave

\* The disk and the history of openings only grow, and where they do.
LEMMA Grows ==
    ASSUME NEW p \in Procs, Act(p)
    PROVE  /\ sentinels \subseteq sentinels'
           /\ opened' = opened \/ OpenView(p)
           /\ results' = results \/ Publish(p)
BY DEF Act, Issue, Validate, Step, Raise, RaiseAgain, Crash, RefuseView,
       Register, WriteManifest, LogIssued, RefuseCapability, Begin, LogStarted,
       WriteSentinel, OpenView, Publish, Point, Finish, Complete, Block,
       LogBlocked, output

\* Consumers keep their capability, and only Begin makes one.
LEMMA ConsumersStay ==
    ASSUME TypeOK, NEW p \in Procs, Act(p), NEW q \in Procs, pc'[q] \in Consuming
    PROVE  /\ cap'[q] = cap[q]
           /\ pc[q] \in Consuming \/ (q = p /\ pc[p] = "begin" /\ Begin(p))
<1>1. CASE q # p
  BY <1>1, OthersStay
<1>2. CASE q = p
  BY <1>2, Moves, MovesBy DEF Consuming, Evaluating
<1>3. QED BY <1>1, <1>2

\* Who has begun finds its capability unspent, and nobody else is at it.
LEMMA BeginsFirst ==
    ASSUME Registry, Spending, NEW p \in Procs, Begin(p),
           NEW q \in Procs, pc[q] \in Consuming
    PROVE  ~Started(cap[p]) /\ ~Ended(cap[p]) /\ cap[q] # cap[p] /\ ledger' = ledger
<1>1. ~Started(cap[p]) /\ ~Ended(cap[p]) /\ ledger' = ledger /\ lock = NoProc
  BY DEF Begin, Lock, Logged, Started, Ended, registry
<1>2. pc[q] # "start"
  BY <1>1, NoProcAssumption DEF Registry, LockInv, Holding
<1>3. Started(cap[q])
  BY <1>2 DEF Spending
<1>4. QED BY <1>1, <1>3

\* At each place of an evaluation the ledger says as much of its capability as
\* the agent has written.
THEOREM SpendingStep ==
    ASSUME Registry, Spending, Alone, NEW p \in Procs, Act(p)
    PROVE  Spending'
<1> SUFFICES ASSUME NEW q \in Procs, pc'[q] \in Consuming
             PROVE  /\ pc'[q] = "start" => ~Started(cap[q])'
                    /\ pc'[q] # "start" => Started(cap[q])'
                    /\ pc'[q] # "block" => ~Ended(cap[q])'
  BY DEF Spending, Consuming, Evaluating
<1>0. cap'[q] = cap[q]
  BY ConsumersStay DEF Registry
<1>1. CASE ledger' = ledger
  <2>1. Started(cap[q])' = Started(cap[q]) /\ Ended(cap[q])' = Ended(cap[q])
    BY <1>0, <1>1 DEF Started, Ended, Logged
  <2>2. CASE pc'[q] = pc[q]
    BY <2>1, <2>2 DEF Spending
  <2>3. CASE q = p /\ pc[p] = "begin" /\ Begin(p)
    <3>1. ~Started(cap[p]) /\ ~Ended(cap[p]) /\ pc'[p] = "start"
      BY <2>3 DEF Begin, Goto, Logged, Started, Ended, Registry, TypeOK
    <3>2. QED BY <2>1, <2>3, <3>1
  <2>4. CASE q = p /\ pc[p] = "start"
    <3>1. LogStarted(p)
      BY <2>4, Moves, MovesBy DEF Registry, Consuming, Evaluating
    <3>2. cap[p] \in Capabilities
      BY <2>4, InHand DEF Registry
    <3>3. ledger \in Seq(Event) /\ Append1("consumption_started", cap[p])
      BY <3>1 DEF LogStarted, Registry, TypeOK
    <3>4. Len(ledger') = Len(ledger) + 1
      BY <3>2, <3>3, Grown
    <3>5. Len(ledger) \in Nat
      BY <3>3
    <3>6. QED BY <1>1, <3>4, <3>5
  <2>5. CASE q = p /\ pc[p] \in Consuming \ {"start"} /\ pc'[p] # pc[p]
    <3>1. pc'[p] # "start" /\ Started(cap[p])
      BY <2>5, Moves DEF Registry, Spending, Consuming, Evaluating
    <3>2. pc'[p] # "block" => pc[p] # "block" \/ Terminable(p)
      <4>1. CASE pc[p] = "block"
        BY <2>5, <4>1, Moves, MovesBy DEF Registry, Consuming, Evaluating
      <4>2. QED BY <4>1
    <3>3. Terminable(p) => ~Ended(cap[p])
      BY DEF Terminable, Ended
    <3>4. QED BY <2>1, <2>5, <3>1, <3>2, <3>3 DEF Spending
  <2>6. QED BY <2>2, <2>3, <2>4, <2>5, ConsumersStay, OthersStay DEF Registry
<1>2. CASE pc[p] \in DOMAIN LineOf /\ Append1(LineOf[pc[p]], cap[p])
  <2>1. /\ Started(cap[q])' <=> Started(cap[q])
              \/ (LineOf[pc[p]] = "consumption_started" /\ cap[p].id = cap[q].id)
        /\ Ended(cap[q])' <=> Ended(cap[q])
              \/ (LineOf[pc[p]] \in Terminal /\ cap[p].id = cap[q].id)
    BY <1>0, <1>2, GrownSays DEF Registry, Started, Ended
  <2>2. lock = p
    BY <1>2, LineFacts DEF Registry, LockInv, Holding
  <2>3. pc[q] \in Consuming
    BY <1>2, LineFacts, ConsumersStay DEF Registry
  <2>4. CASE q # p
    <3>1. pc'[q] = pc[q] /\ pc[q] # "start"
      BY <2>2, <2>4, OthersStay DEF Registry, LockInv, Holding
    <3>2. pc[p] # "log" => cap[p].id # cap[q].id
      BY <1>2, <2>3, <2>4, LineFacts, SameId
         DEF Alone, Consuming, Evaluating
    <3>3. pc[p] = "log" => LineOf[pc[p]] \notin Terminal
      BY LineFacts DEF Terminal
    <3>4. QED BY <2>1, <2>3, <3>1, <3>2, <3>3 DEF Spending
  <2>5. CASE q = p /\ pc[p] = "start"
    <3>1. pc'[p] = "guard"
      BY <2>5, Moves DEF Registry, Consuming, Evaluating
    <3>2. LineOf[pc[p]] = "consumption_started" /\ LineOf[pc[p]] \notin Terminal
      BY <2>5, LineFacts DEF Terminal
    <3>3. ~Ended(cap[p])
      BY <2>5 DEF Spending, Consuming, Evaluating
    <3>4. QED BY <2>1, <2>5, <3>1, <3>2, <3>3
  <2>6. CASE q = p /\ pc[p] # "start"
    <3>1. pc'[p] = "block" /\ Started(cap[p])
      BY <1>2, <2>3, <2>6, LineFacts, Moves DEF Registry, Spending, Consuming, Evaluating
    <3>2. QED BY <2>1, <2>6, <3>1
  <2>7. QED BY <2>4, <2>5, <2>6
<1>3. QED BY <1>1, <1>2, LedgerMoves

\* Two agents are never at work with the same capability.
THEOREM AloneStep ==
    ASSUME Registry, Spending, Alone, NEW p \in Procs, Act(p)
    PROVE  Alone'
<1> SUFFICES ASSUME NEW q \in Procs, NEW r \in Procs, pc'[q] \in Consuming,
                    pc'[r] \in Consuming, cap'[q] = cap'[r]
             PROVE  q = r
  BY DEF Alone
<1>1. cap[q] = cap[r]
  BY ConsumersStay DEF Registry
<1>2. CASE pc[q] \in Consuming /\ pc[r] \in Consuming
  BY <1>1, <1>2 DEF Alone
<1>3. CASE q = p /\ Begin(p)
  BY <1>1, <1>3, BeginsFirst, ConsumersStay DEF Registry
<1>4. CASE r = p /\ Begin(p)
  BY <1>1, <1>4, BeginsFirst, ConsumersStay DEF Registry
<1>5. QED BY <1>2, <1>3, <1>4, ConsumersStay DEF Registry

-----------------------------------------------------------------------------
(* Openings                                                                *)

\* The lines of the ledger stay.
LEMMA LedgerKept ==
    ASSUME TypeOK, NEW p \in Procs, Act(p), NEW i \in 1..Len(ledger)
    PROVE  i \in 1..Len(ledger') /\ ledger'[i] = ledger[i]
<1>1. CASE ledger' = ledger
  BY <1>1
<1>2. CASE pc[p] \in DOMAIN LineOf /\ Append1(LineOf[pc[p]], cap[p])
  <2>1. cap[p] \in Capabilities
    BY <1>2, InHand, LineFacts
  <2>2. ledger \in Seq(Event)
    BY DEF TypeOK
  <2>3. /\ Len(ledger') = Len(ledger) + 1
        /\ \A j \in 1..Len(ledger): ledger'[j] = ledger[j]
    BY <1>2, <2>1, <2>2, Grown, LineFacts
  <2>4. Len(ledger) \in Nat
    BY <2>2
  <2>5. QED BY <2>3, <2>4
<1>3. QED BY <1>1, <1>2, LedgerMoves

\* Whoever opens a view is the only one at it.
LEMMA OnlyOpener ==
    ASSUME Registry, Alone, NEW p \in Procs, NEW q \in Procs,
           pc[p] \in Consuming, pc[q] \in Consuming, cap[p].view = cap[q].view
    PROVE  p = q
<1>1. InLedger(cap[p]) /\ InLedger(cap[q])
  BY DEF Registry, Issued, Consuming
<1>2. cap[p] = cap[q]
  BY <1>1, SameView
<1>3. QED BY <1>2 DEF Alone

\* A capability that is not spent is for a view that was never opened.
LEMMA UnspentUnopened ==
    ASSUME Registry, OpenedIsGuarded, NEW p \in Procs, pc[p] \in Evaluating,
           ~Started(cap[p])
    PROVE  opened[cap[p].view] = 0
<1>1. cap[p] \in Capabilities /\ cap[p].view \in Views /\ InLedger(cap[p])
  BY InHand DEF Registry, Issued, Evaluating, Capabilities
<1>2. SUFFICES ASSUME opened[cap[p].view] > 0 PROVE FALSE
  BY <1>1 DEF Registry, TypeOK
<1>3. PICK i \in 1..Len(ledger): ledger[i].event = "consumption_started"
                                /\ ledger[i].cap.view = cap[p].view
  BY <1>1, <1>2 DEF OpenedIsGuarded
<1>4. ledger[i].cap = cap[p]
  BY <1>1, <1>3, SameView DEF InLedger
<1>5. QED BY <1>3, <1>4 DEF Started, Logged

\* What an opening does, and what every step leaves of them.
LEMMA Opens ==
    ASSUME Registry, Opening, NEW p \in Procs, Act(p), NEW v \in Views
    PROVE  /\ opened[v] \in Nat
           /\ \/ opened'[v] = opened[v]
              \/ /\ OpenView(p) /\ v = cap[p].view
                 /\ opened[v] = 0 /\ opened'[v] = 1
<1>1. CASE opened' = opened
  BY <1>1 DEF Registry, TypeOK
<1>2. CASE OpenView(p)
  <2>1. pc[p] = "open"
    BY <1>2 DEF OpenView, Goto
  <2>2. cap[p] \in Capabilities /\ opened[cap[p].view] = 0
    BY <2>1, InHand DEF Registry, Opening
  <2>3. opened' = [opened EXCEPT ![cap[p].view] = @ + 1]
    BY <1>2 DEF OpenView
  <2>4. opened \in [Views -> Nat]
    BY DEF Registry, TypeOK
  <2>5. CASE v = cap[p].view
    BY <1>2, <2>2, <2>3, <2>4, <2>5
  <2>6. CASE v # cap[p].view
    BY <2>3, <2>4, <2>6
  <2>7. QED BY <2>5, <2>6
<1>3. QED BY <1>1, <1>2, Grows

\* Payloads are read by an agent that has spent its capability on the ledger.
THEOREM OpeningStep ==
    ASSUME Inv, NEW p \in Procs, Act(p)
    PROVE  Opening'
<1> USE DEF Inv
<1>0. \A q \in Procs: pc[q] \in Consuming => cap[q].view \in Views
  BY InHand DEF Registry, Consuming, Evaluating, Capabilities
<1>1. ASSUME NEW q \in Procs, pc'[q] = "open"
      PROVE  cap'[q].root \in sentinels'
  <2>1. cap'[q] = cap[q] /\ pc[q] \in Consuming
    BY <1>1, ConsumersStay DEF Registry, Begin, Goto, TypeOK, Consuming, Evaluating
  <2>2. CASE pc[q] = "open"
    BY <2>1, <2>2, Grows DEF Opening
  <2>3. CASE pc[q] # "open"
    <3>1. q = p /\ WriteSentinel(p)
      BY <1>1, <2>1, <2>3, OthersStay, Moves, MovesBy DEF Registry, Consuming, Evaluating
    <3>2. QED BY <2>1, <3>1 DEF WriteSentinel
  <2>4. QED BY <2>2, <2>3
<1>2. ASSUME NEW q \in Procs, pc'[q] \in {"start", "guard", "open"}
      PROVE  opened'[cap'[q].view] = 0
  <2>1. cap'[q] = cap[q]
    BY <1>2, ConsumersStay DEF Registry, Consuming, Evaluating
  <2>2. CASE q = p /\ Begin(p)
    <3>1. ~Started(cap[p]) /\ pc[p] \in Evaluating /\ opened' = opened
      BY <2>2 DEF Begin, Goto, Evaluating, Started, Logged
    <3>2. QED BY <2>1, <2>2, <3>1, UnspentUnopened
  <2>3. CASE pc[q] \in Consuming
    <3>1. pc[q] \in {"start", "guard", "open"}
      BY <1>2, <2>3, OthersStay, Moves DEF Registry, Consuming, Evaluating
    <3>2. opened[cap[q].view] = 0
      BY <3>1 DEF Opening
    <3>3. CASE OpenView(p) /\ cap[q].view = cap[p].view
      <4>1. pc[p] = "open" /\ pc'[p] = "publish"
        BY <3>3 DEF OpenView, Goto, Registry, TypeOK
      <4>2. q = p
        BY <2>3, <3>3, <4>1, OnlyOpener DEF Consuming, Evaluating
      <4>3. QED BY <1>2, <4>1, <4>2
    <3>4. QED BY <1>0, <2>1, <2>3, <3>2, <3>3, Opens
  <2>4. QED BY <1>2, <2>2, <2>3, ConsumersStay DEF Registry, Consuming, Evaluating
<1>3. ASSUME NEW q \in Procs, pc'[q] = "publish"
      PROVE  opened'[cap'[q].view] >= 1
  <2>1. cap'[q] = cap[q] /\ pc[q] \in Consuming
    BY <1>3, ConsumersStay DEF Registry, Begin, Goto, TypeOK, Consuming, Evaluating
  <2>2. CASE pc[q] = "publish"
    BY <1>0, <2>1, <2>2, Opens DEF Opening
  <2>3. CASE pc[q] # "publish"
    <3>1. q = p /\ OpenView(p) /\ pc[p] = "open"
      BY <1>3, <2>1, <2>3, OthersStay, Moves, MovesBy DEF Registry, Consuming, Evaluating
    <3>2. opened' = [opened EXCEPT ![cap[p].view] = @ + 1] /\ opened[cap[p].view] = 0
      BY <3>1 DEF OpenView, Opening
    <3>3. QED BY <1>0, <2>1, <3>1, <3>2 DEF Registry, TypeOK
  <2>4. QED BY <2>2, <2>3
<1>4. ASSUME NEW c \in results'
      PROVE  opened'[c.view] >= 1
  <2>1. CASE c \in results
    <3>1. c.view \in Views
      BY <2>1 DEF Registry, TypeOK, Capabilities
    <3>2. QED BY <2>1, <3>1, Opens DEF Opening
  <2>2. CASE Publish(p) /\ c = cap[p]
    BY <1>0, <2>2, Opens DEF Publish, Goto, Opening, Consuming, Evaluating
  <2>3. QED BY <1>4, <2>1, <2>2, Grows DEF Publish
<1>5. QED BY <1>1, <1>2, <1>3, <1>4 DEF Opening

\* No step reads the payloads of a view twice, or without the guard.
THEOREM OpenedStep ==
    ASSUME Inv, NEW p \in Procs, Act(p)
    PROVE  OpenedOnce' /\ OpenedIsGuarded'
<1> USE DEF Inv
<1>1. OpenedOnce'
  BY Opens DEF OpenedOnce
<1>2. ASSUME NEW v \in Views, opened'[v] > 0
      PROVE  \E i \in 1..Len(ledger):
                 /\ ledger[i].event = "consumption_started"
                 /\ ledger[i].cap.view = v /\ ledger[i].cap.root \in sentinels
  <2>1. CASE opened[v] > 0
    BY <2>1 DEF OpenedIsGuarded
  <2>2. CASE OpenView(p) /\ v = cap[p].view
    <3>1. pc[p] = "open"
      BY <2>2 DEF OpenView, Goto
    <3>2. cap[p] \in Capabilities /\ Known(cap[p]) /\ Started(cap[p])
      BY <3>1, InHand DEF Registry, Known, Spending, Consuming, Evaluating
    <3>3. PICK i \in 1..Len(ledger): ledger[i].event \in {"consumption_started"}
                                    /\ ledger[i].cap = cap[p]
      BY <3>2, LoggedKnown DEF Started
    <3>4. cap[p].root \in sentinels
      BY <3>1 DEF Opening
    <3>5. QED BY <2>2, <3>3, <3>4
  <2>3. QED BY <1>2, <2>1, <2>2, Opens
<1>3. OpenedIsGuarded'
  BY <1>2, LedgerKept, Grows DEF OpenedIsGuarded, Registry
<1>4. QED BY <1>1, <1>3

\* The invariant holds of the empty registry.
THEOREM InvInit == Init => Inv
<1> SUFFICES ASSUME Init PROVE Inv
  OBVIOUS
<1>1. TypeOK
  BY TypeInit
<1>2. Len(ledger) = 0 /\ \A p \in Procs: pc[p] = "idle"
  BY DEF Init
<1>3. QED
  BY <1>1, <1>2
     DEF Init, Inv, Registry, LockInv, Holding, Distinct, Known, InLedger, OneOfView,
         Fresh, Issued, Evaluating, Spending, Consuming, Alone, Opening, OpenedOnce,
         OpenedIsGuarded

\* Every step keeps the invariant.
THEOREM InvStep == Inv /\ [Next]_vars => Inv'
<1> SUFFICES ASSUME Inv, [Next]_vars PROVE Inv'
  OBVIOUS
<1>1. Registry'
  BY RegistryStep DEF Inv
<1>2. CASE UNCHANGED vars
  BY <1>1, <1>2
     DEF Inv, Spending, Started, Ended, Logged, Alone, Opening, OpenedOnce,
         OpenedIsGuarded, vars, registry, output, bounds
<1>3. ASSUME NEW p \in Procs, Act(p) PROVE Inv'
  BY <1>1, <1>3, SpendingStep, AloneStep, OpeningStep, OpenedStep DEF Inv
<1>4. QED BY <1>2, <1>3, NextIsAct

\* The invariant holds in every state.
THEOREM InvAlways == Spec => []Inv
<1>1. QED BY InvInit, InvStep, PTL DEF Spec

\* The payloads of a view are opened once, and under guard.
THEOREM OpenedOnceUnderGuard == Spec => []OpenedOnceGuarded
<1>1. Inv => OpenedOnceGuarded
  BY DEF Inv, OpenedOnceGuarded
<1>2. QED BY <1>1, InvAlways, PTL

-----------------------------------------------------------------------------
(* Verdicts                                                                *)

\* verify_holdout_result accepts one result per view, of a view opened once.
THEOREM UniqueVerdict == Spec => []OneVerdict
<1>1. ASSUME Inv PROVE OneVerdict
  <2> SUFFICES ASSUME NEW c \in results, NEW d \in results,
                      Verified(c), Verified(d), c.view = d.view
               PROVE  c = d /\ opened[c.view] = 1
    BY DEF OneVerdict
  <2>1. ASSUME NEW x \in results, Verified(x)
        PROVE  InLedger(x) /\ x.view \in Views
    <3>1. x \in Capabilities /\ Known(x) /\ Logged({"issued"}, x)
      BY <1>1, <2>1 DEF Inv, Registry, TypeOK, Verified, Known
    <3>2. QED BY <1>1, <3>1, LoggedKnown DEF Inv, InLedger, Capabilities
  <2>2. c = d
    BY <1>1, <2>1, SameView DEF Inv
  <2>3. opened[c.view] \in Nat /\ opened[c.view] >= 1 /\ opened[c.view] <= 1
    BY <1>1, <2>1 DEF Inv, Registry, TypeOK, Opening, OpenedOnce
  <2>4. QED BY <2>2, <2>3
<1>2. QED BY <1>1, InvAlways, PTL

\* What the ledger says of a capability, it goes on saying.
LEMMA LoggedStays ==
    ASSUME TypeOK, NEW p \in Procs, Act(p), NEW es, NEW c, Logged(es, c)
    PROVE  Logged(es, c)'
BY LedgerKept DEF Logged

\* No step takes an accepted result back: a capability that is completed is
\* never blocked afterwards.
THEOREM FinalVerdict == Spec => VerdictIsFinal
<1>1. ASSUME Inv, [Next]_vars, NEW c \in results, Verified(c)
      PROVE  Verified(c)'
  <2>1. CASE UNCHANGED vars
    BY <1>1, <2>1 DEF Verified, Logged, vars, registry, output
  <2>2. ASSUME NEW p \in Procs, Act(p) PROVE Verified(c)'
    <3>1. c \in results'
      BY <1>1, <2>2, Grows DEF Publish
    <3>2. c \in manifests'
      BY <1>1, <2>2
         DEF Verified, Act, Issue, Validate, Step, Raise, RaiseAgain, Crash, RefuseView,
             Register, WriteManifest, LogIssued, RefuseCapability, Begin, LogStarted,
             WriteSentinel, OpenView, Publish, Point, Finish, Complete, Block,
             LogBlocked, registry
    <3>3. Logged({"issued"}, c)' /\ Logged({"completed"}, c)'
      BY <1>1, <2>2, LoggedStays DEF Inv, Registry, Verified
    <3>4. ~Logged({"blocked"}, c)'
      <4>1. CASE ledger' = ledger
        BY <1>1, <4>1 DEF Verified, Logged
      <4>2. CASE pc[p] \in DOMAIN LineOf /\ Append1(LineOf[pc[p]], cap[p])
        <5>1. pc[p] = "close" => ~Ended(cap[p])
          BY <1>1 DEF Inv, Spending, Consuming, Evaluating
        <5>2. Logged({"completed"}, c) /\ ~Logged({"blocked"}, c)
          BY <1>1 DEF Verified
        <5>3. cap[p].id = c.id => Ended(cap[p])
          BY <5>2 DEF Ended, Logged, Terminal
        <5>4. LineOf[pc[p]] \in {"blocked"} => pc[p] = "close"
          BY <4>2, LineFacts
        <5>5. QED BY <1>1, <4>2, <5>1, <5>2, <5>3, <5>4, GrownSays DEF Inv, Registry
      <4>3. QED BY <2>2, <4>1, <4>2, LedgerMoves
    <3>5. QED BY <3>1, <3>2, <3>3, <3>4 DEF Verified
  <2>3. QED BY <1>1, <2>1, <2>2, NextIsAct
<1>2. Inv /\ [Next]_vars => [\A c \in results: Verified(c) => Verified(c)']_vars
  BY <1>1
<1>3. QED BY <1>2, InvAlways, PTL DEF Spec, VerdictIsFinal

\* A view gets one verdict, for ever.
THEOREM VerdictStands == Spec => OneFinalVerdict
BY UniqueVerdict, FinalVerdict, PTL DEF OneFinalVerdict

-----------------------------------------------------------------------------
(* Closure                                                                 *)

\* A process is in the handler only after an exception.
Handling == \A p \in Procs: pc[p] \in {"block", "close"} => errors >= 1
ClosureInv == Inv /\ Handling /\ SpentIsClosed

\* What errors and crashes say about the step just taken.
LEMMA Counted ==
    ASSUME TypeOK, NEW p \in Procs, Act(p)
    PROVE  /\ errors \in Nat /\ crashes \in Nat
           /\ \/ errors' = errors /\ ~Raise(p) /\ ~RaiseAgain(p)
              \/ errors' = errors + 1 /\ (Raise(p) \/ RaiseAgain(p))
           /\ crashes' = crashes \/ crashes' = crashes + 1
           /\ Crash(p) => crashes' = crashes + 1
<1>1. errors \in Nat /\ crashes \in Nat
  BY BoundsAssumption DEF TypeOK
<1>2. QED
  BY <1>1 DEF Act, Issue, Validate, Step, Raise, RaiseAgain, Crash, RefuseView,
       Register, WriteManifest, LogIssued, RefuseCapability, Begin, LogStarted,
       WriteSentinel, OpenView, Publish, Point, Finish, Complete, Block,
       LogBlocked, bounds

\* How a consumer stops being one.
LEMMA Stops ==
    ASSUME Registry, Spending, NEW p \in Procs, Act(p), pc[p] \in Consuming
    PROVE  \/ pc'[p] \in Consuming /\ cap'[p] = cap[p]
           \/ Crash(p)
           \/ RaiseAgain(p) /\ pc[p] \in {"block", "close"}
           \/ Append1("completed", cap[p]) \/ Append1("blocked", cap[p])
           \/ Ended(cap[p])
<1>1. CASE pc'[p] # "idle"
  <2>1. pc'[p] \in Consuming /\ cap'[p] = cap[p]
    BY <1>1, Moves DEF Registry, Consuming, Evaluating
  <2>2. QED BY <2>1
<1>2. CASE Block(p)
  <2>1. Started(cap[p])
    BY <1>2 DEF Block, Spending, Consuming, Evaluating
  <2>2. CASE Terminable(p)
    BY <1>1, <1>2, <2>2 DEF Block, Goto, Registry, TypeOK
  <2>3. CASE ~Terminable(p)
    BY <2>1, <2>3 DEF Terminable, Started, Ended
  <2>4. QED BY <2>2, <2>3
<1>3. CASE pc'[p] = "idle" /\ ~Block(p)
  BY <1>3 DEF Registry, TypeOK, Consuming, Evaluating, Act, Issue, Validate, Step,
       Raise, RaiseAgain, RefuseView,
       Register, WriteManifest, LogIssued, RefuseCapability, Begin, LogStarted,
       WriteSentinel, OpenView, Publish, Point, Finish, Complete, LogBlocked, Goto
<1>4. QED BY <1>1, <1>2, <1>3

\* A capability that is blocked or completed is ended.
LEMMA EndedBy ==
    ASSUME TypeOK, NEW c \in Capabilities, NEW e \in Terminal, Append1(e, c)
    PROVE  Ended(c)'
<1>1. /\ ledger \in Seq(Event)
      /\ e \in {"issued", "consumption_started"} \cup Terminal
  BY DEF TypeOK
<1>2. /\ Len(ledger') = Len(ledger) + 1
      /\ ledger'[Len(ledger) + 1] = [event |-> e, cap |-> c]
  BY <1>1, Grown
<1>3. Len(ledger) \in Nat
  BY <1>1
<1>4. QED BY <1>2, <1>3 DEF Ended, Logged

\* An agent handles an exception only after one was raised.
THEOREM HandlingStep ==
    ASSUME Inv, Handling, NEW p \in Procs, Act(p)
    PROVE  Handling'
<1> SUFFICES ASSUME NEW q \in Procs, pc'[q] \in {"block", "close"}
             PROVE  errors' >= 1
  BY DEF Handling
<1>1. errors \in Nat /\ (errors' = errors \/ errors' = errors + 1)
  BY Counted DEF Inv, Registry
<1>2. CASE pc[q] \in {"block", "close"}
  BY <1>1, <1>2 DEF Handling
<1>3. CASE pc[q] \notin {"block", "close"}
  <2>1. q = p
    BY <1>3, OthersStay DEF Inv, Registry
  <2>2. Started(cap[p]) /\ ~Ended(cap[p]) => Terminable(p)
    BY DEF Started, Ended, Terminable
  <2>3. pc[p] = "finish" => Terminable(p)
    BY <2>2 DEF Inv, Spending, Consuming, Evaluating
  <2>4. Raise(p)
    BY <1>3, <2>1, <2>3 DEF Inv, Registry, TypeOK, Act, Issue, Validate, Step,
       RaiseAgain, Crash, RefuseView,
       Register, WriteManifest, LogIssued, RefuseCapability, Begin, LogStarted,
       WriteSentinel, OpenView, Publish, Point, Finish, Complete, Block,
       LogBlocked, Goto, Leave
  <2>5. QED BY <1>1, <2>4, Counted DEF Inv, Registry
<1>4. QED BY <1>2, <1>3

\* A step that ends an evaluation leaves its capability closed, unless it is a
\* kill or the second exception.
THEOREM ClosedStep ==
    ASSUME Inv, Handling, SpentIsClosed, NEW p \in Procs, Act(p)
    PROVE  SpentIsClosed'
<1> USE DEF Inv
<1> SUFFICES ASSUME crashes' = 0, errors' <= 1, NEW i \in 1..Len(ledger'),
                    ledger'[i].event = "consumption_started",
                    ~Logged(Terminal, ledger[i].cap)'
             PROVE  \E q \in Procs: cap'[q] = ledger'[i].cap /\ pc'[q] \in Consuming
  BY DEF SpentIsClosed
<1>0. /\ errors \in Nat /\ crashes = 0 /\ errors <= 1 /\ ~Crash(p)
      /\ RaiseAgain(p) => errors = 0
  BY Counted DEF Registry
<1>1. CASE i \in 1..Len(ledger)
  <2>1. ledger'[i] = ledger[i]
    BY <1>1, LedgerKept DEF Registry
  <2>2. ~Ended(ledger[i].cap)
    <3>1. SUFFICES ASSUME Logged(Terminal, ledger[i].cap) PROVE FALSE
      BY DEF Ended
    <3>2. PICK j \in 1..Len(ledger):
              ledger[j].event \in Terminal /\ ledger[j].cap.id = ledger[i].cap.id
      BY <3>1 DEF Logged
    <3>3. j \in 1..Len(ledger') /\ ledger'[j] = ledger[j]
      BY LedgerKept DEF Registry
    <3>4. QED BY <2>1, <3>2, <3>3 DEF Logged
  <2>3. PICK q \in Procs: cap[q] = ledger[i].cap /\ pc[q] \in Consuming
    BY <1>0, <1>1, <2>1, <2>2 DEF SpentIsClosed, Ended
  <2>4. CASE q # p
    BY <2>1, <2>3, <2>4, OthersStay DEF Registry
  <2>5. CASE q = p
    <3>1. cap[p] \in Capabilities
      BY <2>3, <2>5, InHand DEF Registry, Consuming, Evaluating
    <3>2. ~Append1("completed", cap[p]) /\ ~Append1("blocked", cap[p])
      <4>1. SUFFICES ASSUME NEW e \in Terminal, Append1(e, cap[p]) PROVE FALSE
        BY DEF Terminal
      <4>2. \E j \in 1..Len(ledger'):
                ledger'[j].event \in Terminal /\ ledger'[j].cap.id = cap[p].id
        BY <3>1, <4>1, EndedBy DEF Registry, Ended, Logged
      <4>3. QED BY <2>1, <2>3, <2>5, <4>2 DEF Logged
    <3>3. ~Ended(cap[p])
      BY <2>2, <2>3, <2>5 DEF Ended
    <3>4. pc[p] \in {"block", "close"} => ~RaiseAgain(p)
      BY <1>0 DEF Handling
    <3>5. pc'[p] \in Consuming /\ cap'[p] = cap[p]
      BY <1>0, <2>3, <2>5, <3>2, <3>3, <3>4, Stops
    <3>6. QED BY <2>1, <2>3, <2>5, <3>5
  <2>6. QED BY <2>4, <2>5
<1>2. CASE i \notin 1..Len(ledger)
  <2>1. pc[p] \in DOMAIN LineOf /\ Append1(LineOf[pc[p]], cap[p])
    BY <1>2, LedgerMoves
  <2>2. cap[p] \in Capabilities /\ ledger \in Seq(Event)
    BY <2>1, InHand, LineFacts DEF Registry, TypeOK
  <2>3. /\ Len(ledger') = Len(ledger) + 1
        /\ ledger'[Len(ledger) + 1] = [event |-> LineOf[pc[p]], cap |-> cap[p]]
    BY <2>1, <2>2, Grown, LineFacts
  <2>4. i = Len(ledger) + 1
    BY <1>2, <2>2, <2>3
  <2>5. pc[p] = "start" /\ ledger'[i].cap = cap[p]
    BY <2>1, <2>3, <2>4, LineFacts
  <2>6. LogStarted(p)
    BY <1>0, <2>1, <2>5, LineFacts
       DEF Act, Issue, Validate, Step, Raise, RaiseAgain, RefuseView, Register,
           WriteManifest, LogIssued, RefuseCapability, Begin, WriteSentinel, OpenView,
           Publish, Point, Finish, Complete, Block, LogBlocked, Goto
  <2>7. cap'[p] = cap[p] /\ pc'[p] = "guard"
    BY <2>6 DEF LogStarted, Goto, Registry, TypeOK
  <2>8. QED BY <2>5, <2>7 DEF Consuming, Evaluating
<1>3. QED BY <1>1, <1>2

\* An evaluation that is not killed and raises at most once closes the
\* capability that it spent.
THEOREM SpentAreClosed == Spec => []SpentIsClosed
<1>1. Init => ClosureInv
  <2> SUFFICES ASSUME Init PROVE ClosureInv
    OBVIOUS
  <2>1. Len(ledger) = 0 /\ \A p \in Procs: pc[p] = "idle"
    BY DEF Init
  <2>2. QED BY <2>1, InvInit DEF ClosureInv, Handling, SpentIsClosed
<1>2. ClosureInv /\ [Next]_vars => ClosureInv'
  <2> SUFFICES ASSUME ClosureInv, [Next]_vars PROVE ClosureInv'
    OBVIOUS
  <2>1. Inv'
    BY InvStep DEF ClosureInv
  <2>2. CASE UNCHANGED vars
    BY <2>1, <2>2 DEF ClosureInv, Handling, SpentIsClosed, Logged, vars, registry,
                      output, bounds
  <2>3. ASSUME NEW p \in Procs, Act(p) PROVE ClosureInv'
    BY <2>1, <2>3, HandlingStep, ClosedStep DEF ClosureInv
  <2>4. QED BY <2>2, <2>3, NextIsAct
<1>3. ClosureInv => SpentIsClosed
  BY DEF ClosureInv
<1>4. QED BY <1>1, <1>2, <1>3, PTL DEF Spec
=============================================================================
