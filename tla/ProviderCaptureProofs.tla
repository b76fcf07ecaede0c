----------------------- MODULE ProviderCaptureProofs -----------------------
(***************************************************************************)
(* Theorems of ProviderCapture, for every set of processes and activities, *)
(* every plan and budget, and every number of calls, kills and torn rows:  *)
(* what one call may do, and then what the directory holds over all of     *)
(* them: a journal that recovery accepts, requests that were due, and in   *)
(* the end a generation that is whole.                                     *)
(***************************************************************************)
EXTENDS ProviderCapture, TLAPS, WellFoundedInduction, FiniteSetTheorems

-----------------------------------------------------------------------------
(* Smallest and largest elements *)

LEMMA Smallest ==
    ASSUME NEW T \in SUBSET Nat, T # {}
    PROVE  \E x \in T : \A y \in T : x <= y
<1>1. \E x \in T : \A y \in T : ~ (<<y, x>> \in OpToRel(<, Nat))
  BY NatLessThanWellFounded, WFMin, Zenon
<1>2. PICK x \in T : \A y \in T : ~ (<<y, x>> \in OpToRel(<, Nat))
  BY <1>1
<1>3. \A y \in T : ~ (y < x)
  BY <1>2 DEF OpToRel
<1>4. QED BY <1>3

LEMMA Largest ==
    ASSUME NEW n \in Nat, NEW T \in SUBSET (1..n), T # {}
    PROVE  \E x \in T : \A y \in T : y <= x
<1> DEFINE D == {n - x : x \in T}
<1>1. D \subseteq Nat
  OBVIOUS
<1>2. D # {}
  OBVIOUS
<1>3. PICK d \in D : \A e \in D : d <= e
  BY <1>1, <1>2, Smallest
<1>4. PICK x \in T : d = n - x
  BY <1>3
<1>5. \A y \in T : n - x <= n - y
  BY <1>3, <1>4
<1>6. QED BY <1>5

LEMMA LatestIsLast ==
    ASSUME NEW j \in Seq(Event), NEW r \in Requests, Terminals(j, r) # {}
    PROVE  \E i \in Terminals(j, r) :
              Latest(j, r) = j[i] /\ \A k \in Terminals(j, r) : k <= i
<1>1. Terminals(j, r) \in SUBSET (1..Len(j)) /\ Len(j) \in Nat
  BY DEF Terminals, Rows
<1>2. \E x \in Terminals(j, r) : \A y \in Terminals(j, r) : y <= x
  BY <1>1, Largest
<1>3. QED BY <1>2 DEF Latest

LEMMA LatestTyped ==
    ASSUME NEW j \in Seq(Event), NEW r \in Requests, Latest(j, r) # Unasked
    PROVE  /\ Latest(j, r).type = "terminal"
           /\ Latest(j, r).at \in Attempts
           /\ Latest(j, r).at[1] = r
<1>1. Terminals(j, r) # {}
  BY DEF Latest
<1>2. PICK i \in Terminals(j, r) : Latest(j, r) = j[i]
  BY <1>1, LatestIsLast
<1>3. j[i] \in Event /\ j[i].type = "terminal" /\ j[i].at[1] = r
  BY <1>2 DEF Terminals, Rows
<1>4. j[i].at \in Attempts
  BY <1>3 DEF Event, TailRecovered
<1>5. QED BY <1>2, <1>3, <1>4

LEMMA NextRequestTyped ==
    ASSUME NEW j, ~AllAnswered(j)
    PROVE  NextRequest(j) \in Requests
<1> DEFINE T == {r \in Requests : Open(j, r)}
<1>1. T \in SUBSET Nat /\ T # {}
  BY BudgetAssumption DEF AllAnswered, Requests
<1>2. \E r \in T : \A q \in T : r <= q
  BY <1>1, Smallest
<1>3. \E r \in Requests : Open(j, r) /\ \A q \in Requests : Open(j, q) => r <= q
  BY <1>2
<1>4. QED BY <1>3 DEF NextRequest

\* What a request that is not given up is asked next.
NextAttempt(j, r) ==
    <<r, IF Latest(j, r) = Unasked THEN 0 ELSE Latest(j, r).at[2] + 1>>

LEMMA NextAttemptTyped ==
    ASSUME NEW j \in Seq(Event), NEW r \in Requests, ~Spent(Latest(j, r))
    PROVE  NextAttempt(j, r) \in Attempts
<1>1. CASE Latest(j, r) = Unasked
  BY <1>1, BudgetAssumption DEF NextAttempt, Attempts
<1>2. CASE Latest(j, r) # Unasked
  <2>1. Latest(j, r).type = "terminal" /\ Latest(j, r).at[2] \in 0..MaxRetries
    BY <1>2, LatestTyped DEF Attempts
  <2>2. ~(Latest(j, r).at[2] >= MaxRetries)
    BY <2>1 DEF Spent
  <2>3. Latest(j, r).at[2] + 1 \in 0..MaxRetries
    BY <2>1, <2>2, BudgetAssumption
  <2>4. QED BY <1>2, <2>3 DEF NextAttempt, Attempts
<1>3. QED BY <1>1, <1>2

-----------------------------------------------------------------------------
(* Types *)

AtAttempt == {"rebuilding", "closing", "checking", "starting", "sending",
              "writing", "terminating"}

Where == \A p \in Procs :
    /\ pc[p] # "idle" => act[p] \in Activities
    /\ pc[p] \in AtAttempt => at[p] \in Attempts

Typing == TypeOK /\ Where

LEMMA TypingInit == Init => Typing
<1> SUFFICES ASSUME Init PROVE Typing
  OBVIOUS
<1>1. 0 \in 0..MaxRuns /\ 0 \in 0..MaxCrashes
  BY BoundsAssumption
<1>2. <<>> \in Seq(Event)
  OBVIOUS
<1>3. QED BY <1>1, <1>2 DEF Init, Typing, TypeOK, Where, AtAttempt, Places, PCs

LEMMA ForgetTyped ==
    ASSUME Typing, NEW p \in Procs, Forget(p)
    PROVE  /\ lock' \in [Activities -> Procs \union {NoProc}]
           /\ pc' \in [Procs -> PCs]
           /\ act' \in [Procs -> Activities \union {NoActivity}]
           /\ at' \in [Procs -> Attempts \union {NoAttempt}]
           /\ answer' \in [Procs -> AllAnswers \union {NoAnswer}]
           /\ late' \in [Procs -> Nat]
           /\ Where'
BY DEF Forget, Goto, Typing, TypeOK, Where, AtAttempt, PCs

LEMMA GotoTyped ==
    ASSUME Typing, NEW p \in Procs, NEW to \in PCs, Goto(p, to), pc[p] # "idle",
           act' = act, at' = at, to \in AtAttempt => at[p] \in Attempts
    PROVE  pc' \in [Procs -> PCs] /\ Where'
BY DEF Goto, Typing, TypeOK, Where

LEMMA GotoAtTyped ==
    ASSUME Typing, NEW p \in Procs, NEW to \in PCs, Goto(p, to), pc[p] # "idle",
           act' = act, NEW x \in Attempts, at' = [at EXCEPT ![p] = x]
    PROVE  /\ pc' \in [Procs -> PCs]
           /\ at' \in [Procs -> Attempts \union {NoAttempt}]
           /\ Where'
BY DEF Goto, Typing, TypeOK, Where

LEMMA SetPlaceTyped ==
    ASSUME Typing, NEW a, NEW x \in Places, SetPlace(a, x)
    PROVE  place' \in [Activities -> Places]
BY DEF SetPlace, Typing, TypeOK

LEMMA RowTyped ==
    ASSUME Typing, NEW p \in Procs, pc[p] \in Appending
    PROVE  Row(p) \in Event
<1> USE DEF Typing, TypeOK, Where, AtAttempt
<1>1. CASE pc[p] = "noting"
  BY <1>1 DEF Row, Event, TailRecovered
<1>2. CASE pc[p] = "starting"
  BY <1>2 DEF Row, Event
<1>3. CASE pc[p] \in {"closing", "terminating"}
  <2>1. act[p] \in Activities /\ at[p] \in Attempts
    BY <1>3
  <2>2. raw[act[p]][at[p]] \in AllAnswers \union {NoAnswer}
    BY <2>1
  <2>3. QED BY <1>3, <2>1, <2>2 DEF Row, Event
<1>4. QED BY <1>1, <1>2, <1>3 DEF Appending

LEMMA PendingTyped ==
    ASSUME NEW j \in Seq(Event), NEW x \in Pending(j)
    PROVE  x \in Attempts
<1>1. PICK i \in 1..Len(j) : j[i].type = "started" /\ x = j[i].at
  BY DEF Pending, Rows
<1>2. j[i] \in Event
  OBVIOUS
<1>3. QED BY <1>1, <1>2 DEF Event, TailRecovered

LEMMA RetryTyped ==
    ASSUME NEW x \in Attempts, ~(x[2] >= MaxRetries)
    PROVE  /\ [x EXCEPT ![2] = @ + 1] = <<x[1], x[2] + 1>>
           /\ [x EXCEPT ![2] = @ + 1] \in Attempts
<1>1. x[1] \in Requests /\ x[2] \in 0..MaxRetries /\ x = <<x[1], x[2]>>
  BY DEF Attempts
<1>2. [x EXCEPT ![2] = @ + 1] = <<x[1], x[2] + 1>>
  BY <1>1
<1>3. x[2] + 1 \in 0..MaxRetries
  BY <1>1, BudgetAssumption
<1>4. QED BY <1>1, <1>2, <1>3 DEF Attempts

LEMMA AppendTyped ==
    ASSUME Typing, NEW p \in Procs, pc[p] \in Appending, Append1(act[p], Row(p))
    PROVE  journal' \in [Activities -> Seq(Event)]
<1>1. Row(p) \in Event
  BY RowTyped
<1>2. act[p] \in Activities
  BY DEF Typing, Where, Appending
<1>3. Append(journal[act[p]], Row(p)) \in Seq(Event)
  BY <1>1, <1>2 DEF Typing, TypeOK
<1>4. QED BY <1>3 DEF Append1, Typing, TypeOK

LEMMA TypingStep == Typing /\ [Next]_vars => Typing'
<1> SUFFICES ASSUME Typing, [Next]_vars PROVE Typing'
  OBVIOUS
<1> USE DEF Typing, TypeOK, disk, seen, counters
<1>1. CASE UNCHANGED vars
  BY <1>1 DEF Where, vars
<1>2. ASSUME NEW p \in Procs, NEW a \in Activities, Call(p, a)
      PROVE  Typing'
  <2>1. runs' \in 0..MaxRuns
    BY <1>2, BoundsAssumption DEF Call
  <2>2. CASE IsPublished(a)
    BY <1>2, <2>1, <2>2 DEF Call, Where
  <2>3. CASE ~IsPublished(a)
    <3>1. pc' = [pc EXCEPT ![p] = "locking"] /\ act' = [act EXCEPT ![p] = a]
      BY <1>2, <2>3 DEF Call, Goto
    <3>2. pc' \in [Procs -> PCs] /\ act' \in [Procs -> Activities \union {NoActivity}]
      BY <3>1 DEF PCs
    <3>3. Where'
      BY <1>2, <3>1 DEF Call, Where, AtAttempt
    <3>4. QED BY <1>2, <2>1, <2>3, <3>2, <3>3 DEF Call
  <2>4. QED BY <2>2, <2>3
<1>3. ASSUME NEW p \in Procs, Lock(p)
      PROVE  Typing'
  BY <1>3, GotoTyped DEF Lock, AtAttempt, PCs
<1>4. ASSUME NEW p \in Procs,
             RaiseInvalid(p) \/ RaiseOpen(p) \/ RaiseRefused(p)
      PROVE  Typing'
  BY <1>4, ForgetTyped DEF RaiseInvalid, RaiseOpen, RaiseRefused
<1>5. ASSUME NEW p \in Procs, Cached(p) \/ Point(p)
      PROVE  Typing'
  BY <1>5, ForgetTyped DEF Cached, Point, Where
<1>6. ASSUME NEW p \in Procs, Pause(p)
      PROVE  Typing'
  BY <1>6, ForgetTyped DEF Pause
<1>7. ASSUME NEW p \in Procs, MakeDirectory(p)
      PROVE  Typing'
  <2>1. <<>> \in Seq(Event)
    OBVIOUS
  <2>2. act[p] \in Activities
    BY <1>7 DEF MakeDirectory, Where
  <2>3. journal' \in [Activities -> Seq(Event)]
    BY <1>7, <2>1 DEF MakeDirectory
  <2>4. raw' \in [Activities -> [Attempts -> AllAnswers \union {NoAnswer}]]
    BY <1>7 DEF MakeDirectory
  <2>5. sent' \in [Activities -> [Attempts -> Nat]]
    BY <1>7 DEF MakeDirectory
  <2>6. refused' \in [Activities -> BOOLEAN]
    BY <1>7, <2>2 DEF MakeDirectory
  <2>7. place' \in [Activities -> Places]
    BY <1>7, SetPlaceTyped DEF MakeDirectory, Places
  <2>8. pc' \in [Procs -> PCs] /\ Where'
    BY <1>7, GotoTyped DEF MakeDirectory, AtAttempt, PCs
  <2>9. QED BY <1>7, <2>3, <2>4, <2>5, <2>6, <2>7, <2>8 DEF MakeDirectory
<1>8. ASSUME NEW p \in Procs,
             OpenDirectory(p) \/ ResumePublication(p) \/ Validate(p) \/ Recovered(p)
                \/ Complete(p) \/ WriteManifest(p) \/ Check(p)
      PROVE  Typing'
  <2>1. /\ pc[p] # "idle" /\ act' = act /\ at' = at
        /\ UNCHANGED <<lock, disk, answer, seen, counters>>
    BY <1>8 DEF OpenDirectory, ResumePublication, Validate, Recovered, Complete,
                WriteManifest, Check
  <2>2. \E to \in PCs : Goto(p, to) /\ (to \in AtAttempt => pc[p] \in AtAttempt)
    BY <1>8 DEF OpenDirectory, ResumePublication, Validate, Recovered, Complete,
                WriteManifest, Check, PCs, AtAttempt
  <2>3. pc' \in [Procs -> PCs] /\ Where'
    BY <2>1, <2>2, GotoTyped DEF Where
  <2>4. QED BY <2>1, <2>3
<1>9. ASSUME NEW p \in Procs,
             WriteIdentity(p) \/ Prepare(p) \/ Publish(p) \/ Seal(p)
      PROVE  Typing'
  <2>1. place' \in [Activities -> Places]
    BY <1>9, SetPlaceTyped DEF WriteIdentity, Prepare, Publish, Seal, Places
  <2>2. pc' \in [Procs -> PCs] /\ Where'
    BY <1>9, GotoTyped DEF WriteIdentity, Prepare, Publish, Seal, AtAttempt, PCs
  <2>3. QED BY <1>9, <2>1, <2>2 DEF WriteIdentity, Prepare, Publish, Seal
<1>10. ASSUME NEW p \in Procs, RepairTail(p) \/ TripBreaker(p)
       PROVE  Typing'
  <2>1. \E to \in PCs \ AtAttempt : Goto(p, to)
    BY <1>10 DEF RepairTail, TripBreaker, AtAttempt, PCs
  <2>2. pc' \in [Procs -> PCs] /\ Where'
    BY <1>10, <2>1, GotoTyped DEF RepairTail, TripBreaker
  <2>3. QED BY <1>10, <2>2 DEF RepairTail, TripBreaker
<1>11. ASSUME NEW p \in Procs, NoteFragment(p) \/ Close(p) \/ StartAttempt(p)
       PROVE  Typing'
  <2>1. journal' \in [Activities -> Seq(Event)]
    BY <1>11, AppendTyped DEF NoteFragment, Close, StartAttempt, Appending
  <2>2. \E to \in PCs : Goto(p, to) /\ (to \in AtAttempt => pc[p] \in AtAttempt)
    BY <1>11 DEF NoteFragment, Close, StartAttempt, AtAttempt, PCs
  <2>3. pc' \in [Procs -> PCs] /\ Where'
    BY <1>11, <2>2, GotoTyped DEF NoteFragment, Close, StartAttempt, Where
  <2>4. QED BY <1>11, <2>1, <2>3 DEF NoteFragment, Close, StartAttempt
<1>12. ASSUME NEW p \in Procs, Recover(p)
       PROVE  Typing'
  <2>1. act[p] \in Activities
    BY <1>12 DEF Recover, Where
  <2>2. PICK x \in Pending(journal[act[p]]) :
           /\ at' = [at EXCEPT ![p] = x]
           /\ Goto(p, IF raw[act[p]][x] = NoAnswer THEN "rebuilding" ELSE "closing")
    BY <1>12 DEF Recover
  <2>3. x \in Attempts
    BY <2>1, <2>2, PendingTyped
  <2>4. \E to \in PCs : Goto(p, to)
    BY <2>2 DEF PCs
  <2>5. /\ pc' \in [Procs -> PCs] /\ Where'
        /\ at' \in [Procs -> Attempts \union {NoAttempt}]
    BY <1>12, <2>2, <2>3, <2>4, GotoAtTyped DEF Recover
  <2>6. QED BY <1>12, <2>5 DEF Recover
<1>13. ASSUME NEW p \in Procs, Rebuild(p) \/ WriteRaw(p)
       PROVE  Typing'
  <2>1. act[p] \in Activities /\ at[p] \in Attempts
    BY <1>13 DEF Rebuild, WriteRaw, Where, AtAttempt
  <2>2. Ambiguous \in AllAnswers
    BY DEF Ambiguous, AllAnswers, Kinds
  <2>3. \E x \in AllAnswers \union {NoAnswer} : raw' = [raw EXCEPT ![act[p]][at[p]] = x]
    BY <1>13, <2>2 DEF Rebuild, WriteRaw
  <2>4. raw' \in [Activities -> [Attempts -> AllAnswers \union {NoAnswer}]]
    BY <2>1, <2>3
  <2>5. pc' \in [Procs -> PCs] /\ Where'
    BY <1>13, <2>1, GotoTyped DEF Rebuild, WriteRaw, PCs
  <2>6. QED BY <1>13, <2>4, <2>5 DEF Rebuild, WriteRaw
<1>14. ASSUME NEW p \in Procs, Walk(p)
       PROVE  Typing'
  <2>1. act[p] \in Activities /\ journal[act[p]] \in Seq(Event)
    BY <1>14 DEF Walk, Where
  <2>2. PICK j \in Seq(Event), r \in Requests :
           \/ Goto(p, "pausing") /\ at' = at
           \/ /\ ~Spent(Latest(j, r))
              /\ Goto(p, "checking")
              /\ at' = [at EXCEPT ![p] = NextAttempt(j, r)]
    BY <1>14, <2>1, NextRequestTyped DEF Walk, NextAttempt
  <2>3. CASE Goto(p, "pausing") /\ at' = at
    <3>1. pc' \in [Procs -> PCs] /\ Where'
      BY <1>14, <2>3, GotoTyped DEF Walk, AtAttempt, PCs
    <3>2. QED BY <1>14, <2>3, <3>1 DEF Walk
  <2>4. CASE /\ ~Spent(Latest(j, r))
             /\ Goto(p, "checking")
             /\ at' = [at EXCEPT ![p] = NextAttempt(j, r)]
    <3>1. NextAttempt(j, r) \in Attempts
      BY <2>4, NextAttemptTyped
    <3>2. /\ pc' \in [Procs -> PCs] /\ Where'
          /\ at' \in [Procs -> Attempts \union {NoAttempt}]
      BY <1>14, <2>4, <3>1, GotoAtTyped DEF Walk, PCs
    <3>3. QED BY <1>14, <3>2 DEF Walk
  <2>5. QED BY <2>2, <2>3, <2>4
<1>16. ASSUME NEW p \in Procs, Send(p)
       PROVE  Typing'
  <2>1. act[p] \in Activities /\ at[p] \in Attempts
    BY <1>16 DEF Send, Where, AtAttempt
  <2>2. sent' \in [Activities -> [Attempts -> Nat]]
    BY <1>16, <2>1 DEF Send
  <2>3. answer' \in [Procs -> AllAnswers \union {NoAnswer}] /\ late' \in [Procs -> Nat]
    BY <1>16, AnswersAssumption DEF Send
  <2>4. pc' \in [Procs -> PCs] /\ Where'
    BY <1>16, <2>1, GotoTyped DEF Send, PCs
  <2>5. QED BY <1>16, <2>2, <2>3, <2>4 DEF Send
<1>17. ASSUME NEW p \in Procs, WriteTerminal(p)
       PROVE  Typing'
  <2>1. journal' \in [Activities -> Seq(Event)]
    BY <1>17, AppendTyped DEF WriteTerminal, Appending
  <2>2. act[p] \in Activities /\ at[p] \in Attempts
    BY <1>17 DEF WriteTerminal, Where, AtAttempt
  <2>3. \/ at' = at /\ \E to \in PCs \ AtAttempt : Goto(p, to)
        \/ /\ ~(at[p][2] >= MaxRetries)
           /\ Goto(p, "checking")
           /\ at' = [at EXCEPT ![p][2] = @ + 1]
    BY <1>17 DEF WriteTerminal, PCs, AtAttempt
  <2>4. answer' \in [Procs -> AllAnswers \union {NoAnswer}]
    BY <1>17 DEF WriteTerminal
  <2>5. CASE at' = at /\ \E to \in PCs \ AtAttempt : Goto(p, to)
    <3>1. pc' \in [Procs -> PCs] /\ Where'
      BY <1>17, <2>5, GotoTyped DEF WriteTerminal
    <3>2. QED BY <1>17, <2>1, <2>4, <2>5, <3>1 DEF WriteTerminal
  <2>6. CASE /\ ~(at[p][2] >= MaxRetries)
             /\ Goto(p, "checking")
             /\ at' = [at EXCEPT ![p][2] = @ + 1]
    <3>1. [at[p] EXCEPT ![2] = @ + 1] \in Attempts
      BY <2>2, <2>6, RetryTyped
    <3>2. at' = [at EXCEPT ![p] = [at[p] EXCEPT ![2] = @ + 1]]
      BY <2>6
    <3>3. /\ pc' \in [Procs -> PCs] /\ Where'
          /\ at' \in [Procs -> Attempts \union {NoAttempt}]
      BY <1>17, <2>6, <3>1, <3>2, GotoAtTyped DEF WriteTerminal, PCs
    <3>4. QED BY <1>17, <2>1, <2>4, <3>3 DEF WriteTerminal
  <2>7. QED BY <2>3, <2>5, <2>6
<1>18. ASSUME NEW p \in Procs, Crash(p) \/ LeaveTemporary(p)
       PROVE  Typing'
  <2>1. Forget(p) /\ crashes' \in 0..MaxCrashes
    BY <1>18, BoundsAssumption DEF Crash, LeaveTemporary, Dies
  <2>2. litter' \in [Activities -> BOOLEAN]
    BY <1>18 DEF Crash, LeaveTemporary
  <2>3. QED BY <1>18, <2>1, <2>2, ForgetTyped DEF Crash, LeaveTemporary
<1>19. ASSUME NEW p \in Procs, TearRow(p)
       PROVE  Typing'
  <2>1. journal' \in [Activities -> Seq(Event)]
    BY <1>19, AppendTyped DEF TearRow
  <2>2. tail' \in [Activities -> {"whole", "bare", "torn"}]
    BY <1>19 DEF TearRow
  <2>3. Forget(p) /\ crashes' \in 0..MaxCrashes
    BY <1>19, BoundsAssumption DEF TearRow, Dies
  <2>4. QED BY <1>19, <2>1, <2>2, <2>3, ForgetTyped DEF TearRow
<1>20. QED
  BY <1>1, <1>2, <1>3, <1>4, <1>5, <1>6, <1>7, <1>8, <1>9, <1>10, <1>11, <1>12,
     <1>13, <1>14, <1>16, <1>17, <1>18, <1>19
  DEF Next, Step

(***************************************************************************)
(* Every variable keeps its type: in particular no call retries a request  *)
(* past the contract's limit, whatever journal it finds.                   *)
(***************************************************************************)
THEOREM TypeCorrect == Spec => []TypeOK
<1>1. Typing => TypeOK
  BY DEF Typing
<1>2. QED BY <1>1, TypingInit, TypingStep, PTL DEF Spec

-----------------------------------------------------------------------------
(* The breaker *)

Lateness == \A p \in Procs :
    /\ late[p] \in {0, 1}
    /\ late[p] # 0 => breaker
    /\ pc[p] \in {"starting", "sending"} => late[p] = 0

LEMMA LatenessStep == Typing /\ Lateness /\ [Next]_vars => Lateness'
<1> SUFFICES ASSUME Typing, Lateness, [Next]_vars PROVE Lateness'
  OBVIOUS
<1> USE DEF Lateness, Typing, TypeOK, disk, seen, counters
<1>1. ASSUME NEW p \in Procs, Forget(p), breaker' = breaker
      PROVE  Lateness'
  BY <1>1 DEF Forget, Goto
<1>2. CASE UNCHANGED vars
  BY <1>2 DEF vars
<1>3. ASSUME NEW p \in Procs, NEW a \in Activities, Call(p, a)
      PROVE  Lateness'
  BY <1>3 DEF Call, Goto
<1>4. ASSUME NEW p \in Procs,
             \/ RaiseInvalid(p) \/ RaiseOpen(p) \/ RaiseRefused(p) \/ Cached(p)
             \/ Point(p) \/ Pause(p) \/ Crash(p) \/ LeaveTemporary(p) \/ TearRow(p)
      PROVE  Lateness'
  BY <1>4, <1>1 DEF RaiseInvalid, RaiseOpen, RaiseRefused, Cached, Point, Pause, Crash,
                    LeaveTemporary, TearRow, Dies
<1>5. ASSUME NEW p \in Procs,
             \/ Lock(p) \/ MakeDirectory(p) \/ OpenDirectory(p) \/ ResumePublication(p)
             \/ WriteIdentity(p) \/ RepairTail(p) \/ NoteFragment(p) \/ Validate(p)
             \/ Recover(p) \/ Rebuild(p) \/ Close(p) \/ Recovered(p)
      PROVE  Lateness'
  <2>1. /\ breaker' = breaker /\ late' = late
        /\ \E to \in PCs \ {"starting", "sending"} : pc' = [pc EXCEPT ![p] = to]
    BY <1>5 DEF Lock, MakeDirectory, OpenDirectory, ResumePublication, WriteIdentity,
                RepairTail, NoteFragment, Validate, Recover, Rebuild, Close, Recovered,
                Goto, PCs
  <2>2. QED BY <2>1
<1>6. ASSUME NEW p \in Procs,
             \/ Walk(p) \/ WriteRaw(p) \/ WriteTerminal(p) \/ TripBreaker(p)
             \/ Complete(p) \/ WriteManifest(p) \/ Prepare(p) \/ Publish(p) \/ Seal(p)
      PROVE  Lateness'
  <2>1. /\ breaker' = breaker \/ breaker' = TRUE
        /\ late' = late
        /\ \E to \in PCs \ {"starting", "sending"} : pc' = [pc EXCEPT ![p] = to]
    BY <1>6 DEF Walk, WriteRaw, WriteTerminal, TripBreaker, Complete, WriteManifest,
                Prepare, Publish, Seal, Goto, PCs
  <2>2. QED BY <2>1
\* Nobody starts once the breaker is open, and before it is nobody is late.
<1>7. ASSUME NEW p \in Procs, Check(p)
      PROVE  Lateness'
  BY <1>7 DEF Check, Goto
<1>8. ASSUME NEW p \in Procs, StartAttempt(p)
      PROVE  Lateness'
  BY <1>8 DEF StartAttempt, Goto
<1>9. ASSUME NEW p \in Procs, Send(p)
       PROVE  Lateness'
  BY <1>9 DEF Send, Goto
<1>10. QED
  BY <1>2, <1>3, <1>4, <1>5, <1>6, <1>7, <1>8, <1>9 DEF Next, Step

(***************************************************************************)
(* Whatever other activities find out, a call has at most one request on   *)
(* its way when the provider's breaker opens.                              *)
(***************************************************************************)
THEOREM NoFurtherRequest == Spec => []AtMostOneLate
<1>1. Init => Lateness
  BY DEF Init, Lateness
<1>2. Lateness => AtMostOneLate
  BY DEF Lateness, AtMostOneLate
<1>3. QED BY <1>1, <1>2, TypingInit, TypingStep, LatenessStep, PTL DEF Spec

-----------------------------------------------------------------------------
(* No attempt twice *)

Asked(j) == {j[i].at : i \in Rows(j, "started")}
Ended(j) == {j[i].at : i \in Rows(j, "terminal")}

\* No attempt at the same request is higher, or even as high.
Highest(x, j) == \A y \in Asked(j) : y[1] = x[1] => y[2] <= x[2]
Higher(x, j) == \A y \in Asked(j) : y[1] = x[1] => y[2] < x[2]

Ordered(j) ==
    /\ Ended(j) \subseteq Asked(j)
    /\ \A i, k \in Rows(j, "terminal") :
          i < k /\ j[i].at[1] = j[k].at[1] => j[i].at[2] <= j[k].at[2]
    /\ \A x \in Pending(j) : Highest(x, j)

\* What has reached the provider was started, and once.
Backed(s, j) ==
    \A x \in Attempts : s[x] \in {0, 1} /\ (s[x] # 0 => x \in Asked(j))

\* What a process at a label knows of its attempt.
Fits(label, x, j, s) ==
    /\ label \in {"rebuilding", "closing"} => x \in Pending(j)
    /\ label \in {"walking", "checking", "starting"} => Pending(j) = {}
    /\ label \in {"checking", "starting"} => Higher(x, j)
    /\ label \in {"sending", "writing", "terminating"} =>
          x \in Asked(j) /\ Pending(j) \subseteq {x} /\ Highest(x, j)
    /\ label = "sending" => s[x] = 0

Inside(p) == pc[p] \notin {"idle", "locking"}

Once ==
    /\ \A a \in Activities : Ordered(journal[a]) /\ Backed(sent[a], journal[a])
    /\ \A p \in Procs : Inside(p) =>
          /\ lock[act[p]] = p
          /\ Fits(pc[p], at[p], journal[act[p]], sent[act[p]])

LEMMA AppendedRows ==
    ASSUME NEW j \in Seq(Event), NEW e \in Event
    PROVE  /\ \A i \in 1..Len(j) : Append(j, e)[i] = j[i]
           /\ Append(j, e)[Len(j) + 1] = e
           /\ \A type : Rows(Append(j, e), type) =
                 Rows(j, type) \union (IF e.type = type THEN {Len(j) + 1} ELSE {})
<1>1. /\ \A i \in 1..Len(j) : Append(j, e)[i] = j[i]
      /\ Append(j, e)[Len(j) + 1] = e
      /\ Len(Append(j, e)) = Len(j) + 1 /\ Len(j) \in Nat
  OBVIOUS
<1>2. 1..(Len(j) + 1) = (1..Len(j)) \union {Len(j) + 1}
  BY <1>1
<1>3. QED BY <1>1, <1>2 DEF Rows

LEMMA AppendedAsked ==
    ASSUME NEW j \in Seq(Event), NEW e \in Event
    PROVE  /\ Asked(Append(j, e)) =
                 Asked(j) \union (IF e.type = "started" THEN {e.at} ELSE {})
           /\ Ended(Append(j, e)) =
                 Ended(j) \union (IF e.type = "terminal" THEN {e.at} ELSE {})
<1> DEFINE k == Append(j, e)
<1>1. /\ \A i \in 1..Len(j) : k[i] = j[i]
      /\ k[Len(j) + 1] = e
      /\ \A type : Rows(k, type) =
            Rows(j, type) \union (IF e.type = type THEN {Len(j) + 1} ELSE {})
  BY AppendedRows
<1>2. \A type : Rows(j, type) \subseteq 1..Len(j)
  BY DEF Rows
<1> HIDE DEF k
<1>3. \A type : {k[i].at : i \in Rows(k, type)} =
         {j[i].at : i \in Rows(j, type)} \union (IF e.type = type THEN {e.at} ELSE {})
  BY <1>1, <1>2
<1>4. QED BY <1>3 DEF Asked, Ended, k

LEMMA PendingIs ==
    ASSUME NEW j
    PROVE  Pending(j) = Asked(j) \ Ended(j)
BY DEF Pending, Asked, Ended

LEMMA AskedTyped ==
    ASSUME NEW j \in Seq(Event)
    PROVE  Asked(j) \subseteq Attempts
<1>1. \A i \in Rows(j, "started") : j[i] \in Event /\ j[i].type = "started"
  BY DEF Rows
<1>2. QED BY <1>1 DEF Asked, Event, TailRecovered

LEMMA AppendStarted ==
    ASSUME NEW j \in Seq(Event), NEW e \in Event, e.type = "started",
           Ordered(j), Pending(j) = {}, Higher(e.at, j)
    PROVE  LET k == Append(j, e)
           IN /\ Ordered(k) /\ Asked(k) = Asked(j) \union {e.at}
              /\ Pending(k) \subseteq {e.at} /\ Highest(e.at, k)
<1> DEFINE k == Append(j, e)
<1>1. Asked(k) = Asked(j) \union {e.at} /\ Ended(k) = Ended(j)
  BY AppendedAsked
<1>2. /\ \A i \in 1..Len(j) : k[i] = j[i]
      /\ \A type : Rows(k, type) =
            Rows(j, type) \union (IF e.type = type THEN {Len(j) + 1} ELSE {})
  BY AppendedRows
<1> HIDE DEF k
<1>3. e.at \in Attempts
  BY DEF Event, TailRecovered
<1>4. Pending(k) \subseteq {e.at}
  BY <1>1, PendingIs
<1>5. Highest(e.at, k)
  <2>1. \A y \in Asked(j) : y \in Attempts
    BY AskedTyped
  <2>2. QED BY <1>1, <1>3, <2>1 DEF Highest, Higher, Attempts
<1>6. \A i, m \in Rows(k, "terminal") :
         i < m /\ k[i].at[1] = k[m].at[1] => k[i].at[2] <= k[m].at[2]
  BY <1>2 DEF Ordered, Rows
<1>7. Ordered(k)
  BY <1>1, <1>4, <1>5, <1>6 DEF Ordered
<1>8. QED BY <1>1, <1>4, <1>5, <1>7 DEF k

LEMMA AppendTerminal ==
    ASSUME NEW j \in Seq(Event), NEW e \in Event, e.type = "terminal",
           Ordered(j), e.at \in Asked(j), Highest(e.at, j)
    PROVE  LET k == Append(j, e)
           IN /\ Ordered(k) /\ Asked(k) = Asked(j)
              /\ Pending(k) = Pending(j) \ {e.at} /\ Highest(e.at, k)
<1> DEFINE k == Append(j, e)
<1>1. Asked(k) = Asked(j) /\ Ended(k) = Ended(j) \union {e.at}
  BY AppendedAsked
<1>2. /\ Rows(k, "terminal") = Rows(j, "terminal") \union {Len(j) + 1}
      /\ \A i \in 1..Len(j) : k[i] = j[i]
      /\ k[Len(j) + 1] = e
  BY AppendedRows
<1> HIDE DEF k
<1>3. Pending(k) = Pending(j) \ {e.at}
  BY <1>1, PendingIs
<1>4. Highest(e.at, k) /\ \A x \in Pending(j) : Highest(x, k)
  BY <1>1 DEF Highest, Ordered
<1>5. \A i \in Rows(j, "terminal") : i \in 1..Len(j) /\ j[i].at \in Asked(j)
  BY DEF Rows, Ordered, Ended
<1>6. \A i \in Rows(j, "terminal") : j[i].at[1] = e.at[1] => j[i].at[2] <= e.at[2]
  BY <1>5 DEF Highest
<1>7. \A i, m \in Rows(k, "terminal") :
         i < m /\ k[i].at[1] = k[m].at[1] => k[i].at[2] <= k[m].at[2]
  BY <1>2, <1>5, <1>6 DEF Ordered
<1>8. Ordered(k)
  BY <1>1, <1>3, <1>4, <1>7 DEF Ordered
<1>9. QED BY <1>1, <1>3, <1>4, <1>8 DEF k

LEMMA AppendNote ==
    ASSUME NEW j \in Seq(Event), Ordered(j)
    PROVE  Ordered(Append(j, TailRecovered)) /\ Asked(Append(j, TailRecovered)) = Asked(j)
<1> DEFINE k == Append(j, TailRecovered)
<1>1. TailRecovered \in Event /\ TailRecovered.type = "tail_recovered"
  BY DEF Event, TailRecovered
<1>2. Asked(k) = Asked(j) /\ Ended(k) = Ended(j)
  BY <1>1, AppendedAsked
<1>3. /\ \A i \in 1..Len(j) : k[i] = j[i]
      /\ \A type : Rows(k, type) =
            Rows(j, type) \union (IF TailRecovered.type = type THEN {Len(j) + 1} ELSE {})
  BY <1>1, AppendedRows
<1> HIDE DEF k
<1>4. \A i, m \in Rows(k, "terminal") :
         i < m /\ k[i].at[1] = k[m].at[1] => k[i].at[2] <= k[m].at[2]
  BY <1>1, <1>3 DEF Ordered, Rows
<1>5. Pending(k) = Pending(j)
  BY <1>2, PendingIs
<1>6. QED BY <1>2, <1>4, <1>5 DEF Ordered, Highest, k

LEMMA NextAttemptIsHigher ==
    ASSUME NEW j \in Seq(Event), NEW r \in Requests, Ordered(j), Pending(j) = {}
    PROVE  Higher(NextAttempt(j, r), j)
<1> SUFFICES ASSUME NEW y \in Asked(j), y[1] = NextAttempt(j, r)[1]
             PROVE  y[2] < NextAttempt(j, r)[2]
  BY DEF Higher
<1>1. y[1] = r /\ y \in Attempts /\ y \in Ended(j)
  BY AskedTyped, PendingIs DEF NextAttempt
<1>2. PICK i \in Rows(j, "terminal") : j[i].at = y
  BY <1>1 DEF Ended
<1>3. i \in Terminals(j, r)
  BY <1>1, <1>2 DEF Terminals
<1>4. PICK m \in Terminals(j, r) :
         Latest(j, r) = j[m] /\ \A k \in Terminals(j, r) : k <= m
  BY <1>3, LatestIsLast
<1>5. /\ m \in Rows(j, "terminal") /\ j[m].at[1] = r
      /\ i \in 1..Len(j) /\ m \in 1..Len(j) /\ j[m].type = "terminal"
  BY <1>2, <1>4 DEF Terminals, Rows
<1>6. y[2] <= j[m].at[2]
  <2>1. CASE i = m
    BY <1>1, <1>2, <2>1 DEF Attempts
  <2>2. CASE i < m
    BY <1>1, <1>2, <1>5, <2>2 DEF Ordered
  <2>3. QED BY <1>3, <1>4, <1>5, <2>1, <2>2
<1>7. Latest(j, r) # Unasked
  BY <1>4, <1>5 DEF Unasked
<1>8. NextAttempt(j, r)[2] = j[m].at[2] + 1
  BY <1>4, <1>7 DEF NextAttempt
<1>9. y[2] \in Nat /\ j[m].at[2] \in Nat
  BY <1>1, <1>4, <1>7, LatestTyped DEF Attempts
<1>10. QED BY <1>6, <1>8, <1>9

\* A step of a process in its activity leaves the other processes their
\* journals: the flock keeps them out of this one.
LEMMA InsideStep ==
    ASSUME Typing, Once, NEW p \in Procs, Inside(p), NEW j, NEW s,
           journal' = [journal EXCEPT ![act[p]] = j],
           sent' = [sent EXCEPT ![act[p]] = s],
           Ordered(j), Backed(s, j),
           \/ Forget(p)
           \/ \E label, x :
                 /\ pc' = [pc EXCEPT ![p] = label] /\ at' = [at EXCEPT ![p] = x]
                 /\ act' = act /\ lock' = lock
                 /\ Fits(label, x, j, s)
    PROVE  Once'
<1> USE DEF Typing, TypeOK
<1>1. act[p] \in Activities /\ lock[act[p]] = p
  BY DEF Once, Inside, Where
<1>2. \A a \in Activities : Ordered(journal'[a]) /\ Backed(sent'[a], journal'[a])
  BY <1>1 DEF Once
<1>3. ASSUME NEW q \in Procs, q # p, Inside(q)'
      PROVE  /\ lock'[act'[q]] = q
             /\ Fits(pc'[q], at'[q], journal'[act'[q]], sent'[act'[q]])
  <2>1. pc'[q] = pc[q] /\ at'[q] = at[q] /\ act'[q] = act[q]
    BY <1>3 DEF Forget, Goto
  <2>2. Inside(q) /\ act[q] \in Activities
    BY <1>3, <2>1 DEF Inside, Where
  <2>3. lock[act[q]] = q /\ Fits(pc[q], at[q], journal[act[q]], sent[act[q]])
    BY <2>2 DEF Once
  <2>4. act[q] # act[p]
    BY <1>1, <1>3, <2>3
  <2>5. journal'[act[q]] = journal[act[q]] /\ sent'[act[q]] = sent[act[q]]
    BY <2>2, <2>4
  <2>6. lock'[act[q]] = q
    BY <1>3, <2>2, <2>3 DEF Forget
  <2>7. QED BY <2>1, <2>3, <2>5, <2>6
<1>4. ASSUME Inside(p)'
      PROVE  /\ lock'[act'[p]] = p
             /\ Fits(pc'[p], at'[p], journal'[act'[p]], sent'[act'[p]])
  <2>1. ~Forget(p)
    BY <1>4 DEF Forget, Goto, Inside
  <2>2. PICK label, x :
           /\ pc' = [pc EXCEPT ![p] = label] /\ at' = [at EXCEPT ![p] = x]
           /\ act' = act /\ lock' = lock
           /\ Fits(label, x, j, s)
    BY <2>1
  <2>3. pc'[p] = label /\ at'[p] = x /\ journal'[act[p]] = j /\ sent'[act[p]] = s
    BY <1>1, <2>2
  <2>4. QED BY <1>1, <2>2, <2>3
<1>5. QED BY <1>2, <1>3, <1>4 DEF Once

\* The same, when journal and provider are left alone.
LEMMA QuietStep ==
    ASSUME Typing, Once, NEW p \in Procs, Inside(p), journal' = journal, sent' = sent,
           \/ Forget(p)
           \/ \E label, x :
                 /\ pc' = [pc EXCEPT ![p] = label] /\ at' = [at EXCEPT ![p] = x]
                 /\ act' = act /\ lock' = lock
                 /\ Fits(label, x, journal[act[p]], sent[act[p]])
    PROVE  Once'
<1>1. act[p] \in Activities
  BY DEF Inside, Typing, Where
<1>2. /\ journal' = [journal EXCEPT ![act[p]] = journal[act[p]]]
      /\ sent' = [sent EXCEPT ![act[p]] = sent[act[p]]]
  BY <1>1 DEF Typing, TypeOK
<1>3. Ordered(journal[act[p]]) /\ Backed(sent[act[p]], journal[act[p]])
  BY <1>1 DEF Once
<1>4. QED BY <1>2, <1>3, InsideStep

\* What a row leaves of the journal, whether its process goes on or is killed.
LEMMA RowStep ==
    ASSUME Typing, Once, NEW p \in Procs, pc[p] \in Appending
    PROVE  LET j == journal[act[p]]
               k == Append(j, Row(p))
           IN /\ Ordered(k) /\ Backed(sent[act[p]], k)
              /\ pc[p] = "starting" => Fits("sending", at[p], k, sent[act[p]])
              /\ pc[p] = "terminating" => Pending(k) = {} /\ Highest(at[p], k)
<1> DEFINE j == journal[act[p]]
           k == Append(j, Row(p))
           s == sent[act[p]]
<1>1. /\ act[p] \in Activities /\ j \in Seq(Event)
      /\ Ordered(j) /\ Backed(s, j) /\ Fits(pc[p], at[p], j, s)
      /\ Row(p) \in Event
  BY RowTyped DEF Once, Inside, Typing, TypeOK, Where, Appending
<1>2. CASE pc[p] = "noting"
  <2>1. Row(p) = TailRecovered
    BY <1>2 DEF Row
  <2>2. QED BY <1>1, <1>2, <2>1, AppendNote DEF Backed
<1>3. CASE pc[p] = "starting"
  <2>1. Row(p).type = "started" /\ Row(p).at = at[p] /\ at[p] \in Attempts
    BY <1>3 DEF Row, Typing, Where, AtAttempt
  <2>2. Pending(j) = {} /\ Higher(at[p], j)
    BY <1>1, <1>3 DEF Fits
  <2>3. at[p] \notin Asked(j)
    BY <2>1, <2>2 DEF Higher, Attempts
  <2>4. s[at[p]] = 0
    BY <1>1, <2>1, <2>3 DEF Backed
  <2>5. /\ Ordered(k) /\ Asked(k) = Asked(j) \union {at[p]}
        /\ Pending(k) \subseteq {at[p]} /\ Highest(at[p], k)
    BY <1>1, <2>1, <2>2, AppendStarted
  <2> HIDE DEF j, k, s
  <2>6. Backed(s, k) /\ Fits("sending", at[p], k, s)
    BY <1>1, <2>4, <2>5 DEF Backed, Fits
  <2>7. QED BY <1>3, <2>5, <2>6 DEF j, k, s
<1>4. CASE pc[p] \in {"closing", "terminating"}
  <2>1. Row(p).type = "terminal" /\ Row(p).at = at[p]
    BY <1>4 DEF Row
  <2>2. at[p] \in Asked(j) /\ Highest(at[p], j)
    BY <1>1, <1>4, PendingIs DEF Fits, Ordered
  <2>3. pc[p] = "terminating" => Pending(j) \subseteq {at[p]}
    BY <1>1 DEF Fits
  <2>4. /\ Ordered(k) /\ Asked(k) = Asked(j)
        /\ Pending(k) = Pending(j) \ {at[p]} /\ Highest(at[p], k)
    BY <1>1, <2>1, <2>2, AppendTerminal
  <2> HIDE DEF j, k, s
  <2>5. Backed(s, k)
    BY <1>1, <2>4 DEF Backed
  <2>6. QED BY <1>4, <2>3, <2>4, <2>5 DEF j, k, s
<1>5. QED BY <1>2, <1>3, <1>4 DEF Appending

\* A process that still waits for the flock holds none.
LEMMA KilledOutside ==
    ASSUME Typing, Once, NEW p \in Procs, ~Inside(p), Forget(p),
           journal' = journal, sent' = sent
    PROVE  Once'
<1>1. \A q \in Procs : Inside(q)' => Inside(q) /\ q # p
  BY DEF Forget, Goto, Inside, Typing, TypeOK
<1>2. \A q \in Procs : q # p => act'[q] = act[q] /\ at'[q] = at[q] /\ pc'[q] = pc[q]
  BY DEF Forget, Goto, Typing, TypeOK
<1>3. \A q \in Procs : Inside(q)' => lock'[act[q]] = q
  BY <1>1 DEF Forget, Once, Inside, Typing, TypeOK, Where
<1>4. QED BY <1>1, <1>2, <1>3 DEF Once

LEMMA OnceStep == Typing /\ Once /\ [Next]_vars => Once'
<1> SUFFICES ASSUME Typing, Once, [Next]_vars PROVE Once'
  OBVIOUS
<1> USE DEF disk, seen, counters
<1>1. CASE UNCHANGED vars
  BY <1>1 DEF vars, Once, Inside
<1>2. ASSUME NEW p \in Procs, NEW a \in Activities, Call(p, a)
      PROVE  Once'
  BY <1>2 DEF Call, Goto, Once, Inside, Typing, TypeOK
<1>3. ASSUME NEW p \in Procs, Lock(p)
      PROVE  Once'
  <2>1. act[p] \in Activities
    BY <1>3 DEF Lock, Typing, Where
  <2>2. /\ journal' = journal /\ sent' = sent /\ act' = act /\ at' = at
        /\ pc' = [pc EXCEPT ![p] = "entering"]
        /\ lock' = [lock EXCEPT ![act[p]] = p]
        /\ lock[act[p]] = NoProc
    BY <1>3 DEF Lock, Goto
  <2>3. ASSUME NEW q \in Procs, q # p, Inside(q)'
        PROVE  lock'[act[q]] = q /\ Fits(pc'[q], at[q], journal[act[q]], sent[act[q]])
    <3>1. /\ Inside(q) /\ lock[act[q]] = q
          /\ Fits(pc[q], at[q], journal[act[q]], sent[act[q]])
      BY <2>2, <2>3 DEF Once, Inside, Typing, TypeOK
    <3>2. act[q] # act[p] /\ act[q] \in Activities
      BY <2>2, <3>1, NoProcAssumption DEF Inside, Typing, Where
    <3>3. QED BY <2>2, <2>3, <3>1, <3>2 DEF Typing, TypeOK
  <2>4. lock'[act[p]] = p /\ Fits(pc'[p], at[p], journal[act[p]], sent[act[p]])
    BY <2>1, <2>2 DEF Fits, Typing, TypeOK
  <2>5. QED BY <2>2, <2>3, <2>4 DEF Once
<1>4. ASSUME NEW p \in Procs,
             \/ RaiseInvalid(p) \/ RaiseOpen(p) \/ RaiseRefused(p) \/ Cached(p)
             \/ Point(p) \/ Pause(p)
      PROVE  Once'
  <2>1. Inside(p) /\ journal' = journal /\ sent' = sent /\ Forget(p)
    BY <1>4 DEF RaiseInvalid, RaiseOpen, RaiseRefused, Cached, Point, Pause, Inside
  <2>2. QED BY <2>1, QuietStep
<1>5. ASSUME NEW p \in Procs, MakeDirectory(p)
      PROVE  Once'
  <2> DEFINE zeros == [x \in Attempts |-> 0]
  <2>1. Ordered(<<>>) /\ Backed(zeros, <<>>)
    BY DEF Ordered, Backed, Asked, Ended, Pending, Rows
  <2>2. Fits("identifying", at[p], <<>>, zeros)
    BY DEF Fits
  <2>3. /\ Inside(p) /\ act' = act /\ lock' = lock
        /\ journal' = [journal EXCEPT ![act[p]] = <<>>]
        /\ sent' = [sent EXCEPT ![act[p]] = zeros]
        /\ pc' = [pc EXCEPT ![p] = "identifying"] /\ at' = [at EXCEPT ![p] = at[p]]
    BY <1>5 DEF MakeDirectory, Goto, Inside, Typing, TypeOK
  <2> HIDE DEF zeros
  <2>4. QED BY <2>1, <2>2, <2>3, InsideStep
<1>6. ASSUME NEW p \in Procs,
             \/ OpenDirectory(p) \/ ResumePublication(p) \/ WriteIdentity(p)
             \/ RepairTail(p) \/ Validate(p) \/ Complete(p) \/ WriteManifest(p)
             \/ Prepare(p) \/ Publish(p) \/ Seal(p) \/ TripBreaker(p)
      PROVE  Once'
  <2>1. /\ Inside(p) /\ journal' = journal /\ sent' = sent /\ act' = act /\ lock' = lock
        /\ at' = [at EXCEPT ![p] = at[p]]
    BY <1>6 DEF OpenDirectory, ResumePublication, WriteIdentity, RepairTail, Validate,
                Complete, WriteManifest, Prepare, Publish, Seal, TripBreaker, Inside,
                Typing, TypeOK
  <2>2. \E to \in PCs \ (AtAttempt \union {"walking"}) : pc' = [pc EXCEPT ![p] = to]
    BY <1>6 DEF OpenDirectory, ResumePublication, WriteIdentity, RepairTail, Validate,
                Complete, WriteManifest, Prepare, Publish, Seal, TripBreaker, Goto,
                AtAttempt, PCs
  <2>3. \A to \in PCs \ (AtAttempt \union {"walking"}) :
           Fits(to, at[p], journal[act[p]], sent[act[p]])
    BY DEF Fits, AtAttempt
  <2>4. QED BY <2>1, <2>2, <2>3, QuietStep
<1>7. ASSUME NEW p \in Procs, Recover(p)
      PROVE  Once'
  <2>1. PICK x \in Pending(journal[act[p]]) :
           /\ at' = [at EXCEPT ![p] = x]
           /\ \E to \in {"rebuilding", "closing"} : pc' = [pc EXCEPT ![p] = to]
    BY <1>7 DEF Recover, Goto
  <2>2. \A to \in {"rebuilding", "closing"} :
           Fits(to, x, journal[act[p]], sent[act[p]])
    BY DEF Fits
  <2>3. /\ Inside(p) /\ journal' = journal /\ sent' = sent /\ act' = act /\ lock' = lock
    BY <1>7 DEF Recover, Inside
  <2>4. QED BY <2>1, <2>2, <2>3, QuietStep
\* These go on with the attempt they have.
<1>8. ASSUME NEW p \in Procs,
             Rebuild(p) \/ Recovered(p) \/ Check(p) \/ WriteRaw(p)
      PROVE  Once'
  <2>1. /\ Inside(p) /\ journal' = journal /\ sent' = sent /\ act' = act /\ lock' = lock
        /\ at' = [at EXCEPT ![p] = at[p]]
    BY <1>8 DEF Rebuild, Recovered, Check, WriteRaw, Inside, Typing, TypeOK
  <2>2. Fits(pc[p], at[p], journal[act[p]], sent[act[p]])
    BY <2>1 DEF Once
  <2>3. \E to : /\ pc' = [pc EXCEPT ![p] = to]
                /\ Fits(to, at[p], journal[act[p]], sent[act[p]])
    BY <1>8, <2>2 DEF Rebuild, Recovered, Check, WriteRaw, Goto, Fits
  <2>4. QED BY <2>1, <2>3, QuietStep
<1>9. ASSUME NEW p \in Procs, Walk(p)
      PROVE  Once'
  <2>1. /\ Inside(p) /\ journal' = journal /\ sent' = sent /\ act' = act /\ lock' = lock
        /\ journal[act[p]] \in Seq(Event) /\ act[p] \in Activities
    BY <1>9 DEF Walk, Inside, Typing, TypeOK, Where
  <2>2. Ordered(journal[act[p]]) /\ Pending(journal[act[p]]) = {}
    BY <1>9, <2>1 DEF Once, Fits, Walk
  <2>3. CASE Goto(p, "pausing") /\ at' = at
    <3>1. at' = [at EXCEPT ![p] = at[p]] /\ pc' = [pc EXCEPT ![p] = "pausing"]
      BY <2>3 DEF Goto, Typing, TypeOK
    <3>2. Fits("pausing", at[p], journal[act[p]], sent[act[p]])
      BY DEF Fits
    <3>3. QED BY <2>1, <3>1, <3>2, QuietStep
  <2>4. CASE \E r \in Requests :
                Goto(p, "checking") /\ at' = [at EXCEPT ![p] = NextAttempt(journal[act[p]], r)]
    <3>1. PICK r \in Requests :
             Goto(p, "checking") /\ at' = [at EXCEPT ![p] = NextAttempt(journal[act[p]], r)]
      BY <2>4
    <3>2. Fits("checking", NextAttempt(journal[act[p]], r), journal[act[p]], sent[act[p]])
      BY <2>1, <2>2, NextAttemptIsHigher DEF Fits
    <3>3. QED BY <2>1, <3>1, <3>2, QuietStep DEF Goto
  <2>5. QED BY <1>9, <2>3, <2>4, NextRequestTyped DEF Walk, NextAttempt
<1>10. ASSUME NEW p \in Procs, NoteFragment(p) \/ Close(p) \/ StartAttempt(p)
       PROVE  Once'
  <2> DEFINE k == Append(journal[act[p]], Row(p))
  <2>1. /\ Inside(p) /\ sent' = sent /\ act' = act /\ lock' = lock /\ pc[p] \in Appending
        /\ journal' = [journal EXCEPT ![act[p]] = k] /\ act[p] \in Activities
        /\ at' = [at EXCEPT ![p] = at[p]] /\ sent' = [sent EXCEPT ![act[p]] = sent[act[p]]]
    BY <1>10 DEF NoteFragment, Close, StartAttempt, Append1, Inside, Appending, Typing,
                 TypeOK, Where
  <2>2. /\ Ordered(k) /\ Backed(sent[act[p]], k)
        /\ pc[p] = "starting" => Fits("sending", at[p], k, sent[act[p]])
    BY <2>1, RowStep
  <2> HIDE DEF k
  <2>3. \E to : pc' = [pc EXCEPT ![p] = to] /\ Fits(to, at[p], k, sent[act[p]])
    BY <1>10, <2>2 DEF NoteFragment, Close, StartAttempt, Goto, Fits
  <2>4. QED BY <2>1, <2>2, <2>3, InsideStep
<1>11. ASSUME NEW p \in Procs, Send(p)
       PROVE  Once'
  <2> DEFINE s == [sent[act[p]] EXCEPT ![at[p]] = @ + 1]
  <2>1. /\ Inside(p) /\ act' = act /\ lock' = lock
        /\ act[p] \in Activities /\ at[p] \in Attempts
        /\ journal' = [journal EXCEPT ![act[p]] = journal[act[p]]]
        /\ sent' = [sent EXCEPT ![act[p]] = s]
        /\ pc' = [pc EXCEPT ![p] = "writing"] /\ at' = [at EXCEPT ![p] = at[p]]
    BY <1>11 DEF Send, Goto, Inside, Typing, TypeOK, Where, AtAttempt
  <2>2. /\ Ordered(journal[act[p]]) /\ Backed(sent[act[p]], journal[act[p]])
        /\ Fits("sending", at[p], journal[act[p]], sent[act[p]])
    BY <1>11, <2>1 DEF Once, Send
  <2>3. Backed(s, journal[act[p]])
    BY <2>1, <2>2 DEF Backed, Fits, Typing, TypeOK
  <2> HIDE DEF s
  <2>4. Fits("writing", at[p], journal[act[p]], s)
    BY <2>2 DEF Fits
  <2>5. QED BY <2>1, <2>2, <2>3, <2>4, InsideStep
<1>12. ASSUME NEW p \in Procs, WriteTerminal(p)
       PROVE  Once'
  <2> DEFINE k == Append(journal[act[p]], Row(p))
  <2>1. /\ Inside(p) /\ act' = act /\ lock' = lock /\ pc[p] \in Appending
        /\ journal' = [journal EXCEPT ![act[p]] = k]
        /\ act[p] \in Activities /\ at[p] \in Attempts
        /\ sent' = [sent EXCEPT ![act[p]] = sent[act[p]]]
    BY <1>12 DEF WriteTerminal, Append1, Inside, Appending, Typing, TypeOK, Where, AtAttempt
  <2>2. Ordered(k) /\ Backed(sent[act[p]], k) /\ Pending(k) = {} /\ Highest(at[p], k)
    BY <1>12, <2>1, RowStep DEF WriteTerminal
  <2>3. k \in Seq(Event)
    BY <2>1, RowTyped DEF Typing, TypeOK
  <2> HIDE DEF k
  <2>4. CASE \E to \in {"pausing", "walking", "tripping"} : Goto(p, to) /\ at' = at
    <3>1. \A to \in {"pausing", "walking", "tripping"} : Fits(to, at[p], k, sent[act[p]])
      BY <2>2 DEF Fits
    <3>2. at' = [at EXCEPT ![p] = at[p]]
      BY <2>4 DEF Typing, TypeOK
    <3>3. QED BY <2>1, <2>2, <2>4, <3>1, <3>2, InsideStep DEF Goto
  <2>5. CASE /\ ~(at[p][2] >= MaxRetries) /\ Goto(p, "checking")
             /\ at' = [at EXCEPT ![p][2] = @ + 1]
    <3> DEFINE x == <<at[p][1], at[p][2] + 1>>
    <3>1. at' = [at EXCEPT ![p] = [at[p] EXCEPT ![2] = @ + 1]]
      BY <2>5
    <3>2. at' = [at EXCEPT ![p] = x]
      BY <2>1, <2>5, <3>1, RetryTyped
    <3>3. Higher(x, k)
      BY <2>1, <2>2, <2>3, AskedTyped DEF Higher, Highest, Attempts
    <3> HIDE DEF x
    <3>4. Fits("checking", x, k, sent[act[p]])
      BY <2>2, <3>3 DEF Fits
    <3>5. QED BY <2>1, <2>2, <2>5, <3>2, <3>4, InsideStep DEF Goto
  <2>6. QED BY <1>12, <2>4, <2>5 DEF WriteTerminal
<1>13. ASSUME NEW p \in Procs, Crash(p) \/ LeaveTemporary(p) \/ TearRow(p)
       PROVE  Once'
  <2>1. Forget(p) /\ sent' = sent /\ pc[p] # "idle"
    BY <1>13 DEF Crash, LeaveTemporary, TearRow, Dies
  <2>2. CASE ~Inside(p)
    BY <1>13, <2>1, <2>2, KilledOutside DEF Crash, LeaveTemporary, TearRow, Inside, Appending
  <2>3. CASE Inside(p) /\ journal' = journal
    BY <2>1, <2>3, QuietStep
  <2>4. CASE /\ pc[p] \in Appending
             /\ journal' = [journal EXCEPT ![act[p]] = Append(journal[act[p]], Row(p))]
    <3>1. Inside(p) /\ act[p] \in Activities
      BY <2>4 DEF Inside, Appending, Typing, Where
    <3>2. sent' = [sent EXCEPT ![act[p]] = sent[act[p]]]
      BY <2>1, <3>1 DEF Typing, TypeOK
    <3>3. /\ Ordered(Append(journal[act[p]], Row(p)))
          /\ Backed(sent[act[p]], Append(journal[act[p]], Row(p)))
      BY <2>4, RowStep
    <3>4. QED BY <2>1, <2>4, <3>1, <3>2, <3>3, InsideStep
  <2>5. QED BY <1>13, <2>2, <2>3, <2>4 DEF Crash, LeaveTemporary, TearRow, Append1
<1>14. QED
  BY <1>1, <1>2, <1>3, <1>4, <1>5, <1>6, <1>7, <1>8, <1>9, <1>10, <1>11, <1>12, <1>13
  DEF Next, Step

(***************************************************************************)
(* Over all calls, kills and torn rows of a directory, no attempt reaches  *)
(* the provider twice.                                                     *)
(***************************************************************************)
THEOREM NoAttemptTwice ==
    Spec => [](\A a \in Activities : \A x \in Attempts : sent[a][x] <= 1)
<1>1. Init => Once
  BY DEF Init, Once, Inside, Ordered, Backed, Asked, Ended, Pending, Rows
<1>2. Once => \A a \in Activities : \A x \in Attempts : sent[a][x] <= 1
  BY DEF Once, Backed
<1>3. QED BY <1>1, <1>2, TypingInit, TypingStep, OnceStep, PTL DEF Spec


-----------------------------------------------------------------------------
(* The journal *)

\* Every earlier attempt has ended with an error that may be retried.
Retried(x, j) ==
    \A o \in 0..(x[2] - 1) : \E k \in Rows(j, "terminal") :
        j[k].at = <<x[1], o>> /\ Retryable(j[k].answer)

\* ... for every attempt that was started, before it was.
RetriesDue(j) ==
    \A i \in Rows(j, "started") : \A o \in 0..(j[i].at[2] - 1) :
       \E k \in Rows(j, "terminal") :
          k < i /\ j[k].at = <<j[i].at[1], o>> /\ Retryable(j[k].answer)

Books(j) ==
    /\ \A i, k \in Rows(j, "started") : j[i].at = j[k].at => i = k
    /\ \A i, k \in Rows(j, "terminal") : j[i].at = j[k].at => i = k
    /\ \A i \in Rows(j, "terminal") :
          \E k \in Rows(j, "started") : k < i /\ j[k].at = j[i].at
    /\ RetriesDue(j)
    /\ \A x, y \in Pending(j) : x = y

LEMMA RowsTyped ==
    ASSUME NEW j \in Seq(Event), NEW type \in {"started", "terminal"},
           NEW i \in Rows(j, type)
    PROVE  /\ i \in 1..Len(j) /\ i \in Nat /\ Len(j) \in Nat /\ i # Len(j) + 1
           /\ j[i].type = type /\ j[i].at \in Attempts
           /\ j[i].at = <<j[i].at[1], j[i].at[2]>>
           /\ j[i].at[1] \in Requests /\ j[i].at[2] \in 0..MaxRetries
<1>1. i \in 1..Len(j) /\ j[i].type = type /\ Len(j) \in Nat
  BY DEF Rows
<1>2. j[i] \in Event
  BY <1>1
<1>3. j[i].at \in Attempts
  BY <1>1, <1>2 DEF Event, TailRecovered
<1>4. QED BY <1>1, <1>3 DEF Attempts

\* What recovery would refuse is a retried 429 and nothing else.
LEMMA BooksAccepted ==
    ASSUME NEW j \in Seq(Event), Books(j)
    PROVE  JournalAccepted(j) \/ ThrottleRetried(j)
<1> SUFFICES ASSUME ~ThrottleRetried(j) PROVE JournalAccepted(j)
  OBVIOUS
<1> DEFINE S == Rows(j, "started")
           T == Rows(j, "terminal")
<1>1. ASSUME NEW i \in S, NEW k \in T, j[i].at[1] = j[k].at[1], j[k].at[2] < j[i].at[2]
      PROVE  Retryable(j[k].answer)
  <2>1. j[k].at[2] \in 0..(j[i].at[2] - 1) /\ j[k].at = <<j[i].at[1], j[k].at[2]>>
    <3>1. j[i].at[2] \in 0..MaxRetries /\ j[k].at[2] \in 0..MaxRetries
      BY RowsTyped
    <3>2. j[k].at = <<j[k].at[1], j[k].at[2]>>
      BY RowsTyped
    <3>3. QED BY <1>1, <3>1, <3>2, BudgetAssumption
  <2>2. PICK m \in T : j[m].at = j[k].at /\ Retryable(j[m].answer)
    <3>1. RetriesDue(j)
      BY DEF Books
    <3>2. QED BY <2>1, <3>1 DEF RetriesDue
  <2>3. m = k
    BY <2>2 DEF Books
  <2>4. QED BY <2>2, <2>3
<1>2. ASSUME NEW i \in S, NEW k \in T, k < i, j[i].at = <<j[k].at[1], j[k].at[2] + 1>>
      PROVE  ~ManualResumeRequired(j[k].answer)
  <2>1. Retryable(j[k].answer)
    <3>1. j[k].at[2] \in 0..MaxRetries
      BY RowsTyped
    <3>2. QED BY <1>1, <1>2, <3>1
  <2>2. j[k].answer.kind # "throttled"
    BY <1>2 DEF ThrottleRetried
  <2>3. QED BY <2>1, <2>2 DEF Retryable, ManualResumeRequired
<1>3. ASSUME NEW i \in S, NEW o \in 0..(j[i].at[2])
      PROVE  \E k \in S : j[k].at = <<j[i].at[1], o>>
  <2>1. CASE o = j[i].at[2]
    BY <2>1, RowsTyped
  <2>2. CASE o # j[i].at[2]
    <3>1. o \in 0..(j[i].at[2] - 1)
      <4>1. j[i].at[2] \in 0..MaxRetries
        BY RowsTyped
      <4>2. QED BY <2>2, <4>1, BudgetAssumption
    <3>2. PICK k \in T : j[k].at = <<j[i].at[1], o>>
      <4>1. RetriesDue(j)
        BY DEF Books
      <4>2. QED BY <3>1, <4>1 DEF RetriesDue
    <3>3. QED BY <3>2 DEF Books
  <2>3. QED BY <2>1, <2>2
<1>4. ASSUME NEW i \in S, NEW k \in T, Answered(j[k].answer), j[i].at[1] = j[k].at[1]
      PROVE  j[i].at[2] <= j[k].at[2]
  <2>1. ~Retryable(j[k].answer)
    BY <1>4 DEF Answered, Retryable
  <2>2. j[i].at[2] \in Nat /\ j[k].at[2] \in Nat
    BY RowsTyped
  <2>3. QED BY <1>1, <1>4, <2>1, <2>2
<1>5. QED BY <1>2, <1>3, <1>4 DEF JournalAccepted, Books

LEMMA BooksStarted ==
    ASSUME NEW j \in Seq(Event), NEW e \in Event, e.type = "started",
           Books(j), Pending(j) = {}, Higher(e.at, j), Retried(e.at, j)
    PROVE  Books(Append(j, e)) /\ Pending(Append(j, e)) = {e.at}
<1> DEFINE k == Append(j, e)
<1>1. /\ \A i \in 1..Len(j) : k[i] = j[i]
      /\ k[Len(j) + 1] = e
      /\ \A type : Rows(k, type) =
            Rows(j, type) \union (IF e.type = type THEN {Len(j) + 1} ELSE {})
  BY AppendedRows
<1>rows. /\ Rows(k, "started") = Rows(j, "started") \union {Len(j) + 1}
       /\ Rows(k, "terminal") = Rows(j, "terminal")
  BY <1>1
<1>2. Asked(k) = Asked(j) \union {e.at} /\ Ended(k) = Ended(j)
  BY AppendedAsked
<1> HIDE DEF k
<1>3. e.at \in Attempts
  BY DEF Event, TailRecovered
<1>4. e.at \notin Asked(j)
  BY <1>3 DEF Higher, Attempts
<1>5. e.at \notin Ended(j)
  <2>1. Ended(j) \subseteq Asked(j)
    <3>1. \A i \in Rows(j, "terminal") : \E m \in Rows(j, "started") : j[m].at = j[i].at
      BY DEF Books
    <3>2. QED BY <3>1 DEF Ended, Asked
  <2>2. QED BY <1>4, <2>1
<1>6. Pending(k) = {e.at}
  BY <1>2, <1>5, PendingIs
<1>7. \A i \in Rows(j, "started") : j[i].at # e.at
  BY <1>4 DEF Asked
<1>8. \A i \in Rows(j, "started") \union Rows(j, "terminal") :
         i \in 1..Len(j) /\ i < Len(j) + 1 /\ k[i] = j[i]
  BY <1>1 DEF Rows
<1>9. \A i, m \in Rows(k, "started") : k[i].at = k[m].at => i = m
  BY <1>1, <1>rows, <1>7, <1>8 DEF Books
<1>10. \A i, m \in Rows(k, "terminal") : k[i].at = k[m].at => i = m
  BY <1>rows, <1>8 DEF Books
<1>11. \A i \in Rows(k, "terminal") :
          \E m \in Rows(k, "started") : m < i /\ k[m].at = k[i].at
  BY <1>rows, <1>8 DEF Books
<1>12. ASSUME NEW i \in Rows(k, "started"), NEW o \in 0..(k[i].at[2] - 1)
       PROVE  \E m \in Rows(k, "terminal") :
                 m < i /\ k[m].at = <<k[i].at[1], o>> /\ Retryable(k[m].answer)
  <2>1. CASE i \in Rows(j, "started")
    <3>1. RetriesDue(j)
      BY DEF Books
    <3>2. QED BY <1>1, <1>rows, <1>8, <1>12, <2>1, <3>1 DEF RetriesDue
  <2>2. CASE i = Len(j) + 1
    BY <1>1, <1>rows, <1>8, <1>12, <2>2 DEF Retried
  <2>3. QED BY <1>rows, <2>1, <2>2
<1>13. Books(k)
  BY <1>6, <1>9, <1>10, <1>11, <1>12 DEF Books, RetriesDue
<1>14. QED BY <1>6, <1>13 DEF k

LEMMA BooksTerminal ==
    ASSUME NEW j \in Seq(Event), NEW e \in Event, e.type = "terminal",
           Books(j), e.at \in Pending(j)
    PROVE  Books(Append(j, e)) /\ Pending(Append(j, e)) = {}
<1> DEFINE k == Append(j, e)
<1>1. /\ \A i \in 1..Len(j) : k[i] = j[i]
      /\ k[Len(j) + 1] = e
      /\ \A type : Rows(k, type) =
            Rows(j, type) \union (IF e.type = type THEN {Len(j) + 1} ELSE {})
  BY AppendedRows
<1>rows. /\ Rows(k, "started") = Rows(j, "started")
       /\ Rows(k, "terminal") = Rows(j, "terminal") \union {Len(j) + 1}
  BY <1>1
<1>2. Asked(k) = Asked(j) /\ Ended(k) = Ended(j) \union {e.at}
  BY AppendedAsked
<1> HIDE DEF k
<1>3. e.at \in Asked(j) /\ e.at \notin Ended(j)
  BY PendingIs
<1>4. Pending(k) = {}
  BY <1>2, PendingIs DEF Books
<1>5. \A i \in Rows(j, "terminal") : j[i].at # e.at
  BY <1>3 DEF Ended
<1>6. \A i \in Rows(j, "started") \union Rows(j, "terminal") :
         i \in 1..Len(j) /\ i < Len(j) + 1 /\ k[i] = j[i]
  BY <1>1 DEF Rows
<1>7. \A i, m \in Rows(k, "started") : k[i].at = k[m].at => i = m
  BY <1>rows, <1>6 DEF Books
<1>8. \A i, m \in Rows(k, "terminal") : k[i].at = k[m].at => i = m
  BY <1>rows, <1>1, <1>5, <1>6 DEF Books
<1>9. ASSUME NEW i \in Rows(k, "terminal")
      PROVE  \E m \in Rows(k, "started") : m < i /\ k[m].at = k[i].at
  <2>1. CASE i \in Rows(j, "terminal")
    BY <1>rows, <1>1, <1>6, <2>1 DEF Books
  <2>2. CASE i = Len(j) + 1
    BY <1>rows, <1>1, <1>3, <1>6, <2>2 DEF Asked
  <2>3. QED BY <1>rows, <2>1, <2>2
<1>10. RetriesDue(k)
  <2>1. RetriesDue(j)
    BY DEF Books
  <2>2. SUFFICES ASSUME NEW i \in Rows(k, "started"), NEW o \in 0..(k[i].at[2] - 1)
               PROVE  \E m \in Rows(k, "terminal") :
                         m < i /\ k[m].at = <<k[i].at[1], o>> /\ Retryable(k[m].answer)
    BY DEF RetriesDue
  <2>3. i \in Rows(j, "started") /\ k[i] = j[i] /\ o \in 0..(j[i].at[2] - 1)
    BY <1>rows, <1>6
  <2>4. PICK m \in Rows(j, "terminal") :
           m < i /\ j[m].at = <<j[i].at[1], o>> /\ Retryable(j[m].answer)
    BY <2>1, <2>3 DEF RetriesDue
  <2>5. QED BY <1>rows, <1>6, <2>3, <2>4
<1>11. Books(k)
  BY <1>4, <1>7, <1>8, <1>9, <1>10 DEF Books
<1>12. QED BY <1>4, <1>11 DEF k

\* A row that ends nothing leaves everything that is said of requests.
LEMMA QuietRow ==
    ASSUME NEW j \in Seq(Event), NEW e \in Event, e.type # "terminal"
    PROVE  LET k == Append(j, e)
           IN /\ \A r : Latest(k, r) = Latest(j, r)
              /\ Count(k) = Count(j) /\ Usage(k) = Usage(j)
              /\ AllAnswered(k) = AllAnswered(j)
              /\ NextRequest(k) = NextRequest(j)
<1> DEFINE k == Append(j, e)
<1>1. /\ \A i \in 1..Len(j) : k[i] = j[i]
      /\ \A type : Rows(k, type) =
            Rows(j, type) \union (IF e.type = type THEN {Len(j) + 1} ELSE {})
  BY AppendedRows
<1>2. Rows(k, "terminal") = Rows(j, "terminal")
  BY <1>1
<1>3. \A i \in Rows(j, "terminal") : k[i] = j[i]
  BY <1>1 DEF Rows
<1> HIDE DEF k
<1>4. \A r : Terminals(k, r) = Terminals(j, r)
  BY <1>2, <1>3 DEF Terminals
<1>5. ASSUME NEW r PROVE Latest(k, r) = Latest(j, r)
  <2>1. CASE Terminals(j, r) = {}
    BY <1>4, <2>1 DEF Latest
  <2>2. CASE Terminals(j, r) # {}
    <3>1. /\ Terminals(j, r) \in SUBSET (1..Len(j)) /\ Len(j) \in Nat
          /\ Terminals(j, r) \subseteq Rows(j, "terminal")
      BY DEF Terminals, Rows
    <3>2. \E x \in Terminals(j, r) : \A y \in Terminals(j, r) : y <= x
      BY <2>2, <3>1, Largest
    <3> DEFINE m == CHOOSE x \in Terminals(j, r) : \A y \in Terminals(j, r) : y <= x
    <3>3. m \in Terminals(j, r)
      BY <3>2
    <3>4. Latest(j, r) = j[m] /\ Latest(k, r) = k[m]
      BY <1>4, <2>2 DEF Latest
    <3>5. QED BY <1>3, <3>1, <3>3, <3>4
  <2>3. QED BY <2>1, <2>2
<1>6. Count(k) = Count(j)
  BY <1>2 DEF Count
<1>7. {i \in Rows(k, "terminal") : Volume(k[i].answer) = 2}
         = {i \in Rows(j, "terminal") : Volume(j[i].answer) = 2}
  BY <1>2, <1>3
<1>8. \A r : Open(k, r) = Open(j, r)
  BY <1>5 DEF Open
<1>9. QED BY <1>5, <1>6, <1>7, <1>8 DEF Usage, AllAnswered, NextRequest, k

\* The row that ends an attempt is the latest of its request.
LEMMA LatestRow ==
    ASSUME NEW j \in Seq(Event), NEW e \in Event, e.type = "terminal"
    PROVE  LET k == Append(j, e)
           IN /\ e.at[1] \in Requests /\ Latest(k, e.at[1]) = e
              /\ \A r \in Requests : r # e.at[1] => Latest(k, r) = Latest(j, r)
              /\ Count(k) = Count(j) + 1
              /\ Count(j) \in Nat
<1> DEFINE k == Append(j, e)
<1>1. /\ \A i \in 1..Len(j) : k[i] = j[i]
      /\ k[Len(j) + 1] = e
      /\ \A type : Rows(k, type) =
            Rows(j, type) \union (IF e.type = type THEN {Len(j) + 1} ELSE {})
      /\ k \in Seq(Event) /\ Len(k) = Len(j) + 1
  BY AppendedRows
<1>2. Rows(k, "terminal") = Rows(j, "terminal") \union {Len(j) + 1}
  BY <1>1
<1>3. /\ Rows(j, "terminal") \subseteq 1..Len(j) /\ Len(j) \in Nat
      /\ \A i \in Rows(j, "terminal") : k[i] = j[i]
  BY <1>1 DEF Rows
<1> HIDE DEF k
<1>4. e.at[1] \in Requests
  BY DEF Event, TailRecovered, Attempts
<1>5. Latest(k, e.at[1]) = e
  <2>1. Len(j) + 1 \in Terminals(k, e.at[1])
    BY <1>1, <1>2 DEF Terminals
  <2>2. PICK i \in Terminals(k, e.at[1]) :
           Latest(k, e.at[1]) = k[i] /\ \A m \in Terminals(k, e.at[1]) : m <= i
    BY <1>1, <1>4, <2>1, LatestIsLast
  <2>3. i \in 1..(Len(j) + 1) /\ Len(j) + 1 <= i
    BY <1>1, <2>1, <2>2 DEF Terminals, Rows
  <2>4. i = Len(j) + 1
    BY <1>3, <2>3
  <2>5. QED BY <1>1, <2>2, <2>4
<1>6. ASSUME NEW r \in Requests, r # e.at[1]
      PROVE  Latest(k, r) = Latest(j, r)
  <2>1. Terminals(k, r) = Terminals(j, r)
    BY <1>1, <1>2, <1>3, <1>6 DEF Terminals
  <2>2. CASE Terminals(j, r) = {}
    BY <2>1, <2>2 DEF Latest
  <2>3. CASE Terminals(j, r) # {}
    <3>1. Terminals(j, r) \in SUBSET (1..Len(j)) /\ Terminals(j, r) \subseteq Rows(j, "terminal")
      BY <1>3 DEF Terminals
    <3>2. \E x \in Terminals(j, r) : \A y \in Terminals(j, r) : y <= x
      BY <1>3, <2>3, <3>1, Largest
    <3> DEFINE m == CHOOSE x \in Terminals(j, r) : \A y \in Terminals(j, r) : y <= x
    <3>3. m \in Terminals(j, r)
      BY <3>2
    <3>4. Latest(j, r) = j[m] /\ Latest(k, r) = k[m]
      BY <2>1, <2>3 DEF Latest
    <3>5. QED BY <1>3, <3>1, <3>3, <3>4
  <2>4. QED BY <2>2, <2>3
<1>7. Count(k) = Count(j) + 1 /\ Count(j) \in Nat
  <2>1. IsFiniteSet(Rows(j, "terminal"))
    <3>1. IsFiniteSet(1..Len(j))
      BY <1>3, FS_Interval
    <3>2. QED BY <1>3, <3>1, FS_Subset
  <2>2. Len(j) + 1 \notin Rows(j, "terminal")
    BY <1>3
  <2>3. QED BY <1>2, <2>1, <2>2, FS_AddElement, FS_CardinalityType DEF Count
<1>8. QED BY <1>4, <1>5, <1>6, <1>7 DEF k

\* The request that is asked next is the first without an answer.
LEMMA NextRequestIsFirst ==
    ASSUME NEW j, ~AllAnswered(j)
    PROVE  /\ NextRequest(j) \in Requests
           /\ Open(j, NextRequest(j))
           /\ \A q \in Requests : Open(j, q) => NextRequest(j) <= q
<1> DEFINE T == {r \in Requests : Open(j, r)}
<1>1. T \in SUBSET Nat /\ T # {}
  BY BudgetAssumption DEF AllAnswered, Requests
<1>2. \E r \in T : \A q \in T : r <= q
  BY <1>1, Smallest
<1>3. \E r \in Requests : Open(j, r) /\ \A q \in Requests : Open(j, q) => r <= q
  BY <1>2
<1>4. QED BY <1>3 DEF NextRequest

LEMMA FirstIsNextRequest ==
    ASSUME NEW j, NEW r \in Requests, Open(j, r), \A q \in 1..(r - 1) : ~Open(j, q)
    PROVE  ~AllAnswered(j) /\ NextRequest(j) = r
<1>1. ~AllAnswered(j)
  BY DEF AllAnswered
<1>2. /\ NextRequest(j) \in Requests /\ Open(j, NextRequest(j)) /\ NextRequest(j) <= r
  BY <1>1, NextRequestIsFirst
<1>3. NextRequest(j) \notin 1..(r - 1)
  BY <1>2
<1>4. NextRequest(j) = r
  BY <1>2, <1>3, BudgetAssumption DEF Requests
<1>5. QED BY <1>1, <1>4

\* What Walk asks next is due.
LEMMA NextAttemptIsDue ==
    ASSUME NEW j \in Seq(Event), NEW r \in Requests, Books(j), Pending(j) = {},
           ~Answered(Latest(j, r).answer), ~Spent(Latest(j, r))
    PROVE  Retried(NextAttempt(j, r), j)
<1>1. CASE Latest(j, r) = Unasked
  BY <1>1 DEF NextAttempt, Retried
<1>2. CASE Latest(j, r) # Unasked
  <2>1. PICK m \in Rows(j, "terminal") : Latest(j, r) = j[m] /\ j[m].at[1] = r
    <3>1. Terminals(j, r) # {}
      BY <1>2 DEF Latest
    <3>2. QED BY <3>1, LatestIsLast DEF Terminals
  <2>2. Retryable(j[m].answer)
    BY <2>1, RowsTyped DEF Spent
  <2>3. PICK i \in Rows(j, "started") : j[i].at = j[m].at
    BY DEF Books
  <2>4. /\ j[m].at = <<r, j[m].at[2]>> /\ j[m].at[2] \in Nat
        /\ NextAttempt(j, r) = <<r, j[m].at[2] + 1>>
    <3>1. j[m].at = <<j[m].at[1], j[m].at[2]>> /\ j[m].at[2] \in 0..MaxRetries
      BY RowsTyped
    <3>2. QED BY <1>2, <2>1, <3>1 DEF NextAttempt
  <2>5. SUFFICES ASSUME NEW o \in 0..(j[m].at[2])
                 PROVE  \E k \in Rows(j, "terminal") :
                           j[k].at = <<r, o>> /\ Retryable(j[k].answer)
    <3>1. NextAttempt(j, r)[1] = r /\ NextAttempt(j, r)[2] - 1 = j[m].at[2]
      BY <2>4
    <3>2. QED BY <2>5, <3>1 DEF Retried
  <2>6. CASE o = j[m].at[2]
    BY <2>2, <2>4, <2>6
  <2>7. CASE o # j[m].at[2]
    <3>1. o \in 0..(j[i].at[2] - 1) /\ j[i].at[1] = r
      BY <2>1, <2>3, <2>4, <2>7
    <3>2. RetriesDue(j)
      BY DEF Books
    <3>3. QED BY <3>1, <3>2 DEF RetriesDue
  <2>8. QED BY <2>6, <2>7
<1>3. QED BY <1>1, <1>2

-----------------------------------------------------------------------------
(* The invariant *)

\* Journal, raw envelopes and provider agree.
Filed(a) ==
    /\ \A i \in Rows(journal[a], "terminal") :
          raw[a][journal[a][i].at] = journal[a][i].answer
    /\ \A x \in Attempts : raw[a][x] # NoAnswer => x \in Asked(journal[a])
    /\ \A x \in Attempts : Answered(raw[a][x]) => sent[a][x] # 0

Budgeted(j) ==
    Count(j) <= MaxRequests /\ (Pending(j) # {} => Count(j) < MaxRequests)

\* The pauses that no later call remembers.
Excused(a) == refused[a] \/ \E x \in Attempts : raw[a][x].big

\* Those it finds again.
GivenUp(j) == ~AllAnswered(j) /\ Spent(Latest(j, NextRequest(j)))
Blocked(a) ==
    /\ Pending(journal[a]) = {}
    /\ breaker \/ Exceeded(journal[a], MaxRequests - 1) \/ GivenUp(journal[a])

Shut(a) ==
    tail[a] = "whole" /\ AllAnswered(journal[a]) /\ Pending(journal[a]) = {}

Activity(a) ==
    /\ Books(journal[a])
    /\ Filed(a)
    /\ Budgeted(journal[a])
    /\ place[a] = "absent" => ~paused[a]
    /\ paused[a] => Excused(a) \/ Blocked(a)
    /\ place[a] \in {"prepared", "open", "published"} => Shut(a)
    /\ IsPublished(a) => Valid(a)

\* Where the activity's directory is run_root, with contract and plan.
Working == PCs \ {"idle", "locking", "entering", "identifying", "publishing",
                  "sealing", "pointing"}
InAttempt == {"starting", "sending", "writing", "terminating"}

Placed(p) ==
    LET a == act[p]
        here == pc[p]
    IN /\ here = "identifying" => place[a] = "made"
       /\ here \in Working => place[a] = "run"
       /\ here = "publishing" => place[a] = "prepared"
       /\ here = "sealing" => place[a] = "open"
       /\ here = "pointing" => place[a] = "published"
       /\ here \in Working \ {"repairing"} => tail[a] = "whole"

\* The attempt is the one that is due, and has come as far as the label says.
AttemptDue(p) ==
    LET a == act[p]
        x == at[p]
        j == journal[a]
        here == pc[p]
    IN /\ here \in {"checking", "starting"} => Retried(x, j)
       /\ here \in {"checking"} \union InAttempt => \A q \in 1..(x[1] - 1) : ~Open(j, q)
       /\ here \in {"rebuilding", "sending", "writing"} => raw[a][x] = NoAnswer
       /\ here \in {"sending", "writing", "terminating"} => x \in Pending(j)
       /\ here \in {"writing", "terminating"} => sent[a][x] # 0
       /\ here = "terminating" => raw[a][x] = answer[p]

\* Nobody goes on in an activity that is blocked, and who gives up says why.
Entitled(p) ==
    LET a == act[p]
        j == journal[a]
        here == pc[p]
    IN /\ here \in {"starting", "sending"} => ~Exceeded(j, MaxRequests - 1)
       /\ here \in InAttempt /\ paused[a] => Excused(a)
       /\ here = "checking" /\ paused[a] =>
             Excused(a) \/ breaker \/ Exceeded(j, MaxRequests - 1)
       /\ here = "tripping" => Pending(j) = {}
       /\ here = "pausing" => Excused(a) \/ Blocked(a)
       /\ here \in {"manifesting", "preparing"} => AllAnswered(j) /\ Pending(j) = {}

Process(p) == Placed(p) /\ AttemptDue(p) /\ Entitled(p)

Kept ==
    /\ \A a \in Activities : Activity(a)
    /\ \A p \in Procs : Inside(p) => Process(p)

\* What a step of a process leaves to the others.
Apart(p) ==
    /\ \A b \in Activities : b # act[p] =>
          /\ place'[b] = place[b] /\ journal'[b] = journal[b] /\ tail'[b] = tail[b]
          /\ raw'[b] = raw[b] /\ litter'[b] = litter[b] /\ refused'[b] = refused[b]
          /\ paused'[b] = paused[b] /\ sent'[b] = sent[b]
    /\ \A q \in Procs : q # p =>
          /\ pc'[q] = pc[q] /\ act'[q] = act[q] /\ at'[q] = at[q]
          /\ answer'[q] = answer[q]
    /\ breaker => breaker'

\* The flock keeps them out of its activity, so they keep what they know.
LEMMA Elsewhere ==
    ASSUME Typing, Once, Kept, NEW p \in Procs, Inside(p), Apart(p),
           NEW a \in Activities, a = act[p],
           Activity(a)', Inside(p)' => Process(p)'
    PROVE  Kept'
<1>1. ASSUME NEW b \in Activities, b # a
      PROVE  Activity(b)'
  <2>1. /\ place'[b] = place[b] /\ journal'[b] = journal[b] /\ tail'[b] = tail[b]
        /\ raw'[b] = raw[b] /\ litter'[b] = litter[b] /\ refused'[b] = refused[b]
        /\ paused'[b] = paused[b] /\ sent'[b] = sent[b]
        /\ breaker => breaker'
    BY <1>1 DEF Apart
  <2>2. Activity(b)
    BY DEF Kept
  <2>3. Filed(b)' = Filed(b)
    BY <2>1 DEF Filed
  <2>4. Valid(b)' = Valid(b)
    BY <2>1 DEF Valid
  <2>5. Excused(b)' = Excused(b) /\ Shut(b)' = Shut(b) /\ (Blocked(b) => Blocked(b)')
    BY <2>1 DEF Excused, Shut, Blocked
  <2>6. QED BY <2>1, <2>2, <2>3, <2>4, <2>5 DEF Activity, IsPublished
<1>2. ASSUME NEW q \in Procs, q # p, Inside(q)'
      PROVE  Process(q)'
  <2>1. /\ pc'[q] = pc[q] /\ act'[q] = act[q] /\ at'[q] = at[q]
        /\ answer'[q] = answer[q]
    BY <1>2 DEF Apart
  <2>2. Inside(q) /\ act[q] \in Activities
    BY <1>2, <2>1 DEF Inside, Typing, Where
  <2>3. act[q] # a
    BY <1>2, <2>2 DEF Once
  <2>4. /\ place'[act[q]] = place[act[q]] /\ journal'[act[q]] = journal[act[q]]
        /\ tail'[act[q]] = tail[act[q]] /\ raw'[act[q]] = raw[act[q]]
        /\ refused'[act[q]] = refused[act[q]] /\ paused'[act[q]] = paused[act[q]]
        /\ sent'[act[q]] = sent[act[q]]
    BY <2>2, <2>3 DEF Apart
  <2>5. Process(q)
    BY <2>2 DEF Kept
  <2>6. Placed(q)'
    BY <2>1, <2>4, <2>5 DEF Process, Placed
  <2>7. AttemptDue(q)'
    BY <2>1, <2>4, <2>5 DEF Process, AttemptDue
  <2>8. Entitled(q)'
    BY <2>1, <2>4, <2>5 DEF Process, Entitled, Excused, Blocked, Apart
  <2>9. QED BY <2>6, <2>7, <2>8 DEF Process
<1>3. QED BY <1>1, <1>2 DEF Kept

\* In particular when it changes nothing on disk.
LEMMA DiskKept ==
    ASSUME Typing, Once, Kept, NEW p \in Procs, Inside(p), Apart(p),
           UNCHANGED <<place, journal, tail, raw, litter, refused, paused, sent>>,
           Inside(p)' => Process(p)'
    PROVE  Kept'
<1>1. act[p] \in Activities
  BY DEF Inside, Typing, Where
<1>2. PICK b \in Activities : b = act[p]
  BY <1>1
<1>3. Activity(b)
  BY DEF Kept
<1>4. Activity(b)'
  BY <1>3 DEF Apart, Activity, Filed, Excused, Blocked, Shut, Valid, IsPublished
<1>5. QED BY <1>2, <1>4, Elsewhere

LEMMA OutsideKept ==
    ASSUME Kept, UNCHANGED <<place, journal, tail, raw, litter, refused, paused, sent, breaker>>,
           \A q \in Procs : Inside(q)' =>
              \/ pc'[q] = "entering"
              \/ /\ Inside(q) /\ pc'[q] = pc[q] /\ act'[q] = act[q] /\ at'[q] = at[q]
                 /\ answer'[q] = answer[q]
    PROVE  Kept'
<1>1. ASSUME NEW b \in Activities PROVE Activity(b)'
  <2>1. Activity(b)
    BY DEF Kept
  <2>2. QED BY <2>1 DEF Activity, Filed, Excused, Blocked, Shut, Valid, IsPublished
<1>2. ASSUME NEW q \in Procs, Inside(q)' PROVE Process(q)'
  <2>1. CASE pc'[q] = "entering"
    BY <2>1 DEF Process, Placed, AttemptDue, Entitled, Working, InAttempt
  <2>2. CASE /\ Inside(q) /\ pc'[q] = pc[q] /\ act'[q] = act[q] /\ at'[q] = at[q]
             /\ answer'[q] = answer[q]
    <3>1. Process(q)
      BY <2>2 DEF Kept
    <3>2. Placed(q)'
      BY <2>2, <3>1 DEF Process, Placed
    <3>3. AttemptDue(q)'
      BY <2>2, <3>1 DEF Process, AttemptDue
    <3>4. Entitled(q)'
      BY <2>2, <3>1 DEF Process, Entitled, Excused, Blocked
    <3>5. QED BY <3>2, <3>3, <3>4 DEF Process
  <2>3. QED BY <1>2, <2>1, <2>2
<1>3. QED BY <1>1, <1>2 DEF Kept

LEMMA CountTyped ==
    ASSUME NEW j \in Seq(Event)
    PROVE  Count(j) \in Nat
<1>1. Rows(j, "terminal") \in SUBSET (1..Len(j)) /\ Len(j) \in Nat
  BY DEF Rows
<1>2. IsFiniteSet(1..Len(j))
  BY <1>1, FS_Interval
<1>3. IsFiniteSet(Rows(j, "terminal"))
  BY <1>1, <1>2, FS_Subset
<1>4. QED BY <1>3, FS_CardinalityType DEF Count

LEMMA BooksNote ==
    ASSUME NEW j \in Seq(Event), Books(j)
    PROVE  Books(Append(j, TailRecovered)) /\ Pending(Append(j, TailRecovered)) = Pending(j)
<1> DEFINE k == Append(j, TailRecovered)
<1>1. TailRecovered \in Event /\ TailRecovered.type = "tail_recovered"
  BY DEF Event, TailRecovered
<1>2. /\ \A i \in 1..Len(j) : k[i] = j[i]
      /\ \A type : Rows(k, type) =
            Rows(j, type) \union (IF TailRecovered.type = type THEN {Len(j) + 1} ELSE {})
  BY <1>1, AppendedRows
<1>3. Asked(k) = Asked(j) /\ Ended(k) = Ended(j)
  BY <1>1, AppendedAsked
<1> HIDE DEF k
<1>4. Rows(k, "started") = Rows(j, "started") /\ Rows(k, "terminal") = Rows(j, "terminal")
  BY <1>1, <1>2
<1>5. \A i \in Rows(j, "started") \union Rows(j, "terminal") : k[i] = j[i]
  BY <1>2 DEF Rows
<1>6. Pending(k) = Pending(j)
  BY <1>3, PendingIs
<1>7. RetriesDue(k)
  <2>1. RetriesDue(j)
    BY DEF Books
  <2>2. SUFFICES ASSUME NEW i \in Rows(k, "started"), NEW o \in 0..(k[i].at[2] - 1)
               PROVE  \E m \in Rows(k, "terminal") :
                         m < i /\ k[m].at = <<k[i].at[1], o>> /\ Retryable(k[m].answer)
    BY DEF RetriesDue
  <2>3. i \in Rows(j, "started") /\ k[i] = j[i] /\ o \in 0..(j[i].at[2] - 1)
    BY <1>4, <1>5
  <2>4. PICK m \in Rows(j, "terminal") :
           m < i /\ j[m].at = <<j[i].at[1], o>> /\ Retryable(j[m].answer)
    BY <2>1, <2>3 DEF RetriesDue
  <2>5. QED BY <1>4, <1>5, <2>3, <2>4
<1>8. QED BY <1>4, <1>5, <1>6, <1>7 DEF Books, k

-----------------------------------------------------------------------------
(* Steps *)

\* What Once and Kept say of a process in its activity.
LEMMA Here ==
    ASSUME Typing, Once, Kept, NEW p \in Procs, Inside(p),
           NEW a \in Activities, a = act[p]
    PROVE  /\ Activity(a) /\ Process(p) /\ Fits(pc[p], at[p], journal[a], sent[a])
           /\ journal[a] \in Seq(Event) /\ Ordered(journal[a])
           /\ raw[a] \in [Attempts -> AllAnswers \union {NoAnswer}]
           /\ sent[a] \in [Attempts -> Nat]
BY DEF Typing, TypeOK, Once, Kept

\* The rows, whether their process goes on or is killed.
LEMMA RowKept ==
    ASSUME Typing, Once, Kept, NEW p \in Procs, pc[p] \in Appending,
           NEW a \in Activities, a = act[p],
           journal' = [journal EXCEPT ![a] = Append(journal[a], Row(p))],
           UNCHANGED <<place, raw, litter, refused, paused, sent, breaker>>
    PROVE  /\ Activity(a)'
           /\ pc[p] = "starting" => Pending(journal'[a]) = {at[p]}
           /\ pc[p] \in {"closing", "terminating"} => Pending(journal'[a]) = {}
<1> DEFINE j == journal[a]
           k == Append(j, Row(p))
           T == Rows(j, "terminal")
<1>1. /\ Activity(a) /\ Placed(p) /\ AttemptDue(p) /\ Entitled(p)
      /\ Fits(pc[p], at[p], j, sent[a])
      /\ j \in Seq(Event) /\ journal'[a] = k
      /\ raw[a] \in [Attempts -> AllAnswers \union {NoAnswer}]
  BY Here DEF Inside, Appending, Process, Typing, TypeOK
<1>2. Row(p) \in Event
  BY RowTyped
<1>3. Inside(p) /\ place[a] = "run"
  BY <1>1 DEF Placed, Working, PCs, Appending, Inside
<1>4. Books(j) /\ Filed(a) /\ Budgeted(j) /\ (paused[a] => Excused(a) \/ Blocked(a))
  BY <1>1 DEF Activity
<1>5. SUFFICES ASSUME TRUE
               PROVE  /\ Books(k) /\ Filed(a)' /\ Budgeted(k)
                      /\ paused[a] => Excused(a) \/ Blocked(a)'
                      /\ pc[p] = "starting" => Pending(k) = {at[p]}
                      /\ pc[p] \in {"closing", "terminating"} => Pending(k) = {}
  <2>1. Excused(a)' = Excused(a)
    BY DEF Excused
  <2> HIDE DEF k, j
  <2>2. QED BY <1>1, <1>3, <1>5, <2>1 DEF Activity, IsPublished
<1>6. Count(j) \in Nat /\ MaxRequests \in Nat
  BY <1>1, CountTyped, BudgetAssumption
<1>7. /\ \A i \in 1..Len(j) : k[i] = j[i]
      /\ k[Len(j) + 1] = Row(p)
      /\ \A type : Rows(k, type) =
            Rows(j, type) \union (IF Row(p).type = type THEN {Len(j) + 1} ELSE {})
  BY <1>1, <1>2, AppendedRows
<1>8. \A i \in T : k[i] = j[i]
  BY <1>7 DEF Rows
<1>9. Asked(j) \subseteq Asked(k)
  BY <1>1, <1>2, AppendedAsked
<1>10. CASE pc[p] \in {"noting", "starting"}
  <2>1. Row(p).type # "terminal"
    BY <1>10 DEF Row, TailRecovered
  <2>2. /\ \A r : Latest(k, r) = Latest(j, r)
        /\ Count(k) = Count(j) /\ Usage(k) = Usage(j)
        /\ AllAnswered(k) = AllAnswered(j)
        /\ NextRequest(k) = NextRequest(j)
    BY <1>1, <1>2, <2>1, QuietRow
  <2>3. Rows(k, "terminal") = T
    <3>1. Rows(k, "terminal") =
             T \union (IF Row(p).type = "terminal" THEN {Len(j) + 1} ELSE {})
      BY <1>7
    <3> HIDE DEF k, j
    <3>2. QED BY <2>1, <3>1
  <2>4. Filed(a)'
    <3> HIDE DEF k, j
    <3>1. QED BY <1>1, <1>4, <1>8, <1>9, <2>3 DEF Filed, j
  <2>5. CASE pc[p] = "noting"
    <3>1. Row(p) = TailRecovered
      BY <2>5 DEF Row
    <3>2. Books(k) /\ Pending(k) = Pending(j)
      BY <1>1, <1>4, <3>1, BooksNote
    <3> HIDE DEF k
    <3>3. Budgeted(k)
      BY <1>4, <2>2, <3>2 DEF Budgeted
    <3>4. Blocked(a) => Blocked(a)'
      BY <1>1, <2>2, <3>2 DEF Blocked, Exceeded, GivenUp
    <3>5. QED BY <1>4, <2>4, <2>5, <3>2, <3>3, <3>4
  <2>6. CASE pc[p] = "starting"
    <3>1. Row(p).type = "started" /\ Row(p).at = at[p]
      BY <2>6 DEF Row
    <3>2. Pending(j) = {} /\ Higher(at[p], j) /\ Retried(at[p], j)
      BY <1>1, <2>6 DEF Fits, AttemptDue
    <3>3. Books(k) /\ Pending(k) = {at[p]}
      BY <1>1, <1>2, <1>4, <3>1, <3>2, BooksStarted
    <3>4. Count(j) < MaxRequests /\ (paused[a] => Excused(a))
      BY <1>1, <1>6, <2>6 DEF Entitled, Exceeded, InAttempt
    <3> HIDE DEF k, j
    <3>5. Budgeted(k)
      BY <1>6, <2>2, <3>4 DEF Budgeted
    <3>6. QED BY <2>4, <2>6, <3>3, <3>4, <3>5
  <2>7. QED BY <1>10, <2>5, <2>6
<1>11. CASE pc[p] \in {"closing", "terminating"}
  <2>1. Row(p).type = "terminal" /\ Row(p).at = at[p] /\ Row(p).answer = raw[a][at[p]]
    BY <1>11 DEF Row
  <2>2. at[p] \in Pending(j)
    BY <1>1, <1>11 DEF Fits, AttemptDue
  <2>3. Books(k) /\ Pending(k) = {}
    BY <1>1, <1>2, <1>4, <2>1, <2>2, BooksTerminal
  <2>4. Count(k) = Count(j) + 1
    BY <1>1, <1>2, <2>1, LatestRow
  <2>5. Count(j) < MaxRequests
    BY <1>4, <2>2 DEF Budgeted
  <2>6. paused[a] => Excused(a)
    BY <1>4, <2>2 DEF Blocked
  <2>7. Rows(k, "terminal") = T \union {Len(j) + 1}
    BY <1>7, <2>1
  <2> HIDE DEF k
  <2>8. Budgeted(k)
    BY <1>6, <2>3, <2>4, <2>5 DEF Budgeted
  <2>9. Filed(a)'
    <3>1. \A i \in Rows(k, "terminal") : raw[a][k[i].at] = k[i].answer
      <4>1. \A i \in T : raw[a][j[i].at] = j[i].answer
        BY <1>4 DEF Filed
      <4> HIDE DEF j
      <4>2. QED BY <1>7, <1>8, <2>1, <2>7, <4>1
    <3>2. \A x \in Attempts : raw[a][x] # NoAnswer => x \in Asked(k)
      BY <1>4, <1>9 DEF Filed
    <3>3. QED BY <1>1, <1>4, <3>1, <3>2 DEF Filed
  <2>10. QED BY <1>11, <2>3, <2>6, <2>8, <2>9
<1>12. QED BY <1>10, <1>11 DEF Appending

\* A step that leaves the disk as it is, and whose process knows what it must.
LEMMA MoveKept ==
    ASSUME Typing, Once, Kept, NEW p \in Procs, Inside(p), NEW to,
           Goto(p, to), act' = act, answer' = answer,
           \A q \in Procs : q # p => at'[q] = at[q],
           UNCHANGED <<place, journal, tail, raw, litter, refused, paused, sent, breaker>>,
           Process(p)'
    PROVE  Kept'
<1>1. \A q \in Procs : q # p => pc'[q] = pc[q]
  BY DEF Goto, Typing, TypeOK
<1>2. Apart(p)
  BY <1>1 DEF Apart
<1>3. QED BY <1>2, DiskKept

LEMMA OpenKept ==
    ASSUME Typing, Once, Kept, NEW p \in Procs,
           OpenDirectory(p) \/ ResumePublication(p) \/ Validate(p) \/ Recovered(p)
              \/ Complete(p) \/ WriteManifest(p)
    PROVE  Kept'
<1>1. Inside(p) /\ act[p] \in Activities
  BY DEF OpenDirectory, ResumePublication, Validate, Recovered, Complete, WriteManifest,
         Inside, Typing, Where
<1>2. PICK a \in Activities : a = act[p]
  BY <1>1
<1>3. /\ Placed(p) /\ Entitled(p)
      /\ pc[p] = "walking" => Pending(journal[a]) = {}
  BY <1>1, <1>2, Here DEF Process, Fits
<1>4. /\ act' = act /\ at' = at /\ answer' = answer
      /\ UNCHANGED <<place, journal, tail, raw, litter, refused, paused, sent, breaker>>
  BY DEF OpenDirectory, ResumePublication, Validate, Recovered, Complete, WriteManifest,
         disk, seen
<1>5. PICK to \in {"identifying", "repairing", "publishing", "recovering", "walking",
                   "manifesting", "preparing"} : Goto(p, to)
  BY DEF OpenDirectory, ResumePublication, Validate, Recovered, Complete, WriteManifest
<1>6. pc'[p] = to
  BY <1>5 DEF Goto, Typing, TypeOK
<1>7. Placed(p)'
  <2>1. /\ to = "identifying" => place[a] = "made"
        /\ to = "publishing" => place[a] = "prepared"
        /\ to \notin {"identifying", "publishing"} => place[a] = "run"
        /\ to \notin {"identifying", "publishing", "repairing"} => tail[a] = "whole"
    BY <1>2, <1>3, <1>6 DEF OpenDirectory, ResumePublication, Validate, Recovered, Complete,
       WriteManifest, Placed, Working, PCs, Goto, Typing, TypeOK
  <2>2. QED BY <1>2, <1>4, <1>5, <1>6, <2>1 DEF Placed, Working, PCs
<1>8. AttemptDue(p)'
  BY <1>5, <1>6 DEF AttemptDue, InAttempt
<1>9. Entitled(p)'
  <2>1. to \in {"manifesting", "preparing"} =>
           AllAnswered(journal[a]) /\ Pending(journal[a]) = {}
    BY <1>2, <1>3, <1>6 DEF OpenDirectory, ResumePublication, Validate, Recovered, Complete,
       WriteManifest, Entitled, Goto, Typing, TypeOK
  <2>2. QED BY <1>2, <1>4, <1>5, <1>6, <2>1 DEF Entitled, InAttempt
<1>10. QED BY <1>1, <1>4, <1>5, <1>7, <1>8, <1>9, MoveKept DEF Process

LEMMA RecoverKept ==
    ASSUME Typing, Once, Kept, NEW p \in Procs, Recover(p)
    PROVE  Kept'
<1>1. Inside(p) /\ act[p] \in Activities
  BY DEF Recover, Inside, Typing, Where
<1>2. PICK a \in Activities : a = act[p]
  BY <1>1
<1>3. Placed(p)
  BY <1>1, <1>2, Here DEF Process
<1>4. PICK x \in Pending(journal[a]) :
         /\ at' = [at EXCEPT ![p] = x]
         /\ Goto(p, IF raw[a][x] = NoAnswer THEN "rebuilding" ELSE "closing")
  BY <1>2 DEF Recover
<1>5. PICK to \in {"rebuilding", "closing"} :
         Goto(p, to) /\ (to = "rebuilding" => raw[a][x] = NoAnswer)
  BY <1>4
<1>6. pc'[p] = to /\ at'[p] = x
  BY <1>4, <1>5 DEF Goto, Typing, TypeOK
<1>7. /\ act' = act /\ answer' = answer
      /\ UNCHANGED <<place, journal, tail, raw, litter, refused, paused, sent, breaker>>
  BY DEF Recover, disk, seen
<1>8. Placed(p)'
  BY <1>3, <1>5, <1>6, <1>7 DEF Recover, Placed, Working, PCs
<1>9. AttemptDue(p)'
  BY <1>2, <1>5, <1>6, <1>7 DEF AttemptDue, InAttempt
<1>10. Entitled(p)'
  BY <1>5, <1>6 DEF Entitled, InAttempt
<1>11. \A q \in Procs : q # p => at'[q] = at[q]
  BY <1>4 DEF Typing, TypeOK
<1>12. QED BY <1>1, <1>5, <1>7, <1>8, <1>9, <1>10, <1>11, MoveKept DEF Process

\* Nobody goes on to a request of an activity that is blocked.
LEMMA WalkKept ==
    ASSUME Typing, Once, Kept, NEW p \in Procs, Walk(p)
    PROVE  Kept'
<1>1. Inside(p) /\ act[p] \in Activities /\ pc[p] = "walking"
  BY DEF Walk, Inside, Typing, Where
<1>2. PICK a \in Activities : a = act[p]
  BY <1>1
<1> DEFINE j == journal[a]
           r == NextRequest(j)
<1>3. /\ Placed(p) /\ Activity(a) /\ Pending(j) = {} /\ j \in Seq(Event)
  BY <1>1, <1>2, Here DEF Process, Fits
<1>4. Books(j) /\ (paused[a] => Excused(a) \/ Blocked(a))
  BY <1>3 DEF Activity
<1>5. /\ act' = act /\ answer' = answer
      /\ UNCHANGED <<place, journal, tail, raw, litter, refused, paused, sent, breaker>>
  BY DEF Walk, disk, seen
<1>6. ~AllAnswered(j)
  BY <1>2 DEF Walk
<1>7. /\ r \in Requests /\ Open(j, r)
      /\ \A q \in Requests : Open(j, q) => r <= q
  BY <1>6, NextRequestIsFirst
<1>8. Excused(a)' = Excused(a) /\ (Blocked(a) => Blocked(a)')
  BY <1>5 DEF Excused, Blocked
<1>9. CASE Spent(Latest(j, r))
  <2>1. Goto(p, "pausing") /\ at' = at
    BY <1>2, <1>9 DEF Walk
  <2>2. pc'[p] = "pausing"
    BY <2>1 DEF Goto, Typing, TypeOK
  <2>3. Placed(p)'
    BY <1>1, <1>3, <1>5, <2>2 DEF Placed, Working, PCs
  <2>4. AttemptDue(p)'
    BY <2>2 DEF AttemptDue, InAttempt
  <2>5. Blocked(a)
    BY <1>3, <1>6, <1>9 DEF Blocked, GivenUp
  <2>6. Entitled(p)'
    BY <1>2, <1>5, <1>8, <2>2, <2>5 DEF Entitled, InAttempt
  <2>7. QED BY <1>1, <1>5, <2>1, <2>3, <2>4, <2>6, MoveKept DEF Process
<1>10. CASE ~Spent(Latest(j, r))
  <2>1. Goto(p, "checking") /\ at' = [at EXCEPT ![p] = NextAttempt(j, r)]
    BY <1>2, <1>10 DEF Walk, NextAttempt
  <2>2. pc'[p] = "checking" /\ at'[p] = NextAttempt(j, r)
    BY <2>1 DEF Goto, Typing, TypeOK
  <2>3. Placed(p)'
    BY <1>1, <1>3, <1>5, <2>2 DEF Placed, Working, PCs
  <2>4. Retried(NextAttempt(j, r), j)
    BY <1>3, <1>4, <1>7, <1>10, NextAttemptIsDue DEF Open
  <2>5. \A q \in 1..(NextAttempt(j, r)[1] - 1) : ~Open(j, q)
    <3>1. NextAttempt(j, r)[1] = r
      BY DEF NextAttempt
    <3>2. \A q \in 1..(r - 1) : q \in Requests /\ ~(r <= q)
      BY <1>7, BudgetAssumption DEF Requests
    <3>3. QED BY <1>7, <3>1, <3>2
  <2>6. AttemptDue(p)'
    BY <1>2, <1>5, <2>2, <2>4, <2>5 DEF AttemptDue, InAttempt
  <2>7. paused[a] => Excused(a) \/ breaker \/ Exceeded(j, MaxRequests - 1)
    BY <1>4, <1>10 DEF Blocked, GivenUp
  <2>8. Entitled(p)'
    BY <1>2, <1>5, <1>8, <2>2, <2>7 DEF Entitled, InAttempt
  <2>9. \A q \in Procs : q # p => at'[q] = at[q]
    BY <2>1 DEF Typing, TypeOK
  <2>10. QED BY <1>1, <1>5, <2>1, <2>3, <2>6, <2>8, <2>9, MoveKept DEF Process
<1>11. QED BY <1>9, <1>10

LEMMA CheckKept ==
    ASSUME Typing, Once, Kept, NEW p \in Procs, Check(p)
    PROVE  Kept'
<1>1. Inside(p) /\ act[p] \in Activities /\ pc[p] = "checking" /\ ~breaker
  BY DEF Check, Inside, Typing, Where
<1>2. PICK a \in Activities : a = act[p]
  BY <1>1
<1> DEFINE j == journal[a]
           over == Exceeded(j, MaxRequests - 1)
           to == IF over THEN "pausing" ELSE "starting"
<1>3. Placed(p) /\ AttemptDue(p) /\ Entitled(p) /\ Pending(j) = {}
  BY <1>1, <1>2, Here DEF Process, Fits
<1>4. /\ act' = act /\ at' = at /\ answer' = answer /\ Goto(p, to)
      /\ UNCHANGED <<place, journal, tail, raw, litter, refused, paused, sent, breaker>>
  BY <1>2 DEF Check, disk, seen
<1>5. pc'[p] = to
  BY <1>4 DEF Goto, Typing, TypeOK
<1>6. Excused(a)' = Excused(a)
  BY <1>4 DEF Excused
<1>7. Placed(p)'
  BY <1>1, <1>3, <1>4, <1>5 DEF Placed, Working, PCs
<1>8. AttemptDue(p)'
  BY <1>1, <1>2, <1>3, <1>4, <1>5 DEF AttemptDue, InAttempt
<1>9. Entitled(p)'
  <2>1. over => Blocked(a)'
    BY <1>3, <1>4 DEF Blocked
  <2>2. ~over => (paused[a] => Excused(a))
    BY <1>1, <1>2, <1>3 DEF Entitled
  <2>3. to = (IF over THEN "pausing" ELSE "starting") /\ (over <=> Exceeded(j, MaxRequests - 1))
    OBVIOUS
  <2> HIDE DEF to, over
  <2>4. QED BY <1>2, <1>4, <1>5, <1>6, <2>1, <2>2, <2>3 DEF Entitled, InAttempt
<1>10. QED BY <1>1, <1>4, <1>7, <1>8, <1>9, MoveKept DEF Process

\* Steps before the flock, and calls that end without a change to a directory.
LEMMA EndKept ==
    ASSUME Typing, Once, Kept, NEW p \in Procs,
           \/ \E a \in Activities : Call(p, a)
           \/ Lock(p) \/ Cached(p) \/ Point(p) \/ Crash(p)
           \/ RaiseInvalid(p) \/ RaiseOpen(p) \/ RaiseRefused(p)
    PROVE  Kept'
<1>1. UNCHANGED <<place, journal, tail, raw, litter, refused, paused, sent, breaker>>
  BY DEF Call, Lock, Cached, Point, Crash, RaiseInvalid, RaiseOpen, RaiseRefused, disk, seen
<1>2. CASE \E a \in Activities : Call(p, a)
  BY <1>1, <1>2, OutsideKept DEF Call, Goto, Inside, Typing, TypeOK
<1>3. CASE Lock(p)
  BY <1>1, <1>3, OutsideKept DEF Lock, Goto, Inside, Typing, TypeOK
<1>4. CASE Forget(p)
  BY <1>1, <1>4, OutsideKept DEF Forget, Goto, Inside, Typing, TypeOK
<1>5. QED BY <1>2, <1>3, <1>4 DEF Cached, Point, Crash, Dies, RaiseInvalid, RaiseOpen, RaiseRefused

\* A step that may change the disk, of a process in its activity.
LEMMA ChangeKept ==
    ASSUME Typing, Once, Kept, NEW p \in Procs, Inside(p), NEW a \in Activities, a = act[p],
           UNCHANGED <<act, at>>, breaker => breaker',
           \A q \in Procs : q # p => pc'[q] = pc[q] /\ answer'[q] = answer[q],
           \A b \in Activities : b # a =>
              /\ place'[b] = place[b] /\ journal'[b] = journal[b] /\ tail'[b] = tail[b]
              /\ raw'[b] = raw[b] /\ litter'[b] = litter[b] /\ refused'[b] = refused[b]
              /\ paused'[b] = paused[b] /\ sent'[b] = sent[b],
           Activity(a)', Process(p)'
    PROVE  Kept'
<1>1. Apart(p)
  BY DEF Apart
<1>2. QED BY <1>1, Elsewhere

LEMMA PlaceKept ==
    ASSUME Typing, Once, Kept, NEW p \in Procs,
           WriteIdentity(p) \/ Prepare(p) \/ Publish(p) \/ Seal(p)
    PROVE  Kept'
<1>1. Inside(p) /\ act[p] \in Activities
  BY DEF WriteIdentity, Prepare, Publish, Seal, Inside, Typing, Where
<1>2. PICK a \in Activities : a = act[p]
  BY <1>1
<1>3. Placed(p) /\ Entitled(p) /\ Activity(a)
  BY <1>1, <1>2, Here DEF Process
<1>4. /\ act' = act /\ at' = at /\ answer' = answer
      /\ UNCHANGED <<journal, tail, raw, litter, refused, paused, sent, breaker>>
  BY DEF WriteIdentity, Prepare, Publish, Seal, seen
<1>5. PICK to \in {"repairing", "publishing", "sealing", "pointing"},
           x \in {"run", "prepared", "open", "published"} :
         /\ Goto(p, to) /\ SetPlace(a, x)
         /\ \/ to = "repairing" /\ x = "run"
            \/ to = "publishing" /\ x = "prepared" /\ pc[p] = "preparing"
            \/ to = "sealing" /\ x = "open" /\ pc[p] = "publishing" /\ Valid(a)
            \/ to = "pointing" /\ x = "published" /\ pc[p] = "sealing"
  BY <1>2 DEF WriteIdentity, Prepare, Publish, Seal
<1>6. pc'[p] = to /\ place'[a] = x
  BY <1>5 DEF Goto, SetPlace, Typing, TypeOK
<1>7. Placed(p)'
  BY <1>2, <1>4, <1>5, <1>6 DEF Placed, Working, PCs
<1>8. AttemptDue(p)'
  BY <1>5, <1>6 DEF AttemptDue, InAttempt
<1>9. Entitled(p)'
  BY <1>5, <1>6 DEF Entitled, InAttempt
<1>10. Activity(a)'
  <2>1. Valid(a)' = Valid(a) /\ Filed(a)' = Filed(a) /\ Shut(a)' = Shut(a)
    BY <1>4 DEF Valid, Filed, Shut
  <2>2. Excused(a)' = Excused(a) /\ Blocked(a)' = Blocked(a)
    BY <1>4 DEF Excused, Blocked
  <2>3. x # "run" => Shut(a)
    <3>1. pc[p] = "preparing" => Shut(a)
      BY <1>2, <1>3 DEF Placed, Entitled, Shut, Working, PCs
    <3>2. pc[p] = "publishing" => place[a] = "prepared"
      BY <1>2, <1>3 DEF Placed
    <3>3. pc[p] = "sealing" => place[a] = "open"
      BY <1>2, <1>3 DEF Placed
    <3>4. QED BY <1>3, <1>5, <3>1, <3>2, <3>3 DEF Activity
  <2>4. x \in {"open", "published"} => Valid(a)
    <3>1. pc[p] = "sealing" => place[a] = "open"
      BY <1>2, <1>3 DEF Placed
    <3>2. QED BY <1>3, <1>5, <3>1 DEF Activity, IsPublished
  <2>5. QED BY <1>3, <1>4, <1>5, <1>6, <2>1, <2>2, <2>3, <2>4 DEF Activity, IsPublished
<1>11. /\ \A q \in Procs : q # p => pc'[q] = pc[q]
       /\ \A b \in Activities : b # a => place'[b] = place[b]
  BY <1>5 DEF Goto, SetPlace, Typing, TypeOK
<1>12. QED BY <1>1, <1>2, <1>4, <1>7, <1>8, <1>9, <1>10, <1>11, ChangeKept DEF Process

LEMMA MakeKept ==
    ASSUME Typing, Once, Kept, NEW p \in Procs, MakeDirectory(p)
    PROVE  Kept'
<1>1. Inside(p) /\ act[p] \in Activities
  BY DEF MakeDirectory, Inside, Typing, Where
<1>2. PICK a \in Activities : a = act[p]
  BY <1>1
<1>3. Activity(a)
  BY <1>1, <1>2, Here
<1>4. /\ act' = act /\ at' = at /\ answer' = answer
      /\ UNCHANGED <<paused, breaker>>
      /\ Goto(p, "identifying") /\ SetPlace(a, "made")
  BY <1>2 DEF MakeDirectory
<1>5. pc'[p] = "identifying" /\ place'[a] = "made"
  BY <1>4 DEF Goto, SetPlace, Typing, TypeOK
<1>6. Placed(p)' /\ AttemptDue(p)' /\ Entitled(p)'
  BY <1>2, <1>4, <1>5 DEF Placed, AttemptDue, Entitled, InAttempt, Working, PCs
<1>7. /\ journal'[a] = <<>> /\ raw'[a] = [x \in Attempts |-> NoAnswer]
      /\ refused'[a] = (refused[a] \/ place[a] = "prepared")
  BY <1>2 DEF MakeDirectory, Typing, TypeOK
<1>8. Rows(<<>>, "started") = {} /\ Rows(<<>>, "terminal") = {}
  BY DEF Rows
<1>9. Pending(<<>>) = {}
  BY <1>8 DEF Pending
<1>10. Count(<<>>) = 0
  BY <1>8, FS_EmptySet DEF Count
<1>11. Activity(a)'
  <2>1. Books(<<>>)
    BY <1>8, <1>9 DEF Books, RetriesDue
  <2>2. Filed(a)'
    BY <1>7, <1>8 DEF Filed, NoAnswer, Answered
  <2>3. Budgeted(<<>>)
    BY <1>9, <1>10, BudgetAssumption DEF Budgeted
  <2>4. paused[a] => Excused(a)'
    <3>1. paused[a] => place[a] = "prepared"
      BY <1>2, <1>3 DEF MakeDirectory, Activity
    <3>2. QED BY <1>7, <3>1 DEF Excused
  <2>5. QED BY <1>4, <1>5, <1>7, <2>1, <2>2, <2>3, <2>4 DEF Activity, IsPublished
<1>12. /\ \A q \in Procs : q # p => pc'[q] = pc[q]
       /\ \A b \in Activities : b # a =>
              /\ place'[b] = place[b] /\ journal'[b] = journal[b] /\ tail'[b] = tail[b]
              /\ raw'[b] = raw[b] /\ litter'[b] = litter[b] /\ refused'[b] = refused[b]
              /\ sent'[b] = sent[b]
  BY <1>2 DEF MakeDirectory, Goto, SetPlace, Typing, TypeOK
<1>13. QED BY <1>1, <1>2, <1>4, <1>6, <1>11, <1>12, ChangeKept DEF Process

LEMMA RepairKept ==
    ASSUME Typing, Once, Kept, NEW p \in Procs, RepairTail(p) \/ TripBreaker(p)
    PROVE  Kept'
<1>1. Inside(p) /\ act[p] \in Activities
  BY DEF RepairTail, TripBreaker, Inside, Typing, Where
<1>2. PICK a \in Activities : a = act[p]
  BY <1>1
<1>3. Placed(p) /\ Entitled(p) /\ Activity(a)
  BY <1>1, <1>2, Here DEF Process
<1>4. /\ act' = act /\ at' = at /\ answer' = answer
      /\ UNCHANGED <<place, journal, raw, litter, refused, paused, sent>>
      /\ breaker => breaker'
  BY DEF RepairTail, TripBreaker, seen, Typing, TypeOK
<1>5. PICK to \in {"noting", "validating", "pausing"} :
         /\ Goto(p, to)
         /\ to = "pausing" => pc[p] = "tripping" /\ breaker' /\ tail' = tail
         /\ to # "pausing" => pc[p] = "repairing" /\ tail' = [tail EXCEPT ![a] = "whole"]
  BY <1>2 DEF RepairTail, TripBreaker
<1>6. pc'[p] = to /\ (to # "pausing" => tail'[a] = "whole")
  BY <1>5 DEF Goto, Typing, TypeOK
<1>7. place[a] = "run"
  BY <1>2, <1>3, <1>5 DEF Placed, Working, PCs
<1>8. Placed(p)'
  BY <1>2, <1>3, <1>4, <1>5, <1>6, <1>7 DEF Placed, Working, PCs
<1>9. AttemptDue(p)'
  BY <1>5, <1>6 DEF AttemptDue, InAttempt
<1>10. Entitled(p)'
  <2>1. to = "pausing" => Blocked(a)'
    BY <1>2, <1>3, <1>4, <1>5 DEF Entitled, Blocked
  <2>2. QED BY <1>2, <1>4, <1>5, <1>6, <2>1 DEF Entitled, InAttempt
<1>11. Activity(a)'
  BY <1>3, <1>4, <1>7 DEF Activity, Filed, Excused, Blocked, IsPublished
<1>12. /\ \A q \in Procs : q # p => pc'[q] = pc[q]
       /\ \A b \in Activities : b # a => tail'[b] = tail[b]
  BY <1>5 DEF Goto, Typing, TypeOK
<1>13. QED BY <1>1, <1>2, <1>4, <1>8, <1>9, <1>10, <1>11, <1>12, ChangeKept DEF Process

\* A call that ends or is killed in the activity's directory.
LEMMA LeaveKept ==
    ASSUME Typing, Once, Kept, NEW p \in Procs, Inside(p), NEW a \in Activities, a = act[p],
           Forget(p), UNCHANGED <<place, raw, refused, sent, breaker>>,
           \A b \in Activities : b # a =>
              /\ journal'[b] = journal[b] /\ tail'[b] = tail[b] /\ litter'[b] = litter[b]
              /\ paused'[b] = paused[b],
           Activity(a)'
    PROVE  Kept'
<1>1. Apart(p)
  BY DEF Apart, Forget, Goto, Typing, TypeOK
<1>2. ~Inside(p)'
  BY DEF Inside, Forget, Goto, Typing, TypeOK
<1>3. QED BY <1>1, <1>2, Elsewhere

LEMMA KilledKept ==
    ASSUME Typing, Once, Kept, NEW p \in Procs, Pause(p) \/ LeaveTemporary(p) \/ TearRow(p)
    PROVE  Kept'
<1>1. Inside(p) /\ act[p] \in Activities
  BY DEF Pause, LeaveTemporary, TearRow, Inside, Typing, Where, Appending, Writing
<1>2. PICK a \in Activities : a = act[p]
  BY <1>1
<1>3. Placed(p) /\ Entitled(p) /\ Activity(a)
  BY <1>1, <1>2, Here DEF Process
<1>4. Forget(p) /\ UNCHANGED <<place, raw, refused, sent, breaker>>
  BY DEF Pause, LeaveTemporary, TearRow, Dies
<1>5. place[a] \in {"made", "run"}
  BY <1>2, <1>3 DEF Pause, LeaveTemporary, TearRow, Appending, Writing, Placed, Working, PCs
<1>6. Excused(a)' = Excused(a)
  BY <1>4 DEF Excused
<1>7. CASE Pause(p)
  <2>1. /\ paused' = [paused EXCEPT ![a] = TRUE] /\ pc[p] = "pausing"
        /\ UNCHANGED <<journal, tail, litter>>
    BY <1>2, <1>7 DEF Pause
  <2>2. Excused(a) \/ Blocked(a)
    BY <1>2, <1>3, <2>1 DEF Entitled
  <2>3. Blocked(a)' = Blocked(a) /\ Filed(a)' = Filed(a)
    BY <1>4, <2>1 DEF Blocked, Filed
  <2>4. Activity(a)'
    BY <1>3, <1>4, <1>5, <1>6, <2>1, <2>2, <2>3 DEF Activity, IsPublished
  <2>5. QED BY <1>1, <1>2, <1>4, <2>1, <2>4, LeaveKept DEF Typing, TypeOK
<1>8. CASE LeaveTemporary(p)
  <2>1. litter' = [litter EXCEPT ![a] = TRUE] /\ UNCHANGED <<journal, tail, paused>>
    BY <1>2, <1>8 DEF LeaveTemporary
  <2>2. Blocked(a)' = Blocked(a) /\ Filed(a)' = Filed(a)
    BY <1>4, <2>1 DEF Blocked, Filed
  <2>3. Activity(a)'
    BY <1>3, <1>4, <1>5, <1>6, <2>1, <2>2 DEF Activity, IsPublished
  <2>4. QED BY <1>1, <1>2, <1>4, <2>1, <2>3, LeaveKept DEF Typing, TypeOK
<1>9. CASE TearRow(p) /\ journal' = journal
  <2>1. UNCHANGED <<litter, paused>> /\ \A b \in Activities : b # a => tail'[b] = tail[b]
    BY <1>2, <1>9 DEF TearRow, Typing, TypeOK
  <2>2. Blocked(a)' = Blocked(a) /\ Filed(a)' = Filed(a)
    BY <1>4, <1>9 DEF Blocked, Filed
  <2>3. Activity(a)'
    BY <1>3, <1>4, <1>5, <1>6, <1>9, <2>1, <2>2 DEF Activity, IsPublished
  <2>4. QED BY <1>1, <1>2, <1>4, <1>9, <2>1, <2>3, LeaveKept
<1>10. CASE TearRow(p) /\ Append1(a, Row(p))
  <2>1. /\ UNCHANGED <<litter, paused>> /\ pc[p] \in Appending
        /\ \A b \in Activities : b # a => tail'[b] = tail[b]
    BY <1>2, <1>10 DEF TearRow, Typing, TypeOK
  <2>2. journal' = [journal EXCEPT ![a] = Append(journal[a], Row(p))]
    BY <1>10 DEF Append1
  <2>3. Activity(a)'
    BY <1>2, <1>4, <2>1, <2>2, RowKept
  <2>4. QED BY <1>1, <1>2, <1>4, <2>1, <2>2, <2>3, LeaveKept DEF Typing, TypeOK
<1>11. QED BY <1>2, <1>7, <1>8, <1>9, <1>10 DEF TearRow

\* An answer is filed once.
LEMMA RawKept ==
    ASSUME Typing, Once, Kept, NEW p \in Procs, pc[p] \in {"rebuilding", "writing"},
           NEW a \in Activities, a = act[p],
           \A y \in Attempts : y # at[p] => raw'[a][y] = raw[a][y],
           Answered(raw'[a][at[p]]) => sent[a][at[p]] # 0,
           UNCHANGED <<place, journal, tail, litter, refused, paused, sent, breaker>>
    PROVE  /\ Activity(a)'
           /\ Excused(a) => Excused(a)'
<1> DEFINE x == at[p]
<1>1. /\ x \in Attempts /\ Inside(p)
      /\ raw[a] \in [Attempts -> AllAnswers \union {NoAnswer}]
      /\ journal[a] \in Seq(Event)
  BY DEF Typing, TypeOK, Where, AtAttempt, Inside
<1>2. Activity(a) /\ Placed(p) /\ AttemptDue(p) /\ Fits(pc[p], x, journal[a], sent[a])
  BY <1>1, Here DEF Process
<1>3. raw[a][x] = NoAnswer /\ x \in Pending(journal[a])
  BY <1>2 DEF AttemptDue, Fits
<1>4. x \in Asked(journal[a]) /\ x \notin Ended(journal[a])
  BY <1>3, PendingIs
<1>5. \A y \in Attempts : y # x => raw'[a][y] = raw[a][y]
  OBVIOUS
<1>6. place[a] = "run"
  BY <1>2 DEF Placed, Working, PCs
<1>7. Filed(a)
  BY <1>2 DEF Activity
<1>8. Filed(a)'
  <2>1. ASSUME NEW i \in Rows(journal[a], "terminal")
        PROVE  raw'[a][journal[a][i].at] = journal[a][i].answer
    <3>1. journal[a][i].at \in Attempts
      BY <1>1, RowsTyped
    <3>2. journal[a][i].at # x
      BY <1>4 DEF Ended
    <3>3. QED BY <1>5, <1>7, <3>1, <3>2 DEF Filed
  <2>2. \A y \in Attempts : raw'[a][y] # NoAnswer => y \in Asked(journal[a])
    BY <1>4, <1>5, <1>7 DEF Filed
  <2>3. \A y \in Attempts : Answered(raw'[a][y]) => sent[a][y] # 0
    BY <1>5, <1>7 DEF Filed
  <2>4. QED BY <2>1, <2>2, <2>3 DEF Filed
<1>9. Excused(a) => Excused(a)'
  <2>1. \A y \in Attempts : raw[a][y].big => y # x
    BY <1>3 DEF NoAnswer
  <2>2. QED BY <1>5, <2>1 DEF Excused
<1>10. Blocked(a)' = Blocked(a)
  BY DEF Blocked
<1>11. Activity(a)'
  BY <1>2, <1>6, <1>8, <1>9, <1>10 DEF Activity, IsPublished
<1>12. QED BY <1>9, <1>11

LEMMA AnswerKept ==
    ASSUME Typing, Once, Kept, NEW p \in Procs, Rebuild(p) \/ WriteRaw(p)
    PROVE  Kept'
<1>1. Inside(p) /\ act[p] \in Activities /\ pc[p] \in {"rebuilding", "writing"}
  BY DEF Rebuild, WriteRaw, Inside, Typing, Where
<1>2. PICK a \in Activities : a = act[p]
  BY <1>1
<1>3. Placed(p) /\ AttemptDue(p) /\ Entitled(p)
  BY <1>1, <1>2, Here DEF Process
<1>4. /\ UNCHANGED <<act, at, answer>>
      /\ UNCHANGED <<place, journal, tail, litter, refused, paused, sent, breaker>>
  BY DEF Rebuild, WriteRaw, seen
<1>5. PICK v \in AllAnswers \union {NoAnswer}, to \in {"closing", "terminating"} :
         /\ raw' = [raw EXCEPT ![a][at[p]] = v] /\ Goto(p, to)
         /\ \/ pc[p] = "rebuilding" /\ to = "closing" /\ v = Ambiguous
            \/ pc[p] = "writing" /\ to = "terminating" /\ v = answer[p]
  <2>1. Ambiguous \in AllAnswers /\ answer[p] \in AllAnswers \union {NoAnswer}
    BY DEF Ambiguous, AllAnswers, Kinds, Typing, TypeOK
  <2>2. QED BY <1>2, <2>1 DEF Rebuild, WriteRaw
<1>6. /\ raw'[a][at[p]] = v
      /\ \A y \in Attempts : y # at[p] => raw'[a][y] = raw[a][y]
  BY <1>2, <1>5 DEF Rebuild, WriteRaw, Typing, TypeOK, Where, AtAttempt
<1>7. Activity(a)' /\ (Excused(a) => Excused(a)')
  <2>1. Answered(raw'[a][at[p]]) => sent[a][at[p]] # 0
    BY <1>2, <1>3, <1>5, <1>6 DEF AttemptDue, Answered, Ambiguous
  <2>2. QED BY <1>1, <1>2, <1>4, <1>6, <2>1, RawKept
<1>8. pc'[p] = to
  BY <1>5 DEF Goto, Typing, TypeOK
<1>9. Placed(p)'
  BY <1>2, <1>3, <1>4, <1>5, <1>8 DEF Placed, Working, PCs
<1>10. AttemptDue(p)'
  BY <1>2, <1>3, <1>4, <1>5, <1>6, <1>8 DEF AttemptDue, InAttempt
<1>11. Entitled(p)'
  BY <1>2, <1>3, <1>4, <1>5, <1>7, <1>8 DEF Entitled, InAttempt
<1>12. /\ \A q \in Procs : q # p => pc'[q] = pc[q]
       /\ \A b \in Activities : b # a => raw'[b] = raw[b]
  BY <1>5 DEF Goto, Typing, TypeOK
<1>13. QED BY <1>1, <1>2, <1>4, <1>7, <1>9, <1>10, <1>11, <1>12, ChangeKept DEF Process

LEMMA SendKept ==
    ASSUME Typing, Once, Kept, NEW p \in Procs, Send(p)
    PROVE  Kept'
<1>1. Inside(p) /\ act[p] \in Activities /\ pc[p] = "sending" /\ at[p] \in Attempts
  BY DEF Send, Inside, Typing, Where, AtAttempt
<1>2. PICK a \in Activities : a = act[p]
  BY <1>1
<1> DEFINE x == at[p]
<1>3. /\ Placed(p) /\ AttemptDue(p) /\ Entitled(p) /\ Activity(a)
      /\ sent[a] \in [Attempts -> Nat]
  BY <1>1, <1>2, Here DEF Process
<1>4. /\ UNCHANGED <<act, at>> /\ Goto(p, "writing")
      /\ UNCHANGED <<place, journal, tail, raw, litter, refused, paused, breaker>>
      /\ sent' = [sent EXCEPT ![a][x] = @ + 1]
  BY <1>2 DEF Send, disk
<1>5. pc'[p] = "writing"
  BY <1>4 DEF Goto, Typing, TypeOK
<1>6. /\ sent'[a][x] = sent[a][x] + 1
      /\ \A y \in Attempts : y # x => sent'[a][y] = sent[a][y]
  BY <1>1, <1>4 DEF Typing, TypeOK
<1>7. sent'[a][x] # 0
  BY <1>1, <1>3, <1>6
<1>8. Placed(p)'
  BY <1>1, <1>3, <1>4, <1>5 DEF Placed, Working, PCs
<1>9. AttemptDue(p)'
  BY <1>1, <1>2, <1>3, <1>4, <1>5, <1>7 DEF AttemptDue, InAttempt
<1>10. Excused(a)' = Excused(a) /\ Blocked(a)' = Blocked(a)
  BY <1>4 DEF Excused, Blocked
<1>11. Entitled(p)'
  BY <1>1, <1>2, <1>3, <1>4, <1>5, <1>10 DEF Entitled, InAttempt
<1>12. Filed(a)'
  <2>1. Filed(a)
    BY <1>3 DEF Activity
  <2>2. \A y \in Attempts : Answered(raw[a][y]) => sent'[a][y] # 0
    BY <1>6, <1>7, <2>1 DEF Filed
  <2>3. QED BY <1>4, <2>1, <2>2 DEF Filed
<1>13. place[a] = "run"
  BY <1>1, <1>2, <1>3 DEF Placed, Working, PCs
<1>14. Activity(a)'
  BY <1>3, <1>4, <1>10, <1>12, <1>13 DEF Activity, IsPublished
<1>15. /\ \A q \in Procs : q # p => pc'[q] = pc[q] /\ answer'[q] = answer[q]
       /\ \A b \in Activities : b # a => sent'[b] = sent[b]
  BY <1>4 DEF Send, Goto, Typing, TypeOK
<1>16. QED BY <1>1, <1>2, <1>4, <1>8, <1>9, <1>11, <1>14, <1>15, ChangeKept DEF Process

LEMMA NoteKept ==
    ASSUME Typing, Once, Kept, NEW p \in Procs, NoteFragment(p) \/ Close(p)
    PROVE  Kept'
<1>1. Inside(p) /\ act[p] \in Activities /\ pc[p] \in Appending
  BY DEF NoteFragment, Close, Inside, Typing, Where, Appending
<1>2. PICK a \in Activities : a = act[p]
  BY <1>1
<1>3. Placed(p)
  BY <1>1, <1>2, Here DEF Process
<1>4. /\ UNCHANGED <<act, at, answer>>
      /\ UNCHANGED <<place, tail, raw, litter, refused, paused, sent, breaker>>
      /\ journal' = [journal EXCEPT ![a] = Append(journal[a], Row(p))]
  BY <1>2 DEF NoteFragment, Close, Append1, seen
<1>5. Activity(a)'
  BY <1>1, <1>2, <1>4, RowKept
<1>6. PICK to \in {"validating", "recovering"} : Goto(p, to)
  BY DEF NoteFragment, Close
<1>7. pc'[p] = to
  BY <1>6 DEF Goto, Typing, TypeOK
<1>8. place[a] = "run" /\ tail[a] = "whole"
  BY <1>2, <1>3 DEF NoteFragment, Close, Placed, Working, PCs
<1>9. Placed(p)' /\ AttemptDue(p)' /\ Entitled(p)'
  BY <1>2, <1>4, <1>6, <1>7, <1>8 DEF Placed, AttemptDue, Entitled, InAttempt, Working, PCs
<1>10. /\ \A q \in Procs : q # p => pc'[q] = pc[q]
       /\ \A b \in Activities : b # a => journal'[b] = journal[b]
  BY <1>4, <1>6 DEF Goto, Typing, TypeOK
<1>11. QED BY <1>1, <1>2, <1>4, <1>5, <1>9, <1>10, ChangeKept DEF Process

\* An attempt is noted before it is made, and none has an answer before.
LEMMA StartKept ==
    ASSUME Typing, Once, Kept, NEW p \in Procs, StartAttempt(p)
    PROVE  Kept'
<1>1. /\ Inside(p) /\ act[p] \in Activities /\ pc[p] = "starting" /\ pc[p] \in Appending
      /\ at[p] \in Attempts
  BY DEF StartAttempt, Inside, Typing, Where, Appending, AtAttempt
<1>2. PICK a \in Activities : a = act[p]
  BY <1>1
<1> DEFINE j == journal[a]
           k == Append(j, Row(p))
           x == at[p]
<1>3. /\ Placed(p) /\ AttemptDue(p) /\ Entitled(p) /\ Activity(a)
      /\ Fits("starting", x, j, sent[a]) /\ j \in Seq(Event) /\ Row(p) \in Event
  BY <1>1, <1>2, Here, RowTyped DEF Process
<1>4. /\ UNCHANGED <<act, at, answer>> /\ Goto(p, "sending")
      /\ UNCHANGED <<place, tail, raw, litter, refused, paused, sent, breaker>>
      /\ journal' = [journal EXCEPT ![a] = k]
  BY <1>2 DEF StartAttempt, Append1, seen
<1>5. Activity(a)' /\ Pending(journal'[a]) = {x}
  BY <1>1, <1>2, <1>4, RowKept
<1>6. pc'[p] = "sending" /\ journal'[a] = k
  BY <1>4 DEF Goto, Typing, TypeOK
<1>7. raw[a][x] = NoAnswer
  <2>1. x \notin Asked(j)
    BY <1>1, <1>3 DEF Fits, Higher, Attempts
  <2>2. QED BY <1>1, <1>3, <2>1 DEF Activity, Filed
<1>8. /\ \A r : Latest(k, r) = Latest(j, r)
      /\ Count(k) = Count(j) /\ Usage(k) = Usage(j)
  <2>1. Row(p).type # "terminal"
    BY <1>1 DEF Row
  <2>2. QED BY <1>3, <2>1, QuietRow
<1> HIDE DEF k
<1>9. Placed(p)'
  BY <1>1, <1>3, <1>4, <1>6 DEF Placed, Working, PCs
<1>10. AttemptDue(p)'
  <2>1. \A q \in 1..(x[1] - 1) : ~Open(k, q)
    BY <1>1, <1>2, <1>3, <1>8 DEF AttemptDue, Open, InAttempt
  <2>2. QED BY <1>2, <1>4, <1>5, <1>6, <1>7, <2>1 DEF AttemptDue, InAttempt
<1>11. Entitled(p)'
  <2>1. ~Exceeded(k, MaxRequests - 1)
    BY <1>1, <1>2, <1>3, <1>8 DEF Entitled, Exceeded
  <2>2. Excused(a)' = Excused(a)
    BY <1>4 DEF Excused
  <2>3. paused[a] => Excused(a)
    BY <1>1, <1>2, <1>3 DEF Entitled, InAttempt
  <2>4. QED BY <1>2, <1>4, <1>6, <2>1, <2>2, <2>3 DEF Entitled, InAttempt
<1>12. /\ \A q \in Procs : q # p => pc'[q] = pc[q]
       /\ \A b \in Activities : b # a => journal'[b] = journal[b]
  BY <1>4 DEF Goto, Typing, TypeOK
<1>13. QED BY <1>1, <1>2, <1>4, <1>5, <1>9, <1>10, <1>11, <1>12, ChangeKept DEF Process

\* An answer is followed by what it asks for: the next request, a retry that
\* is due, or a pause that a later call finds again.
LEMMA TerminalKept ==
    ASSUME Typing, Once, Kept, NEW p \in Procs, WriteTerminal(p)
    PROVE  Kept'
<1>1. /\ Inside(p) /\ act[p] \in Activities /\ pc[p] = "terminating" /\ pc[p] \in Appending
      /\ at[p] \in Attempts
  BY DEF WriteTerminal, Inside, Typing, Where, Appending, AtAttempt
<1>2. PICK a \in Activities : a = act[p]
  BY <1>1
<1> DEFINE j == journal[a]
           row == Row(p)
           k == Append(j, row)
           x == at[p]
           r == x[1]
<1>3. /\ Placed(p) /\ AttemptDue(p) /\ Entitled(p) /\ Activity(a)
      /\ j \in Seq(Event) /\ row \in Event
  BY <1>1, <1>2, Here, RowTyped DEF Process
<1>4. /\ act' = act /\ journal' = [journal EXCEPT ![a] = k]
      /\ UNCHANGED <<place, tail, raw, litter, refused, paused, sent, breaker>>
      /\ \A q \in Procs : q # p => answer'[q] = answer[q]
  BY <1>2 DEF WriteTerminal, Append1, seen, Typing, TypeOK
<1>5. Activity(a)' /\ Pending(journal'[a]) = {} /\ journal'[a] = k
  BY <1>1, <1>2, <1>4, RowKept DEF Typing, TypeOK
<1>6. row.type = "terminal" /\ row.at = x /\ row.answer = answer[p]
  <2>1. raw[a][x] = answer[p]
    BY <1>1, <1>2, <1>3 DEF AttemptDue
  <2>2. QED BY <1>1, <1>2, <2>1 DEF Row
<1>7. /\ r \in Requests /\ Latest(k, r) = row
      /\ \A q \in Requests : q # r => Latest(k, q) = Latest(j, q)
  BY <1>3, <1>6, LatestRow
<1>8. Count(k) \in Nat
  <2>1. k \in Seq(Event)
    BY <1>3
  <2> HIDE DEF k
  <2>2. QED BY <2>1, CountTyped
<1>9. Asked(k) = Asked(j) /\ x \in Asked(j)
  <2>1. Asked(k) = Asked(j)
    BY <1>3, <1>6, AppendedAsked
  <2>2. x \in Pending(j)
    BY <1>1, <1>2, <1>3 DEF AttemptDue
  <2>3. QED BY <2>1, <2>2, PendingIs
<1>10. \E i \in Rows(k, "terminal") : k[i] = row
  BY <1>3, <1>6, AppendedRows
<1> HIDE DEF k, row
<1>11. \A q \in 1..(r - 1) : ~Open(k, q)
  <2>1. \A q \in 1..(r - 1) : q \in Requests /\ q # r
    BY <1>7, BudgetAssumption DEF Requests
  <2>2. \A q \in 1..(r - 1) : ~Open(j, q)
    BY <1>1, <1>2, <1>3 DEF AttemptDue, InAttempt
  <2>3. QED BY <1>7, <2>1, <2>2 DEF Open
<1>12. paused[a] => Excused(a)
  BY <1>1, <1>2, <1>3 DEF Entitled, InAttempt
<1>13. Excused(a)' = Excused(a)
  BY <1>4 DEF Excused
<1>14. PICK to \in {"pausing", "walking", "tripping", "checking"} :
          /\ Goto(p, to)
          /\ to # "checking" => at' = at
          /\ to = "checking" =>
                /\ Retryable(answer[p]) /\ ~(x[2] >= MaxRetries)
                /\ at' = [at EXCEPT ![p][2] = @ + 1]
          /\ to = "pausing" =>
                \/ answer[p].big \/ Exceeded(k, MaxRequests)
                \/ ~Answered(answer[p]) /\ (~Retryable(answer[p]) \/ x[2] >= MaxRetries)
  BY <1>2 DEF WriteTerminal, k, row
<1>15. pc'[p] = to
  BY <1>14 DEF Goto, Typing, TypeOK
<1>16. Placed(p)'
  BY <1>1, <1>3, <1>4, <1>14, <1>15 DEF Placed, Working, PCs
<1>17. to = "pausing" => Excused(a)' \/ Blocked(a)'
  <2>1. CASE answer[p].big
    BY <1>1, <1>2, <1>3, <1>4, <2>1 DEF AttemptDue, Excused
  <2>2. CASE Exceeded(k, MaxRequests)
    <3>1. Exceeded(k, MaxRequests - 1)
      BY <1>8, <2>2, BudgetAssumption DEF Exceeded
    <3>2. QED BY <1>5, <3>1 DEF Blocked
  <2>3. CASE ~Answered(answer[p]) /\ (~Retryable(answer[p]) \/ x[2] >= MaxRetries)
    <3>1. Open(k, r)
      BY <1>6, <1>7, <2>3 DEF Open
    <3>2. ~AllAnswered(k) /\ NextRequest(k) = r
      BY <1>7, <1>11, <3>1, FirstIsNextRequest
    <3>3. GivenUp(k)
      BY <1>6, <1>7, <2>3, <3>2 DEF GivenUp, Spent
    <3>4. QED BY <1>5, <3>3 DEF Blocked
  <2>4. QED BY <1>14, <2>1, <2>2, <2>3
<1>18. CASE to # "checking"
  <2>1. AttemptDue(p)'
    BY <1>14, <1>15, <1>18 DEF AttemptDue, InAttempt
  <2>2. Entitled(p)'
    BY <1>2, <1>4, <1>5, <1>14, <1>15, <1>17, <1>18 DEF Entitled, InAttempt
  <2>3. at' = at /\ \A q \in Procs : q # p => pc'[q] = pc[q]
    BY <1>14, <1>18 DEF Goto, Typing, TypeOK
  <2>4. \A b \in Activities : b # a => journal'[b] = journal[b]
    BY <1>4 DEF Typing, TypeOK
  <2>5. QED BY <1>1, <1>2, <1>4, <1>5, <1>16, <2>1, <2>2, <2>3, <2>4, ChangeKept DEF Process
<1>19. CASE to = "checking"
  <2>1. at'[p] = <<r, x[2] + 1>> /\ \A q \in Procs : q # p => at'[q] = at[q]
    <3>1. at' = [at EXCEPT ![p] = [x EXCEPT ![2] = @ + 1]]
      BY <1>14, <1>19
    <3>2. QED BY <1>1, <1>14, <1>19, <3>1, RetryTyped DEF Typing, TypeOK
  <2>2. Retried(<<r, x[2] + 1>>, k)
    <3>1. x = <<r, x[2]>> /\ x[2] \in Nat
      BY <1>1 DEF Attempts
    <3>2. SUFFICES ASSUME NEW o \in 0..x[2]
                   PROVE  \E i \in Rows(k, "terminal") :
                             k[i].at = <<r, o>> /\ Retryable(k[i].answer)
      <4> DEFINE y == <<r, x[2] + 1>>
      <4>1. y[1] = r /\ y[2] - 1 = x[2]
        BY <3>1
      <4> HIDE DEF y, r
      <4>2. Retried(y, k)
        BY <3>2, <4>1 DEF Retried
      <4>3. QED BY <4>2 DEF y
    <3>3. CASE o = x[2]
      BY <1>6, <1>10, <1>14, <1>19, <3>1, <3>3
    <3>4. CASE o # x[2]
      <4>1. PICK i \in Rows(k, "started") : k[i].at = x
        BY <1>9 DEF Asked
      <4>2. RetriesDue(k)
        BY <1>5 DEF Activity, Books
      <4>3. o \in 0..(k[i].at[2] - 1)
        BY <3>1, <3>4, <4>1
      <4>4. QED BY <4>1, <4>2, <4>3 DEF RetriesDue
    <3>5. QED BY <3>3, <3>4
  <2>3. AttemptDue(p)'
    BY <1>2, <1>4, <1>5, <1>11, <1>15, <1>19, <2>1, <2>2 DEF AttemptDue, InAttempt
  <2>4. Entitled(p)'
    BY <1>2, <1>4, <1>12, <1>13, <1>15, <1>19 DEF Entitled, InAttempt
  <2>5. Apart(p)
    BY <1>2, <1>4, <1>14, <2>1 DEF Apart, Goto, Typing, TypeOK
  <2>6. QED BY <1>1, <1>2, <1>5, <1>16, <2>3, <2>4, <2>5, Elsewhere DEF Process
<1>20. QED BY <1>18, <1>19

LEMMA KeptStep == Typing /\ Once /\ Kept /\ [Next]_vars => Kept'
<1> SUFFICES ASSUME Typing, Once, Kept, [Next]_vars PROVE Kept'
  OBVIOUS
<1>1. CASE UNCHANGED vars
  BY <1>1, OutsideKept DEF vars, disk, seen, Inside
<1>2. ASSUME NEW p \in Procs, \E a \in Activities : Call(p, a)
      PROVE  Kept'
  BY <1>2, EndKept
<1>3. ASSUME NEW p \in Procs, Crash(p) \/ TearRow(p) \/ LeaveTemporary(p)
      PROVE  Kept'
  BY <1>3, EndKept, KilledKept
<1>4. ASSUME NEW p \in Procs, Step(p)
      PROVE  Kept'
  BY <1>4, EndKept, OpenKept, MakeKept, PlaceKept, RepairKept, NoteKept, RecoverKept,
     AnswerKept, WalkKept, CheckKept, StartKept, SendKept, TerminalKept, KilledKept DEF Step
<1>5. QED BY <1>1, <1>2, <1>3, <1>4 DEF Next

-----------------------------------------------------------------------------
(* The pointer *)

Pointed == pointer # NoActivity => pointer \in Activities /\ IsPublished(pointer)

\* What is published is never taken back.
LEMMA PublishedStays ==
    ASSUME Typing, Once, Kept, [Next]_vars, NEW b \in Activities, IsPublished(b)
    PROVE  IsPublished(b)'
<1> SUFFICES ASSUME place'[b] # place[b] PROVE IsPublished(b)'
  BY DEF IsPublished
<1>1. PICK p \in Procs : \/ MakeDirectory(p) \/ WriteIdentity(p)
                         \/ Prepare(p) \/ Publish(p) \/ Seal(p)
  <2>1. PICK p \in Procs : \/ \E a \in Activities : Call(p, a)
                           \/ Step(p) \/ Crash(p) \/ TearRow(p) \/ LeaveTemporary(p)
    BY DEF Next, vars, disk
  <2>2. place' = place \/ \/ MakeDirectory(p) \/ WriteIdentity(p)
                          \/ Prepare(p) \/ Publish(p) \/ Seal(p)
    <3>1. CASE Step(p)
      BY <3>1 DEF Step, disk, Lock, Cached, ResumePublication, OpenDirectory, RepairTail,
         NoteFragment, Validate, RaiseInvalid, Recover, Rebuild, Close, Recovered, Walk,
         RaiseOpen, Check, StartAttempt, Send, WriteRaw, WriteTerminal, TripBreaker, Pause,
         Complete, WriteManifest, RaiseRefused, Point
    <3>2. QED BY <2>1, <3>1 DEF Call, Crash, TearRow, LeaveTemporary, disk
  <2>3. QED BY <2>2
<1>2. /\ Inside(p) /\ act[p] \in Activities
      /\ \E x : SetPlace(act[p], x)
  BY <1>1 DEF MakeDirectory, WriteIdentity, Prepare, Publish, Seal, Inside, Typing, Where
<1>3. act[p] = b
  BY <1>2 DEF SetPlace, Typing, TypeOK
<1>4. Placed(p)
  BY <1>2, <1>3, Here DEF Process
<1>5. CASE Publish(p) \/ Seal(p)
  BY <1>3, <1>5 DEF Publish, Seal, SetPlace, IsPublished, Typing, TypeOK
<1>6. CASE MakeDirectory(p) \/ WriteIdentity(p) \/ Prepare(p)
  <2>1. place[b] \in {"absent", "prepared", "made", "run"}
    BY <1>3, <1>4, <1>6 DEF MakeDirectory, WriteIdentity, Prepare, Placed, Working, PCs
  <2>2. QED BY <2>1 DEF IsPublished
<1>7. QED BY <1>1, <1>5, <1>6

LEMMA PointedStep == Typing /\ Once /\ Kept /\ Pointed /\ [Next]_vars => Pointed'
<1> SUFFICES ASSUME Typing, Once, Kept, Pointed, [Next]_vars PROVE Pointed'
  OBVIOUS
<1>1. CASE pointer' = pointer
  <2>1. CASE pointer = NoActivity
    BY <1>1, <2>1 DEF Pointed
  <2>2. CASE pointer # NoActivity
    <3>1. PICK b \in Activities : b = pointer /\ IsPublished(b)
      BY <2>2 DEF Pointed
    <3>2. IsPublished(b)'
      BY <3>1, PublishedStays
    <3>3. QED BY <1>1, <3>1, <3>2 DEF Pointed, IsPublished
  <2>3. QED BY <2>1, <2>2
<1>2. CASE pointer' # pointer
  <2>1. PICK p \in Procs : \/ \E a \in Activities : Call(p, a)
                           \/ Step(p) \/ Crash(p) \/ TearRow(p) \/ LeaveTemporary(p)
    BY <1>2 DEF Next, vars, disk
  <2>2. \/ \E a \in Activities : Call(p, a)
        \/ Cached(p) \/ Point(p)
    <3>1. CASE Step(p)
      BY <1>2, <3>1 DEF Step, disk, Lock, ResumePublication, MakeDirectory, OpenDirectory,
         WriteIdentity, RepairTail, NoteFragment, Validate, RaiseInvalid, Recover, Rebuild,
         Close, Recovered, Walk, RaiseOpen, Check, StartAttempt, Send, WriteRaw,
         WriteTerminal, TripBreaker, Pause, Complete, WriteManifest, Prepare, Publish,
         RaiseRefused, Seal
    <3>2. QED BY <1>2, <2>1, <3>1 DEF Crash, TearRow, LeaveTemporary, disk
  <2>3. PICK b \in Activities : pointer' = b /\ IsPublished(b)
    <3>1. CASE \E a \in Activities : Call(p, a)
      BY <1>2, <3>1 DEF Call
    <3>2. CASE Cached(p)
      BY <3>2 DEF Cached, Typing, Where
    <3>3. CASE Point(p)
      <4>1. PICK a \in Activities : a = act[p]
        BY <3>3 DEF Point, Typing, Where
      <4>2. Inside(p)
        BY <3>3 DEF Point, Inside
      <4>3. Placed(p)
        BY <4>1, <4>2, Here DEF Process
      <4>4. place[a] = "published" /\ pointer' = a
        BY <3>3, <4>1, <4>3 DEF Point, Placed
      <4>5. QED BY <4>4 DEF IsPublished
    <3>4. QED BY <2>2, <3>1, <3>2, <3>3
  <2>4. IsPublished(b)'
    BY <2>3, PublishedStays
  <2>5. QED BY <2>3, <2>4 DEF Pointed, IsPublished
<1>3. QED BY <1>1, <1>2

-----------------------------------------------------------------------------
(* Theorems *)

AllKept == Typing /\ Once /\ Kept /\ Pointed

LEMMA KeptAlways == Spec => []AllKept
<1>1. Init => AllKept
  <2> SUFFICES ASSUME Init PROVE AllKept
    OBVIOUS
  <2>1. Typing
    BY TypingInit
  <2>2. Once
    BY DEF Init, Once, Inside, Ordered, Backed, Asked, Ended, Pending, Rows
  <2>3. Rows(<<>>, "started") = {} /\ Rows(<<>>, "terminal") = {}
    BY DEF Rows
  <2>4. Pending(<<>>) = {} /\ Count(<<>>) = 0
    BY <2>3, FS_EmptySet DEF Pending, Count
  <2>5. Books(<<>>)
    BY <2>3, <2>4 DEF Books, RetriesDue
  <2>6. Budgeted(<<>>)
    BY <2>4, BudgetAssumption DEF Budgeted
  <2>7. ASSUME NEW a \in Activities PROVE Activity(a)
    <3>1. Filed(a)
      BY <2>3 DEF Init, Filed, NoAnswer, Answered
    <3>2. QED BY <2>5, <2>6, <3>1 DEF Init, Activity, IsPublished
  <2>8. Kept /\ Pointed
    BY <2>7 DEF Init, Kept, Inside, Pointed
  <2>9. QED BY <2>1, <2>2, <2>8 DEF AllKept
<1>2. AllKept /\ [Next]_vars => AllKept'
  BY TypingStep, OnceStep, KeptStep, PointedStep DEF AllKept
<1>3. QED BY <1>1, <1>2, PTL DEF Spec

(***************************************************************************)
(* Whatever kills and torn rows a journal has seen, the next recovery      *)
(* accepts it, unless a 429 was retried whose breaker was not opened; and  *)
(* no raw envelope is there before its observation.                        *)
(***************************************************************************)
THEOREM RecoveryAccepts == Spec => []JournalIsAccepted
<1>1. ASSUME AllKept PROVE JournalIsAccepted
  <2>1. ASSUME NEW a \in Activities
        PROVE  JournalAccepted(journal[a]) \/ ThrottleRetried(journal[a])
    <3>1. journal[a] \in Seq(Event) /\ Books(journal[a])
      BY <1>1 DEF AllKept, Typing, TypeOK, Kept, Activity
    <3>2. QED BY <3>1, BooksAccepted
  <2>2. ASSUME NEW p \in Procs, pc[p] = "writing"
        PROVE  raw[act[p]][at[p]] = NoAnswer
    <3>1. Process(p)
      BY <1>1, <2>2 DEF AllKept, Kept, Inside
    <3>2. QED BY <2>2, <3>1 DEF Process, AttemptDue
  <2>3. QED BY <1>1, <2>1, <2>2 DEF AllKept, Typing, JournalIsAccepted
<1>2. QED BY <1>1, KeptAlways, PTL

\* A request that was answered has reached the provider.
LEMMA AnsweredHere ==
    ASSUME NEW a \in Activities, journal[a] \in Seq(Event), Filed(a),
           NEW r \in Requests, ~Open(journal[a], r)
    PROVE  /\ Terminals(journal[a], r) # {}
           /\ \E o \in 0..MaxRetries :
                 Answered(raw[a][<<r, o>>]) /\ sent[a][<<r, o>>] # 0
<1> DEFINE j == journal[a]
<1>1. Answered(Latest(j, r).answer)
  BY DEF Open
<1>2. Terminals(j, r) # {}
  BY <1>1 DEF Latest, Unasked, NoAnswer, Answered
<1>3. PICK i \in Terminals(j, r) : Latest(j, r) = j[i]
  BY <1>2, LatestIsLast
<1>4. i \in Rows(j, "terminal") /\ j[i].at[1] = r
  BY <1>3 DEF Terminals
<1>5. j[i].at \in Attempts /\ j[i].at = <<r, j[i].at[2]>> /\ j[i].at[2] \in 0..MaxRetries
  BY <1>4, RowsTyped
<1>6. Answered(raw[a][j[i].at])
  BY <1>1, <1>3, <1>4 DEF Filed
<1>7. sent[a][j[i].at] # 0
  BY <1>5, <1>6 DEF Filed
<1>8. QED BY <1>2, <1>5, <1>6, <1>7

LEMMA UsageTyped ==
    ASSUME NEW j \in Seq(Event)
    PROVE  Usage(j) \in Nat
<1> DEFINE B == {i \in Rows(j, "terminal") : Volume(j[i].answer) = 2}
<1>1. B \in SUBSET (1..Len(j)) /\ Len(j) \in Nat
  BY DEF Rows
<1>2. IsFiniteSet(1..Len(j))
  BY <1>1, FS_Interval
<1>3. IsFiniteSet(B)
  BY <1>1, <1>2, FS_Subset
<1>4. Cardinality(B) \in Nat
  BY <1>3, FS_CardinalityType
<1>5. QED BY <1>4, CountTyped DEF Usage

\* One row for each attempt that has ended, and one attempt that has not.
LEMMA AskedCounted ==
    ASSUME NEW j \in Seq(Event), Books(j)
    PROVE  /\ IsFiniteSet(Asked(j))
           /\ Cardinality(Asked(j)) <= Count(j) + (IF Pending(j) = {} THEN 0 ELSE 1)
<1> DEFINE T == Rows(j, "terminal")
           f == [i \in T |-> j[i].at]
<1>1. IsFiniteSet(T)
  <2>1. T \in SUBSET (1..Len(j)) /\ Len(j) \in Nat
    BY DEF Rows
  <2>2. IsFiniteSet(1..Len(j))
    BY <2>1, FS_Interval
  <2>3. QED BY <2>1, <2>2, FS_Subset
<1>2. f \in Surjection(T, Ended(j))
  <2>1. f \in [T -> Ended(j)] /\ \A y \in Ended(j) : \E i \in T : f[i] = y
    BY DEF Ended
  <2>2. QED BY <2>1 DEF Surjection
<1>3. IsFiniteSet(Ended(j)) /\ Cardinality(Ended(j)) <= Count(j)
  BY <1>1, <1>2, FS_Surjection DEF Count
<1>4. Cardinality(Ended(j)) \in Nat /\ Count(j) \in Nat
  BY <1>3, FS_CardinalityType, CountTyped
<1>5. CASE Pending(j) = {}
  <2>1. Asked(j) \in SUBSET Ended(j)
    BY <1>5, PendingIs
  <2>2. IsFiniteSet(Asked(j)) /\ Cardinality(Asked(j)) <= Cardinality(Ended(j))
    BY <1>3, <2>1, FS_Subset
  <2>3. Cardinality(Asked(j)) \in Nat
    BY <2>2, FS_CardinalityType
  <2>4. QED BY <1>3, <1>4, <1>5, <2>2, <2>3
<1>6. CASE Pending(j) # {}
  <2>1. PICK x : x \in Pending(j)
    BY <1>6
  <2>2. Asked(j) \in SUBSET (Ended(j) \union {x})
    BY <2>1, PendingIs DEF Books
  <2>3. /\ IsFiniteSet(Ended(j) \union {x})
        /\ Cardinality(Ended(j) \union {x}) <= Cardinality(Ended(j)) + 1
        /\ Cardinality(Ended(j) \union {x}) \in Nat
    <3>1. IsFiniteSet(Ended(j) \union {x})
          /\ Cardinality(Ended(j) \union {x}) =
                IF x \in Ended(j) THEN Cardinality(Ended(j)) ELSE Cardinality(Ended(j)) + 1
      BY <1>3, FS_AddElement
    <3>2. QED BY <1>4, <3>1
  <2>4. /\ IsFiniteSet(Asked(j))
        /\ Cardinality(Asked(j)) <= Cardinality(Ended(j) \union {x})
    BY <2>2, <2>3, FS_Subset
  <2>5. Cardinality(Asked(j)) \in Nat
    BY <2>4, FS_CardinalityType
  <2>6. QED BY <1>3, <1>4, <1>6, <2>3, <2>4, <2>5
<1>7. QED BY <1>5, <1>6

LEMMA KeptIsDue == AllKept => SendsAreDue
<1> SUFFICES ASSUME AllKept PROVE SendsAreDue
  OBVIOUS
<1> USE DEF AllKept
<1>1. ASSUME NEW p \in Procs, pc[p] = "sending", NEW a \in Activities, a = act[p]
      PROVE  LET r == at[p][1]
             IN /\ sent[a][at[p]] = 0
                /\ \A q \in 1..(r - 1) : \E o \in 0..MaxRetries :
                      Answered(raw[a][<<q, o>>])
                /\ \A o \in 0..(at[p][2] - 1) : Retryable(raw[a][<<r, o>>])
                /\ Count(journal[a]) < MaxRequests
                /\ Usage(journal[a]) <= MaxVolume
                /\ paused[a] => refused[a] \/ \E x \in Attempts : raw[a][x].big
  <2> DEFINE j == journal[a]
             x == at[p]
             r == x[1]
  <2>1. /\ Activity(a) /\ AttemptDue(p) /\ Entitled(p) /\ Fits("sending", x, j, sent[a])
        /\ j \in Seq(Event)
    <3>1. Inside(p)
      BY <1>1 DEF Inside
    <3>2. QED BY <1>1, <3>1, Here DEF Process
  <2>2. x \in Attempts /\ r \in Requests
    BY <1>1 DEF Typing, Where, AtAttempt, Attempts
  <2>3. sent[a][x] = 0
    BY <2>1 DEF Fits
  <2>4. ASSUME NEW q \in 1..(r - 1)
        PROVE  \E o \in 0..MaxRetries : Answered(raw[a][<<q, o>>])
    <3>1. q \in Requests /\ ~Open(j, q)
      BY <1>1, <2>1, <2>2, BudgetAssumption DEF AttemptDue, Requests, InAttempt
    <3>2. QED BY <2>1, <3>1, AnsweredHere DEF Activity
  <2>5. ASSUME NEW o \in 0..(x[2] - 1)
        PROVE  Retryable(raw[a][<<r, o>>])
    <3>1. x \in Asked(j)
      BY <1>1, <2>1 DEF Fits
    <3>2. PICK i \in Rows(j, "started") : j[i].at = x
      BY <3>1 DEF Asked
    <3>3. RetriesDue(j)
      BY <2>1 DEF Activity, Books
    <3>4. PICK m \in Rows(j, "terminal") :
             j[m].at = <<r, o>> /\ Retryable(j[m].answer)
      BY <3>2, <3>3 DEF RetriesDue
    <3>5. QED BY <2>1, <3>4 DEF Activity, Filed
  <2>6. Count(j) < MaxRequests /\ Usage(j) <= MaxVolume
    <3>1. ~Exceeded(j, MaxRequests - 1)
      BY <1>1, <2>1 DEF Entitled
    <3>2. Count(j) \in Nat /\ Usage(j) \in Nat
      BY <2>1, CountTyped, UsageTyped
    <3>3. QED BY <3>1, <3>2, BudgetAssumption DEF Exceeded
  <2>7. paused[a] => Excused(a)
    BY <1>1, <2>1 DEF Entitled, InAttempt
  <2>8. QED BY <2>3, <2>4, <2>5, <2>6, <2>7 DEF Excused
<1>2. ASSUME NEW a \in Activities
      PROVE  /\ \A x \in Attempts : sent[a][x] <= 1
             /\ Cardinality({x \in Attempts : sent[a][x] = 1}) <= MaxRequests
  <2> DEFINE j == journal[a]
             made == {x \in Attempts : sent[a][x] = 1}
  <2>1. /\ Backed(sent[a], j) /\ Books(j) /\ Budgeted(j) /\ j \in Seq(Event)
    BY DEF Once, Kept, Activity, Typing, TypeOK
  <2>2. \A x \in Attempts : sent[a][x] <= 1
    BY <2>1 DEF Backed
  <2>3. made \in SUBSET Asked(j)
    BY <2>1 DEF Backed
  <2>4. /\ IsFiniteSet(Asked(j))
        /\ Cardinality(Asked(j)) <= Count(j) + (IF Pending(j) = {} THEN 0 ELSE 1)
    BY <2>1, AskedCounted
  <2>5. Count(j) \in Nat /\ MaxRequests \in Nat /\ Cardinality(Asked(j)) \in Nat
    BY <2>1, <2>4, CountTyped, FS_CardinalityType, BudgetAssumption
  <2>6. Cardinality(Asked(j)) <= MaxRequests
    BY <2>1, <2>4, <2>5 DEF Budgeted
  <2> HIDE DEF made
  <2>7. Cardinality(made) <= Cardinality(Asked(j)) /\ Cardinality(made) \in Nat
    BY <2>3, <2>4, FS_Subset, FS_CardinalityType
  <2>8. Cardinality(made) <= MaxRequests
    BY <2>5, <2>6, <2>7
  <2>9. QED BY <2>2, <2>8 DEF made
<1>3. \A p \in Procs : pc[p] = "sending" => act[p] \in Activities
  BY DEF Typing, Where
<1>4. QED BY <1>1, <1>2, <1>3 DEF SendsAreDue

(***************************************************************************)
(* A request is on its way only when it is due, a paused activity stays    *)
(* blocked but for a pause that no call remembers, and over all calls and  *)
(* kills of a directory no more than max_requests attempts reach the       *)
(* provider, and none twice.                                               *)
(***************************************************************************)
THEOREM EverySendIsDue == Spec => []SendsAreDue
BY KeptIsDue, KeptAlways, PTL

LEMMA KeptIsWhole == AllKept => PublishedIsWhole
<1> SUFFICES ASSUME AllKept PROVE PublishedIsWhole
  OBVIOUS
<1> USE DEF AllKept
<1>1. ASSUME NEW a \in Activities
      PROVE  Activity(a) /\ Backed(sent[a], journal[a]) /\ journal[a] \in Seq(Event)
  BY DEF Once, Kept, Typing, TypeOK
<1>2. ASSUME NEW a \in Activities, NEW r \in Requests, Shut(a)
      PROVE  /\ Terminals(journal[a], r) # {}
             /\ \E o \in 0..MaxRetries :
                   Answered(raw[a][<<r, o>>]) /\ sent[a][<<r, o>>] = 1
  <2>1. ~Open(journal[a], r)
    BY <1>2 DEF Shut, AllAnswered
  <2>2. /\ Terminals(journal[a], r) # {}
        /\ \E o \in 0..MaxRetries :
              Answered(raw[a][<<r, o>>]) /\ sent[a][<<r, o>>] # 0
    BY <1>1, <2>1, AnsweredHere DEF Activity
  <2>3. \A o \in 0..MaxRetries : <<r, o>> \in Attempts
    BY DEF Attempts
  <2>4. QED BY <1>1, <2>2, <2>3 DEF Backed
<1>3. ASSUME NEW a \in Activities, IsPublished(a)
      PROVE  /\ Valid(a) /\ tail[a] = "whole"
             /\ \A r \in Requests : \E o \in 0..MaxRetries :
                   Answered(raw[a][<<r, o>>]) /\ sent[a][<<r, o>>] = 1
  <2>1. Valid(a) /\ Shut(a)
    BY <1>1, <1>3 DEF Activity, IsPublished
  <2>2. QED BY <1>2, <2>1 DEF Shut
<1>4. ASSUME NEW a \in Activities, place[a] = "prepared", ~ReasonToRefuse(a)
      PROVE  Valid(a)
  <2> DEFINE j == journal[a]
  <2>1. Shut(a) /\ Books(j) /\ Filed(a) /\ Budgeted(j) /\ j \in Seq(Event)
    BY <1>1, <1>4 DEF Activity
  <2>2. JournalAccepted(j)
    BY <1>4, <2>1, BooksAccepted DEF ReasonToRefuse
  <2>3. \A i \in Rows(j, "terminal") : raw[a][j[i].at] = j[i].answer /\ ~j[i].answer.big
    BY <1>4, <2>1, RowsTyped DEF Filed, ReasonToRefuse
  <2>4. Usage(j) <= MaxVolume
    BY <1>4, <2>1, UsageTyped, BudgetAssumption DEF ReasonToRefuse
  <2>5. QED BY <1>2, <1>4, <2>1, <2>2, <2>3, <2>4 DEF Valid, Shut, Budgeted, ReasonToRefuse
<1>5. pointer # NoActivity => IsPublished(pointer)
  BY DEF Pointed
<1>6. QED BY <1>3, <1>4, <1>5 DEF PublishedIsWhole

(***************************************************************************)
(* A published generation is whole and stays so, current.json names one    *)
(* that is, and a finished directory is refused for an answer too large or *)
(* too much in all, a retried 429 or a file left by a kill only.           *)
(***************************************************************************)
THEOREM PublishedStaysWhole == Spec => []PublishedIsWhole
BY KeptIsWhole, KeptAlways, PTL

=============================================================================
