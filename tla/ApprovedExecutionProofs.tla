---------------------- MODULE ApprovedExecutionProofs ----------------------
(***************************************************************************)
(* Theorems of ApprovedExecution, for every batch, every market and every  *)
(* number of runs, crashes, torn files, commands and revisions.  Only      *)
(* BatchAssumption is assumed.                                             *)
(***************************************************************************)
EXTENDS ApprovedExecution, TLAPS

Steps == {"check", "reject", "submit", "submitted", "accept", "accepted", "fill", "report"}

-----------------------------------------------------------------------------
(* The operators the steps are built from *)

LEMMA AllowedStatuses ==
    ASSUME NEW s, NEW t \in Allowed(s)
    PROVE  t \in Statuses \ {"none"}
BY DEF Allowed, Statuses, Terminal

LEMMA PendingStatuses ==
    ASSUME NEW k \in {"cancel", "replace"}
    PROVE  Pending[k] \in Statuses \ {"none"}
BY DEF Pending, Statuses

LEMMA HappensType ==
    ASSUME happened \in [Events -> Nat], NEW e \in Events, Happens(e)
    PROVE  /\ happened' \in [Events -> Nat]
           /\ happened'[e] = happened[e] + 1
           /\ \A d \in Events \ {e} : happened'[d] = happened[d]
BY DEF Happens

LEMMA SimulatedFillType ==
    ASSUME at \in Orders, seen \in Markets, record \in Records
    PROVE  /\ SimulatedFill \in Fills
           /\ SimulatedFill.order = at
           /\ SimulatedFill.shares \in Nat
           /\ SimulatedFill.shares > 0 => SimulatedFill.status # "REJECTED"
           /\ StatusFor(SimulatedFill) \in Statuses
<1>1. seen[at] \in Nat /\ record.shares \in Nat
  BY BatchAssumption DEF Records
<1>2. Fewer(seen[at], record.shares) \in Nat
  BY <1>1 DEF Fewer
<1>3. SimulatedFill \in Fills /\ SimulatedFill.order = at /\ SimulatedFill.shares \in Nat
      /\ (SimulatedFill.shares > 0 => SimulatedFill.status # "REJECTED")
  BY <1>2 DEF SimulatedFill, Fills
<1>4. StatusFor(SimulatedFill) \in Statuses
  BY DEF StatusFor, Statuses, Terminal
<1>5. QED BY <1>3, <1>4

-----------------------------------------------------------------------------
(* Types *)

AtAnOrder == pc \in Steps => at \in Orders

Typing == TypeOK /\ AtAnOrder

LEMMA TypingInit == Init => Typing
<1> SUFFICES ASSUME Init PROVE Typing
  OBVIOUS
<1>1. NoOrder \in Records /\ 1 \in 1..(Count + 1)
  BY BatchAssumption DEF NoOrder, Records, Statuses
<1>2. orders \in [Orders -> Records] /\ happened \in [Events -> Nat]
  BY <1>1 DEF Init
<1>3. paid = {}
  BY DEF Init, Account!Init
<1>4. QED BY <1>1, <1>2, <1>3 DEF Init, Typing, TypeOK, AtAnOrder, Steps

LEMMA GoneTyped ==
    ASSUME Typing, Gone
    PROVE  /\ pc' = "idle" /\ at' \in 1..(Count + 1) /\ record' = NoOrder /\ record' \in Records
           /\ got' = {} /\ seen' = seen
BY BatchAssumption DEF Gone, NoOrder, Records, Statuses, Typing, TypeOK

LEMMA NextOrderTyped ==
    ASSUME at \in Orders, NextOrder
    PROVE  pc' = "look" /\ at' = at + 1 /\ at' \in 1..(Count + 1) /\ record' \in Records
BY BatchAssumption DEF NextOrder, NoOrder, Records, Statuses, Orders

LEMMA SaveTyped ==
    ASSUME orders \in [Orders -> Records], NEW o \in Orders, NEW r \in Records, Save(o, r)
    PROVE  /\ orders' \in [Orders -> Records] /\ orders'[o] = r
           /\ \A p \in Orders \ {o} : orders'[p] = orders[p]
BY DEF Save

LEMMA RecordTyped ==
    ASSUME NEW r \in Records, NEW status \in Statuses, NEW n \in Nat
    PROVE  /\ [r EXCEPT !.status = status, !.filled = @ + n] \in Records
           /\ [r EXCEPT !.status = status, !.filled = @ + n].status = status
           /\ [r EXCEPT !.status = status] \in Records
           /\ [r EXCEPT !.status = status].status = status
<1>1. r.filled + n \in Nat
  BY DEF Records
<1>2. QED BY <1>1 DEF Records

LEMMA TransitionTyped ==
    ASSUME Typing, NEW from \in Steps, NEW status, NEW filled \in Nat,
           NEW to \in Steps \union {"look"}, Transition(from, status, filled, to)
    PROVE  /\ Typing'
           /\ \/ /\ orders'[at] # NoOrder
                 /\ \A p \in Orders \ {at} : orders'[p] = orders[p]
                 /\ \/ pc' = "look" /\ at' = at + 1
                    \/ pc' \in Steps /\ at' = at
                 /\ got' = got
              \/ Gone /\ orders' = orders
           /\ fills' = fills
<1> USE DEF Typing, TypeOK
<1>1. at \in Orders /\ record \in Records
  BY DEF AtAnOrder, Transition
<1>2. CASE status \in Allowed(record.status)
  <2> DEFINE r == [record EXCEPT !.status = status, !.filled = @ + filled]
  <2>1. status \in Statuses \ {"none"}
    BY <1>2, AllowedStatuses
  <2>2. r \in Records /\ r.status = status
    BY <1>1, <2>1, RecordTyped
  <2>3. Save(at, r)
    BY <1>2 DEF Transition
  <2> HIDE DEF r
  <2>4. /\ orders' \in [Orders -> Records] /\ orders'[at] = r
        /\ \A p \in Orders \ {at} : orders'[p] = orders[p]
    BY <1>1, <2>2, <2>3, SaveTyped
  <2>5. orders'[at] # NoOrder
    BY <2>1, <2>2, <2>4 DEF NoOrder
  <2>6. /\ seen' = seen /\ got' = got /\ fills' = fills
        /\ UNCHANGED <<approval, deciding, decided, killed, market, command, happened,
                       cash, paid, slipped, overlapped>>
    BY <1>2 DEF Transition, outside, reviews, account, history
  <2>7. CASE to = "look"
    <3>1. NextOrder
      BY <1>2, <2>7 DEF Transition
    <3>2. pc' = "look" /\ at' = at + 1 /\ at' \in 1..(Count + 1) /\ record' \in Records
      BY <1>1, <3>1, NextOrderTyped
    <3>3. QED BY <2>4, <2>5, <2>6, <3>2 DEF AtAnOrder, Steps
  <2>8. CASE to # "look"
    <3>1. pc' = to /\ at' = at /\ record' = record
      BY <1>2, <2>8 DEF Transition
    <3>2. QED BY <1>1, <2>4, <2>5, <2>6, <2>8, <3>1 DEF AtAnOrder, Steps
  <2>9. QED BY <2>7, <2>8
<1>3. CASE status \notin Allowed(record.status)
  <2>1. Gone /\ orders' = orders /\ fills' = fills
        /\ UNCHANGED <<approval, deciding, decided, killed, market, command, happened,
                       cash, paid, slipped, overlapped>>
    BY <1>3 DEF Transition, outside, reviews, account, history
  <2>2. QED BY <2>1, GoneTyped DEF AtAnOrder, Steps
<1>4. QED BY <1>2, <1>3
LEMMA SubmittingIs == Typing /\ Submitting => pc = "look" /\ at \in Orders
BY BatchAssumption DEF Typing, TypeOK, Submitting, Orders

LEMMA AppendTyped ==
    ASSUME Typing, NEW f \in Fills, Append(f)
    PROVE  fills' \subseteq Fills /\ got' \subseteq fills' /\ paid \subseteq fills'
           /\ fills' = fills \union {f} /\ got' = got \union {f}
BY DEF Append, Typing, TypeOK

LEMMA TypingRun == Typing /\ Run => Typing'
<1> SUFFICES ASSUME Typing, Run PROVE Typing'
  OBVIOUS
<1> USE DEF Typing, TypeOK, outside, reviews, account, history
<1>1. CASE Start
  <2>1. happened' \in [Events -> Nat]
    BY <1>1, HappensType DEF Start, Events
  <2>2. at' \in 1..(Count + 1)
    BY <1>1, BatchAssumption DEF Start
  <2>3. QED BY <1>1, <2>1, <2>2 DEF Start, AtAnOrder, Steps
<1>2. CASE Replay
  <2>1. at \in Orders
    BY <1>2, SubmittingIs DEF Replay
  <2>2. pc' = "look" /\ at' \in 1..(Count + 1) /\ record' \in Records
    BY <1>2, <2>1, NextOrderTyped DEF Replay
  <2>3. got' \subseteq fills
    BY <1>2 DEF Replay, FillsOf
  <2>4. QED BY <1>2, <2>2, <2>3 DEF Replay, AtAnOrder, Steps
<1>3. CASE SaveNew
  <2>1. at \in Orders
    BY <1>3, SubmittingIs DEF SaveNew
  <2>2. record' \in Records
    BY <1>3, <2>1, BatchAssumption DEF SaveNew, Records, Statuses
  <2>3. orders' \in [Orders -> Records]
    BY <1>3, <2>1, <2>2, SaveTyped DEF SaveNew
  <2>4. QED BY <1>3, <2>1, <2>2, <2>3 DEF SaveNew, AtAnOrder
<1>4. CASE Refuse
  <2>1. at \in Orders
    BY <1>4 DEF Refuse, AtAnOrder, Steps
  <2>2. [order |-> at, shares |-> 0, status |-> "REJECTED"] \in Fills
    BY <2>1 DEF Fills
  <2>3. fills' \subseteq Fills /\ got' \subseteq fills' /\ paid \subseteq fills'
    BY <1>4, <2>2, AppendTyped DEF Refuse
  <2>4. QED BY <1>4, <2>1, <2>3 DEF Refuse, AtAnOrder
<1>5. CASE Reject
  BY <1>5, TransitionTyped DEF Reject, Steps
<1>6. CASE Pass
  BY <1>6 DEF Pass, AtAnOrder, Steps
<1>7. CASE Submit
  BY <1>7, TransitionTyped DEF Submit, Steps
<1>8. CASE Accept
  BY <1>8, TransitionTyped DEF Accept, Steps
<1>9. CASE Reread
  <2>1. at \in Orders
    BY <1>9 DEF Reread, AtAnOrder, Steps
  <2>2. record' \in Records /\ pc' \in {"accept", "fill"} /\ at' = at
    BY <1>9, <2>1 DEF Reread
  <2>3. QED BY <1>9, <2>1, <2>2 DEF Reread, AtAnOrder
<1>10. CASE Fill
  <2>1. at \in Orders
    BY <1>10 DEF Fill, AtAnOrder, Steps
  <2>2. SimulatedFill \in Fills
    BY <2>1, SimulatedFillType
  <2>3. fills' \subseteq Fills /\ got' \subseteq fills' /\ paid \subseteq fills'
    BY <1>10, <2>2, AppendTyped DEF Fill
  <2>4. slipped' \in Nat
    BY <1>10 DEF Fill
  <2>5. QED BY <1>10, <2>1, <2>3, <2>4 DEF Fill, AtAnOrder
<1>11. CASE Report
  <2>1. at \in Orders
    BY <1>11 DEF Report, Transition, AtAnOrder, Steps
  <2>2. SimulatedFill.shares \in Nat
    BY <2>1, SimulatedFillType
  <2>3. QED BY <1>11, <2>2, TransitionTyped DEF Report, Steps
<1>12. CASE Book
  <2>1. paid' \subseteq fills
    BY <1>12 DEF Book
  <2>2. QED BY <1>12, <2>1, GoneTyped DEF Book, AtAnOrder, Steps
<1>13. CASE Crash
  <2>1. happened' \in [Events -> Nat]
    BY <1>13, HappensType DEF Crash, Events
  <2>2. QED BY <1>13, <2>1, GoneTyped DEF Crash, AtAnOrder, Steps
<1>14. CASE Tear
  <2>1. happened' \in [Events -> Nat]
    BY <1>14, HappensType DEF Tear, Events
  <2>2. orders' \in [Orders -> Records]
    BY <1>14 DEF Tear, NoOrder, Records, Statuses
  <2>3. QED BY <1>14, <2>1, <2>2, GoneTyped DEF Tear, AtAnOrder, Steps
<1>15. QED BY <1>1, <1>2, <1>3, <1>4, <1>5, <1>6, <1>7, <1>8, <1>9, <1>10, <1>11, <1>12,
              <1>13, <1>14 DEF Run

LEMMA CommandIs ==
    ASSUME Typing, command # NoCommand
    PROVE  /\ command \in Commands /\ command.order \in Orders
           /\ command.record \in Records /\ command.kind \in {"cancel", "replace"}
BY DEF Typing, TypeOK, Commands

\* A write of the record in hand is of an order, with a record.
LEMMA WriteTyped ==
    ASSUME Typing, command # NoCommand, NEW status \in Statuses, NEW step
    PROVE  LET r == [command.record EXCEPT !.status = status]
           IN /\ r \in Records /\ r.status = status
              /\ step \in {"pend", "read", "cancel", "replace", "accept"} =>
                     [command EXCEPT !.step = step, !.record = r] \in Commands
<1> DEFINE r == [command.record EXCEPT !.status = status]
<1>1. r \in Records /\ r.status = status
  BY CommandIs, RecordTyped
<1> HIDE DEF r
<1>2. step \in {"pend", "read", "cancel", "replace", "accept"} =>
          [command EXCEPT !.step = step, !.record = r] \in Commands
  BY <1>1, CommandIs DEF Commands
<1>3. QED BY <1>1, <1>2 DEF r

\* What a command leaves alone, and that it makes no order disappear but in a
\* torn file.
Around ==
    /\ fills' = fills /\ pc' = pc /\ at' = at /\ got' = got /\ paid' = paid
    /\ killed' = killed /\ slipped' = slipped /\ decided' = decided /\ approval' = approval
    /\ deciding' = deciding
    /\ happened'["tear"] = 0 =>
          happened["tear"] = 0 /\ \A o \in Orders : orders[o] # NoOrder => orders'[o] # NoOrder

LEMMA SavedIsThere ==
    ASSUME Typing, NEW o \in Orders, NEW r \in Records, r.status # "none", Save(o, r),
           UNCHANGED <<around, happened>>
    PROVE  /\ orders' \in [Orders -> Records]
           /\ Around
<1>1. /\ orders' \in [Orders -> Records] /\ orders'[o] = r
      /\ \A p \in Orders \ {o} : orders'[p] = orders[p]
  BY SaveTyped DEF Typing, TypeOK
<1>2. orders'[o] # NoOrder
  BY <1>1 DEF NoOrder
<1>3. QED BY <1>1, <1>2 DEF Around, around, run, reviews, account

LEMMA TypingOperate == Typing /\ Operate => Typing' /\ Around
<1> SUFFICES ASSUME Typing, Operate PROVE Typing' /\ Around
  OBVIOUS
<1> DEFINE Kept == UNCHANGED around /\ overlapped' \in BOOLEAN
<1>1. ASSUME Kept, orders' \in [Orders -> Records], happened' \in [Events -> Nat],
             command' \in Commands \union {NoCommand}
      PROVE  Typing'
  BY <1>1 DEF Typing, TypeOK, AtAnOrder, around, reviews, run, account
<1>2. overlapped \in BOOLEAN /\ happened \in [Events -> Nat] /\ orders \in [Orders -> Records]
  BY DEF Typing, TypeOK
<1>3. ASSUME NEW kind \in {"cancel", "replace"}, NEW o \in Orders, Ask(kind, o)
      PROVE  Typing' /\ Around
  <2>1. happened' \in [Events -> Nat] /\ happened'["tear"] = happened["tear"]
    BY <1>2, <1>3, HappensType DEF Ask, Events
  <2>2. command' \in Commands
    BY <1>2, <1>3 DEF Ask, Commands
  <2>3. Kept /\ orders' = orders
    BY <1>2, <1>3 DEF Ask
  <2>4. QED BY <1>1, <1>2, <2>1, <2>2, <2>3 DEF Around, around, reviews, run, account
<1>4. CASE Pend
  <2>1. command # NoCommand
    BY <1>4 DEF Pend, AtStep
  <2> DEFINE status == Pending[command.kind]
             r == [command.record EXCEPT !.status = status]
  <2>2. status \in Statuses \ {"none"} /\ command.order \in Orders
    BY <2>1, CommandIs, PendingStatuses
  <2>3. /\ Save(command.order, r) /\ command' = [command EXCEPT !.step = "read", !.record = r]
        /\ UNCHANGED <<around, overlapped, happened>>
    BY <1>4 DEF Pend, Write
  <2> HIDE DEF status
  <2>4. r \in Records /\ r.status = status
        /\ [command EXCEPT !.step = "read", !.record = r] \in Commands
    BY <2>1, <2>2, WriteTyped
  <2> HIDE DEF r
  <2>5. orders' \in [Orders -> Records] /\ Around
    BY <2>2, <2>3, <2>4, SavedIsThere
  <2>6. QED BY <1>1, <1>2, <2>3, <2>4, <2>5
<1>5. CASE ReadPending
  <2>1. command # NoCommand
    BY <1>5 DEF ReadPending, AtStep
  <2>2. command \in Commands /\ orders[command.order] \in Records
    BY <1>2, <2>1, CommandIs
  <2>3. command' \in Commands \union {NoCommand}
    <3> DEFINE r == orders[command.order]
    <3>1. command' = NoCommand \/ command' = [command EXCEPT !.step = command.kind, !.record = r]
      BY <1>5 DEF ReadPending
    <3>2. [command EXCEPT !.step = command.kind, !.record = r] \in Commands
      BY <2>2 DEF Commands
    <3>3. QED BY <3>1, <3>2
  <2>4. Kept /\ orders' = orders /\ happened' = happened
    BY <1>2, <1>5 DEF ReadPending
  <2>5. QED BY <1>1, <1>2, <2>3, <2>4 DEF Around, around, reviews, run, account
<1>6. CASE Cancel \/ AcceptReplaced
  <2>1. command # NoCommand /\ command' = NoCommand
        /\ UNCHANGED <<around, overlapped, happened>>
    BY <1>6 DEF Cancel, AcceptReplaced, AtStep
  <2>2. PICK status \in {"cancelled", "accepted"} :
            Save(command.order, [command.record EXCEPT !.status = status])
    BY <1>6 DEF Cancel, AcceptReplaced
  <2> DEFINE r == [command.record EXCEPT !.status = status]
  <2>3. r \in Records /\ r.status = status /\ status # "none" /\ command.order \in Orders
    <3>1. status \in Statuses
      BY DEF Statuses, Terminal
    <3>2. QED BY <2>1, <3>1, CommandIs, RecordTyped
  <2>4. Save(command.order, r)
    BY <2>2
  <2> HIDE DEF r
  <2>5. orders' \in [Orders -> Records] /\ Around
    BY <2>1, <2>3, <2>4, SavedIsThere
  <2>6. QED BY <1>1, <1>2, <2>1, <2>5
<1>7. ASSUME NEW shares \in NewShares, Replace(shares)
      PROVE  Typing' /\ Around
  <2> DEFINE r == [command.record EXCEPT !.status = "replaced", !.shares = shares]
  <2>1. command # NoCommand /\ Save(command.order, r)
        /\ command' = [command EXCEPT !.step = "accept", !.record = r]
        /\ UNCHANGED <<around, overlapped, happened>>
    BY <1>7 DEF Replace, AtStep
  <2>2. shares \in Nat /\ command \in Commands
    BY <2>1, BatchAssumption, CommandIs
  <2>3. command.record \in Records /\ command.order \in Orders
    BY <2>1, CommandIs
  <2>4. r \in Records /\ r.status # "none"
    BY <2>2, <2>3 DEF Records, Statuses
  <2> HIDE DEF r
  <2>5. [command EXCEPT !.step = "accept", !.record = r] \in Commands
    BY <2>2, <2>4 DEF Commands
  <2>6. orders' \in [Orders -> Records] /\ Around
    BY <2>1, <2>3, <2>4, SavedIsThere
  <2>7. QED BY <1>1, <1>2, <2>1, <2>5, <2>6
<1>8. CASE CommandDies
  <2>1. happened' \in [Events -> Nat] /\ happened'["tear"] = happened["tear"]
    BY <1>2, <1>8, HappensType DEF CommandDies, Events
  <2>2. Kept /\ orders' = orders /\ command' = NoCommand
    BY <1>2, <1>8 DEF CommandDies
  <2>3. QED BY <1>1, <1>2, <2>1, <2>2 DEF Around, around, reviews, run, account
<1>9. CASE CommandTears
  <2>1. happened' \in [Events -> Nat] /\ happened'["tear"] # 0
    <3>1. happened' \in [Events -> Nat] /\ happened'["tear"] = happened["tear"] + 1
      BY <1>2, <1>9, HappensType DEF CommandTears, Events
    <3>2. happened["tear"] \in Nat
      BY <1>2 DEF Events
    <3>3. QED BY <3>1, <3>2
  <2>2. Kept /\ command' = NoCommand
    BY <1>2, <1>9 DEF CommandTears
  <2>3. orders' \in [Orders -> Records]
    BY <1>9 DEF CommandTears, NoOrder, Records, Statuses
  <2>4. QED BY <1>1, <2>1, <2>2, <2>3 DEF Around, around, reviews, run, account
<1>10. QED BY <1>3, <1>4, <1>5, <1>6, <1>7, <1>8, <1>9 DEF Operate

LEMMA TypingStep == Typing /\ [Next]_vars => Typing'
<1> SUFFICES ASSUME Typing, [Next]_vars PROVE Typing'
  OBVIOUS
<1> USE DEF Typing, TypeOK, AtAnOrder
<1>1. CASE UNCHANGED vars
  BY <1>1 DEF vars, reviews, run, account, history
<1>2. ASSUME NEW d \in Decisions, DecideRead(d) \/ DecideWrite(d)
      PROVE  Typing'
  BY <1>2 DEF DecideRead, DecideWrite, run, account, history
<1>3. CASE Run
  BY <1>3, TypingRun
<1>4. CASE Operate
  BY <1>4, TypingOperate
<1>5. CASE Switch
  <2>1. happened' \in [Events -> Nat]
    BY <1>5, HappensType DEF Switch, Events
  <2>2. QED BY <1>5, <2>1 DEF Switch, reviews, run, account
<1>6. CASE Revise
  <2>1. happened' \in [Events -> Nat]
    BY <1>6, HappensType DEF Revise, Events
  <2>2. QED BY <1>6, <2>1 DEF Revise, reviews, run, account, history
<1>7. QED BY <1>1, <1>2, <1>3, <1>4, <1>5, <1>6 DEF Next

(***************************************************************************)
(* Every variable keeps its type, whatever is torn, killed or repeated.    *)
(***************************************************************************)
THEOREM TypeCorrect == Spec => []TypeOK
<1>1. Typing => TypeOK
  BY DEF Typing
<1>2. Typing /\ [Next]_vars => Typing'
  BY TypingStep
<1>3. QED BY <1>1, <1>2, TypingInit, PTL DEF Spec

-----------------------------------------------------------------------------
(* The kill switch *)

LetThrough == {"submit", "submitted", "accept", "accepted", "fill"}

\* Once an order has slipped the run is past it, and lets none through.
Slipping ==
    /\ Typing
    /\ AtMostOneSlips
    /\ killed /\ slipped >= 1 => pc \notin LetThrough

LEMMA SlippingStep == Slipping /\ [Next]_vars => Slipping'
<1> SUFFICES ASSUME Slipping, [Next]_vars PROVE Slipping'
  OBVIOUS
<1>0. Typing' /\ slipped \in Nat
  BY TypingStep DEF Slipping, Typing, TypeOK
<1> USE DEF Slipping, AtMostOneSlips
<1>1. ASSUME killed' = killed, slipped' = slipped,
             pc' \in LetThrough => pc \in LetThrough \/ ~killed
      PROVE  Slipping'
  BY <1>0, <1>1
<1>2. CASE UNCHANGED vars
  BY <1>1, <1>2 DEF vars, run, history
<1>3. ASSUME NEW d \in Decisions, DecideRead(d) \/ DecideWrite(d)
      PROVE  Slipping'
  BY <1>1, <1>3 DEF DecideRead, DecideWrite, run, history
<1>4. CASE Start \/ Replay \/ SaveNew \/ Refuse
  BY <1>1, <1>4 DEF Start, Replay, SaveNew, Refuse, NextOrder, outside, history, LetThrough
<1>5. CASE Pass
  BY <1>1, <1>5 DEF Pass, outside, history
<1>6. CASE Reject \/ Submit \/ Accept \/ Report
  <2>1. killed' = killed /\ slipped' = slipped
    BY <1>6 DEF Reject, Submit, Accept, Report, Transition, outside, history
  <2>2. pc' \in LetThrough => pc \in LetThrough
    BY <1>6 DEF Reject, Submit, Accept, Report, Transition, Gone, NextOrder, LetThrough
  <2>3. QED BY <1>1, <2>1, <2>2
<1>7. CASE Reread
  BY <1>1, <1>7 DEF Reread, outside, history, LetThrough
<1>8. CASE Fill
  <2>1. killed' = killed /\ pc = "fill" /\ pc' = "report"
        /\ slipped' \in {slipped, slipped + 1}
    BY <1>8 DEF Fill, outside
  <2>2. killed => slipped = 0
    BY <1>0, <2>1 DEF LetThrough
  <2>3. QED BY <1>0, <2>1, <2>2 DEF LetThrough
<1>9. CASE Book \/ Crash \/ Tear
  BY <1>1, <1>9 DEF Book, Crash, Tear, Gone, outside, history, LetThrough
<1>10. CASE Operate
  BY <1>1, <1>10, TypingOperate DEF Around
<1>11. CASE Switch
  BY <1>0, <1>11 DEF Switch
<1>12. CASE Revise
  BY <1>1, <1>12 DEF Revise, run, history
<1>13. QED BY <1>2, <1>3, <1>4, <1>5, <1>6, <1>7, <1>8, <1>9, <1>10, <1>11, <1>12
           DEF Next, Run

(***************************************************************************)
(* Once the kill switch is active at most one more order gets shares.      *)
(***************************************************************************)
THEOREM KillSwitchHolds == Spec => []AtMostOneSlips
<1>1. Init => Slipping
  BY TypingInit DEF Init, Slipping, AtMostOneSlips
<1>2. Slipping => AtMostOneSlips
  BY DEF Slipping
<1>3. QED BY <1>1, <1>2, SlippingStep, PTL DEF Spec

-----------------------------------------------------------------------------
(* The fills a run collects *)

\* Unless the store of orders was torn, the order of every fill is in it, and
\* so is the order the run is at ...
OrdersKnown ==
    /\ \A f \in fills : orders[f.order] # NoOrder
    /\ pc \in Steps => orders[at] # NoOrder

\* ... and a run has collected the fills of every order it has been at.
Collected ==
    pc # "idle" =>
        \A f \in fills : f.order < at \/ (f.order = at /\ pc # "look") => f \in got

Collecting == Typing /\ (happened["tear"] = 0 => OrdersKnown /\ Collected)

LEMMA CollectingRun ==
    ASSUME Collecting, Run, Typing', happened'["tear"] = 0
    PROVE  OrdersKnown' /\ Collected'
<1>0. Typing /\ happened \in [Events -> Nat] /\ fills \subseteq Fills /\ at \in Int
  BY BatchAssumption DEF Collecting, Typing, TypeOK
<1>1. \A f \in fills : f.order \in Orders /\ f.order \in Int
  BY <1>0, BatchAssumption DEF Fills, Orders
<1>2. ~Tear /\ happened["tear"] = 0
  <2>1. CASE Crash \/ Start
    BY <1>0, <2>1, HappensType DEF Crash, Start, Tear, Events
  <2>2. CASE Tear
    <3>1. happened'["tear"] = happened["tear"] + 1 /\ happened["tear"] \in Nat
      BY <1>0, <2>2, HappensType DEF Tear, Events
    <3>2. QED BY <3>1
  <2>3. CASE ~(Crash \/ Start \/ Tear)
    BY <2>3 DEF Run, Replay, SaveNew, Refuse, Reject, Pass, Submit, Accept, Reread, Fill,
                Report, Book, Transition, outside
  <2>4. QED BY <2>1, <2>2, <2>3
<1>3. OrdersKnown /\ Collected
  BY <1>2 DEF Collecting
<1> USE DEF OrdersKnown, Collected
<1>4. CASE Start
  BY <1>1, <1>3, <1>4 DEF Start, Orders, Steps
<1>5. CASE Replay
  <2>1. /\ pc = "look" /\ pc' = "look" /\ at' = at + 1 /\ orders' = orders
        /\ fills' = fills /\ got' = got \union {f \in fills : f.order = at}
    BY <1>5 DEF Replay, NextOrder, FillsOf, Submitting
  <2>2. \A f \in fills : f.order < at + 1 => f.order < at \/ f.order = at
    BY <1>0, <1>1
  <2>3. QED BY <1>3, <2>1, <2>2 DEF Steps
<1>6. CASE SaveNew
  <2>1. at \in Orders
    BY <1>0, <1>6, SubmittingIs DEF SaveNew
  <2>2. /\ record' \in Records /\ record'.status = "new" /\ Save(at, record')
        /\ pc = "look" /\ pc' = "check" /\ at' = at /\ got' = got /\ fills' = fills
        /\ orders[at] = NoOrder
    BY <1>6, SubmittingIs DEF SaveNew, Submitting, Typing, TypeOK
  <2>3. /\ orders'[at] = record'
        /\ \A p \in Orders \ {at} : orders'[p] = orders[p]
    BY <1>0, <2>1, <2>2, SaveTyped DEF Typing, TypeOK
  <2>4. orders'[at] # NoOrder
    BY <2>2, <2>3 DEF NoOrder
  <2>5. \A f \in fills : f.order # at
    BY <1>3, <2>2
  <2>6. QED BY <1>1, <1>3, <2>2, <2>3, <2>4, <2>5
<1>7. CASE Refuse \/ Fill
  <2>1. at \in Orders /\ pc \in Steps
    BY <1>1, <1>7 DEF Refuse, Fill, Typing, AtAnOrder, Steps
  <2>2. PICK f : f.order = at /\ fills' = fills \union {f} /\ got' = got \union {f}
    <3>1. CASE Refuse
      BY <3>1 DEF Refuse, Append
    <3>2. CASE Fill
      BY <1>0, <2>1, <3>2, SimulatedFillType DEF Fill, Append, Typing, TypeOK
    <3>3. QED BY <1>7, <3>1, <3>2
  <2>3. pc' \in Steps /\ at' = at /\ orders' = orders
    BY <1>7 DEF Refuse, Fill, Steps
  <2>4. QED BY <1>1, <1>3, <2>1, <2>2, <2>3 DEF Steps
<1>8. CASE Reject \/ Submit \/ Accept \/ Report
  <2>1. at \in Orders /\ pc \in Steps /\ fills' = fills
    BY <1>0, <1>8 DEF Reject, Submit, Accept, Report, Transition, Typing, AtAnOrder, Steps
  <2>2. SimulatedFill.shares \in Nat
    BY <1>0, <2>1, SimulatedFillType DEF Typing, TypeOK
  <2>3. \/ /\ orders'[at] # NoOrder
           /\ \A p \in Orders \ {at} : orders'[p] = orders[p]
           /\ \/ pc' = "look" /\ at' = at + 1
              \/ pc' \in Steps /\ at' = at
           /\ got' = got
        \/ Gone /\ orders' = orders
    <3>1. CASE Report
      BY <1>0, <2>2, <3>1, TransitionTyped DEF Report, Steps
    <3>2. CASE Reject
      BY <1>0, <3>2, TransitionTyped DEF Reject, Steps
    <3>3. CASE Submit
      BY <1>0, <3>3, TransitionTyped DEF Submit, Steps
    <3>4. CASE Accept
      BY <1>0, <3>4, TransitionTyped DEF Accept, Steps
    <3>5. QED BY <1>8, <3>1, <3>2, <3>3, <3>4
  <2>5. CASE Gone /\ orders' = orders
    BY <1>3, <2>1, <2>5 DEF Gone, Steps
  <2>6. CASE /\ orders'[at] # NoOrder
             /\ \A p \in Orders \ {at} : orders'[p] = orders[p]
             /\ pc' = "look" /\ at' = at + 1 /\ got' = got
    <3>1. \A f \in fills : f.order < at + 1 => f.order < at \/ f.order = at
      BY <1>0, <1>1
    <3>2. \A f \in fills : orders'[f.order] # NoOrder
      BY <1>1, <1>3, <2>1, <2>6
    <3>3. QED BY <1>3, <2>1, <2>6, <3>1, <3>2 DEF Steps
  <2>7. CASE /\ orders'[at] # NoOrder
             /\ \A p \in Orders \ {at} : orders'[p] = orders[p]
             /\ pc' \in Steps /\ at' = at /\ got' = got
    BY <1>1, <1>3, <2>1, <2>7 DEF Steps
  <2>8. QED BY <2>3, <2>5, <2>6, <2>7
<1>9. CASE Pass \/ Reread
  BY <1>1, <1>3, <1>9 DEF Pass, Reread, Steps
<1>10. CASE Book \/ Crash
  BY <1>3, <1>10 DEF Book, Crash, Gone, Steps
<1>11. QED BY <1>2, <1>4, <1>5, <1>6, <1>7, <1>8, <1>9, <1>10 DEF Run

LEMMA CollectingStep == Collecting /\ [Next]_vars => Collecting'
<1> SUFFICES ASSUME Collecting, [Next]_vars PROVE Collecting'
  OBVIOUS
<1>0. Typing' /\ Typing
  BY TypingStep DEF Collecting
<1>1. ASSUME UNCHANGED <<orders, fills, run>>, happened'["tear"] = happened["tear"]
      PROVE  Collecting'
  BY <1>0, <1>1 DEF Collecting, OrdersKnown, Collected, run
<1>2. CASE UNCHANGED vars
  BY <1>1, <1>2 DEF vars
<1>3. ASSUME NEW d \in Decisions, DecideRead(d) \/ DecideWrite(d)
      PROVE  Collecting'
  BY <1>1, <1>3 DEF DecideRead, DecideWrite
<1>4. CASE Run
  BY <1>0, <1>4, CollectingRun DEF Collecting
<1>5. CASE Operate
  <2>1. Around
    BY <1>0, <1>5, TypingOperate
  <2>2. (pc \in Steps => at \in Orders) /\ \A f \in fills : f.order \in Orders
    BY <1>0 DEF Typing, TypeOK, AtAnOrder, Fills
  <2>3. QED BY <1>0, <2>1, <2>2 DEF Collecting, OrdersKnown, Collected, Around
<1>6. CASE Switch \/ Revise
  <2>1. happened'["tear"] = happened["tear"]
    BY <1>0, <1>6, HappensType DEF Switch, Revise, Events, Typing, TypeOK
  <2>2. QED BY <1>1, <1>6, <2>1 DEF Switch, Revise
<1>7. QED BY <1>2, <1>3, <1>4, <1>5, <1>6 DEF Next

(***************************************************************************)
(* A run that reports "executed" has booked every fill the store has of    *)
(* the batch, unless the store of orders was torn, and no other.           *)
(***************************************************************************)
THEOREM BookedWhenExecuted == Spec => ExecutedIsBooked
<1>1. Init => Collecting
  BY TypingInit DEF Init, Collecting, OrdersKnown, Collected, Steps
<1>2. Collecting /\ Book => /\ happened["tear"] = 0 => fills \subseteq paid'
                            /\ paid' \subseteq fills
  <2> SUFFICES ASSUME Collecting, Book
               PROVE  /\ happened["tear"] = 0 => fills \subseteq paid'
                      /\ paid' \subseteq fills
    OBVIOUS
  <2>1. paid' = paid \union got /\ pc = "look" /\ at > Count
    BY DEF Book
  <2>2. got \subseteq fills /\ paid \subseteq fills /\ at \in Int /\ Count \in Nat
        /\ \A f \in fills : f.order \in 1..Count
    BY BatchAssumption DEF Collecting, Typing, TypeOK, Fills, Orders
  <2>3. happened["tear"] = 0 => fills \subseteq got
    BY <2>1, <2>2 DEF Collecting, Collected
  <2>4. QED BY <2>1, <2>2, <2>3
<1>3. QED BY <1>1, <1>2, CollectingStep, PTL DEF Spec, ExecutedIsBooked

-----------------------------------------------------------------------------
(* The approval *)

Approving ==
    /\ Typing
    /\ approval = "approved" \/ pc # "idle" \/ fills # {} => "approved" \in decided

LEMMA ApprovingStep == Approving /\ [Next]_vars => Approving'
<1> SUFFICES ASSUME Approving, [Next]_vars PROVE Approving'
  OBVIOUS
<1>0. Typing'
  BY TypingStep DEF Approving
<1> USE DEF Approving
<1>1. ASSUME approval' = approval, decided' = decided,
             pc' # "idle" => pc # "idle" \/ approval = "approved",
             fills' = fills \/ pc # "idle"
      PROVE  Approving'
  BY <1>0, <1>1
<1>2. CASE UNCHANGED vars
  BY <1>1, <1>2 DEF vars, run, reviews
<1>3. ASSUME NEW d \in Decisions, DecideRead(d)
      PROVE  Approving'
  BY <1>1, <1>3 DEF DecideRead, run
<1>4. ASSUME NEW d \in Decisions, DecideWrite(d)
      PROVE  Approving'
  BY <1>0, <1>4 DEF DecideWrite, run
<1>5. CASE Start \/ Replay \/ SaveNew \/ Refuse \/ Pass \/ Reread \/ Fill
  BY <1>1, <1>5 DEF Start, Replay, SaveNew, Refuse, Pass, Reread, Fill, Submitting, outside,
                    reviews
<1>6. CASE Reject \/ Submit \/ Accept \/ Report
  BY <1>1, <1>6 DEF Reject, Submit, Accept, Report, Transition, outside, reviews
<1>7. CASE Book \/ Crash \/ Tear
  BY <1>1, <1>7 DEF Book, Crash, Tear, Gone, outside, reviews
<1>8. CASE Operate
  BY <1>1, <1>8, TypingOperate DEF Around
<1>9. CASE Switch \/ Revise
  BY <1>1, <1>9 DEF Switch, Revise, run, reviews
<1>10. QED BY <1>2, <1>3, <1>4, <1>5, <1>6, <1>7, <1>8, <1>9 DEF Next, Run

(***************************************************************************)
(* Nothing is filled of a batch nobody approved, whatever other reviewers  *)
(* write over the approval.                                                *)
(***************************************************************************)
THEOREM FilledIsApproved == Spec => []OnlyApproved
<1>1. Init => Approving
  BY TypingInit DEF Init, Approving
<1>2. Approving => OnlyApproved
  BY DEF Approving, OnlyApproved
<1>3. QED BY <1>1, <1>2, ApprovingStep, PTL DEF Spec

-----------------------------------------------------------------------------
(* The two files of the broker's store                                     *)

\* What a record says of fills, if F are the fills of its order.
Backed(F, r) == r.filled > 0 => \E f \in F : f.shares = r.filled

AgreesWith(F, r) ==
    /\ Backed(F, r)
    /\ r.status = "filled" => r.filled = r.shares
    /\ r.status = "partial_filled" => r.filled \in 1..(r.shares - 1)
    /\ r.status = "rejected" => r.filled = 0 /\ F # {}

StoreAgrees == \A o \in Orders : AgreesWith(FillsOf(o), orders[o])

\* While the run is at an order nobody else writes it: the record is what the
\* step before has made of the approved order, and it has no fill yet.
StatusAt == [check |-> "new", reject |-> "new", submit |-> "new",
             submitted |-> "submitted", accept |-> "submitted",
             accepted |-> "accepted", fill |-> "accepted", report |-> "accepted"]

Fresh(o, label) == [status |-> StatusAt[label], shares |-> Approved[o], filled |-> 0]

InHand ==
    pc \in Steps =>
        /\ (IF pc \in {"submitted", "accepted"} THEN orders[at] ELSE record) = Fresh(at, pc)
        /\ orders[at] # NoOrder
        /\ pc = "reject" => FillsOf(at) # {}
        /\ pc = "report" => SimulatedFill \in fills

OneAtATime ==
    /\ pc = "idle" \/ command = NoCommand
    /\ command # NoCommand => Backed(FillsOf(command.order), command.record)

\* Unless the store of orders was torn, an order is filled once ...
FilledOnce ==
    happened["tear"] = 0 =>
        /\ \A o \in Orders : \A f, g \in FillsOf(o) : f = g /\ f.shares <= Approved[o]
        /\ pc \in Steps \ {"reject", "report"} => FillsOf(at) = {}

\* ... and unless the market data was revised, always in the same way, except
\* that it may be refused.
Refusal(o) == [order |-> o, shares |-> 0, status |-> "REJECTED"]
Given(o) ==
    LET shares == Fewer(market[o], Approved[o])
    IN [order |-> o, shares |-> shares,
        status |-> IF shares = 0 THEN "REJECTED"
                   ELSE IF shares < Approved[o] THEN "PARTIAL" ELSE "FILLED"]

FilledAlike ==
    happened["revision"] = 0 =>
        /\ pc # "idle" => seen = market
        /\ \A o \in Orders : FillsOf(o) \subseteq {Refusal(o), Given(o)}

Orderly == InHand /\ OneAtATime /\ StoreAgrees /\ FilledOnce /\ FilledAlike

Keeping == Collecting /\ (~overlapped => Orderly)

LEMMA MoreFills ==
    ASSUME NEW F, NEW G, F \subseteq G, NEW r, AgreesWith(F, r)
    PROVE  AgreesWith(G, r)
BY DEF AgreesWith, Backed

LEMMA NothingSaid ==
    ASSUME NEW F, NEW r, r.filled = 0,
           r.status \notin {"filled", "partial_filled", "rejected"}
    PROVE  AgreesWith(F, r)
BY DEF AgreesWith, Backed

LEMMA FreshIs ==
    ASSUME NEW o \in Orders, NEW label \in Steps
    PROVE  /\ Fresh(o, label) \in Records
           /\ Fresh(o, label).status = StatusAt[label]
           /\ Fresh(o, label).shares = Approved[o] /\ Approved[o] \in Nat
           /\ Fresh(o, label).filled = 0
           /\ StatusAt[label] \in {"new", "submitted", "accepted"}
<1>1. StatusAt[label] \in {"new", "submitted", "accepted"}
  BY DEF StatusAt, Steps
<1>2. Approved[o] \in Nat
  BY BatchAssumption
<1>3. QED BY <1>1, <1>2 DEF Fresh, Records, Statuses

LEMMA FillsOfUnion ==
    ASSUME NEW f, fills' = fills \union {f}, NEW o
    PROVE  FillsOf(o)' = IF f.order = o THEN FillsOf(o) \union {f} ELSE FillsOf(o)
BY DEF FillsOf

LEMMA KeepingInit == Init => Keeping
<1> SUFFICES ASSUME Init PROVE Keeping
  OBVIOUS
<1>1. Collecting
  BY TypingInit DEF Init, Collecting, OrdersKnown, Collected, Steps
<1>2. \A o \in Orders : FillsOf(o) = {} /\ orders[o] = NoOrder
  BY DEF Init, FillsOf
<1>3. StoreAgrees
  BY <1>2, NothingSaid DEF StoreAgrees, NoOrder
<1>4. InHand /\ OneAtATime /\ FilledOnce /\ FilledAlike
  BY <1>2 DEF Init, InHand, OneAtATime, FilledOnce, FilledAlike, Steps
<1>5. QED BY <1>1, <1>3, <1>4 DEF Keeping, Orderly

-----------------------------------------------------------------------------
\* The run is at an order: what it may take for granted.
LEMMA AtOrder ==
    ASSUME Typing, Orderly, pc \in Steps
    PROVE  /\ at \in Orders /\ record \in Records /\ orders[at] \in Records
           /\ command = NoCommand /\ pc # "idle"
           /\ pc \notin {"submitted", "accepted"} => record = Fresh(at, pc)
           /\ pc \in {"submitted", "accepted"} => orders[at] = Fresh(at, pc)
BY DEF Typing, TypeOK, AtAnOrder, Orderly, InHand, OneAtATime, Steps

\* A step of the run that writes one record, or none, and adds no fill.
LEMMA OrderlyWrite ==
    ASSUME Typing, Orderly, NEW o \in Orders, NEW r \in Records,
           orders' \in [Orders -> Records], orders'[o] = r,
           \A p \in Orders \ {o} : orders'[p] = orders[p],
           fills' = fills, AgreesWith(FillsOf(o), r)
    PROVE  StoreAgrees'
<1>1. \A p \in Orders : FillsOf(p)' = FillsOf(p)
  BY DEF FillsOf
<1>2. \A p \in Orders : AgreesWith(FillsOf(p), orders'[p])
  BY DEF Orderly, StoreAgrees
<1>3. QED BY <1>1, <1>2 DEF StoreAgrees

LEMMA SameFills ==
    ASSUME Orderly, fills' = fills, market' = market,
           happened'["tear"] = happened["tear"],
           happened'["revision"] = happened["revision"],
           pc' \in Steps \ {"reject", "report"} /\ happened["tear"] = 0 =>
               FillsOf(at') = {},
           pc' # "idle" => seen' = market \/ (pc # "idle" /\ seen' = seen)
    PROVE  FilledOnce' /\ FilledAlike'
<1>1. \A p : FillsOf(p)' = FillsOf(p)
  BY DEF FillsOf
<1>2. FilledOnce'
  BY <1>1 DEF Orderly, FilledOnce, FillsOf
<1>3. FilledAlike'
  BY <1>1 DEF Orderly, FilledAlike, Given, Refusal
<1>4. QED BY <1>2, <1>3

\* The steps of the run that touch neither file.
LEMMA OrderlyQuiet ==
    ASSUME Typing, Typing', Orderly, ~overlapped',
           Start \/ Replay \/ Pass \/ Reread \/ Book \/ Crash
    PROVE  Orderly'
<1> USE DEF outside, reviews, account, history
<1>1. orders' = orders /\ fills' = fills /\ command' = command /\ market' = market
  BY DEF Start, Replay, Pass, Reread, Book, Crash
<1>2. \A p : FillsOf(p)' = FillsOf(p)
  BY <1>1 DEF FillsOf
<1>3. StoreAgrees'
  BY <1>1, <1>2 DEF Orderly, StoreAgrees
<1>4. happened'["tear"] = happened["tear"] /\ happened'["revision"] = happened["revision"]
  BY HappensType DEF Start, Replay, Pass, Reread, Book, Crash, Typing, TypeOK, Events
<1>5. OneAtATime'
  <2>1. CASE Start
    BY <1>1, <2>1 DEF Start, OneAtATime
  <2>2. CASE ~Start
    <3>1. pc # "idle"
      BY <2>2 DEF Replay, Pass, Reread, Book, Crash, Submitting
    <3>2. QED BY <1>1, <3>1 DEF Orderly, OneAtATime
  <2>3. QED BY <2>1, <2>2
<1>6. CASE Start \/ Replay \/ Book \/ Crash
  <2>1. pc' \in {"look", "idle"}
    BY <1>6 DEF Start, Replay, NextOrder, Book, Crash, Gone
  <2>2. pc' # "idle" => seen' = market \/ (pc # "idle" /\ seen' = seen)
    BY <1>6 DEF Start, Replay, Book, Crash, Gone, Submitting
  <2>3. FilledOnce' /\ FilledAlike'
    BY <1>1, <1>4, <2>1, <2>2, SameFills DEF Steps
  <2>4. InHand'
    BY <2>1 DEF InHand, Steps
  <2>5. QED BY <1>3, <1>5, <2>3, <2>4 DEF Orderly
<1>7. CASE Pass
  <2>1. pc = "check" /\ pc' = "submit" /\ UNCHANGED <<at, seen, record>>
    BY <1>7 DEF Pass
  <2>2. at \in Orders /\ record = Fresh(at, "check") /\ orders[at] # NoOrder
    BY <2>1, AtOrder DEF Steps, Orderly, InHand
  <2>3. Fresh(at, "check") = Fresh(at, "submit")
    BY DEF Fresh, StatusAt
  <2>4. InHand'
    BY <1>1, <2>1, <2>2, <2>3 DEF InHand
  <2>5. happened["tear"] = 0 => FillsOf(at') = {}
    BY <2>1 DEF Orderly, FilledOnce, Steps
  <2>6. FilledOnce' /\ FilledAlike'
    BY <1>1, <1>4, <2>1, <2>5, SameFills
  <2>7. QED BY <1>3, <1>5, <2>4, <2>6 DEF Orderly
<1>8. CASE Reread
  <2>1. /\ pc \in {"submitted", "accepted"} /\ UNCHANGED <<at, seen>>
        /\ pc' = (IF pc = "submitted" THEN "accept" ELSE "fill")
        /\ orders[at] # NoOrder => record' = orders[at]
    BY <1>8 DEF Reread
  <2>2. at \in Orders /\ orders[at] = Fresh(at, pc) /\ orders[at] # NoOrder
    BY <2>1, AtOrder DEF Steps, Orderly, InHand
  <2>3. Fresh(at, "submitted") = Fresh(at, "accept")
        /\ Fresh(at, "accepted") = Fresh(at, "fill")
    BY DEF Fresh, StatusAt
  <2>4. InHand'
    BY <1>1, <2>1, <2>2, <2>3 DEF InHand
  <2>5. happened["tear"] = 0 => FillsOf(at') = {}
    BY <2>1 DEF Orderly, FilledOnce, Steps
  <2>6. FilledOnce' /\ FilledAlike'
    BY <1>1, <1>4, <2>1, <2>5, SameFills
  <2>7. QED BY <1>3, <1>5, <2>4, <2>6 DEF Orderly
<1>9. QED BY <1>6, <1>7, <1>8

LEMMA OrderlySaveNew ==
    ASSUME Typing, Collecting, Orderly, SaveNew
    PROVE  Orderly'
<1> USE DEF outside, reviews, account, history
<1>1. /\ at \in Orders /\ pc = "look" /\ pc' = "check" /\ at' = at /\ orders[at] = NoOrder
      /\ UNCHANGED <<fills, market, command, seen, happened>>
      /\ record' = Fresh(at, "check") /\ Save(at, record')
  BY SubmittingIs DEF SaveNew, Submitting, Fresh, StatusAt
<1>2. /\ record' \in Records /\ record'.status = "new" /\ record'.filled = 0
  BY <1>1, FreshIs DEF Steps, StatusAt
<1>3. /\ orders' \in [Orders -> Records] /\ orders'[at] = record'
      /\ \A p \in Orders \ {at} : orders'[p] = orders[p]
  BY <1>1, <1>2, SaveTyped DEF Typing, TypeOK
<1>4. StoreAgrees'
  BY <1>1, <1>2, <1>3, NothingSaid, OrderlyWrite
<1>5. InHand'
  BY <1>1, <1>2, <1>3 DEF InHand, NoOrder
<1>6. OneAtATime'
  BY <1>1 DEF Orderly, OneAtATime
<1>7. happened["tear"] = 0 => FillsOf(at') = {}
  BY <1>1 DEF Collecting, OrdersKnown, FillsOf
<1>8. FilledOnce' /\ FilledAlike'
  BY <1>1, <1>7, SameFills
<1>9. QED BY <1>4, <1>5, <1>6, <1>8 DEF Orderly

\* The run stores a fill, the first of an order or one it had.
LEMMA OrderlyAppend ==
    ASSUME Typing, Orderly, NEW f \in Fills, f.order = at, pc \in Steps \ {"reject", "report"},
           Append(f), f.shares <= Approved[at],
           happened["revision"] = 0 => f \in {Refusal(at), Given(at)},
           pc' \in {"reject", "report"},
           UNCHANGED <<orders, command, market, at, seen, record, happened>>
    PROVE  StoreAgrees' /\ OneAtATime' /\ FilledOnce' /\ FilledAlike'
<1>1. at \in Orders /\ command = NoCommand
  BY AtOrder
<1>2. fills' = fills \union {f}
  BY DEF Append
<1>3. \A o : FillsOf(o)' = IF o = at THEN FillsOf(o) \union {f} ELSE FillsOf(o)
  BY <1>2, FillsOfUnion
<1>4. StoreAgrees'
  BY <1>3, MoreFills DEF Orderly, StoreAgrees
<1>5. OneAtATime'
  BY <1>1 DEF OneAtATime
<1>6. FilledOnce'
  <2>1. happened["tear"] = 0 => FillsOf(at) = {}
    BY DEF Orderly, FilledOnce
  <2>2. happened["tear"] = 0 => FillsOf(at)' = {f}
    BY <1>3, <2>1
  <2>3. QED BY <1>3, <2>2 DEF Orderly, FilledOnce
<1>7. FilledAlike'
  <2>1. \A o : Given(o)' = Given(o)
    BY DEF Given
  <2>2. pc # "idle"
    BY DEF Steps
  <2>3. QED BY <1>3, <2>1, <2>2 DEF Orderly, FilledAlike
<1>8. QED BY <1>4, <1>5, <1>6, <1>7

LEMMA OrderlyRefuse ==
    ASSUME Typing, Orderly, Refuse
    PROVE  Orderly'
<1> USE DEF outside, reviews, account, history
<1>1. /\ pc = "check" /\ pc' = "reject" /\ Append(Refusal(at))
      /\ UNCHANGED <<orders, command, market, at, seen, record, happened>>
  BY DEF Refuse, Refusal
<1>2. at \in Orders /\ record = Fresh(at, "check") /\ orders[at] # NoOrder
  BY <1>1, AtOrder DEF Steps, Orderly, InHand
<1>3. Refusal(at) \in Fills /\ Refusal(at).order = at /\ Refusal(at).shares <= Approved[at]
  BY <1>2, BatchAssumption DEF Refusal, Fills
<1>4. StoreAgrees' /\ OneAtATime' /\ FilledOnce' /\ FilledAlike'
  BY <1>1, <1>3, OrderlyAppend DEF Steps
<1>5. Fresh(at, "check") = Fresh(at, "reject")
  BY DEF Fresh, StatusAt
<1>6. FillsOf(at)' # {}
  BY <1>1, <1>3, FillsOfUnion DEF Append
<1>7. InHand'
  BY <1>1, <1>2, <1>5, <1>6 DEF InHand, FillsOf
<1>8. QED BY <1>4, <1>7 DEF Orderly

\* What the simulation makes of an accepted order.
LEMMA Simulated ==
    ASSUME Typing, Orderly, pc \in {"fill", "report"}
    PROVE  /\ SimulatedFill \in Fills /\ SimulatedFill.order = at
           /\ SimulatedFill.shares \in 0..Approved[at]
           /\ SimulatedFill.status =
                  IF SimulatedFill.shares = 0 THEN "REJECTED"
                  ELSE IF SimulatedFill.shares < Approved[at] THEN "PARTIAL" ELSE "FILLED"
           /\ happened["revision"] = 0 => SimulatedFill = Given(at)
<1>1. at \in Orders /\ record = Fresh(at, pc) /\ seen \in Markets /\ record \in Records
  BY AtOrder DEF Steps, Typing, TypeOK
<1>2. record.shares = Approved[at] /\ Approved[at] \in Nat
  BY <1>1, FreshIs DEF Steps
<1>3. seen[at] \in Nat
  BY <1>1, BatchAssumption
<1>4. Fewer(seen[at], record.shares) \in 0..Approved[at]
  BY <1>2, <1>3 DEF Fewer
<1>5. /\ SimulatedFill.shares = Fewer(seen[at], record.shares)
      /\ SimulatedFill.status =
            IF SimulatedFill.shares = 0 THEN "REJECTED"
            ELSE IF SimulatedFill.shares < record.shares THEN "PARTIAL" ELSE "FILLED"
  BY DEF SimulatedFill
<1>6. happened["revision"] = 0 => seen = market
  BY DEF Orderly, FilledAlike
<1>7. happened["revision"] = 0 => SimulatedFill = Given(at)
  BY <1>2, <1>6 DEF SimulatedFill, Given
<1>8. QED BY <1>1, <1>2, <1>4, <1>5, <1>7, SimulatedFillType

LEMMA OrderlyFill ==
    ASSUME Typing, Orderly, Fill
    PROVE  Orderly'
<1> USE DEF outside, reviews, account, history
<1>1. /\ pc = "fill" /\ pc' = "report" /\ Append(SimulatedFill)
      /\ UNCHANGED <<orders, command, market, at, seen, record, happened>>
  BY DEF Fill
<1>2. at \in Orders /\ record = Fresh(at, "fill") /\ orders[at] # NoOrder
  BY <1>1, AtOrder DEF Steps, Orderly, InHand
<1>3. /\ SimulatedFill \in Fills /\ SimulatedFill.order = at
      /\ SimulatedFill.shares <= Approved[at]
      /\ happened["revision"] = 0 => SimulatedFill = Given(at)
  BY <1>1, <1>2, Simulated, BatchAssumption
<1>4. StoreAgrees' /\ OneAtATime' /\ FilledOnce' /\ FilledAlike'
  BY <1>1, <1>3, OrderlyAppend DEF Steps
<1>5. Fresh(at, "fill") = Fresh(at, "report")
  BY DEF Fresh, StatusAt
<1>6. SimulatedFill' = SimulatedFill /\ SimulatedFill \in fills'
  BY <1>1 DEF SimulatedFill, Append
<1>7. InHand'
  BY <1>1, <1>2, <1>5, <1>6 DEF InHand
<1>8. QED BY <1>4, <1>7 DEF Orderly

\* A transition from the record in hand that is allowed.
LEMMA Moved ==
    ASSUME Typing, Orderly, NEW from \in Steps \ {"submitted", "accepted"}, NEW status,
           NEW filled \in Nat, NEW to, Transition(from, status, filled, to),
           status \in Allowed(StatusAt[from])
    PROVE  /\ at \in Orders /\ pc = from /\ record = Fresh(at, from)
           /\ orders' \in [Orders -> Records]
           /\ orders'[at] = [status |-> status, shares |-> Approved[at], filled |-> filled]
           /\ orders'[at] \in Records /\ orders'[at] # NoOrder
           /\ \A p \in Orders \ {at} : orders'[p] = orders[p]
           /\ IF to = "look" THEN NextOrder ELSE pc' = to /\ UNCHANGED <<at, record>>
           /\ UNCHANGED <<seen, got, fills, market, command, happened>>
<1> USE DEF outside, reviews, account, history
<1>1. pc = from /\ pc \in Steps
  BY DEF Transition
<1>2. at \in Orders /\ record \in Records /\ record = Fresh(at, from)
  BY <1>1, AtOrder
<1>3. record.status = StatusAt[from] /\ record.filled = 0
  BY <1>1, <1>2, FreshIs
<1> DEFINE r == [record EXCEPT !.status = status, !.filled = @ + filled]
<1>4. /\ Save(at, r)
      /\ IF to = "look" THEN NextOrder ELSE pc' = to /\ UNCHANGED <<at, record>>
      /\ UNCHANGED <<seen, got, fills, market, command, happened>>
  BY <1>3 DEF Transition
<1>5. status \in Statuses \ {"none"}
  BY AllowedStatuses
<1>6. r \in Records /\ r.status = status
  BY <1>2, <1>5, RecordTyped
<1>7. r = [status |-> status, shares |-> Approved[at], filled |-> filled]
  <2>1. r.shares = Approved[at] /\ r.filled = 0 + filled /\ Approved[at] \in Nat
    BY <1>1, <1>2, <1>3, FreshIs DEF Records
  <2> HIDE DEF r
  <2>2. r.filled = filled
    BY <2>1
  <2>3. [status |-> status, shares |-> Approved[at], filled |-> filled] \in Records
    BY <1>5, <2>1 DEF Records
  <2>4. QED BY <1>6, <2>1, <2>2, <2>3 DEF Records
<1> HIDE DEF r
<1>8. orders' \in [Orders -> Records] /\ orders'[at] = r
      /\ \A p \in Orders \ {at} : orders'[p] = orders[p]
  BY <1>2, <1>4, <1>6, SaveTyped DEF Typing, TypeOK
<1>9. r # NoOrder
  BY <1>5, <1>6 DEF NoOrder
<1>10. QED BY <1>1, <1>2, <1>4, <1>7, <1>6, <1>8, <1>9

LEMMA OrderlyOnward ==
    ASSUME Typing, Orderly, Submit \/ Accept
    PROVE  Orderly'
<1>1. PICK from \in {"submit", "accept"}, status \in {"submitted", "accepted"} :
          /\ status = (IF from = "submit" THEN "submitted" ELSE "accepted")
          /\ Transition(from, status, 0, status)
  BY DEF Submit, Accept
<1>2. status \in Allowed(StatusAt[from]) /\ from \in Steps \ {"submitted", "accepted"}
  BY <1>1 DEF Allowed, StatusAt, Steps
<1>3. /\ at \in Orders /\ pc = from
      /\ orders' \in [Orders -> Records]
      /\ orders'[at] = [status |-> status, shares |-> Approved[at], filled |-> 0]
      /\ orders'[at] \in Records /\ orders'[at] # NoOrder
      /\ \A p \in Orders \ {at} : orders'[p] = orders[p]
      /\ pc' = status /\ at' = at /\ record' = record
      /\ UNCHANGED <<seen, got, fills, market, command, happened>>
  BY <1>1, <1>2, Moved
<1>4. orders'[at].filled = 0 /\ orders'[at].status \notin {"filled", "partial_filled", "rejected"}
  BY <1>3
<1>5. StoreAgrees'
  BY <1>3, <1>4, NothingSaid, OrderlyWrite
<1>6. orders'[at] = Fresh(at, status)
  BY <1>1, <1>3 DEF Fresh, StatusAt
<1>7. InHand'
  BY <1>3, <1>6 DEF InHand
<1>8. OneAtATime'
  <2>1. pc # "idle" /\ command = NoCommand
    BY <1>3, AtOrder DEF Steps
  <2>2. QED BY <1>3, <2>1 DEF OneAtATime
<1>9. happened["tear"] = 0 => FillsOf(at') = {}
  BY <1>3 DEF Orderly, FilledOnce, Steps
<1>10. FilledOnce' /\ FilledAlike'
  <2>1. pc # "idle"
    BY <1>3
  <2>2. QED BY <1>3, <1>9, <2>1, SameFills
<1>11. QED BY <1>5, <1>7, <1>8, <1>10 DEF Orderly

\* The run leaves the order it was at.
LEMMA OrderlyDone ==
    ASSUME Typing, Orderly, pc \in Steps, pc' = "look", StoreAgrees',
           UNCHANGED <<seen, fills, market, command, happened>>
    PROVE  Orderly'
<1>1. InHand'
  BY DEF InHand, Steps
<1>2. OneAtATime'
  BY AtOrder DEF OneAtATime
<1>3. FilledOnce' /\ FilledAlike'
  BY AtOrder, SameFills DEF Steps
<1>4. QED BY <1>1, <1>2, <1>3 DEF Orderly

LEMMA OrderlyReject ==
    ASSUME Typing, Orderly, Reject
    PROVE  Orderly'
<1>1. /\ Transition("reject", "rejected", 0, "look") /\ "rejected" \in Allowed(StatusAt["reject"])
  BY DEF Reject, Allowed, StatusAt
<1>2. /\ at \in Orders /\ pc = "reject"
      /\ orders' \in [Orders -> Records]
      /\ orders'[at] = [status |-> "rejected", shares |-> Approved[at], filled |-> 0]
      /\ orders'[at] \in Records
      /\ \A p \in Orders \ {at} : orders'[p] = orders[p]
      /\ NextOrder
      /\ UNCHANGED <<seen, got, fills, market, command, happened>>
  BY <1>1, Moved DEF Steps
<1>3. FillsOf(at) # {}
  BY <1>2 DEF Orderly, InHand, Steps
<1>4. AgreesWith(FillsOf(at), orders'[at])
  BY <1>2, <1>3 DEF AgreesWith, Backed
<1>5. StoreAgrees'
  BY <1>2, <1>4, OrderlyWrite
<1>6. QED BY <1>2, <1>5, OrderlyDone DEF NextOrder, Steps

LEMMA OrderlyReport ==
    ASSUME Typing, Orderly, Report
    PROVE  Orderly'
<1> DEFINE f == SimulatedFill
           status == StatusFor(f)
           n == f.shares
<1>1. pc = "report"
  BY DEF Report, Transition
<1>2. /\ at \in Orders /\ record = Fresh(at, "report") /\ f \in fills /\ f.order = at
      /\ n \in 0..Approved[at] /\ Approved[at] \in Nat
      /\ f.status = IF n = 0 THEN "REJECTED"
                    ELSE IF n < Approved[at] THEN "PARTIAL" ELSE "FILLED"
  BY <1>1, AtOrder, Simulated, BatchAssumption DEF Orderly, InHand, Steps
<1>3. record.shares = Approved[at]
  BY <1>2, FreshIs DEF Steps
<1>4. status = IF n = 0 THEN "rejected"
               ELSE IF n < Approved[at] THEN "partial_filled" ELSE "filled"
  BY <1>2, <1>3 DEF StatusFor
<1>5. Transition("report", status, n, "look")
  BY DEF Report
<1> HIDE DEF f, status, n
<1>6. status \in Allowed(StatusAt["report"])
  BY <1>4 DEF Allowed, StatusAt
<1>7. /\ orders' \in [Orders -> Records]
      /\ orders'[at] = [status |-> status, shares |-> Approved[at], filled |-> n]
      /\ orders'[at] \in Records
      /\ \A p \in Orders \ {at} : orders'[p] = orders[p]
      /\ NextOrder
      /\ UNCHANGED <<seen, got, fills, market, command, happened>>
  BY <1>2, <1>5, <1>6, Moved DEF Steps
<1>8. f \in FillsOf(at)
  BY <1>2 DEF FillsOf
<1>9. f.shares = n
  BY DEF n
<1>10. AgreesWith(FillsOf(at), orders'[at])
  BY <1>2, <1>4, <1>7, <1>8, <1>9 DEF AgreesWith, Backed
<1>11. StoreAgrees'
  BY <1>2, <1>7, <1>10, OrderlyWrite
<1>12. QED BY <1>1, <1>7, <1>11, OrderlyDone DEF NextOrder, Steps

\* A store without orders says nothing.
LEMMA EmptyAgrees ==
    ASSUME orders' = [o \in Orders |-> NoOrder]
    PROVE  StoreAgrees'
<1>1. \A o \in Orders : orders'[o] = NoOrder
  OBVIOUS
<1>2. QED BY <1>1, NothingSaid DEF StoreAgrees, NoOrder

LEMMA OrderlyTear ==
    ASSUME Typing, Orderly, Tear
    PROVE  Orderly'
<1> USE DEF outside, reviews, account, history
<1>1. /\ pc # "idle" /\ pc' = "idle" /\ fills' = fills /\ market' = market /\ command' = command
      /\ StoreAgrees'
  BY EmptyAgrees DEF Tear, Gone, Submitting
<1>2. happened'["tear"] > 0 /\ happened'["revision"] = happened["revision"]
  BY HappensType DEF Tear, Typing, TypeOK, Events
<1>3. InHand' /\ OneAtATime' /\ FilledOnce'
  BY <1>1, <1>2 DEF InHand, OneAtATime, FilledOnce, Steps, Orderly
<1>4. FilledAlike'
  BY <1>1, <1>2 DEF Orderly, FilledAlike, Given, Refusal, FillsOf
<1>5. QED BY <1>1, <1>3, <1>4 DEF Orderly

LEMMA OrderlyRun ==
    ASSUME Collecting, Typing', Orderly, ~overlapped', Run
    PROVE  Orderly'
<1>1. Typing
  BY DEF Collecting
<1>2. QED BY <1>1, OrderlyQuiet, OrderlySaveNew, OrderlyRefuse, OrderlyFill, OrderlyOnward,
             OrderlyReject, OrderlyReport, OrderlyTear DEF Run

-----------------------------------------------------------------------------
\* A command, while there is no run, leaves the fills alone.
LEMMA OrderlyAside ==
    ASSUME Typing, Orderly, pc = "idle", UNCHANGED around,
           happened'["tear"] = 0 => happened["tear"] = 0,
           happened'["revision"] = happened["revision"],
           StoreAgrees',
           command' # NoCommand => Backed(FillsOf(command'.order), command'.record)
    PROVE  Orderly'
<1> USE DEF around, run, reviews, account
<1>1. \A o : FillsOf(o)' = FillsOf(o)
  BY DEF FillsOf
<1>2. InHand'
  BY DEF InHand, Steps
<1>3. OneAtATime'
  BY <1>1 DEF OneAtATime
<1>4. FilledOnce' /\ FilledAlike'
  BY <1>1 DEF Orderly, FilledOnce, FilledAlike, Given, Refusal, Steps
<1>5. QED BY <1>2, <1>3, <1>4 DEF Orderly

\* A command writes a record whose fills are those of the one it has read,
\* and a status that says nothing of them.
LEMMA OrderlyCommand ==
    ASSUME Typing, Orderly, pc = "idle", UNCHANGED <<around, happened>>,
           command # NoCommand, NEW r \in Records, Save(command.order, r),
           r.filled = command.record.filled,
           r.status \in {"cancel_pending", "replace_pending", "cancelled", "replaced", "accepted"},
           command' = NoCommand \/ (command'.order = command.order /\ command'.record = r)
    PROVE  Orderly'
<1>1. command.order \in Orders /\ Backed(FillsOf(command.order), command.record)
  BY CommandIs DEF Orderly, OneAtATime
<1>2. Backed(FillsOf(command.order), r)
  BY <1>1 DEF Backed
<1>3. AgreesWith(FillsOf(command.order), r)
  BY <1>2 DEF AgreesWith
<1>4. /\ orders' \in [Orders -> Records] /\ orders'[command.order] = r
      /\ \A p \in Orders \ {command.order} : orders'[p] = orders[p]
  BY <1>1, SaveTyped DEF Typing, TypeOK
<1>5. StoreAgrees'
  <2>1. fills' = fills
    BY DEF around
  <2>2. QED BY <1>1, <1>3, <1>4, <2>1, OrderlyWrite
<1>6. QED BY <1>2, <1>5, OrderlyAside

LEMMA OrderlyOperate ==
    ASSUME Typing, Orderly, ~overlapped, ~overlapped', Operate
    PROVE  Orderly'
<1>1. ASSUME NEW kind \in {"cancel", "replace"}, NEW o \in Orders, Ask(kind, o)
      PROVE  Orderly'
  <2>1. /\ pc = "idle" /\ orders' = orders /\ UNCHANGED around
        /\ command'.order = o /\ command'.record = orders[o]
    BY <1>1 DEF Ask
  <2>2. happened'["tear"] = happened["tear"] /\ happened'["revision"] = happened["revision"]
    BY <1>1, HappensType DEF Ask, Typing, TypeOK, Events
  <2>3. StoreAgrees' /\ Backed(FillsOf(o), orders[o])
    BY <2>1 DEF Orderly, StoreAgrees, AgreesWith, FillsOf, around
  <2>4. QED BY <2>1, <2>2, <2>3, OrderlyAside
<1>2. ASSUME command # NoCommand PROVE pc = "idle" /\ command.order \in Orders
                                       /\ command.record \in Records
  BY <1>2, CommandIs DEF Orderly, OneAtATime
<1>3. CASE Pend
  <2> DEFINE r == [command.record EXCEPT !.status = Pending[command.kind]]
  <2>1. /\ command # NoCommand /\ UNCHANGED <<around, happened>>
        /\ Save(command.order, r) /\ command' = [command EXCEPT !.step = "read", !.record = r]
    BY <1>3 DEF Pend, AtStep, Write
  <2>2. command \in Commands
    BY <2>1, CommandIs
  <2>3. Pending[command.kind] \in {"cancel_pending", "replace_pending"}
    BY <2>1, CommandIs DEF Pending
  <2>4. Pending[command.kind] \in Statuses
    BY <2>3 DEF Statuses
  <2>5. r \in Records /\ r.status = Pending[command.kind] /\ r.filled = command.record.filled
    BY <1>2, <2>1, <2>4, RecordTyped DEF Records
  <2> HIDE DEF r
  <2>6. command'.order = command.order /\ command'.record = r
    BY <2>1, <2>2 DEF Commands
  <2>7. QED BY <1>2, <2>1, <2>3, <2>5, <2>6, OrderlyCommand
<1>4. CASE ReadPending
  <2>1. /\ command # NoCommand /\ orders' = orders /\ UNCHANGED <<around, happened>>
        /\ \/ command' = NoCommand
           \/ command' = [command EXCEPT !.step = command.kind, !.record = orders[command.order]]
    BY <1>4 DEF ReadPending, AtStep
  <2>2. command \in Commands
    BY <2>1, CommandIs
  <2>3. \/ command' = NoCommand
        \/ command'.order = command.order /\ command'.record = orders[command.order]
    BY <2>1, <2>2 DEF Commands
  <2>4. StoreAgrees' /\ Backed(FillsOf(command.order), orders[command.order])
    BY <1>2, <2>1 DEF Orderly, StoreAgrees, AgreesWith, FillsOf, around
  <2>5. QED BY <1>2, <2>1, <2>3, <2>4, OrderlyAside
<1>5. CASE Cancel \/ AcceptReplaced
  <2>1. command # NoCommand /\ command' = NoCommand /\ UNCHANGED <<around, happened>>
    BY <1>5 DEF Cancel, AcceptReplaced, AtStep
  <2>2. PICK status \in {"cancelled", "accepted"} :
            Save(command.order, [command.record EXCEPT !.status = status])
    BY <1>5 DEF Cancel, AcceptReplaced
  <2> DEFINE r == [command.record EXCEPT !.status = status]
  <2>3. status \in Statuses
    BY DEF Statuses, Terminal
  <2>4. r \in Records /\ r.status = status /\ r.filled = command.record.filled
    BY <1>2, <2>1, <2>3, RecordTyped DEF Records
  <2>5. Save(command.order, r)
    BY <2>2
  <2> HIDE DEF r
  <2>6. QED BY <1>2, <2>1, <2>4, <2>5, OrderlyCommand
<1>6. ASSUME NEW shares \in NewShares, Replace(shares)
      PROVE  Orderly'
  <2> DEFINE r == [command.record EXCEPT !.status = "replaced", !.shares = shares]
  <2>1. /\ command # NoCommand /\ UNCHANGED <<around, happened>>
        /\ Save(command.order, r) /\ command' = [command EXCEPT !.step = "accept", !.record = r]
    BY <1>6 DEF Replace, AtStep
  <2>2. command \in Commands
    BY <2>1, CommandIs
  <2>3. shares \in Nat /\ "replaced" \in Statuses
    BY BatchAssumption DEF Statuses
  <2>4. r \in Records /\ r.status = "replaced" /\ r.filled = command.record.filled
    BY <1>2, <2>1, <2>3 DEF Records
  <2> HIDE DEF r
  <2>5. command'.order = command.order /\ command'.record = r
    BY <2>1, <2>2 DEF Commands
  <2>6. QED BY <1>2, <2>1, <2>4, <2>5, OrderlyCommand
<1>7. CASE CommandDies \/ CommandTears
  <2>1. command # NoCommand /\ command' = NoCommand /\ UNCHANGED around
    BY <1>7 DEF CommandDies, CommandTears
  <2>2. /\ happened'["tear"] = 0 => happened["tear"] = 0
        /\ happened'["revision"] = happened["revision"]
    BY <1>7, HappensType DEF CommandDies, CommandTears, Typing, TypeOK, Events
  <2>3. StoreAgrees'
    <3>1. CASE CommandDies
      BY <2>1, <3>1 DEF CommandDies, Orderly, StoreAgrees, FillsOf, around
    <3>2. CASE CommandTears
      BY <3>2, EmptyAgrees DEF CommandTears
    <3>3. QED BY <1>7, <3>1, <3>2
  <2>4. QED BY <1>2, <2>1, <2>2, <2>3, OrderlyAside
<1>8. QED BY <1>1, <1>3, <1>4, <1>5, <1>6, <1>7 DEF Operate

LEMMA KeepingStep == Keeping /\ [Next]_vars => Keeping'
<1> SUFFICES ASSUME Keeping, [Next]_vars, ~overlapped' PROVE Orderly'
  BY CollectingStep DEF Keeping
<1>1. Collecting /\ Typing /\ Typing'
  BY TypingStep DEF Keeping, Collecting
<1>2. ~overlapped /\ Orderly
  <2>1. overlapped => overlapped'
    <3>1. CASE Run
      BY <1>1, <3>1 DEF Run, Start, Replay, SaveNew, Refuse, Reject, Pass, Submit, Accept, Reread,
            Fill, Report, Book, Crash, Tear, Transition, outside, history
    <3>2. CASE Operate
      BY <1>1, <3>2 DEF Operate, Ask, Pend, Write, ReadPending, Cancel, AcceptReplaced,
            CommandDies, CommandTears, Replace
    <3>3. CASE ~Run /\ ~Operate
      BY <3>3 DEF Next, vars, DecideRead, DecideWrite, Switch, Revise, history
    <3>4. QED BY <3>1, <3>2, <3>3
  <2>2. QED BY <2>1 DEF Keeping
<1>3. ASSUME UNCHANGED <<market, orders, fills, run, command>>,
             happened'["tear"] = happened["tear"],
             happened'["revision"] = happened["revision"]
      PROVE  Orderly'
  <2>1. \A o : FillsOf(o)' = FillsOf(o) /\ Given(o)' = Given(o)
    BY <1>3 DEF FillsOf, Given
  <2>2. SimulatedFill' = SimulatedFill
    BY <1>3 DEF SimulatedFill, run
  <2>3. InHand' /\ OneAtATime'
    BY <1>2, <1>3, <2>1, <2>2 DEF Orderly, InHand, OneAtATime, run
  <2>4. StoreAgrees'
    BY <1>2, <1>3, <2>1 DEF Orderly, StoreAgrees
  <2>5. FilledOnce' /\ FilledAlike'
    BY <1>2, <1>3, <2>1 DEF Orderly, FilledOnce, FilledAlike, run
  <2>6. QED BY <2>3, <2>4, <2>5 DEF Orderly
<1>4. CASE UNCHANGED vars
  BY <1>3, <1>4 DEF vars
<1>5. ASSUME NEW d \in Decisions, DecideRead(d) \/ DecideWrite(d)
      PROVE  Orderly'
  BY <1>3, <1>5 DEF DecideRead, DecideWrite
<1>6. CASE Run
  BY <1>1, <1>2, <1>6, OrderlyRun
<1>7. CASE Operate
  BY <1>1, <1>2, <1>7, OrderlyOperate
<1>8. CASE Switch
  <2>1. happened'["tear"] = happened["tear"] /\ happened'["revision"] = happened["revision"]
    BY <1>1, <1>8, HappensType DEF Switch, Events, Typing, TypeOK
  <2>2. QED BY <1>3, <1>8, <2>1 DEF Switch
<1>9. CASE Revise
  <2>1. happened'["tear"] = happened["tear"] /\ happened'["revision"] # 0
    BY <1>1, <1>9, HappensType DEF Revise, Events, Typing, TypeOK
  <2>2. UNCHANGED <<orders, fills, run, command>>
    BY <1>9 DEF Revise
  <2>3. \A o : FillsOf(o)' = FillsOf(o)
    BY <2>2 DEF FillsOf
  <2>4. SimulatedFill' = SimulatedFill
    BY <2>2 DEF SimulatedFill, run
  <2>5. InHand' /\ OneAtATime'
    BY <1>2, <2>2, <2>3, <2>4 DEF Orderly, InHand, OneAtATime, run
  <2>6. StoreAgrees' /\ FilledOnce' /\ FilledAlike'
    BY <1>2, <2>1, <2>2, <2>3 DEF Orderly, StoreAgrees, FilledOnce, FilledAlike, run
  <2>7. QED BY <2>5, <2>6 DEF Orderly
<1>10. QED BY <1>4, <1>5, <1>6, <1>7, <1>8, <1>9 DEF Next

-----------------------------------------------------------------------------
\* What Folds adds up: the recursion of Shares.
Any(s) == CHOOSE f \in s : TRUE
AddsUp(S, g) ==
    g = [s \in SUBSET S |-> IF s = {} THEN 0 ELSE Any(s).shares + g[s \ {Any(s)}]]

LEMMA SumIs ==
    ASSUME NEW S
    PROVE  MapThenSumSet(LAMBDA f : f.shares, S) = (CHOOSE g : AddsUp(S, g))[S]
BY SMT DEF MapThenSumSet, MapThenFoldSet, AddsUp, Any

LEMMA AnyIn ==
    ASSUME NEW s, s # {}
    PROVE  Any(s) \in s
BY DEF Any

\* Of two fills of which one has no shares only the other one counts.
LEMMA SumOfTwo ==
    ASSUME NEW a, NEW b, a.shares = 0, b.shares \in Nat, NEW S \in SUBSET {a, b}
    PROVE  MapThenSumSet(LAMBDA f : f.shares, S) \in {0, b.shares}
<1> DEFINE h == [s \in SUBSET S |-> IF b \in s THEN b.shares ELSE 0]
<1>1. AddsUp(S, h)
  <2>1. ASSUME NEW s \in SUBSET S
        PROVE  h[s] = IF s = {} THEN 0 ELSE Any(s).shares + h[s \ {Any(s)}]
    <3>1. CASE s = {}
      BY <3>1
    <3>2. CASE s # {}
      <4>1. Any(s) \in s /\ s \ {Any(s)} \in SUBSET S /\ Any(s) \in {a, b}
        BY <3>2, AnyIn
      <4>2. CASE Any(s) = b
        BY <3>2, <4>1, <4>2
      <4>3. CASE Any(s) # b
        BY <3>2, <4>1, <4>3
      <4>4. QED BY <4>2, <4>3
    <3>3. QED BY <3>1, <3>2
  <2>2. QED BY <2>1 DEF AddsUp
<1> DEFINE g == CHOOSE k : AddsUp(S, k)
<1>2. AddsUp(S, g)
  BY <1>1
<1> HIDE DEF g
<1>3. \A s \in SUBSET S : s # {} => g[s] = Any(s).shares + g[s \ {Any(s)}]
  BY <1>2 DEF AddsUp
<1>4. g[{}] = 0
  BY <1>2 DEF AddsUp
<1>5. \A x : {x} \in SUBSET S => g[{x}] = x.shares + 0
  <2>1. ASSUME NEW x, {x} \in SUBSET S PROVE g[{x}] = x.shares + 0
    <3>1. Any({x}) = x
      BY AnyIn
    <3>2. {x} \ {x} = {}
      OBVIOUS
    <3>3. QED BY <1>3, <1>4, <2>1, <3>1, <3>2
  <2>2. QED BY <2>1
<1>6. g[S] \in {0, b.shares}
  <2>1. CASE S = {}
    BY <1>4, <2>1
  <2>2. CASE S = {a}
    BY <1>5, <2>2
  <2>3. CASE S = {b}
    BY <1>5, <2>3
  <2>4. CASE S = {a, b} /\ a # b
    <3>1. Any(S) \in {a, b}
      BY <2>4, AnyIn
    <3>2. CASE Any(S) = a
      <4>1. S \ {a} = {b} /\ {b} \in SUBSET S /\ S \in SUBSET S
        BY <2>4
      <4>2. g[S] = a.shares + g[{b}]
        BY <1>3, <2>4, <3>2, <4>1
      <4>3. g[{b}] = b.shares + 0
        BY <1>5, <4>1
      <4>4. QED BY <4>2, <4>3
    <3>3. CASE Any(S) = b
      <4>1. S \ {b} = {a} /\ {a} \in SUBSET S /\ S \in SUBSET S
        BY <2>4
      <4>2. g[S] = b.shares + g[{a}]
        BY <1>3, <2>4, <3>3, <4>1
      <4>3. g[{a}] = a.shares + 0
        BY <1>5, <4>1
      <4>4. QED BY <4>2, <4>3
    <3>4. QED BY <3>1, <3>2, <3>3
  <2>5. QED BY <2>1, <2>2, <2>3, <2>4
<1>7. QED BY <1>6, SumIs DEF g

\* Shares a fill of an order can have, and those all of its fills have.
LEMMA SharesWithin ==
    ASSUME Typing, Orderly, NEW o \in Orders,
           happened["tear"] = 0 \/ happened["revision"] = 0
    PROVE  Shares(o) <= Approved[o]
<1>1. Approved[o] \in Nat /\ Refusal(o).shares = 0
  BY BatchAssumption DEF Refusal
<1>2. PICK b : b.shares \in 0..Approved[o] /\ FillsOf(o) \in SUBSET {Refusal(o), b}
  <2>1. CASE happened["tear"] = 0
    <3>1. \A f, g \in FillsOf(o) : f = g /\ f.shares <= Approved[o]
      BY <2>1 DEF Orderly, FilledOnce
    <3>2. CASE FillsOf(o) = {}
      BY <1>1, <3>2
    <3>3. CASE FillsOf(o) # {}
      <4>1. PICK f : f \in FillsOf(o)
        BY <3>3
      <4>2. FillsOf(o) \in SUBSET {Refusal(o), f} /\ f.shares <= Approved[o]
        BY <3>1, <4>1
      <4>3. f.shares \in Nat
        BY <4>1 DEF FillsOf, Typing, TypeOK, Fills
      <4>4. f.shares \in 0..Approved[o]
        BY <1>1, <4>2, <4>3
      <4>5. QED BY <4>2, <4>4
    <3>4. QED BY <3>2, <3>3
  <2>2. CASE happened["revision"] = 0
    <3>1. FillsOf(o) \in SUBSET {Refusal(o), Given(o)}
      BY <2>2 DEF Orderly, FilledAlike
    <3>2. market[o] \in Nat
      BY BatchAssumption DEF Typing, TypeOK
    <3>3. Given(o).shares = Fewer(market[o], Approved[o])
      BY DEF Given
    <3>4. Given(o).shares \in 0..Approved[o]
      BY <1>1, <3>2, <3>3 DEF Fewer
    <3>5. QED BY <3>1, <3>4
  <2>3. QED BY <2>1, <2>2
<1>3. Shares(o) \in {0, b.shares}
  BY <1>1, <1>2, SumOfTwo DEF Shares
<1>4. QED BY <1>1, <1>2, <1>3

(***************************************************************************)
(* Unless a command ran beside a run, the two files of the broker's store  *)
(* agree wherever a process was killed; no order gets more shares than     *)
(* were approved, unless both the store was torn and the market data       *)
(* changed; and only a batch somebody approved is filled.                  *)
(***************************************************************************)
THEOREM StoreIsSound == Spec => []FillsAgree
<1>1. Spec => []Keeping
  BY KeepingInit, KeepingStep, PTL DEF Spec
<1>2. Keeping => StatusHasFill
  BY DEF Keeping, Orderly, StoreAgrees, AgreesWith, Backed, StatusHasFill
<1>3. Keeping => WithinApproval
  <2> SUFFICES ASSUME Keeping, ~overlapped, NEW o \in Orders,
                      happened["tear"] = 0 \/ happened["revision"] = 0
               PROVE  Shares(o) <= Approved[o]
    BY DEF WithinApproval
  <2>1. QED BY SharesWithin DEF Keeping, Collecting
<1>4. QED BY <1>1, <1>2, <1>3, FilledIsApproved, PTL DEF FillsAgree
=============================================================================
