------------------------- MODULE ApprovedExecution -------------------------
(***************************************************************************)
(* The execution of an approved batch: ProductionDailyRunner with          *)
(* execute_approved (execution/trading/daily.py) over the approval store   *)
(* (platform/governance/approval/store.py), the simulated broker and its   *)
(* store (execution/broker/adapter.py), the risk kill switch and a paper   *)
(* account.  The account is known by its promise, CashBook, which          *)
(* PaperSettlement keeps.                                                  *)
(*                                                                         *)
(* A write to a file is one step, and the run, an operator's cancel or     *)
(* replace, and reviewers interleave; save_order's load and write count as *)
(* one.  Processes die between any two steps, or inside a write of         *)
(* broker_order_state.json, which is truncated first: what cannot be       *)
(* parsed is read as a store without orders.                               *)
(*                                                                         *)
(* Orders are purchases at a price of 1; costs, the event log and reports  *)
(* are left out.                                                           *)
(***************************************************************************)
EXTENDS Integers, FiniteSetsExt

CONSTANTS
    Count,        \* child orders of the batch
    Approved,     \* the shares of each
    NewShares,    \* the shares an operator may replace an order by
    Markets,      \* what the market gives: shares per order, 0 to reject it
    Decisions,    \* what reviewers are about to decide
    OpeningCash,
    Bound         \* bounds: how often each of Events happens

Orders == 1..Count
Events == {"run", "crash", "tear", "command", "revision", "switch"}

ASSUME BatchAssumption ==
    /\ Count \in Nat
    /\ Approved \in [Orders -> Nat] /\ NewShares \subseteq Nat
    /\ Markets # {} /\ Markets \subseteq [Orders -> Nat]
    /\ Decisions \subseteq {"approved", "rejected", "expired"}
    /\ OpeningCash \in Int /\ Bound \in [Events -> Nat]

VARIABLES
    approval,     \* the status of the approval batch
    deciding,     \* decisions that found it pending and are not written yet
    decided,      \* history: the decisions that were written
    killed,       \* the kill switch is active
    market,       \* the market data of the rebalance date
    orders,       \* broker_order_state.json
    fills,        \* broker_fills.jsonl
    pc,           \* where the run is
    at,           \* the order it is at
    seen,         \* the market data it has loaded
    record,       \* the order as the run knows it
    got,          \* the fills it has collected
    command,      \* the operator's command
    cash, paid,   \* the paper account and the fills it has booked
    slipped,      \* history: fills with shares since the switch was activated
    overlapped,   \* history: a command and a run were under way at once
    happened      \* how often each event has happened

reviews == <<approval, deciding, decided>>
run == <<pc, at, seen, record, got>>
account == <<cash, paid>>
history == <<slipped, overlapped>>
vars == <<reviews, killed, market, orders, fills, run, command, account, history, happened>>

-----------------------------------------------------------------------------
(* The broker's orders and fills. *)

NoOrder == [status |-> "none", shares |-> 0, filled |-> 0]

Terminal == {"filled", "rejected", "cancelled"}

\* ALLOWED_TRANSITIONS, as far as the simulated broker goes.
Allowed(s) ==
    CASE s = "new" -> {"submitted", "rejected"}
      [] s = "submitted" -> {"accepted", "rejected", "cancel_pending"}
      [] s = "accepted" -> {"partial_filled", "filled", "rejected", "cancel_pending", "replace_pending"}
      [] s = "partial_filled" -> {"filled", "cancel_pending", "replace_pending"}
      [] s = "cancel_pending" -> {"cancelled"}
      [] s = "replace_pending" -> {"replaced"}
      [] s = "replaced" -> {"accepted", "partial_filled", "filled"}
      [] OTHER -> {}

Statuses == Terminal \union {"none", "new", "submitted", "accepted", "partial_filled",
                             "cancel_pending", "replace_pending", "replaced"}
Records == [status : Statuses, shares : Nat, filled : Nat]

NoCommand == [kind |-> "none"]
Commands == [kind : {"cancel", "replace"}, order : Orders, record : Records,
             step : {"pend", "read", "cancel", "replace", "accept"}]

\* The identity of a fill is made of its three fields.
Fills == [order : Orders, shares : Nat, status : {"FILLED", "PARTIAL", "REJECTED"}]
FillsOf(o) == {f \in fills : f.order = o}

Fewer(m, n) == IF m <= n THEN m ELSE n

\* _simulate_fill
SimulatedFill ==
    LET shares == Fewer(seen[at], record.shares)
    IN [order |-> at, shares |-> shares,
        status |-> IF shares = 0 THEN "REJECTED"
                   ELSE IF shares < record.shares THEN "PARTIAL" ELSE "FILLED"]

StatusFor(f) ==
    IF f.status = "REJECTED" THEN "rejected"
    ELSE IF f.shares >= record.shares THEN "filled" ELSE "partial_filled"

Save(o, r) == orders' = [orders EXCEPT ![o] = r]

Account == INSTANCE CashBook WITH
    Obligations <- Fills,
    Amount <- [f \in Fills |-> -f.shares],
    Dividends <- {}, Corrections <- {}, Opening <- OpeningCash

Happens(e) == happened[e] < Bound[e] /\ happened' = [happened EXCEPT ![e] = @ + 1]

Init ==
    /\ approval = "pending" /\ deciding = {} /\ decided = {}
    /\ killed = FALSE
    /\ market \in Markets /\ seen = market
    /\ orders = [o \in Orders |-> NoOrder] /\ fills = {}
    /\ pc = "idle" /\ at = 1 /\ record = NoOrder /\ got = {}
    /\ command = NoCommand
    /\ Account!Init
    /\ slipped = 0 /\ overlapped = FALSE
    /\ happened = [e \in Events |-> 0]

-----------------------------------------------------------------------------
(***************************************************************************)
(* Reviewers: approve, reject and expire_pending read the batch, check     *)
(* that it is pending and write it back, without a lock.                   *)
(***************************************************************************)
DecideRead(d) ==
    /\ approval = "pending" /\ d \notin deciding \union decided
    /\ deciding' = deciding \union {d}
    /\ UNCHANGED <<approval, decided, killed, market, orders, fills, run, command,
                   account, history, happened>>

DecideWrite(d) ==
    /\ d \in deciding
    /\ approval' = d
    /\ deciding' = deciding \ {d} /\ decided' = decided \union {d}
    /\ UNCHANGED <<killed, market, orders, fills, run, command, account, history, happened>>

-----------------------------------------------------------------------------
(* The run. *)

outside == <<reviews, killed, market, command, happened>>

\* _execute_approved: the kill switch, the approval, the market data.
Start ==
    /\ pc = "idle" /\ ~killed /\ approval = "approved" /\ Happens("run")
    /\ pc' = "look" /\ at' = 1 /\ seen' = market
    /\ overlapped' = (overlapped \/ command # NoCommand)
    /\ UNCHANGED <<reviews, killed, market, orders, fills, record, got, command,
                   account, slipped>>

\* Mutant: what it had in memory is still there when it runs again.
GoneKeeping == pc' = "idle" /\ at' = 1 /\ UNCHANGED <<seen, record, got>>

\* The run returns, raises or dies; what it had in memory is gone.
Gone == pc' = "idle" /\ at' = 1 /\ record' = NoOrder /\ got' = {} /\ UNCHANGED seen

Submitting == pc = "look" /\ at <= Count
NextOrder == pc' = "look" /\ at' = at + 1 /\ record' = NoOrder

\* Mutant: the fills the store has of the order are not returned.
ReplayWithoutFills ==
    /\ Submitting /\ orders[at] # NoOrder
    /\ NextOrder /\ UNCHANGED got
    /\ UNCHANGED <<outside, orders, fills, seen, account, history>>

\* Mutant: an order left open is executed again.
ReplayOpen ==
    /\ Submitting /\ orders[at] # NoOrder
    /\ IF orders[at].status = "accepted"
       THEN record' = orders[at] /\ pc' = "fill" /\ UNCHANGED <<at, got>>
       ELSE NextOrder /\ got' = got \union FillsOf(at)
    /\ UNCHANGED <<outside, orders, fills, seen, account, history>>

\* An order the store knows is not submitted again; its fills are returned.
Replay ==
    /\ Submitting /\ orders[at] # NoOrder
    /\ NextOrder /\ got' = got \union FillsOf(at)
    /\ UNCHANGED <<outside, orders, fills, seen, account, history>>

SaveNew ==
    /\ Submitting /\ orders[at] = NoOrder
    /\ record' = [status |-> "new", shares |-> Approved[at], filled |-> 0]
    /\ Save(at, record')
    /\ pc' = "check"
    /\ UNCHANGED <<outside, fills, at, seen, got, account, history>>

\* append_fill
Append(f) ==
    /\ fills' = fills \union {f}
    /\ got' = got \union {f}

Refuse ==
    /\ pc = "check" /\ killed
    /\ Append([order |-> at, shares |-> 0, status |-> "REJECTED"])
    /\ pc' = "reject"
    /\ UNCHANGED <<outside, orders, at, seen, record, account, history>>

\* Mutant: only Start asks for the kill switch.
PassUnchecked ==
    /\ pc = "check"
    /\ pc' = "submit"
    /\ UNCHANGED <<outside, orders, fills, at, seen, record, got, account, history>>

Pass ==
    /\ pc = "check" /\ ~killed
    /\ pc' = "submit"
    /\ UNCHANGED <<outside, orders, fills, at, seen, record, got, account, history>>

(***************************************************************************)
(* _transition from the order in hand, which may be behind the store;      *)
(* one that is not allowed raises, and the run is over.                    *)
(***************************************************************************)
Transition(from, status, filled, to) ==
    /\ pc = from
    /\ IF status \in Allowed(record.status)
       THEN /\ Save(at, [record EXCEPT !.status = status, !.filled = @ + filled])
            /\ IF to = "look" THEN NextOrder ELSE pc' = to /\ UNCHANGED <<at, record>>
            /\ UNCHANGED <<seen, got>>
       ELSE Gone /\ UNCHANGED orders
    /\ UNCHANGED <<outside, fills, account, history>>

Reject == Transition("reject", "rejected", 0, "look")
Submit == Transition("submit", "submitted", 0, "submitted")
Accept == Transition("accept", "accepted", 0, "accepted")
Report == Transition("report", StatusFor(SimulatedFill), SimulatedFill.shares, "look")

\* The order is read again after a transition, if it is still there.
Reread ==
    /\ pc \in {"submitted", "accepted"}
    /\ record' = IF orders[at] = NoOrder THEN record ELSE orders[at]
    /\ pc' = IF pc = "submitted" THEN "accept" ELSE "fill"
    /\ UNCHANGED <<outside, orders, fills, at, seen, got, account, history>>

\* The fill is stored before the status that tells of it.
Fill ==
    /\ pc = "fill"
    /\ Append(SimulatedFill)
    /\ slipped' = IF killed /\ SimulatedFill.shares > 0 THEN slipped + 1 ELSE slipped
    /\ pc' = "report"
    /\ UNCHANGED <<outside, orders, at, seen, record, account, overlapped>>

\* apply_child_fills: the account books what it has not booked; "executed".
Book ==
    /\ pc = "look" /\ at > Count
    /\ paid' = paid \union got /\ Account!Pay
    /\ Gone
    /\ UNCHANGED <<outside, orders, fills, history>>

Crash ==
    /\ pc # "idle" /\ Happens("crash")
    /\ Gone
    /\ UNCHANGED <<reviews, killed, market, orders, fills, command, account, history>>

\* Killed inside a write of the order state, which is left empty.
Tear ==
    /\ Submitting \/ pc \in {"reject", "submit", "accept", "report"}
    /\ Happens("tear")
    /\ orders' = [o \in Orders |-> NoOrder]
    /\ Gone
    /\ UNCHANGED <<reviews, killed, market, fills, command, account, history>>

-----------------------------------------------------------------------------
(* An operator's command, in a process of its own. *)

Pending == [cancel |-> "cancel_pending", replace |-> "replace_pending"]
around == <<reviews, killed, market, fills, run, account, slipped>>

\* A command on an order it cannot be asked of, or whose first transition is
\* not allowed, raises before it writes.
Ask(kind, o) ==
    /\ command = NoCommand /\ Happens("command")
    /\ Pending[kind] \in Allowed(orders[o].status)
    /\ command' = [kind |-> kind, order |-> o, step |-> "pend", record |-> orders[o]]
    /\ overlapped' = (overlapped \/ pc # "idle")
    /\ UNCHANGED <<around, orders>>

AtStep(s) == command # NoCommand /\ command.step = s

\* A write of the record in hand, with a status.
Write(status, step) ==
    /\ LET r == [command.record EXCEPT !.status = status]
       IN Save(command.order, r) /\ command' = [command EXCEPT !.step = step, !.record = r]
    /\ UNCHANGED <<around, overlapped, happened>>

Pend == AtStep("pend") /\ Write(Pending[command.kind], "read")

\* The order is read again; a cancel whose order is not pending any more, or
\* gone, raises.
ReadPending ==
    /\ AtStep("read")
    /\ LET r == orders[command.order]
           raises == r = NoOrder \/ (command.kind = "cancel" /\ r.status # "cancel_pending")
       IN command' = IF raises THEN NoCommand
                     ELSE [command EXCEPT !.step = command.kind, !.record = r]
    /\ UNCHANGED <<around, orders, overlapped, happened>>

Cancel ==
    /\ AtStep("cancel")
    /\ Save(command.order, [command.record EXCEPT !.status = "cancelled"])
    /\ command' = NoCommand
    /\ UNCHANGED <<around, overlapped, happened>>

Replace(shares) ==
    /\ AtStep("replace")
    /\ LET r == [command.record EXCEPT !.status = "replaced", !.shares = shares]
       IN Save(command.order, r) /\ command' = [command EXCEPT !.step = "accept", !.record = r]
    /\ UNCHANGED <<around, overlapped, happened>>

AcceptReplaced ==
    /\ AtStep("accept")
    /\ Save(command.order, [command.record EXCEPT !.status = "accepted"])
    /\ command' = NoCommand
    /\ UNCHANGED <<around, overlapped, happened>>

CommandDies ==
    /\ command # NoCommand /\ Happens("crash")
    /\ command' = NoCommand
    /\ UNCHANGED <<around, orders, overlapped>>

CommandTears ==
    /\ command # NoCommand /\ ~AtStep("read") /\ Happens("tear")
    /\ orders' = [o \in Orders |-> NoOrder]
    /\ command' = NoCommand
    /\ UNCHANGED <<around, overlapped>>

-----------------------------------------------------------------------------
(* What happens around them. *)

\* activate_kill_switch, deactivate_kill_switch
Switch ==
    /\ Happens("switch")
    /\ killed' = ~killed /\ slipped' = 0
    /\ UNCHANGED <<reviews, market, orders, fills, run, command, account, overlapped>>

\* The market data of the day are downloaded again and differ.
Revise ==
    /\ Happens("revision")
    /\ market' \in Markets
    /\ UNCHANGED <<reviews, killed, orders, fills, run, command, account, history>>

Run == Start \/ Replay \/ SaveNew \/ Refuse \/ Reject \/ Pass \/ Submit \/ Accept
       \/ Reread \/ Fill \/ Report \/ Book \/ Crash \/ Tear

Operate ==
    \/ \E kind \in {"cancel", "replace"}, o \in Orders : Ask(kind, o)
    \/ Pend \/ ReadPending \/ Cancel \/ AcceptReplaced \/ CommandDies \/ CommandTears
    \/ \E shares \in NewShares : Replace(shares)

Next ==
    \/ \E d \in Decisions : DecideRead(d) \/ DecideWrite(d)
    \/ Run \/ Operate \/ Switch \/ Revise

Spec == Init /\ [][Next]_vars

-----------------------------------------------------------------------------
(***************************************************************************)
(* Properties                                                              *)
(***************************************************************************)
\* Every variable has its type (the cash is CashBook's affair), a run leaves
\* nothing in memory, and only fills of the store are collected and booked.
TypeOK ==
    /\ approval \in Decisions \union {"pending"}
    /\ deciding \subseteq Decisions /\ decided \subseteq Decisions
    /\ killed \in BOOLEAN /\ market \in Markets /\ seen \in Markets
    /\ orders \in [Orders -> Records] /\ fills \subseteq Fills
    /\ pc \in {"idle", "look", "check", "reject", "submit", "submitted", "accept",
               "accepted", "fill", "report"}
    /\ at \in 1..(Count + 1) /\ record \in Records /\ got \subseteq fills
    /\ command \in Commands \union {NoCommand} /\ paid \subseteq fills
    /\ slipped \in Nat /\ overlapped \in BOOLEAN
    /\ happened \in [Events -> Nat]
    /\ pc = "idle" => got = {} /\ record = NoOrder

\* The two files of the broker's store agree, wherever a run or a command was
\* killed, as long as no command ran beside a run: a status that speaks of a
\* fill has that fill stored (so that the next run finds it), a filled order
\* has its shares and a partly filled one lacks some (_status_mismatch_count),
\* and a rejected one has none.
StatusHasFill ==
    ~overlapped => \A o \in Orders :
        LET r == orders[o] IN
        /\ r.filled > 0 => \E f \in FillsOf(o) : f.shares = r.filled
        /\ r.status = "filled" => r.filled = r.shares
        /\ r.status = "partial_filled" => r.filled \in 1..(r.shares - 1)
        /\ r.status = "rejected" => r.filled = 0 /\ FillsOf(o) # {}

Shares(o) == MapThenSumSet(LAMBDA f : f.shares, FillsOf(o))

\* However often the run is killed and repeated, and even when the store of
\* orders was torn, no order gets more shares than were approved (unless both
\* the store was torn and the market data changed).
WithinApproval ==
    ~overlapped /\ (happened["tear"] = 0 \/ happened["revision"] = 0) =>
        \A o \in Orders : Shares(o) <= Approved[o]

\* Only a batch that somebody approved is ever filled.
OnlyApproved == fills # {} => "approved" \in decided

\* What the broker's store says and what was approved agree.
FillsAgree == StatusHasFill /\ WithinApproval /\ OnlyApproved

\* A run that reports "executed" has booked every fill the broker's store has
\* of the batch, also those of runs that died before they booked anything,
\* unless the store of orders was torn; and no fill is booked that the store
\* does not have.
ExecutedIsBooked ==
    [][Book => /\ happened["tear"] = 0 => fills \subseteq paid'
               /\ paid' \subseteq fills]_vars

\* Once the kill switch is active at most one order still gets shares, the one
\* the run had already let through, whatever is repeated.
AtMostOneSlips == killed => slipped <= 1
=============================================================================
