--------------------------- MODULE SealedHoldout ---------------------------
(***************************************************************************)
(* The one-shot sealed holdout: HoldoutCapabilityRegistry of               *)
(* validation/walk_forward/red_team_capability.py and the agent of         *)
(* red_team_evaluator.py that consumes what it issues.                     *)
(*                                                                         *)
(* issue-capability registers a view and hands out a capability for it;    *)
(* evaluate consumes the capability, puts the feedback sentinel into the   *)
(* output root, opens the sealed payloads, publishes a result and closes   *)
(* the capability.  All of it goes through one append-only ledger under    *)
(* one flock; any number of processes run the two commands, and die or     *)
(* raise between any two durable writes.                                   *)
(***************************************************************************)
EXTENDS Integers, Sequences

CONSTANTS
    Procs,          \* processes that run issue-capability or evaluate
    NoProc,         \* "nobody"
    Views,          \* content hashes of sealed holdout views
    Roots,          \* output roots of the red team
    MaxIssues,      \* bound on issue-capability commands
    MaxEvaluations, \* bound on evaluate commands
    MaxCrashes,     \* bound on killed processes
    MaxErrors       \* bound on exceptions raised by a step of evaluate

ASSUME NoProcAssumption == NoProc \notin Procs
ASSUME BoundsAssumption ==
    /\ MaxIssues \in Nat
    /\ MaxEvaluations \in Nat
    /\ MaxCrashes \in Nat
    /\ MaxErrors \in Nat

VARIABLES
    ledger,         \* holdout_capability_ledger.jsonl
    manifests,      \* capabilities/<id>/holdout_capability.json
    sentinels,      \* output roots that hold holdout_feedback_forbidden.json
    results,        \* capabilities with a published result generation
    current,        \* per output root, what its current pointer names
    lock,           \* who holds the flock on the registry
    pc,             \* where each process is
    cap,            \* the capability it issues or evaluates
    opened,         \* history: how often the payloads of a view were opened
    issues, evaluations, crashes, errors

registry == <<ledger, manifests>>
output == <<sentinels, results, current>>
bounds == <<issues, evaluations, crashes, errors>>
vars == <<registry, output, lock, pc, cap, opened, bounds>>

\* The nonce of a capability is its number, 0 stands for none.
Capabilities == [id: 1..MaxIssues, view: Views, root: Roots]
NoCap == [id |-> 0]

Terminal == {"completed", "blocked"}
Event == [event: {"issued", "consumption_started"} \cup Terminal,
          cap: Capabilities]

Issuing == {"register", "manifest", "log"}
Evaluating == {"begin", "start", "guard", "open", "publish", "point", "finish",
               "complete", "block", "close"}

\* Past begin(): the capability may be spent, and is not closed.
Consuming == Evaluating \ {"begin"}

TypeOK ==
    /\ ledger \in Seq(Event)
    /\ manifests \subseteq Capabilities
    /\ sentinels \subseteq Roots
    /\ results \subseteq Capabilities
    /\ current \in [Roots -> 0..MaxIssues]
    /\ lock \in Procs \cup {NoProc}
    /\ pc \in [Procs -> {"idle"} \cup Issuing \cup Evaluating]
    /\ cap \in [Procs -> Capabilities \cup {NoCap}]
    /\ \A p \in Procs: (cap[p] = NoCap) <=> (pc[p] = "idle")
    /\ opened \in [Views -> Nat]
    /\ issues \in 0..MaxIssues
    /\ evaluations \in 0..MaxEvaluations
    /\ crashes \in 0..MaxCrashes
    /\ errors \in 0..MaxErrors

Init ==
    /\ ledger = <<>>
    /\ manifests = {}
    /\ sentinels = {}
    /\ results = {}
    /\ current = [r \in Roots |-> 0]
    /\ lock = NoProc
    /\ pc = [p \in Procs |-> "idle"]
    /\ cap = [p \in Procs |-> NoCap]
    /\ opened = [v \in Views |-> 0]
    /\ issues = 0 /\ evaluations = 0 /\ crashes = 0 /\ errors = 0

-----------------------------------------------------------------------------
Goto(p, from, to) ==
    /\ pc[p] = from
    /\ pc' = [pc EXCEPT ![p] = to]

\* Mutant: the capability is not let go of.
LeaveKeeping(p) ==
    /\ pc' = [pc EXCEPT ![p] = "idle"]
    /\ lock' = IF lock = p THEN NoProc ELSE lock
    /\ UNCHANGED cap

\* The command is over; a flock it still holds goes with its descriptor.
Leave(p) ==
    /\ pc' = [pc EXCEPT ![p] = "idle"]
    /\ cap' = [cap EXCEPT ![p] = NoCap]
    /\ lock' = IF lock = p THEN NoProc ELSE lock

Lock(p) ==
    /\ lock = NoProc
    /\ lock' = p

Append1(e, c) == ledger' = Append(ledger, [event |-> e, cap |-> c])

Logged(es, c) ==
    \E i \in 1..Len(ledger): ledger[i].event \in es /\ ledger[i].cap.id = c.id

Registered(v) == \E i \in 1..Len(ledger): ledger[i].cap.view = v

-----------------------------------------------------------------------------
(***************************************************************************)
(* issue-capability                                                        *)
(***************************************************************************)
\* The manifests are checked before the lock is taken.
Issue(p, v, r) ==
    /\ pc[p] = "idle"
    /\ issues < MaxIssues
    /\ issues' = issues + 1
    /\ pc' = [pc EXCEPT ![p] = "register"]
    /\ cap' = [cap EXCEPT ![p] = [id |-> issues + 1, view |-> v, root |-> r]]
    /\ UNCHANGED <<registry, output, lock, opened, evaluations, crashes, errors>>

\* holdout_view_already_registered
RefuseView(p) ==
    /\ pc[p] = "register" /\ lock = NoProc
    /\ Registered(cap[p].view)
    /\ Leave(p)
    /\ UNCHANGED <<registry, output, opened, bounds>>

Register(p) ==
    /\ Goto(p, "register", "manifest")
    /\ Lock(p)
    /\ ~Registered(cap[p].view)
    /\ UNCHANGED <<registry, output, cap, opened, bounds>>

WriteManifest(p) ==
    /\ Goto(p, "manifest", "log")
    /\ manifests' = manifests \cup {cap[p]}
    /\ UNCHANGED <<ledger, output, lock, cap, opened, bounds>>

LogIssued(p) ==
    /\ pc[p] = "log"
    /\ Append1("issued", cap[p])
    /\ Leave(p)
    /\ UNCHANGED <<manifests, output, opened, bounds>>

-----------------------------------------------------------------------------
(***************************************************************************)
(* evaluate                                                                *)
(***************************************************************************)
\* validate() reads the ledger without the lock.
Validate(p, c) ==
    /\ pc[p] = "idle"
    /\ evaluations < MaxEvaluations
    /\ evaluations' = evaluations + 1
    /\ c \in manifests
    /\ Logged({"issued"}, c)
    /\ pc' = [pc EXCEPT ![p] = "begin"]
    /\ cap' = [cap EXCEPT ![p] = c]
    /\ UNCHANGED <<registry, output, lock, opened, issues, crashes, errors>>

\* holdout_capability_already_consumed
RefuseCapability(p) ==
    /\ pc[p] = "begin" /\ lock = NoProc
    /\ Logged({"consumption_started"} \cup Terminal, cap[p])
    /\ Leave(p)
    /\ UNCHANGED <<registry, output, opened, bounds>>

\* Mutant: begin() looks at the ledger before it has the lock.
BeginUnlocked(p) ==
    /\ Goto(p, "begin", "start")
    /\ ~Logged({"consumption_started"} \cup Terminal, cap[p])
    /\ UNCHANGED <<registry, output, lock, cap, opened, bounds>>

\* begin() takes the lock and finds the capability unused ...
Begin(p) ==
    /\ Goto(p, "begin", "start")
    /\ Lock(p)
    /\ ~Logged({"consumption_started"} \cup Terminal, cap[p])
    /\ UNCHANGED <<registry, output, cap, opened, bounds>>

\* ... and spends it.
LogStarted(p) ==
    /\ Goto(p, "start", "guard")
    /\ Append1("consumption_started", cap[p])
    /\ lock' = NoProc
    /\ UNCHANGED <<manifests, output, cap, opened, bounds>>

WriteSentinel(p) ==
    /\ Goto(p, "guard", "open")
    /\ sentinels' = sentinels \cup {cap[p].root}
    /\ UNCHANGED <<registry, results, current, lock, cap, opened, bounds>>

\* validate_sealed_holdout_view(open_payloads=True), _load_view, the candidates
OpenView(p) ==
    /\ Goto(p, "open", "publish")
    /\ opened' = [opened EXCEPT ![cap[p].view] = @ + 1]
    /\ UNCHANGED <<registry, output, lock, cap, bounds>>

Publish(p) ==
    /\ Goto(p, "publish", "point")
    /\ cap[p] \notin results
    /\ results' = results \cup {cap[p]}
    /\ UNCHANGED <<registry, sentinels, current, lock, cap, opened, bounds>>

Point(p) ==
    /\ Goto(p, "point", "finish")
    /\ current' = [current EXCEPT ![cap[p].root] = cap[p].id]
    /\ UNCHANGED <<registry, sentinels, results, lock, cap, opened, bounds>>

\* Mutant: finish() looks for the start only.
TerminableOnceStarted(p) == Logged({"consumption_started"}, cap[p])

\* finish() takes the lock and wants one start and no end; else
\* capability_terminal_sequence_invalid.
Terminable(p) ==
    /\ Logged({"consumption_started"}, cap[p])
    /\ ~Logged(Terminal, cap[p])

Finish(p) ==
    /\ Goto(p, "finish", IF Terminable(p) THEN "complete" ELSE "block")
    /\ IF Terminable(p) THEN Lock(p) ELSE lock = NoProc /\ UNCHANGED lock
    /\ UNCHANGED <<registry, output, cap, opened, bounds>>

Complete(p) ==
    /\ pc[p] = "complete"
    /\ Append1("completed", cap[p])
    /\ Leave(p)
    /\ UNCHANGED <<manifests, output, opened, bounds>>

\* Mutant: the exception leaves evaluate uncaught.
RaiseUncaught(p) ==
    /\ errors < MaxErrors
    /\ errors' = errors + 1
    /\ pc[p] \in {"guard", "open", "publish", "point", "finish", "complete"}
    /\ Leave(p)
    /\ UNCHANGED <<registry, output, opened, issues, evaluations, crashes>>

\* A step of the try-block raises, before it has done its work or after.
Raise(p) ==
    /\ errors < MaxErrors
    /\ errors' = errors + 1
    /\ pc[p] \in {"guard", "open", "publish", "point", "finish", "complete"}
    /\ pc' = [pc EXCEPT ![p] = "block"]
    /\ lock' = IF lock = p THEN NoProc ELSE lock
    /\ \/ UNCHANGED ledger
       \/ pc[p] = "complete" /\ Append1("completed", cap[p])
    /\ UNCHANGED <<manifests, output, cap, opened, issues, evaluations, crashes>>

Block(p) ==
    /\ pc[p] = "block" /\ lock = NoProc
    /\ IF Terminable(p)
       THEN Goto(p, "block", "close") /\ Lock(p) /\ UNCHANGED cap
       ELSE Leave(p)
    /\ UNCHANGED <<registry, output, opened, bounds>>

LogBlocked(p) ==
    /\ pc[p] = "close"
    /\ Append1("blocked", cap[p])
    /\ Leave(p)
    /\ UNCHANGED <<manifests, output, opened, bounds>>

\* finish(status="blocked") raises itself, out of the handler and the command.
RaiseAgain(p) ==
    /\ errors < MaxErrors
    /\ errors' = errors + 1
    /\ pc[p] \in {"block", "close"}
    /\ \/ UNCHANGED ledger
       \/ pc[p] = "close" /\ Append1("blocked", cap[p])
    /\ Leave(p)
    /\ UNCHANGED <<manifests, output, opened, issues, evaluations, crashes>>

\* The process is killed, or its command is interrupted.
Crash(p) ==
    /\ pc[p] # "idle"
    /\ crashes < MaxCrashes
    /\ crashes' = crashes + 1
    /\ Leave(p)
    /\ UNCHANGED <<registry, output, opened, issues, evaluations, errors>>

-----------------------------------------------------------------------------
Step(p) ==
    \/ RefuseView(p) \/ Register(p) \/ WriteManifest(p) \/ LogIssued(p)
    \/ RefuseCapability(p) \/ Begin(p) \/ LogStarted(p) \/ WriteSentinel(p)
    \/ OpenView(p) \/ Publish(p) \/ Point(p) \/ Finish(p) \/ Complete(p)
    \/ Block(p) \/ LogBlocked(p)

Next ==
    \E p \in Procs:
        \/ \E v \in Views, r \in Roots: Issue(p, v, r)
        \/ \E c \in Capabilities: Validate(p, c)
        \/ Step(p) \/ Raise(p) \/ RaiseAgain(p) \/ Crash(p)

Spec == Init /\ [][Next]_vars

-----------------------------------------------------------------------------
(***************************************************************************)
(* Properties                                                              *)
(***************************************************************************)
\* The payloads of a view are opened at most once, by however many processes,
\* commands, crashes and retries.
OpenedOnce == \A v \in Views: opened[v] <= 1

\* Whoever has opened a view has spent its capability on the ledger and warned
\* the search agents off the output root before that.
OpenedIsGuarded ==
    \A v \in Views: opened[v] > 0 =>
        \E i \in 1..Len(ledger):
            /\ ledger[i].event = "consumption_started"
            /\ ledger[i].cap.view = v /\ ledger[i].cap.root \in sentinels

\* The payloads are opened once, and under guard.
OpenedOnceGuarded == OpenedOnce /\ OpenedIsGuarded

\* What verify_holdout_result accepts.
Verified(c) ==
    /\ c \in results /\ c \in manifests
    /\ Logged({"issued"}, c)
    /\ Logged({"completed"}, c)
    /\ ~Logged({"blocked"}, c)

\* An accepted result is the only one of its view, rests on an opened view, and
\* stays accepted.
OneVerdict ==
    \A c, d \in results: Verified(c) /\ Verified(d) /\ c.view = d.view =>
        c = d /\ opened[c.view] = 1
VerdictIsFinal == [][\A c \in results: Verified(c) => Verified(c)']_vars

\* A view gets one verdict, for ever.
OneFinalVerdict == []OneVerdict /\ VerdictIsFinal

\* An evaluation that nobody kills closes its capability even when one of its
\* steps raises; it takes a second exception, in the handler, to prevent that.
SpentIsClosed ==
    (crashes = 0 /\ errors <= 1) =>
        \A i \in 1..Len(ledger):
            LET c == ledger[i].cap
            IN (ledger[i].event = "consumption_started" /\ ~Logged(Terminal, c)) =>
                   \E p \in Procs: cap[p] = c /\ pc[p] \in Consuming
=============================================================================
