-------------------------- MODULE ProviderCapture --------------------------
(***************************************************************************)
(* run_free_provider_backfill of pipeline/ashare/free_provider_backfill.py *)
(* (the engine below the Baostock, CNINFO and CSI captures).               *)
(*                                                                         *)
(* An activity is a sealed contract and a plan of requests to a provider.  *)
(* Under the activity's flock a process opens the activity's directory,    *)
(* recovers its journal, and asks for what has no answer yet: a signed row *)
(* "started", the transport, the raw envelope, a signed row "terminal",    *)
(* each on disk before the next.  Lost answers are retried up to the       *)
(* contract's limit; a refusal opens the provider's breaker, which all     *)
(* activities share, and pauses the activity, as do spent budgets.  When   *)
(* every request is answered the directory becomes a prepared generation   *)
(* and is published.                                                       *)
(***************************************************************************)
EXTENDS Naturals, Sequences, FiniteSets

CONSTANTS
    Procs,          \* processes
    NoProc,         \* "nobody"
    Activities,     \* activities at one provider and host, with one output root
    NoActivity,     \* "no pointer yet", "none"
    NumRequests,    \* requests of a plan
    Answers,        \* what the transport can return
    MaxRequests,    \* budget.max_requests
    MaxVolume,      \* budget.max_total_response_bytes and max_wire_exchanges
    MaxRetries,     \* budget.max_retries
    MaxRuns,        \* bound on calls
    MaxCrashes      \* bound on deaths

Kinds == {"answer", "lost", "throttled", "denied", "broken"}
AllAnswers == [kind: Kinds, big: BOOLEAN]

ASSUME NoProcAssumption == NoProc \notin Procs
ASSUME NoActivityAssumption == NoActivity \notin Activities
ASSUME AnswersAssumption == Answers \subseteq AllAnswers
ASSUME BudgetAssumption ==
    /\ NumRequests \in Nat \ {0}
    /\ MaxRequests \in Nat
    /\ MaxRequests >= NumRequests
    /\ MaxVolume \in Nat
    /\ MaxRetries \in Nat
ASSUME BoundsAssumption == MaxRuns \in Nat /\ MaxCrashes \in Nat

VARIABLES
    lock,       \* who holds an activity's flock
    place,      \* what has become of its directory
    journal,    \* capture_journal.jsonl
    tail,       \* how the last line of the journal ends
    raw,        \* raw_envelopes/
    litter,     \* a temporary file of atomic_json was left in the directory
    refused,    \* a prepared generation the validator refuses lies beside it
    paused,     \* the activity has been paused (pauses/)
    breaker,    \* provider_circuit_breakers/breaker_<provider, host>.json
    pointer,    \* current.json of the output root
    pc,         \* where each process is
    act,        \* its activity
    at,         \* the attempt it makes or recovers
    answer,     \* the observation it holds
    sent,       \* how often an attempt of the directory has reached the provider
    late,       \* requests a call has sent since the breaker is open
    runs, crashes

disk ==
    <<place, journal, tail, raw, litter, refused, paused, breaker, pointer>>
seen == <<sent, late>>
counters == <<runs, crashes>>
vars == <<lock, disk, pc, act, at, answer, seen, counters>>

Requests == 1..NumRequests

\* request_id and retry_ordinal
Attempts == Requests \X (0..MaxRetries)
NoAttempt == <<0, 0>>

NoAnswer == [kind |-> "none", big |-> FALSE]
Ambiguous == [kind |-> "lost", big |-> FALSE]

Answered(x) == x.kind = "answer"
Retryable(x) == x.kind \in {"lost", "throttled"}
OpensBreaker(x) == x.kind \in {"throttled", "denied"}
ManualResumeRequired(x) == x.kind \in {"throttled", "denied", "broken"}

\* A response over max_response_bytes also weighs more in the total.
Volume(x) == IF x.big THEN 2 ELSE 1

TailRecovered == [type |-> "tail_recovered", at |-> NoAttempt, answer |-> NoAnswer]
Event == [type: {"started", "terminal"}, at: Attempts,
          answer: AllAnswers \cup {NoAnswer}] \cup {TailRecovered}

\* made: no activity_contract.json and request_plan.json; run: the activity is
\* open; prepared: renamed to its generation id; open: among the generations,
\* its root still writable; published: frozen.
Places == {"absent", "made", "run", "prepared", "open", "published"}

PCs == {"idle", "locking", "entering", "identifying", "repairing", "noting",
        "validating", "recovering", "rebuilding", "closing", "walking",
        "checking", "starting", "sending", "writing", "terminating",
        "tripping", "pausing", "manifesting", "preparing", "publishing",
        "sealing", "pointing"}

TypeOK ==
    /\ lock \in [Activities -> Procs \cup {NoProc}]
    /\ place \in [Activities -> Places]
    /\ journal \in [Activities -> Seq(Event)]
    /\ tail \in [Activities -> {"whole", "bare", "torn"}]
    /\ raw \in [Activities -> [Attempts -> AllAnswers \cup {NoAnswer}]]
    /\ litter \in [Activities -> BOOLEAN]
    /\ refused \in [Activities -> BOOLEAN]
    /\ paused \in [Activities -> BOOLEAN]
    /\ breaker \in BOOLEAN
    /\ pointer \in Activities \cup {NoActivity}
    /\ pc \in [Procs -> PCs]
    /\ act \in [Procs -> Activities \cup {NoActivity}]
    /\ at \in [Procs -> Attempts \cup {NoAttempt}]
    /\ answer \in [Procs -> AllAnswers \cup {NoAnswer}]
    /\ sent \in [Activities -> [Attempts -> Nat]]
    /\ late \in [Procs -> Nat]
    /\ runs \in 0..MaxRuns
    /\ crashes \in 0..MaxCrashes

-----------------------------------------------------------------------------
(* The journal *)

Rows(j, type) == {i \in 1..Len(j): j[i].type = type}

\* The last terminal row of a request.
Terminals(j, r) == {i \in Rows(j, "terminal"): j[i].at[1] = r}
Unasked == [type |-> "none", at |-> NoAttempt, answer |-> NoAnswer]
Latest(j, r) ==
    IF Terminals(j, r) = {} THEN Unasked
    ELSE j[CHOOSE i \in Terminals(j, r): \A k \in Terminals(j, r): k <= i]

\* Started, and killed before the terminal row.
Pending(j) ==
    {j[i].at: i \in Rows(j, "started")} \ {j[i].at: i \in Rows(j, "terminal")}

\* attempt_count, and response_bytes or wire_exchange_count.
Count(j) == Cardinality(Rows(j, "terminal"))
Usage(j) ==
    Count(j) + Cardinality({i \in Rows(j, "terminal"): Volume(j[i].answer) = 2})

\* No row "pause_resume_authorized" can be written (_authorize_paused_retry
\* returns False or raises), so a retry after what asks for one is never
\* accepted.
JournalAccepted(j) ==
    LET S == Rows(j, "started")
        T == Rows(j, "terminal")
    IN /\ \A i, k \in S: j[i].at = j[k].at => i = k
       /\ \A i, k \in T: j[i].at = j[k].at => i = k
       /\ \A i \in T: \E k \in S: k < i /\ j[k].at = j[i].at
       /\ \A i \in S: \A k \in T:
             k < i /\ j[i].at = <<j[k].at[1], j[k].at[2] + 1>>
                => ~ManualResumeRequired(j[k].answer)
       /\ \A i \in S: \A o \in 0..(j[i].at[2]):
             \E k \in S: j[k].at = <<j[i].at[1], o>>
       /\ \A i \in S: \A k \in T:
             Answered(j[k].answer) /\ j[i].at[1] = j[k].at[1]
                => j[i].at[2] <= j[k].at[2]

\* validate_free_provider_backfill: journal, raw envelopes, budget, and no
\* file but those it knows.
Valid(a) ==
    /\ JournalAccepted(journal[a])
    /\ Pending(journal[a]) = {}
    /\ \A r \in Requests: Terminals(journal[a], r) # {}
    /\ \A i \in Rows(journal[a], "terminal"):
          /\ raw[a][journal[a][i].at] = journal[a][i].answer
          /\ ~journal[a][i].answer.big
    /\ Count(journal[a]) <= MaxRequests
    /\ Usage(journal[a]) <= MaxVolume
    /\ ~litter[a]

-----------------------------------------------------------------------------
Init ==
    /\ lock = [a \in Activities |-> NoProc]
    /\ place = [a \in Activities |-> "absent"]
    /\ journal = [a \in Activities |-> <<>>]
    /\ tail = [a \in Activities |-> "whole"]
    /\ raw = [a \in Activities |-> [x \in Attempts |-> NoAnswer]]
    /\ litter = [a \in Activities |-> FALSE]
    /\ refused = [a \in Activities |-> FALSE]
    /\ paused = [a \in Activities |-> FALSE]
    /\ breaker = FALSE
    /\ pointer = NoActivity
    /\ pc = [p \in Procs |-> "idle"]
    /\ act = [p \in Procs |-> NoActivity]
    /\ at = [p \in Procs |-> NoAttempt]
    /\ answer = [p \in Procs |-> NoAnswer]
    /\ sent = [a \in Activities |-> [x \in Attempts |-> 0]]
    /\ late = [p \in Procs |-> 0]
    /\ runs = 0
    /\ crashes = 0

Goto(p, label) == pc' = [pc EXCEPT ![p] = label]
SetPlace(a, x) == place' = [place EXCEPT ![a] = x]
Append1(a, row) == journal' = [journal EXCEPT ![a] = Append(@, row)]

\* A call returns or raises; the flock goes with it.
Forget(p) ==
    /\ lock' = [a \in Activities |-> IF lock[a] = p THEN NoProc ELSE lock[a]]
    /\ Goto(p, "idle")
    /\ act' = [act EXCEPT ![p] = NoActivity]
    /\ at' = [at EXCEPT ![p] = NoAttempt]
    /\ answer' = [answer EXCEPT ![p] = NoAnswer]
    /\ late' = [late EXCEPT ![p] = 0]

IsPublished(a) == place[a] \in {"open", "published"}

(***************************************************************************)
(* From the call to the open directory                                     *)
(***************************************************************************)
\* The cached generation of the activity is returned, and current.json made
\* to name it, before anything is locked.
Call(p, a) ==
    /\ pc[p] = "idle"
    /\ runs < MaxRuns
    /\ runs' = runs + 1
    /\ IF IsPublished(a)
       THEN /\ pointer' = a
            /\ UNCHANGED <<pc, act>>
       ELSE /\ Goto(p, "locking")
            /\ act' = [act EXCEPT ![p] = a]
            /\ UNCHANGED pointer
    /\ UNCHANGED <<lock, place, journal, tail, raw, litter, refused, paused,
                   breaker, at, answer, seen, crashes>>

Lock(p) ==
    /\ pc[p] = "locking"
    /\ lock[act[p]] = NoProc
    /\ lock' = [lock EXCEPT ![act[p]] = p]
    /\ Goto(p, "entering")
    /\ UNCHANGED <<disk, act, at, answer, seen, counters>>

\* Under the flock the generation is looked for again, then a prepared one
\* that a killed process left.  One that the validator refuses is passed over,
\* and the activity begins anew.
Cached(p) ==
    /\ pc[p] = "entering"
    /\ IsPublished(act[p])
    /\ pointer' = act[p]
    /\ Forget(p)
    /\ UNCHANGED <<place, journal, tail, raw, litter, refused, paused, breaker,
                   sent, counters>>

ResumePublication(p) ==
    /\ pc[p] = "entering"
    /\ place[act[p]] = "prepared"
    /\ Valid(act[p])
    /\ Goto(p, "publishing")
    /\ UNCHANGED <<lock, disk, act, at, answer, seen, counters>>

MakeDirectory(p) ==
    /\ pc[p] = "entering"
    /\ \/ place[act[p]] = "absent"
       \/ place[act[p]] = "prepared" /\ ~Valid(act[p])
    /\ SetPlace(act[p], "made")
    /\ journal' = [journal EXCEPT ![act[p]] = <<>>]
    /\ tail' = [tail EXCEPT ![act[p]] = "whole"]
    /\ raw' = [raw EXCEPT ![act[p]] = [x \in Attempts |-> NoAnswer]]
    /\ litter' = [litter EXCEPT ![act[p]] = FALSE]
    /\ refused' = [refused EXCEPT ![act[p]] = @ \/ place[act[p]] = "prepared"]
    /\ sent' = [sent EXCEPT ![act[p]] = [x \in Attempts |-> 0]]
    /\ Goto(p, "identifying")
    /\ UNCHANGED <<lock, paused, breaker, pointer, act, at, answer,
                   late, counters>>

OpenDirectory(p) ==
    /\ pc[p] = "entering"
    /\ place[act[p]] \in {"made", "run"}
    /\ Goto(p, IF place[act[p]] = "made" THEN "identifying" ELSE "repairing")
    /\ UNCHANGED <<lock, disk, act, at, answer, seen, counters>>

WriteIdentity(p) ==
    /\ pc[p] = "identifying"
    /\ SetPlace(act[p], "run")
    /\ Goto(p, "repairing")
    /\ UNCHANGED <<lock, journal, tail, raw, litter, refused, paused, breaker,
                   pointer, act, at, answer, seen, counters>>

(***************************************************************************)
(* Recovery                                                                *)
(***************************************************************************)
\* A last row without its newline is given one; a fragment is cut off, and
\* then kept in a row of its own.
RepairTail(p) ==
    /\ pc[p] = "repairing"
    /\ tail' = [tail EXCEPT ![act[p]] = "whole"]
    /\ Goto(p, IF tail[act[p]] = "torn" THEN "noting" ELSE "validating")
    /\ UNCHANGED <<lock, place, journal, raw, litter, refused, paused, breaker,
                   pointer, act, at, answer, seen, counters>>

\* The row a process is about to append.
Row(p) ==
    CASE pc[p] = "noting" -> TailRecovered
      [] pc[p] = "starting" ->
            [type |-> "started", at |-> at[p], answer |-> NoAnswer]
      [] OTHER ->
            [type |-> "terminal", at |-> at[p], answer |-> raw[act[p]][at[p]]]

NoteFragment(p) ==
    /\ pc[p] = "noting"
    /\ Append1(act[p], Row(p))
    /\ Goto(p, "validating")
    /\ UNCHANGED <<lock, place, tail, raw, litter, refused, paused, breaker,
                   pointer, act, at, answer, seen, counters>>

Validate(p) ==
    /\ pc[p] = "validating"
    /\ JournalAccepted(journal[act[p]])
    /\ Goto(p, "recovering")
    /\ UNCHANGED <<lock, disk, act, at, answer, seen, counters>>

RaiseInvalid(p) ==
    /\ pc[p] = "validating"
    /\ ~JournalAccepted(journal[act[p]])
    /\ Forget(p)
    /\ UNCHANGED <<disk, sent, counters>>

\* An attempt that a kill left without a terminal row gets one from its raw
\* envelope, and a raw envelope that says "ambiguous" if there is none.
Recover(p) ==
    /\ pc[p] = "recovering"
    /\ \E x \in Pending(journal[act[p]]):
          /\ at' = [at EXCEPT ![p] = x]
          /\ Goto(p, IF raw[act[p]][x] = NoAnswer THEN "rebuilding"
                                                  ELSE "closing")
    /\ UNCHANGED <<lock, disk, act, answer, seen, counters>>

Rebuild(p) ==
    /\ pc[p] = "rebuilding"
    /\ raw' = [raw EXCEPT ![act[p]][at[p]] = Ambiguous]
    /\ Goto(p, "closing")
    /\ UNCHANGED <<lock, place, journal, tail, litter, refused, paused,
                   breaker, pointer, act, at, answer, seen, counters>>

Close(p) ==
    /\ pc[p] = "closing"
    /\ Append1(act[p], Row(p))
    /\ Goto(p, "recovering")
    /\ UNCHANGED <<lock, place, tail, raw, litter, refused, paused, breaker,
                   pointer, act, at, answer, seen, counters>>

\* Mutant: an attempt without a terminal row is forgotten.
RecoveredUnfinished(p) ==
    /\ pc[p] = "recovering"
    /\ Goto(p, "walking")
    /\ UNCHANGED <<lock, disk, act, at, answer, seen, counters>>

Recovered(p) ==
    /\ pc[p] = "recovering"
    /\ Pending(journal[act[p]]) = {}
    /\ Goto(p, "walking")
    /\ UNCHANGED <<lock, disk, act, at, answer, seen, counters>>

(***************************************************************************)
(* Requests, in the order of the plan                                      *)
(***************************************************************************)
Open(j, r) == ~Answered(Latest(j, r).answer)
AllAnswered(j) == \A r \in Requests: ~Open(j, r)
NextRequest(j) == CHOOSE r \in Requests:
                      Open(j, r) /\ \A q \in Requests: Open(j, q) => r <= q

\* Mutant: what must not be retried is retried.
SpentByCount(event) == event.type = "terminal" /\ event.at[2] >= MaxRetries

\* Its last terminal row is an error with no retry left.
Spent(event) ==
    /\ event.type = "terminal"
    /\ ~Retryable(event.answer) \/ event.at[2] >= MaxRetries

Exceeded(j, limit) == Count(j) > limit \/ Usage(j) > MaxVolume

Walk(p) ==
    LET j == journal[act[p]]
        r == NextRequest(j)
        last == Latest(j, r)
    IN /\ pc[p] = "walking"
       /\ ~AllAnswered(j)
       /\ IF Spent(last)
          THEN /\ Goto(p, "pausing")
               /\ UNCHANGED at
          ELSE /\ Goto(p, "checking")
               /\ at' = [at EXCEPT ![p] =
                           <<r, IF last = Unasked THEN 0 ELSE last.at[2] + 1>>]
       /\ UNCHANGED <<lock, disk, act, answer, seen, counters>>

\* ProviderBackfillPaused without a pause file.
RaiseOpen(p) ==
    /\ pc[p] = "checking"
    /\ breaker
    /\ Forget(p)
    /\ UNCHANGED <<disk, sent, counters>>

\* Mutant: the breaker is not looked at.
CheckBudget(p) ==
    /\ pc[p] = "checking"
    /\ Goto(p, IF Exceeded(journal[act[p]], MaxRequests - 1)
               THEN "pausing" ELSE "starting")
    /\ UNCHANGED <<lock, disk, act, at, answer, seen, counters>>

Check(p) ==
    /\ pc[p] = "checking"
    /\ ~breaker
    /\ Goto(p, IF Exceeded(journal[act[p]], MaxRequests - 1)
               THEN "pausing" ELSE "starting")
    /\ UNCHANGED <<lock, disk, act, at, answer, seen, counters>>

StartAttempt(p) ==
    /\ pc[p] = "starting"
    /\ Append1(act[p], Row(p))
    /\ Goto(p, "sending")
    /\ UNCHANGED <<lock, place, tail, raw, litter, refused, paused, breaker,
                   pointer, act, at, answer, seen, counters>>

\* transport(request): also an exception it raises is an observation.
Send(p) ==
    /\ pc[p] = "sending"
    /\ \E x \in Answers: answer' = [answer EXCEPT ![p] = x]
    /\ sent' = [sent EXCEPT ![act[p]][at[p]] = @ + 1]
    /\ late' = [late EXCEPT ![p] = IF breaker THEN @ + 1 ELSE @]
    /\ Goto(p, "writing")
    /\ UNCHANGED <<lock, disk, act, at, counters>>

WriteRaw(p) ==
    /\ pc[p] = "writing"
    /\ raw' = [raw EXCEPT ![act[p]][at[p]] = answer[p]]
    /\ Goto(p, "terminating")
    /\ UNCHANGED <<lock, place, journal, tail, litter, refused, paused,
                   breaker, pointer, act, at, answer, seen, counters>>

\* What follows from the answer, size and budgets first.
WriteTerminal(p) ==
    LET x == answer[p]
        j == Append(journal[act[p]], Row(p))
    IN /\ pc[p] = "terminating"
       /\ Append1(act[p], Row(p))
       /\ answer' = [answer EXCEPT ![p] = NoAnswer]
       /\ IF x.big \/ Exceeded(j, MaxRequests) THEN
              Goto(p, "pausing") /\ UNCHANGED at
          ELSE IF Answered(x) THEN
              Goto(p, "walking") /\ UNCHANGED at
          ELSE IF OpensBreaker(x) THEN
              Goto(p, "tripping") /\ UNCHANGED at
          ELSE IF ~Retryable(x) \/ at[p][2] >= MaxRetries THEN
              Goto(p, "pausing") /\ UNCHANGED at
          ELSE
              /\ Goto(p, "checking")
              /\ at' = [at EXCEPT ![p][2] = @ + 1]
       /\ UNCHANGED <<lock, place, tail, raw, litter, refused, paused, breaker,
                      pointer, act, seen, counters>>

\* The breaker has its own flock; whoever finds it open leaves it.
TripBreaker(p) ==
    /\ pc[p] = "tripping"
    /\ breaker' = TRUE
    /\ Goto(p, "pausing")
    /\ UNCHANGED <<lock, place, journal, tail, raw, litter, refused, paused,
                   pointer, act, at, answer, seen, counters>>

Pause(p) ==
    /\ pc[p] = "pausing"
    /\ paused' = [paused EXCEPT ![act[p]] = TRUE]
    /\ Forget(p)
    /\ UNCHANGED <<place, journal, tail, raw, litter, refused, breaker,
                   pointer, sent, counters>>

(***************************************************************************)
(* Publication                                                             *)
(***************************************************************************)
Complete(p) ==
    /\ pc[p] = "walking"
    /\ AllAnswered(journal[act[p]])
    /\ Goto(p, "manifesting")
    /\ UNCHANGED <<lock, disk, act, at, answer, seen, counters>>

\* Normalized artifacts, catalog and manifest; those of a killed process are
\* replaced.
WriteManifest(p) ==
    /\ pc[p] = "manifesting"
    /\ Goto(p, "preparing")
    /\ UNCHANGED <<lock, disk, act, at, answer, seen, counters>>

Prepare(p) ==
    /\ pc[p] = "preparing"
    /\ SetPlace(act[p], "prepared")
    /\ Goto(p, "publishing")
    /\ UNCHANGED <<lock, journal, tail, raw, litter, refused, paused, breaker,
                   pointer, act, at, answer, seen, counters>>

\* Mutant: published as it is.
PublishUnseen(p) ==
    /\ pc[p] = "publishing"
    /\ SetPlace(act[p], "open")
    /\ Goto(p, "sealing")
    /\ UNCHANGED <<lock, journal, tail, raw, litter, refused, paused, breaker,
                   pointer, act, at, answer, seen, counters>>

\* publish_prepared_generation: the validator, and the rename of the root
\* with write permission.
Publish(p) ==
    /\ pc[p] = "publishing"
    /\ Valid(act[p])
    /\ SetPlace(act[p], "open")
    /\ Goto(p, "sealing")
    /\ UNCHANGED <<lock, journal, tail, raw, litter, refused, paused, breaker,
                   pointer, act, at, answer, seen, counters>>

RaiseRefused(p) ==
    /\ pc[p] = "publishing"
    /\ ~Valid(act[p])
    /\ Forget(p)
    /\ UNCHANGED <<disk, sent, counters>>

Seal(p) ==
    /\ pc[p] = "sealing"
    /\ SetPlace(act[p], "published")
    /\ Goto(p, "pointing")
    /\ UNCHANGED <<lock, journal, tail, raw, litter, refused, paused, breaker,
                   pointer, act, at, answer, seen, counters>>

Point(p) ==
    /\ pc[p] = "pointing"
    /\ pointer' = act[p]
    /\ Forget(p)
    /\ UNCHANGED <<place, journal, tail, raw, litter, refused, paused, breaker,
                   sent, counters>>

(***************************************************************************)
(* Kills                                                                   *)
(***************************************************************************)
Appending == {"noting", "closing", "starting", "terminating"}
Writing == {"identifying", "rebuilding", "writing", "pausing", "manifesting"}

Dies(p) ==
    /\ pc[p] # "idle"
    /\ crashes < MaxCrashes
    /\ crashes' = crashes + 1
    /\ Forget(p)

Crash(p) ==
    /\ Dies(p)
    /\ UNCHANGED <<disk, sent, runs>>

\* ... inside the write of a row, of which a part is there, or all but the
\* newline.
TearRow(p) ==
    /\ pc[p] \in Appending
    /\ Dies(p)
    /\ \/ /\ tail' = [tail EXCEPT ![act[p]] = "torn"]
          /\ UNCHANGED journal
       \/ /\ tail' = [tail EXCEPT ![act[p]] = "bare"]
          /\ Append1(act[p], Row(p))
    /\ UNCHANGED <<place, raw, litter, refused, paused, breaker, pointer, sent,
                   runs>>

\* ... inside atomic_json, before the rename of its temporary file.
LeaveTemporary(p) ==
    /\ pc[p] \in Writing
    /\ Dies(p)
    /\ litter' = [litter EXCEPT ![act[p]] = TRUE]
    /\ UNCHANGED <<place, journal, tail, raw, refused, paused, breaker,
                   pointer, sent, runs>>

-----------------------------------------------------------------------------
Step(p) ==
    \/ Lock(p) \/ Cached(p) \/ ResumePublication(p) \/ MakeDirectory(p)
    \/ OpenDirectory(p) \/ WriteIdentity(p)
    \/ RepairTail(p) \/ NoteFragment(p) \/ Validate(p) \/ RaiseInvalid(p)
    \/ Recover(p) \/ Rebuild(p) \/ Close(p) \/ Recovered(p)
    \/ Walk(p) \/ RaiseOpen(p) \/ Check(p) \/ StartAttempt(p) \/ Send(p)
    \/ WriteRaw(p) \/ WriteTerminal(p) \/ TripBreaker(p) \/ Pause(p)
    \/ Complete(p) \/ WriteManifest(p) \/ Prepare(p) \/ Publish(p)
    \/ RaiseRefused(p) \/ Seal(p) \/ Point(p)

Next ==
    \E p \in Procs:
        \/ \E a \in Activities: Call(p, a)
        \/ Step(p)
        \/ Crash(p) \/ TearRow(p) \/ LeaveTemporary(p)

Spec == Init /\ [][Next]_vars
-----------------------------------------------------------------------------
(* Properties *)

\* A retry after a 429 (or a retryable page of the firewall) whose breaker was
\* not opened.
ThrottleRetried(j) ==
    \E i \in Rows(j, "started"), k \in Rows(j, "terminal"):
        /\ k < i
        /\ j[i].at = <<j[k].at[1], j[k].at[2] + 1>>
        /\ j[k].answer.kind = "throttled"

\* Whatever kills and torn rows a journal has seen, the validator of the next
\* recovery accepts it, but for one case: a 429 whose process was killed before
\* it opened the breaker, or which was paused for size first, and which a
\* later call has retried.  And no raw envelope is ever there before its
\* observation, so raw_capture_collision cannot be raised.
JournalIsAccepted ==
    /\ TypeOK
    /\ \A a \in Activities:
          JournalAccepted(journal[a]) \/ ThrottleRetried(journal[a])
    /\ \A p \in Procs: pc[p] = "writing" => raw[act[p]][at[p]] = NoAnswer

\* A request is on its way only when it is due: the earlier requests of the
\* plan are answered, each earlier attempt at it has ended with an error that
\* may be retried, the budget has room, and this attempt was never made; over
\* all calls and kills no attempt reaches the provider twice, and no more than
\* max_requests do.  A paused activity stays blocked
\* (docs/FREE_PROVIDER_BACKFILL.md:72), but for a pause over the size of an
\* answer, which no later call remembers, or one before the directory was
\* given up.
SendsAreDue ==
    /\ \A p \in Procs: pc[p] = "sending" =>
          LET a == act[p]
              r == at[p][1]
          IN /\ sent[a][at[p]] = 0
             /\ \A q \in 1..(r - 1): \E o \in 0..MaxRetries:
                    Answered(raw[a][<<q, o>>])
             /\ \A o \in 0..(at[p][2] - 1): Retryable(raw[a][<<r, o>>])
             /\ Count(journal[a]) < MaxRequests
             /\ Usage(journal[a]) <= MaxVolume
             /\ paused[a] => refused[a] \/ \E x \in Attempts: raw[a][x].big
    /\ \A a \in Activities:
          /\ \A x \in Attempts: sent[a][x] <= 1
          /\ Cardinality({x \in Attempts: sent[a][x] = 1}) <= MaxRequests

\* The breaker is read before every attempt, so a call has at most one request
\* on its way when another activity opens it, and sends no more.
AtMostOneLate == \A p \in Procs: late[p] <= 1

\* What a finished directory can be refused for: an answer too large or too
\* much in all, a 429 retried, a file left by a kill.
ReasonToRefuse(a) ==
    \/ \E x \in Attempts: raw[a][x].big
    \/ Usage(journal[a]) > MaxVolume
    \/ ThrottleRetried(journal[a])
    \/ litter[a]

\* A published generation stays valid while other calls come and go: no
\* further row, file or request, and an answer to every request that was
\* asked for; current.json names a published one.  A directory whose requests
\* are all answered is refused for those reasons only.
PublishedIsWhole ==
    /\ \A a \in Activities: IsPublished(a) =>
          /\ Valid(a)
          /\ tail[a] = "whole"
          /\ \A r \in Requests: \E o \in 0..MaxRetries:
                Answered(raw[a][<<r, o>>]) /\ sent[a][<<r, o>>] = 1
    /\ \A a \in Activities: place[a] = "prepared" =>
          Valid(a) \/ ReasonToRefuse(a)
    /\ pointer # NoActivity => IsPublished(pointer)
=============================================================================
