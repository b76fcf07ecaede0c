---------------------------- MODULE SingleCanary ----------------------------
(***************************************************************************)
(* execute_operator_authorized_single_canary of                            *)
(* platform/governance/network/gateway.py: under a fenced lease, spend one *)
(* credential read and one HTTPS POST, publish the signed receipt, the     *)
(* cache entry and the acceptance of the answer, and close the journals;   *)
(* or, when an earlier process died on the way, finish what its receipt    *)
(* proves without ever posting again.                                      *)
(*                                                                         *)
(* Every statement of the code that changes durable state is a step of its *)
(* own, taken together with the lease.checkpoint before it; a process can  *)
(* die, or an operation raise, between any two.  The lease is the abstract *)
(* one, which DurableLease implements.                                     *)
(***************************************************************************)
EXTENDS Naturals, Sequences, FiniteSets

CONSTANTS
    Procs,      \* processes that run the command
    NoProc,     \* "no process"
    Seals,      \* final candidate seals (each determines its attempt_id)
    NoSeal,     \* "no seal"
    Answers,    \* record sets the provider may return
    NoAnswer,   \* "no answer"
    MaxStarts,  \* bound on runs of the command
    MaxChanges  \* bound on replacements of lock file or cache

ASSUME NoProcAssumption == NoProc \notin Procs
ASSUME NoSealAssumption == NoSeal \notin Seals
ASSUME NoAnswerAssumption == NoAnswer \notin Answers
ASSUME BoundsAssumption == MaxStarts \in Nat /\ MaxChanges \in Nat

VARIABLES
    owner, fence, root, torn,   \* the lease, see FencedLease
    intact,         \* the lock file and the authority root are the real ones
    network, spend, \* the two journals: [rows, synced]
    reservations, receipts, acceptances,    \* published generations
    cache,          \* the cache entry of the canary request
    stamp,          \* the latest created_at second written to the cache
    pc, seal, got,  \* each process: where it is, its seal, its answer
    starts, changes,
    posts, reads, answer, results   \* history: POSTs sent, credential reads,
                                    \* the answer delivered, answers accepted

lease == <<owner, fence, root, torn>>
journals == <<network, spend>>
published == <<reservations, receipts, acceptances>>
ghosts == <<posts, reads, answer, results>>
vars == <<lease, intact, journals, published, cache, stamp, pc, seal, got,
          starts, changes, ghosts>>

Lease == INSTANCE FencedLease WITH Roots <- Seals, NoRoot <- NoSeal

(***************************************************************************)
(* Data                                                                    *)
(***************************************************************************)
Events == {"credential_read_intent", "attempt_intent", "physical_post_started",
           "physical_post_completed", "request_terminal"}

\* fence: the lease_binding of the writer; stamp: the cache_sha256 it names.
Row == [event: Events, attempt: Seals, fence: Nat, stamp: Nat]
Journal == [rows: Seq(Row), synced: BOOLEAN]

\* A reservation holds the public key of a signer drawn for this lease.
Reservation == [attempt: Seals, fence: Nat]
Receipt == [reservation: Reservation, records: Answers]
Acceptance == [receipt: Receipt, stamp: Nat]
Cache == [state: {"absent", "corrupt", "present"},
          records: Answers \cup {NoAnswer}, stamp: Nat]

PCs == {"idle", "waiting", "opened", "tls", "credential_intent", "credential",
        "reserve", "intent", "start", "transport", "receipt", "cache",
        "acceptance", "recover_cache", "recover_acceptance", "complete",
        "terminal", "load", "accepted", "refused", "raised"}

\* The points at which a process owns the lease.
Inside == PCs \ {"idle", "waiting"}

TypeOK ==
    /\ Lease!TypeOK
    /\ intact \in BOOLEAN
    /\ network \in Journal /\ spend \in Journal
    /\ reservations \subseteq Reservation
    /\ receipts \subseteq Receipt
    /\ acceptances \subseteq Acceptance
    /\ cache \in Cache
    /\ stamp \in Nat
    /\ pc \in [Procs -> PCs]
    /\ seal \in [Procs -> Seals \cup {NoSeal}]
    /\ got \in [Procs -> Answers \cup {NoAnswer}]
    /\ starts \in Nat /\ changes \in Nat
    /\ posts \in Nat /\ reads \in Nat
    /\ answer \in Answers \cup {NoAnswer}
    /\ results \subseteq Answers

\* event_rows: the positions of an event in a journal, of one attempt or all.
RowsOf(journal, event, attempts) ==
    {i \in 1..Len(journal.rows): /\ journal.rows[i].event = event
                                 /\ journal.rows[i].attempt \in attempts}

Has(journal, event, attempt) == RowsOf(journal, event, {attempt}) # {}

\* lease.checkpoint() does not raise.
Passes(p) == owner = p /\ intact

ReservationsOf(attempt) == {r \in reservations: r.attempt = attempt}
ReceiptsOf(attempt) == {r \in receipts: r.reservation.attempt = attempt}
AcceptancesOf(reservation) ==
    {a \in acceptances: a.receipt.reservation = reservation}

-----------------------------------------------------------------------------
Init ==
    /\ Lease!Init
    /\ intact = TRUE
    /\ network = [rows |-> <<>>, synced |-> TRUE]
    /\ spend = [rows |-> <<>>, synced |-> TRUE]
    /\ reservations = {} /\ receipts = {} /\ acceptances = {}
    /\ cache = [state |-> "absent", records |-> NoAnswer, stamp |-> 0]
    /\ stamp = 0
    /\ pc = [p \in Procs |-> "idle"]
    /\ seal = [p \in Procs |-> NoSeal]
    /\ got = [p \in Procs |-> NoAnswer]
    /\ starts = 0 /\ changes = 0
    /\ posts = 0 /\ reads = 0 /\ answer = NoAnswer /\ results = {}

Goto(p, to) == pc' = [pc EXCEPT ![p] = to]

\* The process is between two statements of the protocol at "at": its
\* checkpoint passes and it goes on to "to".
From(p, at, to) ==
    /\ pc[p] = at
    /\ Passes(p)
    /\ Goto(p, to)
    /\ UNCHANGED <<lease, intact, seal, starts, changes>>

\* The event a process is about to append, by where it is.
EventAt == [credential_intent |-> "credential_read_intent",
            intent |-> "attempt_intent",
            start |-> "physical_post_started",
            complete |-> "physical_post_completed",
            terminal |-> "request_terminal"]

RowBy(p) ==
    [event |-> EventAt[pc[p]],
     attempt |-> seal[p],
     fence |-> fence,
     stamp |-> IF pc[p] \in {"complete", "terminal"} THEN cache.stamp ELSE 0]

\* DurableHashJournal.append writes the row, then checkpoint.json, which a
\* crash in between leaves behind (synced = FALSE).
AppendRow(p, synced) ==
    LET longer(journal) ==
          [rows |-> Append(journal.rows, RowBy(p)), synced |-> synced]
    IN IF pc[p] \in {"start", "complete"}
       THEN spend' = longer(spend) /\ UNCHANGED network
       ELSE network' = longer(network) /\ UNCHANGED spend

(***************************************************************************)
(* The lease                                                               *)
(***************************************************************************)
Start(p, s) ==
    /\ pc[p] = "idle"
    /\ starts < MaxStarts
    /\ Goto(p, "waiting")
    /\ seal' = [seal EXCEPT ![p] = s]
    /\ starts' = starts + 1
    /\ UNCHANGED <<lease, intact, journals, published, cache, stamp, got,
                   changes, ghosts>>

Acquire(p) ==
    /\ pc[p] = "waiting"
    /\ intact
    /\ Lease!Grant(p, seal[p])
    /\ Goto(p, "opened")
    /\ UNCHANGED <<intact, journals, published, cache, stamp, seal, got,
                   starts, changes, ghosts>>

\* The process forgets its seal and its answer.
Stop(p) ==
    /\ Goto(p, "idle")
    /\ seal' = [seal EXCEPT ![p] = NoSeal]
    /\ got' = [got EXCEPT ![p] = NoAnswer]
    /\ UNCHANGED <<intact, journals, published, cache, stamp, starts, changes,
                   ghosts>>

\* acquire() raises: replaced files, torn files, or another root binding.
AcquireRefused(p) ==
    /\ pc[p] = "waiting"
    /\ owner = NoProc
    /\ ~intact \/ torn \/ root \notin {NoSeal, seal[p]}
    /\ Stop(p)
    /\ UNCHANGED lease

\* Mutant of Leave: the descriptor stays open and locked.
LeaveKeepingLease(p) ==
    /\ pc[p] \in {"accepted", "refused", "raised"}
    /\ owner = p
    /\ Stop(p)
    /\ UNCHANGED lease

\* Leaving the with-block: the lease is released or found lost.
Leave(p) ==
    /\ pc[p] \in {"accepted", "refused", "raised"}
    /\ Lease!Drop(p)
    /\ Stop(p)

\* Control leaves the protocol with an exception: a check of the code failed
\* ("refused") or an operation raised OSError and the like ("raised").
Fail(p, how) ==
    /\ Goto(p, how)
    /\ UNCHANGED <<lease, intact, journals, published, cache, stamp, seal, got,
                   starts, changes, ghosts>>

\* lease.checkpoint raises.
LeaseLost(p) ==
    /\ pc[p] \in Inside \ {"accepted", "refused", "raised"}
    /\ ~Passes(p)
    /\ Fail(p, "refused")

Raise(p) ==
    /\ pc[p] \in Inside \ {"accepted", "refused", "raised"}
    /\ Fail(p, "raised")

(***************************************************************************)
(* What an earlier process left behind                                     *)
(***************************************************************************)
Synced == network.synced /\ spend.synced

\* _assert_budget: nobody has spent anything for any attempt.
BudgetLeft ==
    /\ RowsOf(network, "credential_read_intent", Seals) = {}
    /\ RowsOf(network, "request_terminal", Seals) = {}
    /\ RowsOf(spend, "physical_post_started", Seals) = {}

Recoverable(s) ==
    /\ Cardinality(ReservationsOf(s)) = 1
    /\ Cardinality(ReceiptsOf(s)) = 1

BeginAttempt(p) ==
    /\ From(p, "opened", "tls")
    /\ Synced
    /\ ~Has(network, "attempt_intent", seal[p])
    /\ ~Has(network, "credential_read_intent", seal[p])
    /\ BudgetLeft
    /\ UNCHANGED <<journals, published, cache, stamp, got, ghosts>>

\* Mutant of BeginRecovery: the provider is asked again for want of a receipt.
BeginRecoveryByRetry(p) ==
    /\ From(p, "opened", "reserve")
    /\ Synced
    /\ Has(network, "attempt_intent", seal[p])
    /\ ~Recoverable(seal[p])
    /\ UNCHANGED <<journals, published, cache, stamp, got, ghosts>>

\* A journal that knows of the attempt is gone on with, never begun again.
BeginRecovery(p) ==
    /\ From(p, "opened", "recover_cache")
    /\ Synced
    /\ Has(network, "attempt_intent", seal[p])
    /\ Recoverable(seal[p])
    /\ UNCHANGED <<journals, published, cache, stamp, got, ghosts>>

\* A torn journal, an intent without receipt, a credential read without
\* intent, or a spent budget: ambiguous for ever.
Ambiguous(p) ==
    /\ pc[p] = "opened"
    /\ \/ ~Synced
       \/ /\ Has(network, "attempt_intent", seal[p])
          /\ ~Recoverable(seal[p])
       \/ /\ ~Has(network, "attempt_intent", seal[p])
          /\ Has(network, "credential_read_intent", seal[p]) \/ ~BudgetLeft
    /\ Fail(p, "refused")

(***************************************************************************)
(* The single attempt                                                      *)
(***************************************************************************)
PreflightTLS(p) ==
    /\ From(p, "tls", "credential_intent")
    /\ UNCHANGED <<journals, published, cache, stamp, got, ghosts>>

LogCredentialIntent(p) ==
    /\ From(p, "credential_intent", "credential")
    /\ AppendRow(p, TRUE)
    /\ UNCHANGED <<published, cache, stamp, got, ghosts>>

ReadCredential(p) ==
    /\ From(p, "credential", "reserve")
    /\ reads' = reads + 1
    /\ UNCHANGED <<journals, published, cache, stamp, got, posts, answer, results>>

Reserve(p) ==
    /\ From(p, "reserve", "intent")
    /\ reservations' =
         reservations \cup {[attempt |-> seal[p], fence |-> fence]}
    /\ UNCHANGED <<journals, receipts, acceptances, cache, stamp, got, ghosts>>

LogIntent(p) ==
    /\ From(p, "intent", "start")
    /\ AppendRow(p, TRUE)
    /\ UNCHANGED <<published, cache, stamp, got, ghosts>>

LogStart(p) ==
    /\ From(p, "start", "transport")
    /\ AppendRow(p, TRUE)
    /\ UNCHANGED <<published, cache, stamp, got, ghosts>>

\* The reservation this process published, found again by its hash.
Mine(p) == [attempt |-> seal[p], fence |-> fence]

\* Mutant of Post: an answer that could not be decoded passes as none.
PostUndecoded(p) ==
    /\ From(p, "transport", "receipt")
    /\ Mine(p) \in reservations
    /\ posts' = posts + 1
    /\ \E a \in Answers: answer' = a
    /\ UNCHANGED <<journals, published, cache, stamp, got, reads, results>>

\* The POST is sent and its answer comes back.
Post(p) ==
    /\ From(p, "transport", "receipt")
    /\ Mine(p) \in reservations
    /\ posts' = posts + 1
    /\ \E a \in Answers: answer' = a /\ got' = [got EXCEPT ![p] = a]
    /\ UNCHANGED <<journals, published, cache, stamp, reads, results>>

\* The POST is sent, and the answer is lost, late, a redirect or malformed.
PostWithoutAnswer(p) ==
    /\ From(p, "transport", "raised")
    /\ Mine(p) \in reservations
    /\ posts' = posts + 1
    /\ UNCHANGED <<journals, published, cache, stamp, got, reads, answer, results>>

PublishReceipt(p) ==
    /\ From(p, "receipt", "cache")
    /\ receipts' =
         receipts \cup {[reservation |-> Mine(p), records |-> got[p]]}
    /\ UNCHANGED <<journals, reservations, acceptances, cache, stamp, got, ghosts>>

\* The cache file carries the second it was written in, so that writing it
\* again gives the same bytes or other ones.
WriteCache(records) ==
    \E s \in {stamp, stamp + 1}:
        /\ s > 0
        /\ stamp' = s
        /\ cache' = [state |-> "present", records |-> records, stamp |-> s]

PublishCache(p) ==
    /\ From(p, "cache", "acceptance")
    /\ WriteCache(got[p])
    /\ UNCHANGED <<journals, published, got, ghosts>>

PublishAcceptance(p, receipt) ==
    acceptances' =
        acceptances \cup {[receipt |-> receipt, stamp |-> cache.stamp]}

Accept(p) ==
    /\ From(p, "acceptance", "complete")
    /\ cache.state # "absent"
    /\ PublishAcceptance(p, [reservation |-> Mine(p), records |-> got[p]])
    /\ UNCHANGED <<journals, reservations, receipts, cache, stamp, got, ghosts>>

(***************************************************************************)
(* Recovery: _recover_if_possible after the receipt was found              *)
(***************************************************************************)
TheReceipt(s) == CHOOSE r \in ReceiptsOf(s): TRUE

RecoverCache(p) ==
    LET receipt == TheReceipt(seal[p]) IN
    /\ From(p, "recover_cache", "recover_acceptance")
    /\ got' = [got EXCEPT ![p] = receipt.records]
    /\ \/ cache.state = "absent" /\ WriteCache(receipt.records)
       \/ /\ cache.state = "present" /\ cache.records = receipt.records
          /\ UNCHANGED <<cache, stamp>>
    /\ UNCHANGED <<journals, published, ghosts>>

\* Mutant of RecoverAcceptance: published again without looking.
RecoverAcceptanceAnew(p) ==
    /\ From(p, "recover_acceptance", "complete")
    /\ cache.state # "absent"
    /\ PublishAcceptance(p, TheReceipt(seal[p]))
    /\ Has(spend, "physical_post_started", seal[p])
    /\ UNCHANGED <<journals, reservations, receipts, cache, stamp, got, ghosts>>

RecoverAcceptance(p) ==
    LET receipt == TheReceipt(seal[p])
        matches == AcceptancesOf(receipt.reservation)
    IN
    /\ From(p, "recover_acceptance", "complete")
    /\ Cardinality(matches) <= 1
    /\ cache.state # "absent"
    /\ IF matches = {}
       THEN PublishAcceptance(p, receipt)
       ELSE UNCHANGED acceptances
    /\ Has(spend, "physical_post_started", seal[p])
    /\ UNCHANGED <<journals, reservations, receipts, cache, stamp, got, ghosts>>

\* The cache file is gone before its sha256 was taken.
CacheLost(p) ==
    /\ pc[p] \in {"acceptance", "recover_acceptance"}
    /\ cache.state = "absent"
    /\ Fail(p, "refused")

RecoveryRefused(p) ==
    LET receipt == TheReceipt(seal[p]) IN
    /\ \/ pc[p] = "recover_cache" /\ cache.state = "corrupt"
       \/ /\ pc[p] = "recover_cache" /\ cache.state = "present"
          /\ cache.records # receipt.records
       \/ /\ pc[p] = "recover_acceptance"
          /\ \/ Cardinality(AcceptancesOf(receipt.reservation)) > 1
             \/ ~Has(spend, "physical_post_started", seal[p])
    /\ Fail(p, "refused")

(***************************************************************************)
(* Closing the journals, and reading everything back                       *)
(***************************************************************************)
Complete(p) ==
    /\ From(p, "complete", "terminal")
    /\ IF Has(spend, "physical_post_completed", seal[p])
       THEN UNCHANGED journals
       ELSE AppendRow(p, TRUE)
    /\ UNCHANGED <<published, cache, stamp, got, ghosts>>

Terminate(p) ==
    /\ From(p, "terminal", "load")
    /\ IF Has(network, "request_terminal", seal[p])
       THEN UNCHANGED journals
       ELSE AppendRow(p, TRUE)
    /\ UNCHANGED <<published, cache, stamp, got, ghosts>>

OnlyRow(journal, event, attempt) ==
    journal.rows[CHOOSE i \in RowsOf(journal, event, {attempt}): TRUE]

\* _validate_production_journals for an acceptance.
JournalsProve(s, acceptance) ==
    LET positions(j, e) == RowsOf(j, e, {s})
        once(j, e) == Cardinality(positions(j, e)) = 1
        before(j, e, f) == \A i \in positions(j, e), k \in positions(j, f): i < k
    IN
    /\ Synced
    /\ once(network, "credential_read_intent")
    /\ once(network, "attempt_intent")
    /\ once(network, "request_terminal")
    /\ once(spend, "physical_post_started")
    /\ once(spend, "physical_post_completed")
    /\ Cardinality(RowsOf(spend, "physical_post_started", Seals)) = 1
    /\ OnlyRow(network, "request_terminal", s).stamp = acceptance.stamp
    /\ OnlyRow(spend, "physical_post_completed", s).stamp = acceptance.stamp
    /\ before(network, "credential_read_intent", "attempt_intent")
    /\ before(network, "attempt_intent", "request_terminal")
    /\ before(spend, "physical_post_started", "physical_post_completed")

\* load_accepted_response: the acceptance, its reservation and its receipt are
\* there once, the cache is the file it names and says what the receipt says.
Loads(s, acceptance) ==
    /\ acceptance.receipt \in ReceiptsOf(s)
    /\ acceptance.receipt.reservation \in ReservationsOf(s)
    /\ cache.state = "present"
    /\ cache.stamp = acceptance.stamp
    /\ cache.records = acceptance.receipt.records
    /\ JournalsProve(s, acceptance)

AcceptanceOf(s) == CHOOSE a \in acceptances: a.receipt.reservation.attempt = s

Load(p) ==
    /\ From(p, "load", "accepted")
    /\ Loads(seal[p], AcceptanceOf(seal[p]))
    /\ results' = results \cup {cache.records}
    /\ UNCHANGED <<journals, published, cache, stamp, got, posts, reads, answer>>

LoadRefused(p) ==
    /\ pc[p] = "load"
    /\ ~Loads(seal[p], AcceptanceOf(seal[p]))
    /\ Fail(p, "refused")

(***************************************************************************)
(* Crashes and the environment                                             *)
(***************************************************************************)
CrashWaiting(p) ==
    /\ pc[p] = "waiting"
    /\ Stop(p)
    /\ UNCHANGED lease

\* The process dies between two statements; the kernel drops its lock.
Crash(p) ==
    /\ pc[p] \in Inside
    /\ Lease!Drop(p)
    /\ Stop(p)

\* It dies between the lease's own writes, while acquiring or releasing.
CrashInLease(p) ==
    /\ \/ pc[p] = "waiting" /\ owner = NoProc /\ intact /\ root \in {NoSeal, seal[p]}
       \/ pc[p] \in {"accepted", "refused", "raised"} /\ owner = p
    /\ Lease!Tear
    /\ Stop(p)

\* It dies between a journal's row and the journal's checkpoint.json.
CrashInAppend(p) ==
    /\ pc[p] \in DOMAIN EventAt
    /\ Passes(p)
    /\ ~Has(network, EventAt[pc[p]], seal[p])
    /\ ~Has(spend, EventAt[pc[p]], seal[p])
    /\ AppendRow(p, FALSE)
    /\ Lease!Drop(p)
    /\ Goto(p, "idle")
    /\ seal' = [seal EXCEPT ![p] = NoSeal]
    /\ got' = [got EXCEPT ![p] = NoAnswer]
    /\ UNCHANGED <<intact, published, cache, stamp, starts, changes, ghosts>>

\* Lock file or authority root replaced, or put back.
ReplaceLock ==
    /\ changes < MaxChanges
    /\ changes' = changes + 1
    /\ intact' = ~intact
    /\ UNCHANGED <<lease, journals, published, cache, stamp, pc, seal, got,
                   starts, ghosts>>

\* The cache file is removed or damaged.
DamageCache(state) ==
    /\ changes < MaxChanges
    /\ cache.state = "present"
    /\ changes' = changes + 1
    /\ cache' = [cache EXCEPT !.state = state]
    /\ UNCHANGED <<lease, intact, journals, published, stamp, pc, seal, got,
                   starts, ghosts>>

-----------------------------------------------------------------------------
Attempt(p) ==
    \/ BeginAttempt(p) \/ PreflightTLS(p) \/ LogCredentialIntent(p)
    \/ ReadCredential(p) \/ Reserve(p) \/ LogIntent(p) \/ LogStart(p)
    \/ Post(p) \/ PostWithoutAnswer(p) \/ PublishReceipt(p)
    \/ PublishCache(p) \/ Accept(p)

Recover(p) ==
    \/ BeginRecovery(p) \/ RecoverCache(p) \/ RecoverAcceptance(p)
    \/ RecoveryRefused(p)

Close(p) == Complete(p) \/ Terminate(p) \/ Load(p) \/ LoadRefused(p)

Step(p) ==
    \/ Acquire(p) \/ AcquireRefused(p) \/ Ambiguous(p)
    \/ Attempt(p) \/ Recover(p) \/ Close(p)
    \/ CacheLost(p) \/ LeaseLost(p) \/ Leave(p)

Next ==
    \/ \E p \in Procs, s \in Seals: Start(p, s)
    \/ \E p \in Procs: \/ Step(p) \/ Raise(p)
                       \/ Crash(p) \/ CrashWaiting(p)
                       \/ CrashInLease(p) \/ CrashInAppend(p)
    \/ ReplaceLock
    \/ \E state \in {"absent", "corrupt"}: DamageCache(state)

Spec == Init /\ [][Next]_vars

\* A process that is not killed goes on to its next statement (every call it
\* makes, the HTTPS one with its 30 s timeout included, returns or raises),
\* and the kernel serves the waiters of the lease's flock in order.
Fairness == \A p \in Procs: WF_vars(Step(p)) /\ SF_vars(Acquire(p))

FairSpec == Spec /\ Fairness

-----------------------------------------------------------------------------
(***************************************************************************)
(* Properties                                                              *)
(***************************************************************************)
\* The budget of the canary is one credential read and one POST, for all
\* processes, restarts and seals together ("retry_count": 1,
\* "credential_reads": 1 in broker_contract_hash).
BudgetHeld == posts <= 1 /\ reads <= 1

\* Write-ahead: a POST that was sent is covered by one reservation, one
\* credential row, one intent and one start row of the same attempt and the
\* same lease, in that order, so that any later process sees it.
PostIsCovered ==
    posts > 0 => \E r \in reservations:
        /\ ReservationsOf(r.attempt) = {r}
        /\ Cardinality(RowsOf(spend, "physical_post_started", Seals)) = 1
        /\ OnlyRow(spend, "physical_post_started", r.attempt).fence = r.fence
        /\ \E i \in RowsOf(network, "credential_read_intent", {r.attempt}),
              k \in RowsOf(network, "attempt_intent", {r.attempt}):
                 /\ i < k
                 /\ network.rows[i].fence = r.fence
                 /\ network.rows[k].fence = r.fence

\* What is accepted, by any process at any time, is the one answer the one
\* POST delivered, under the seal that posted.
AcceptedIsTheAnswer ==
    /\ results \subseteq {answer}
    /\ \A a \in acceptances: a.receipt.records = answer
    /\ \A r, q \in receipts: r = q

\* Published evidence is never contradicted: two acceptances of one attempt
\* do not exist, and a closed journal was closed by the process that posted
\* or by one that came later.
NeverContradicted ==
    /\ \A a, b \in acceptances: a = b
    /\ \A i \in 1..Len(network.rows), k \in 1..Len(network.rows):
          i < k => network.rows[i].fence <= network.rows[k].fence
    /\ \A r \in receipts:
          \A i \in RowsOf(network, "request_terminal", {r.reservation.attempt}):
             network.rows[i].fence >= r.reservation.fence

\* Nothing undamaged is refused: once a receipt is published, every later run
\* of the same seal that is let in and finds journals and cache as they were
\* left ends accepted, unless an operation raises or the process is killed.
ReceiptIsNeverWasted ==
    \A p \in Procs:
        /\ pc[p] = "refused"
        /\ ReceiptsOf(seal[p]) # {}
        /\ changes = 0
        => ~Synced

\* The evidence of the one attempt is there before it is needed, is never
\* contradicted, and is never refused once complete.
EvidenceStands == PostIsCovered /\ NeverContradicted /\ ReceiptIsNeverWasted

\* The command comes back: accepted, refused, or with an exception.
RunEnds == \A p \in Procs: (pc[p] # "idle") ~> (pc[p] = "idle")

\* The detailed protocol keeps the promise of OneShot.
Promise == INSTANCE OneShot
KeepsPromise == Promise!Spec
=============================================================================
