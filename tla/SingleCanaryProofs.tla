-------------------------- MODULE SingleCanaryProofs --------------------------
(***************************************************************************)
(* Machine-checked proofs about SingleCanary, for every set of processes,  *)
(* seals and answers and every bound: the types, the budget of one         *)
(* credential read and one POST, that everything accepted is the one       *)
(* answer, that the published evidence is complete and in order, and that  *)
(* the protocol implements OneShot.                                        *)
(***************************************************************************)
EXTENDS SingleCanary, FiniteSetTheorems, TLAPS

-----------------------------------------------------------------------------
(* Type correctness                                                        *)

\* A process that has begun has a seal.
Sealed == \A p \in Procs: pc[p] # "idle" => seal[p] \in Seals

\* What the journal rows need to be well typed.
TypeInv == TypeOK /\ Sealed

LEMMA PCsSplit ==
    /\ \A s: s \in PCs <=> s \in Inside \cup {"idle", "waiting"}
    /\ "idle" \notin Inside /\ "waiting" \notin Inside
BY DEF PCs, Inside

\* The five places at which a process appends a row, and what it appends.
LEMMA EventAtFacts ==
    /\ DOMAIN EventAt = {"credential_intent", "intent", "start", "complete", "terminal"}
    /\ EventAt["credential_intent"] = "credential_read_intent"
    /\ EventAt["start"] = "physical_post_started"
    /\ \A s \in DOMAIN EventAt: EventAt[s] \in Events
BY DEF EventAt, Events

LEMMA RowType ==
    ASSUME TypeInv, NEW p \in Procs, pc[p] \in DOMAIN EventAt
    PROVE  RowBy(p) \in Row
<1>1. EventAt[pc[p]] \in Events
  BY EventAtFacts
<1>2. seal[p] \in Seals
  BY EventAtFacts DEF TypeInv, Sealed
<1>3. fence \in Nat /\ cache.stamp \in Nat
  BY DEF TypeInv, TypeOK, Lease!TypeOK, Cache
<1>4. QED BY <1>1, <1>2, <1>3 DEF RowBy, Row

\* What appending a row does to the two journals.
LEMMA AppendJournals ==
    ASSUME TypeInv, NEW p \in Procs, pc[p] \in DOMAIN EventAt,
           NEW b \in BOOLEAN, AppendRow(p, b)
    PROVE  /\ network' \in Journal /\ spend' \in Journal
           /\ \/ /\ pc[p] \in {"start", "complete"}
                 /\ network' = network
                 /\ spend'.rows = Append(spend.rows, RowBy(p))
              \/ /\ pc[p] \notin {"start", "complete"}
                 /\ spend' = spend
                 /\ network'.rows = Append(network.rows, RowBy(p))
<1>1. RowBy(p) \in Row
  BY RowType
<1>2. network.rows \in Seq(Row) /\ spend.rows \in Seq(Row)
  BY DEF TypeInv, TypeOK, Journal
<1>3. /\ [rows |-> Append(network.rows, RowBy(p)), synced |-> b] \in Journal
      /\ [rows |-> Append(spend.rows, RowBy(p)), synced |-> b] \in Journal
  BY <1>1, <1>2 DEF Journal
<1>4. network \in Journal /\ spend \in Journal
  BY DEF TypeInv, TypeOK
<1> DEFINE more(journal) == [rows |-> Append(journal.rows, RowBy(p)), synced |-> b]
<1>5. CASE pc[p] \in {"start", "complete"}
  <2>1. spend' = more(spend) /\ network' = network
    BY <1>5 DEF AppendRow
  <2>2. QED BY <1>3, <1>4, <1>5, <2>1
<1>6. CASE pc[p] \notin {"start", "complete"}
  <2>1. network' = more(network) /\ spend' = spend
    BY <1>6 DEF AppendRow
  <2>2. QED BY <1>3, <1>4, <1>6, <2>1
<1>7. QED BY <1>5, <1>6

\* The first seal finds nothing spent, sent or published.
THEOREM TypeInit == Init => TypeInv
<1> SUFFICES ASSUME Init PROVE TypeInv
  OBVIOUS
<1>1. Lease!TypeOK
  BY DEF Init, Lease!Init, Lease!TypeOK
<1>2. network \in Journal /\ spend \in Journal
  <2>1. <<>> \in Seq(Row)
    OBVIOUS
  <2>2. QED BY <2>1 DEF Init, Journal
<1>3. cache \in Cache
  BY DEF Init, Cache
<1>4. pc \in [Procs -> PCs] /\ Sealed
  BY DEF Init, PCs, Sealed
<1>5. QED BY <1>1, <1>2, <1>3, <1>4 DEF Init, TypeInv, TypeOK

\* The lease keeps its type in every step of the processes.
LEMMA LeaseType ==
    ASSUME Lease!TypeOK,
           \/ UNCHANGED lease
           \/ \E p \in Procs: Lease!Drop(p)
           \/ \E p \in Procs, r \in Seals: Lease!Grant(p, r)
           \/ Lease!Tear
    PROVE  Lease!TypeOK'
<1>1. CASE UNCHANGED lease
  BY <1>1 DEF Lease!TypeOK, lease
<1>2. ASSUME NEW p \in Procs, Lease!Drop(p) PROVE Lease!TypeOK'
  BY <1>2 DEF Lease!TypeOK, Lease!Drop
<1>3. ASSUME NEW p \in Procs, NEW r \in Seals, Lease!Grant(p, r)
      PROVE  Lease!TypeOK'
  BY <1>3 DEF Lease!TypeOK, Lease!Grant
<1>4. CASE Lease!Tear
  BY <1>4 DEF Lease!TypeOK, Lease!Tear
<1>5. QED BY <1>1, <1>2, <1>3, <1>4

\* A process that stops keeps every type.
LEMMA StopType ==
    ASSUME TypeInv, NEW p \in Procs, Stop(p), Lease!TypeOK'
    PROVE  TypeInv'
BY DEF TypeInv, TypeOK, Sealed, Stop, Goto, PCs, journals, published, ghosts,
       Lease!TypeOK

\* So does one that goes on with a statement or fails, if what it writes has
\* its type.
LEMMA GotoType ==
    ASSUME TypeInv, NEW p \in Procs, NEW to \in PCs, Goto(p, to),
           to = "idle" \/ seal[p] \in Seals,
           UNCHANGED <<lease, intact, seal, starts, changes>>,
           network' \in Journal, spend' \in Journal,
           reservations' \subseteq Reservation, receipts' \subseteq Receipt,
           acceptances' \subseteq Acceptance, cache' \in Cache, stamp' \in Nat,
           got' \in [Procs -> Answers \cup {NoAnswer}],
           posts' \in Nat, reads' \in Nat, answer' \in Answers \cup {NoAnswer},
           results' \subseteq Answers
    PROVE  TypeInv'
<1>1. Lease!TypeOK'
  BY LeaseType DEF TypeInv, TypeOK
<1>2. pc' \in [Procs -> PCs]
  BY DEF TypeInv, TypeOK, Goto
<1>3. Sealed'
  BY DEF TypeInv, TypeOK, Sealed, Goto
<1>4. QED BY <1>1, <1>2, <1>3 DEF TypeInv, TypeOK

\* The frame of GotoType in one name: what a statement may write, well typed.
WritesTyped ==
    /\ network' \in Journal /\ spend' \in Journal
    /\ reservations' \subseteq Reservation
    /\ receipts' \subseteq Receipt
    /\ acceptances' \subseteq Acceptance
    /\ cache' \in Cache /\ stamp' \in Nat
    /\ got' \in [Procs -> Answers \cup {NoAnswer}]
    /\ posts' \in Nat /\ reads' \in Nat
    /\ answer' \in Answers \cup {NoAnswer}
    /\ results' \subseteq Answers

LEMMA FromType ==
    ASSUME TypeInv, NEW p \in Procs, NEW at \in PCs, NEW to \in PCs,
           at # "idle", From(p, at, to), WritesTyped
    PROVE  TypeInv'
<1>1. seal[p] \in Seals
  BY DEF From, TypeInv, Sealed
<1>2. Goto(p, to) /\ UNCHANGED <<lease, intact, seal, starts, changes>>
  BY DEF From
<1>3. QED BY <1>1, <1>2, GotoType DEF WritesTyped

\* A statement that writes nothing but the program counter.
LEMMA FromQuietly ==
    ASSUME TypeInv, NEW p \in Procs, NEW at \in PCs, NEW to \in PCs,
           at # "idle", From(p, at, to),
           UNCHANGED <<journals, published, cache, stamp, got, ghosts>>
    PROVE  TypeInv'
<1>1. WritesTyped
  BY DEF TypeInv, TypeOK, WritesTyped, journals, published, ghosts
<1>2. QED BY <1>1, FromType

LEMMA FailType ==
    ASSUME TypeInv, NEW p \in Procs, NEW how \in PCs, pc[p] # "idle", Fail(p, how)
    PROVE  TypeInv'
<1>1. seal[p] \in Seals
  BY DEF TypeInv, Sealed
<1>2. QED
  BY <1>1, GotoType DEF Fail, TypeInv, TypeOK, journals, published, ghosts

\* A statement that appends one row.
LEMMA AppendType ==
    ASSUME TypeInv, NEW p \in Procs, NEW at \in PCs, NEW to \in PCs,
           at \in DOMAIN EventAt, From(p, at, to), AppendRow(p, TRUE),
           UNCHANGED <<published, cache, stamp, got, ghosts>>
    PROVE  TypeInv'
<1>1. pc[p] = at /\ at # "idle"
  BY EventAtFacts DEF From
<1>2. network' \in Journal /\ spend' \in Journal
  BY <1>1, AppendJournals
<1>3. WritesTyped
  BY <1>2 DEF TypeInv, TypeOK, WritesTyped, published, ghosts
<1>4. QED BY <1>1, <1>3, FromType

LEMMA WriteCacheType ==
    ASSUME TypeInv, NEW records \in Answers, WriteCache(records)
    PROVE  cache' \in Cache /\ stamp' \in Nat /\ cache'.state = "present"
BY DEF TypeInv, TypeOK, WriteCache, Cache

\* The receipt a recovery works from, once there is one.
LEMMA TheReceiptExists ==
    ASSUME NEW s \in Seals, ReceiptsOf(s) # {}
    PROVE  TheReceipt(s) \in receipts /\ TheReceipt(s).reservation.attempt = s
<1>1. TheReceipt(s) \in ReceiptsOf(s)
  BY DEF TheReceipt
<1>2. QED BY <1>1 DEF ReceiptsOf

-----------------------------------------------------------------------------
(***************************************************************************)
(* The inductive invariant.  The budget is not inductive: what keeps it is *)
(* that whoever is inside owns the lease, that a row is written before     *)
(* anything is spent (and rows are never removed), and that a process on   *)
(* its way to spend has seen that there was no such row.                   *)
(***************************************************************************)
HasRow(journal, event) ==
    \E i \in 1..Len(journal.rows): journal.rows[i].event = event

Unread == {"tls", "credential_intent", "credential"}
Unposted == Unread \cup {"reserve", "intent", "start", "transport"}
Answered == {"receipt", "cache", "acceptance"}
Recovering == {"recover_cache", "recover_acceptance"}

\* Whoever is inside the with-block owns the lease.
Owned == \A p \in Procs: pc[p] \in Inside => owner = p

\* What was spent has its row, and who is about to spend finds nothing spent.
Spent ==
    /\ reads <= 1 /\ posts <= 1
    /\ reads > 0 => HasRow(network, "credential_read_intent")
    /\ posts > 0 => HasRow(spend, "physical_post_started")
    /\ \A p \in Procs:
          /\ pc[p] \in Unread => reads = 0
          /\ pc[p] \in Unposted => posts = 0
          /\ pc[p] = "credential" => HasRow(network, "credential_read_intent")
          /\ pc[p] = "transport" => HasRow(spend, "physical_post_started")

\* Everything published or in hand is the one answer.
Told ==
    /\ posts = 0 => /\ answer = NoAnswer /\ results = {}
                    /\ receipts = {} /\ acceptances = {}
    /\ results \subseteq {answer}
    /\ \A r \in receipts: r.records = answer
    /\ \A a \in acceptances: a.receipt.records = answer
    /\ \A r, q \in receipts: r = q
    /\ \A p \in Procs:
          /\ pc[p] = "receipt" => receipts = {}
          /\ pc[p] \in Answered => got[p] = answer /\ answer \in Answers /\ posts > 0
          /\ pc[p] \in Recovering => ReceiptsOf(seal[p]) # {}

Inv == TypeInv /\ Owned /\ Spent /\ Told

\* At the start nothing is owned, spent or told.
THEOREM InvInit == Init => Inv
<1> SUFFICES ASSUME Init PROVE Inv
  OBVIOUS
<1>1. TypeInv
  BY TypeInit
<1>2. \A p \in Procs: pc[p] = "idle"
  BY DEF Init
<1>3. Owned /\ Spent /\ Told
  BY <1>2 DEF Init, Owned, Spent, Told, Inside, PCs, Unread, Unposted,
              Answered, Recovering
<1>4. QED BY <1>1, <1>3 DEF Inv

-----------------------------------------------------------------------------
(* Rows are never removed                                                  *)
Grow ==
    /\ \A e \in Events: HasRow(network, e) => HasRow(network, e)'
    /\ \A e \in Events: HasRow(spend, e) => HasRow(spend, e)'

\* A longer journal has the rows of the shorter one, and the new one.
LEMMA HasRowAppend ==
    ASSUME NEW before \in Journal, NEW after, NEW row \in Row,
           after.rows = Append(before.rows, row)
    PROVE  /\ \A e: HasRow(before, e) => HasRow(after, e)
           /\ HasRow(after, row.event)
<1>1. before.rows \in Seq(Row)
  BY DEF Journal
<1>2. /\ Len(after.rows) = Len(before.rows) + 1
      /\ Len(before.rows) \in Nat
      /\ \A i \in 1..Len(before.rows): after.rows[i] = before.rows[i]
      /\ after.rows[Len(before.rows) + 1] = row
  BY <1>1
<1>3. \A i \in 1..Len(before.rows): i \in 1..Len(after.rows)
  BY <1>2
<1>4. Len(before.rows) + 1 \in 1..Len(after.rows)
  BY <1>2
<1>5. QED BY <1>2, <1>3, <1>4 DEF HasRow

LEMMA GrowAppend ==
    ASSUME TypeInv, NEW p \in Procs, pc[p] \in DOMAIN EventAt,
           NEW b \in BOOLEAN, AppendRow(p, b)
    PROVE  /\ Grow
           /\ pc[p] = "credential_intent" => HasRow(network, "credential_read_intent")'
           /\ pc[p] = "start" => HasRow(spend, "physical_post_started")'
<1>1. RowBy(p) \in Row /\ RowBy(p).event = EventAt[pc[p]]
  BY RowType DEF RowBy
<1>2. network \in Journal /\ spend \in Journal
  BY DEF TypeInv, TypeOK
<1>3. CASE /\ pc[p] \in {"start", "complete"} /\ network' = network
           /\ spend'.rows = Append(spend.rows, RowBy(p))
  <2>1. /\ \A e: HasRow(spend, e) => HasRow(spend', e)
        /\ HasRow(spend', RowBy(p).event)
    BY <1>1, <1>2, <1>3, HasRowAppend
  <2>2. QED BY <1>1, <1>3, <2>1, EventAtFacts DEF Grow, HasRow
<1>4. CASE /\ pc[p] \notin {"start", "complete"} /\ spend' = spend
           /\ network'.rows = Append(network.rows, RowBy(p))
  <2>1. /\ \A e: HasRow(network, e) => HasRow(network', e)
        /\ HasRow(network', RowBy(p).event)
    BY <1>1, <1>2, <1>4, HasRowAppend
  <2>2. QED BY <1>1, <1>4, <2>1, EventAtFacts DEF Grow, HasRow
<1>5. QED BY <1>3, <1>4, AppendJournals

LEMMA GrowSame == ASSUME UNCHANGED journals PROVE Grow
BY DEF Grow, journals, HasRow

\* Every row names a seal.
LEMMA RowsTyped ==
    ASSUME NEW journal \in Journal, NEW i \in 1..Len(journal.rows)
    PROVE  journal.rows[i].attempt \in Seals
<1>1. journal.rows \in Seq(Row)
  BY DEF Journal
<1>2. journal.rows[i] \in Row
  BY <1>1
<1>3. QED BY <1>2 DEF Row

\* _assert_budget and the invariant together: nothing was spent.
LEMMA BudgetLeftMeans ==
    ASSUME Inv, BudgetLeft PROVE reads = 0 /\ posts = 0
<1>0. network \in Journal /\ spend \in Journal
  BY DEF Inv, TypeInv, TypeOK
<1>1. \A i \in 1..Len(network.rows): network.rows[i].attempt \in Seals
  BY <1>0, RowsTyped
<1>2. \A i \in 1..Len(spend.rows): spend.rows[i].attempt \in Seals
  BY <1>0, RowsTyped
<1>3. ~HasRow(network, "credential_read_intent")
  BY <1>1 DEF BudgetLeft, RowsOf, HasRow
<1>4. ~HasRow(spend, "physical_post_started")
  BY <1>2 DEF BudgetLeft, RowsOf, HasRow
<1>5. reads \in Nat /\ posts \in Nat
  BY DEF Inv, TypeInv, TypeOK
<1>6. QED BY <1>3, <1>4, <1>5 DEF Inv, Spent

-----------------------------------------------------------------------------
(* Steps that spend nothing and publish nothing                            *)

\* Where nothing is promised about a process.
Calm == {"idle", "waiting", "opened", "complete", "terminal", "load",
         "accepted", "refused", "raised"}

LEMMA Places ==
    /\ \A s \in Calm: s \notin Unposted \cup Answered \cup Recovering
    /\ Unread \subseteq Unposted
    /\ Unposted \subseteq Inside /\ Answered \subseteq Inside
    /\ Recovering \subseteq Inside
    /\ Inside \subseteq PCs /\ Calm \subseteq PCs
    /\ \A s \in Unposted: s \notin Answered \cup Recovering
    /\ "credential" \in Unposted /\ "transport" \in Unposted
    /\ "receipt" \in Answered
BY DEF Calm, Unread, Unposted, Answered, Recovering, Inside, PCs

\* Inside there is one process at a time.
LEMMA Alone ==
    ASSUME Owned, NEW p \in Procs, pc[p] \in Inside
    PROVE  \A q \in Procs: q # p => pc[q] \notin Inside
BY DEF Owned

LEMMA SpentByOthers ==
    ASSUME Inv, NEW p \in Procs, NEW to \in PCs, Goto(p, to), to \notin Unposted,
           Grow, UNCHANGED <<posts, reads>>
    PROVE  Spent'
<1>1. /\ pc'[p] = to
      /\ \A q \in Procs: q # p => pc'[q] = pc[q]
  BY DEF Goto, Inv, TypeInv, TypeOK
<1>2. /\ HasRow(network, "credential_read_intent") => HasRow(network, "credential_read_intent")'
      /\ HasRow(spend, "physical_post_started") => HasRow(spend, "physical_post_started")'
  BY DEF Grow, Events
<1>3. /\ pc'[p] \notin Unread /\ pc'[p] \notin Unposted
      /\ pc'[p] # "credential" /\ pc'[p] # "transport"
  BY <1>1, Places
<1>4. QED BY <1>1, <1>2, <1>3 DEF Inv, Spent

LEMMA ToldByOthers ==
    ASSUME Inv, NEW p \in Procs, NEW to \in PCs, Goto(p, to),
           to \notin Answered \cup Recovering,
           \A q \in Procs: q # p => got'[q] = got[q] /\ seal'[q] = seal[q],
           UNCHANGED <<receipts, acceptances, posts, answer, results>>
    PROVE  Told'
<1>1. /\ pc'[p] = to
      /\ \A q \in Procs: q # p => pc'[q] = pc[q]
  BY DEF Goto, Inv, TypeInv, TypeOK
<1>2. pc'[p] # "receipt"
  BY <1>1, Places
<1>3. \A q \in Procs: q # p => ReceiptsOf(seal[q])' = ReceiptsOf(seal[q])
  BY DEF ReceiptsOf
<1>4. QED BY <1>1, <1>2, <1>3 DEF Inv, Told

\* The lease goes with the program counter.
LEMMA OwnedKept ==
    ASSUME Inv, NEW p \in Procs, NEW to \in PCs, Goto(p, to), UNCHANGED owner,
           to \in Inside => owner = p
    PROVE  Owned'
BY DEF Goto, Inv, TypeInv, TypeOK, Owned

LEMMA OwnedDropped ==
    ASSUME Inv, NEW p \in Procs, NEW to \in PCs, Goto(p, to), to \notin Inside,
           owner \in {p, NoProc}
    PROVE  Owned'
BY NoProcAssumption DEF Goto, Inv, TypeInv, TypeOK, Owned

\* A process stops: its lease is dropped, torn, or was not its own.
LEMMA StopInv ==
    ASSUME Inv, NEW p \in Procs, Stop(p),
           \/ UNCHANGED lease
           \/ Lease!Drop(p)
           \/ Lease!Tear /\ owner \in {p, NoProc}
    PROVE  Inv'
<1>1. Goto(p, "idle") /\ "idle" \in PCs /\ "idle" \in Calm /\ "idle" \notin Inside
  BY DEF Stop, PCs, Calm, Inside
<1>2. Lease!TypeOK'
  BY LeaseType DEF Inv, TypeInv, TypeOK
<1>3. TypeInv'
  BY <1>2, StopType DEF Inv
<1>4. Owned'
  BY <1>1, OwnedKept, OwnedDropped DEF lease, Lease!Drop
<1>5. Spent'
  BY <1>1, Places, GrowSame, SpentByOthers DEF Stop, ghosts
<1>6. Told'
  <2>1. \A q \in Procs: q # p => got'[q] = got[q] /\ seal'[q] = seal[q]
    BY DEF Stop, Inv, TypeInv, TypeOK
  <2>2. QED BY <1>1, <2>1, Places, ToldByOthers DEF Stop, ghosts, published
<1>7. QED BY <1>3, <1>4, <1>5, <1>6 DEF Inv

\* A process fails inside the with-block.
LEMMA FailInv ==
    ASSUME Inv, NEW p \in Procs, NEW how \in {"refused", "raised"},
           pc[p] \in Inside, Fail(p, how)
    PROVE  Inv'
<1>1. how \in PCs /\ how \in Calm /\ pc[p] # "idle"
  BY DEF PCs, Calm, Inside
<1>2. TypeInv'
  BY <1>1, FailType DEF Inv
<1>3. Goto(p, how)
  BY DEF Fail
<1>4. Owned'
  <2>1. owner = p
    BY DEF Inv, Owned
  <2>2. QED BY <1>1, <1>3, <2>1, OwnedKept DEF Fail, lease
<1>5. Spent'
  BY <1>1, <1>3, Places, GrowSame, SpentByOthers DEF Fail, ghosts
<1>6. Told'
  BY <1>1, <1>3, Places, ToldByOthers DEF Fail, ghosts, published
<1>7. QED BY <1>2, <1>4, <1>5, <1>6 DEF Inv

\* What every statement of the protocol keeps by itself.
LEMMA FromOwned ==
    ASSUME Inv, NEW p \in Procs, NEW at \in Inside, NEW to \in Inside, From(p, at, to)
    PROVE  /\ Owned' /\ owner = p /\ pc[p] = at /\ Goto(p, to) /\ to \in PCs
           /\ pc'[p] = to /\ seal' = seal
           /\ \A q \in Procs: q # p => pc'[q] = pc[q] /\ pc[q] \notin Inside
           /\ seal[p] \in Seals /\ at \in PCs /\ at # "idle"
<1>1. owner = p /\ pc[p] = at /\ Goto(p, to) /\ seal' = seal /\ owner' = owner
  BY DEF From, Passes, lease
<1>2. to \in PCs /\ at \in PCs /\ at # "idle"
  BY DEF Inside, PCs
<1>3. Owned'
  BY <1>1, <1>2, OwnedKept
<1>4. pc'[p] = to /\ \A q \in Procs: q # p => pc'[q] = pc[q]
  BY <1>1 DEF Goto, Inv, TypeInv, TypeOK
<1>5. \A q \in Procs: q # p => pc[q] \notin Inside
  BY <1>1, Alone DEF Inv
<1>6. seal[p] \in Seals
  BY <1>1, <1>2 DEF Inv, TypeInv, Sealed
<1>7. QED BY <1>1, <1>2, <1>3, <1>4, <1>5, <1>6

-----------------------------------------------------------------------------
(* Statements that write one row, or nothing                               *)

\* A statement of the attempt that appends a row or nothing, and goes on to
\* a place where at most "nothing is spent" is promised.
LEMMA RowInv ==
    ASSUME Inv, NEW p \in Procs, NEW at \in Inside, NEW to \in Inside,
           From(p, at, to), to \notin Answered \cup Recovering,
           \/ UNCHANGED journals
           \/ at \in DOMAIN EventAt /\ AppendRow(p, TRUE),
           UNCHANGED <<published, cache, stamp, got, ghosts>>,
           to \in Unposted => posts = 0,
           to \in Unread => reads = 0,
           to = "credential" => at = "credential_intent" /\ AppendRow(p, TRUE),
           to = "transport" => at = "start" /\ AppendRow(p, TRUE)
    PROVE  Inv'
<1> USE FromOwned
<1>1. TypeInv'
  <2>1. CASE UNCHANGED journals
    BY <2>1, FromQuietly DEF Inv
  <2>2. CASE at \in DOMAIN EventAt /\ AppendRow(p, TRUE)
    BY <2>2, AppendType DEF Inv
  <2>3. QED BY <2>1, <2>2
<1>2. Grow /\ (AppendRow(p, TRUE) /\ at = "credential_intent" =>
                  HasRow(network, "credential_read_intent")')
           /\ (AppendRow(p, TRUE) /\ at = "start" =>
                  HasRow(spend, "physical_post_started")')
  <2>1. CASE AppendRow(p, TRUE) /\ at \in DOMAIN EventAt
    BY <2>1, GrowAppend DEF Inv
  <2>2. CASE UNCHANGED journals /\ ~(AppendRow(p, TRUE) /\ at \in DOMAIN EventAt)
    BY <2>2, GrowSame, EventAtFacts
  <2>3. QED BY <2>1, <2>2
<1>3. Spent'
  <2>1. /\ HasRow(network, "credential_read_intent") => HasRow(network, "credential_read_intent")'
        /\ HasRow(spend, "physical_post_started") => HasRow(spend, "physical_post_started")'
    BY <1>2 DEF Grow, Events
  <2>2. posts' = posts /\ reads' = reads
    BY DEF ghosts
  <2>3. \A q \in Procs: q # p =>
          /\ pc'[q] \notin Unposted /\ pc'[q] \notin Unread
          /\ pc'[q] # "credential" /\ pc'[q] # "transport"
    BY Places
  <2>4. QED BY <1>2, <2>1, <2>2, <2>3 DEF Inv, Spent
<1>4. Told'
  BY ToldByOthers DEF ghosts, published
<1>5. QED BY <1>1, <1>3, <1>4 DEF Inv

\* A statement that spends or publishes: the row journals stay, and what it
\* says of itself is enough, for nobody else is inside.
LEMMA WriteInv ==
    ASSUME Inv, NEW p \in Procs, NEW at \in Inside, NEW to \in Inside,
           From(p, at, to), UNCHANGED journals, WritesTyped,
           posts' <= 1, reads' <= 1,
           reads' > 0 => HasRow(network, "credential_read_intent"),
           posts' > 0 => HasRow(spend, "physical_post_started"),
           to \notin Unread, to # "transport",
           to \in Unposted => posts' = 0,
           posts' = 0 => /\ answer' = NoAnswer /\ results' = {}
                         /\ receipts' = {} /\ acceptances' = {},
           results' \subseteq {answer'},
           \A r \in receipts': r.records = answer',
           \A a \in acceptances': a.receipt.records = answer',
           \A r, q \in receipts': r = q,
           to = "receipt" => receipts' = {},
           to \in Answered => got'[p] = answer' /\ answer' \in Answers /\ posts' > 0,
           to \in Recovering => ReceiptsOf(seal[p])' # {}
    PROVE  Inv'
<1> USE FromOwned
<1>1. TypeInv'
  BY FromType DEF Inv
<1>2. \A q \in Procs: q # p =>
        /\ pc'[q] \notin Unposted \cup Answered \cup Recovering
        /\ pc'[q] \notin Unread /\ pc'[q] # "credential" /\ pc'[q] # "transport"
        /\ pc'[q] # "receipt"
  BY Places
<1>3. to # "credential"
  BY DEF Unread
<1>4. network' = network /\ spend' = spend
  BY DEF journals
<1>5. Spent'
  BY <1>2, <1>3, <1>4 DEF Spent, HasRow
<1>6. Told'
  BY <1>2 DEF Told
<1>7. QED BY <1>1, <1>5, <1>6 DEF Inv

-----------------------------------------------------------------------------
(* The step theorem, one step per action                                   *)

LEMMA AttemptInv ==
    ASSUME Inv, NEW p \in Procs, Attempt(p)
    PROVE  Inv'
<1> USE Places
<1>0. DOMAIN EventAt = {"credential_intent", "intent", "start", "complete", "terminal"}
  BY EventAtFacts
<1>1. CASE BeginAttempt(p)
  <2>1. posts = 0 /\ reads = 0
    BY <1>1, BudgetLeftMeans DEF BeginAttempt
  <2>2. "opened" \in Inside /\ "tls" \in Inside /\ "tls" \notin Answered \cup Recovering
    BY DEF Inside, PCs, Answered, Recovering
  <2>3. QED BY <1>1, <2>1, <2>2, RowInv DEF BeginAttempt
<1>2. CASE PreflightTLS(p)
  <2>1. posts = 0 /\ reads = 0
    BY <1>2 DEF PreflightTLS, From, Inv, Spent, Unposted, Unread
  <2>2. /\ "tls" \in Inside /\ "credential_intent" \in Inside
        /\ "credential_intent" \notin Answered \cup Recovering
    BY DEF Inside, PCs, Answered, Recovering
  <2>3. QED BY <1>2, <2>1, <2>2, RowInv DEF PreflightTLS
<1>3. CASE LogCredentialIntent(p)
  <2>1. posts = 0 /\ reads = 0
    BY <1>3 DEF LogCredentialIntent, From, Inv, Spent, Unposted, Unread
  <2>2. /\ "credential" \in Inside /\ "credential_intent" \in Inside
        /\ "credential" \notin Answered \cup Recovering
    BY DEF Inside, PCs, Answered, Recovering
  <2>3. QED BY <1>3, <1>0, <2>1, <2>2, RowInv DEF LogCredentialIntent
<1>4. CASE ReadCredential(p)
  <2>1. /\ posts = 0 /\ reads = 0 /\ HasRow(network, "credential_read_intent")
    BY <1>4 DEF ReadCredential, From, Inv, Spent, Unposted, Unread
  <2>2. /\ "credential" \in Inside /\ "reserve" \in Inside
        /\ "reserve" \notin Answered \cup Recovering \cup Unread
    BY DEF Inside, PCs, Answered, Recovering, Unread
  <2>3. WritesTyped
    BY <1>4 DEF ReadCredential, WritesTyped, Inv, TypeInv, TypeOK, journals, published
  <2>4. QED
    BY <1>4, <2>1, <2>2, <2>3, WriteInv DEF ReadCredential, Inv, Told, published
<1>5. CASE Reserve(p)
  <2>1. posts = 0
    BY <1>5 DEF Reserve, From, Inv, Spent, Unposted
  <2>2. /\ "intent" \in Inside /\ "reserve" \in Inside
        /\ "intent" \notin Answered \cup Recovering \cup Unread
    BY DEF Inside, PCs, Answered, Recovering, Unread
  <2>3. [attempt |-> seal[p], fence |-> fence] \in Reservation
    BY <1>5, <2>2, FromOwned DEF Reserve, Inv, TypeInv, TypeOK, Lease!TypeOK, Reservation
  <2>4. WritesTyped
    BY <1>5, <2>3 DEF Reserve, WritesTyped, Inv, TypeInv, TypeOK, journals, ghosts
  <2>5. QED
    BY <1>5, <2>1, <2>2, <2>4, WriteInv DEF Reserve, Inv, Spent, Told, ghosts
<1>6. CASE LogIntent(p)
  <2>1. posts = 0
    BY <1>6 DEF LogIntent, From, Inv, Spent, Unposted
  <2>2. /\ "intent" \in Inside /\ "start" \in Inside
        /\ "start" \notin Answered \cup Recovering \cup Unread
    BY DEF Inside, PCs, Answered, Recovering, Unread
  <2>3. QED BY <1>6, <1>0, <2>1, <2>2, RowInv DEF LogIntent
<1>7. CASE LogStart(p)
  <2>1. posts = 0
    BY <1>7 DEF LogStart, From, Inv, Spent, Unposted
  <2>2. /\ "transport" \in Inside /\ "start" \in Inside
        /\ "transport" \notin Answered \cup Recovering \cup Unread
    BY DEF Inside, PCs, Answered, Recovering, Unread
  <2>3. QED BY <1>7, <1>0, <2>1, <2>2, RowInv DEF LogStart
<1>8. CASE Post(p)
  <2>1. posts = 0 /\ HasRow(spend, "physical_post_started")
    BY <1>8 DEF Post, From, Inv, Spent, Unposted
  <2>2. /\ "transport" \in Inside /\ "receipt" \in Inside
        /\ "receipt" \notin Unposted \cup Recovering \cup Unread
    BY DEF Inside, PCs, Unposted, Recovering, Unread
  <2>3. receipts = {} /\ acceptances = {} /\ results = {}
    BY <2>1 DEF Inv, Told
  <2>4. posts' = 1 /\ answer' \in Answers /\ got' = [got EXCEPT ![p] = answer']
    BY <1>8, <2>1 DEF Post
  <2>5. got' \in [Procs -> Answers \cup {NoAnswer}] /\ got'[p] = answer'
    BY <2>4 DEF Inv, TypeInv, TypeOK
  <2>6. WritesTyped
    BY <1>8, <2>4, <2>5 DEF Post, WritesTyped, Inv, TypeInv, TypeOK, journals, published
  <2>7. QED
    BY <1>8, <2>1, <2>2, <2>3, <2>4, <2>5, <2>6, WriteInv
    DEF Post, Inv, Spent, published
<1>9. CASE PostWithoutAnswer(p)
  <2>1. posts = 0 /\ HasRow(spend, "physical_post_started")
    BY <1>9 DEF PostWithoutAnswer, From, Inv, Spent, Unposted
  <2>2. /\ "transport" \in Inside /\ "raised" \in Inside
        /\ "raised" \notin Unposted \cup Recovering \cup Unread \cup Answered
    BY DEF Inside, PCs, Unposted, Recovering, Unread, Answered
  <2>3. receipts = {} /\ acceptances = {} /\ results = {}
    BY <2>1 DEF Inv, Told
  <2>4. posts' = 1
    BY <1>9, <2>1 DEF PostWithoutAnswer
  <2>5. WritesTyped
    BY <1>9, <2>4 DEF PostWithoutAnswer, WritesTyped, Inv, TypeInv, TypeOK, journals, published
  <2>6. QED
    BY <1>9, <2>1, <2>2, <2>3, <2>4, <2>5, WriteInv
    DEF PostWithoutAnswer, Inv, Spent, published
<1>10. CASE PublishReceipt(p)
  <2>1. /\ receipts = {} /\ got[p] = answer /\ answer \in Answers /\ posts > 0
    BY <1>10 DEF PublishReceipt, From, Inv, Told, Answered
  <2>2. /\ "cache" \in Inside /\ "receipt" \in Inside /\ "cache" \in Answered
        /\ "cache" \notin Unposted \cup Recovering \cup Unread
    BY DEF Inside, PCs, Unposted, Recovering, Unread, Answered
  <2>3. receipts' = {[reservation |-> Mine(p), records |-> answer]}
    BY <1>10, <2>1 DEF PublishReceipt
  <2>4. Mine(p) \in Reservation
    BY <1>10, <2>2, FromOwned
    DEF PublishReceipt, Mine, Inv, TypeInv, TypeOK, Lease!TypeOK, Reservation
  <2>5. WritesTyped
    BY <1>10, <2>1, <2>3, <2>4
    DEF PublishReceipt, WritesTyped, Receipt, Inv, TypeInv, TypeOK, journals, ghosts
  <2>6. posts' = posts /\ reads' = reads /\ results' = results /\ answer' = answer
        /\ got' = got /\ acceptances' = acceptances /\ posts # 0
    BY <1>10, <2>1 DEF PublishReceipt, ghosts, Inv, TypeInv, TypeOK
  <2>7. QED
    BY <1>10, <2>1, <2>2, <2>3, <2>5, <2>6, WriteInv
    DEF PublishReceipt, Inv, Spent, Told
<1>11. CASE PublishCache(p)
  <2>1. /\ got[p] = answer /\ answer \in Answers /\ posts > 0
    BY <1>11 DEF PublishCache, From, Inv, Told, Answered
  <2>2. /\ "cache" \in Inside /\ "acceptance" \in Inside /\ "acceptance" \in Answered
        /\ "acceptance" \notin Unposted \cup Recovering \cup Unread
    BY DEF Inside, PCs, Unposted, Recovering, Unread, Answered
  <2>3. WritesTyped
    BY <1>11, <2>1, WriteCacheType
    DEF PublishCache, WritesTyped, Inv, TypeInv, TypeOK, journals, published, ghosts
  <2>4. QED
    BY <1>11, <2>1, <2>2, <2>3, WriteInv
    DEF PublishCache, Inv, Spent, Told, published, ghosts
<1>12. CASE Accept(p)
  <2>1. /\ got[p] = answer /\ answer \in Answers /\ posts > 0
    BY <1>12 DEF Accept, From, Inv, Told, Answered
  <2>2. /\ "complete" \in Inside /\ "acceptance" \in Inside
        /\ "complete" \notin Unposted \cup Recovering \cup Unread \cup Answered
    BY DEF Inside, PCs, Unposted, Recovering, Unread, Answered
  <2> DEFINE new == [receipt |-> [reservation |-> Mine(p), records |-> answer],
                     stamp |-> cache.stamp]
  <2>3. acceptances' = acceptances \cup {new}
    BY <1>12, <2>1 DEF Accept, PublishAcceptance
  <2>4. Mine(p) \in Reservation /\ cache.stamp \in Nat
    BY <1>12, <2>2, FromOwned
    DEF Accept, Mine, Inv, TypeInv, TypeOK, Lease!TypeOK, Reservation, Cache
  <2>5. new \in Acceptance /\ new.receipt.records = answer
    BY <2>1, <2>4 DEF Acceptance, Receipt
  <2> HIDE DEF new
  <2>6. WritesTyped
    BY <1>12, <2>3, <2>5
    DEF Accept, WritesTyped, Inv, TypeInv, TypeOK, journals, ghosts
  <2>7. posts' = posts /\ reads' = reads /\ results' = results /\ answer' = answer
        /\ receipts' = receipts /\ posts # 0
    BY <1>12, <2>1 DEF Accept, ghosts, Inv, TypeInv, TypeOK
  <2>8. QED
    BY <1>12, <2>2, <2>3, <2>5, <2>6, <2>7, WriteInv DEF Accept, Inv, Spent, Told
<1>13. QED
  BY <1>1, <1>2, <1>3, <1>4, <1>5, <1>6, <1>7, <1>8, <1>9, <1>10, <1>11, <1>12
  DEF Attempt

LEMMA RecoverInv ==
    ASSUME Inv, NEW p \in Procs, Recover(p)
    PROVE  Inv'
<1>1. CASE BeginRecovery(p)
  <2>1. "opened" \in Inside /\ "recover_cache" \in Inside
        /\ "recover_cache" \notin Unread \cup Unposted \cup Answered
    BY DEF Inside, PCs, Answered, Unread, Unposted
  <2>2. ReceiptsOf(seal[p]) # {}
    BY <1>1, FS_EmptySet DEF BeginRecovery, Recoverable
  <2>3. ReceiptsOf(seal[p])' = ReceiptsOf(seal[p])
    BY <1>1 DEF BeginRecovery, From, ReceiptsOf, published
  <2>4. WritesTyped
    BY <1>1 DEF BeginRecovery, WritesTyped, Inv, TypeInv, TypeOK, journals, published, ghosts
  <2>5. QED
    BY <1>1, <2>1, <2>2, <2>3, <2>4, WriteInv
    DEF BeginRecovery, Inv, Spent, Told, published, ghosts
<1>2. CASE RecoverCache(p)
  <2>1. "recover_acceptance" \in Inside /\ "recover_cache" \in Inside
        /\ "recover_acceptance" \notin Unread \cup Unposted \cup Answered
    BY DEF Inside, PCs, Answered, Unread, Unposted
  <2>2. ReceiptsOf(seal[p]) # {} /\ seal[p] \in Seals
    BY <1>2, <2>1, FromOwned DEF RecoverCache, From, Inv, Told, Recovering
  <2>3. TheReceipt(seal[p]).records \in Answers
    BY <2>2, TheReceiptExists DEF Inv, TypeInv, TypeOK, Receipt
  <2>4. cache' \in Cache /\ stamp' \in Nat
    BY <1>2, <2>3, WriteCacheType DEF RecoverCache, Inv, TypeInv, TypeOK
  <2>5. ReceiptsOf(seal[p])' = ReceiptsOf(seal[p])
    BY <1>2 DEF RecoverCache, From, ReceiptsOf, published
  <2>6. WritesTyped
    BY <1>2, <2>3, <2>4
    DEF RecoverCache, WritesTyped, Inv, TypeInv, TypeOK, journals, published, ghosts
  <2>7. QED
    BY <1>2, <2>1, <2>2, <2>5, <2>6, WriteInv
    DEF RecoverCache, Inv, Spent, Told, published, ghosts
<1>3. CASE RecoverAcceptance(p)
  <2>1. "recover_acceptance" \in Inside /\ "complete" \in Inside
        /\ "complete" \notin Unread \cup Unposted \cup Answered \cup Recovering
    BY DEF Inside, PCs, Answered, Unread, Unposted, Recovering
  <2>2. ReceiptsOf(seal[p]) # {} /\ seal[p] \in Seals
    BY <1>3, <2>1, FromOwned DEF RecoverAcceptance, From, Inv, Told, Recovering
  <2> DEFINE new == [receipt |-> TheReceipt(seal[p]), stamp |-> cache.stamp]
  <2>3. TheReceipt(seal[p]) \in receipts
    BY <2>2, TheReceiptExists
  <2>4. new \in Acceptance /\ new.receipt.records = answer
    BY <2>3 DEF Inv, TypeInv, TypeOK, Acceptance, Cache, Told
  <2>5. acceptances' = acceptances \cup {new} \/ acceptances' = acceptances
    BY <1>3 DEF RecoverAcceptance, PublishAcceptance
  <2> HIDE DEF new
  <2>6. posts # 0
    BY <2>3 DEF Inv, Told
  <2>7. WritesTyped
    BY <1>3, <2>4, <2>5
    DEF RecoverAcceptance, WritesTyped, Inv, TypeInv, TypeOK, journals, ghosts
  <2>8. posts' = posts /\ reads' = reads /\ results' = results /\ answer' = answer
        /\ receipts' = receipts
    BY <1>3 DEF RecoverAcceptance, ghosts
  <2>9. \A a \in acceptances': a.receipt.records = answer'
    BY <2>4, <2>5, <2>8 DEF Inv, Told
  <2>10. From(p, "recover_acceptance", "complete") /\ UNCHANGED journals
    BY <1>3 DEF RecoverAcceptance
  <2>11. QED
    BY <2>1, <2>6, <2>7, <2>8, <2>9, <2>10, WriteInv DEF Inv, Spent, Told
<1>4. CASE RecoveryRefused(p)
  <2>1. pc[p] \in Inside
    BY <1>4 DEF RecoveryRefused, Inside, PCs
  <2>2. Fail(p, "refused")
    BY <1>4 DEF RecoveryRefused
  <2>3. QED BY <2>1, <2>2, FailInv
<1>5. QED BY <1>1, <1>2, <1>3, <1>4 DEF Recover

\* What load_accepted_response accepts is the answer.
LEMMA LoadsTheAnswer ==
    ASSUME Inv, NEW p \in Procs, Load(p)
    PROVE  /\ cache.records = answer /\ answer \in Answers
           /\ results' = results \cup {answer} /\ posts # 0
<1>1. Loads(seal[p], AcceptanceOf(seal[p]))
  BY DEF Load
<1>2. AcceptanceOf(seal[p]).receipt \in receipts
  BY <1>1 DEF Loads, ReceiptsOf
<1>3. /\ AcceptanceOf(seal[p]).receipt.records = answer
      /\ AcceptanceOf(seal[p]).receipt.records \in Answers
  BY <1>2 DEF Inv, TypeInv, TypeOK, Told, Receipt
<1>4. cache.records = answer
  BY <1>1, <1>3 DEF Loads
<1>5. posts # 0
  BY <1>2 DEF Inv, Told
<1>6. QED BY <1>3, <1>4, <1>5 DEF Load

LEMMA CloseInv ==
    ASSUME Inv, NEW p \in Procs, Close(p)
    PROVE  Inv'
<1>0. DOMAIN EventAt = {"credential_intent", "intent", "start", "complete", "terminal"}
  BY EventAtFacts
<1>1. CASE Complete(p)
  <2>1. "complete" \in Inside /\ "terminal" \in Inside
        /\ "terminal" \notin Unread \cup Unposted \cup Answered \cup Recovering
    BY DEF Inside, PCs, Answered, Unread, Unposted, Recovering
  <2>2. QED BY <1>0, <1>1, <2>1, RowInv DEF Complete
<1>2. CASE Terminate(p)
  <2>1. "load" \in Inside /\ "terminal" \in Inside
        /\ "load" \notin Unread \cup Unposted \cup Answered \cup Recovering
    BY DEF Inside, PCs, Answered, Unread, Unposted, Recovering
  <2>2. QED BY <1>0, <1>2, <2>1, RowInv DEF Terminate
<1>3. CASE Load(p)
  <2>1. "load" \in Inside /\ "accepted" \in Inside
        /\ "accepted" \notin Unread \cup Unposted \cup Answered \cup Recovering
        /\ "accepted" # "transport" /\ "accepted" # "receipt"
    BY DEF Inside, PCs, Answered, Unread, Unposted, Recovering
  <2>2. /\ results' = results \cup {answer} /\ answer \in Answers /\ posts # 0
    BY <1>3, LoadsTheAnswer
  <2>3. /\ posts' = posts /\ reads' = reads /\ answer' = answer /\ receipts' = receipts
        /\ acceptances' = acceptances /\ UNCHANGED journals /\ From(p, "load", "accepted")
    BY <1>3 DEF Load, published
  <2>4. WritesTyped
    BY <1>3, <2>2, <2>3
    DEF Load, WritesTyped, Inv, TypeInv, TypeOK, journals, published
  <2>5. QED
    BY <2>1, <2>2, <2>3, <2>4, WriteInv DEF Inv, Spent, Told
<1>4. CASE LoadRefused(p)
  <2>1. pc[p] \in Inside
    BY <1>4 DEF LoadRefused, Inside, PCs
  <2>2. Fail(p, "refused")
    BY <1>4 DEF LoadRefused
  <2>3. QED BY <2>1, <2>2, FailInv
<1>5. QED BY <1>1, <1>2, <1>3, <1>4 DEF Close

\* The lease actions and the exits.
LEMMA StartInv ==
    ASSUME Inv, NEW p \in Procs, NEW s \in Seals, Start(p, s)
    PROVE  Inv'
<1>1. Goto(p, "waiting") /\ "waiting" \in PCs /\ "waiting" \in Calm
      /\ "waiting" \notin Inside /\ pc[p] = "idle"
  BY DEF Start, PCs, Calm, Inside
<1>2. Lease!TypeOK'
  BY LeaseType DEF Start, Inv, TypeInv, TypeOK
<1>3. /\ pc' \in [Procs -> PCs] /\ seal' \in [Procs -> Seals \cup {NoSeal}]
      /\ Sealed'
  BY <1>1 DEF Start, Goto, Inv, TypeInv, TypeOK, Sealed
<1>4. TypeInv'
  BY <1>2, <1>3 DEF Start, Inv, TypeInv, TypeOK, journals, published, ghosts
<1>5. Owned'
  BY <1>1, OwnedKept DEF Start, lease
<1>6. Spent'
  BY <1>1, Places, GrowSame, SpentByOthers DEF Start, ghosts
<1>7. \A q \in Procs: q # p => got'[q] = got[q] /\ seal'[q] = seal[q]
  BY DEF Start, Inv, TypeInv, TypeOK
<1>8. Told'
  BY <1>1, <1>7, Places, ToldByOthers DEF Start, ghosts, published
<1>9. QED BY <1>4, <1>5, <1>6, <1>8 DEF Inv

LEMMA AcquireInv ==
    ASSUME Inv, NEW p \in Procs, Acquire(p)
    PROVE  Inv'
<1>1. Goto(p, "opened") /\ "opened" \in PCs /\ "opened" \in Calm /\ pc[p] = "waiting"
  BY DEF Acquire, PCs, Calm
<1>2. seal[p] \in Seals /\ Lease!Grant(p, seal[p])
  BY <1>1 DEF Acquire, Inv, TypeInv, Sealed
<1>3. Lease!TypeOK'
  BY <1>2, LeaseType DEF Inv, TypeInv, TypeOK
<1>4. pc' \in [Procs -> PCs] /\ Sealed'
  BY <1>1, <1>2 DEF Acquire, Goto, Inv, TypeInv, TypeOK, Sealed
<1>5. TypeInv'
  BY <1>3, <1>4 DEF Acquire, Inv, TypeInv, TypeOK, journals, published, ghosts
<1>6. Owned'
  <2>1. owner = NoProc /\ owner' = p
    BY <1>2 DEF Lease!Grant
  <2>2. \A q \in Procs: pc[q] \notin Inside
    BY <2>1, NoProcAssumption DEF Inv, Owned
  <2>3. QED BY <1>1, <2>1, <2>2 DEF Goto, Owned, Inv, TypeInv, TypeOK
<1>7. Spent'
  BY <1>1, Places, GrowSame, SpentByOthers DEF Acquire, ghosts
<1>8. Told'
  BY <1>1, Places, ToldByOthers DEF Acquire, ghosts, published
<1>9. QED BY <1>5, <1>6, <1>7, <1>8 DEF Inv

LEMMA CrashInAppendInv ==
    ASSUME Inv, NEW p \in Procs, CrashInAppend(p)
    PROVE  Inv'
<1>1. Goto(p, "idle") /\ "idle" \in PCs /\ "idle" \in Calm /\ "idle" \notin Inside
  BY DEF CrashInAppend, PCs, Calm, Inside
<1>2. pc[p] \in DOMAIN EventAt /\ AppendRow(p, FALSE) /\ Lease!Drop(p)
  BY DEF CrashInAppend
<1>3. Grow /\ network' \in Journal /\ spend' \in Journal
  BY <1>2, GrowAppend, AppendJournals DEF Inv
<1>4. Lease!TypeOK'
  BY <1>2, LeaseType DEF Inv, TypeInv, TypeOK
<1>5. /\ pc' \in [Procs -> PCs] /\ seal' \in [Procs -> Seals \cup {NoSeal}]
      /\ got' \in [Procs -> Answers \cup {NoAnswer}] /\ Sealed'
  BY <1>1 DEF CrashInAppend, Goto, Inv, TypeInv, TypeOK, Sealed
<1>6. TypeInv'
  BY <1>3, <1>4, <1>5 DEF CrashInAppend, Inv, TypeInv, TypeOK, published, ghosts
<1>7. Owned'
  BY <1>1, <1>2, OwnedDropped DEF Lease!Drop
<1>8. Spent'
  BY <1>1, <1>3, Places, SpentByOthers DEF CrashInAppend, ghosts
<1>9. \A q \in Procs: q # p => got'[q] = got[q] /\ seal'[q] = seal[q]
  BY DEF CrashInAppend, Inv, TypeInv, TypeOK
<1>10. Told'
  BY <1>1, <1>9, Places, ToldByOthers DEF CrashInAppend, ghosts, published
<1>11. QED BY <1>6, <1>7, <1>8, <1>10 DEF Inv

\* What the environment does to lock and cache.
LEMMA DamageInv ==
    ASSUME Inv, ReplaceLock \/ \E state \in {"absent", "corrupt"}: DamageCache(state)
    PROVE  Inv'
<1>1. /\ UNCHANGED <<lease, journals, published, stamp, pc, seal, got, starts, ghosts>>
      /\ intact' \in BOOLEAN /\ cache' \in Cache /\ changes' \in Nat
  <2>1. CASE ReplaceLock
    BY <2>1 DEF ReplaceLock, Inv, TypeInv, TypeOK
  <2>2. ASSUME NEW state \in {"absent", "corrupt"}, DamageCache(state)
        PROVE  <1>1!1 /\ <1>1!2
    BY <2>2 DEF DamageCache, Inv, TypeInv, TypeOK, Cache
  <2>3. QED BY <2>1, <2>2
<1>2. Lease!TypeOK'
  BY <1>1, LeaseType DEF Inv, TypeInv, TypeOK
<1>3. TypeInv'
  BY <1>1, <1>2 DEF Inv, TypeInv, TypeOK, Sealed, journals, published, ghosts
<1>4. Owned' /\ Spent'
  BY <1>1 DEF Inv, Owned, Spent, HasRow, lease, journals, ghosts
<1>5. Told'
  BY <1>1 DEF Inv, Told, ReceiptsOf, published, ghosts
<1>6. QED BY <1>3, <1>4, <1>5 DEF Inv

\* Every step of an attempt, a recovery, the lease and a kill keeps the invariant.
THEOREM InvStep == Inv /\ [Next]_vars => Inv'
<1> SUFFICES ASSUME Inv, [Next]_vars PROVE Inv'
  OBVIOUS
<1>1. ASSUME NEW p \in Procs, NEW s \in Seals, Start(p, s) PROVE Inv'
  BY <1>1, StartInv
<1>2. ASSUME NEW p \in Procs, Step(p) PROVE Inv'
  <2>1. CASE Acquire(p)
    BY <2>1, AcquireInv
  <2>2. CASE AcquireRefused(p)
    BY <2>2, StopInv DEF AcquireRefused
  <2>3. CASE Ambiguous(p)
    <3>1. pc[p] \in Inside /\ Fail(p, "refused")
      BY <2>3 DEF Ambiguous, Inside, PCs
    <3>2. QED BY <3>1, FailInv
  <2>4. CASE Attempt(p)
    BY <2>4, AttemptInv
  <2>5. CASE Recover(p)
    BY <2>5, RecoverInv
  <2>6. CASE Close(p)
    BY <2>6, CloseInv
  <2>7. CASE LeaseLost(p)
    <3>1. pc[p] \in Inside /\ Fail(p, "refused")
      BY <2>7 DEF LeaseLost
    <3>2. QED BY <3>1, FailInv
  <2>8. CASE Leave(p)
    BY <2>8, StopInv DEF Leave
  <2>9. CASE CacheLost(p)
    <3>1. pc[p] \in Inside /\ Fail(p, "refused")
      BY <2>9 DEF CacheLost, Inside, PCs
    <3>2. QED BY <3>1, FailInv
  <2>10. QED
    BY <1>2, <2>1, <2>2, <2>3, <2>4, <2>5, <2>6, <2>7, <2>8, <2>9 DEF Step
<1>3. ASSUME NEW p \in Procs, Raise(p) PROVE Inv'
  <2>1. pc[p] \in Inside /\ Fail(p, "raised")
    BY <1>3 DEF Raise
  <2>2. QED BY <2>1, FailInv
<1>4. ASSUME NEW p \in Procs, Crash(p) PROVE Inv'
  BY <1>4, StopInv DEF Crash
<1>5. ASSUME NEW p \in Procs, CrashWaiting(p) PROVE Inv'
  BY <1>5, StopInv DEF CrashWaiting
<1>6. ASSUME NEW p \in Procs, CrashInLease(p) PROVE Inv'
  BY <1>6, StopInv DEF CrashInLease
<1>7. ASSUME NEW p \in Procs, CrashInAppend(p) PROVE Inv'
  BY <1>7, CrashInAppendInv
<1>8. CASE ReplaceLock \/ \E state \in {"absent", "corrupt"}: DamageCache(state)
  BY <1>8, DamageInv
<1>9. CASE UNCHANGED vars
  <2>1. UNCHANGED <<lease, intact, journals, published, cache, stamp, pc, seal, got,
                    starts, changes, ghosts>>
    BY <1>9 DEF vars
  <2>2. Lease!TypeOK'
    BY <2>1, LeaseType DEF Inv, TypeInv, TypeOK
  <2>3. TypeInv'
    BY <2>1, <2>2 DEF Inv, TypeInv, TypeOK, Sealed, journals, published, ghosts
  <2>4. Owned' /\ Spent'
    BY <2>1 DEF Inv, Owned, Spent, HasRow, lease, journals, ghosts
  <2>5. Told'
    BY <2>1 DEF Inv, Told, ReceiptsOf, published, ghosts
  <2>6. QED BY <2>3, <2>4, <2>5 DEF Inv
<1>10. QED
  BY <1>1, <1>2, <1>3, <1>4, <1>5, <1>6, <1>7, <1>8, <1>9 DEF Next

LEMMA Invariant == Spec => []Inv
<1>1. QED BY InvInit, InvStep, PTL DEF Spec

-----------------------------------------------------------------------------
(***************************************************************************)
(* The evidence.  Only the first attempt can write rows, and they come in  *)
(* one order; each published generation follows from the one before it.    *)
(* The lease has one root binding, so all of it is of one attempt.         *)
(***************************************************************************)
NetworkEvents == <<"credential_read_intent", "attempt_intent", "request_terminal">>
SpendEvents == <<"physical_post_started", "physical_post_completed">>

Filed == Len(network.rows)
Charged == Len(spend.rows)

\* The journals are beginnings of the two complete ones, written under leases
\* that only get newer, the first rows all under one.
Written ==
    /\ Filed <= 3 /\ Charged <= 2
    /\ \A i \in 1..Filed: /\ network.rows[i].event = NetworkEvents[i]
                          /\ network.rows[i].attempt = root
                          /\ network.rows[1].fence <= network.rows[i].fence
                          /\ network.rows[i].fence <= fence
    /\ \A i \in 1..Charged: /\ spend.rows[i].event = SpendEvents[i]
                            /\ spend.rows[i].attempt = root
    /\ Filed >= 2 => network.rows[2].fence = network.rows[1].fence
    /\ Charged >= 1 => spend.rows[1].fence = network.rows[1].fence

\* What is published, and what is written only after it.
Chained ==
    /\ Charged >= 1 => Filed >= 2
    /\ Filed >= 2 => reservations # {}
    /\ \A r \in reservations: /\ Filed >= 1 /\ r.attempt = root
                              /\ r.fence = network.rows[1].fence
    /\ \A r \in receipts: r.reservation \in reservations /\ Charged >= 1
    /\ \A a \in acceptances: a.receipt \in receipts
    /\ \A a, b \in acceptances: a = b
    /\ Charged = 2 => acceptances # {}
    /\ Filed = 3 => Charged = 2

\* Nobody has replaced the lock file or damaged the cache: the cache is what
\* the evidence says.
Sound ==
    changes = 0 =>
        /\ intact
        /\ cache.state # "corrupt"
        /\ cache.state = "present" => receipts # {} /\ cache.records = answer
        /\ acceptances # {} => cache.state = "present"
        /\ \A a \in acceptances: a.stamp = cache.stamp
        /\ Charged = 2 => spend.rows[2].stamp = cache.stamp
        /\ Filed = 3 => network.rows[3].stamp = cache.stamp

AtWork == Inside \ {"opened", "accepted", "refused", "raised"}

\* How far the journals are, and what is published, where a process stands.
Stands(p) ==
    /\ pc[p] \in Inside => seal[p] = root
    /\ pc[p] \in AtWork => Synced
    /\ pc[p] \in {"tls", "credential_intent"} => Filed = 0
    /\ pc[p] \in {"credential", "reserve", "intent"} =>
          Filed = 1 /\ network.rows[1].fence = fence
    /\ pc[p] \in {"credential", "reserve"} => reservations = {}
    /\ pc[p] \in {"intent", "start", "transport", "receipt", "cache", "acceptance"} =>
          Mine(p) \in reservations
    /\ pc[p] = "start" => Filed = 2 /\ Charged = 0
    /\ pc[p] \in {"transport", "receipt", "cache", "acceptance"} =>
          Filed = 2 /\ Charged = 1 /\ acceptances = {}
    /\ pc[p] \in {"cache", "acceptance"} =>
          [reservation |-> Mine(p), records |-> got[p]] \in receipts
    /\ pc[p] \in {"complete", "terminal", "load"} => acceptances # {}
    /\ pc[p] \in {"terminal", "load"} => Charged = 2
    /\ pc[p] = "load" => Filed = 3
    /\ changes = 0 =>
          /\ pc[p] \in {"acceptance", "recover_acceptance"} => cache.state = "present"
          /\ pc[p] = "refused" /\ receipts # {} => ~Synced

Evidence == Written /\ Chained /\ Sound /\ \A p \in Procs: Stands(p)

LEMMA EvidenceTypes ==
    ASSUME Inv
    PROVE  /\ network.rows \in Seq(Row) /\ spend.rows \in Seq(Row)
           /\ Filed \in Nat /\ Charged \in Nat
           /\ \A i \in 1..Filed: /\ network.rows[i] \in Row
                                 /\ network.rows[i].fence \in Nat
                                 /\ network.rows[i].attempt \in Seals
           /\ \A i \in 1..Charged: /\ spend.rows[i] \in Row
                                   /\ spend.rows[i].fence \in Nat
                                   /\ spend.rows[i].attempt \in Seals
           /\ fence \in Nat /\ changes \in Nat
           /\ \A r \in receipts: r \in Receipt /\ r.reservation \in Reservation
           /\ \A a \in acceptances: a \in Acceptance /\ a.receipt \in Receipt
<1>1. network.rows \in Seq(Row) /\ spend.rows \in Seq(Row)
  BY DEF Inv, TypeInv, TypeOK, Journal
<1>2. /\ \A i \in 1..Filed: network.rows[i] \in Row
      /\ \A i \in 1..Charged: spend.rows[i] \in Row
      /\ Filed \in Nat /\ Charged \in Nat
  BY <1>1 DEF Filed, Charged
<1>3. \A row \in Row: row.fence \in Nat /\ row.attempt \in Seals
  BY DEF Row
<1>4. /\ receipts \subseteq Receipt /\ acceptances \subseteq Acceptance
      /\ fence \in Nat /\ changes \in Nat
  BY DEF Inv, TypeInv, TypeOK, Lease!TypeOK
<1>5. /\ \A r \in receipts: r \in Receipt /\ r.reservation \in Reservation
      /\ \A a \in acceptances: a \in Acceptance /\ a.receipt \in Receipt
  BY <1>4 DEF Receipt, Acceptance
<1>6. QED BY <1>1, <1>2, <1>3, <1>4, <1>5

LEMMA EvidenceInit == Init => Evidence
<1> SUFFICES ASSUME Init PROVE Evidence
  OBVIOUS
<1>1. Filed = 0 /\ Charged = 0
  BY DEF Init, Filed, Charged
<1>2. \A p \in Procs: pc[p] = "idle"
  BY DEF Init
<1>3. \A p \in Procs: Stands(p)
  BY <1>2 DEF Stands, Inside, AtWork, PCs
<1>4. Written /\ Chained /\ Sound
  BY <1>1 DEF Init, Written, Chained, Sound
<1>5. QED BY <1>3, <1>4 DEF Evidence

\* The evidence says nothing of a process outside the with-block.
LEMMA StandsOutside ==
    ASSUME NEW p \in Procs, pc'[p] \notin Inside
    PROVE  Stands(p)'
BY DEF Stands, Inside, AtWork, PCs

\* A step of the only process inside.
LEMMA EvidenceKept ==
    ASSUME NEW p \in Procs, \A q \in Procs: q # p => pc'[q] \notin Inside,
           Written', Chained', Sound', Stands(p)'
    PROVE  Evidence'
BY StandsOutside DEF Evidence

\* A step of a process that leaves the evidence alone and the others where
\* they were.
LEMMA EvidenceLeft ==
    ASSUME Inv, Evidence, NEW p \in Procs, NEW to \in PCs, Goto(p, to),
           UNCHANGED <<journals, published, cache, changes, intact, fence, root, answer>>,
           \A q \in Procs: q # p => got'[q] = got[q] /\ seal'[q] = seal[q],
           Stands(p)'
    PROVE  Evidence'
<1>1. \A q \in Procs: q # p => pc'[q] = pc[q]
  BY DEF Goto, Inv, TypeInv, TypeOK
<1>2. Written' /\ Chained' /\ Sound'
  BY DEF Evidence, Written, Chained, Sound, Filed, Charged, journals, published
<1>3. Synced' = Synced /\ Filed' = Filed /\ Charged' = Charged
  BY DEF Synced, Filed, Charged, journals
<1>4. ASSUME NEW q \in Procs, q # p PROVE Stands(q)'
  <2>1. /\ Stands(q) /\ pc'[q] = pc[q] /\ got'[q] = got[q] /\ seal'[q] = seal[q]
        /\ Mine(q)' = Mine(q)
    BY <1>1, <1>4 DEF Evidence, Mine
  <2>2. QED BY <1>3, <2>1 DEF Stands, journals, published
<1>5. QED BY <1>2, <1>4 DEF Evidence

LEMMA StartEvidence ==
    ASSUME Inv, Evidence, NEW p \in Procs, NEW s \in Seals, Start(p, s)
    PROVE  Evidence'
<1>1. Goto(p, "waiting") /\ "waiting" \in PCs /\ "waiting" \notin Inside
  BY DEF Start, PCs, Inside
<1>2. pc'[p] = "waiting"
  BY <1>1 DEF Goto, Inv, TypeInv, TypeOK
<1>3. \A q \in Procs: q # p => got'[q] = got[q] /\ seal'[q] = seal[q]
  BY DEF Start, Inv, TypeInv, TypeOK
<1>4. QED
  BY <1>1, <1>2, <1>3, StandsOutside, EvidenceLeft DEF Start, lease, ghosts

LEMMA StopEvidence ==
    ASSUME Inv, Evidence, NEW p \in Procs, Stop(p), UNCHANGED <<fence, root>>
    PROVE  Evidence'
<1>1. Goto(p, "idle") /\ "idle" \in PCs /\ "idle" \notin Inside
  BY DEF Stop, PCs, Inside
<1>2. pc'[p] = "idle"
  BY <1>1 DEF Goto, Inv, TypeInv, TypeOK
<1>3. \A q \in Procs: q # p => got'[q] = got[q] /\ seal'[q] = seal[q]
  BY DEF Stop, Inv, TypeInv, TypeOK
<1>4. QED
  BY <1>1, <1>2, <1>3, StandsOutside, EvidenceLeft DEF Stop, ghosts

LEMMA AcquireEvidence ==
    ASSUME Inv, Evidence, NEW p \in Procs, Acquire(p)
    PROVE  Evidence'
<1> USE EvidenceTypes
<1>1. /\ Goto(p, "opened") /\ owner = NoProc /\ root \in {NoSeal, seal[p]}
      /\ root' = seal[p] /\ fence' = fence + 1 /\ seal' = seal
      /\ UNCHANGED <<journals, published, cache, changes, intact, answer>>
  BY DEF Acquire, Lease!Grant, ghosts
<1>2. \A q \in Procs: pc[q] \notin Inside
  BY <1>1, NoProcAssumption DEF Inv, Owned
<1>3. /\ pc'[p] = "opened"
      /\ \A q \in Procs: q # p => pc'[q] \notin Inside
  BY <1>1, <1>2 DEF Goto, Inv, TypeInv, TypeOK
<1>4. CASE root = seal[p]
  <2>1. Written' /\ Chained' /\ Sound'
    BY <1>1, <1>4
    DEF Evidence, Written, Chained, Sound, Filed, Charged, journals, published
  <2>2. Stands(p)'
    BY <1>1, <1>3 DEF Stands, AtWork
  <2>3. QED BY <1>3, <2>1, <2>2, EvidenceKept
<1>5. CASE root = NoSeal
  <2>1. Filed = 0
    BY <1>5, NoSealAssumption DEF Evidence, Written
  <2>2. Charged = 0 /\ reservations = {} /\ receipts = {} /\ acceptances = {}
    BY <2>1 DEF Evidence, Chained
  <2>3. Written' /\ Chained' /\ Sound'
    BY <1>1, <2>1, <2>2
    DEF Evidence, Written, Chained, Sound, Filed, Charged, journals, published
  <2>4. Stands(p)'
    BY <1>1, <1>3 DEF Stands, AtWork
  <2>5. QED BY <1>3, <2>3, <2>4, EvidenceKept
<1>6. QED BY <1>1, <1>4, <1>5

\* A process that fails; "refused" once a receipt is there has to be for a torn
\* journal.
LEMMA FailEvidence ==
    ASSUME Inv, Evidence, NEW p \in Procs, NEW how \in {"refused", "raised"},
           pc[p] \in Inside, Fail(p, how),
           how = "refused" /\ changes = 0 /\ receipts # {} => ~Synced
    PROVE  Evidence'
<1>1. Goto(p, how) /\ how \in PCs /\ how \in Inside
  BY DEF Fail, PCs, Inside
<1>2. pc'[p] = how
  BY <1>1 DEF Goto, Inv, TypeInv, TypeOK
<1>3. seal[p] = root
  BY DEF Evidence, Stands
<1>4. Synced' = Synced
  BY DEF Fail, Synced, journals
<1>5. Stands(p)'
  BY <1>2, <1>3, <1>4 DEF Fail, Stands, AtWork, lease, published
<1>6. QED
  BY <1>1, <1>5, EvidenceLeft DEF Fail, lease, ghosts

\* A statement that writes no row and publishes nothing but, perhaps, the answer
\* of the POST.
LEMMA QuietEvidence ==
    ASSUME Inv, Evidence, NEW p \in Procs, NEW at \in Inside, NEW to \in Inside,
           From(p, at, to), UNCHANGED <<journals, published, cache>>,
           receipts = {} \/ answer' = answer,
           Stands(p)'
    PROVE  Evidence'
<1>1. /\ \A q \in Procs: q # p => pc'[q] = pc[q] /\ pc[q] \notin Inside
      /\ UNCHANGED <<fence, root, changes, intact>>
  BY FromOwned DEF From, lease
<1>2. Written' /\ Chained'
  BY <1>1 DEF Evidence, Written, Chained, Filed, Charged, journals, published
<1>3. Sound'
  BY <1>1 DEF Evidence, Sound, Filed, Charged, journals, published
<1>4. QED BY <1>1, <1>2, <1>3, EvidenceKept

-----------------------------------------------------------------------------
(* Where the rows of each event are                                        *)

LEMMA RowsAre ==
    ASSUME Inv, Evidence
    PROVE  /\ RowsOf(network, "credential_read_intent", {root}) = {i \in {1}: i <= Filed}
           /\ RowsOf(network, "credential_read_intent", Seals) = {i \in {1}: i <= Filed}
           /\ RowsOf(network, "attempt_intent", {root}) = {i \in {2}: i <= Filed}
           /\ RowsOf(network, "request_terminal", {root}) = {i \in {3}: i <= Filed}
           /\ RowsOf(spend, "physical_post_started", {root}) = {i \in {1}: i <= Charged}
           /\ RowsOf(spend, "physical_post_started", Seals) = {i \in {1}: i <= Charged}
           /\ RowsOf(spend, "physical_post_completed", {root}) = {i \in {2}: i <= Charged}
<1> USE EvidenceTypes
<1>1. /\ \A i \in 1..Filed: i \in {1, 2, 3}
      /\ \A i \in 1..Charged: i \in {1, 2}
      /\ 1 \in 1..Filed <=> 1 <= Filed
      /\ 2 \in 1..Filed <=> 2 <= Filed
      /\ 3 \in 1..Filed <=> 3 <= Filed
      /\ 1 \in 1..Charged <=> 1 <= Charged
      /\ 2 \in 1..Charged <=> 2 <= Charged
  BY DEF Evidence, Written
<1>2. /\ NetworkEvents[1] = "credential_read_intent"
      /\ NetworkEvents[2] = "attempt_intent"
      /\ NetworkEvents[3] = "request_terminal"
      /\ SpendEvents[1] = "physical_post_started"
      /\ SpendEvents[2] = "physical_post_completed"
  BY DEF NetworkEvents, SpendEvents
<1>3. /\ \A i \in 1..Filed: /\ network.rows[i].event = NetworkEvents[i]
                            /\ network.rows[i].attempt = root
      /\ \A i \in 1..Charged: /\ spend.rows[i].event = SpendEvents[i]
                              /\ spend.rows[i].attempt = root
  BY DEF Evidence, Written
<1>4. /\ \A e, a: RowsOf(network, e, a) =
            {i \in 1..Filed: network.rows[i].event = e /\ network.rows[i].attempt \in a}
      /\ \A e, a: RowsOf(spend, e, a) =
            {i \in 1..Charged: spend.rows[i].event = e /\ spend.rows[i].attempt \in a}
  BY DEF RowsOf, Filed, Charged
<1>5. /\ \A e: RowsOf(network, e, {root}) = {i \in 1..Filed: NetworkEvents[i] = e}
      /\ \A e: RowsOf(network, e, Seals) = {i \in 1..Filed: NetworkEvents[i] = e}
      /\ \A e: RowsOf(spend, e, {root}) = {i \in 1..Charged: SpendEvents[i] = e}
      /\ \A e: RowsOf(spend, e, Seals) = {i \in 1..Charged: SpendEvents[i] = e}
  <2>1. /\ \A i \in 1..Filed: network.rows[i].attempt \in Seals
        /\ \A i \in 1..Charged: spend.rows[i].attempt \in Seals
    OBVIOUS
  <2>2. ASSUME NEW e
        PROVE  /\ RowsOf(network, e, {root}) = {i \in 1..Filed: NetworkEvents[i] = e}
               /\ RowsOf(network, e, Seals) = {i \in 1..Filed: NetworkEvents[i] = e}
    <3>1. /\ RowsOf(network, e, {root}) =
               {i \in 1..Filed: network.rows[i].event = e /\ network.rows[i].attempt \in {root}}
          /\ RowsOf(network, e, Seals) =
               {i \in 1..Filed: network.rows[i].event = e /\ network.rows[i].attempt \in Seals}
      BY <1>4
    <3> HIDE DEF NetworkEvents, Filed
    <3>2. QED BY <1>3, <2>1, <3>1
  <2>3. ASSUME NEW e
        PROVE  /\ RowsOf(spend, e, {root}) = {i \in 1..Charged: SpendEvents[i] = e}
               /\ RowsOf(spend, e, Seals) = {i \in 1..Charged: SpendEvents[i] = e}
    <3>1. /\ RowsOf(spend, e, {root}) =
               {i \in 1..Charged: spend.rows[i].event = e /\ spend.rows[i].attempt \in {root}}
          /\ RowsOf(spend, e, Seals) =
               {i \in 1..Charged: spend.rows[i].event = e /\ spend.rows[i].attempt \in Seals}
      BY <1>4
    <3> HIDE DEF SpendEvents, Charged
    <3>2. QED BY <1>3, <2>1, <3>1
  <2>4. QED BY <2>2, <2>3
<1> HIDE DEF NetworkEvents, SpendEvents, RowsOf, Filed, Charged
<1>6. /\ {i \in 1..Filed: NetworkEvents[i] = "credential_read_intent"} = {i \in {1}: i <= Filed}
      /\ {i \in 1..Filed: NetworkEvents[i] = "attempt_intent"} = {i \in {2}: i <= Filed}
      /\ {i \in 1..Filed: NetworkEvents[i] = "request_terminal"} = {i \in {3}: i <= Filed}
      /\ {i \in 1..Charged: SpendEvents[i] = "physical_post_started"} = {i \in {1}: i <= Charged}
      /\ {i \in 1..Charged: SpendEvents[i] = "physical_post_completed"} = {i \in {2}: i <= Charged}
  BY <1>1, <1>2
<1>7. QED BY <1>5, <1>6

LEMMA HasMeans ==
    ASSUME Inv, Evidence
    PROVE  /\ Has(network, "credential_read_intent", root) <=> Filed >= 1
           /\ Has(network, "attempt_intent", root) <=> Filed >= 2
           /\ Has(network, "request_terminal", root) <=> Filed >= 3
           /\ Has(spend, "physical_post_started", root) <=> Charged >= 1
           /\ Has(spend, "physical_post_completed", root) <=> Charged >= 2
           /\ BudgetLeft => Filed = 0
<1>1. Filed \in Nat /\ Charged \in Nat
  BY EvidenceTypes
<1>2. QED BY <1>1, RowsAre DEF Has, BudgetLeft

\* All reservations are one, and so are all receipts.
LEMMA OneOfEach ==
    ASSUME Inv, Evidence
    PROVE  /\ \A r, q \in reservations: r = q
           /\ \A r, q \in receipts: r = q
           /\ \A r \in reservations: ReservationsOf(root) = {r}
           /\ \A r \in receipts: /\ ReceiptsOf(root) = {r} /\ TheReceipt(root) = r
                                 /\ r.records = answer
                                 /\ AcceptancesOf(r.reservation) = acceptances
           /\ receipts # {} => Recoverable(root)
<1>1. \A r, q \in reservations: r = q
  <2>1. reservations \subseteq Reservation
    BY DEF Inv, TypeInv, TypeOK
  <2>2. \A r, q \in Reservation: r.attempt = q.attempt /\ r.fence = q.fence => r = q
    BY DEF Reservation
  <2>3. QED BY <2>1, <2>2 DEF Evidence, Chained
<1>2. /\ \A r, q \in receipts: r = q
      /\ \A r \in receipts: r.records = answer
  BY DEF Inv, Told
<1>3. ReservationsOf(root) = reservations /\ ReceiptsOf(root) = receipts
  BY DEF Evidence, Chained, ReservationsOf, ReceiptsOf
<1>4. \A r \in reservations: ReservationsOf(root) = {r}
  BY <1>1, <1>3
<1>5. \A r \in receipts: ReceiptsOf(root) = {r}
  BY <1>2, <1>3
<1>6. \A r \in receipts: TheReceipt(root) = r
  BY <1>5 DEF TheReceipt
<1>7. \A r \in receipts: AcceptancesOf(r.reservation) = acceptances
  BY <1>2 DEF Evidence, Chained, AcceptancesOf
<1>8. ASSUME NEW r \in receipts PROVE Recoverable(root)
  <2>1. r.reservation \in reservations
    BY DEF Evidence, Chained
  <2>2. ReservationsOf(root) = {r.reservation} /\ ReceiptsOf(root) = {r}
    BY <2>1, <1>4, <1>5
  <2>3. Cardinality({r.reservation}) = 1 /\ Cardinality({r}) = 1
    BY FS_Singleton
  <2>4. QED BY <2>2, <2>3 DEF Recoverable
<1>9. QED BY <1>1, <1>2, <1>4, <1>5, <1>6, <1>7, <1>8

-----------------------------------------------------------------------------
(* The statements that write no row                                        *)

\* What a statement of the protocol finds and leaves.
Moves(p, at, to) ==
    /\ pc[p] = at /\ pc'[p] = to /\ seal'[p] = seal[p] /\ seal[p] = root
    /\ root' = root /\ fence' = fence /\ changes' = changes /\ intact' = intact
    /\ Mine(p)' = Mine(p) /\ Stands(p)

LEMMA FromMoves ==
    ASSUME Inv, Evidence, NEW p \in Procs, NEW at \in Inside, NEW to \in Inside,
           From(p, at, to)
    PROVE  Moves(p, at, to) /\ \A q \in Procs: q # p => pc'[q] \notin Inside
<1>1. pc[p] = at /\ pc'[p] = to /\ seal' = seal
      /\ \A q \in Procs: q # p => pc'[q] \notin Inside
  BY FromOwned
<1>2. /\ root' = root /\ fence' = fence /\ changes' = changes /\ intact' = intact
  BY DEF From, lease
<1>3. Stands(p) /\ seal[p] = root
  BY <1>1 DEF Evidence, Stands
<1>4. QED BY <1>1, <1>2, <1>3 DEF Mine, Moves

LEMMA AttemptQuietEvidence ==
    ASSUME Inv, Evidence, NEW p \in Procs,
           \/ BeginAttempt(p) \/ PreflightTLS(p) \/ ReadCredential(p)
           \/ Post(p) \/ PostWithoutAnswer(p) \/ BeginRecovery(p)
    PROVE  Evidence'
<1> USE DEF Inside, PCs, AtWork
<1>1. UNCHANGED <<journals, published, cache>>
  BY DEF BeginAttempt, PreflightTLS, ReadCredential, Post, PostWithoutAnswer, BeginRecovery
<1>2. /\ Synced' = Synced /\ Filed' = Filed /\ Charged' = Charged /\ network' = network
      /\ reservations' = reservations /\ receipts' = receipts /\ acceptances' = acceptances
      /\ cache' = cache
  BY <1>1 DEF Synced, Filed, Charged, journals, published
<1>3. CASE BeginAttempt(p)
  <2>1. From(p, "opened", "tls") /\ Synced /\ BudgetLeft /\ answer' = answer
    BY <1>3 DEF BeginAttempt, ghosts
  <2>2. Moves(p, "opened", "tls")
    BY <2>1, FromMoves
  <2>3. Filed = 0
    BY <2>1, HasMeans
  <2>4. Stands(p)'
    BY <1>2, <2>1, <2>2, <2>3 DEF Moves, Stands
  <2>5. QED BY <1>1, <2>1, <2>3, <2>4, QuietEvidence
<1>4. CASE PreflightTLS(p)
  <2>1. From(p, "tls", "credential_intent") /\ answer' = answer
    BY <1>4 DEF PreflightTLS, ghosts
  <2>2. Moves(p, "tls", "credential_intent")
    BY <2>1, FromMoves
  <2>3. Stands(p)'
    BY <1>2, <2>1, <2>2 DEF Moves, Stands
  <2>4. QED BY <1>1, <2>1, <2>3, QuietEvidence
<1>5. CASE ReadCredential(p)
  <2>1. From(p, "credential", "reserve") /\ answer' = answer
    BY <1>5 DEF ReadCredential, ghosts
  <2>2. Moves(p, "credential", "reserve")
    BY <2>1, FromMoves
  <2>3. Stands(p)'
    BY <1>2, <2>1, <2>2 DEF Moves, Stands
  <2>4. QED BY <1>1, <2>1, <2>3, QuietEvidence
<1>6. CASE Post(p)
  <2>1. From(p, "transport", "receipt")
    BY <1>6 DEF Post, ghosts
  <2>2. Moves(p, "transport", "receipt")
    BY <2>1, FromMoves
  <2>3. receipts = {}
    BY <2>1, <2>2 DEF Inv, Spent, Told, Moves, Unposted
  <2>4. Stands(p)'
    BY <1>2, <2>1, <2>2, <2>3 DEF Moves, Stands
  <2>5. QED BY <1>1, <2>1, <2>3, <2>4, QuietEvidence
<1>7. CASE PostWithoutAnswer(p)
  <2>1. From(p, "transport", "raised") /\ answer' = answer
    BY <1>7 DEF PostWithoutAnswer, ghosts
  <2>2. Moves(p, "transport", "raised")
    BY <2>1, FromMoves
  <2>3. Stands(p)'
    BY <1>2, <2>1, <2>2 DEF Moves, Stands
  <2>4. QED BY <1>1, <2>1, <2>3, QuietEvidence
<1>8. CASE BeginRecovery(p)
  <2>1. From(p, "opened", "recover_cache") /\ Synced /\ answer' = answer
    BY <1>8 DEF BeginRecovery, ghosts
  <2>2. Moves(p, "opened", "recover_cache")
    BY <2>1, FromMoves
  <2>3. Stands(p)'
    BY <1>2, <2>1, <2>2 DEF Moves, Stands
  <2>4. QED BY <1>1, <2>1, <2>3, QuietEvidence
<1>9. QED BY <1>3, <1>4, <1>5, <1>6, <1>7, <1>8

-----------------------------------------------------------------------------
(* The statements that write a row                                         *)

\* The journal that grows keeps its rows, and the last one is RowBy(p).
Longer(p) ==
    /\ pc[p] \in {"start", "complete"} =>
         /\ network' = network /\ Filed' = Filed
         /\ Charged' = Charged + 1
         /\ \A i \in 1..Charged: spend'.rows[i] = spend.rows[i]
         /\ spend'.rows[Charged + 1] = RowBy(p)
    /\ pc[p] \notin {"start", "complete"} =>
         /\ spend' = spend /\ Charged' = Charged
         /\ Filed' = Filed + 1
         /\ \A i \in 1..Filed: network'.rows[i] = network.rows[i]
         /\ network'.rows[Filed + 1] = RowBy(p)
    /\ RowBy(p).event = EventAt[pc[p]] /\ RowBy(p).attempt = seal[p]
    /\ RowBy(p).fence = fence
    /\ pc[p] \in {"complete", "terminal"} => RowBy(p).stamp = cache.stamp

LEMMA AppendMakesLonger ==
    ASSUME Inv, NEW p \in Procs, pc[p] \in DOMAIN EventAt,
           NEW b \in BOOLEAN, AppendRow(p, b)
    PROVE  Longer(p)
<1>1. network.rows \in Seq(Row) /\ spend.rows \in Seq(Row) /\ RowBy(p) \in Row
  BY EvidenceTypes, RowType DEF Inv
<1>2. CASE pc[p] \in {"start", "complete"}
  <2>1. network' = network /\ spend' = [rows |-> Append(spend.rows, RowBy(p)), synced |-> b]
    BY <1>2 DEF AppendRow
  <2>2. spend'.rows = Append(spend.rows, RowBy(p)) /\ b => spend'.synced
    BY <2>1
  <2>3. QED BY <1>1, <1>2, <2>1, <2>2 DEF Filed, Charged, RowBy, Longer
<1>3. CASE pc[p] \notin {"start", "complete"}
  <2>1. spend' = spend /\ network' = [rows |-> Append(network.rows, RowBy(p)), synced |-> b]
    BY <1>3 DEF AppendRow
  <2>2. network'.rows = Append(network.rows, RowBy(p)) /\ b => network'.synced
    BY <2>1
  <2>3. QED BY <1>1, <1>3, <2>1, <2>2 DEF Filed, Charged, RowBy, Longer
<1>4. QED BY <1>2, <1>3

LEMMA AppendSyncs ==
    ASSUME NEW p \in Procs, AppendRow(p, TRUE), Synced PROVE Synced'
BY DEF AppendRow, Synced

\* Where a process appends, and which row of its journal that is.
LEMMA RowPlace ==
    ASSUME Inv, Evidence, NEW p \in Procs, pc[p] \in DOMAIN EventAt,
           pc[p] = "complete" => Charged < 2, pc[p] = "terminal" => Filed < 3
    PROVE  /\ pc[p] \in Inside /\ seal[p] = root
           /\ pc[p] = "credential_intent" =>
                 Filed = 0 /\ Charged = 0 /\ EventAt[pc[p]] = NetworkEvents[1]
           /\ pc[p] = "intent" =>
                 /\ Filed = 1 /\ Charged = 0 /\ EventAt[pc[p]] = NetworkEvents[2]
                 /\ network.rows[1].fence = fence /\ reservations # {}
           /\ pc[p] = "start" =>
                 /\ Filed = 2 /\ Charged = 0 /\ EventAt[pc[p]] = SpendEvents[1]
                 /\ network.rows[1].fence = fence
           /\ pc[p] = "complete" =>
                 /\ Filed = 2 /\ Charged = 1 /\ EventAt[pc[p]] = SpendEvents[2]
                 /\ acceptances # {}
           /\ pc[p] = "terminal" =>
                 /\ Filed = 2 /\ Charged = 2 /\ EventAt[pc[p]] = NetworkEvents[3]
<1>1. pc[p] \in {"credential_intent", "intent", "start", "complete", "terminal"}
  BY EventAtFacts
<1>2. /\ EventAt["credential_intent"] = NetworkEvents[1]
      /\ EventAt["intent"] = NetworkEvents[2]
      /\ EventAt["start"] = SpendEvents[1]
      /\ EventAt["complete"] = SpendEvents[2]
      /\ EventAt["terminal"] = NetworkEvents[3]
  BY DEF EventAt, NetworkEvents, SpendEvents
<1>3. pc[p] \in Inside /\ seal[p] = root /\ Stands(p)
  BY <1>1 DEF Inside, PCs, Evidence, Stands
<1>4. Filed \in Nat /\ Charged \in Nat /\ Filed <= 3 /\ Charged <= 2
  BY EvidenceTypes DEF Evidence, Written
<1>5. /\ Charged >= 1 => Filed >= 2
      /\ Filed = 3 => Charged = 2
      /\ acceptances # {} => Charged >= 1
      /\ \A r \in reservations: r.fence = network.rows[1].fence
  BY DEF Evidence, Chained
<1>6. pc[p] = "start" => network.rows[1].fence = fence
  BY <1>3, <1>5 DEF Stands, Mine
<1>7. QED BY <1>1, <1>2, <1>3, <1>4, <1>5, <1>6 DEF Stands

LEMMA RowEvidence ==
    ASSUME Inv, Evidence, NEW p \in Procs, pc[p] \in DOMAIN EventAt,
           NEW b \in BOOLEAN, AppendRow(p, b),
           pc[p] = "complete" => Charged < 2, pc[p] = "terminal" => Filed < 3,
           UNCHANGED <<published, cache, answer, root, fence, changes, intact>>
    PROVE  Written' /\ Chained' /\ Sound'
<1>1. Longer(p)
  BY AppendMakesLonger
<1>2. pc[p] \in {"credential_intent", "intent", "start", "complete", "terminal"}
  BY EventAtFacts
<1>3. /\ Filed \in Nat /\ Charged \in Nat /\ fence \in Nat
      /\ \A i \in 1..Filed: network.rows[i].fence \in Nat
  BY EvidenceTypes
<1>4. reservations' = reservations /\ receipts' = receipts /\ acceptances' = acceptances
  BY DEF published
<1>5. CASE pc[p] = "credential_intent"
  <2>1. /\ Filed = 0 /\ Charged = 0 /\ Filed' = 1 /\ Charged' = 0 /\ spend' = spend
        /\ network'.rows[1].event = NetworkEvents[1]
        /\ network'.rows[1].attempt = root /\ network'.rows[1].fence = fence
    BY <1>5, RowPlace, <1>1 DEF Longer
  <2>2. Written'
    BY <1>3, <2>1 DEF Written
  <2>3. Chained' /\ Sound'
    BY <1>4, <2>1 DEF Evidence, Chained, Sound
  <2>4. QED BY <2>2, <2>3
<1>6. CASE pc[p] = "intent"
  <2>1. /\ Filed = 1 /\ Charged = 0 /\ Filed' = 2 /\ Charged' = 0 /\ spend' = spend
        /\ network'.rows[1] = network.rows[1] /\ network.rows[1].fence = fence
        /\ network'.rows[2].event = NetworkEvents[2]
        /\ network'.rows[2].attempt = root /\ network'.rows[2].fence = fence
        /\ reservations # {}
    BY <1>6, RowPlace, <1>1 DEF Longer
  <2>2. Written'
    BY <1>3, <2>1 DEF Evidence, Written
  <2>3. Chained' /\ Sound'
    BY <1>4, <2>1 DEF Evidence, Chained, Sound
  <2>4. QED BY <2>2, <2>3
<1>7. CASE pc[p] = "start"
  <2>1. /\ Filed = 2 /\ Charged = 0 /\ Filed' = 2 /\ Charged' = 1 /\ network' = network
        /\ network.rows[1].fence = fence
        /\ spend'.rows[1].event = SpendEvents[1]
        /\ spend'.rows[1].attempt = root /\ spend'.rows[1].fence = fence
    BY <1>7, RowPlace, <1>1 DEF Longer
  <2>2. Written'
    BY <1>3, <2>1 DEF Evidence, Written
  <2>3. Chained' /\ Sound'
    BY <1>4, <2>1 DEF Evidence, Chained, Sound
  <2>4. QED BY <2>2, <2>3
<1>8. CASE pc[p] = "complete"
  <2>1. /\ Filed = 2 /\ Charged = 1 /\ Filed' = 2 /\ Charged' = 2 /\ network' = network
        /\ spend'.rows[1] = spend.rows[1] /\ acceptances # {}
        /\ spend'.rows[2].event = SpendEvents[2]
        /\ spend'.rows[2].attempt = root /\ spend'.rows[2].stamp = cache.stamp
    BY <1>8, RowPlace, <1>1 DEF Longer
  <2>2. Written'
    BY <1>3, <2>1 DEF Evidence, Written
  <2>3. Chained' /\ Sound'
    BY <1>4, <2>1 DEF Evidence, Chained, Sound
  <2>4. QED BY <2>2, <2>3
<1>9. CASE pc[p] = "terminal"
  <2>1. /\ Filed = 2 /\ Charged = 2 /\ Filed' = 3 /\ Charged' = 2 /\ spend' = spend
        /\ network'.rows[1] = network.rows[1] /\ network'.rows[2] = network.rows[2]
        /\ network'.rows[3].event = NetworkEvents[3] /\ network'.rows[3].stamp = cache.stamp
        /\ network'.rows[3].attempt = root /\ network'.rows[3].fence = fence
    BY <1>9, RowPlace, <1>1 DEF Longer
  <2>2. Written'
    BY <1>3, <2>1 DEF Evidence, Written
  <2>3. Chained' /\ Sound'
    BY <1>4, <2>1 DEF Evidence, Chained, Sound
  <2>4. QED BY <2>2, <2>3
<1>10. QED BY <1>2, <1>5, <1>6, <1>7, <1>8, <1>9

\* What such a statement has done when it goes on.
LEMMA Logged ==
    ASSUME Inv, Evidence, NEW p \in Procs, NEW to \in Inside, From(p, pc[p], to),
           pc[p] \in DOMAIN EventAt, AppendRow(p, TRUE),
           pc[p] = "complete" => Charged < 2, pc[p] = "terminal" => Filed < 3,
           UNCHANGED <<published, cache, answer>>
    PROVE  Longer(p) /\ Synced' /\ Written' /\ Chained' /\ Sound'
<1>1. pc[p] \in AtWork
  BY EventAtFacts DEF AtWork, Inside, PCs
<1>2. pc[p] \in Inside /\ Moves(p, pc[p], to)
  BY <1>1, FromMoves DEF AtWork
<1>3. Synced
  BY <1>1, <1>2 DEF Moves, Stands
<1>4. Longer(p) /\ Synced'
  BY <1>3, AppendMakesLonger, AppendSyncs
<1>5. UNCHANGED <<published, cache, answer, root, fence, changes, intact>>
  BY <1>2 DEF Moves
<1>6. Written' /\ Chained' /\ Sound'
  BY <1>5, RowEvidence
<1>7. QED BY <1>4, <1>6

\* A statement that appends its row, or finds it there.
LEMMA LogEvidence ==
    ASSUME Inv, Evidence, NEW p \in Procs,
           \/ LogCredentialIntent(p) \/ LogIntent(p) \/ LogStart(p)
           \/ Complete(p) \/ Terminate(p)
    PROVE  Evidence'
<1> USE DEF Inside, PCs, AtWork
<1>1. /\ UNCHANGED <<published, cache, answer>>
      /\ reservations' = reservations /\ receipts' = receipts /\ acceptances' = acceptances
  BY DEF LogCredentialIntent, LogIntent, LogStart, Complete, Terminate, ghosts, published
<1>2. DOMAIN EventAt = {"credential_intent", "intent", "start", "complete", "terminal"}
  BY EventAtFacts
<1>3. Filed \in Nat /\ Charged \in Nat /\ Filed <= 3 /\ Charged <= 2
  BY EvidenceTypes DEF Evidence, Written
<1>4. CASE LogCredentialIntent(p)
  <2>1. From(p, "credential_intent", "credential") /\ AppendRow(p, TRUE) /\ pc[p] = "credential_intent"
    BY <1>4 DEF LogCredentialIntent, From
  <2>2. /\ Moves(p, "credential_intent", "credential")
        /\ \A q \in Procs: q # p => pc'[q] \notin Inside
    BY <2>1, FromMoves
  <2>3. Longer(p) /\ Synced' /\ Written' /\ Chained' /\ Sound'
    BY <1>1, <1>2, <2>1, Logged
  <2>4. Filed = 0 /\ Filed' = 1 /\ network'.rows[1].fence = fence
    BY <1>2, <2>1, <2>3, RowPlace DEF Longer
  <2>5. reservations = {}
    BY <2>4 DEF Evidence, Chained
  <2>6. Stands(p)'
    BY <1>1, <2>2, <2>3, <2>4, <2>5 DEF Moves, Stands
  <2>7. QED BY <2>2, <2>3, <2>6, EvidenceKept
<1>5. CASE LogIntent(p)
  <2>1. From(p, "intent", "start") /\ AppendRow(p, TRUE) /\ pc[p] = "intent"
    BY <1>5 DEF LogIntent, From
  <2>2. /\ Moves(p, "intent", "start")
        /\ \A q \in Procs: q # p => pc'[q] \notin Inside
    BY <2>1, FromMoves
  <2>3. Longer(p) /\ Synced' /\ Written' /\ Chained' /\ Sound'
    BY <1>1, <1>2, <2>1, Logged
  <2>4. Filed' = 2 /\ Charged' = 0
    BY <1>2, <2>1, <2>3, RowPlace DEF Longer
  <2>5. Stands(p)'
    BY <1>1, <2>2, <2>3, <2>4 DEF Moves, Stands
  <2>6. QED BY <2>2, <2>3, <2>5, EvidenceKept
<1>6. CASE LogStart(p)
  <2>1. From(p, "start", "transport") /\ AppendRow(p, TRUE) /\ pc[p] = "start"
    BY <1>6 DEF LogStart, From
  <2>2. /\ Moves(p, "start", "transport")
        /\ \A q \in Procs: q # p => pc'[q] \notin Inside
    BY <2>1, FromMoves
  <2>3. Longer(p) /\ Synced' /\ Written' /\ Chained' /\ Sound'
    BY <1>1, <1>2, <2>1, Logged
  <2>4. Filed' = 2 /\ Charged = 0 /\ Charged' = 1
    BY <1>2, <2>1, <2>3, RowPlace DEF Longer
  <2>5. acceptances = {}
    BY <1>3, <2>4 DEF Evidence, Chained
  <2>6. Stands(p)'
    BY <1>1, <2>2, <2>3, <2>4, <2>5 DEF Moves, Stands
  <2>7. QED BY <2>2, <2>3, <2>6, EvidenceKept
<1>7. CASE Complete(p)
  <2>1. From(p, "complete", "terminal") /\ pc[p] = "complete"
    BY <1>7 DEF Complete, From
  <2>2. /\ Moves(p, "complete", "terminal")
        /\ \A q \in Procs: q # p => pc'[q] \notin Inside
    BY <2>1, FromMoves
  <2>3. seal[p] = root /\ (Has(spend, "physical_post_completed", root) <=> Charged = 2)
    BY <1>3, <2>2, HasMeans DEF Moves
  <2>4. CASE Charged = 2
    <3>1. UNCHANGED journals
      BY <1>7, <2>3, <2>4 DEF Complete
    <3>2. Synced' = Synced /\ Filed' = Filed /\ Charged' = Charged
      BY <3>1 DEF Synced, Filed, Charged, journals
    <3>3. Stands(p)'
      BY <1>1, <2>2, <2>4, <3>2 DEF Moves, Stands
    <3>4. QED BY <1>1, <2>1, <3>1, <3>3, QuietEvidence
  <2>5. CASE Charged # 2
    <3>1. ~Has(spend, "physical_post_completed", seal[p]) /\ Charged < 2
      BY <1>3, <2>3, <2>5
    <3>2. AppendRow(p, TRUE)
      BY <1>7, <3>1, Zenon DEF Complete
    <3>3. Longer(p) /\ Synced' /\ Written' /\ Chained' /\ Sound'
      BY <1>1, <1>2, <2>1, <3>1, <3>2, Logged
    <3>4. Charged' = 2 /\ Charged' = 2
      BY <1>2, <2>1, <3>1, <3>3, RowPlace DEF Longer
    <3>5. Stands(p)'
      BY <1>1, <2>2, <3>3, <3>4 DEF Moves, Stands
    <3>6. QED BY <2>2, <3>3, <3>5, EvidenceKept
  <2>6. QED BY <2>4, <2>5
<1>8. CASE Terminate(p)
  <2>1. From(p, "terminal", "load") /\ pc[p] = "terminal"
    BY <1>8 DEF Terminate, From
  <2>2. /\ Moves(p, "terminal", "load")
        /\ \A q \in Procs: q # p => pc'[q] \notin Inside
    BY <2>1, FromMoves
  <2>3. seal[p] = root /\ (Has(network, "request_terminal", root) <=> Filed = 3)
    BY <1>3, <2>2, HasMeans DEF Moves
  <2>4. CASE Filed = 3
    <3>1. UNCHANGED journals
      BY <1>8, <2>3, <2>4 DEF Terminate
    <3>2. Synced' = Synced /\ Filed' = Filed /\ Charged' = Charged
      BY <3>1 DEF Synced, Filed, Charged, journals
    <3>3. Stands(p)'
      BY <1>1, <2>2, <2>4, <3>2 DEF Moves, Stands
    <3>4. QED BY <1>1, <2>1, <3>1, <3>3, QuietEvidence
  <2>5. CASE Filed # 3
    <3>1. ~Has(network, "request_terminal", seal[p]) /\ Filed < 3
      BY <1>3, <2>3, <2>5
    <3>2. AppendRow(p, TRUE)
      BY <1>8, <3>1, Zenon DEF Terminate
    <3>3. Longer(p) /\ Synced' /\ Written' /\ Chained' /\ Sound'
      BY <1>1, <1>2, <2>1, <3>1, <3>2, Logged
    <3>4. Filed' = 3 /\ Charged' = 2
      BY <1>2, <2>1, <3>1, <3>3, RowPlace DEF Longer
    <3>5. Stands(p)'
      BY <1>1, <2>2, <3>3, <3>4 DEF Moves, Stands
    <3>6. QED BY <2>2, <3>3, <3>5, EvidenceKept
  <2>6. QED BY <2>4, <2>5
<1>9. QED BY <1>4, <1>5, <1>6, <1>7, <1>8

\* The row is written and its checkpoint is not: the process is gone.
LEMMA CrashInAppendEvidence ==
    ASSUME Inv, Evidence, NEW p \in Procs, CrashInAppend(p)
    PROVE  Evidence'
<1>1. /\ pc[p] \in DOMAIN EventAt /\ AppendRow(p, FALSE)
      /\ UNCHANGED <<published, cache, answer, root, fence, changes, intact>>
  BY DEF CrashInAppend, Lease!Drop, ghosts
<1>2. pc[p] \in Inside /\ seal[p] = root
  BY <1>1, EventAtFacts DEF Inside, PCs, Evidence, Stands
<1>3. /\ EventAt["complete"] = "physical_post_completed"
      /\ EventAt["terminal"] = "request_terminal"
  BY DEF EventAt
<1>4. pc[p] = "complete" => Charged < 2
  <2>1. ~Has(spend, EventAt[pc[p]], root)
    BY <1>2 DEF CrashInAppend
  <2>2. QED BY <1>3, <2>1, HasMeans, EvidenceTypes
<1>5. pc[p] = "terminal" => Filed < 3
  <2>1. ~Has(network, EventAt[pc[p]], root)
    BY <1>2 DEF CrashInAppend
  <2>2. QED BY <1>3, <2>1, HasMeans, EvidenceTypes
<1>6. Written' /\ Chained' /\ Sound'
  BY <1>1, <1>4, <1>5, RowEvidence
<1>7. /\ pc' = [pc EXCEPT ![p] = "idle"] /\ "idle" \notin Inside
      /\ \A q \in Procs: q # p => pc[q] \notin Inside
  BY <1>2, Alone DEF CrashInAppend, Goto, Inside, Inv
<1>8. \A q \in Procs: pc'[q] \notin Inside
  BY <1>7 DEF Inv, TypeInv, TypeOK
<1>9. QED BY <1>6, <1>8, StandsOutside DEF Evidence
-----------------------------------------------------------------------------
(* The statements that publish                                             *)

LEMMA PublishEvidence ==
    ASSUME Inv, Evidence, NEW p \in Procs,
           \/ Reserve(p) \/ PublishReceipt(p) \/ PublishCache(p) \/ Accept(p)
           \/ RecoverCache(p) \/ RecoverAcceptance(p)
    PROVE  Evidence'
<1> USE DEF Inside, PCs, AtWork
<1>1. UNCHANGED journals /\ answer' = answer
  BY DEF Reserve, PublishReceipt, PublishCache, Accept, RecoverCache,
         RecoverAcceptance, ghosts
<1>2. /\ network' = network /\ spend' = spend /\ Filed' = Filed /\ Charged' = Charged
      /\ Synced' = Synced
  BY <1>1 DEF journals, Filed, Charged, Synced
<1>3. /\ Filed \in Nat /\ Charged \in Nat /\ Filed <= 3 /\ Charged <= 2
      /\ fence \in Nat
  BY EvidenceTypes DEF Evidence, Written
<1>4. ASSUME UNCHANGED <<root, fence>> PROVE Written'
  BY <1>2, <1>4 DEF Evidence, Written
<1>5. CASE Reserve(p)
  <2>1. /\ From(p, "reserve", "intent")
        /\ reservations' = reservations \cup {Mine(p)}
        /\ UNCHANGED <<receipts, acceptances, cache, got>>
    BY <1>5 DEF Reserve, Mine
  <2>2. /\ Moves(p, "reserve", "intent")
        /\ \A q \in Procs: q # p => pc'[q] \notin Inside
    BY <2>1, FromMoves
  <2>3. /\ Filed = 1 /\ network.rows[1].fence = fence /\ reservations = {}
        /\ Mine(p).attempt = root /\ Mine(p).fence = fence
    BY <2>2 DEF Moves, Stands, Mine
  <2>4. Written' /\ Chained'
    BY <1>2, <1>3, <1>4, <2>1, <2>2, <2>3 DEF Moves, Evidence, Chained
  <2>5. Sound'
    BY <1>1, <1>2, <2>1, <2>2 DEF Moves, Evidence, Sound
  <2>6. Stands(p)'
    BY <1>2, <2>1, <2>2 DEF Moves, Stands
  <2>7. QED BY <2>2, <2>4, <2>5, <2>6, EvidenceKept
<1>6. CASE PublishReceipt(p)
  <2> DEFINE new == [reservation |-> Mine(p), records |-> got[p]]
  <2>1. /\ From(p, "receipt", "cache")
        /\ receipts' = receipts \cup {new}
        /\ UNCHANGED <<reservations, acceptances, cache, got>>
    BY <1>6 DEF PublishReceipt
  <2>2. /\ Moves(p, "receipt", "cache")
        /\ \A q \in Procs: q # p => pc'[q] \notin Inside
    BY <2>1, FromMoves
  <2>3. Charged = 1 /\ Mine(p) \in reservations /\ new.reservation = Mine(p)
    BY <2>2 DEF Moves, Stands
  <2>4. new' = new
    BY <2>1, <2>2 DEF Moves
  <2> HIDE DEF new
  <2>5. Written' /\ Chained'
    BY <1>2, <1>3, <1>4, <2>1, <2>2, <2>3 DEF Moves, Evidence, Chained
  <2>6. Sound'
    BY <1>1, <1>2, <2>1, <2>2 DEF Moves, Evidence, Sound
  <2>7. new' \in receipts'
    BY <2>1, <2>4
  <2>8. Stands(p)'
    BY <1>2, <2>1, <2>2, <2>7 DEF Moves, Stands, new
  <2>9. QED BY <2>2, <2>5, <2>6, <2>8, EvidenceKept
<1>7. CASE PublishCache(p)
  <2>1. /\ From(p, "cache", "acceptance") /\ WriteCache(got[p])
        /\ UNCHANGED <<reservations, receipts, acceptances, got>>
    BY <1>7 DEF PublishCache, published
  <2>2. /\ Moves(p, "cache", "acceptance")
        /\ \A q \in Procs: q # p => pc'[q] \notin Inside
    BY <2>1, FromMoves
  <2>3. /\ Filed = 2 /\ Charged = 1 /\ acceptances = {}
        /\ [reservation |-> Mine(p), records |-> got[p]] \in receipts
        /\ got[p] = answer
    BY <2>2 DEF Moves, Stands, Inv, Told, Answered
  <2>4. cache'.state = "present" /\ cache'.records = answer
    BY <2>1, <2>3 DEF WriteCache
  <2>5. Written' /\ Chained'
    BY <1>2, <1>3, <1>4, <2>1, <2>2 DEF Moves, Evidence, Chained
  <2>6. Sound'
    BY <1>1, <1>2, <2>1, <2>2, <2>3, <2>4 DEF Moves, Evidence, Sound
  <2>7. Stands(p)'
    BY <1>2, <2>1, <2>2, <2>4 DEF Moves, Stands
  <2>8. QED BY <2>2, <2>5, <2>6, <2>7, EvidenceKept
<1>8. CASE Accept(p)
  <2> DEFINE new == [receipt |-> [reservation |-> Mine(p), records |-> got[p]],
                     stamp |-> cache.stamp]
  <2>1. /\ From(p, "acceptance", "complete")
        /\ acceptances' = acceptances \cup {new}
        /\ UNCHANGED <<reservations, receipts, cache, got>>
    BY <1>8 DEF Accept, PublishAcceptance
  <2>2. /\ Moves(p, "acceptance", "complete")
        /\ \A q \in Procs: q # p => pc'[q] \notin Inside
    BY <2>1, FromMoves
  <2>3. /\ Filed = 2 /\ Charged = 1 /\ acceptances = {}
        /\ new.receipt \in receipts /\ new.stamp = cache.stamp
        /\ changes = 0 => cache.state = "present"
    BY <2>2 DEF Moves, Stands
  <2> HIDE DEF new
  <2>4. acceptances' = {new}
    BY <2>1, <2>3
  <2>5. Written' /\ Chained'
    BY <1>2, <1>3, <1>4, <2>1, <2>2, <2>3, <2>4 DEF Moves, Evidence, Chained
  <2>6. Sound'
    BY <1>1, <1>2, <2>1, <2>2, <2>3, <2>4 DEF Moves, Evidence, Sound
  <2>7. Stands(p)'
    BY <1>2, <2>1, <2>2, <2>4 DEF Moves, Stands
  <2>8. QED BY <2>2, <2>5, <2>6, <2>7, EvidenceKept
<1>9. CASE RecoverCache(p)
  <2>1. /\ From(p, "recover_cache", "recover_acceptance")
        /\ UNCHANGED <<reservations, receipts, acceptances>>
        /\ \/ cache.state = "absent" /\ WriteCache(TheReceipt(seal[p]).records)
           \/ /\ cache.state = "present" /\ cache' = cache
    BY <1>9 DEF RecoverCache, published
  <2>2. /\ Moves(p, "recover_cache", "recover_acceptance")
        /\ \A q \in Procs: q # p => pc'[q] \notin Inside
    BY <2>1, FromMoves
  <2>3. receipts # {} /\ seal[p] = root
    BY <2>2 DEF Moves, Inv, Told, Recovering, ReceiptsOf
  <2>4. TheReceipt(seal[p]).records = answer
    BY <2>3, OneOfEach
  <2>5. /\ cache'.state = "present"
        /\ cache' # cache => cache.state = "absent" /\ cache'.records = answer
    BY <2>1, <2>4 DEF WriteCache
  <2>6. Written' /\ Chained'
    BY <1>2, <1>3, <1>4, <2>1, <2>2 DEF Moves, Evidence, Chained
  <2>7. Sound'
    <3>1. CASE cache' = cache
      BY <1>1, <1>2, <2>1, <2>2, <3>1 DEF Moves, Evidence, Sound
    <3>2. CASE cache' # cache
      <4>1. changes = 0 => acceptances = {} /\ Charged < 2 /\ Filed < 3
        BY <1>3, <2>5, <3>2 DEF Evidence, Sound, Chained
      <4>2. QED
        BY <1>1, <1>2, <1>3, <2>1, <2>2, <2>3, <2>5, <3>2, <4>1 DEF Moves, Evidence, Sound
    <3>3. QED BY <3>1, <3>2
  <2>8. Stands(p)'
    BY <1>2, <2>1, <2>2, <2>5 DEF Moves, Stands
  <2>9. QED BY <2>2, <2>6, <2>7, <2>8, EvidenceKept
<1>10. CASE RecoverAcceptance(p)
  <2> DEFINE new == [receipt |-> TheReceipt(seal[p]), stamp |-> cache.stamp]
  <2>1. /\ From(p, "recover_acceptance", "complete")
        /\ UNCHANGED <<reservations, receipts, cache>>
        /\ IF AcceptancesOf(TheReceipt(seal[p]).reservation) = {}
           THEN acceptances' = acceptances \cup {new} ELSE acceptances' = acceptances
    BY <1>10 DEF RecoverAcceptance, PublishAcceptance
  <2>2. reservations' = reservations /\ receipts' = receipts
    BY <2>1
  <2>3. /\ Moves(p, "recover_acceptance", "complete")
        /\ \A q \in Procs: q # p => pc'[q] \notin Inside
    BY <2>1, FromMoves
  <2>4. receipts # {} /\ seal[p] = root /\ (changes = 0 => cache.state = "present")
    BY <2>3 DEF Moves, Stands, Inv, Told, Recovering, ReceiptsOf
  <2>5. /\ TheReceipt(seal[p]) \in receipts
        /\ AcceptancesOf(TheReceipt(seal[p]).reservation) = acceptances
    BY <2>4, OneOfEach
  <2>6. new.receipt \in receipts /\ new.stamp = cache.stamp
    BY <2>5
  <2> HIDE DEF new
  <2>7. \/ acceptances = {} /\ acceptances' = {new}
        \/ acceptances # {} /\ acceptances' = acceptances
    BY <2>1, <2>5
  <2>8. Charged >= 1 /\ (acceptances = {} => Charged = 1 /\ Filed = 2)
    BY <1>3, <2>4 DEF Evidence, Chained
  <2>9. root' = root
    BY <2>3 DEF Moves
  <2>10. Written' /\ Chained'
    <3>1. Written'
      BY <1>4, <2>3 DEF Moves
    <3>2. CASE acceptances = {} /\ acceptances' = {new}
      BY <1>2, <1>3, <2>2, <2>6, <2>8, <2>9, <3>1, <3>2 DEF Evidence, Chained
    <3>3. CASE acceptances # {} /\ acceptances' = acceptances
      BY <1>2, <2>2, <2>9, <3>1, <3>3 DEF Evidence, Chained
    <3>4. QED BY <2>7, <3>1, <3>2, <3>3
  <2>11. Sound'
    BY <1>1, <1>2, <2>1, <2>3, <2>4, <2>6, <2>7, <2>8 DEF Moves, Evidence, Sound
  <2>12. Stands(p)'
    BY <1>2, <2>1, <2>3, <2>7 DEF Moves, Stands
  <2>13. QED BY <2>3, <2>10, <2>11, <2>12, EvidenceKept
<1>11. QED BY <1>5, <1>6, <1>7, <1>8, <1>9, <1>10

-----------------------------------------------------------------------------
(* Refusals, and the load that cannot be refused                           *)

\* Whatever is refused once there is a receipt, is refused for torn journals.
LEMMA RefusedEvidence ==
    ASSUME Inv, Evidence, NEW p \in Procs,
           \/ Ambiguous(p) \/ CacheLost(p) \/ LeaseLost(p)
           \/ RecoveryRefused(p) \/ LoadRefused(p)
    PROVE  Evidence'
<1>1. pc[p] \in Inside /\ Fail(p, "refused")
  BY DEF Ambiguous, CacheLost, LeaseLost, RecoveryRefused, LoadRefused, Inside, PCs
<1>2. Stands(p) /\ seal[p] = root /\ owner = p
  BY <1>1 DEF Evidence, Stands, Inv, Owned
<1>3. /\ Filed \in Nat /\ Charged \in Nat /\ Filed <= 3 /\ Charged <= 2
  BY EvidenceTypes DEF Evidence, Written
<1> SUFFICES ASSUME changes = 0, receipts # {} PROVE ~Synced
  BY <1>1, FailEvidence
<1>4. Charged >= 1 /\ Filed >= 2
  BY <1>3 DEF Evidence, Chained
<1>5. intact /\ cache.state # "corrupt"
      /\ (cache.state = "present" => cache.records = answer)
  BY DEF Evidence, Sound
<1>6. CASE Ambiguous(p)
  BY <1>2, <1>4, <1>6, HasMeans, OneOfEach DEF Ambiguous
<1>7. CASE CacheLost(p)
  BY <1>2, <1>7 DEF CacheLost, Stands
<1>8. CASE LeaseLost(p)
  BY <1>2, <1>5, <1>8 DEF LeaseLost, Passes
<1>9. CASE RecoveryRefused(p)
  <2>1. /\ TheReceipt(seal[p]).records = answer
        /\ AcceptancesOf(TheReceipt(seal[p]).reservation) = acceptances
    BY <1>2, OneOfEach
  <2>2. Cardinality(acceptances) \in {0, 1}
    <3>1. CASE acceptances = {}
      BY <3>1, FS_EmptySet
    <3>2. ASSUME NEW a \in acceptances PROVE Cardinality(acceptances) = 1
      <4>1. acceptances = {a}
        BY DEF Evidence, Chained
      <4>2. Cardinality({a}) = 1
        BY FS_Singleton
      <4>3. QED BY <4>1, <4>2
    <3>3. QED BY <3>1, <3>2
  <2>3. Has(spend, "physical_post_started", seal[p])
    BY <1>2, <1>4, HasMeans
  <2>4. QED BY <1>5, <1>9, <2>1, <2>2, <2>3 DEF RecoveryRefused
<1>10. CASE LoadRefused(p)
  <2>1. /\ Filed = 3 /\ Charged = 2 /\ acceptances # {} /\ Synced
    BY <1>2, <1>10 DEF LoadRefused, Stands, AtWork, Inside, PCs
  <2> DEFINE a == AcceptanceOf(root)
  <2>2. /\ a \in acceptances
    <3>1. \A b \in acceptances: b.receipt.reservation.attempt = root
      BY DEF Evidence, Chained
    <3>2. QED BY <2>1, <3>1 DEF AcceptanceOf
  <2>3. /\ a.receipt \in receipts /\ a.receipt.reservation \in reservations
        /\ a.receipt.records = answer /\ a.stamp = cache.stamp
        /\ cache.state = "present" /\ cache.records = answer
    BY <2>2 DEF Evidence, Chained, Sound, Inv, Told
  <2> HIDE DEF a
  <2>4. a.receipt \in ReceiptsOf(root) /\ a.receipt.reservation \in ReservationsOf(root)
    BY <2>3 DEF ReceiptsOf, ReservationsOf, Evidence, Chained
  <2>5. /\ RowsOf(network, "credential_read_intent", {root}) = {1}
        /\ RowsOf(network, "attempt_intent", {root}) = {2}
        /\ RowsOf(network, "request_terminal", {root}) = {3}
        /\ RowsOf(spend, "physical_post_started", {root}) = {1}
        /\ RowsOf(spend, "physical_post_started", Seals) = {1}
        /\ RowsOf(spend, "physical_post_completed", {root}) = {2}
    BY <2>1, RowsAre
  <2>6. /\ OnlyRow(network, "request_terminal", root) = network.rows[3]
        /\ OnlyRow(spend, "physical_post_completed", root) = spend.rows[2]
    BY <2>5 DEF OnlyRow
  <2>7. network.rows[3].stamp = a.stamp /\ spend.rows[2].stamp = a.stamp
    BY <2>1, <2>3 DEF Evidence, Sound
  <2>8. Cardinality({1}) = 1 /\ Cardinality({2}) = 1 /\ Cardinality({3}) = 1
    BY FS_Singleton
  <2>9. JournalsProve(root, a)
    BY <2>1, <2>5, <2>6, <2>7, <2>8 DEF JournalsProve
  <2>10. Loads(root, a)
    BY <2>3, <2>4, <2>9 DEF Loads
  <2>11. QED BY <1>2, <1>10, <2>10 DEF LoadRefused, a
<1>11. QED BY <1>6, <1>7, <1>8, <1>9, <1>10

LEMMA LoadEvidence ==
    ASSUME Inv, Evidence, NEW p \in Procs, Load(p)
    PROVE  Evidence'
<1> USE DEF Inside, PCs, AtWork
<1>1. /\ From(p, "load", "accepted") /\ answer' = answer
      /\ UNCHANGED <<journals, published, cache>>
  BY DEF Load
<1>2. Moves(p, "load", "accepted")
  BY <1>1, FromMoves
<1>3. Stands(p)'
  BY <1>2 DEF Moves, Stands
<1>4. QED BY <1>1, <1>3, QuietEvidence

LEMMA DamageEvidence ==
    ASSUME Inv, Evidence,
           ReplaceLock \/ \E state \in {"absent", "corrupt"}: DamageCache(state)
    PROVE  Evidence'
<1>1. /\ UNCHANGED <<lease, journals, published, stamp, pc, seal, got, starts, ghosts>>
      /\ changes' = changes + 1
  BY DEF ReplaceLock, DamageCache
<1>2. changes' # 0
  BY <1>1, EvidenceTypes
<1>3. Written' /\ Chained' /\ Sound'
  BY <1>1, <1>2
  DEF Evidence, Written, Chained, Sound, Filed, Charged, lease, journals, published
<1>4. ASSUME NEW p \in Procs PROVE Stands(p)'
  <2>1. Stands(p) /\ Mine(p)' = Mine(p) /\ Synced' = Synced
        /\ Filed' = Filed /\ Charged' = Charged
    BY <1>1 DEF Evidence, Mine, Synced, Filed, Charged, lease, journals
  <2>2. QED BY <1>1, <1>2, <2>1 DEF Stands, lease, journals, published
<1>5. QED BY <1>3, <1>4 DEF Evidence

\* Every step keeps the rows in front of the publications that need them.
THEOREM EvidenceStep == Inv /\ Evidence /\ [Next]_vars => Evidence'
<1> SUFFICES ASSUME Inv, Evidence, [Next]_vars PROVE Evidence'
  OBVIOUS
<1>1. ASSUME NEW p \in Procs, NEW s \in Seals, Start(p, s) PROVE Evidence'
  BY <1>1, StartEvidence
<1>2. ASSUME NEW p \in Procs, Step(p) PROVE Evidence'
  <2>1. CASE Acquire(p)
    BY <2>1, AcquireEvidence
  <2>2. CASE AcquireRefused(p)
    BY <2>2, StopEvidence DEF AcquireRefused, lease
  <2>3. CASE Ambiguous(p) \/ CacheLost(p) \/ LeaseLost(p) \/ RecoveryRefused(p)
             \/ LoadRefused(p)
    BY <2>3, RefusedEvidence
  <2>4. CASE Attempt(p)
    BY <2>4, AttemptQuietEvidence, LogEvidence, PublishEvidence DEF Attempt
  <2>5. CASE BeginRecovery(p) \/ RecoverCache(p) \/ RecoverAcceptance(p)
    BY <2>5, AttemptQuietEvidence, PublishEvidence
  <2>6. CASE Complete(p) \/ Terminate(p) \/ Load(p)
    BY <2>6, LogEvidence, LoadEvidence
  <2>7. CASE Leave(p)
    BY <2>7, StopEvidence DEF Leave, Lease!Drop
  <2>8. QED
    BY <1>2, <2>1, <2>2, <2>3, <2>4, <2>5, <2>6, <2>7 DEF Step, Recover, Close
<1>3. ASSUME NEW p \in Procs, Raise(p) PROVE Evidence'
  BY <1>3, FailEvidence DEF Raise
<1>4. ASSUME NEW p \in Procs, Crash(p) \/ CrashWaiting(p) \/ CrashInLease(p)
      PROVE  Evidence'
  BY <1>4, StopEvidence
  DEF Crash, CrashWaiting, CrashInLease, lease, Lease!Drop, Lease!Tear
<1>5. ASSUME NEW p \in Procs, CrashInAppend(p) PROVE Evidence'
  BY <1>5, CrashInAppendEvidence
<1>6. CASE ReplaceLock \/ \E state \in {"absent", "corrupt"}: DamageCache(state)
  BY <1>6, DamageEvidence
<1>7. CASE UNCHANGED vars
  <2>1. UNCHANGED <<lease, intact, journals, published, cache, pc, seal, got, changes,
                    ghosts>>
    BY <1>7 DEF vars
  <2>2. Written' /\ Chained' /\ Sound'
    BY <2>1
    DEF Evidence, Written, Chained, Sound, Filed, Charged, lease, journals, published,
        ghosts
  <2>3. ASSUME NEW p \in Procs PROVE Stands(p)'
    <3>1. Stands(p) /\ Mine(p)' = Mine(p) /\ Synced' = Synced
          /\ Filed' = Filed /\ Charged' = Charged
      BY <2>1 DEF Evidence, Mine, Synced, Filed, Charged, lease, journals
    <3>2. QED BY <2>1, <3>1 DEF Stands, lease, journals, published
  <2>4. QED BY <2>2, <2>3 DEF Evidence
<1>8. QED BY <1>1, <1>2, <1>3, <1>4, <1>5, <1>6, <1>7 DEF Next

LEMMA EvidenceStandsInv == ASSUME Inv, Evidence PROVE EvidenceStands
<1>1. /\ Filed \in Nat /\ Charged \in Nat /\ Filed <= 3 /\ Charged <= 2 /\ fence \in Nat
      /\ \A i \in 1..Filed: network.rows[i].fence \in Nat
  BY EvidenceTypes DEF Evidence, Written
<1>2. PostIsCovered
  <2> SUFFICES ASSUME posts > 0
               PROVE  \E r \in reservations:
                        /\ ReservationsOf(r.attempt) = {r}
                        /\ Cardinality(RowsOf(spend, "physical_post_started", Seals)) = 1
                        /\ OnlyRow(spend, "physical_post_started", r.attempt).fence = r.fence
                        /\ \E i \in RowsOf(network, "credential_read_intent", {r.attempt}),
                              k \in RowsOf(network, "attempt_intent", {r.attempt}):
                                 /\ i < k
                                 /\ network.rows[i].fence = r.fence
                                 /\ network.rows[k].fence = r.fence
    BY DEF PostIsCovered
  <2>1. Charged >= 1 /\ Filed >= 2 /\ reservations # {}
    <3>1. HasRow(spend, "physical_post_started")
      BY DEF Inv, Spent
    <3>2. Charged >= 1
      BY <1>1, <3>1 DEF HasRow, Charged
    <3>3. QED BY <1>1, <3>2 DEF Evidence, Chained
  <2>2. PICK r \in reservations: TRUE
    BY <2>1
  <2>3. /\ r.attempt = root /\ r.fence = network.rows[1].fence
        /\ network.rows[2].fence = network.rows[1].fence
        /\ spend.rows[1].fence = network.rows[1].fence
    BY <1>1, <2>1 DEF Evidence, Chained, Written
  <2>4. ReservationsOf(root) = {r}
    BY OneOfEach
  <2>5. /\ RowsOf(spend, "physical_post_started", Seals) = {1}
        /\ RowsOf(spend, "physical_post_started", {root}) = {1}
        /\ RowsOf(network, "credential_read_intent", {root}) = {1}
        /\ RowsOf(network, "attempt_intent", {root}) = {2}
    BY <1>1, <2>1, RowsAre
  <2>6. OnlyRow(spend, "physical_post_started", root) = spend.rows[1]
    BY <2>5 DEF OnlyRow
  <2>7. Cardinality({1}) = 1
    BY FS_Singleton
  <2>8. /\ 1 \in RowsOf(network, "credential_read_intent", {r.attempt})
        /\ 2 \in RowsOf(network, "attempt_intent", {r.attempt})
    BY <2>3, <2>5
  <2>9. /\ Cardinality(RowsOf(spend, "physical_post_started", Seals)) = 1
        /\ OnlyRow(spend, "physical_post_started", r.attempt).fence = r.fence
        /\ ReservationsOf(r.attempt) = {r}
    BY <2>3, <2>4, <2>5, <2>6, <2>7
  <2>10. 1 < 2 /\ network.rows[1].fence = r.fence /\ network.rows[2].fence = r.fence
    BY <2>3
  <2>11. QED BY <2>8, <2>9, <2>10
<1>3. NeverContradicted
  <2>1. \A i, k \in 1..Filed: i < k => network.rows[i].fence <= network.rows[k].fence
    <3> SUFFICES ASSUME NEW i \in 1..Filed, NEW k \in 1..Filed, i < k
                 PROVE  network.rows[i].fence <= network.rows[k].fence
      OBVIOUS
    <3>1. i = 1 \/ (i = 2 /\ Filed >= 2)
      BY <1>1
    <3>2. network.rows[1].fence <= network.rows[k].fence
      BY DEF Evidence, Written
    <3>3. i = 2 => network.rows[i].fence = network.rows[1].fence
      BY <3>1 DEF Evidence, Written
    <3>4. QED BY <3>1, <3>2, <3>3
  <2>2. ASSUME NEW r \in receipts,
               NEW i \in RowsOf(network, "request_terminal", {r.reservation.attempt})
        PROVE  network.rows[i].fence >= r.reservation.fence
    <3>1. i \in 1..Filed /\ r.reservation \in reservations
      BY <2>2 DEF RowsOf, Filed, Evidence, Chained
    <3>2. r.reservation.fence = network.rows[1].fence
      BY <3>1 DEF Evidence, Chained
    <3>3. network.rows[1].fence <= network.rows[i].fence
      BY <3>1 DEF Evidence, Written
    <3>4. network.rows[1].fence \in Nat /\ network.rows[i].fence \in Nat
      BY <1>1, <3>1
    <3>5. QED BY <3>2, <3>3, <3>4
  <2>3. \A a, b \in acceptances: a = b
    BY DEF Evidence, Chained
  <2>4. QED BY <2>1, <2>2, <2>3 DEF NeverContradicted, Filed
<1>4. ReceiptIsNeverWasted
  BY DEF ReceiptIsNeverWasted, ReceiptsOf, Evidence, Stands
<1>5. QED BY <1>2, <1>3, <1>4 DEF EvidenceStands

-----------------------------------------------------------------------------
(* Theorems                                                                *)

\* Every variable keeps its type (gateway.py, broker.py and journal.py as
\* modelled), for every instance.
THEOREM TypeCorrect == Spec => []TypeOK
<1>1. Inv => TypeOK
  BY DEF Inv, TypeInv
<1>2. QED BY <1>1, Invariant, PTL

\* However many processes run the command, under however many seals, and
\* wherever they are killed, at most one credential is read and at most one
\* POST is sent.
THEOREM Budget == Spec => []BudgetHeld
<1>1. Inv => BudgetHeld
  BY DEF Inv, Spent, BudgetHeld
<1>2. QED BY <1>1, Invariant, PTL

\* Everything published or accepted is the one answer of the one POST.
THEOREM OneAnswer == Spec => []AcceptedIsTheAnswer
<1>1. Inv => AcceptedIsTheAnswer
  BY DEF Inv, Told, AcceptedIsTheAnswer
<1>2. QED BY <1>1, Invariant, PTL

\* The evidence of the one attempt is there before it is needed, is never
\* contradicted, and is never refused while nobody damages it: however many
\* processes are killed wherever, whatever they publish.
THEOREM EvidenceIsKept == Spec => []EvidenceStands
<1>1. Inv /\ Evidence /\ [Next]_vars => Evidence'
  BY EvidenceStep
<1>2. Inv /\ Evidence => EvidenceStands
  BY EvidenceStandsInv
<1>3. QED BY <1>1, <1>2, EvidenceInit, Invariant, PTL DEF Spec

-----------------------------------------------------------------------------
(* The protocol implements OneShot: POSTs are Ask, a load is Accept, and   *)
(* every other step stutters.                                              *)

LEMMA PromiseInit == Init => Promise!Init
BY DEF Init, Promise!Init

LEMMA AskStep ==
    ASSUME Inv, NEW p \in Procs, Post(p) \/ PostWithoutAnswer(p)
    PROVE  Promise!Ask
<1>1. posts = 0 /\ answer = NoAnswer
  BY DEF Post, PostWithoutAnswer, From, Inv, Spent, Told, Unposted
<1>2. CASE Post(p)
  BY <1>1, <1>2 DEF Post, Promise!Ask
<1>3. CASE PostWithoutAnswer(p)
  BY <1>1, <1>3 DEF PostWithoutAnswer, Promise!Ask
<1>4. QED BY <1>2, <1>3

LEMMA AcceptStep ==
    ASSUME Inv, NEW p \in Procs, Load(p)
    PROVE  Promise!Accept
<1>1. results' = results \cup {answer} /\ answer \in Answers
  BY LoadsTheAnswer
<1>2. results \subseteq {answer}
  BY DEF Inv, Told
<1>3. UNCHANGED <<posts, answer>>
  BY DEF Load
<1>4. QED BY <1>1, <1>2, <1>3 DEF Promise!Accept

\* Every step of the protocol is a step of OneShot or leaves it as it is.
THEOREM PromiseStep == Inv /\ [Next]_vars => [Promise!Next]_(Promise!vars)
<1> SUFFICES ASSUME Inv, [Next]_vars PROVE [Promise!Next]_(Promise!vars)
  OBVIOUS
<1> DEFINE Still == UNCHANGED <<posts, answer, results>>
<1>1. ASSUME NEW p \in Procs, Attempt(p)
      PROVE  Still \/ Post(p) \/ PostWithoutAnswer(p)
  BY <1>1 DEF Attempt, BeginAttempt, PreflightTLS, LogCredentialIntent,
              ReadCredential, Reserve, LogIntent, LogStart, PublishReceipt,
              PublishCache, Accept, ghosts
<1>2. ASSUME NEW p \in Procs, Recover(p) PROVE Still
  BY <1>2 DEF Recover, BeginRecovery, RecoverCache, RecoverAcceptance,
              RecoveryRefused, Fail, ghosts
<1>3. ASSUME NEW p \in Procs, Close(p) PROVE Still \/ Load(p)
  BY <1>3 DEF Close, Complete, Terminate, LoadRefused, Fail, ghosts
<1>4. ASSUME NEW p \in Procs, Step(p)
      PROVE  Still \/ Post(p) \/ PostWithoutAnswer(p) \/ Load(p)
  BY <1>1, <1>2, <1>3, <1>4
  DEF Step, Acquire, AcquireRefused, Ambiguous, CacheLost, LeaseLost, Leave, Stop, Fail, ghosts
<1>5. ASSUME NEW p \in Procs,
             \/ Raise(p) \/ Crash(p) \/ CrashWaiting(p)
             \/ CrashInLease(p) \/ CrashInAppend(p)
      PROVE  Still
  BY <1>5 DEF Raise, Crash, CrashWaiting, CrashInLease, CrashInAppend, Stop, Fail, ghosts
<1>6. ASSUME \/ \E p \in Procs, s \in Seals: Start(p, s)
             \/ ReplaceLock
             \/ \E state \in {"absent", "corrupt"}: DamageCache(state)
             \/ UNCHANGED vars
      PROVE  Still
  BY <1>6 DEF Start, ReplaceLock, DamageCache, vars, ghosts
<1>7. ASSUME NEW p \in Procs, Post(p) \/ PostWithoutAnswer(p) \/ Load(p)
      PROVE  Promise!Next
  BY <1>7, AskStep, AcceptStep DEF Promise!Next
<1>8. QED BY <1>4, <1>5, <1>6, <1>7 DEF Next, Promise!vars

\* One question, one answer, and nothing accepted but that answer.
THEOREM Refinement == Spec => KeepsPromise
<1>1. QED
  BY PromiseInit, PromiseStep, Invariant, PTL DEF Spec, KeepsPromise, Promise!Spec
=============================================================================
