----------------------- MODULE PaperSettlementProofs -----------------------
(***************************************************************************)
(* Machine-checked proofs about PaperSettlement, for every set of fills,   *)
(* corrections, corporate actions and days: the types, that a leg of a     *)
(* fill takes effect at most once as long as the calendar knows the days   *)
(* it settles on, that positions follow their lots, what a saved command   *)
(* has done, and that every step of the account is one of CashBook.        *)
(*                                                                         *)
(* A command works on a draft of the account, so what holds of an account  *)
(* has to hold of the draft too: it is a predicate on documents, with one  *)
(* lemma for each thing a command does to a document.                      *)
(***************************************************************************)
EXTENDS PaperSettlement, FiniteSetTheorems, WellFoundedInduction, TLAPS

SettledFills == Fills \ LegacyFills

-----------------------------------------------------------------------------
(* Types of documents *)

FromFill(e) == \E f \in SettledFills : e.src = f.id /\ e.code = f.code

(***************************************************************************)
(* What the kind of an event says of the rest of it.                       *)
(***************************************************************************)
Shaped(e) ==
    /\ e.status = "pending" => e.kind \in Kinds
    /\ e.kind \in Kinds => FromFill(e)
    /\ e.kind = "trade_buy_shares" => e.shares >= 0
    /\ e.kind = "trade_sell_shares" => e.shares <= 0

Typed(a) == a \in Accounts /\ \A i \in DOMAIN a.events : Shaped(a.events[i])

Typing ==
    /\ today \in Days
    /\ Typed(account) /\ Typed(draft)
    /\ phase \in {"idle", "recording", "settling"}
    /\ batch \in Seq(SettledFills) /\ asOf \in Days \union {0} /\ cursor \in Nat \ {0}
    /\ idle => draft = account /\ batch = << >> /\ cursor = 1

LEMMA FillType ==
    ASSUME NEW f \in Fills
    PROVE  /\ f.id \in FillIds /\ f.id \in STRING /\ f.code \in Codes /\ f.day \in Days
           /\ f.shares \in Nat /\ f.value \in Nat /\ f.side \in {"BUY", "SELL"}
           /\ f.day \in Nat
BY BrokerFills, Profile DEF FillIds, Days

LEMMA SameFill == \A f, g \in Fills : f.id = g.id => f = g
BY BrokerFills

LEMMA KindNames ==
    /\ "manual_adjustment" \notin Kinds
    /\ Kinds = {"trade_buy_cash", "trade_sell_cash", "trade_buy_shares", "trade_sell_shares"}
BY DEF Kinds, CashKinds, ShareKinds

\* An event of a fill is well typed, whatever its kind.
LEMMA EventType ==
    ASSUME NEW f \in Fills, today \in Days, NEW k \in Kinds \union {"manual_adjustment"},
           NEW s \in Int, NEW c \in Int, NEW t \in {"pending", "settled", "skipped"}
    PROVE  Event(f, k, s, c, t) \in EventRecords
<1>1. (IF k \in Kinds THEN NextTradeDate(f.day, Lag[k]) ELSE f.day) \in Nat
  BY FillType, Profile DEF NextTradeDate, Lesser, Days
<1>2. QED BY <1>1, FillType DEF Event, EventRecords

LEMMA EventsOfType ==
    ASSUME NEW f \in SettledFills, today \in Days
    PROVE  /\ EventsOf(f) \in Seq(EventRecords)
           /\ Len(EventsOf(f)) \in {1, 2}
           /\ \A i \in 1..Len(EventsOf(f)) : /\ EventsOf(f)[i] \in EventRecords
                                             /\ Shaped(EventsOf(f)[i])
<1>0. f \in Fills /\ f.shares \in Nat /\ f.value \in Nat /\ -f.shares \in Int /\ -f.value \in Int
  BY FillType DEF SettledFills
<1>1. ASSUME NEW k \in Kinds, NEW s \in Int, NEW c \in Int,
             k = "trade_buy_shares" => s >= 0, k = "trade_sell_shares" => s <= 0
      PROVE  /\ Event(f, k, s, c, "pending") \in EventRecords
             /\ Shaped(Event(f, k, s, c, "pending"))
  <2>1. Event(f, k, s, c, "pending") \in EventRecords
    BY <1>0, EventType
  <2>2. FromFill(Event(f, k, s, c, "pending"))
    BY DEF FromFill, Event
  <2>3. QED BY <1>1, <2>1, <2>2 DEF Shaped, Event
<1>2. CASE f.shares = 0
  <2> DEFINE e == Event(f, "manual_adjustment", 0, 0, "skipped")
  <2>1. e \in EventRecords
    BY <1>0, EventType
  <2>2. Shaped(e)
    BY KindNames DEF Shaped, Event
  <2>3. EventsOf(f) = <<e>>
    BY <1>2 DEF EventsOf
  <2> HIDE DEF e
  <2>4. QED BY <2>1, <2>2, <2>3
<1>3. CASE f.shares # 0 /\ f.side = "BUY"
  <2> DEFINE d == Event(f, "trade_buy_cash", 0, -f.value, "pending")
             e == Event(f, "trade_buy_shares", f.shares, 0, "pending")
  <2>1. d \in EventRecords /\ Shaped(d) /\ e \in EventRecords /\ Shaped(e)
    BY <1>0, <1>1, KindNames
  <2>2. EventsOf(f) = <<d, e>>
    BY <1>3 DEF EventsOf
  <2> HIDE DEF d, e
  <2>3. QED BY <2>1, <2>2
<1>4. CASE f.shares # 0 /\ f.side # "BUY"
  <2> DEFINE d == Event(f, "trade_sell_shares", -f.shares, 0, "pending")
             e == Event(f, "trade_sell_cash", 0, f.value, "pending")
  <2>1. d \in EventRecords /\ Shaped(d) /\ e \in EventRecords /\ Shaped(e)
    BY <1>0, <1>1, KindNames
  <2>2. EventsOf(f) = <<d, e>>
    BY <1>4 DEF EventsOf
  <2> HIDE DEF d, e
  <2>3. QED BY <2>1, <2>2
<1>5. QED BY <1>2, <1>3, <1>4

\* Appending an event that is not there yet.
LEMMA AppendNewType ==
    ASSUME NEW es \in Seq(EventRecords), \A i \in DOMAIN es : Shaped(es[i]),
           NEW e \in EventRecords, Shaped(e)
    PROVE  /\ AppendNew(es, e) \in Seq(EventRecords)
           /\ \A i \in DOMAIN AppendNew(es, e) : Shaped(AppendNew(es, e)[i])
<1>1. CASE AppendNew(es, e) = es
  BY <1>1
<1>2. CASE AppendNew(es, e) = Append(es, e)
  BY <1>2
<1>3. QED BY <1>1, <1>2 DEF AppendNew

LEMMA RecordedType ==
    ASSUME NEW es \in Seq(EventRecords), \A i \in DOMAIN es : Shaped(es[i]),
           NEW f \in SettledFills, today \in Days
    PROVE  /\ Recorded(es, f) \in Seq(EventRecords)
           /\ \A i \in DOMAIN Recorded(es, f) : Shaped(Recorded(es, f)[i])
<1> DEFINE one == AppendNew(es, EventsOf(f)[1])
<1>1. one \in Seq(EventRecords) /\ \A i \in DOMAIN one : Shaped(one[i])
  BY EventsOfType, AppendNewType
<1>2. CASE Len(EventsOf(f)) = 1
  BY <1>1, <1>2 DEF Recorded
<1>3. CASE Len(EventsOf(f)) = 2
  <2>1. Recorded(es, f) = AppendNew(one, EventsOf(f)[2])
    BY <1>3 DEF Recorded
  <2>2. EventsOf(f)[2] \in EventRecords /\ Shaped(EventsOf(f)[2])
    BY <1>3, EventsOfType
  <2> HIDE DEF one
  <2>3. QED BY <1>1, <2>1, <2>2, AppendNewType
<1>4. QED BY <1>2, <1>3, EventsOfType

LEMMA RecordFillType ==
    ASSUME NEW a, Typed(a), NEW f \in SettledFills, today \in Days
    PROVE  Typed([a EXCEPT !.ledger = @ \union {f.id}, !.events = Recorded(@, f)])
<1> DEFINE b == [a EXCEPT !.ledger = @ \union {f.id}, !.events = Recorded(@, f)]
<1>1. a \in Accounts /\ a.events \in Seq(EventRecords)
      /\ \A i \in DOMAIN a.events : Shaped(a.events[i])
  BY DEF Typed, Accounts
<1>2. f.id \in FillIds
  BY FillType DEF SettledFills
<1>3. Recorded(a.events, f) \in Seq(EventRecords)
      /\ \A i \in DOMAIN Recorded(a.events, f) : Shaped(Recorded(a.events, f)[i])
  BY <1>1, RecordedType
<1>4. b \in Accounts /\ b.events = Recorded(a.events, f)
  BY <1>1, <1>2, <1>3 DEF Accounts
<1> HIDE DEF b
<1>5. Typed(b)
  BY <1>3, <1>4 DEF Typed
<1>6. QED BY <1>5 DEF b

LEMMA OpenedType ==
    ASSUME NEW a, Typed(a)
    PROVE  Typed(Opened(a))
<1>1. a \in Accounts
  BY DEF Typed
<1>2. Opened(a) \in Accounts /\ Opened(a).events = a.events
  BY <1>1 DEF Opened, Accounts
<1>3. QED BY <1>2 DEF Typed

-----------------------------------------------------------------------------
(* An event takes effect *)

\* A due event of an account: what kind it is and whose.
LEMMA DueIs ==
    ASSUME NEW a, Typed(a), NEW i \in DOMAIN a.events, Due(a.events[i])
    PROVE  /\ a.events[i] \in EventRecords
           /\ a.events[i].kind \in Kinds
           /\ a.events[i].src \in FillIds
           /\ <<a.events[i].src, a.events[i].kind>> \in Legs
           /\ FromFill(a.events[i])
           /\ a.events[i].kind = "trade_buy_shares" => a.events[i].shares >= 0
           /\ a.events[i].kind = "trade_sell_shares" => a.events[i].shares <= 0
<1>1. a.events \in Seq(EventRecords) /\ Shaped(a.events[i])
  BY DEF Typed, Accounts
<1>2. a.events[i] \in EventRecords
  BY <1>1
<1>3. a.events[i].kind \in Kinds /\ FromFill(a.events[i])
  BY <1>1 DEF Due, Shaped
<1>4. a.events[i].src \in FillIds
  BY <1>3, FillType DEF FromFill, SettledFills
<1>5. QED BY <1>1, <1>2, <1>3, <1>4 DEF Shaped, Legs

LEMMA TookEffectType ==
    ASSUME NEW a \in Accounts, NEW e, <<e.src, e.kind>> \in Legs
    PROVE  /\ TookEffect(a, e) \in Accounts
           /\ TookEffect(a, e).effects =
                [a.effects EXCEPT ![<<e.src, e.kind>>] = @ + 1]
           /\ TookEffect(a, e).events = a.events /\ TookEffect(a, e).cash = a.cash
           /\ TookEffect(a, e).shares = a.shares /\ TookEffect(a, e).lots = a.lots
           /\ TookEffect(a, e).lotted = a.lotted /\ TookEffect(a, e).offLots = a.offLots
           /\ TookEffect(a, e).ledger = a.ledger /\ TookEffect(a, e).lotIds = a.lotIds
<1>1. a.effects \in [Legs -> Nat]
  BY DEF Accounts
<1>2. [a.effects EXCEPT ![<<e.src, e.kind>>] = @ + 1] \in [Legs -> Nat]
  BY <1>1
<1>3. QED BY <1>2 DEF TookEffect, Accounts

LEMMA PayCashType ==
    ASSUME NEW a \in Accounts, NEW e \in EventRecords, <<e.src, e.kind>> \in Legs
    PROVE  /\ PayCash(a, e) \in Accounts
           /\ PayCash(a, e).effects = [a.effects EXCEPT ![<<e.src, e.kind>>] = @ + 1]
           /\ PayCash(a, e).events = a.events /\ PayCash(a, e).ledger = a.ledger
           /\ PayCash(a, e).shares = a.shares /\ PayCash(a, e).lots = a.lots
           /\ PayCash(a, e).lotted = a.lotted /\ PayCash(a, e).offLots = a.offLots
<1> DEFINE b == TookEffect(a, e)
<1>1. b \in Accounts /\ e.cash \in Int
  BY TookEffectType DEF EventRecords
<1>2. PayCash(a, e) = [b EXCEPT !.cash = b.cash + e.cash]
  BY DEF PayCash
<1>3. /\ b.effects = [a.effects EXCEPT ![<<e.src, e.kind>>] = @ + 1]
      /\ b.events = a.events /\ b.ledger = a.ledger /\ b.shares = a.shares
      /\ b.lots = a.lots /\ b.lotted = a.lotted /\ b.offLots = a.offLots
  BY TookEffectType
<1> HIDE DEF b
<1>4. b.cash + e.cash \in Int
  BY <1>1 DEF Accounts
<1>5. PayCash(a, e) \in Accounts
  BY <1>1, <1>2, <1>4 DEF Accounts
<1>6. /\ PayCash(a, e).effects = b.effects
      /\ PayCash(a, e).events = b.events /\ PayCash(a, e).ledger = b.ledger
      /\ PayCash(a, e).shares = b.shares /\ PayCash(a, e).lots = b.lots
      /\ PayCash(a, e).lotted = b.lotted /\ PayCash(a, e).offLots = b.offLots
  BY <1>1, <1>2 DEF Accounts
<1>7. QED BY <1>3, <1>5, <1>6

\* The fields a settled lot changes.
LEMMA HeldType ==
    ASSUME NEW a \in Accounts, NEW c \in Codes, NEW n \in Nat
    PROVE  /\ Held(a, c, n) \in Accounts
           /\ Held(a, c, n).lots = [a.lots EXCEPT ![c] = n]
           /\ Held(a, c, n).shares = [a.shares EXCEPT ![c] = n]
           /\ Held(a, c, n).offLots = a.offLots \ {c}
           /\ Held(a, c, n).lotted = a.lotted /\ Held(a, c, n).lotIds = a.lotIds
           /\ Held(a, c, n).effects = a.effects /\ Held(a, c, n).events = a.events
           /\ Held(a, c, n).ledger = a.ledger /\ Held(a, c, n).cash = a.cash
<1> DEFINE L == [a.lots EXCEPT ![c] = n]
           S == [a.shares EXCEPT ![c] = n]
           O == a.offLots \ {c}
<1>1. Held(a, c, n) = [a EXCEPT !.lots = L, !.shares = S, !.offLots = O]
  BY DEF Held
<1>2. L \in [Codes -> Nat] /\ S \in [Codes -> Nat] /\ O \in SUBSET Codes
  BY DEF Accounts
<1> HIDE DEF L, S, O
<1>3. Held(a, c, n) \in Accounts
  BY <1>1, <1>2 DEF Accounts
<1>4. /\ Held(a, c, n).lots = L /\ Held(a, c, n).shares = S /\ Held(a, c, n).offLots = O
      /\ Held(a, c, n).lotted = a.lotted /\ Held(a, c, n).lotIds = a.lotIds
      /\ Held(a, c, n).effects = a.effects /\ Held(a, c, n).events = a.events
      /\ Held(a, c, n).ledger = a.ledger /\ Held(a, c, n).cash = a.cash
  BY <1>1 DEF Accounts
<1>5. QED BY <1>3, <1>4 DEF L, S, O

LEMMA AddLotType ==
    ASSUME NEW a \in Accounts, NEW e \in EventRecords, <<e.src, e.kind>> \in Legs,
           e.src \in FillIds, e.shares >= 0
    PROVE  /\ AddLot(a, e) \in Accounts
           /\ \/ AddLot(a, e).effects = [a.effects EXCEPT ![<<e.src, e.kind>>] = @ + 1]
              \/ AddLot(a, e).effects = a.effects
           /\ AddLot(a, e).events = a.events /\ AddLot(a, e).ledger = a.ledger
           /\ AddLot(a, e).cash = a.cash
           /\ AddLot(a, e).lotted /\ AddLot(a, e).offLots = a.offLots \ {e.code}
           /\ \E n \in Nat : /\ AddLot(a, e).lots = [a.lots EXCEPT ![e.code] = n]
                             /\ AddLot(a, e).shares = [a.shares EXCEPT ![e.code] = n]
<1> DEFINE id == <<e.src, e.code, e.shares>>
           n == a.lots[e.code] + (IF id \in a.lotIds THEN 0 ELSE e.shares)
           b == IF id \in a.lotIds THEN a ELSE TookEffect(a, e)
           h == Held(b, e.code, n)
           D == h.lotIds \union {id}
<1>1. e.code \in Codes /\ e.shares \in Nat /\ id \in FillIds \X Codes \X Nat
  BY DEF EventRecords
<1>2. n \in Nat
  BY <1>1 DEF Accounts
<1>3. /\ b \in Accounts /\ b.events = a.events /\ b.ledger = a.ledger /\ b.cash = a.cash
      /\ b.lots = a.lots /\ b.shares = a.shares /\ b.offLots = a.offLots
      /\ \/ b.effects = [a.effects EXCEPT ![<<e.src, e.kind>>] = @ + 1]
         \/ b.effects = a.effects
  BY TookEffectType
<1>4. AddLot(a, e) = [h EXCEPT !.lotted = TRUE, !.lotIds = D]
  BY DEF AddLot
<1> HIDE DEF n, b, id
<1>5. /\ h \in Accounts /\ h.events = a.events /\ h.ledger = a.ledger /\ h.cash = a.cash
      /\ h.lots = [a.lots EXCEPT ![e.code] = n] /\ h.shares = [a.shares EXCEPT ![e.code] = n]
      /\ h.offLots = a.offLots \ {e.code}
      /\ \/ h.effects = [a.effects EXCEPT ![<<e.src, e.kind>>] = @ + 1]
         \/ h.effects = a.effects
  BY <1>1, <1>2, <1>3, HeldType
<1> HIDE DEF h
<1>6. D \in SUBSET (FillIds \X Codes \X Nat)
  BY <1>1, <1>5 DEF Accounts
<1> HIDE DEF D
<1>7. AddLot(a, e) \in Accounts
  BY <1>4, <1>5, <1>6 DEF Accounts
<1>8. /\ AddLot(a, e).lotted = TRUE /\ AddLot(a, e).effects = h.effects
      /\ AddLot(a, e).events = h.events /\ AddLot(a, e).ledger = h.ledger
      /\ AddLot(a, e).cash = h.cash /\ AddLot(a, e).offLots = h.offLots
      /\ AddLot(a, e).lots = h.lots /\ AddLot(a, e).shares = h.shares
  BY <1>4, <1>5 DEF Accounts
<1>9. QED BY <1>2, <1>5, <1>7, <1>8

LEMMA TakeLotsType ==
    ASSUME NEW a \in Accounts, NEW e \in EventRecords, <<e.src, e.kind>> \in Legs,
           e.shares <= 0
    PROVE  /\ TakeLots(a, e) \in Accounts
           /\ TakeLots(a, e).effects = [a.effects EXCEPT ![<<e.src, e.kind>>] = @ + 1]
           /\ TakeLots(a, e).events = a.events /\ TakeLots(a, e).ledger = a.ledger
           /\ TakeLots(a, e).cash = a.cash
           /\ TakeLots(a, e).lotted = a.lotted
           /\ TakeLots(a, e).offLots = a.offLots \ {e.code}
           /\ \E n \in Nat : /\ n <= a.lots[e.code]
                             /\ TakeLots(a, e).lots = [a.lots EXCEPT ![e.code] = n]
                             /\ TakeLots(a, e).shares = [a.shares EXCEPT ![e.code] = n]
<1> DEFINE b == TookEffect(a, e)
           n == a.lots[e.code] - Lesser(-e.shares, a.lots[e.code])
<1>1. e.code \in Codes /\ e.shares \in Int /\ a.lots[e.code] \in Nat
  BY DEF EventRecords, Accounts
<1>2. n \in Nat /\ n <= a.lots[e.code]
  BY <1>1 DEF Lesser
<1>3. /\ b \in Accounts /\ b.events = a.events /\ b.ledger = a.ledger /\ b.cash = a.cash
      /\ b.lots = a.lots /\ b.shares = a.shares /\ b.offLots = a.offLots
      /\ b.lotted = a.lotted
      /\ b.effects = [a.effects EXCEPT ![<<e.src, e.kind>>] = @ + 1]
  BY TookEffectType
<1>4. TakeLots(a, e) = Held(b, e.code, n)
  BY DEF TakeLots
<1> HIDE DEF n, b
<1>5. /\ TakeLots(a, e) \in Accounts
      /\ TakeLots(a, e).events = b.events /\ TakeLots(a, e).ledger = b.ledger
      /\ TakeLots(a, e).cash = b.cash /\ TakeLots(a, e).lotted = b.lotted
      /\ TakeLots(a, e).offLots = b.offLots \ {e.code}
      /\ TakeLots(a, e).lots = [b.lots EXCEPT ![e.code] = n]
      /\ TakeLots(a, e).shares = [b.shares EXCEPT ![e.code] = n]
      /\ TakeLots(a, e).effects = b.effects
  BY <1>1, <1>2, <1>3, <1>4, HeldType
<1>6. QED BY <1>2, <1>3, <1>5

LEMMA SettledType ==
    ASSUME NEW a, Typed(a), NEW i \in DOMAIN a.events
    PROVE  /\ Typed(Settled(a, i))
           /\ Settled(a, i).events =
                [a.events EXCEPT ![i] = [a.events[i] EXCEPT !.status = "settled"]]
           /\ Settled(a, i).effects = a.effects /\ Settled(a, i).ledger = a.ledger
           /\ Settled(a, i).cash = a.cash /\ Settled(a, i).lotted = a.lotted
           /\ Settled(a, i).shares = a.shares /\ Settled(a, i).lots = a.lots
           /\ Settled(a, i).offLots = a.offLots
<1> DEFINE e == [a.events[i] EXCEPT !.status = "settled"]
           E == [a.events EXCEPT ![i] = e]
<1>1. a \in Accounts /\ a.events \in Seq(EventRecords) /\ i \in 1..Len(a.events)
      /\ \A j \in DOMAIN a.events : Shaped(a.events[j])
  BY DEF Typed, Accounts
<1>2. a.events[i] \in EventRecords
  BY <1>1
<1>3. e \in EventRecords /\ e.kind = a.events[i].kind /\ e.src = a.events[i].src
      /\ e.code = a.events[i].code /\ e.shares = a.events[i].shares /\ e.status = "settled"
  BY <1>2 DEF EventRecords
<1>4. Shaped(e)
  BY <1>1, <1>3 DEF Shaped, FromFill
<1>5. Settled(a, i) = [a EXCEPT !.events = E]
  BY DEF Settled
<1> HIDE DEF e
<1>6. E \in Seq(EventRecords) /\ DOMAIN E = DOMAIN a.events
      /\ \A j \in DOMAIN E : Shaped(E[j])
  BY <1>1, <1>3, <1>4
<1> HIDE DEF E
<1>7. Settled(a, i) \in Accounts
  BY <1>1, <1>5, <1>6 DEF Accounts
<1>8. /\ Settled(a, i).events = E
      /\ Settled(a, i).effects = a.effects /\ Settled(a, i).ledger = a.ledger
      /\ Settled(a, i).cash = a.cash /\ Settled(a, i).lotted = a.lotted
      /\ Settled(a, i).shares = a.shares /\ Settled(a, i).lots = a.lots
      /\ Settled(a, i).offLots = a.offLots
  BY <1>1, <1>5 DEF Accounts
<1>9. Typed(Settled(a, i))
  BY <1>6, <1>7, <1>8 DEF Typed
<1>10. QED BY <1>8, <1>9 DEF E, e

\* The positions and lots of b are those of a ...
SamePositions(a, b) ==
    /\ b.lots = a.lots /\ b.shares = a.shares
    /\ b.lotted = a.lotted /\ b.offLots = a.offLots

\* ... but for code k, whose position has been recomputed from its lots.
Repositioned(a, b, k) ==
    /\ k \in Codes /\ b.offLots = a.offLots \ {k}
    /\ \E n \in Nat : /\ b.lotted \/ (b.lotted = a.lotted /\ n <= a.lots[k])
                      /\ b.lots = [a.lots EXCEPT ![k] = n]
                      /\ b.shares = [a.shares EXCEPT ![k] = n]

(***************************************************************************)
(* What settling a due event does to the document.                         *)
(***************************************************************************)
LEMMA SettleDue ==
    ASSUME NEW a, Typed(a), NEW i \in DOMAIN a.events, Due(a.events[i]),
           NEW c, c = Settled(Effect(a, a.events[i]), i)
    PROVE  /\ Typed(c)
           /\ c.events = [a.events EXCEPT ![i] = [a.events[i] EXCEPT !.status = "settled"]]
           /\ c.ledger = a.ledger
           /\ \/ c.effects = [a.effects EXCEPT
                                ![<<a.events[i].src, a.events[i].kind>>] = @ + 1]
              \/ c.effects = a.effects
           /\ SamePositions(a, c) \/ Repositioned(a, c, a.events[i].code)
<1> DEFINE e == a.events[i]
           b == Effect(a, e)
<1>1. /\ a \in Accounts /\ e \in EventRecords /\ e.kind \in Kinds /\ e.src \in FillIds
      /\ <<e.src, e.kind>> \in Legs
      /\ e.kind = "trade_buy_shares" => e.shares >= 0
      /\ e.kind = "trade_sell_shares" => e.shares <= 0
      /\ e.code \in Codes
  BY DueIs DEF Typed, EventRecords
<1>2. /\ b \in Accounts /\ b.events = a.events /\ b.ledger = a.ledger
      /\ \/ b.effects = [a.effects EXCEPT ![<<e.src, e.kind>>] = @ + 1]
         \/ b.effects = a.effects
      /\ \/ /\ b.lots = a.lots /\ b.shares = a.shares
            /\ b.lotted = a.lotted /\ b.offLots = a.offLots
         \/ /\ b.offLots = a.offLots \ {e.code}
            /\ \E n \in Nat : /\ b.lotted \/ (b.lotted = a.lotted /\ n <= a.lots[e.code])
                              /\ b.lots = [a.lots EXCEPT ![e.code] = n]
                              /\ b.shares = [a.shares EXCEPT ![e.code] = n]
  <2>1. CASE e.kind \in CashKinds
    <3>1. b = PayCash(a, e)
      BY <2>1 DEF Effect
    <3> HIDE DEF b, e
    <3>2. QED BY <1>1, <3>1, PayCashType
  <2>2. CASE e.kind = "trade_buy_shares"
    <3>1. b = AddLot(a, e) /\ e.shares >= 0
      BY <1>1, <2>2 DEF Effect, CashKinds
    <3> HIDE DEF b, e
    <3>2. QED BY <1>1, <3>1, AddLotType
  <2>3. CASE e.kind = "trade_sell_shares"
    <3>1. b = TakeLots(a, e) /\ e.shares <= 0
      BY <1>1, <2>3 DEF Effect, CashKinds
    <3> HIDE DEF b, e
    <3>2. QED BY <1>1, <3>1, TakeLotsType
  <2>4. QED BY <1>1, <2>1, <2>2, <2>3 DEF Kinds, CashKinds, ShareKinds
<1>3. Typed(b) /\ i \in DOMAIN b.events
  BY <1>2 DEF Typed
<1>4. c = Settled(b, i)
  OBVIOUS
<1> HIDE DEF b
<1>5. /\ Typed(c)
      /\ c.events = [a.events EXCEPT ![i] = [a.events[i] EXCEPT !.status = "settled"]]
      /\ c.effects = b.effects /\ c.ledger = a.ledger /\ c.lotted = b.lotted
      /\ c.shares = b.shares /\ c.lots = b.lots /\ c.offLots = b.offLots
  BY <1>2, <1>3, <1>4, SettledType
<1> HIDE DEF e
<1>6. SamePositions(a, c) \/ Repositioned(a, c, e.code)
  BY <1>1, <1>2, <1>5 DEF SamePositions, Repositioned
<1>7. QED BY <1>1, <1>2, <1>5, <1>6 DEF e

-----------------------------------------------------------------------------
(* The commands that are one step *)

LEMMA FilledType ==
    ASSUME NEW a, Typed(a), NEW f \in LegacyFills,
           f.side = "SELL" => f.shares <= a.shares[f.code]
    PROVE  /\ Typed(Filled(a, f))
           /\ Filled(a, f).events = a.events
           /\ Filled(a, f).ledger = a.ledger \union {f.id}
           /\ CashLeg(f) \in Legs
           /\ \/ Filled(a, f).effects = a.effects
              \/ Filled(a, f).effects = [a.effects EXCEPT ![CashLeg(f)] = @ + 1]
           /\ Filled(a, f).lots = a.lots /\ Filled(a, f).lotted = a.lotted
           /\ \/ /\ Filled(a, f).shares = a.shares /\ Filled(a, f).offLots = a.offLots
              \/ /\ \A c \in Codes \ {f.code} : Filled(a, f).shares[c] = a.shares[c]
                 /\ Filled(a, f).offLots = IF a.lotted THEN a.offLots \union {f.code}
                                           ELSE a.offLots
<1>1. /\ a \in Accounts /\ f \in Fills /\ f.id \in FillIds /\ f.code \in Codes
      /\ f.shares \in Nat /\ f.value \in Nat /\ f.side \in {"BUY", "SELL"}
  BY FillType, BrokerFills DEF Typed
<1>2. CashLeg(f) \in Legs
  BY <1>1 DEF CashLeg, Legs, Kinds, CashKinds, ShareKinds
<1> DEFINE I == a.ledger \union {f.id}
           C == a.cash - Signed(f, f.value)
           S == [a.shares EXCEPT ![f.code] = @ + Signed(f, f.shares)]
           E == [a.effects EXCEPT ![CashLeg(f)] = @ + 1]
           O == IF a.lotted THEN a.offLots \union {f.code} ELSE a.offLots
<1>3. I \in SUBSET FillIds /\ O \in SUBSET Codes /\ E \in [Legs -> Nat] /\ C \in Int
  <2>1. Signed(f, f.value) \in Int
    BY <1>1 DEF Signed
  <2>2. QED BY <1>1, <1>2, <2>1 DEF Accounts
<1>4. S \in [Codes -> Nat] /\ \A c \in Codes \ {f.code} : S[c] = a.shares[c]
  <2>1. a.shares \in [Codes -> Nat]
    BY <1>1 DEF Accounts
  <2>2. a.shares[f.code] + Signed(f, f.shares) \in Nat
    BY <1>1, <2>1 DEF Signed
  <2>3. QED BY <2>1, <2>2
<1>5. CASE f.shares = 0
  <2>1. Filled(a, f) = [a EXCEPT !.ledger = I]
    BY <1>5 DEF Filled
  <2> HIDE DEF I
  <2>2. /\ Filled(a, f) \in Accounts
        /\ Filled(a, f).ledger = I /\ Filled(a, f).events = a.events
        /\ Filled(a, f).effects = a.effects
        /\ Filled(a, f).lots = a.lots /\ Filled(a, f).lotted = a.lotted
        /\ Filled(a, f).shares = a.shares /\ Filled(a, f).offLots = a.offLots
    BY <1>1, <1>3, <2>1 DEF Accounts
  <2>3. QED BY <1>2, <2>2 DEF Typed, I
<1>6. CASE f.shares # 0
  <2>1. Filled(a, f) = [a EXCEPT !.ledger = I, !.cash = C, !.shares = S, !.effects = E,
                                 !.offLots = O]
    BY <1>6 DEF Filled
  <2> HIDE DEF I, C, S, E, O
  <2>2. Filled(a, f) \in Accounts
    BY <1>1, <1>3, <1>4, <2>1 DEF Accounts
  <2>3. /\ Filled(a, f).ledger = I /\ Filled(a, f).events = a.events
        /\ Filled(a, f).effects = E /\ Filled(a, f).shares = S /\ Filled(a, f).offLots = O
        /\ Filled(a, f).lots = a.lots /\ Filled(a, f).lotted = a.lotted
    BY <1>1, <2>1 DEF Accounts
  <2>4. Typed(Filled(a, f))
    BY <2>2, <2>3 DEF Typed
  <2>5. QED BY <1>2, <1>4, <2>3, <2>4 DEF I, E, O
<1>7. QED BY <1>5, <1>6

LEMMA AdjustedType ==
    ASSUME NEW a, Typed(a), NEW x \in Adjustments, today \in Days
    PROVE  /\ Typed(Adjusted(a, x))
           /\ ManualEvent(x) \in EventRecords
           /\ Adjusted(a, x).events = Append(a.events, ManualEvent(x))
           /\ Adjusted(a, x).effects = a.effects /\ Adjusted(a, x).ledger = a.ledger
           /\ x.code \in Codes /\ x.shares \in Int
           /\ Adjusted(a, x).shares =
                [a.shares EXCEPT ![x.code] = AtLeastZero(a.shares[x.code] + x.shares)]
           /\ Adjusted(a, x).lots =
                IF x.shares > 0 THEN [a.lots EXCEPT ![x.code] = a.lots[x.code] + x.shares]
                ELSE a.lots
           /\ Adjusted(a, x).lotted = (a.lotted \/ x.shares > 0)
           /\ Adjusted(a, x).offLots =
                IF x.shares > 0
                THEN a.offLots \union IF a.lotted THEN {} ELSE {c \in Codes : a.shares[c] > 0}
                ELSE IF x.shares < 0 /\ a.lotted THEN a.offLots \union {x.code} ELSE a.offLots
<1> DEFINE J == a.adjusted \union {x.id}
           K == [a.corrected EXCEPT ![x] = a.corrected[x] + 1]
           V == Append(a.events, ManualEvent(x))
           C == a.cash + x.cash
           S == [a.shares EXCEPT ![x.code] = AtLeastZero(a.shares[x.code] + x.shares)]
           L == IF x.shares > 0 THEN [a.lots EXCEPT ![x.code] = a.lots[x.code] + x.shares]
                ELSE a.lots
           T == a.lotted \/ x.shares > 0
           O == IF x.shares > 0
                THEN a.offLots \union IF a.lotted THEN {} ELSE {c \in Codes : a.shares[c] > 0}
                ELSE IF x.shares < 0 /\ a.lotted THEN a.offLots \union {x.code} ELSE a.offLots
           b == Adjusted(a, x)
<1>1. /\ a \in Accounts /\ a.events \in Seq(EventRecords)
      /\ \A i \in DOMAIN a.events : Shaped(a.events[i])
      /\ x.id \in STRING /\ x.code \in Codes /\ x.shares \in Int /\ x.cash \in Int
  BY Corrections DEF Typed, Accounts
<1>2. b = [a EXCEPT !.adjusted = J, !.corrected = K, !.events = V, !.cash = C, !.shares = S,
                    !.lots = L, !.lotted = T, !.offLots = O]
  BY DEF Adjusted
<1>3. ManualEvent(x) \in EventRecords /\ Shaped(ManualEvent(x))
  <2>1. today \in Nat
    BY Profile DEF Days
  <2>2. ManualEvent(x) \in EventRecords
    BY <1>1, <2>1 DEF ManualEvent, EventRecords
  <2>3. QED BY <2>2, KindNames DEF ManualEvent, Shaped
<1>4. V \in Seq(EventRecords) /\ \A i \in DOMAIN V : Shaped(V[i])
  BY <1>1, <1>3
<1>5. J \in SUBSET {y.id : y \in Adjustments} /\ K \in [Adjustments -> Nat] /\ C \in Int
  BY <1>1 DEF Accounts
<1>6. S \in [Codes -> Nat]
  <2>1. AtLeastZero(a.shares[x.code] + x.shares) \in Nat
    BY <1>1 DEF Accounts, AtLeastZero
  <2>2. QED BY <1>1, <2>1 DEF Accounts
<1>7. L \in [Codes -> Nat]
  BY <1>1 DEF Accounts
<1>8. T \in BOOLEAN /\ O \in SUBSET Codes
  BY <1>1 DEF Accounts
<1> HIDE DEF J, K, V, C, S, L, T, O, b
<1>9. b \in Accounts
  BY <1>1, <1>2, <1>4, <1>5, <1>6, <1>7, <1>8 DEF Accounts
<1>10. /\ b.events = V /\ b.shares = S /\ b.lots = L /\ b.lotted = T /\ b.offLots = O
       /\ b.effects = a.effects /\ b.ledger = a.ledger
  BY <1>1, <1>2 DEF Accounts
<1>11. Typed(b)
  BY <1>4, <1>9, <1>10 DEF Typed
<1>12. QED BY <1>1, <1>3, <1>10, <1>11 DEF V, S, L, T, O, b

LEMMA DistributedType ==
    ASSUME NEW a, Typed(a), NEW e \in Actions
    PROVE  /\ Typed(Distributed(a, e))
           /\ Distributed(a, e).events = a.events /\ Distributed(a, e).effects = a.effects
           /\ Distributed(a, e).ledger = a.ledger
           /\ Distributed(a, e).lots = a.lots /\ Distributed(a, e).lotted = a.lotted
           /\ Distributed(a, e).offLots =
                IF e.bonus > 0 /\ a.lotted THEN a.offLots \union {e.code} ELSE a.offLots
           /\ \A c \in Codes \ {e.code} : Distributed(a, e).shares[c] = a.shares[c]
           /\ e.bonus = 0 => Distributed(a, e).shares = a.shares
           /\ e.code \in Codes /\ e.bonus \in Nat
<1> DEFINE held == a.shares[e.code]
           J == a.acted \union {e.id}
           C == a.cash + held * e.dividend
           S == [a.shares EXCEPT ![e.code] = held + (held * e.bonus) \div 10]
           O == IF e.bonus > 0 /\ a.lotted THEN a.offLots \union {e.code} ELSE a.offLots
           b == Distributed(a, e)
<1>1. /\ a \in Accounts /\ e.code \in Codes /\ e.bonus \in Nat /\ e.dividend \in Nat
  BY Corrections DEF Typed
<1>2. b = [a EXCEPT !.acted = J, !.cash = C, !.shares = S, !.offLots = O]
  BY DEF Distributed
<1>3. held \in Nat /\ a.shares \in [Codes -> Nat] /\ a.cash \in Int
  BY <1>1 DEF Accounts
<1>4. J \in SUBSET {y.id : y \in Actions} /\ O \in SUBSET Codes
  BY <1>1 DEF Accounts
<1>5. C \in Int
  <2>1. held * e.dividend \in Int
    BY <1>1, <1>3
  <2>2. QED BY <1>3, <2>1
<1>6. (held * e.bonus) \div 10 \in Nat
  <2>1. ASSUME NEW n \in Nat PROVE n \div 10 \in Nat
    OBVIOUS
  <2>2. held * e.bonus \in Nat
    BY <1>1, <1>3
  <2>3. QED BY <2>1, <2>2
<1>7. S \in [Codes -> Nat] /\ \A c \in Codes \ {e.code} : S[c] = a.shares[c]
  <2> DEFINE m == (held * e.bonus) \div 10
  <2>1. m \in Nat /\ S = [a.shares EXCEPT ![e.code] = held + m]
    BY <1>6
  <2> HIDE DEF m, S
  <2>2. QED BY <1>1, <1>3, <2>1
<1>8. e.bonus = 0 => S = a.shares
  <2> SUFFICES ASSUME e.bonus = 0 PROVE S = a.shares
    OBVIOUS
  <2>1. held * e.bonus = 0
    BY <1>3
  <2>2. (held * e.bonus) \div 10 = 0
    BY <2>1
  <2>3. held + (held * e.bonus) \div 10 = a.shares[e.code]
    BY <1>3, <2>2
  <2>4. QED BY <1>3, <2>3
<1> HIDE DEF J, C, S, O, b
<1>9. b \in Accounts
  BY <1>1, <1>2, <1>4, <1>5, <1>7 DEF Accounts
<1>10. /\ b.events = a.events /\ b.effects = a.effects /\ b.ledger = a.ledger
       /\ b.lots = a.lots /\ b.lotted = a.lotted /\ b.shares = S /\ b.offLots = O
  BY <1>1, <1>2 DEF Accounts
<1>11. Typed(b)
  BY <1>9, <1>10 DEF Typed
<1>12. QED BY <1>1, <1>7, <1>8, <1>10, <1>11 DEF O, b

-----------------------------------------------------------------------------
(* Type correctness *)

LEMMA NewAccountType == Typed(NewAccount) /\ NewAccount.events = << >>
<1>1. NewAccount \in Accounts
  BY Profile DEF NewAccount, Accounts
<1>2. QED BY <1>1 DEF Typed, NewAccount

\* A new account with nothing in memory has the types.
THEOREM TypingInit == Init => Typing
BY NewAccountType, Profile DEF Init, Typing, Days, idle

\* Every command, its save, every kill and every correction keeps the types.
THEOREM TypingStep == Typing /\ [Next]_vars => Typing'
<1> SUFFICES ASSUME Typing, [Next]_vars PROVE Typing'
  OBVIOUS
<1> USE Profile DEF Typing, idle
<1>1. CASE UNCHANGED vars
  BY <1>1 DEF vars
<1>2. CASE NextDay
  BY <1>2 DEF NextDay, Days
<1>3. ASSUME NEW fills \in Batches, NEW date \in Days, ApplyFillsAware(fills, date)
      PROVE  Typing'
  BY <1>3, BrokerFills DEF ApplyFillsAware, SettledFills
<1>4. ASSUME NEW date \in Days, Settle(date)
      PROVE  Typing'
  BY <1>4, OpenedType DEF Settle
<1>5. CASE RecordFill
  <2>1. batch[cursor] \in SettledFills
    BY <1>5 DEF RecordFill
  <2>2. Typed(draft')
    BY <1>5, <2>1, RecordFillType DEF RecordFill
  <2>3. QED BY <1>5, <2>2 DEF RecordFill
<1>6. CASE StartSettling
  BY <1>6, OpenedType DEF StartSettling
<1>7. CASE SettleEvent
  <2>1. cursor \in DOMAIN draft.events
    BY <1>7 DEF SettleEvent, Typed, Accounts
  <2>2. Typed(draft')
    <3>1. CASE Due(draft.events[cursor])
      BY <1>7, <2>1, <3>1, SettleDue DEF SettleEvent
    <3>2. CASE ~Due(draft.events[cursor])
      BY <1>7, <3>2 DEF SettleEvent
    <3>3. QED BY <3>1, <3>2
  <2>3. QED BY <1>7, <2>2 DEF SettleEvent
<1>8. CASE Save
  BY <1>8 DEF Save, Return
<1>9. CASE Crash
  BY <1>9 DEF Crash, Return
<1>10. ASSUME NEW f \in LegacyFills, ApplyFill(f)
       PROVE  Typing'
  BY <1>10, FilledType DEF ApplyFill, Store
<1>11. ASSUME NEW x \in Adjustments, ApplyAdjustment(x)
       PROVE  Typing'
  BY <1>11, AdjustedType DEF ApplyAdjustment, Store
<1>12. ASSUME NEW e \in Actions, ApplyCorporateAction(e)
       PROVE  Typing'
  BY <1>12, DistributedType DEF ApplyCorporateAction, Store
<1>13. QED BY <1>1, <1>2, <1>3, <1>4, <1>5, <1>6, <1>7, <1>8, <1>9, <1>10, <1>11, <1>12
           DEF Next

\* The account and its copy have their types in every state.
THEOREM TypingAlways == Spec => []Typing
<1>1. QED BY TypingInit, TypingStep, PTL DEF Spec

(***************************************************************************)
(* Every variable of the paper account has its type.                       *)
(***************************************************************************)
THEOREM TypeCorrect == Spec => []TypeOK
<1>1. Typing => TypeOK
  BY DEF Typing, TypeOK, Typed, SettledFills
<1>2. QED BY <1>1, TypingAlways, PTL

-----------------------------------------------------------------------------
(* A leg takes effect once *)

(***************************************************************************)
(* The calendar knows every day on which a fill of today settles.          *)
(***************************************************************************)
CalendarReaches == \A k \in Kinds : Lag[k] <= Ahead

Dated(e) ==
    e.kind \in Kinds =>
        \E f \in SettledFills : /\ e.src = f.id /\ e.code = f.code
                                /\ e.settle = f.day + Lag[e.kind]

(***************************************************************************)
(* Then an event of a fill is known by the fill and its kind alone.        *)
(***************************************************************************)
Known(es) ==
    /\ \A i \in DOMAIN es : Dated(es[i])
    /\ \A i, j \in DOMAIN es :
          es[i].kind \in Kinds /\ es[i].src = es[j].src /\ es[i].kind = es[j].kind => i = j

LegSettled(a, l) ==
    \E i \in DOMAIN a.events : /\ a.events[i].status = "settled"
                               /\ a.events[i].src = l[1] /\ a.events[i].kind = l[2]

LegFilled(a, l) == l[1] \in a.ledger /\ \E f \in LegacyFills : f.id = l[1]

(***************************************************************************)
(* A leg that took effect can be told: its event is settled, or its fill   *)
(* is one applied at once and in the ledger.                               *)
(***************************************************************************)
Once(a) ==
    /\ Known(a.events)
    /\ \A l \in Legs : /\ a.effects[l] <= 1
                       /\ a.effects[l] > 0 => LegSettled(a, l) \/ LegFilled(a, l)

BatchIsPast == \A i \in DOMAIN batch : batch[i].day <= today

Counted == Typing /\ Once(account) /\ Once(draft) /\ BatchIsPast

LEMMA EventsDated ==
    ASSUME CalendarReaches, NEW f \in SettledFills, today \in Days, f.day <= today
    PROVE  \A i \in 1..Len(EventsOf(f)) : Dated(EventsOf(f)[i])
<1>1. f \in Fills /\ f.day \in Nat /\ today \in Nat
  BY FillType, Profile DEF SettledFills, Days
<1>2. ASSUME NEW k \in Kinds, NEW s, NEW c, NEW t
      PROVE  Dated(Event(f, k, s, c, t))
  <2>1. NextTradeDate(f.day, Lag[k]) = f.day + Lag[k]
    <3>1. Lag[k] \in Nat /\ Ahead \in Nat /\ Lag[k] <= Ahead
      BY Profile DEF CalendarReaches
    <3>2. QED BY <1>1, <3>1 DEF NextTradeDate, Lesser
  <2>2. QED BY <2>1 DEF Dated, Event
<1>3. ASSUME NEW s, NEW c, NEW t
      PROVE  Dated(Event(f, "manual_adjustment", s, c, t))
  BY KindNames DEF Dated, Event
<1>4. QED BY <1>2, <1>3, KindNames DEF EventsOf

LEMMA AppendNewKnown ==
    ASSUME NEW es \in Seq(EventRecords), Known(es), NEW e \in EventRecords, Dated(e)
    PROVE  /\ Known(AppendNew(es, e))
           /\ DOMAIN es \subseteq DOMAIN AppendNew(es, e)
           /\ \A i \in DOMAIN es : AppendNew(es, e)[i] = es[i]
<1>1. CASE AppendNew(es, e) = es
  BY <1>1
<1>2. CASE /\ AppendNew(es, e) = Append(es, e)
           /\ \A i \in DOMAIN es : EventId(es[i]) # EventId(e)
  <2> DEFINE fs == Append(es, e)
             n == Len(es) + 1
  <2>1. /\ DOMAIN fs = 1..n /\ DOMAIN es = 1..Len(es) /\ fs[n] = e
        /\ \A i \in DOMAIN es : i \in DOMAIN fs /\ fs[i] = es[i] /\ i # n
        /\ \A i \in DOMAIN fs : i \in DOMAIN es \/ i = n
    OBVIOUS
  <2> HIDE DEF fs, n
  <2>2. \A i \in DOMAIN fs : Dated(fs[i])
    BY <2>1 DEF Known
  <2>3. ASSUME NEW i \in DOMAIN es, es[i].kind \in Kinds \/ e.kind \in Kinds,
               es[i].src = e.src, es[i].kind = e.kind
        PROVE  FALSE
    <3>1. PICK f \in SettledFills : /\ e.src = f.id /\ e.code = f.code
                                    /\ e.settle = f.day + Lag[e.kind]
      BY <2>3 DEF Dated
    <3>2. PICK g \in SettledFills : /\ es[i].src = g.id /\ es[i].code = g.code
                                    /\ es[i].settle = g.day + Lag[es[i].kind]
      BY <2>3 DEF Dated, Known
    <3>3. f = g
      BY <2>3, <3>1, <3>2, SameFill DEF SettledFills
    <3>4. EventId(es[i]) = EventId(e)
      BY <2>3, <3>1, <3>2, <3>3 DEF EventId
    <3>5. QED BY <1>2, <3>4
  <2>4. ASSUME NEW i \in DOMAIN fs, NEW j \in DOMAIN fs,
               fs[i].kind \in Kinds, fs[i].src = fs[j].src, fs[i].kind = fs[j].kind
        PROVE  i = j
    <3>1. CASE i \in DOMAIN es /\ j \in DOMAIN es
      BY <2>1, <2>4, <3>1 DEF Known
    <3>2. CASE i \in DOMAIN es /\ j = n
      BY <2>1, <2>3, <2>4, <3>2
    <3>3. CASE i = n /\ j \in DOMAIN es
      BY <2>1, <2>3, <2>4, <3>3
    <3>4. QED BY <2>1, <3>1, <3>2, <3>3
  <2>5. Known(fs)
    BY <2>2, <2>4 DEF Known
  <2>6. QED BY <1>2, <2>1, <2>5 DEF fs
<1>3. QED BY <1>1, <1>2 DEF AppendNew

LEMMA RecordedKnown ==
    ASSUME CalendarReaches, NEW es \in Seq(EventRecords), Known(es),
           NEW f \in SettledFills, today \in Days, f.day <= today
    PROVE  /\ Known(Recorded(es, f))
           /\ DOMAIN es \subseteq DOMAIN Recorded(es, f)
           /\ \A i \in DOMAIN es : Recorded(es, f)[i] = es[i]
<1> DEFINE one == AppendNew(es, EventsOf(f)[1])
<1>1. /\ EventsOf(f)[1] \in EventRecords /\ Dated(EventsOf(f)[1])
      /\ Len(EventsOf(f)) = 2 => EventsOf(f)[2] \in EventRecords /\ Dated(EventsOf(f)[2])
  BY EventsOfType, EventsDated
<1>2. /\ one \in Seq(EventRecords) /\ Known(one)
      /\ DOMAIN es \subseteq DOMAIN one /\ \A i \in DOMAIN es : one[i] = es[i]
  <2>1. one = es \/ one = Append(es, EventsOf(f)[1])
    BY DEF AppendNew
  <2>2. one \in Seq(EventRecords)
    BY <1>1, <2>1
  <2>3. QED BY <1>1, <2>2, AppendNewKnown
<1>3. CASE Len(EventsOf(f)) = 1
  BY <1>2, <1>3 DEF Recorded
<1>4. CASE Len(EventsOf(f)) = 2
  <2>1. Recorded(es, f) = AppendNew(one, EventsOf(f)[2])
    BY <1>4 DEF Recorded
  <2> HIDE DEF one
  <2>2. QED BY <1>1, <1>2, <1>4, <2>1, AppendNewKnown
<1>5. QED BY <1>3, <1>4, EventsOfType

LEMMA RecordFillOnce ==
    ASSUME CalendarReaches, NEW a, Typed(a), Once(a), NEW f \in SettledFills, today \in Days,
           f.day <= today, NEW b,
           b = [a EXCEPT !.ledger = @ \union {f.id}, !.events = Recorded(@, f)]
    PROVE  Once(b)
<1>1. a \in Accounts /\ a.events \in Seq(EventRecords)
  BY DEF Typed, Accounts
<1>2. /\ b.ledger = a.ledger \union {f.id} /\ b.events = Recorded(a.events, f)
      /\ b.effects = a.effects
  BY <1>1 DEF Accounts
<1>3. /\ Known(b.events) /\ DOMAIN a.events \subseteq DOMAIN b.events
      /\ \A i \in DOMAIN a.events : b.events[i] = a.events[i]
  BY <1>1, <1>2, RecordedKnown DEF Once
<1>4. QED BY <1>2, <1>3 DEF Once, LegSettled, LegFilled

\* Settling an event that is due counts its leg, which did not count before.
LEMMA SettleOnce ==
    ASSUME NEW a, Typed(a), Once(a), NEW i \in DOMAIN a.events, Due(a.events[i]),
           NEW c, c = Settled(Effect(a, a.events[i]), i)
    PROVE  Once(c)
<1> DEFINE e == a.events[i]
           l == <<e.src, e.kind>>
           d == [e EXCEPT !.status = "settled"]
<1>1. /\ c.events = [a.events EXCEPT ![i] = d] /\ c.ledger = a.ledger
      /\ c.effects = [a.effects EXCEPT ![l] = @ + 1] \/ c.effects = a.effects
      /\ Typed(c)
  BY SettleDue
<1>2. e \in EventRecords /\ l \in Legs /\ FromFill(e) /\ e.status = "pending" /\ e.kind \in Kinds
  BY DueIs DEF Due
<1>3. /\ d.src = e.src /\ d.kind = e.kind /\ d.code = e.code /\ d.settle = e.settle
      /\ d.status = "settled"
  BY <1>2 DEF EventRecords
<1>4. a.events \in Seq(EventRecords) /\ a.effects \in [Legs -> Nat]
  BY DEF Typed, Accounts
<1> HIDE DEF d, e
<1>5. DOMAIN c.events = DOMAIN a.events /\ c.events[i] = d
      /\ \A j \in DOMAIN a.events : j # i => c.events[j] = a.events[j]
  BY <1>1, <1>4
<1>6. Known(c.events)
  <2>1. \A j \in DOMAIN a.events : /\ c.events[j].src = a.events[j].src
                                   /\ c.events[j].kind = a.events[j].kind
                                   /\ c.events[j].code = a.events[j].code
                                   /\ c.events[j].settle = a.events[j].settle
    BY <1>3, <1>5 DEF e
  <2>2. \A j \in DOMAIN c.events : Dated(c.events[j])
    BY <1>5, <2>1 DEF Once, Known, Dated
  <2>3. QED BY <1>5, <2>1, <2>2 DEF Once, Known
<1>7. a.effects[l] = 0
  <2>1. ~LegSettled(a, l)
    BY <1>2 DEF LegSettled, Once, Known, e
  <2>2. ~LegFilled(a, l)
    BY <1>2, SameFill, BrokerFills DEF LegFilled, FromFill, SettledFills
  <2>3. QED BY <1>2, <1>4, <2>1, <2>2 DEF Once
<1>8. ASSUME NEW m \in Legs
      PROVE  c.effects[m] <= 1 /\ (c.effects[m] > 0 => LegSettled(c, m) \/ LegFilled(c, m))
  <2>1. CASE m = l
    <3>1. c.effects[l] \in {0, 1}
      BY <1>1, <1>2, <1>4, <1>7
    <3>2. LegSettled(c, l)
      BY <1>3, <1>5 DEF LegSettled
    <3>3. QED BY <2>1, <3>1, <3>2
  <2>2. CASE m # l
    <3>1. c.effects[m] = a.effects[m]
      BY <1>1, <1>4, <2>2
    <3>2. LegSettled(a, m) => LegSettled(c, m)
      <4>1. SUFFICES ASSUME NEW j \in DOMAIN a.events, a.events[j].status = "settled",
                            a.events[j].src = m[1], a.events[j].kind = m[2]
                     PROVE  LegSettled(c, m)
        BY DEF LegSettled
      <4>2. j # i
        BY <1>2, <4>1 DEF e
      <4>3. QED BY <1>5, <4>1, <4>2 DEF LegSettled
    <3>3. QED BY <1>1, <3>1, <3>2 DEF Once, LegFilled
  <2>3. QED BY <2>1, <2>2
<1>9. QED BY <1>6, <1>8 DEF Once

LEMMA OpenedFields ==
    ASSUME NEW a, Typed(a)
    PROVE  /\ Opened(a).events = a.events /\ Opened(a).effects = a.effects
           /\ Opened(a).ledger = a.ledger /\ Opened(a).cash = a.cash
           /\ Opened(a).shares = a.shares
           /\ Opened(a).lots = IF a.lotted THEN a.lots ELSE a.shares
           /\ Opened(a).lotted = (a.lotted \/ \E c \in Codes : a.shares[c] > 0)
           /\ Opened(a).offLots = IF a.lotted THEN a.offLots ELSE {}
<1>1. a \in Accounts
  BY DEF Typed
<1> DEFINE L == IF ~a.lotted THEN a.shares ELSE a.lots
           T == a.lotted \/ \E c \in Codes : a.shares[c] > 0
           O == IF ~a.lotted THEN {} ELSE a.offLots
<1>2. Opened(a) = [a EXCEPT !.lots = L, !.lotted = T, !.offLots = O, !.adjusted = {}]
  BY DEF Opened
<1> HIDE DEF L, T, O
<1>3. /\ Opened(a).events = a.events /\ Opened(a).effects = a.effects
      /\ Opened(a).ledger = a.ledger /\ Opened(a).cash = a.cash
      /\ Opened(a).shares = a.shares
      /\ Opened(a).lots = L /\ Opened(a).lotted = T /\ Opened(a).offLots = O
  BY <1>1, <1>2 DEF Accounts
<1>4. QED BY <1>3 DEF L, T, O

LEMMA FilledOnce ==
    ASSUME NEW a, Typed(a), Once(a), NEW f \in LegacyFills, f.id \notin a.ledger,
           f.side = "SELL" => f.shares <= a.shares[f.code]
    PROVE  Once(Filled(a, f))
<1> DEFINE b == Filled(a, f)
           l == CashLeg(f)
<1>1. /\ b.events = a.events /\ b.ledger = a.ledger \union {f.id} /\ l \in Legs
      /\ b.effects = a.effects \/ b.effects = [a.effects EXCEPT ![l] = @ + 1]
  BY FilledType
<1>2. l[1] = f.id /\ f \in Fills
  BY BrokerFills DEF CashLeg
<1>3. a.effects \in [Legs -> Nat]
  BY DEF Typed, Accounts
<1> HIDE DEF b, l
<1>4. a.effects[l] = 0
  <2>1. ~LegFilled(a, l)
    BY <1>2 DEF LegFilled
  <2>2. ~LegSettled(a, l)
    <3>1. SUFFICES ASSUME NEW i \in DOMAIN a.events, a.events[i].src = l[1],
                          a.events[i].kind = l[2]
                   PROVE  FALSE
      BY DEF LegSettled
    <3>2. a.events[i].kind \in Kinds
      BY <1>1, <3>1 DEF Legs
    <3>3. FromFill(a.events[i])
      BY <3>2 DEF Typed, Shaped
    <3>4. QED BY <1>2, <3>1, <3>3, SameFill DEF FromFill, SettledFills
  <2>3. QED BY <1>1, <1>3, <2>1, <2>2 DEF Once
<1>5. Known(b.events)
  BY <1>1 DEF Once
<1>6. ASSUME NEW m \in Legs
      PROVE  b.effects[m] <= 1 /\ (b.effects[m] > 0 => LegSettled(b, m) \/ LegFilled(b, m))
  <2>1. CASE m = l
    <3>1. b.effects[l] <= 1
      BY <1>1, <1>3, <1>4
    <3>2. LegFilled(b, l)
      BY <1>1, <1>2 DEF LegFilled
    <3>3. QED BY <2>1, <3>1, <3>2
  <2>2. CASE m # l
    <3>1. b.effects[m] = a.effects[m]
      BY <1>1, <1>3, <2>2
    <3>2. QED BY <1>1, <3>1 DEF Once, LegSettled, LegFilled
  <2>3. QED BY <2>1, <2>2
<1>7. QED BY <1>5, <1>6 DEF Once, b

LEMMA AdjustedOnce ==
    ASSUME NEW a, Typed(a), Once(a), NEW x \in Adjustments, today \in Days
    PROVE  Once(Adjusted(a, x))
<1> DEFINE b == Adjusted(a, x)
           e == ManualEvent(x)
           n == Len(a.events) + 1
<1>1. /\ b.events = Append(a.events, e) /\ b.effects = a.effects /\ b.ledger = a.ledger
      /\ e \in EventRecords
  BY AdjustedType
<1>2. a.events \in Seq(EventRecords)
  BY DEF Typed, Accounts
<1>3. e.kind \notin Kinds
  BY KindNames DEF ManualEvent
<1> HIDE DEF b, e
<1>4. /\ DOMAIN b.events = 1..n /\ DOMAIN a.events = 1..Len(a.events) /\ b.events[n] = e
      /\ \A i \in DOMAIN a.events : i \in DOMAIN b.events /\ b.events[i] = a.events[i]
      /\ \A i \in DOMAIN b.events : i \in DOMAIN a.events \/ i = n
  BY <1>1, <1>2
<1> HIDE DEF n
<1>5. Known(b.events)
  BY <1>3, <1>4 DEF Once, Known, Dated
<1>6. \A l \in Legs : LegSettled(a, l) => LegSettled(b, l)
  BY <1>4 DEF LegSettled
<1>7. QED BY <1>1, <1>5, <1>6 DEF Once, LegFilled, b

\* A new account has settled no leg.
THEOREM CountedInit == Init => Counted
<1> SUFFICES ASSUME Init PROVE Counted
  OBVIOUS
<1>1. Typing
  BY TypingInit
<1>2. account = NewAccount /\ draft = NewAccount /\ batch = << >>
  BY DEF Init
<1>3. NewAccount.events = << >> /\ NewAccount.effects = [l \in Legs |-> 0]
  BY DEF NewAccount
<1>4. Once(NewAccount)
  BY <1>3 DEF Once, Known
<1>5. QED BY <1>1, <1>2, <1>4 DEF Counted, BatchIsPast

\* No step settles a leg for the second time, if the calendar reaches far enough.
THEOREM CountedStep ==
    ASSUME CalendarReaches
    PROVE  Counted /\ [Next]_vars => Counted'
<1> SUFFICES ASSUME Counted, [Next]_vars PROVE Counted'
  OBVIOUS
<1>0. Typing'
  BY TypingStep DEF Counted
<1> USE DEF Counted, BatchIsPast
<1>1. CASE UNCHANGED vars
  BY <1>0, <1>1 DEF vars
<1>2. CASE NextDay
  <2>1. today \in Nat /\ today' = today + 1 /\ batch' = batch
    BY <1>2, Profile DEF NextDay, Typing, Days
  <2>2. \A i \in DOMAIN batch : batch[i].day \in Nat
    BY FillType DEF Typing, SettledFills
  <2>3. today \in Int /\ \A i \in DOMAIN batch : batch[i].day <= today + 1
    BY <2>1, <2>2
  <2>4. BatchIsPast'
    BY <2>1, <2>3
  <2>5. QED BY <1>0, <1>2, <2>4 DEF NextDay
<1>3. ASSUME NEW fills \in Batches, NEW date \in Days, ApplyFillsAware(fills, date)
      PROVE  Counted'
  BY <1>0, <1>3 DEF ApplyFillsAware
<1>4. ASSUME NEW a, Typed(a), Once(a)
      PROVE  Once(Opened(a))
  BY <1>4, OpenedFields DEF Once, LegSettled, LegFilled
<1>5. ASSUME NEW date \in Days, Settle(date)
      PROVE  Counted'
  BY <1>0, <1>4, <1>5 DEF Settle, Typing
<1>6. CASE RecordFill
  <2>1. batch[cursor] \in SettledFills /\ batch[cursor].day <= today
    BY <1>6 DEF RecordFill, Typing
  <2>2. Once(draft')
    BY <1>6, <2>1, RecordFillOnce DEF RecordFill, Typing
  <2>3. QED BY <1>0, <1>6, <2>2 DEF RecordFill
<1>7. CASE StartSettling
  BY <1>0, <1>4, <1>7 DEF StartSettling, Typing
<1>8. CASE SettleEvent
  <2>1. cursor \in DOMAIN draft.events
    BY <1>8 DEF SettleEvent, Typing, Typed, Accounts
  <2>2. Once(draft')
    <3>1. CASE Due(draft.events[cursor])
      BY <1>8, <2>1, <3>1, SettleOnce DEF SettleEvent, Typing
    <3>2. CASE ~Due(draft.events[cursor])
      BY <1>8, <3>2 DEF SettleEvent
    <3>3. QED BY <3>1, <3>2
  <2>3. QED BY <1>0, <1>8, <2>2 DEF SettleEvent
<1>9. CASE Save
  BY <1>0, <1>9 DEF Save, Return
<1>10. CASE Crash
  BY <1>0, <1>10 DEF Crash, Return
<1>11. ASSUME NEW f \in LegacyFills, ApplyFill(f)
       PROVE  Counted'
  BY <1>0, <1>11, FilledOnce DEF ApplyFill, Store, Typing
<1>12. ASSUME NEW x \in Adjustments, ApplyAdjustment(x)
       PROVE  Counted'
  BY <1>0, <1>12, AdjustedOnce DEF ApplyAdjustment, Store, Typing
<1>13. ASSUME NEW e \in Actions, ApplyCorporateAction(e)
       PROVE  Counted'
  <2>1. Once(Distributed(account, e))
    <3> DEFINE b == Distributed(account, e)
    <3>1. b.events = account.events /\ b.effects = account.effects /\ b.ledger = account.ledger
      BY DistributedType DEF Typing
    <3> HIDE DEF b
    <3>2. Once(b)
      BY <3>1 DEF Once, LegSettled, LegFilled
    <3>3. QED BY <3>2 DEF b
  <2>2. /\ account' = Distributed(account, e) /\ draft' = Distributed(account, e)
        /\ batch' = batch /\ today' = today
    BY <1>13 DEF ApplyCorporateAction, Store
  <2>3. Once(account') /\ Once(draft')
    BY <2>1, <2>2
  <2>4. QED BY <1>0, <2>2, <2>3
<1>14. QED BY <1>1, <1>2, <1>3, <1>5, <1>6, <1>7, <1>8, <1>9, <1>10, <1>11, <1>12, <1>13
           DEF Next

(***************************************************************************)
(* A leg of a fill takes effect at most once, whatever is repeated, killed *)
(* or interleaved with corrections, if the calendar reaches far enough.    *)
(***************************************************************************)
THEOREM LegsPaidOnce ==
    ASSUME CalendarReaches
    PROVE  Spec => []PaidOnce
<1>1. Counted => PaidOnce
  BY DEF Counted, Once, PaidOnce
<1>2. Counted /\ [Next]_vars => Counted'
  BY CountedStep
<1>3. QED BY <1>1, <1>2, CountedInit, PTL DEF Spec

-----------------------------------------------------------------------------
(* Positions follow their lots *)

InStep(a) == \A c \in Codes \ a.offLots : a.shares[c] = a.lots[c]
NoLots(a) == \A c \in Codes : a.lots[c] = 0

Follows(a) == IF a.lotted THEN InStep(a) ELSE NoLots(a)

(***************************************************************************)
(* Settlement gives lots to an account that had none, and from then on the *)
(* draft is in step even if it turned out to have nothing.                 *)
(***************************************************************************)
Following ==
    /\ Typing
    /\ Follows(account) /\ Follows(draft)
    /\ phase = "settling" => InStep(draft)

LEMMA Amounts ==
    ASSUME NEW a, Typed(a)
    PROVE  a.shares \in [Codes -> Nat] /\ a.lots \in [Codes -> Nat] /\ a.lotted \in BOOLEAN
           /\ a.offLots \subseteq Codes
BY DEF Typed, Accounts

LEMMA OpenedFollows ==
    ASSUME NEW a, Typed(a), Follows(a)
    PROVE  Follows(Opened(a)) /\ InStep(Opened(a))
<1> DEFINE b == Opened(a)
<1>1. /\ b.shares = a.shares
      /\ b.lots = IF a.lotted THEN a.lots ELSE a.shares
      /\ b.lotted = (a.lotted \/ \E c \in Codes : a.shares[c] > 0)
      /\ b.offLots = IF a.lotted THEN a.offLots ELSE {}
  BY OpenedFields
<1>2. a.shares \in [Codes -> Nat] /\ a.lotted \in BOOLEAN
  BY Amounts
<1> HIDE DEF b
<1>3. InStep(b)
  BY <1>1 DEF InStep, Follows
<1>4. ASSUME ~b.lotted PROVE NoLots(b)
  <2>1. ~a.lotted /\ \A c \in Codes : ~(a.shares[c] > 0)
    BY <1>1, <1>2, <1>4
  <2>2. b.lots = a.shares
    BY <1>1, <2>1
  <2>3. \A c \in Codes : a.shares[c] = 0
    BY <1>2, <2>1
  <2>4. QED BY <2>2, <2>3 DEF NoLots
<1>5. QED BY <1>3, <1>4 DEF Follows, b

LEMMA SettleFollows ==
    ASSUME NEW a, Typed(a), Follows(a), InStep(a), NEW i \in DOMAIN a.events,
           Due(a.events[i]), NEW c, c = Settled(Effect(a, a.events[i]), i)
    PROVE  Follows(c) /\ InStep(c)
<1> DEFINE e == a.events[i]
<1>1. SamePositions(a, c) \/ Repositioned(a, c, e.code)
  BY SettleDue
<1> HIDE DEF e
<1>2. CASE SamePositions(a, c)
  BY <1>2 DEF Follows, InStep, NoLots, SamePositions
<1>3. CASE Repositioned(a, c, e.code)
  <2> USE DEF Repositioned
  <2>1. PICK n \in Nat : /\ c.lotted \/ (c.lotted = a.lotted /\ n <= a.lots[e.code])
                         /\ c.lots = [a.lots EXCEPT ![e.code] = n]
                         /\ c.shares = [a.shares EXCEPT ![e.code] = n]
    BY <1>3
  <2>2. /\ c.lots[e.code] = n /\ c.shares[e.code] = n
        /\ \A d \in Codes \ {e.code} : c.lots[d] = a.lots[d] /\ c.shares[d] = a.shares[d]
    BY <1>3, <2>1, Amounts
  <2>3. InStep(c)
    BY <1>3, <2>2 DEF InStep
  <2>4. ~c.lotted => NoLots(c)
    BY <1>3, <2>1, <2>2 DEF Follows, NoLots
  <2>5. QED BY <2>3, <2>4 DEF Follows
<1>4. QED BY <1>1, <1>2, <1>3

\* A position may be written apart from its lots if the code is marked so.
LEMMA MarkedFollows ==
    ASSUME NEW a, NEW b, NEW W, Follows(a), b.lots = a.lots, b.lotted = a.lotted,
           \A c \in Codes \ W : b.shares[c] = a.shares[c],
           a.lotted => b.offLots = a.offLots \union W
    PROVE  Follows(b)
BY DEF Follows, InStep, NoLots

LEMMA AdjustedFollows ==
    ASSUME NEW a, Typed(a), Follows(a), NEW x \in Adjustments, today \in Days
    PROVE  Follows(Adjusted(a, x))
<1> DEFINE b == Adjusted(a, x)
<1>1. /\ x.code \in Codes /\ x.shares \in Int
      /\ b.shares = [a.shares EXCEPT ![x.code] = AtLeastZero(a.shares[x.code] + x.shares)]
      /\ b.lots = IF x.shares > 0 THEN [a.lots EXCEPT ![x.code] = a.lots[x.code] + x.shares]
                  ELSE a.lots
      /\ b.lotted = (a.lotted \/ x.shares > 0)
      /\ b.offLots =
           IF x.shares > 0
           THEN a.offLots \union IF a.lotted THEN {} ELSE {c \in Codes : a.shares[c] > 0}
           ELSE IF x.shares < 0 /\ a.lotted THEN a.offLots \union {x.code} ELSE a.offLots
  BY AdjustedType
<1>2. a.shares \in [Codes -> Nat] /\ a.lots \in [Codes -> Nat] /\ a.lotted \in BOOLEAN
  BY Amounts
<1> HIDE DEF b
<1>3. CASE x.shares > 0
  <2>1. /\ b.lotted
        /\ b.shares[x.code] = a.shares[x.code] + x.shares
        /\ b.lots[x.code] = a.lots[x.code] + x.shares
        /\ \A c \in Codes \ {x.code} : b.shares[c] = a.shares[c] /\ b.lots[c] = a.lots[c]
    <3>1. AtLeastZero(a.shares[x.code] + x.shares) = a.shares[x.code] + x.shares
      BY <1>1, <1>2, <1>3 DEF AtLeastZero
    <3>2. b.shares = [a.shares EXCEPT ![x.code] = a.shares[x.code] + x.shares]
      BY <1>1, <3>1
    <3>3. b.lots = [a.lots EXCEPT ![x.code] = a.lots[x.code] + x.shares]
      BY <1>1, <1>3
    <3>4. b.lotted
      BY <1>1, <1>3
    <3>5. QED BY <1>1, <1>2, <3>2, <3>3, <3>4
  <2>2. b.offLots = a.offLots \union IF a.lotted THEN {} ELSE {c \in Codes : a.shares[c] > 0}
    BY <1>1, <1>3
  <2>3. \A c \in Codes \ b.offLots : a.shares[c] = a.lots[c]
    <3>1. CASE a.lotted
      BY <2>2, <3>1 DEF Follows, InStep
    <3>2. CASE ~a.lotted
      BY <1>2, <2>2, <3>2 DEF Follows, NoLots
    <3>3. QED BY <3>1, <3>2
  <2>4. InStep(b)
    BY <2>1, <2>3 DEF InStep
  <2>5. Follows(b)
    BY <2>1, <2>4 DEF Follows
  <2>6. QED BY <2>5 DEF b
<1>4. CASE x.shares = 0
  <2>1. b.shares = a.shares
    <3>1. AtLeastZero(a.shares[x.code] + x.shares) = a.shares[x.code]
      BY <1>1, <1>2, <1>4 DEF AtLeastZero
    <3>2. QED BY <1>1, <1>2, <3>1
  <2>2. b.lots = a.lots /\ b.lotted = a.lotted /\ b.offLots = a.offLots
    BY <1>1, <1>2, <1>4
  <2>3. /\ a.lotted => b.offLots = a.offLots \union {}
        /\ \A c \in Codes \ {} : b.shares[c] = a.shares[c]
    BY <2>1, <2>2
  <2>4. QED BY <2>2, <2>3, MarkedFollows DEF b
<1>5. CASE x.shares < 0
  <2>1. /\ b.lots = a.lots /\ b.lotted = a.lotted
        /\ a.lotted => b.offLots = a.offLots \union {x.code}
        /\ \A c \in Codes \ {x.code} : b.shares[c] = a.shares[c]
    <3>1. ~(x.shares > 0)
      BY <1>1, <1>5
    <3>2. b.lots = a.lots
      BY <1>1, <3>1
    <3>3. b.lotted = a.lotted
      BY <1>1, <1>2, <3>1
    <3>4. a.lotted => b.offLots = a.offLots \union {x.code}
      BY <1>1, <1>5, <3>1
    <3>5. QED BY <1>1, <1>2, <3>2, <3>3, <3>4
  <2>2. QED BY <2>1, MarkedFollows DEF b
<1>6. QED BY <1>1, <1>3, <1>4, <1>5

\* No step lets the shares of a code and its lots part.
THEOREM FollowingStep == Following /\ [Next]_vars => Following'
<1> SUFFICES ASSUME Following, [Next]_vars PROVE Following'
  OBVIOUS
<1>0. Typing'
  BY TypingStep DEF Following
<1> USE DEF Following
<1>1. CASE UNCHANGED vars
  BY <1>0, <1>1 DEF vars
<1>2. CASE NextDay
  BY <1>0, <1>2 DEF NextDay
<1>3. ASSUME NEW fills \in Batches, NEW date \in Days, ApplyFillsAware(fills, date)
      PROVE  Following'
  BY <1>0, <1>3 DEF ApplyFillsAware
<1>4. ASSUME NEW date \in Days, Settle(date)
      PROVE  Following'
  BY <1>0, <1>4, OpenedFollows DEF Settle, Typing
<1>5. CASE RecordFill
  <2>1. /\ draft'.shares = draft.shares /\ draft'.lots = draft.lots
        /\ draft'.lotted = draft.lotted /\ draft'.offLots = draft.offLots
    BY <1>5 DEF RecordFill, Typing, Typed, Accounts
  <2>2. Follows(draft')
    BY <2>1, draft'.offLots = draft.offLots \union {}, MarkedFollows
  <2>3. QED BY <1>0, <1>5, <2>2 DEF RecordFill
<1>6. CASE StartSettling
  BY <1>0, <1>6, OpenedFollows DEF StartSettling, Typing
<1>7. CASE SettleEvent
  <2>1. cursor \in DOMAIN draft.events /\ phase = "settling"
    BY <1>7 DEF SettleEvent, Typing, Typed, Accounts
  <2>2. Follows(draft') /\ InStep(draft')
    <3>1. CASE Due(draft.events[cursor])
      BY <1>7, <2>1, <3>1, SettleFollows DEF SettleEvent, Typing
    <3>2. CASE ~Due(draft.events[cursor])
      BY <1>7, <2>1, <3>2 DEF SettleEvent
    <3>3. QED BY <3>1, <3>2
  <2>3. QED BY <1>0, <1>7, <2>2 DEF SettleEvent
<1>8. CASE Save
  BY <1>0, <1>8 DEF Save, Return
<1>9. CASE Crash
  BY <1>0, <1>9 DEF Crash, Return
<1>10. ASSUME NEW f \in LegacyFills, ApplyFill(f)
       PROVE  Following'
  <2>1. Follows(Filled(account, f))
    <3> DEFINE b == Filled(account, f)
    <3>1. /\ b.lots = account.lots /\ b.lotted = account.lotted
          /\ \/ b.shares = account.shares /\ b.offLots = account.offLots
             \/ /\ \A c \in Codes \ {f.code} : b.shares[c] = account.shares[c]
                /\ b.offLots = IF account.lotted THEN account.offLots \union {f.code}
                               ELSE account.offLots
      BY <1>10, FilledType DEF ApplyFill, Typing
    <3> HIDE DEF b
    <3>2. CASE b.shares = account.shares /\ b.offLots = account.offLots \union {}
      BY <3>1, <3>2, MarkedFollows DEF b
    <3>3. CASE /\ \A c \in Codes \ {f.code} : b.shares[c] = account.shares[c]
               /\ account.lotted => b.offLots = account.offLots \union {f.code}
      BY <3>1, <3>3, MarkedFollows DEF b
    <3>4. QED BY <3>1, <3>2, <3>3
  <2>2. QED BY <1>0, <1>10, <2>1 DEF ApplyFill, Store, idle
<1>11. ASSUME NEW x \in Adjustments, ApplyAdjustment(x)
       PROVE  Following'
  BY <1>0, <1>11, AdjustedFollows DEF ApplyAdjustment, Store, Typing, idle
<1>12. ASSUME NEW e \in Actions, ApplyCorporateAction(e)
       PROVE  Following'
  <2>1. Follows(Distributed(account, e))
    <3> DEFINE b == Distributed(account, e)
    <3>1. /\ b.lots = account.lots /\ b.lotted = account.lotted
          /\ b.offLots = IF e.bonus > 0 /\ account.lotted THEN account.offLots \union {e.code}
                         ELSE account.offLots
          /\ \A c \in Codes \ {e.code} : b.shares[c] = account.shares[c]
          /\ e.bonus = 0 => b.shares = account.shares
          /\ e.bonus \in Nat
      BY DistributedType DEF Typing
    <3> HIDE DEF b
    <3>2. CASE e.bonus = 0
      <4>1. b.offLots = account.offLots \union {}
        BY <3>1, <3>2
      <4>2. QED BY <3>1, <3>2, <4>1, MarkedFollows DEF b
    <3>3. CASE e.bonus > 0
      BY <3>1, <3>3, MarkedFollows DEF b
    <3>4. QED BY <3>1, <3>2, <3>3
  <2>2. QED BY <1>0, <1>12, <2>1 DEF ApplyCorporateAction, Holder, Store, idle
<1>13. QED BY <1>1, <1>2, <1>3, <1>4, <1>5, <1>6, <1>7, <1>8, <1>9, <1>10, <1>11, <1>12
           DEF Next

(***************************************************************************)
(* A code whose position was not written apart from the lots has exactly   *)
(* the shares its lots have left.                                          *)
(***************************************************************************)
THEOREM LotsFollowed == Spec => []PositionsFollowLots
<1>1. Init => Following
  <2> SUFFICES ASSUME Init PROVE Following
    OBVIOUS
  <2>1. NewAccount.lotted = FALSE /\ NewAccount.lots = [c \in Codes |-> 0]
    BY DEF NewAccount
  <2>2. Follows(NewAccount)
    BY <2>1 DEF Follows, NoLots
  <2>3. QED BY <2>2, TypingInit DEF Init, Following
<1>2. Following => PositionsFollowLots
  BY DEF Following, Follows, InStep, NoLots, PositionsFollowLots
<1>3. QED BY <1>1, <1>2, FollowingStep, PTL DEF Spec

-----------------------------------------------------------------------------
(* A saved command has settled what was due, and nothing twice *)

HasId(es, id) == \E i \in DOMAIN es : EventId(es[i]) = id

(***************************************************************************)
(* A fill in the ledger has its events, whenever one makes them again.     *)
(***************************************************************************)
Booked(a) ==
    \A f \in SettledFills : f.id \in a.ledger =>
        /\ f.day <= today
        /\ \A i \in 1..Len(EventsOf(f)) : HasId(a.events, EventId(EventsOf(f)[i]))

\* What the loop has passed is not due any more.
Swept ==
    phase = "settling" =>
        \A i \in DOMAIN draft.events : i < cursor => ~Due(draft.events[i])

\* The command has nothing to do.
Quiet ==
    /\ \A i \in DOMAIN batch : batch[i].id \in account.ledger
    /\ \A i \in DOMAIN account.events : ~Due(account.events[i])

Unmoved(a, b) == b.cash = a.cash /\ b.shares = a.shares /\ b.events = a.events

Settling ==
    /\ Typing /\ BatchIsPast
    /\ Booked(account) /\ Booked(draft)
    /\ Swept
    /\ Quiet => Unmoved(account, draft)

\* Tomorrow a fill of the past makes the same events.
LEMMA EventsStay ==
    ASSUME CalendarReaches, NEW f \in SettledFills, today \in Days, today' \in Days,
           f.day <= today, f.day <= today'
    PROVE  EventsOf(f)' = EventsOf(f)
<1>1. f \in Fills /\ f.day \in Nat /\ today \in Nat /\ today' \in Nat
  BY FillType, Profile DEF SettledFills, Days
<1>2. ASSUME NEW k \in Kinds
      PROVE  NextTradeDate(f.day, Lag[k])' = NextTradeDate(f.day, Lag[k])
  <2>1. Lag[k] \in Nat /\ Ahead \in Nat /\ Lag[k] <= Ahead
    BY Profile DEF CalendarReaches
  <2>2. QED BY <1>1, <2>1 DEF NextTradeDate, Lesser
<1>3. ASSUME NEW k, NEW s, NEW c, NEW t
      PROVE  Event(f, k, s, c, t)' = Event(f, k, s, c, t)
  BY <1>2 DEF Event
<1>4. QED BY <1>3 DEF EventsOf

LEMMA AppendNewHas ==
    ASSUME NEW es \in Seq(EventRecords), NEW e \in EventRecords
    PROVE  /\ AppendNew(es, e) \in Seq(EventRecords)
           /\ HasId(AppendNew(es, e), EventId(e))
           /\ \A id : HasId(es, id) => HasId(AppendNew(es, e), id)
           /\ HasId(es, EventId(e)) => AppendNew(es, e) = es
<1>1. CASE HasId(es, EventId(e))
  BY <1>1 DEF AppendNew, HasId
<1>2. CASE ~HasId(es, EventId(e))
  <2> DEFINE fs == Append(es, e)
  <2>1. AppendNew(es, e) = fs
    BY <1>2 DEF AppendNew, HasId
  <2>2. /\ fs \in Seq(EventRecords)
        /\ Len(es) + 1 \in DOMAIN fs /\ fs[Len(es) + 1] = e
        /\ \A i \in DOMAIN es : i \in DOMAIN fs /\ fs[i] = es[i]
    OBVIOUS
  <2> HIDE DEF fs
  <2>3. QED BY <1>2, <2>1, <2>2 DEF HasId
<1>3. QED BY <1>1, <1>2

\* A recorded fill has its events, and recording it again changes nothing.
LEMMA RecordedHas ==
    ASSUME NEW es \in Seq(EventRecords), NEW f \in SettledFills, today \in Days
    PROVE  /\ \A i \in 1..Len(EventsOf(f)) : HasId(Recorded(es, f), EventId(EventsOf(f)[i]))
           /\ \A id : HasId(es, id) => HasId(Recorded(es, f), id)
           /\ (\A i \in 1..Len(EventsOf(f)) : HasId(es, EventId(EventsOf(f)[i])))
                  => Recorded(es, f) = es
<1> DEFINE ev == EventsOf(f)
           one == AppendNew(es, ev[1])
<1>1. Len(ev) \in {1, 2} /\ \A i \in 1..Len(ev) : ev[i] \in EventRecords
  BY EventsOfType
<1>2. Recorded(es, f) = IF Len(ev) = 1 THEN one ELSE AppendNew(one, ev[2])
  BY DEF Recorded
<1> HIDE DEF ev
<1>3. /\ one \in Seq(EventRecords) /\ HasId(one, EventId(ev[1]))
      /\ \A id : HasId(es, id) => HasId(one, id)
      /\ HasId(es, EventId(ev[1])) => one = es
  BY <1>1, AppendNewHas
<1> HIDE DEF one
<1>4. CASE Len(ev) = 1
  <2>1. \A i \in 1..Len(ev) : i = 1
    BY <1>4
  <2>2. QED BY <1>2, <1>3, <1>4, <2>1 DEF ev
<1>5. CASE Len(ev) = 2
  <2>1. ev[2] \in EventRecords /\ 1 \in 1..Len(ev) /\ 2 \in 1..Len(ev)
        /\ \A i \in 1..Len(ev) : i = 1 \/ i = 2
    BY <1>1, <1>5
  <2> DEFINE two == AppendNew(one, ev[2])
  <2>2. /\ HasId(two, EventId(ev[2]))
        /\ \A id : HasId(one, id) => HasId(two, id)
        /\ HasId(one, EventId(ev[2])) => two = one
    BY <1>3, <2>1, AppendNewHas
  <2>3. Recorded(es, f) = two
    BY <1>2, <1>5
  <2> HIDE DEF two
  <2>4. QED BY <1>3, <2>1, <2>2, <2>3 DEF ev
<1>6. QED BY <1>1, <1>4, <1>5

\* Booked of document b in the next state.
BookedNext(b) ==
    \A f \in SettledFills : f.id \in b.ledger =>
        /\ f.day <= today'
        /\ \A i \in 1..Len(EventsOf(f)') : HasId(b.events, EventId(EventsOf(f)'[i]))

LEMMA NextIsBooked ==
    ASSUME BookedNext(account'), BookedNext(draft')
    PROVE  Booked(account)' /\ Booked(draft)'
BY DEF BookedNext, Booked, HasId

\* A document that keeps its ledger and its events' identities stays booked.
LEMMA BookedKept ==
    ASSUME NEW a, NEW b, Booked(a), UNCHANGED today,
           \A f \in SettledFills : f.id \in b.ledger => f.id \in a.ledger,
           \A id : HasId(a.events, id) => HasId(b.events, id)
    PROVE  BookedNext(b)
<1>1. \A f \in SettledFills : EventsOf(f)' = EventsOf(f)
  BY DEF EventsOf, Event, NextTradeDate
<1>2. QED BY <1>1 DEF Booked, BookedNext

LEMMA BookedSame ==
    ASSUME NEW a, Booked(a), UNCHANGED today
    PROVE  BookedNext(a)
BY BookedKept

LEMMA BookedTomorrow ==
    ASSUME CalendarReaches, NEW a, Booked(a), today \in Days, today' \in Days,
           today' = today + 1
    PROVE  BookedNext(a)
<1> SUFFICES ASSUME NEW f \in SettledFills, f.id \in a.ledger
             PROVE  /\ f.day <= today'
                    /\ \A i \in 1..Len(EventsOf(f)') : HasId(a.events, EventId(EventsOf(f)'[i]))
  BY DEF BookedNext
<1>1. f.day <= today /\ f.day <= today'
  BY FillType, Profile DEF Booked, SettledFills, Days
<1>2. EventsOf(f)' = EventsOf(f)
  BY <1>1, EventsStay
<1>3. QED BY <1>1, <1>2 DEF Booked

LEMMA RecordFillBooked ==
    ASSUME NEW a, Typed(a), Booked(a), NEW f \in SettledFills, today \in Days,
           f.day <= today, UNCHANGED today, NEW b,
           b = [a EXCEPT !.ledger = @ \union {f.id}, !.events = Recorded(@, f)]
    PROVE  /\ BookedNext(b)
           /\ b.cash = a.cash /\ b.shares = a.shares
           /\ (\A i \in 1..Len(EventsOf(f)) : HasId(a.events, EventId(EventsOf(f)[i])))
                  => b.events = a.events
<1>1. a \in Accounts /\ a.events \in Seq(EventRecords)
  BY DEF Typed, Accounts
<1>2. /\ b.ledger = a.ledger \union {f.id} /\ b.events = Recorded(a.events, f)
      /\ b.cash = a.cash /\ b.shares = a.shares
  BY <1>1 DEF Accounts
<1>3. /\ \A i \in 1..Len(EventsOf(f)) : HasId(b.events, EventId(EventsOf(f)[i]))
      /\ \A id : HasId(a.events, id) => HasId(b.events, id)
      /\ (\A i \in 1..Len(EventsOf(f)) : HasId(a.events, EventId(EventsOf(f)[i])))
            => b.events = a.events
  BY <1>1, <1>2, RecordedHas
<1>4. Booked(b)
  <2> SUFFICES ASSUME NEW g \in SettledFills, g.id \in b.ledger
               PROVE  /\ g.day <= today
                      /\ \A i \in 1..Len(EventsOf(g)) :
                            HasId(b.events, EventId(EventsOf(g)[i]))
    BY DEF Booked
  <2>1. CASE g.id = f.id
    <3>1. g = f
      BY <2>1, SameFill DEF SettledFills
    <3>2. QED BY <1>3, <3>1
  <2>2. CASE g.id # f.id
    <3>1. g.id \in a.ledger
      BY <1>2, <2>2
    <3>2. QED BY <1>3, <3>1 DEF Booked
  <2>3. QED BY <2>1, <2>2
<1>5. QED BY <1>2, <1>3, <1>4, BookedSame

LEMMA SettleKeepsIds ==
    ASSUME NEW a, Typed(a), NEW i \in DOMAIN a.events, Due(a.events[i]),
           NEW c, c = Settled(Effect(a, a.events[i]), i)
    PROVE  /\ \A id : HasId(a.events, id) => HasId(c.events, id)
           /\ c.ledger = a.ledger
           /\ DOMAIN c.events = DOMAIN a.events
           /\ \A j \in DOMAIN a.events : j # i => c.events[j] = a.events[j]
           /\ c.events[i].status = "settled"
<1> DEFINE e == a.events[i]
           l == <<e.src, e.kind>>
           d == [e EXCEPT !.status = "settled"]
<1>1. /\ c.events = [a.events EXCEPT ![i] = d] /\ c.ledger = a.ledger
      /\ c.effects = [a.effects EXCEPT ![l] = @ + 1] \/ c.effects = a.effects
      /\ Typed(c)
  BY SettleDue
<1>2. a.events[i] \in EventRecords
  BY DueIs
<1>3. EventId(d) = EventId(a.events[i]) /\ d.status = "settled"
  BY <1>2 DEF EventRecords, EventId
<1>4. a.events \in Seq(EventRecords)
  BY DEF Typed, Accounts
<1> HIDE DEF d
<1>5. /\ DOMAIN c.events = DOMAIN a.events /\ c.events[i] = d
      /\ \A j \in DOMAIN a.events : j # i => c.events[j] = a.events[j]
  BY <1>1, <1>4
<1>6. \A id : HasId(a.events, id) => HasId(c.events, id)
  BY <1>3, <1>5 DEF HasId
<1>7. QED BY <1>1, <1>3, <1>5, <1>6

\* The commands that are one step leave nothing in the draft.
LEMMA StoreSettling ==
    ASSUME Settling, Typing', NEW b, Store(b), idle, BookedNext(b)
    PROVE  Settling'
<1>1. /\ account' = b /\ draft' = b /\ UNCHANGED <<today, phase, batch, asOf, cursor>>
  BY DEF Store
<1>2. Booked(account)' /\ Booked(draft)'
  BY <1>1, NextIsBooked
<1>3. BatchIsPast' /\ Swept' /\ (Quiet => Unmoved(account, draft))'
  BY <1>1 DEF Settling, BatchIsPast, Swept, idle, Unmoved
<1>4. QED BY <1>2, <1>3 DEF Settling

\* Settlement starts from what was booked, and at the first event.
LEMMA OpeningSettling ==
    ASSUME Settling, Typing', UNCHANGED <<today, account, batch>>, cursor' = 1,
           NEW a, Typed(a), Booked(a), draft' = Opened(a),
           Quiet' => Unmoved(account, a)
    PROVE  Settling'
<1>1. /\ draft'.events = a.events /\ draft'.ledger = a.ledger
      /\ draft'.cash = a.cash /\ draft'.shares = a.shares
  BY OpenedFields
<1>2. BookedNext(draft') /\ BookedNext(account')
  BY <1>1, BookedKept, BookedSame DEF Settling
<1>3. Swept'
  <2>1. \A i \in DOMAIN draft'.events : ~(i < 1)
    BY <1>1 DEF Typed, Accounts
  <2>2. QED BY <2>1 DEF Swept
<1>4. (Quiet => Unmoved(account, draft))'
  BY <1>1 DEF Unmoved
<1>5. BatchIsPast'
  BY DEF Settling, BatchIsPast
<1>6. QED BY <1>2, <1>3, <1>4, <1>5, NextIsBooked DEF Settling

LEMMA SettleEventSettling ==
    ASSUME Settling, Typing', SettleEvent
    PROVE  Settling'
<1> DEFINE e == draft.events[cursor]
<1>1. /\ cursor \in DOMAIN draft.events /\ cursor \in Nat /\ phase = "settling"
      /\ cursor' = cursor + 1 /\ UNCHANGED <<today, account, phase, batch, asOf>>
      /\ Typed(draft) /\ Booked(draft) /\ DOMAIN draft.events \subseteq Nat
  BY DEF SettleEvent, Settling, Typing, Typed, Accounts
<1>2. \A i \in DOMAIN draft.events : i < cursor + 1 => i < cursor \/ i = cursor
  BY <1>1
<1>3. BookedNext(account')
  BY <1>1, BookedSame DEF Settling
<1>4. Quiet' <=> Quiet
  BY <1>1 DEF Quiet, Due
<1>5. CASE Due(e)
  <2>1. draft' = Settled(Effect(draft, e), cursor)
    BY <1>5 DEF SettleEvent
  <2>2. /\ BookedNext(draft')
        /\ DOMAIN draft'.events = DOMAIN draft.events
        /\ \A j \in DOMAIN draft.events : j # cursor => draft'.events[j] = draft.events[j]
        /\ draft'.events[cursor].status = "settled"
    <3>1. /\ \A id : HasId(draft.events, id) => HasId(draft'.events, id)
          /\ draft'.ledger = draft.ledger
          /\ DOMAIN draft'.events = DOMAIN draft.events
          /\ \A j \in DOMAIN draft.events : j # cursor => draft'.events[j] = draft.events[j]
          /\ draft'.events[cursor].status = "settled"
      BY <1>1, <1>5, <2>1, SettleKeepsIds
    <3>2. BookedNext(draft')
      BY <1>1, <3>1, BookedKept
    <3>3. QED BY <3>1, <3>2
  <2>3. Swept'
    BY <1>1, <1>2, <2>2 DEF Settling, Swept, Due
  <2>4. ~Quiet
    BY <1>1, <1>5 DEF Settling, Quiet, Unmoved
  <2>5. QED BY <1>1, <1>3, <1>4, <2>2, <2>3, <2>4, NextIsBooked DEF Settling, BatchIsPast
<1>6. CASE ~Due(e)
  <2>1. draft' = draft
    BY <1>6 DEF SettleEvent
  <2>2. BookedNext(draft')
    BY <1>1, <2>1, BookedSame
  <2>3. Swept'
    BY <1>1, <1>2, <1>6, <2>1 DEF Settling, Swept, Due
  <2>4. (Quiet => Unmoved(account, draft))'
    BY <1>1, <1>4, <2>1 DEF Settling, Unmoved
  <2>5. QED BY <1>1, <1>3, <2>2, <2>3, <2>4, NextIsBooked DEF Settling, BatchIsPast
<1>7. QED BY <1>5, <1>6

LEMMA RecordFillSettling ==
    ASSUME Settling, Typing', RecordFill
    PROVE  Settling'
<1> DEFINE f == batch[cursor]
<1>1. /\ cursor \in DOMAIN batch /\ f \in SettledFills /\ f.day <= today /\ today \in Days
      /\ phase = "recording" /\ UNCHANGED <<today, account, phase, batch, asOf>>
      /\ Typed(draft) /\ Booked(draft)
      /\ draft' = [draft EXCEPT !.ledger = @ \union {f.id}, !.events = Recorded(@, f)]
  BY DEF RecordFill, Settling, Typing, BatchIsPast
<1> HIDE DEF f
<1>2. /\ BookedNext(draft')
      /\ draft'.cash = draft.cash /\ draft'.shares = draft.shares
      /\ (\A i \in 1..Len(EventsOf(f)) : HasId(draft.events, EventId(EventsOf(f)[i])))
            => draft'.events = draft.events
  BY <1>1, RecordFillBooked
<1>3. BookedNext(account')
  BY <1>1, BookedSame DEF Settling
<1>4. Swept' /\ BatchIsPast'
  BY <1>1 DEF Swept, Settling, BatchIsPast
<1>5. (Quiet => Unmoved(account, draft))'
  <2>1. Quiet' <=> Quiet
    BY <1>1 DEF Quiet, Due
  <2>2. Quiet => f.id \in account.ledger
    BY <1>1 DEF Quiet, f
  <2>3. Quiet => draft'.events = draft.events
    BY <1>1, <1>2, <2>2 DEF Settling, Unmoved, Booked
  <2>4. QED BY <1>1, <1>2, <2>1, <2>3 DEF Settling, Unmoved
<1>6. QED BY <1>2, <1>3, <1>4, <1>5, NextIsBooked DEF Settling

\* Every step keeps the invariant of settlement: what the account and its copy
\* have booked, what a sweep leaves due, and that a quiet command moves nothing.
THEOREM SettlingStep ==
    ASSUME CalendarReaches
    PROVE  Settling /\ [Next]_vars => Settling'
<1> SUFFICES ASSUME Settling, [Next]_vars PROVE Settling'
  OBVIOUS
<1>0. Typing'
  BY TypingStep DEF Settling
<1>1. CASE UNCHANGED vars
  <2>1. UNCHANGED <<today, account, phase, batch, asOf, cursor, draft>>
    BY <1>1 DEF vars
  <2>2. Booked(account)' /\ Booked(draft)'
    BY <2>1, BookedSame, NextIsBooked DEF Settling
  <2>3. QED BY <1>0, <2>1, <2>2 DEF Settling, BatchIsPast, Swept, Quiet, Due, Unmoved
<1>2. CASE NextDay
  <2>1. /\ today \in Days /\ today' \in Days /\ today' = today + 1
        /\ UNCHANGED <<account, phase, batch, asOf, cursor, draft>>
        /\ batch = << >> /\ phase = "idle"
    BY <1>0, <1>2 DEF NextDay, Settling, Typing, idle
  <2>2. Booked(account)' /\ Booked(draft)'
    BY <2>1, BookedTomorrow, NextIsBooked DEF Settling
  <2>3. BatchIsPast'
    BY <2>1 DEF BatchIsPast
  <2>4. QED BY <1>0, <2>1, <2>2, <2>3 DEF Settling, Swept, Quiet, Due, Unmoved
<1>3. ASSUME NEW fills \in Batches, NEW date \in Days, ApplyFillsAware(fills, date)
      PROVE  Settling'
  <2>1. /\ UNCHANGED <<today, account, draft>> /\ draft = account
        /\ phase' = "recording" /\ batch' = fills
        /\ \A i \in DOMAIN fills : fills[i].day <= today
    BY <1>3 DEF ApplyFillsAware, Settling, Typing
  <2>2. Booked(account)' /\ Booked(draft)'
    BY <2>1, BookedSame, NextIsBooked DEF Settling
  <2>3. QED BY <1>0, <2>1, <2>2 DEF Settling, BatchIsPast, Swept, Unmoved
<1>4. ASSUME NEW date \in Days, Settle(date)
      PROVE  Settling'
  <2>1. /\ UNCHANGED <<today, account, batch>> /\ cursor' = 1 /\ draft' = Opened(account)
        /\ Typed(account) /\ Booked(account)
    BY <1>4 DEF Settle, Settling, Typing
  <2>2. QED BY <1>0, <2>1, OpeningSettling DEF Unmoved
<1>5. CASE RecordFill
  BY <1>0, <1>5, RecordFillSettling
<1>6. CASE StartSettling
  <2>1. /\ UNCHANGED <<today, account, batch, asOf>> /\ cursor' = 1 /\ draft' = Opened(draft)
        /\ Typed(draft) /\ Booked(draft)
    BY <1>6 DEF StartSettling, Settling, Typing
  <2>2. Quiet' => Unmoved(account, draft)
    BY <2>1 DEF Settling, Quiet, Due
  <2>3. QED BY <1>0, <2>1, <2>2, OpeningSettling
<1>7. CASE SettleEvent
  BY <1>0, <1>7, SettleEventSettling
<1>8. CASE Save \/ Crash
  <2>1. /\ UNCHANGED today /\ phase' = "idle" /\ batch' = << >>
        /\ draft' = account' /\ account' \in {account, draft}
    BY <1>8 DEF Save, Crash, Return
  <2>2. Booked(account)' /\ Booked(draft)'
    BY <2>1, BookedSame, NextIsBooked DEF Settling
  <2>3. QED BY <1>0, <2>1, <2>2 DEF Settling, BatchIsPast, Swept, Unmoved
<1>9. ASSUME NEW f \in LegacyFills, ApplyFill(f)
      PROVE  Settling'
  <2> DEFINE b == Filled(account, f)
  <2>1. b.events = account.events /\ b.ledger = account.ledger \union {f.id}
    BY <1>9, FilledType DEF ApplyFill, Settling, Typing
  <2>2. Store(b) /\ idle
    BY <1>9 DEF ApplyFill
  <2> HIDE DEF b
  <2>3. \A g \in SettledFills : g.id \in b.ledger => g.id \in account.ledger
    BY <2>1, SameFill, BrokerFills DEF SettledFills
  <2>4. BookedNext(b)
    BY <2>1, <2>2, <2>3, BookedKept DEF Settling, Store
  <2>5. QED BY <1>0, <2>2, <2>4, StoreSettling
<1>10. ASSUME NEW x \in Adjustments, ApplyAdjustment(x)
       PROVE  Settling'
  <2> DEFINE b == Adjusted(account, x)
  <2>1. /\ b.events = Append(account.events, ManualEvent(x)) /\ b.ledger = account.ledger
        /\ account.events \in Seq(EventRecords) /\ ManualEvent(x) \in EventRecords
    <3>1. Typed(account) /\ today \in Days
      BY DEF Settling, Typing
    <3>2. account.events \in Seq(EventRecords)
      BY <3>1 DEF Typed, Accounts
    <3>3. QED BY <3>1, <3>2, AdjustedType
  <2>2. Store(b) /\ idle
    BY <1>10 DEF ApplyAdjustment
  <2> HIDE DEF b
  <2>3. \A i \in DOMAIN account.events : i \in DOMAIN b.events /\ b.events[i] = account.events[i]
    BY <2>1
  <2>4. \A id : HasId(account.events, id) => HasId(b.events, id)
    BY <2>3 DEF HasId
  <2>5. BookedNext(b)
    BY <2>1, <2>2, <2>4, BookedKept DEF Settling, Store
  <2>6. QED BY <1>0, <2>2, <2>5, StoreSettling
<1>11. ASSUME NEW e \in Actions, ApplyCorporateAction(e)
       PROVE  Settling'
  <2> DEFINE b == Distributed(account, e)
  <2>1. b.events = account.events /\ b.ledger = account.ledger
    BY DistributedType DEF Settling, Typing
  <2>2. Store(b) /\ idle
    BY <1>11 DEF ApplyCorporateAction, Holder
  <2> HIDE DEF b
  <2>3. BookedNext(b)
    BY <2>1, <2>2, BookedKept DEF Settling, Store
  <2>4. QED BY <1>0, <2>2, <2>3, StoreSettling
<1>12. QED
  BY <1>1, <1>2, <1>3, <1>4, <1>5, <1>6, <1>7, <1>8, <1>9, <1>10, <1>11 DEF Next

(***************************************************************************)
(* A saved command has settled everything due by its date, and one that    *)
(* repeats recorded fills when nothing was due has changed nothing, if the *)
(* calendar reaches far enough.                                            *)
(***************************************************************************)
THEOREM SavedIsSettled ==
    ASSUME CalendarReaches
    PROVE  Spec => SettlesAllAndNothingTwice
<1>1. Init => Settling
  <2> SUFFICES ASSUME Init PROVE Settling
    OBVIOUS
  <2>1. /\ account = NewAccount /\ draft = NewAccount /\ batch = << >> /\ phase = "idle"
        /\ NewAccount.ledger = {}
    BY DEF Init, NewAccount
  <2>2. Booked(account) /\ Booked(draft)
    BY <2>1 DEF Booked
  <2>3. QED BY <2>1, <2>2, TypingInit DEF Settling, BatchIsPast, Swept, Unmoved
<1>2. Settling /\ [Next]_vars => Settling'
  BY SettlingStep
<1>3. Settling /\ Save =>
        /\ \A i \in DOMAIN account'.events : ~Due(account'.events[i])
        /\ (/\ \A i \in DOMAIN batch : batch[i].id \in account.ledger
            /\ \A i \in DOMAIN account.events : ~Due(account.events[i]))
           => /\ account'.cash = account.cash
              /\ account'.shares = account.shares
              /\ account'.events = account.events
  <2> SUFFICES ASSUME Settling, Save
               PROVE  /\ \A i \in DOMAIN account'.events : ~Due(account'.events[i])
                      /\ Quiet => Unmoved(account, account')
    BY DEF Quiet, Unmoved
  <2>1. /\ account' = draft /\ phase = "settling" /\ cursor > Len(draft.events)
        /\ cursor \in Nat /\ draft.events \in Seq(EventRecords)
    BY DEF Save, Settling, Typing, Typed, Accounts
  <2>2. \A i \in DOMAIN draft.events : i < cursor
    BY <2>1
  <2>3. QED BY <2>1, <2>2 DEF Settling, Swept
<1>4. QED BY <1>1, <1>2, <1>3, PTL DEF Spec, SettlesAllAndNothingTwice

-----------------------------------------------------------------------------
(* Sums over finite sets *)

LEMMA Smallest ==
    ASSUME NEW T \in SUBSET Nat, T # {}
    PROVE  \E x \in T : \A y \in T : x <= y
<1>1. \E x \in T : \A y \in T : ~ (<<y, x>> \in OpToRel(<, Nat))
  BY NatLessThanWellFounded, WFMin, Zenon
<1>2. PICK x \in T : \A y \in T : ~ (<<y, x>> \in OpToRel(<, Nat))
  BY <1>1
<1>3. \A y \in T : ~ (y < x)
  BY <1>2 DEF OpToRel
<1>4. QED BY <1>3

(***************************************************************************)
(* The element a sum takes first, and what it means that g gives each      *)
(* member of D, sets of which each has its rest in D, the sum of F over it.*)
(***************************************************************************)
Any(s) == CHOOSE x \in s : TRUE
Rest(s) == s \ {Any(s)}

AddsUp(F, D, g) ==
    g = [s \in D |-> IF s = {} THEN 0 ELSE F[Any(s)] + g[Rest(s)]]

LEMMA AnyIn ==
    ASSUME NEW s, s # {}
    PROVE  Any(s) \in s
BY DEF Any

\* The rest of a set has one element fewer.
LEMMA RestIs ==
    ASSUME NEW s, IsFiniteSet(s), s # {}
    PROVE  /\ Any(s) \in s /\ Rest(s) \subseteq s /\ IsFiniteSet(Rest(s))
           /\ Cardinality(s) \in Nat \ {0}
           /\ Cardinality(Rest(s)) = Cardinality(s) - 1
BY AnyIn, FS_RemoveElement, FS_CardinalityType, FS_EmptySet DEF Rest

Integral(F, S) == \A x \in S : F[x] \in Int

\* The subsets of S with at most n elements.
Small(S, n) == {s \in SUBSET S : Cardinality(s) <= n}

LEMMA SmallSums ==
    ASSUME NEW S, IsFiniteSet(S), NEW F, Integral(F, S)
    PROVE  \A n \in Nat : \E g \in [Small(S, n) -> Int] : AddsUp(F, Small(S, n), g)
<1> DEFINE Bad == {n \in Nat : ~ \E g \in [Small(S, n) -> Int] : AddsUp(F, Small(S, n), g)}
<1> SUFFICES ASSUME Bad # {} PROVE FALSE
  OBVIOUS
<1>1. PICK n \in Bad : \A m \in Bad : n <= m
  <2>1. Bad \in SUBSET Nat
    OBVIOUS
  <2> HIDE DEF Bad
  <2>2. QED BY <2>1, Smallest
<1>2. \A s \in SUBSET S : IsFiniteSet(s) /\ Cardinality(s) \in Nat
  BY FS_Subset, FS_CardinalityType
<1>3. CASE n = 0
  <2> DEFINE g == [s \in Small(S, 0) |-> 0]
  <2>1. \A s \in Small(S, 0) : s = {}
    BY <1>2, FS_EmptySet DEF Small
  <2>2. g \in [Small(S, 0) -> Int] /\ AddsUp(F, Small(S, 0), g)
    BY <2>1 DEF AddsUp
  <2>3. QED BY <1>3, <2>2
<1>4. CASE n # 0
  <2>1. n - 1 \in Nat /\ n - 1 \notin Bad
    BY <1>1, <1>4
  <2>2. PICK g \in [Small(S, n - 1) -> Int] : AddsUp(F, Small(S, n - 1), g)
    BY <2>1
  <2> DEFINE Value(s) == IF s = {} THEN 0 ELSE F[Any(s)] + g[Rest(s)]
             h == [s \in Small(S, n) |-> Value(s)]
  <2>3. ASSUME NEW s \in Small(S, n), s # {}
        PROVE  /\ Rest(s) \in Small(S, n - 1) /\ Rest(s) \in Small(S, n)
               /\ Any(s) \in S
    BY <1>2, <2>3, RestIs DEF Small
  <2>4. \A s \in Small(S, n) : Value(s) \in Int
    BY <2>3 DEF Integral
  <2>5. h \in [Small(S, n) -> Int]
    BY <2>4
  <2>6. \A s \in Small(S, n - 1) : g[s] = Value(s)
    BY <2>2 DEF AddsUp
  <2>7. \A s \in Small(S, n - 1) : s \in Small(S, n)
    BY <1>2 DEF Small
  <2>8. \A s \in Small(S, n - 1) : h[s] = g[s]
    BY <2>6, <2>7
  <2>9. \A s \in Small(S, n) : s # {} => h[Rest(s)] = g[Rest(s)]
    BY <2>3, <2>8
  <2>10. h = [s \in Small(S, n) |-> IF s = {} THEN 0 ELSE F[Any(s)] + h[Rest(s)]]
    BY <2>9
  <2>11. QED BY <2>5, <2>10 DEF AddsUp
<1>5. QED BY <1>3, <1>4

\* So g gives the subsets of S their sums.
Sums(F, S, g) == AddsUp(F, SUBSET S, g)

IntSums(F, S, g) == g \in [SUBSET S -> Int] /\ Sums(F, S, g)

\* The sum exists ...
LEMMA SumExists ==
    ASSUME NEW S, IsFiniteSet(S), NEW F, Integral(F, S)
    PROVE  \E g \in [SUBSET S -> Int] : Sums(F, S, g)
<1>1. SUBSET S = Small(S, Cardinality(S)) /\ Cardinality(S) \in Nat
  BY FS_Subset, FS_CardinalityType DEF Small
<1>2. \E g \in [Small(S, Cardinality(S)) -> Int] : AddsUp(F, Small(S, Cardinality(S)), g)
  BY <1>1, SmallSums
<1>3. QED BY <1>1, <1>2 DEF Sums

\* ... is the same whatever set the subset is taken from ...
LEMMA SumUnique ==
    ASSUME NEW S, IsFiniteSet(S), NEW R, R \subseteq S, NEW F,
           NEW g, Sums(F, S, g), NEW h, Sums(F, R, h)
    PROVE  h[R] = g[R]
<1> DEFINE Bad == {n \in Nat : \E s \in SUBSET R : Cardinality(s) = n /\ h[s] # g[s]}
<1>1. \A s \in SUBSET R : IsFiniteSet(s) /\ Cardinality(s) \in Nat
  BY FS_Subset, FS_CardinalityType
<1>2. SUFFICES ASSUME Bad # {} PROVE FALSE
  <2>1. Cardinality(R) \in Nat /\ R \in SUBSET R
    BY <1>1
  <2>2. QED BY <2>1
<1>3. PICK n \in Bad : \A m \in Bad : n <= m
  <2>1. Bad \in SUBSET Nat
    OBVIOUS
  <2> HIDE DEF Bad
  <2>2. QED BY <1>2, <2>1, Smallest
<1>4. PICK s \in SUBSET R : Cardinality(s) = n /\ h[s] # g[s]
  OBVIOUS
<1>5. s \in SUBSET S
  OBVIOUS
<1>6. CASE s = {}
  BY <1>4, <1>5, <1>6 DEF Sums, AddsUp
<1>7. CASE s # {}
  <2>1. /\ Rest(s) \in SUBSET R /\ Rest(s) \in SUBSET S
        /\ Cardinality(Rest(s)) = n - 1 /\ n - 1 \in Nat
    BY <1>1, <1>4, <1>7, RestIs
  <2>2. n - 1 \notin Bad
    BY <1>3, <2>1
  <2>3. h[Rest(s)] = g[Rest(s)]
    BY <2>1, <2>2
  <2>4. h[s] = F[Any(s)] + h[Rest(s)]
    BY <1>7 DEF Sums, AddsUp
  <2>5. g[s] = F[Any(s)] + g[Rest(s)]
    BY <1>5, <1>7 DEF Sums, AddsUp
  <2>6. QED BY <1>4, <2>3, <2>4, <2>5
<1>8. QED BY <1>6, <1>7

\* ... and does not depend on which element is taken first.
LEMMA SumOrder ==
    ASSUME NEW S, IsFiniteSet(S), NEW F, Integral(F, S),
           NEW g, IntSums(F, S, g), NEW x \in S
    PROVE  g[S] = F[x] + g[S \ {x}]
<1> DEFINE Bad == {n \in Nat : \E s \in SUBSET S : Cardinality(s) = n /\
                                  \E y \in s : g[s] # F[y] + g[s \ {y}]}
<1>1. g \in [SUBSET S -> Int] /\ Sums(F, S, g)
  BY DEF IntSums
<1>2. \A s \in SUBSET S : IsFiniteSet(s) /\ Cardinality(s) \in Nat
  BY FS_Subset, FS_CardinalityType
<1>3. SUFFICES ASSUME Bad # {} PROVE FALSE
  <2>1. Cardinality(S) \in Nat /\ S \in SUBSET S
    BY <1>2
  <2>2. QED BY <2>1
<1>4. PICK n \in Bad : \A m \in Bad : n <= m
  <2>1. Bad \in SUBSET Nat
    OBVIOUS
  <2> HIDE DEF Bad
  <2>2. QED BY <1>3, <2>1, Smallest
<1>5. PICK s \in SUBSET S : Cardinality(s) = n /\ \E y \in s : g[s] # F[y] + g[s \ {y}]
  OBVIOUS
<1>6. PICK y \in s : Cardinality(s) = n /\ g[s] # F[y] + g[s \ {y}]
  BY <1>5
<1> DEFINE c == Any(s)
<1>7. /\ c \in s /\ g[s] = F[c] + g[s \ {c}] /\ s \ {c} \in SUBSET S
      /\ Cardinality(s \ {c}) = n - 1 /\ n - 1 \in Nat
  <2>1. s # {} /\ IsFiniteSet(s) /\ Cardinality(s) = n
    BY <1>2, <1>6
  <2>2. /\ c \in s /\ n \in Nat \ {0} /\ Rest(s) = s \ {c}
        /\ Cardinality(Rest(s)) = n - 1
    BY <2>1, RestIs DEF Rest
  <2>3. g[s] = F[c] + g[Rest(s)]
    BY <1>1, <2>1 DEF Sums, AddsUp
  <2>4. QED BY <2>2, <2>3
<1>8. c # y
  BY <1>6, <1>7
<1>9. s \ {y} \in SUBSET S /\ Cardinality(s \ {y}) = n - 1
  BY <1>2, <1>6, FS_RemoveElement
<1>10. n - 1 \notin Bad
  BY <1>4, <1>7
<1> HIDE DEF c
<1>11. g[s \ {c}] = F[y] + g[(s \ {c}) \ {y}]
  BY <1>6, <1>7, <1>8, <1>10
<1>12. g[s \ {y}] = F[c] + g[(s \ {y}) \ {c}]
  BY <1>7, <1>8, <1>9, <1>10
<1>13. (s \ {c}) \ {y} = (s \ {y}) \ {c} /\ (s \ {c}) \ {y} \in SUBSET S
  OBVIOUS
<1>14. /\ F[y] \in Int /\ F[c] \in Int /\ g[(s \ {c}) \ {y}] \in Int
       /\ g[s] = F[c] + (F[y] + g[(s \ {c}) \ {y}])
       /\ g[s \ {y}] = F[c] + g[(s \ {c}) \ {y}]
  BY <1>1, <1>6, <1>7, <1>11, <1>12, <1>13 DEF Integral
<1>15. g[s] = F[y] + g[s \ {y}]
  BY <1>14
<1>16. QED BY <1>6, <1>15

\* The sum of F over S.
Total(F, S) == (CHOOSE g : Sums(F, S, g))[S]

LEMMA TotalSums ==
    ASSUME NEW S, IsFiniteSet(S), NEW F, Integral(F, S)
    PROVE  \E g \in [SUBSET S -> Int] : Sums(F, S, g) /\ Total(F, S) = g[S]
<1> DEFINE h == CHOOSE g : Sums(F, S, g)
<1>1. PICK g \in [SUBSET S -> Int] : Sums(F, S, g)
  BY SumExists
<1>2. Sums(F, S, h)
  BY <1>1
<1>3. Total(F, S) = h[S]
  BY DEF Total
<1> HIDE DEF h
<1>4. h[S] = g[S]
  <2>1. S \subseteq S
    OBVIOUS
  <2>2. Sums(F, S, g) /\ Sums(F, S, h)
    BY <1>1, <1>2
  <2>3. QED BY <2>1, <2>2, SumUnique
<1>5. QED BY <1>1, <1>3, <1>4

LEMMA TotalEmpty == \A F : Total(F, {}) = 0
<1> SUFFICES ASSUME NEW F PROVE Total(F, {}) = 0
  OBVIOUS
<1>1. IsFiniteSet({}) /\ Integral(F, {})
  BY FS_EmptySet DEF Integral
<1>2. PICK g \in [SUBSET {} -> Int] : Sums(F, {}, g) /\ Total(F, {}) = g[{}]
  BY <1>1, TotalSums
<1>3. g[{}] = 0
  BY <1>2 DEF Sums, AddsUp
<1>4. QED BY <1>2, <1>3

\* One element more.
LEMMA TotalInsert ==
    ASSUME NEW S, IsFiniteSet(S), NEW x, x \notin S,
           NEW F, Integral(F, S \union {x})
    PROVE  Total(F, S) \in Int /\ Total(F, S \union {x}) = Total(F, S) + F[x]
<1> DEFINE T == S \union {x}
<1>1. IsFiniteSet(T) /\ Integral(F, T)
  BY FS_AddElement
<1>2. Integral(F, S)
  BY DEF Integral
<1>3. PICK g \in [SUBSET T -> Int] : Sums(F, T, g) /\ Total(F, T) = g[T]
  BY <1>1, TotalSums
<1>4. PICK h \in [SUBSET S -> Int] : Sums(F, S, h) /\ Total(F, S) = h[S]
  BY <1>2, TotalSums
<1>5. h[S] = g[S]
  <2>1. S \subseteq T
    OBVIOUS
  <2> HIDE DEF T
  <2>2. Sums(F, T, g) /\ Sums(F, S, h) /\ IsFiniteSet(T)
    BY <1>1, <1>3, <1>4
  <2>3. QED BY <2>1, <2>2, SumUnique
<1>6. g[T] = F[x] + g[S]
  <2>1. x \in T /\ T \ {x} = S
    OBVIOUS
  <2> HIDE DEF T
  <2>2. IsFiniteSet(T) /\ Integral(F, T) /\ IntSums(F, T, g)
    BY <1>1, <1>3 DEF IntSums
  <2>3. g[T] = F[x] + g[T \ {x}]
    BY <2>1, <2>2, SumOrder
  <2>4. QED BY <2>1, <2>3
<1>7. F[x] \in Int /\ h[S] \in Int
  BY <1>1, <1>4 DEF Integral
<1>8. QED BY <1>3, <1>4, <1>5, <1>6, <1>7

-----------------------------------------------------------------------------
(* The account keeps a cash book *)

\* What the leg of a fill moves, as the cash book has it.
Price ==
    [l \in CashLegs |->
       LET f == CHOOSE g \in Fills : CashLeg(g) = l
       IN IF f.side = "BUY" THEN -f.value ELSE f.value]

PaidLegs(a) == {l \in CashLegs : a.effects[l] > 0}
Paid(a) == PaidLegs(a) \union {<<id, "dividend">> : id \in a.acted}

\* The cash an event is to move is the price of the leg it stands for.
Priced(e) ==
    e.kind \in CashKinds =>
        \E f \in SettledFills : <<e.src, e.kind>> = CashLeg(f) /\ e.cash = Price[CashLeg(f)]

AllPriced(es) == \A i \in DOMAIN es : Priced(es[i])

(***************************************************************************)
(* The draft has the cash of the account and the prices of the legs that   *)
(* took effect in it since.                                                *)
(***************************************************************************)
Tally(a, b) ==
    /\ PaidLegs(a) \subseteq PaidLegs(b) /\ IsFiniteSet(PaidLegs(b))
    /\ b.acted = a.acted
    /\ b.cash = a.cash + Total(Price, PaidLegs(b) \ PaidLegs(a))

Booking ==
    /\ Counted
    /\ AllPriced(account.events) /\ AllPriced(draft.events)
    /\ Tally(account, draft)

LEMMA PriceOf ==
    ASSUME NEW f \in Fills
    PROVE  /\ CashLeg(f) \in CashLegs /\ CashLeg(f) \in Legs
           /\ Price[CashLeg(f)] = -Signed(f, f.value)
           /\ Price[CashLeg(f)] \in Int
<1> DEFINE g == CHOOSE h \in Fills : CashLeg(h) = CashLeg(f)
<1>1. CashLeg(f) \in CashLegs /\ CashLeg(f) \in Legs
  BY FillType DEF CashLegs, CashLeg, Legs, Kinds, CashKinds, ShareKinds
<1>2. g \in Fills /\ CashLeg(g) = CashLeg(f)
  OBVIOUS
<1>3. Price[CashLeg(f)] = IF g.side = "BUY" THEN -g.value ELSE g.value
  BY <1>1 DEF Price
<1> HIDE DEF g
<1>4. g = f
  BY <1>2, SameFill DEF CashLeg
<1>5. f.value \in Nat /\ f.side \in {"BUY", "SELL"}
  BY FillType
<1>6. QED BY <1>1, <1>3, <1>4, <1>5 DEF Signed

LEMMA LegPrices ==
    /\ CashLegs \subseteq Legs
    /\ \A l \in CashLegs : Price[l] \in Int /\ l[2] \in CashKinds
BY PriceOf DEF CashLegs, CashLeg, CashKinds

LEMMA PricesIntegral == \A S : S \subseteq CashLegs => Integral(Price, S)
BY LegPrices DEF Integral

LEMMA PaidLegsAre == \A a : PaidLegs(a) \subseteq CashLegs
BY DEF PaidLegs

\* A leg is counted.
LEMMA PaidMore ==
    ASSUME NEW a, NEW b, a.effects \in [Legs -> Nat], NEW l \in Legs,
           b.effects = [a.effects EXCEPT ![l] = @ + 1]
    PROVE  /\ l \in CashLegs => PaidLegs(b) = PaidLegs(a) \union {l}
           /\ l \notin CashLegs => PaidLegs(b) = PaidLegs(a)
<1>1. \A m \in Legs \ {l} : b.effects[m] = a.effects[m]
  OBVIOUS
<1>2. b.effects[l] > 0
  OBVIOUS
<1>3. QED BY <1>1, <1>2, LegPrices DEF PaidLegs

LEMMA TallySelf == \A a : IsFiniteSet(PaidLegs(a)) /\ a.cash \in Int => Tally(a, a)
<1> SUFFICES ASSUME NEW a, IsFiniteSet(PaidLegs(a)), a.cash \in Int PROVE Tally(a, a)
  OBVIOUS
<1>1. PaidLegs(a) \ PaidLegs(a) = {} /\ Total(Price, {}) = 0
  BY TotalEmpty
<1>2. QED BY <1>1 DEF Tally

\* One more leg of the draft takes effect and moves the cash by its price.
LEMMA TallyMore ==
    ASSUME NEW a, NEW b, Tally(a, b), NEW c, NEW l \in CashLegs \ PaidLegs(b),
           a.cash \in Int, c.acted = b.acted,
           PaidLegs(c) = PaidLegs(b) \union {l}, c.cash = b.cash + Price[l]
    PROVE  Tally(a, c)
<1> DEFINE D == PaidLegs(b) \ PaidLegs(a)
<1>1. /\ PaidLegs(a) \subseteq PaidLegs(b) /\ IsFiniteSet(PaidLegs(b))
      /\ b.acted = a.acted /\ b.cash = a.cash + Total(Price, D)
  BY DEF Tally
<1>2. PaidLegs(c) \ PaidLegs(a) = D \union {l} /\ l \notin D
  BY <1>1
<1>3. IsFiniteSet(D) /\ IsFiniteSet(PaidLegs(c))
  BY <1>1, FS_Subset, FS_AddElement
<1>4. D \union {l} \subseteq CashLegs
  BY PaidLegsAre
<1> HIDE DEF D
<1>5. Integral(Price, D \union {l}) /\ Price[l] \in Int
  BY <1>4, PricesIntegral, LegPrices
<1>6. Total(Price, D) \in Int /\ Total(Price, D \union {l}) = Total(Price, D) + Price[l]
  BY <1>2, <1>3, <1>5, TotalInsert
<1>7. c.cash = a.cash + Total(Price, D \union {l})
  BY <1>1, <1>5, <1>6
<1>8. QED BY <1>1, <1>2, <1>3, <1>7 DEF Tally

LEMMA TallySame ==
    ASSUME NEW a, NEW b, Tally(a, b), NEW c, c.acted = b.acted, c.cash = b.cash,
           PaidLegs(c) = PaidLegs(b)
    PROVE  Tally(a, c)
BY DEF Tally

\* The events of a fill are priced, and appending keeps all events priced.
LEMMA EventsPriced ==
    ASSUME NEW f \in SettledFills
    PROVE  \A i \in 1..Len(EventsOf(f)) : Priced(EventsOf(f)[i])
<1>1. f \in Fills /\ f.side \in {"BUY", "SELL"} /\ f.value \in Nat
      /\ Price[CashLeg(f)] = -Signed(f, f.value)
  BY FillType, PriceOf DEF SettledFills
<1>2. ASSUME NEW k, k \notin CashKinds, NEW s, NEW c, NEW t
      PROVE  Priced(Event(f, k, s, c, t))
  BY <1>2 DEF Priced, Event
<1>3. ASSUME NEW s, NEW t, f.side = "BUY"
      PROVE  Priced(Event(f, "trade_buy_cash", s, -f.value, t))
  <2> DEFINE e == Event(f, "trade_buy_cash", s, -f.value, t)
  <2>1. e.src = f.id /\ e.kind = "trade_buy_cash" /\ e.cash = -f.value
    BY DEF Event
  <2>2. CashLeg(f) = <<f.id, "trade_buy_cash">> /\ Price[CashLeg(f)] = -f.value
    BY <1>1, <1>3 DEF CashLeg, Signed
  <2> HIDE DEF e
  <2>3. Priced(e)
    BY <2>1, <2>2 DEF Priced
  <2>4. QED BY <2>3 DEF e
<1>4. ASSUME NEW s, NEW t, f.side # "BUY"
      PROVE  Priced(Event(f, "trade_sell_cash", s, f.value, t))
  <2> DEFINE e == Event(f, "trade_sell_cash", s, f.value, t)
  <2>1. e.src = f.id /\ e.kind = "trade_sell_cash" /\ e.cash = f.value
    BY DEF Event
  <2>2. CashLeg(f) = <<f.id, "trade_sell_cash">> /\ Price[CashLeg(f)] = f.value
    BY <1>1, <1>4 DEF CashLeg, Signed
  <2> HIDE DEF e
  <2>3. Priced(e)
    BY <2>1, <2>2 DEF Priced
  <2>4. QED BY <2>3 DEF e
<1>5. /\ "trade_buy_shares" \notin CashKinds /\ "trade_sell_shares" \notin CashKinds
      /\ "manual_adjustment" \notin CashKinds
  BY DEF CashKinds
<1>6. CASE f.shares = 0
  <2>1. EventsOf(f) = <<Event(f, "manual_adjustment", 0, 0, "skipped")>>
    BY <1>6 DEF EventsOf
  <2>2. Priced(Event(f, "manual_adjustment", 0, 0, "skipped"))
    BY <1>2, <1>5
  <2>3. QED BY <2>1, <2>2
<1>7. CASE f.shares # 0 /\ f.side = "BUY"
  <2> DEFINE d == Event(f, "trade_buy_cash", 0, -f.value, "pending")
             e == Event(f, "trade_buy_shares", f.shares, 0, "pending")
  <2>1. Priced(d) /\ Priced(e)
    BY <1>2, <1>3, <1>5, <1>7
  <2>2. EventsOf(f) = <<d, e>>
    BY <1>7 DEF EventsOf
  <2> HIDE DEF d, e
  <2>3. QED BY <2>1, <2>2
<1>8. CASE f.shares # 0 /\ f.side # "BUY"
  <2> DEFINE d == Event(f, "trade_sell_shares", -f.shares, 0, "pending")
             e == Event(f, "trade_sell_cash", 0, f.value, "pending")
  <2>1. Priced(d) /\ Priced(e)
    BY <1>2, <1>4, <1>5, <1>8
  <2>2. EventsOf(f) = <<d, e>>
    BY <1>8 DEF EventsOf
  <2> HIDE DEF d, e
  <2>3. QED BY <2>1, <2>2
<1>9. QED BY <1>6, <1>7, <1>8

LEMMA AppendNewPriced ==
    ASSUME NEW es \in Seq(EventRecords), AllPriced(es), NEW e \in EventRecords, Priced(e)
    PROVE  AppendNew(es, e) \in Seq(EventRecords) /\ AllPriced(AppendNew(es, e))
<1>1. CASE AppendNew(es, e) = es
  BY <1>1
<1>2. CASE AppendNew(es, e) = Append(es, e)
  BY <1>2 DEF AllPriced
<1>3. QED BY <1>1, <1>2 DEF AppendNew

LEMMA RecordedPriced ==
    ASSUME NEW es \in Seq(EventRecords), AllPriced(es), NEW f \in SettledFills, today \in Days
    PROVE  AllPriced(Recorded(es, f))
<1> DEFINE one == AppendNew(es, EventsOf(f)[1])
<1>1. one \in Seq(EventRecords) /\ AllPriced(one)
  BY EventsOfType, EventsPriced, AppendNewPriced
<1>2. CASE Len(EventsOf(f)) = 1
  BY <1>1, <1>2 DEF Recorded
<1>3. CASE Len(EventsOf(f)) = 2
  <2>1. Recorded(es, f) = AppendNew(one, EventsOf(f)[2])
    BY <1>3 DEF Recorded
  <2>2. EventsOf(f)[2] \in EventRecords /\ Priced(EventsOf(f)[2])
    BY <1>3, EventsOfType, EventsPriced
  <2> HIDE DEF one
  <2>3. QED BY <1>1, <2>1, <2>2, AppendNewPriced
<1>4. QED BY <1>2, <1>3, EventsOfType

\* What the steps of settling do to the cash and to the corporate actions.
LEMMA CashOfSteps ==
    ASSUME NEW a \in Accounts, NEW e \in EventRecords, <<e.src, e.kind>> \in Legs,
           NEW c \in Codes, NEW n \in Nat
    PROVE  /\ TookEffect(a, e).acted = a.acted
           /\ PayCash(a, e).acted = a.acted /\ PayCash(a, e).cash = a.cash + e.cash
           /\ Held(a, c, n).acted = a.acted
<1> DEFINE b == TookEffect(a, e)
           E == [a.effects EXCEPT ![<<e.src, e.kind>>] = @ + 1]
           L == [a.lots EXCEPT ![c] = n]
           S == [a.shares EXCEPT ![c] = n]
           O == a.offLots \ {c}
<1>1. b = [a EXCEPT !.effects = E] /\ b \in Accounts /\ b.cash = a.cash
  BY TookEffectType DEF TookEffect
<1>2. Held(a, c, n) = [a EXCEPT !.lots = L, !.shares = S, !.offLots = O]
  BY DEF Held
<1>3. PayCash(a, e) = [b EXCEPT !.cash = b.cash + e.cash]
  BY DEF PayCash
<1> HIDE DEF b, E, L, S, O
<1>4. b.acted = a.acted
  BY <1>1 DEF Accounts
<1>5. PayCash(a, e).acted = b.acted /\ PayCash(a, e).cash = b.cash + e.cash
  BY <1>1, <1>3 DEF Accounts
<1>6. Held(a, c, n).acted = a.acted
  BY <1>2 DEF Accounts
<1>7. QED BY <1>1, <1>4, <1>5, <1>6 DEF b

LEMMA CashOfLots ==
    ASSUME NEW a \in Accounts, NEW e \in EventRecords, <<e.src, e.kind>> \in Legs,
           e.src \in FillIds
    PROVE  /\ e.shares >= 0 => AddLot(a, e).acted = a.acted
           /\ e.shares <= 0 => TakeLots(a, e).acted = a.acted
<1>1. e.code \in Codes /\ e.shares \in Int /\ a.lots[e.code] \in Nat
  BY DEF EventRecords, Accounts
<1>2. ASSUME e.shares >= 0 PROVE AddLot(a, e).acted = a.acted
  <2> DEFINE id == <<e.src, e.code, e.shares>>
             n == a.lots[e.code] + (IF id \in a.lotIds THEN 0 ELSE e.shares)
             b == IF id \in a.lotIds THEN a ELSE TookEffect(a, e)
             h == Held(b, e.code, n)
             D == h.lotIds \union {id}
  <2>1. n \in Nat
    BY <1>1, <1>2
  <2>2. b \in Accounts /\ b.acted = a.acted
    BY <1>1, TookEffectType, CashOfSteps
  <2>3. AddLot(a, e) = [h EXCEPT !.lotted = TRUE, !.lotIds = D]
    BY DEF AddLot
  <2> HIDE DEF n, b, id
  <2>4. h \in Accounts /\ h.acted = b.acted
    <3>1. h \in Accounts
      BY <1>1, <2>1, <2>2, HeldType
    <3>2. h.acted = b.acted
      BY <1>1, <2>1, <2>2, CashOfSteps
    <3>3. QED BY <3>1, <3>2
  <2> HIDE DEF h, D
  <2>5. AddLot(a, e).acted = h.acted
    BY <2>3, <2>4 DEF Accounts
  <2>6. QED BY <2>2, <2>4, <2>5
<1>3. ASSUME e.shares <= 0 PROVE TakeLots(a, e).acted = a.acted
  <2> DEFINE b == TookEffect(a, e)
             n == a.lots[e.code] - Lesser(-e.shares, a.lots[e.code])
  <2>1. n \in Nat
    BY <1>1, <1>3 DEF Lesser
  <2>2. b \in Accounts /\ b.acted = a.acted /\ b.lots = a.lots
    BY <1>1, TookEffectType, CashOfSteps
  <2>3. TakeLots(a, e) = Held(b, e.code, n)
    BY DEF TakeLots
  <2> HIDE DEF n, b
  <2>4. QED BY <1>1, <2>1, <2>2, <2>3, CashOfSteps
<1>4. QED BY <1>2, <1>3

LEMMA ActedSettled ==
    ASSUME NEW a \in Accounts, NEW i
    PROVE  Settled(a, i).acted = a.acted
<1> DEFINE E == [a.events EXCEPT ![i] = [a.events[i] EXCEPT !.status = "settled"]]
<1>1. Settled(a, i) = [a EXCEPT !.events = E]
  BY DEF Settled
<1> HIDE DEF E
<1>2. QED BY <1>1 DEF Accounts

\* Settling a due event: its leg is counted, if it is one of the cash, with its price.
LEMMA SettleTally ==
    ASSUME NEW a, Typed(a), NEW b, Typed(b), Once(b), AllPriced(b.events), Tally(a, b),
           NEW i \in DOMAIN b.events, Due(b.events[i]),
           NEW c, c = Settled(Effect(b, b.events[i]), i)
    PROVE  AllPriced(c.events) /\ Tally(a, c)
<1> DEFINE e == b.events[i]
           l == <<e.src, e.kind>>
           d == [e EXCEPT !.status = "settled"]
           m == Effect(b, e)
<1>1. /\ c.events = [b.events EXCEPT ![i] = d]
      /\ c.effects = [b.effects EXCEPT ![l] = @ + 1] \/ c.effects = b.effects
      /\ Typed(c)
  BY SettleDue
<1>2. /\ e \in EventRecords /\ l \in Legs /\ e.kind \in Kinds /\ e.src \in FillIds
      /\ e.kind = "trade_buy_shares" => e.shares >= 0
      /\ e.kind = "trade_sell_shares" => e.shares <= 0
  BY DueIs
<1>3. /\ b \in Accounts /\ b.events \in Seq(EventRecords) /\ b.effects \in [Legs -> Nat]
      /\ a.cash \in Int /\ b.cash \in Int
  BY DEF Typed, Accounts
<1>4. d.src = e.src /\ d.kind = e.kind /\ d.cash = e.cash
  BY <1>2 DEF EventRecords
<1>5. Priced(e) /\ Priced(d)
  BY <1>4 DEF AllPriced, Priced
<1>6. c = Settled(m, i)
  OBVIOUS
<1>7. AllPriced(c.events)
  <2> HIDE DEF d, e
  <2>1. DOMAIN c.events = DOMAIN b.events /\ c.events[i] = d
        /\ \A j \in DOMAIN b.events : j # i => c.events[j] = b.events[j]
    BY <1>1, <1>3
  <2>2. QED BY <1>5, <2>1 DEF AllPriced
<1>8. CASE e.kind \in CashKinds
  <2>1. m = PayCash(b, e)
    BY <1>8 DEF Effect
  <2> HIDE DEF m, e, l, d
  <2>2. /\ m \in Accounts /\ m.events = b.events
        /\ m.effects = [b.effects EXCEPT ![<<e.src, e.kind>>] = @ + 1]
    BY <1>2, <1>3, <2>1, PayCashType DEF l
  <2>3. e.code \in Codes /\ m.acted = b.acted /\ m.cash = b.cash + e.cash
    BY <1>2, <1>3, <2>1, CashOfSteps DEF l, EventRecords
  <2>4. Typed(m) /\ i \in DOMAIN m.events
    BY <2>2 DEF Typed
  <2>5. c.effects = m.effects /\ c.cash = m.cash /\ c.acted = m.acted
    <3>1. Settled(m, i).effects = m.effects /\ Settled(m, i).cash = m.cash
      BY <2>4, SettledType
    <3>2. Settled(m, i).acted = m.acted
      BY <2>2, ActedSettled
    <3>3. QED BY <1>6, <3>1, <3>2
  <2>6. PICK f \in SettledFills : l = CashLeg(f) /\ e.cash = Price[CashLeg(f)]
    BY <1>5, <1>8 DEF Priced, l
  <2>7. l \in CashLegs
    BY <2>6, PriceOf DEF SettledFills
  <2>8. c.effects = [b.effects EXCEPT ![l] = @ + 1]
    BY <2>2, <2>5 DEF l
  <2>9. PaidLegs(c) = PaidLegs(b) \union {l}
    BY <1>2, <1>3, <2>7, <2>8, PaidMore
  <2>10. l \notin PaidLegs(b)
    <3>1. c.effects[l] <= 1
      <4>1. Once(c)
        BY SettleOnce DEF e
      <4>2. QED BY <1>2, <4>1 DEF Once
    <3>2. c.effects[l] = b.effects[l] + 1 /\ b.effects[l] \in Nat
      BY <1>2, <1>3, <2>8
    <3>3. QED BY <3>1, <3>2 DEF PaidLegs
  <2>11. c.acted = b.acted /\ c.cash = b.cash + Price[l]
    BY <2>3, <2>5, <2>6
  <2>12. Tally(a, c)
    BY <1>3, <2>7, <2>9, <2>10, <2>11, TallyMore
  <2>13. QED BY <1>7, <2>12
<1>9. CASE e.kind \notin CashKinds
  <2>1. \/ e.kind = "trade_buy_shares" /\ m = AddLot(b, e) /\ e.shares >= 0
        \/ e.kind = "trade_sell_shares" /\ m = TakeLots(b, e) /\ e.shares <= 0
    BY <1>2, <1>9 DEF Effect, Kinds, ShareKinds
  <2> HIDE DEF m, e, l, d
  <2>2. /\ m \in Accounts /\ m.events = b.events /\ m.cash = b.cash
    <3>1. <<e.src, e.kind>> \in Legs
      BY <1>2 DEF l
    <3>2. CASE m = AddLot(b, e) /\ e.shares >= 0
      BY <1>2, <1>3, <3>1, <3>2, AddLotType
    <3>3. CASE m = TakeLots(b, e) /\ e.shares <= 0
      BY <1>2, <1>3, <3>1, <3>3, TakeLotsType
    <3>4. QED BY <2>1, <3>2, <3>3
  <2>3. m.acted = b.acted
    BY <1>2, <1>3, <2>1, CashOfLots DEF l
  <2>4. Typed(m) /\ i \in DOMAIN m.events
    BY <2>2 DEF Typed
  <2>5. c.cash = b.cash /\ c.acted = b.acted
    <3>1. Settled(m, i).cash = m.cash
      BY <2>4, SettledType
    <3>2. Settled(m, i).acted = m.acted
      BY <2>2, ActedSettled
    <3>3. QED BY <1>6, <2>2, <2>3, <3>1, <3>2
  <2>6. l \notin CashLegs
    BY <1>9, LegPrices DEF l
  <2>7. PaidLegs(c) = PaidLegs(b)
    <3>1. CASE c.effects = b.effects
      BY <3>1 DEF PaidLegs
    <3>2. CASE c.effects = [b.effects EXCEPT ![l] = @ + 1]
      BY <1>2, <1>3, <2>6, <3>2, PaidMore
    <3>3. QED BY <1>1, <3>1, <3>2
  <2>8. Tally(a, c)
    BY <2>5, <2>7, TallySame
  <2>9. QED BY <1>7, <2>8
<1>10. QED BY <1>8, <1>9

\* The fields of the other things a command does to a document.
LEMMA CashOfRecorded ==
    ASSUME NEW a, Typed(a), NEW f, NEW b,
           b = [a EXCEPT !.ledger = @ \union {f.id}, !.events = Recorded(@, f)]
    PROVE  /\ b.cash = a.cash /\ b.acted = a.acted /\ b.effects = a.effects
           /\ b.events = Recorded(a.events, f)
BY DEF Typed, Accounts

LEMMA CashOfOpened ==
    ASSUME NEW a, Typed(a)
    PROVE  /\ Opened(a).cash = a.cash /\ Opened(a).acted = a.acted
           /\ Opened(a).effects = a.effects /\ Opened(a).events = a.events
<1> DEFINE L == IF ~a.lotted THEN a.shares ELSE a.lots
           T == a.lotted \/ \E c \in Codes : a.shares[c] > 0
           O == IF ~a.lotted THEN {} ELSE a.offLots
<1>1. Opened(a) = [a EXCEPT !.lots = L, !.lotted = T, !.offLots = O, !.adjusted = {}]
  BY DEF Opened
<1>2. a \in Accounts
  BY DEF Typed
<1> HIDE DEF L, T, O
<1>3. QED BY <1>1, <1>2 DEF Accounts

LEMMA CashOfFilled ==
    ASSUME NEW a, Typed(a), Once(a), NEW f \in LegacyFills, f.id \notin a.ledger,
           f.side = "SELL" => f.shares <= a.shares[f.code],
           NEW b, b = Filled(a, f)
    PROVE  /\ b.acted = a.acted /\ b.events = a.events
           /\ \/ b.cash = a.cash /\ PaidLegs(b) = PaidLegs(a)
              \/ /\ CashLeg(f) \in CashLegs \ PaidLegs(a)
                 /\ PaidLegs(b) = PaidLegs(a) \union {CashLeg(f)}
                 /\ b.cash = a.cash + Price[CashLeg(f)]
<1> DEFINE l == CashLeg(f)
           I == a.ledger \union {f.id}
           C == a.cash - Signed(f, f.value)
           S == [a.shares EXCEPT ![f.code] = a.shares[f.code] + Signed(f, f.shares)]
           E == [a.effects EXCEPT ![l] = a.effects[l] + 1]
           O == IF a.lotted THEN a.offLots \union {f.code} ELSE a.offLots
<1>1. /\ a \in Accounts /\ a.effects \in [Legs -> Nat] /\ a.cash \in Int
      /\ f \in Fills /\ f.value \in Nat
  BY FillType, BrokerFills DEF Typed, Accounts
<1>2. l \in CashLegs /\ l \in Legs /\ Price[l] = -Signed(f, f.value) /\ Price[l] \in Int
  BY <1>1, PriceOf
<1>3. CASE f.shares = 0
  <2>1. b = [a EXCEPT !.ledger = I]
    BY <1>3 DEF Filled
  <2> HIDE DEF I
  <2>2. b.acted = a.acted /\ b.events = a.events /\ b.cash = a.cash /\ b.effects = a.effects
    BY <1>1, <2>1 DEF Accounts
  <2>3. QED BY <2>2 DEF PaidLegs
<1>4. CASE f.shares # 0
  <2>1. b = [a EXCEPT !.ledger = I, !.cash = C, !.shares = S, !.effects = E, !.offLots = O]
    BY <1>4 DEF Filled
  <2> HIDE DEF I, C, S, E, O, l
  <2>2. b.acted = a.acted /\ b.events = a.events /\ b.cash = C /\ b.effects = E
    BY <1>1, <2>1 DEF Accounts
  <2>3. b.effects = [a.effects EXCEPT ![l] = @ + 1]
    BY <2>2 DEF E
  <2>4. PaidLegs(b) = PaidLegs(a) \union {l}
    BY <1>1, <1>2, <2>3, PaidMore
  <2>5. l \notin PaidLegs(a)
    <3>1. Once(b)
      BY FilledOnce
    <3>2. b.effects[l] <= 1 /\ b.effects[l] = a.effects[l] + 1 /\ a.effects[l] \in Nat
      BY <1>1, <1>2, <2>3, <3>1 DEF Once
    <3>3. QED BY <3>2 DEF PaidLegs
  <2>6. Signed(f, f.value) \in Int
    BY <1>1 DEF Signed
  <2>7. b.cash = a.cash + Price[l]
    BY <1>1, <1>2, <2>2, <2>6 DEF C
  <2>8. QED BY <1>2, <2>2, <2>4, <2>5, <2>7 DEF l
<1>5. QED BY <1>3, <1>4

LEMMA CashOfAdjusted ==
    ASSUME NEW a, Typed(a), NEW x \in Adjustments, today \in Days, NEW b, b = Adjusted(a, x)
    PROVE  /\ b.acted = a.acted /\ PaidLegs(b) = PaidLegs(a) /\ b.cash = a.cash + x.cash
           /\ b.events = Append(a.events, ManualEvent(x))
<1> DEFINE J == a.adjusted \union {x.id}
           K == [a.corrected EXCEPT ![x] = a.corrected[x] + 1]
           V == Append(a.events, ManualEvent(x))
           C == a.cash + x.cash
           S == [a.shares EXCEPT ![x.code] = AtLeastZero(a.shares[x.code] + x.shares)]
           L == IF x.shares > 0 THEN [a.lots EXCEPT ![x.code] = a.lots[x.code] + x.shares]
                ELSE a.lots
           T == a.lotted \/ x.shares > 0
           O == IF x.shares > 0
                THEN a.offLots \union IF a.lotted THEN {} ELSE {c \in Codes : a.shares[c] > 0}
                ELSE IF x.shares < 0 /\ a.lotted THEN a.offLots \union {x.code} ELSE a.offLots
<1>1. b = [a EXCEPT !.adjusted = J, !.corrected = K, !.events = V, !.cash = C, !.shares = S,
                    !.lots = L, !.lotted = T, !.offLots = O]
  BY DEF Adjusted
<1>2. a \in Accounts
  BY DEF Typed
<1> HIDE DEF J, K, V, C, S, L, T, O
<1>3. b.acted = a.acted /\ b.effects = a.effects /\ b.cash = C /\ b.events = V
  BY <1>1, <1>2 DEF Accounts
<1>4. QED BY <1>3 DEF C, V, PaidLegs

LEMMA CashOfDistributed ==
    ASSUME NEW a, Typed(a), NEW e \in Actions, NEW b, b = Distributed(a, e)
    PROVE  /\ b.acted = a.acted \union {e.id} /\ PaidLegs(b) = PaidLegs(a)
           /\ b.events = a.events /\ b.cash >= a.cash
<1> DEFINE held == a.shares[e.code]
           J == a.acted \union {e.id}
           C == a.cash + held * e.dividend
           S == [a.shares EXCEPT ![e.code] = held + (held * e.bonus) \div 10]
           O == IF e.bonus > 0 /\ a.lotted THEN a.offLots \union {e.code} ELSE a.offLots
<1>1. b = [a EXCEPT !.acted = J, !.cash = C, !.shares = S, !.offLots = O]
  BY DEF Distributed
<1>2. a \in Accounts /\ e.code \in Codes /\ e.dividend \in Nat
  BY Corrections DEF Typed
<1>3. a.cash \in Int /\ held \in Nat
  BY <1>2 DEF Accounts
<1>4. C >= a.cash
  <2>1. ASSUME NEW m \in Nat, NEW n \in Nat PROVE m * n \in Nat
    OBVIOUS
  <2>2. held * e.dividend \in Nat
    BY <1>2, <1>3, <2>1
  <2> DEFINE p == held * e.dividend
  <2>3. p \in Nat /\ C = a.cash + p
    BY <2>2
  <2> HIDE DEF p, C
  <2>4. QED BY <1>3, <2>3
<1> HIDE DEF J, C, S, O
<1>5. b.acted = J /\ b.effects = a.effects /\ b.cash = C /\ b.events = a.events
  BY <1>1, <1>2 DEF Accounts
<1>6. QED BY <1>4, <1>5 DEF J, PaidLegs

LEMMA BookingInit == Init => Booking
<1> SUFFICES ASSUME Init PROVE Booking
  OBVIOUS
<1>1. account = NewAccount /\ draft = NewAccount
  BY DEF Init
<1>2. /\ NewAccount.events = << >> /\ NewAccount.effects = [l \in Legs |-> 0]
      /\ NewAccount.cash \in Int
  BY Profile DEF NewAccount
<1>3. PaidLegs(NewAccount) = {}
  BY <1>2, LegPrices DEF PaidLegs
<1>4. Tally(NewAccount, NewAccount)
  BY <1>2, <1>3, FS_EmptySet, TallySelf
<1>5. QED BY <1>1, <1>2, <1>4, CountedInit DEF Booking, AllPriced

\* A document that is saved as it is.
LEMMA StoreBooking ==
    ASSUME NEW b, Store(b), Counted', AllPriced(b.events), IsFiniteSet(PaidLegs(b))
    PROVE  Booking'
<1>1. account' = b /\ draft' = b
  BY DEF Store
<1>2. b.cash \in Int
  BY <1>1 DEF Counted, Typing, Typed, Accounts
<1>3. Tally(b, b)
  BY <1>2, TallySelf
<1>4. QED BY <1>1, <1>3 DEF Booking

\* Every step keeps the cash of the copy at that of the account and the price of
\* the legs it has settled since.
THEOREM BookingStep ==
    ASSUME CalendarReaches
    PROVE  Booking /\ [Next]_vars => Booking'
<1> SUFFICES ASSUME Booking, [Next]_vars PROVE Booking'
  OBVIOUS
<1>1. Counted'
  BY CountedStep DEF Booking
<1>2. /\ Typing /\ Typed(account) /\ Typed(draft) /\ Once(account) /\ Once(draft)
      /\ AllPriced(account.events) /\ AllPriced(draft.events) /\ Tally(account, draft)
      /\ today \in Days
      /\ account.cash \in Int /\ account.events \in Seq(EventRecords)
      /\ draft.events \in Seq(EventRecords)
  BY DEF Booking, Counted, Typing, Typed, Accounts
<1>3. IsFiniteSet(PaidLegs(account))
  BY <1>2, FS_Subset DEF Tally
<1>4. Tally(account, account)
  BY <1>2, <1>3, TallySelf
<1>5. CASE UNCHANGED <<account, draft>>
  BY <1>1, <1>5 DEF Booking
<1>6. ASSUME NEW a, Typed(a), AllPriced(a.events), Tally(account, a)
      PROVE  AllPriced(Opened(a).events) /\ Tally(account, Opened(a))
  <2>1. /\ Opened(a).cash = a.cash /\ Opened(a).acted = a.acted
        /\ Opened(a).effects = a.effects /\ Opened(a).events = a.events
    BY <1>6, CashOfOpened
  <2>2. PaidLegs(Opened(a)) = PaidLegs(a)
    BY <2>1 DEF PaidLegs
  <2>3. QED BY <1>6, <2>1, <2>2, TallySame
<1>7. ASSUME NEW date \in Days, Settle(date)
      PROVE  Booking'
  <2>1. account' = account /\ draft' = Opened(account)
    BY <1>7 DEF Settle
  <2>2. AllPriced(Opened(account).events) /\ Tally(account, Opened(account))
    BY <1>2, <1>4, <1>6
  <2>3. QED BY <1>1, <1>2, <2>1, <2>2 DEF Booking
<1>8. CASE RecordFill
  <2> DEFINE f == batch[cursor]
  <2>1. /\ account' = account /\ f \in SettledFills
        /\ draft' = [draft EXCEPT !.ledger = @ \union {f.id}, !.events = Recorded(@, f)]
    BY <1>2, <1>8 DEF RecordFill, Typing
  <2> HIDE DEF f
  <2>2. /\ draft'.cash = draft.cash /\ draft'.acted = draft.acted
        /\ draft'.effects = draft.effects /\ draft'.events = Recorded(draft.events, f)
    BY <1>2, <2>1, CashOfRecorded
  <2>3. AllPriced(draft'.events)
    BY <1>2, <2>1, <2>2, RecordedPriced
  <2>4. PaidLegs(draft') = PaidLegs(draft)
    BY <2>2 DEF PaidLegs
  <2>5. Tally(account, draft')
    BY <1>2, <2>2, <2>4, TallySame
  <2>6. QED BY <1>1, <1>2, <2>1, <2>3, <2>5 DEF Booking
<1>9. CASE StartSettling
  <2>1. account' = account /\ draft' = Opened(draft)
    BY <1>9 DEF StartSettling
  <2>2. AllPriced(Opened(draft).events) /\ Tally(account, Opened(draft))
    BY <1>2, <1>6
  <2>3. QED BY <1>1, <1>2, <2>1, <2>2 DEF Booking
<1>10. CASE SettleEvent
  <2>1. account' = account /\ cursor \in DOMAIN draft.events
    BY <1>2, <1>10 DEF SettleEvent, Typing
  <2>2. CASE Due(draft.events[cursor])
    <3>1. draft' = Settled(Effect(draft, draft.events[cursor]), cursor)
      BY <1>10, <2>2 DEF SettleEvent
    <3>2. AllPriced(draft'.events) /\ Tally(account, draft')
      BY <1>2, <2>1, <2>2, <3>1, SettleTally
    <3>3. QED BY <1>1, <1>2, <2>1, <3>2 DEF Booking
  <2>3. CASE ~Due(draft.events[cursor])
    <3>1. draft' = draft
      BY <1>10, <2>3 DEF SettleEvent
    <3>2. QED BY <1>5, <2>1, <3>1
  <2>4. QED BY <2>2, <2>3
<1>11. CASE Save
  <2>1. account' = draft /\ draft' = draft
    BY <1>11 DEF Save
  <2>2. Tally(draft, draft)
    <3>1. draft.cash \in Int /\ IsFiniteSet(PaidLegs(draft))
      BY <1>2 DEF Typed, Accounts, Tally
    <3>2. QED BY <3>1, TallySelf
  <2>3. QED BY <1>1, <1>2, <2>1, <2>2 DEF Booking
<1>12. CASE Crash
  <2>1. account' = account /\ draft' = account
    BY <1>12 DEF Crash
  <2>2. QED BY <1>1, <1>2, <1>4, <2>1 DEF Booking
<1>13. ASSUME NEW f \in LegacyFills, ApplyFill(f)
       PROVE  Booking'
  <2> DEFINE b == Filled(account, f)
  <2>1. /\ Store(b) /\ f.id \notin account.ledger
        /\ f.side = "SELL" => f.shares <= account.shares[f.code]
    BY <1>13 DEF ApplyFill
  <2>2. /\ b.events = account.events
        /\ PaidLegs(b) = PaidLegs(account) \/ PaidLegs(b) = PaidLegs(account) \union {CashLeg(f)}
    BY <1>2, <2>1, CashOfFilled
  <2> HIDE DEF b
  <2>3. IsFiniteSet(PaidLegs(b))
    BY <1>3, <2>2, FS_AddElement
  <2>4. QED BY <1>1, <1>2, <2>1, <2>2, <2>3, StoreBooking
<1>14. ASSUME NEW x \in Adjustments, ApplyAdjustment(x)
       PROVE  Booking'
  <2> DEFINE b == Adjusted(account, x)
             e == ManualEvent(x)
  <2>1. Store(b)
    BY <1>14 DEF ApplyAdjustment
  <2>2. PaidLegs(b) = PaidLegs(account) /\ b.events = Append(account.events, e)
    BY <1>2, CashOfAdjusted
  <2>3. e \in EventRecords /\ e.kind = "manual_adjustment"
    BY <1>2, AdjustedType DEF ManualEvent
  <2>4. Priced(e)
    BY <2>3 DEF Priced, CashKinds
  <2> HIDE DEF b, e
  <2>5. AllPriced(b.events)
    BY <1>2, <2>2, <2>3, <2>4 DEF AllPriced
  <2>6. QED BY <1>1, <1>3, <2>1, <2>2, <2>5, StoreBooking
<1>15. ASSUME NEW e \in Actions, ApplyCorporateAction(e)
       PROVE  Booking'
  <2> DEFINE b == Distributed(account, e)
  <2>1. Store(b)
    BY <1>15 DEF ApplyCorporateAction
  <2>2. PaidLegs(b) = PaidLegs(account) /\ b.events = account.events
    BY <1>2, CashOfDistributed
  <2> HIDE DEF b
  <2>3. QED BY <1>1, <1>2, <1>3, <2>1, <2>2, StoreBooking
<1>16. QED
  BY <1>5, <1>7, <1>8, <1>9, <1>10, <1>11, <1>12, <1>13, <1>14, <1>15
     DEF Next, NextDay, ApplyFillsAware, vars

-----------------------------------------------------------------------------
(* Every step is one of the cash book *)

LEMMA SumIs ==
    \A S : Book!MapThenSumSet(LAMBDA l : Price[l], S) = Total(Price, S)
<1> SUFFICES ASSUME NEW S
             PROVE  Book!MapThenSumSet(LAMBDA l : Price[l], S) = Total(Price, S)
  OBVIOUS
<1>1. QED BY SMT DEF Book!MapThenSumSet, Book!MapThenFoldSet, Sums, AddsUp, Any, Rest, Total

\* Some legs are paid.
LEMMA PayIs ==
    ASSUME Paid(account) \subseteq Paid(account'),
           Paid(account') \ Paid(account) \subseteq CashLegs,
           account'.cash = account.cash + Total(Price, Paid(account') \ Paid(account))
    PROVE  Book!Pay
<1>1. account'.cash = account.cash
           + Book!MapThenSumSet(LAMBDA l : Price[l], Paid(account') \ Paid(account))
  BY SumIs
<1>2. QED BY <1>1 DEF Book!Pay, Price, Paid, PaidLegs

Received(a) == {<<id, "dividend">> : id \in a.acted}

LEMMA DividendsAreNoLegs == \A id : <<id, "dividend">> \notin CashLegs
BY LegPrices DEF CashKinds

LEMMA NewlyPaid ==
    ASSUME NEW a, NEW b, b.acted = a.acted
    PROVE  /\ Paid(b) \ Paid(a) = PaidLegs(b) \ PaidLegs(a)
           /\ PaidLegs(a) \subseteq PaidLegs(b) => Paid(a) \subseteq Paid(b)
           /\ PaidLegs(b) = PaidLegs(a) => Paid(b) = Paid(a)
<1>1. Received(b) = Received(a) /\ \A x \in Received(a) : x \notin CashLegs
  BY DividendsAreNoLegs DEF Received
<1>2. Paid(a) = PaidLegs(a) \union Received(a) /\ Paid(b) = PaidLegs(b) \union Received(b)
  BY DEF Paid, Received
<1>3. PaidLegs(a) \subseteq CashLegs /\ PaidLegs(b) \subseteq CashLegs
  BY PaidLegsAre
<1>4. QED BY <1>1, <1>2, <1>3

\* Nothing of the cash book changes.
LEMMA BookSame ==
    ASSUME account'.cash = account.cash, Paid(account') = Paid(account)
    PROVE  UNCHANGED Book!vars
BY DEF Book!vars, Paid, PaidLegs

LEMMA SaveIsPay ==
    ASSUME Booking, Save
    PROVE  Book!Pay
<1>1. account' = draft /\ Tally(account, draft)
  BY DEF Save, Booking
<1>2. /\ Paid(draft) \ Paid(account) = PaidLegs(draft) \ PaidLegs(account)
      /\ Paid(account) \subseteq Paid(draft)
  BY <1>1, NewlyPaid DEF Tally
<1>3. Paid(draft) \ Paid(account) \subseteq CashLegs
  BY <1>2, PaidLegsAre
<1>4. draft.cash = account.cash + Total(Price, Paid(draft) \ Paid(account))
  BY <1>1, <1>2 DEF Tally
<1>5. QED BY <1>1, <1>2, <1>3, <1>4, PayIs

LEMMA ApplyFillIsPay ==
    ASSUME Booking, NEW f \in LegacyFills, ApplyFill(f)
    PROVE  Book!Pay \/ UNCHANGED Book!vars
<1> DEFINE b == Filled(account, f)
           l == CashLeg(f)
<1>1. /\ account' = b /\ f.id \notin account.ledger
      /\ f.side = "SELL" => f.shares <= account.shares[f.code]
      /\ Typed(account) /\ Once(account) /\ account.cash \in Int
  BY DEF ApplyFill, Store, Booking, Counted, Typing, Typed, Accounts
<1>2. /\ b.acted = account.acted
      /\ \/ b.cash = account.cash /\ PaidLegs(b) = PaidLegs(account)
         \/ /\ l \in CashLegs \ PaidLegs(account)
            /\ PaidLegs(b) = PaidLegs(account) \union {l}
            /\ b.cash = account.cash + Price[l]
  BY <1>1, CashOfFilled
<1> HIDE DEF b, l
<1>3. CASE b.cash = account.cash /\ PaidLegs(b) = PaidLegs(account)
  <2>1. Paid(b) = Paid(account)
    BY <1>2, <1>3, NewlyPaid
  <2>2. UNCHANGED Book!vars
    BY <1>1, <1>3, <2>1, BookSame
  <2>3. QED BY <2>2
<1>4. CASE /\ l \in CashLegs \ PaidLegs(account)
           /\ PaidLegs(b) = PaidLegs(account) \union {l}
           /\ b.cash = account.cash + Price[l]
  <2>1. PaidLegs(b) \ PaidLegs(account) = {l}
    BY <1>4
  <2>2. Paid(b) \ Paid(account) = {l} /\ Paid(account) \subseteq Paid(b)
    BY <1>2, <1>4, <2>1, NewlyPaid
  <2>3. Total(Price, {l}) = Price[l]
    <3>1. Price[l] \in Int /\ {} \union {l} = {l} /\ Integral(Price, {l})
      BY <1>4, LegPrices, PricesIntegral
    <3>2. Total(Price, {} \union {l}) = Total(Price, {}) + Price[l]
      BY <3>1, FS_EmptySet, TotalInsert
    <3>3. Total(Price, {}) = 0
      BY TotalEmpty
    <3>4. QED BY <3>1, <3>2, <3>3
  <2>4. b.cash = account.cash + Total(Price, Paid(b) \ Paid(account))
    BY <1>4, <2>2, <2>3
  <2>5. Book!Pay
    BY <1>1, <1>4, <2>2, <2>4, PayIs
  <2>6. QED BY <2>5
<1>5. QED BY <1>2, <1>3, <1>4

LEMMA AdjustmentIsCorrect ==
    ASSUME Booking, NEW x \in Adjustments, ApplyAdjustment(x)
    PROVE  Book!Correct
<1> DEFINE b == Adjusted(account, x)
<1>1. account' = b /\ Typed(account) /\ today \in Days
  BY DEF ApplyAdjustment, Store, Booking, Counted, Typing
<1>2. b.acted = account.acted /\ PaidLegs(b) = PaidLegs(account) /\ b.cash = account.cash + x.cash
  BY <1>1, CashOfAdjusted
<1> HIDE DEF b
<1>3. Paid(b) = Paid(account)
  BY <1>2, NewlyPaid
<1>4. account'.cash = account.cash + x.cash /\ Paid(account') = Paid(account)
  BY <1>1, <1>2, <1>3
<1>5. \E amount \in {a.cash : a \in Adjustments} : account'.cash = account.cash + amount
  BY <1>4
<1>6. QED BY <1>4, <1>5 DEF Book!Correct, Paid, PaidLegs

LEMMA ActionIsReceive ==
    ASSUME Booking, NEW e \in Actions, ApplyCorporateAction(e)
    PROVE  Book!Receive
<1> DEFINE b == Distributed(account, e)
           d == <<e.id, "dividend">>
<1>1. account' = b /\ Typed(account) /\ e.id \notin account.acted
  BY DEF ApplyCorporateAction, Store, Booking, Counted, Typing
<1>2. /\ b.acted = account.acted \union {e.id} /\ PaidLegs(b) = PaidLegs(account)
      /\ b.cash >= account.cash
  BY <1>1, CashOfDistributed
<1> HIDE DEF b
<1>3. Received(b) = Received(account) \union {d} /\ d \notin Received(account)
  BY <1>1, <1>2 DEF Received
<1>4. d \notin PaidLegs(account)
  BY DividendsAreNoLegs, PaidLegsAre
<1>5. Paid(b) = Paid(account) \union {d} /\ d \notin Paid(account)
  BY <1>2, <1>3, <1>4 DEF Paid, Received
<1>6. d \in {<<y.id, "dividend">> : y \in Actions} \ Paid(account)
  BY <1>5
<1>7. /\ \E p \in {<<y.id, "dividend">> : y \in Actions} \ Paid(account) :
             Paid(account') = Paid(account) \union {p}
      /\ account'.cash >= account.cash
  BY <1>1, <1>2, <1>5, <1>6
<1>8. QED BY <1>7 DEF Book!Receive, Paid, PaidLegs

\* Every step of the account is a step of the abstract book or leaves it as it is.
THEOREM BookStep ==
    Booking /\ [Next]_vars => [Book!Next]_(Book!vars)
<1> SUFFICES ASSUME Booking, [Next]_vars PROVE [Book!Next]_(Book!vars)
  OBVIOUS
<1>1. CASE UNCHANGED account
  BY <1>1 DEF Book!vars
<1>2. CASE Save
  BY <1>2, SaveIsPay DEF Book!Next
<1>3. ASSUME NEW f \in LegacyFills, ApplyFill(f)
      PROVE  [Book!Next]_(Book!vars)
  BY <1>3, ApplyFillIsPay DEF Book!Next
<1>4. ASSUME NEW x \in Adjustments, ApplyAdjustment(x)
      PROVE  [Book!Next]_(Book!vars)
  BY <1>4, AdjustmentIsCorrect DEF Book!Next
<1>5. ASSUME NEW e \in Actions, ApplyCorporateAction(e)
      PROVE  [Book!Next]_(Book!vars)
  BY <1>5, ActionIsReceive DEF Book!Next
<1>6. QED
  BY <1>1, <1>2, <1>3, <1>4, <1>5
     DEF Next, NextDay, ApplyFillsAware, Settle, RecordFill, StartSettling, SettleEvent, Crash,
         vars

(***************************************************************************)
(* The account keeps the promise of a cash book: each leg of a fill and    *)
(* each dividend moves the cash once and by its amount, when a command is  *)
(* saved, and nothing else does but corrections, if the calendar reaches   *)
(* far enough.                                                             *)
(***************************************************************************)
THEOREM BookIsKept ==
    ASSUME CalendarReaches
    PROVE  Spec => KeepsBook
<1>1. Init => Book!Init
  <2> SUFFICES ASSUME Init PROVE Book!Init
    OBVIOUS
  <2>1. /\ account.cash = OpeningCash /\ account.acted = {}
        /\ \A l \in Legs : account.effects[l] = 0
    BY DEF Init, NewAccount
  <2>2. QED BY <2>1, LegPrices DEF Book!Init
<1>2. Booking /\ [Next]_vars => Booking'
  BY BookingStep
<1>3. QED BY <1>1, <1>2, BookingInit, BookStep, PTL DEF Spec, KeepsBook, Book!Spec
=============================================================================
