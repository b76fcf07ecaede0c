-------------------------- MODULE PaperSettlement --------------------------
(***************************************************************************)
(* A paper trading account and its settlement: LocalPaperAccount in        *)
(* execution/trading/paper.py over execution/settlement/engine.py.         *)
(*                                                                         *)
(* The account is one document, account_state.json.  A command loads it,   *)
(* changes the copy and saves it at its end, so a command that is killed   *)
(* or raises leaves the document as it was.  The settlement-aware commands *)
(* turn fills into events that are due on later trade days, and settle     *)
(* what is due: one step per fill recorded and one per event looked at.    *)
(* The other commands are one step.                                        *)
(*                                                                         *)
(* Lots are kept as totals per code (which lot a sale takes from and what  *)
(* it cost is left out), prices, costs and the derived .jsonl files too.   *)
(***************************************************************************)
EXTENDS Integers, Sequences, FiniteSets

CONSTANTS
    Codes,           \* the securities
    Fills,           \* fills of a broker: [id, code, side, day, shares, value]
    Batches,         \* the sequences of fills the settlement-aware command gets
    LegacyFills,     \* the fills the command without settlement gets
    Adjustments,     \* approved corrections: [id, code, shares, cash]
    Actions,         \* corporate actions: [id, code, day, dividend, bonus]
    Lag,             \* settlement profile: trade days per kind of event
    LastDay,         \* bound: the last trade day
    Ahead,           \* trade days the calendar knows beyond today
    OpeningCash,     \* reset(initial_cash)
    MaxCorrections   \* bound: times one correction takes effect

Days == 1..LastDay
CashKinds == {"trade_buy_cash", "trade_sell_cash"}
ShareKinds == {"trade_buy_shares", "trade_sell_shares"}
Kinds == CashKinds \union ShareKinds
FillIds == {f.id : f \in Fills}
Legs == FillIds \X Kinds

ASSUME BrokerFills ==
    /\ Fills \subseteq [id : STRING, code : Codes, side : {"BUY", "SELL"},
                        day : Days, shares : Nat, value : Nat]
    /\ \A f, g \in Fills : f.id = g.id => f = g
    /\ LegacyFills \subseteq Fills
    /\ \A b \in Batches : b \in Seq(Fills \ LegacyFills)

ASSUME Corrections ==
    /\ Adjustments \subseteq [id : STRING, code : Codes, shares : Int, cash : Int]
    /\ Actions \subseteq [id : STRING, code : Codes, day : Days, dividend : Nat, bonus : Nat]
    /\ \A a, b \in Actions : a.day = b.day => a = b

ASSUME Profile ==
    /\ Lag \in [Kinds -> Nat]
    /\ LastDay \in Nat \ {0} /\ Ahead \in Nat /\ OpeningCash \in Nat /\ MaxCorrections \in Nat

VARIABLES
    today,    \* the last trade day there is market data of
    account,  \* account_state.json
    phase,    \* of the settlement-aware command that runs, "idle" when none does
    batch,    \* the fills it was called with
    asOf,     \* the date it was called with
    cursor,   \* where its loop stands
    draft     \* its copy of the account

vars == <<today, account, phase, batch, asOf, cursor, draft>>
idle == phase = "idle"

(***************************************************************************)
(* The document.  shares are the positions, lots the shares left in the    *)
(* position lots, lotted says that there are lots at all and lotIds which; *)
(* ledger holds the keys of the trade ledger, adjusted those of the        *)
(* adjustment ledger, acted those of the corporate-action ledger.  Three   *)
(* fields are history: how often each leg of a fill took effect, how often *)
(* each correction did, and the codes whose position a command wrote       *)
(* without the lots.                                                       *)
(***************************************************************************)
NewAccount ==
    [cash |-> OpeningCash, shares |-> [c \in Codes |-> 0], events |-> << >>,
     lots |-> [c \in Codes |-> 0], lotted |-> FALSE, lotIds |-> {},
     ledger |-> {}, adjusted |-> {}, acted |-> {},
     effects |-> [l \in Legs |-> 0], corrected |-> [a \in Adjustments |-> 0], offLots |-> {}]

Init ==
    /\ today = 1
    /\ account = NewAccount
    /\ phase = "idle" /\ batch = << >> /\ asOf = 0 /\ cursor = 1
    /\ draft = account

-----------------------------------------------------------------------------
(* The events of a fill. *)

Lesser(d, e) == IF d <= e THEN d ELSE e

(***************************************************************************)
(* A date beyond the end of the calendar is the last date it knows.        *)
(***************************************************************************)
NextTradeDate(day, offset) == Lesser(day + offset, today + Ahead)

Event(f, kind, shares, cash, status) ==
    [src |-> f.id, kind |-> kind, code |-> f.code,
     settle |-> IF kind \in Kinds THEN NextTradeDate(f.day, Lag[kind]) ELSE f.day,
     shares |-> shares, cash |-> cash, status |-> status]

EventsOf(f) ==
    IF f.shares = 0
    THEN <<Event(f, "manual_adjustment", 0, 0, "skipped")>>
    ELSE IF f.side = "BUY"
         THEN <<Event(f, "trade_buy_cash", 0, -f.value, "pending"),
                Event(f, "trade_buy_shares", f.shares, 0, "pending")>>
         ELSE <<Event(f, "trade_sell_shares", -f.shares, 0, "pending"),
                Event(f, "trade_sell_cash", 0, f.value, "pending")>>

EventId(e) == <<e.src, e.kind, e.code, e.settle>>

\* Mutant: the events already there are not looked at.
AppendAlways(events, e) == Append(events, e)

AppendNew(events, e) ==
    IF \E i \in DOMAIN events : EventId(events[i]) = EventId(e) THEN events
    ELSE Append(events, e)

Recorded(events, f) ==
    LET es == EventsOf(f)
        one == AppendNew(events, es[1])
    IN IF Len(es) = 1 THEN one ELSE AppendNew(one, es[2])

-----------------------------------------------------------------------------
(* The settlement-aware commands. *)

\* Mutant: an account without lots is not given any.
OpenedWithoutLots(a) == [a EXCEPT !.lotted = TRUE, !.adjusted = {}]

(***************************************************************************)
(* What settlement starts from.  An account without lots gets one lot per  *)
(* position; the account it returns is built without the adjustment        *)
(* ledger, which is lost.                                                  *)
(***************************************************************************)
Opened(a) ==
    LET bootstrap == ~a.lotted
    IN [a EXCEPT !.lots = IF bootstrap THEN a.shares ELSE @,
                 !.lotted = @ \/ \E c \in Codes : a.shares[c] > 0,
                 !.offLots = IF bootstrap THEN {} ELSE @,
                 !.adjusted = {}]

ApplyFillsAware(fills, date) ==
    /\ idle
    /\ \A i \in DOMAIN fills : fills[i].day <= today
    /\ phase' = "recording" /\ batch' = fills /\ asOf' = date
    /\ UNCHANGED <<today, account, cursor, draft>>

RecordFill ==
    /\ phase = "recording" /\ cursor <= Len(batch)
    /\ LET f == batch[cursor]
       IN draft' = [draft EXCEPT !.ledger = @ \union {f.id}, !.events = Recorded(@, f)]
    /\ cursor' = cursor + 1
    /\ UNCHANGED <<today, account, phase, batch, asOf>>

StartSettling ==
    /\ phase = "recording" /\ cursor > Len(batch)
    /\ phase' = "settling" /\ cursor' = 1 /\ draft' = Opened(draft)
    /\ UNCHANGED <<today, account, batch, asOf>>

Settle(date) ==
    /\ idle
    /\ phase' = "settling" /\ asOf' = date /\ draft' = Opened(account)
    /\ UNCHANGED <<today, account, batch, cursor>>

Due(e) == e.status = "pending" /\ e.settle <= asOf

Settled(a, i) == [a EXCEPT !.events[i].status = "settled"]
TookEffect(a, e) == [a EXCEPT !.effects[<<e.src, e.kind>>] = @ + 1]

PayCash(a, e) == [TookEffect(a, e) EXCEPT !.cash = @ + e.cash]

(***************************************************************************)
(* _position_from_lots: the position of a code becomes what its lots hold. *)
(***************************************************************************)
Held(a, c, n) ==
    [a EXCEPT !.lots = [@ EXCEPT ![c] = n], !.shares = [@ EXCEPT ![c] = n],
              !.offLots = @ \ {c}]

(***************************************************************************)
(* So it does whether or not the lot of this fill is there already.        *)
(***************************************************************************)
AddLot(a, e) ==
    LET id == <<e.src, e.code, e.shares>>
        bought == IF id \in a.lotIds THEN 0 ELSE e.shares
        b == IF id \in a.lotIds THEN a ELSE TookEffect(a, e)
    IN [Held(b, e.code, a.lots[e.code] + bought) EXCEPT !.lotted = TRUE,
                                                        !.lotIds = @ \union {id}]

\* Mutant: the sale is not clipped.
TakeLotsUnclipped(a, e) == Held(TookEffect(a, e), e.code, a.lots[e.code] + e.shares)

(***************************************************************************)
(* A sale takes from the lots what they have, even if that is less.        *)
(***************************************************************************)
TakeLots(a, e) ==
    LET sold == Lesser(-e.shares, a.lots[e.code])
    IN Held(TookEffect(a, e), e.code, a.lots[e.code] - sold)

Effect(a, e) ==
    IF e.kind \in CashKinds THEN PayCash(a, e)
    ELSE IF e.kind = "trade_buy_shares" THEN AddLot(a, e) ELSE TakeLots(a, e)

\* Mutant: the loop stops at the first event that is not due.
SettleEventInOrder ==
    /\ phase = "settling" /\ cursor <= Len(draft.events)
    /\ LET e == draft.events[cursor]
           due == Due(e) \/ e.status = "settled"
       IN /\ draft' = IF Due(e) THEN Settled(Effect(draft, e), cursor) ELSE draft
          /\ cursor' = IF due THEN cursor + 1 ELSE Len(draft.events) + 1
    /\ UNCHANGED <<today, account, phase, batch, asOf>>

SettleEvent ==
    /\ phase = "settling" /\ cursor <= Len(draft.events)
    /\ LET e == draft.events[cursor]
       IN draft' = IF Due(e) THEN Settled(Effect(draft, e), cursor) ELSE draft
    /\ cursor' = cursor + 1
    /\ UNCHANGED <<today, account, phase, batch, asOf>>

Return == phase' = "idle" /\ batch' = << >> /\ asOf' = 0 /\ cursor' = 1

Save ==
    /\ phase = "settling" /\ cursor > Len(draft.events)
    /\ account' = draft
    /\ Return
    /\ UNCHANGED <<today, draft>>

(***************************************************************************)
(* The process is killed, or the command raises, before the save.          *)
(***************************************************************************)
Crash ==
    /\ ~idle
    /\ draft' = account
    /\ Return
    /\ UNCHANGED <<today, account>>

-----------------------------------------------------------------------------
(* The commands that are one step. *)

Store(a) ==
    /\ account' = a /\ draft' = a
    /\ UNCHANGED <<today, phase, batch, asOf, cursor>>

(***************************************************************************)
(* apply_fills writes cash and positions at once and no lots; it refuses   *)
(* to sell more than the position, and a fill of the ledger is skipped.    *)
(***************************************************************************)
CashLeg(f) == <<f.id, IF f.side = "BUY" THEN "trade_buy_cash" ELSE "trade_sell_cash">>
Signed(f, n) == IF f.side = "BUY" THEN n ELSE -n

Filled(a, f) ==
    IF f.shares = 0 THEN [a EXCEPT !.ledger = @ \union {f.id}]
    ELSE [a EXCEPT
            !.ledger = @ \union {f.id},
            !.cash = @ - Signed(f, f.value),
            !.shares = [@ EXCEPT ![f.code] = a.shares[f.code] + Signed(f, f.shares)],
            !.effects = [@ EXCEPT ![CashLeg(f)] = a.effects[CashLeg(f)] + 1],
            !.offLots = IF a.lotted THEN @ \union {f.code} ELSE @]

ApplyFill(f) ==
    /\ idle
    /\ f.day <= today
    /\ f.id \notin account.ledger
    /\ f.side = "SELL" => f.shares <= account.shares[f.code]
    /\ Store(Filled(account, f))

ManualEvent(x) ==
    [src |-> x.id, kind |-> "manual_adjustment", code |-> x.code, settle |-> today,
     shares |-> x.shares, cash |-> x.cash, status |-> "settled"]

AtLeastZero(n) == IF n >= 0 THEN n ELSE 0

(***************************************************************************)
(* apply_adjustments: a correction of the cash, or of a position.  A       *)
(* positive one adds a lot, with which the account counts as having lots   *)
(* although its other positions have none; a negative one leaves the lots. *)
(***************************************************************************)
Adjusted(a, x) ==
    LET lot == x.shares > 0
        unlotted == IF a.lotted THEN {} ELSE {c \in Codes : a.shares[c] > 0}
    IN [a EXCEPT
          !.adjusted = @ \union {x.id},
          !.corrected = [@ EXCEPT ![x] = a.corrected[x] + 1],
          !.events = Append(@, ManualEvent(x)),
          !.cash = @ + x.cash,
          !.shares = [@ EXCEPT ![x.code] = AtLeastZero(a.shares[x.code] + x.shares)],
          !.lots = IF lot THEN [@ EXCEPT ![x.code] = a.lots[x.code] + x.shares] ELSE @,
          !.lotted = @ \/ lot,
          !.offLots = IF lot THEN @ \union unlotted
                      ELSE IF x.shares < 0 /\ a.lotted THEN @ \union {x.code} ELSE @]

ApplyAdjustment(x) ==
    /\ idle
    /\ x.id \notin account.adjusted
    /\ account.corrected[x] < MaxCorrections
    /\ Store(Adjusted(account, x))

(***************************************************************************)
(* apply_corporate_actions on the day of an action: cash per share held,   *)
(* and bonus shares per ten held, rounded down, into the position only.    *)
(***************************************************************************)
Distributed(a, e) ==
    LET held == a.shares[e.code]
    IN [a EXCEPT
          !.acted = @ \union {e.id},
          !.cash = @ + held * e.dividend,
          !.shares = [@ EXCEPT ![e.code] = held + (held * e.bonus) \div 10],
          !.offLots = IF e.bonus > 0 /\ a.lotted THEN @ \union {e.code} ELSE @]

Holder(e) == idle /\ e.day <= today /\ account.shares[e.code] > 0

\* Mutant: the corporate-action ledger is not asked.
ApplyCorporateActionAgain(e) ==
    Holder(e) /\ account.cash < 2 * OpeningCash /\ Store(Distributed(account, e))

ApplyCorporateAction(e) ==
    /\ Holder(e)
    /\ e.id \notin account.acted
    /\ Store(Distributed(account, e))

(***************************************************************************)
(* The market data of another trade day arrive.                            *)
(***************************************************************************)
NextDay ==
    /\ idle /\ today < LastDay
    /\ today' = today + 1
    /\ UNCHANGED <<account, phase, batch, asOf, cursor, draft>>

Next ==
    \/ NextDay
    \/ \E fills \in Batches, date \in Days : ApplyFillsAware(fills, date)
    \/ \E date \in Days : Settle(date)
    \/ RecordFill \/ StartSettling \/ SettleEvent \/ Save \/ Crash
    \/ \E f \in LegacyFills : ApplyFill(f)
    \/ \E a \in Adjustments : ApplyAdjustment(a)
    \/ \E e \in Actions : ApplyCorporateAction(e)

Spec == Init /\ [][Next]_vars

-----------------------------------------------------------------------------
(* Properties. *)

EventRecords ==
    [src : STRING, kind : Kinds \union {"manual_adjustment"}, code : Codes, settle : Nat,
     shares : Int, cash : Int, status : {"pending", "settled", "skipped"}]

Accounts ==
    [cash : Int, shares : [Codes -> Nat], lots : [Codes -> Nat], lotted : BOOLEAN,
     lotIds : SUBSET (FillIds \X Codes \X Nat), events : Seq(EventRecords),
     ledger : SUBSET FillIds,
     adjusted : SUBSET {a.id : a \in Adjustments}, acted : SUBSET {e.id : e \in Actions},
     effects : [Legs -> Nat], corrected : [Adjustments -> Nat], offLots : SUBSET Codes]

(***************************************************************************)
(* Every variable has its type, and nothing is left in memory between two  *)
(* commands.                                                               *)
(***************************************************************************)
TypeOK ==
    /\ today \in Days
    /\ account \in Accounts /\ draft \in Accounts
    /\ phase \in {"idle", "recording", "settling"}
    /\ batch \in Seq(Fills) /\ asOf \in Days \union {0} /\ cursor \in Nat \ {0}
    /\ idle => draft = account /\ batch = << >> /\ cursor = 1

(***************************************************************************)
(* Every leg of a fill moves cash or shares at most once, however often    *)
(* the fill is applied, on whatever dates and in whatever order            *)
(* (build_settlement_events_from_fills, apply_settlement_events).          *)
(***************************************************************************)
PaidOnce == \A l \in Legs : account.effects[l] <= 1

(***************************************************************************)
(* A code whose position no command wrote behind the back of the lots has  *)
(* exactly the shares its lots have left, and an account that never was    *)
(* settled has no lots (reconcile_account_state compares the two).         *)
(***************************************************************************)
PositionsFollowLots ==
    IF account.lotted
    THEN \A c \in Codes \ account.offLots : account.shares[c] = account.lots[c]
    ELSE \A c \in Codes : account.lots[c] = 0

(***************************************************************************)
(* A settlement-aware command that is saved has settled everything due by  *)
(* its date, and one that repeats fills already recorded when nothing was  *)
(* due changes neither cash nor positions nor events.                      *)
(***************************************************************************)
SettlesAllAndNothingTwice ==
    [][Save =>
        /\ \A i \in DOMAIN account'.events : ~Due(account'.events[i])
        /\ (/\ \A i \in DOMAIN batch : batch[i].id \in account.ledger
            /\ \A i \in DOMAIN account.events : ~Due(account.events[i]))
           => /\ account'.cash = account.cash
              /\ account'.shares = account.shares
              /\ account'.events = account.events]_vars

(***************************************************************************)
(* A correction takes effect once however often it is applied, as          *)
(* tests/execution/test_paper_account.py says                              *)
(* (test_paper_account_manual_adjustments_are_idempotent).                 *)
(***************************************************************************)
CorrectedOnce == \A a \in Adjustments : account.corrected[a] <= 1

CashLegs == {CashLeg(f) : f \in Fills}

Book == INSTANCE CashBook WITH
    Obligations <- CashLegs,
    Amount <- [l \in CashLegs |->
                 LET f == CHOOSE g \in Fills : CashLeg(g) = l
                 IN IF f.side = "BUY" THEN -f.value ELSE f.value],
    Dividends <- {<<e.id, "dividend">> : e \in Actions},
    Corrections <- {a.cash : a \in Adjustments},
    Opening <- OpeningCash,
    cash <- account.cash,
    paid <- {l \in CashLegs : account.effects[l] > 0}
            \union {<<id, "dividend">> : id \in account.acted}

(***************************************************************************)
(* The account keeps the promise of a cash book: each leg of a fill and    *)
(* each dividend moves the cash by its amount, once, when a command is     *)
(* saved, and nothing else does but corrections.                           *)
(***************************************************************************)
KeepsBook == Book!Spec
=============================================================================
