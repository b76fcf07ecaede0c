------------------------------ MODULE CashBook ------------------------------
(***************************************************************************)
(* What a paper account promises about its cash (execution/trading/paper.py *)
(* and execution/settlement/engine.py, read as one): every obligation, a   *)
(* leg of a fill or a dividend, moves the cash once and never again,       *)
(* whatever commands are repeated or killed; besides, somebody may correct *)
(* the cash by hand.                                                       *)
(***************************************************************************)
EXTENDS Integers, FiniteSetsExt

CONSTANTS
    Obligations,  \* what moves the cash by an amount known beforehand
    Amount,       \* that amount: [Obligations -> Int]
    Dividends,    \* what moves it by an amount that depends on the holding
    Corrections,  \* the amounts of the corrections made by hand
    Opening       \* the cash of an account that was just reset

VARIABLES
    cash,
    paid          \* the obligations and dividends that have moved the cash

vars == <<cash, paid>>

Init == cash = Opening /\ paid = {}

(***************************************************************************)
(* A command saves the account: some obligations are paid, none for the    *)
(* second time.                                                            *)
(***************************************************************************)
Pay ==
    /\ paid \subseteq paid'
    /\ paid' \ paid \subseteq Obligations
    /\ cash' = cash + MapThenSumSet(LAMBDA o : Amount[o], paid' \ paid)

Receive ==
    /\ \E d \in Dividends \ paid : paid' = paid \union {d}
    /\ cash' >= cash

Correct ==
    /\ \E amount \in Corrections : cash' = cash + amount
    /\ paid' = paid

Next == Pay \/ Receive \/ Correct

Spec == Init /\ [][Next]_vars
=============================================================================
