------------------------------ MODULE OneShot ------------------------------
(***************************************************************************)
(* The promise of the single canary: one question is put to the provider   *)
(* at most once, ever, and every accepted result is the one answer it got. *)
(* The answer may be lost; then nothing is ever accepted.                  *)
(***************************************************************************)
EXTENDS Naturals

CONSTANTS
    Answers,    \* what the provider may answer
    NoAnswer    \* no answer reached anybody

VARIABLES
    posts,      \* how often the question was put
    answer,     \* the answer that came back, or NoAnswer
    results     \* the answers that were accepted

vars == <<posts, answer, results>>

Init ==
    /\ posts = 0
    /\ answer = NoAnswer
    /\ results = {}

Ask ==
    /\ posts = 0
    /\ posts' = 1
    /\ answer' \in Answers \cup {NoAnswer}
    /\ UNCHANGED results

Accept ==
    /\ answer \in Answers
    /\ results' = {answer}
    /\ UNCHANGED <<posts, answer>>

Next == Ask \/ Accept

Spec == Init /\ [][Next]_vars
=============================================================================
