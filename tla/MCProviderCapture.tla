------------------------- MODULE MCProviderCapture -------------------------
(* ProviderCapture with interchangeable processes and activities. *)
EXTENDS ProviderCapture, TLC

\* A good answer, one over max_response_bytes, a timeout or 5xx, a 429, an
\* oversized 429, and a 403.
MCAnswers ==
    {[kind |-> "answer", big |-> FALSE], [kind |-> "answer", big |-> TRUE],
     [kind |-> "lost", big |-> FALSE],
     [kind |-> "throttled", big |-> FALSE], [kind |-> "throttled", big |-> TRUE],
     [kind |-> "denied", big |-> FALSE]}

Symmetry == Permutations(Procs) \cup Permutations(Activities)
=============================================================================
