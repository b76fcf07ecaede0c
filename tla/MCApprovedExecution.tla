------------------------ MODULE MCApprovedExecution ------------------------
(***************************************************************************)
(* An instance of ApprovedExecution for TLC: two child orders of two       *)
(* shares each, of which the market gives all, one or none.                *)
(***************************************************************************)
EXTENDS ApprovedExecution, TLC

MCApproved == [o \in Orders |-> 2]
MCMarkets == {[o \in Orders |-> IF o = 1 THEN 2 ELSE 0], [o \in Orders |-> 1]}
MCBound == ("run" :> 3) @@ ("crash" :> 1) @@ ("tear" :> 1) @@ ("command" :> 1)
           @@ ("revision" :> 1) @@ ("switch" :> 2)
=============================================================================
