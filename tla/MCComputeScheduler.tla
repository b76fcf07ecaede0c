------------------------- MODULE MCComputeScheduler -------------------------
(***************************************************************************)
(* Instances of ComputeScheduler for TLC: a CPU job, a GPU job that needs  *)
(* its result (both may be retried), and a GPU job on its own; or only the *)
(* first two.                                                              *)
(***************************************************************************)
EXTENDS ComputeScheduler, TLC

MCDeps == 1 :> {} @@ 2 :> {1} @@ 3 :> {}
MCGpusOf == 1 :> 0 @@ 2 :> 1 @@ 3 :> 1
MCMaxRetries == 1 :> 1 @@ 2 :> 1 @@ 3 :> 0
PairDeps == 1 :> {} @@ 2 :> {1}
PairGpusOf == 1 :> 0 @@ 2 :> 1
PairMaxRetries == 1 :> 1 @@ 2 :> 0
=============================================================================
