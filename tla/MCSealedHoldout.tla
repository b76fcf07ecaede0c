-------------------------- MODULE MCSealedHoldout --------------------------
(* Instances of SealedHoldout for TLC. *)
EXTENDS SealedHoldout, TLC

CONSTANTS p1, p2, v1, v2

MCProcs == {p1, p2}
MCViews == {v1, v2}
Symmetry == Permutations(MCProcs) \cup Permutations(MCViews)
=============================================================================
