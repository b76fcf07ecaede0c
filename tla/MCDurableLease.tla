--------------------------- MODULE MCDurableLease ---------------------------
(* Instances of DurableLease for TLC. *)
EXTENDS DurableLease
=============================================================================
