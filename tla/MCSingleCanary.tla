--------------------------- MODULE MCSingleCanary ---------------------------
(* Instances of SingleCanary for TLC. *)
EXTENDS SingleCanary
=============================================================================
