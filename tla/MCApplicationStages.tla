------------------------ MODULE MCApplicationStages ------------------------
(* ApplicationStages; the processes and the root binding are model values. *)
EXTENDS ApplicationStages
=============================================================================
