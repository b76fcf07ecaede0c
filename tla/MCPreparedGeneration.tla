------------------------ MODULE MCPreparedGeneration ------------------------
(* PreparedGeneration with interchangeable processes, ids and bytes. *)
EXTENDS PreparedGeneration, TLC

Symmetry == Permutations(Publishers) \cup Permutations(Ids) \cup Permutations(Bytes)
=============================================================================
