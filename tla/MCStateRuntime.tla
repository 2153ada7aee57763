--------------------------- MODULE MCStateRuntime ---------------------------
(* StateRuntime with interchangeable executions and requests. *)
EXTENDS StateRuntime, TLC

Symmetry == Permutations(Executions) \cup Permutations(Clients)
=============================================================================
