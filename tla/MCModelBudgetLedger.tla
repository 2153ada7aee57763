------------------------ MODULE MCModelBudgetLedger ------------------------
(* ModelBudgetLedger for TLC: attempts and executions are                   *)
(* interchangeable.                                                         *)
EXTENDS ModelBudgetLedger, TLC

Symmetry == Permutations(Attempts) \cup Permutations(Executions)
=============================================================================
