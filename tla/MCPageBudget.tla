---------------------------- MODULE MCPageBudget ----------------------------
(* PageBudget for TLC; its limits come from the configurations.             *)
EXTENDS PageBudget
=============================================================================
