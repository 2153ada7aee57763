--------------------------- MODULE MCRunLifecycle ---------------------------
(* RunLifecycle with two worker processes and one dispatcher, for TLC.       *)
EXTENDS RunLifecycle, TLC

WorkerSymmetry == Permutations(Workers)
=============================================================================
