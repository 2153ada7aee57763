---------------------------- MODULE MCRunService ----------------------------
(* RunService for TLC: no definition tells two profiles, adapters, sessions  *)
(* or clients apart.                                                         *)
EXTENDS RunService, TLC

ServiceSymmetry ==
  Permutations(Profiles) \union Permutations(Adapters)
    \union Permutations(Sessions) \union Permutations(Clients)
=============================================================================
