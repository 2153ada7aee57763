\* Retries, replans and takeovers, under fairness (hence no symmetry).
CONSTANTS
  Workers = {w1, w2}
  Dispatchers = {d1}
  MaxRequeues = 1
  MaxPlannerRetries = 1
  MaxActions = 1
  MaxReplans = 1
  MaxUserOps = 0
  MaxFaults = 1
SPECIFICATION FairSpec
INVARIANTS
  PlanGeneratedOnce
  ReplansBounded
PROPERTIES
  LeaseRevivalIsVersioned
  Settles
CHECK_DEADLOCK FALSE
