\* Two copies of one dispatch, and a pause and resume between them.
CONSTANTS
  Workers = {w1, w2}
  Dispatchers = {d1}
  MaxRequeues = 0
  MaxPlannerRetries = 0
  MaxActions = 1
  MaxReplans = 0
  MaxUserOps = 2
  MaxFaults = 1
SPECIFICATION Spec
INVARIANTS
  RevokedExecutionIsNoOp
CHECK_DEADLOCK FALSE
