\* Deliveries, crashes and user requests; no retries or replans.
CONSTANTS
  Workers = {w1, w2}
  Dispatchers = {d1}
  MaxRequeues = 0
  MaxPlannerRetries = 0
  MaxActions = 1
  MaxReplans = 0
  MaxUserOps = 2
  MaxFaults = 1
SYMMETRY WorkerSymmetry
SPECIFICATION Spec
INVARIANTS
  TypeOK
  FencingTokenUnique
  NoLostWakeup
  LeaseIffRunning
PROPERTIES
  TerminalIsFinal
CHECK_DEADLOCK FALSE
