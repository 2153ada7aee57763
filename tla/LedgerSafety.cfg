CONSTANTS
  Executions = {e1, e2}
  Attempts = {a1, a2, a3}
  Questions = {q1}
  MaxTokens = 5
  PlannerTokens = 1
  ResearchTokens = 2
  WriterTokens = 1
  ReserveTokens = 1
  PlannerCall = 1
  MinCall = 2
  MaxCall = 2
  MinRetry = 1
  Target = 1
SPECIFICATION Spec
SYMMETRY Symmetry
INVARIANTS TypeOK LedgerSound ReportedTokensCharged
CHECK_DEADLOCK FALSE
