\* Two executions of which the first may be revoked while it drafts, and the
\* follower of the run's events.
CONSTANTS
  Questions <- MCQuestions
  Card <- MCCard
  MaxWriterEvidence = 2
  Executions = {x1, x2}
  Findings <- MCFindings
  Drafts <- MCDrafts
  Windows = {2048, 2560, 3000}
  ProtectedTokens = 900
  WriterLimit = 3000
  SaveEvents = 1
  PageLimit = 2
  MaxEvents = 5
  MaxDrops = 1
  Compatible = TRUE
  KnownOrigin = FALSE
SYMMETRY ExecutionSymmetry
SPECIFICATION Spec
INVARIANTS
  DraftsSound
  CompletedExactlyWithReport
  ReportsSound
PROPERTIES
  StreamImplementsDelivery
CHECK_DEADLOCK FALSE
