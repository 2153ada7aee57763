\* Three executions that crash, raise and reuse task ids.
CONSTANTS
  MaxPages = 3
  MaxFetchAttempts = 4
  MaxSearches = 2
  MaxExtracted = 2
  MaxCalls = 2
  MaxActions = 2
  MaxFeedback = 1
  MaxPageAttempts = 3
  MaxPagesRead = 2
  MaxExecutions = 3
  MaxTargets = 2
SPECIFICATION Spec
INVARIANTS
  TypeOK
  SlotsGivenBack
  ExtractionWithinBudget
  OverrunBounded
  SearchesBounded
  ReservedSlotsHaveOwners
CHECK_DEADLOCK FALSE
