CONSTANTS
    Compatible = TRUE
    KnownOrigin = TRUE
    Urls = {"a", "b", "c", "d", "e"}
    Location <- MCLocation
    Public = {"a", "b", "c", "d", "e"}
    MaxRedirects = 3
    Questions = {"q1", "q2"}
    HostOf <- MCHostOf
    ResultLists <- MCResultLists
    PageLimit = 3
    MaxConcurrency = 2
    MaxSameHost = 1
    MaxExtracted = 3
    CallBudgets = {12000}
    MaxAttempts = 2
    MaxCrashes = 1
SPECIFICATION FairSpec
INVARIANTS
    ReadsControlled
    PagesPaidOnce
PROPERTIES
    AttemptEnds
CHECK_DEADLOCK FALSE
