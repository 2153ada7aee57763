CONSTANTS
    BraveKeyPresent = FALSE
    DuckDuckGoEnabled = TRUE
    UnavailableStreak = 2
    MaxProbeFailures = 1
    MaxSwitches = 1
    Families = {"direct"}
    Strategies = 2
    Target = 1
    LocalSearXNG = TRUE
    QueryCap = 3
    MaxProviderRequests = 9
    MaxSearches = 7
    MaxRestarts = 1
SPECIFICATION FairSpec
INVARIANTS
    SearchSound
PROPERTIES
    OutcomesRecorded
    AttemptEnds
CHECK_DEADLOCK FALSE
