CONSTANTS
    Priority <- MCPriority
    Requirements <- MCRequirements
    Independent = {}
    Families <- MCFamilies
    Findings <- MCFindings
    MaxActions = 4
    MaxSearches = 3
    MaxPages = 2
    MaxIterations = 4
    MaxReplans = 1
    MaxTechnical = 1
    StreakToStop = 2
    MaxFeedback = 2
    Phrases = 1
    MaxRestarts = 1
SPECIFICATION FairSpec
INVARIANTS
    StopsAreJustified
PROPERTIES
    ChoicesAreFresh
    ResearchEnds
CHECK_DEADLOCK FALSE
