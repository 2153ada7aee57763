SPECIFICATION Spec
CONSTANTS
    a = a
    b = b
    c = c
    o1 = o1
    o2 = o2
    d1 = d1
    d2 = d2
    Claims = {a, b, c}
    Owners = {o1, o2}
    Dimensions = {d1, d2}
    DimensionOf <- MCDimensionOf
    Findings <- MCFindings
    Contradictions <- MCContradictions
    RiskyTypes = {}
    Independent = {d2}
    MaxPages = 3
    MaxItems = 1
    MaxIterations = 2
    MaxReplans = 1
    MaxExecutions = 2
    MaxCrashes = 1
INVARIANTS
    RowsTellTheFacts
    LeftoversExplainedOnce
    ContradictionDisclosed
PROPERTIES
    ClosedStaysClosed
