SPECIFICATION FairSpec
CONSTANTS
    w1 = w1
    w2 = w2
    h1 = h1
    h2 = h2
    Workflows = {w1, w2}
    Handlers = {h1, h2}
    Expressions = {"hourly"}
    Unusable = {"off", "malformed"}
    MaxSaves = 2
    MaxFiring = 1
    MaxCrashes = 1
CHECK_DEADLOCK FALSE
INVARIANTS
    OutOfStepExplained
PROPERTIES
    KeepsSchedule
    SilentOnceDeleted
