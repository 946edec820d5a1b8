SPECIFICATION FairSpec
CONSTANTS
    s1 = s1
    Steps = {s1}
    Capacity = 2
    MaxLogs = 1
    MaxLost = 1
    MaxBroken = 1
CHECK_DEADLOCK FALSE
INVARIANTS
    TypeOK
    ViewConverges
    ShowsNoOtherOutcome
PROPERTIES
    OutcomeShown
