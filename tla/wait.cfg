SPECIFICATION FairWaitSpec
CONSTANTS
    s1 = s1
    s2 = s2
    Steps = {s1, s2}
    Capacity = 2
    MaxLogs = 1
    MaxLost = 1
CHECK_DEADLOCK FALSE
INVARIANTS
    AnswersOutcome
    LeavesNothing
PROPERTIES
    KeepsRecords
    HearsOutcome
