SPECIFICATION FairSpec
CONSTANTS
    r1 = r1
    r2 = r2
    Requests = {r1, r2}
    Policies = {"allow", "skip", "queue"}
    MaxLost = 1
    MaxCrashes = 1
CHECK_DEADLOCK FALSE
INVARIANTS
    CancelsMatch
    OverlapOnlyByRace
    CancelledIfAsked
    RefusedForOne
PROPERTIES
    OutcomeFinal
    EveryExecutionEnds
