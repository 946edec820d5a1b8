SPECIFICATION Spec
CONSTANTS
    Workflows <- Branches
    Interrupts = {}
    MaxLost = 0
INVARIANTS
    SkippedOnlyIfAllPathsSkipped
