SPECIFICATION FairSpec
CONSTANTS
    Workflows <- Disturbed
    Interrupts = {"cancelled", "deadline"}
    MaxLost = 1
INVARIANTS
    NoStrayGoroutines
    OutcomeExplained
PROPERTIES
    KeepsRecords
    Terminates
