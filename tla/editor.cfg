SPECIFICATION FairSpec
CONSTANTS
    cond = cond
    a = a
    b = b
    Steps = {cond, a, b}
    Conditions = {cond}
    Workflows <- Begin
    Movable = {a}
    Touched <- Between
    MaxVisits = 2
    MaxEdits = 2
    MaxSaves = 2
    MaxTroubles = 1
CHECK_DEADLOCK FALSE
INVARIANTS
    OrderKept
    ReloadDrawsSame
    SavedMeansStored
PROPERTIES
    EditsArrive
