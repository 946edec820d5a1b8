SPECIFICATION FairSpec
CONSTANTS
    e1 = e1
    h1 = h1
    h2 = h2
    Executions = {e1}
    Handlers = {h1, h2}
    Lists <- Pages
    Budget = 2
    MaxUpdates = 2
    MaxFaults = 1
    MaxCrashes = 1
CHECK_DEADLOCK FALSE
INVARIANTS
    SettingsOfOneUpdate
    NotifiedAsAsked
PROPERTIES
    NotifiedInTheEnd
