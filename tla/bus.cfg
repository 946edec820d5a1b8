SPECIFICATION FairSpec
CONSTANTS
    e1 = e1
    e2 = e2
    p1 = p1
    p2 = p2
    c1 = c1
    c2 = c2
    Executions = {e1, e2}
    Publishers = {p1, p2}
    Channels = {c1, c2}
    Capacity = 1
    MaxEvents = 2
CHECK_DEADLOCK FALSE
INVARIANTS
    NeverPanics
    EveryoneServed
PROPERTIES
    KeepsFeeds
    NeverBlocked
