SPECIFICATION Spec
CONSTANTS
    p1 = p1
    p2 = p2
    p3 = p3
    w = w
    other = other
    page = page
    Operations = {p1, p2, p3}
    Requests <- Chosen
    Canvases <- Sent
    Rest <- Neighbour
    MaxFaults = 1
SYMMETRY Anyone
CHECK_DEADLOCK FALSE
INVARIANTS
    OneSavesCanvas
    AloneSucceeds
    SomebodyGoesOn
PROPERTIES
    ReadersSeeOneCanvas
