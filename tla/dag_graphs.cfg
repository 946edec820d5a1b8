SPECIFICATION Spec
CONSTANTS
    Workflows <- Graphs
    Interrupts = {}
    MaxLost = 0
INVARIANTS
    DependenciesSettled
    StuckExplained
    NothingLeftBehind
    RowsAgree
