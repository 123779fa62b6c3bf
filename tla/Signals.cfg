SPECIFICATION SignalsSpec
CONSTANTS
    Scan <- MCScan
    EC <- MCEC
    XC <- MCXC
    Shapes <- MCShapes
    Firsts <- MCFirsts
    InPanel <- MCInPanel
    Companions <- MCCompanions
    Others <- MCOthers
    DataStart = 1
    MaxBars = 6
    Starts <- MCStarts
    SimConfigs <- MCSimConfigs
INVARIANTS
    NoLookAhead
    WindowDoesNotMatter
    SlotsHold
CHECK_DEADLOCK FALSE
