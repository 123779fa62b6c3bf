SPECIFICATION SignalsSpec
CONSTANTS
    Scan <- MCScan
    EC <- MCECRising
    XC <- MCXCRising
    Shapes <- MCRiseAndFall
    Firsts <- MCFalls
    InPanel <- MCRiseAndFall
    Companions <- MCRisingCompanions
    Others <- MCOthers
    DataStart = 1
    MaxBars = 8
    Starts <- MCStarts
    SimConfigs <- MCSimConfigs
PROPERTY RanksWalkForward
CHECK_DEADLOCK FALSE
