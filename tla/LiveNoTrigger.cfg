SPECIFICATION Spec
CONSTANTS
    Symbols = {"X", "Y"}
    Bars <- MCBars
    Rankings <- MCRankings
    Opening <- MCOpening
    EC <- MCEC
    XC <- MCXC
    SC <- MCSC
    Prefetch = 3
    Lookback = 2
    MaxDays = 2
INVARIANT NoTriggerNoSale
CHECK_DEADLOCK FALSE
