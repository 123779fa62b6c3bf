CONSTANTS
    Total = 3
    MaxParallel = 2
SPECIFICATION FairSpec
CHECK_DEADLOCK FALSE
INVARIANTS
    CountsAddUp
    EachBatchOnce
    ResultsAreTheirOwn
    NoRunForgotten
PROPERTIES
    KeepsBoard
    SweepEnds
