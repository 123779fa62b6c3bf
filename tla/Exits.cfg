CONSTANTS
    Bars <- SomeBars
    Entries <- SomeEntries
    ExitConfigs <- SomeConfigs
    DropThreshold = 20
    Disabled = 999
SPECIFICATION Spec
CHECK_DEADLOCK FALSE
INVARIANTS
    EachConfigExitsOnce
    ExitsAreTheFirst
