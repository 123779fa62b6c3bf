CONSTANTS
    SqlKeys <- SomeSqlKeys
    RawConfigs <- SomeConfigs
    BatchSizes <- Sizes
SPECIFICATION SplitSpec
CHECK_DEADLOCK FALSE
INVARIANTS
    EveryComboOnce
