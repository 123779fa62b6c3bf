CONSTANTS
    Instruments = {"X", "Y"}
    ConfigIds = {"1", "1_t1"}
    Configs <- MCConfigs
    OrderLists <- MCLists
    StatsChoices <- MCStats
    Snapshots <- MCSnapshots
    StartMargin = 100
    StartDay = 0
    Ends = {1, 3, 6}
    MaxCalls = 2
    BuyRate = 4
    SellRate = 5
SPECIFICATION MCSpec
INVARIANTS
    SlotLimits
    ExitsAreScheduled
    NeverOverdrawn
    BooksBalance
    SizedFromTheBook
    ExitsOnTime
    TradedOnce
    PayOutsOnSchedule
    
PROPERTIES
    ExitsSettleFirst
    ImplementsLedger
    CallsReturn
