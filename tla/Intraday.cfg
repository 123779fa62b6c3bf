CONSTANTS
    Symbols = {"A", "B", "C"}
    Inputs <- SomeInputs
    Charges <- SomeCharges
SPECIFICATION Spec
CHECK_DEADLOCK FALSE
INVARIANTS
    PaidOnSchedule
    BuysTheBestItCanAfford
    LeavesWhenItMust
