CONSTANTS
    MaxCalls = 2
    CallInputs <- SomeCalls
    RetryAfters <- SomeRetryAfters
    LongestWait = 3
    LongestRunWait = 3
    QueryGrace = 4
    RunGrace = 4
    SubmitAttempts = 3
    ServerErrors = 3
    ConnErrors = 2
    Downloads = 2
    Caps <- SomeCaps
SPECIFICATION Spec
CHECK_DEADLOCK FALSE
INVARIANTS
    AnswersForItsTask
    AsksUntilTheEnd
    GivesUpInARow
    
PROPERTIES
    CallsEnd
