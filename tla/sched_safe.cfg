CONSTANTS
    a1 = a1
    a2 = a2
    Account = {a1, a2}
    Plan <- TwoPlan
    Graceful = TRUE
    MaxStarts = 2
    MaxCrashes = 1
    MaxCount = 1
SPECIFICATION Spec
INVARIANTS TypeOK OneLiveRunner ResumedAfterCrash
PROPERTIES NoEarlyRound CountsOwnRun
CHECK_DEADLOCK FALSE
