CONSTANTS
    a1 = a1
    a2 = a2
    Account = {a1}
    Plan <- OnePlan
    Graceful = TRUE
    MaxStarts = 1
    MaxCrashes = 1
    MaxCount = 1
SPECIFICATION Spec
INVARIANTS UnfinishedIsSaved
CHECK_DEADLOCK FALSE
