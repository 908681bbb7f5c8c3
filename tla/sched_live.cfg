CONSTANTS
    a1 = a1
    a2 = a2
    Account = {a1}
    Plan <- OnePlan
    Graceful = FALSE
    MaxStarts = 2
    MaxCrashes = 0
    MaxCount = 0
SPECIFICATION FairSpec
PROPERTIES RoundsContinue CancelledRunnersEnd
CHECK_DEADLOCK FALSE
