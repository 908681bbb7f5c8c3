CONSTANTS
    a1 = a1
    a2 = a2
    Account = {a1}
    Plan <- OnePlan
    Graceful = FALSE
    MaxStarts = 1
    MaxCrashes = 0
    MaxCount = 1
SPECIFICATION Spec
INVARIANTS PlannedAccountsExist
CHECK_DEADLOCK FALSE
