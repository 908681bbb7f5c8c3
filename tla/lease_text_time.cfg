CONSTANTS
    Job = {}
    NoJob = NoJob
    TTL = {2}
    Lag = 0
    Stamp <- SummerTimeEnds
    MaxMailboxes = 1
    MaxLeases = 1
    MaxClock = 6
    MaxDeadline = 8
SPECIFICATION Spec
PROPERTIES NoEarlyExpiry
CHECK_DEADLOCK FALSE
