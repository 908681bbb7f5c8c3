CONSTANTS
    Mailbox = {m1}
    Caller = {c1}
    Kind = {"verification", "bulk"}
    Limit = 1
    WatchLimit = 2
    Lookback = 0
    WatchLookback = 0
    Overlap = 0
    Heartbeat = 1
    Transit = 0
    MaxMail = 2
    MaxClock = 1
SPECIFICATION Spec
PROPERTIES FullScanComplete
CHECK_DEADLOCK FALSE
