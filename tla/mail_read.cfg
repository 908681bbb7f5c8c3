CONSTANTS
    Mailbox = {m1}
    Caller = {c1}
    Kind = {"verification", "watcher", "bulk"}
    Limit = 1
    WatchLimit = 2
    Lookback = 0
    WatchLookback = 0
    Overlap = 0
    Heartbeat = 1
    Transit = 0
    MaxMail = 3
    MaxClock = 1
SPECIFICATION Spec
INVARIANTS TypeOK MessagesCounted NoCodePassedOver
CHECK_DEADLOCK FALSE
