CONSTANTS
    Mailbox = {m1, m2}
    Caller = {c1, c2}
    Kind = {"verification", "bulk"}
    Limit = 1
    WatchLimit = 2
    Lookback = 0
    WatchLookback = 0
    Overlap = 0
    Heartbeat = 1
    Transit = 0
    MaxMail = 1
    MaxClock = 0
SPECIFICATION FairSpec
PROPERTIES CallsReturn
CHECK_DEADLOCK FALSE
