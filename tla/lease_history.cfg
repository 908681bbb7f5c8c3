CONSTANTS
    Job = {j1}
    NoJob = NoJob
    TTL = {1}
    Lag = 1
    Stamp <- FixedOffset
    MaxMailboxes = 1
    MaxLeases = 3
    MaxClock = 2
    MaxDeadline = 3
SPECIFICATION FairSpec
INVARIANTS TypeOK BindingConsistent OneLeasePerRequest BoundOnce
PROPERTIES NoEarlyExpiry OutcomeIsFinal UsedUntilReopened AbandonedIsRecovered
CHECK_DEADLOCK FALSE
