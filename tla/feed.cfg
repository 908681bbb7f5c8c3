CONSTANTS
    Client = {c1}
    Batch = {0, 1, 2}
    Limit = {2, 3}
    Buffer = 2
    PageSize = 2
    MaxSequence = 5
SPECIFICATION FairSpec
INVARIANTS TypeOK InOrder NoSilentGap
PROPERTIES CaughtUp WriterNeverBlocked
CHECK_DEADLOCK FALSE
