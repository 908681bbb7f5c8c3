CONSTANTS
    Client = {c1}
    Batch = {1}
    Limit = {3}
    Buffer = 1
    PageSize = 2
    MaxSequence = 3
SPECIFICATION Spec
INVARIANTS NothingMissedWhileOpen
CHECK_DEADLOCK FALSE
