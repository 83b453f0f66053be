SPECIFICATION TurnSpec
CONSTANTS
    c1 = c1
    c2 = c2
    Batch <- TwoCalls
    Serial = {c2}
    MaxAttempt = 2
    Closers = {11}
    Overlaps = {TRUE, FALSE}
    MaxCrash = 1
    i1 = i1
    i2 = i2
CHECK_DEADLOCK FALSE
INVARIANTS
    OneEffect
    RecordsAgree
    ReadOnceInOrder
    NothingUnread
    WaitRecordsAgree
PROPERTIES
    PendingNotResurrected
