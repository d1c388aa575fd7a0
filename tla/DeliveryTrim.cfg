SPECIFICATION FairSpec
CONSTANTS
    Tasks = {t1, t2}
    Workers = {w1}
    MaxRetries = 0
    RedeliveryFloor = 1
    StoreResult = {t1}
    Rejected = {t2}
    Unparsed = {t2}
    Unreadable = {t2}
    Keyed = {t1}
    Expiring = {t1}
    LongTasks = {}
    Trimmers = {w1}
    MaxId = 2
    MaxFaults = 1
INVARIANTS PendingInStream
PROPERTIES OrphansRemoved
CHECK_DEADLOCK FALSE
