SPECIFICATION FairSpec
CONSTANTS
    Tasks = {t1}
    Workers = {w1}
    MaxRetries = 1
    RedeliveryFloor = 1
    StoreResult = {t1}
    Rejected = {}
    Unparsed = {}
    Unreadable = {}
    Keyed = {}
    Expiring = {}
    LongTasks = {}
    Trimmers = {}
    MaxId = 3
    MaxFaults = 1
PROPERTIES ImplementsLedger
CHECK_DEADLOCK FALSE
