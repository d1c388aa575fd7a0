SPECIFICATION Spec
CONSTANTS
    Tasks = {t1}
    Workers = {w1, w2}
    MaxRetries = 1
    RedeliveryFloor = 1
    StoreResult = {t1}
    Rejected = {}
    Unparsed = {}
    Unreadable = {}
    Keyed = {}
    Expiring = {}
    LongTasks = {t1}
    Trimmers = {}
    MaxId = 2
    MaxFaults = 1
SYMMETRY WorkerSymmetry
INVARIANTS TypeOK NoTaskLost PendingInStream AckCovered OneCopyPerProcess
PROPERTIES ImplementsLedgerSafety
CHECK_DEADLOCK FALSE
