SPECIFICATION Spec
CONSTANTS
    Tasks = {t1}
    Workers = {w1, w2}
    MaxRetries = 0
    RedeliveryFloor = 3
    StoreResult = {t1}
    Rejected = {}
    Unparsed = {}
    Unreadable = {}
    Keyed = {}
    Expiring = {}
    LongTasks = {}
    Trimmers = {}
    MaxId = 1
    MaxFaults = 6
SYMMETRY WorkerSymmetry
INVARIANTS RunsBounded
CHECK_DEADLOCK FALSE
