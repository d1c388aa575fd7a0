SPECIFICATION FairSpec
CONSTANTS
    Jobs = {j1, j2, j3}
    Threads = {t1, t2, t3, t4}
    Initial = {t1}
    Capacity = 2
    MaxThreads = 4
    None = None
INVARIANTS NoStrandedJob StandbyComing
PROPERTY QueueServed
CHECK_DEADLOCK FALSE
