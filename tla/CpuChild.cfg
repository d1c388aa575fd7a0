SPECIFICATION FairSpec
CONSTANTS
    Jobs = {j1, j2, j3, j4}
    Slots = {s1}
    Children = {c1}
    Concurrency = 2
    Prefetch = 1
    Recycle = 3
    MaxFaults = 1
    None = None
INVARIANTS ArmedCanRun RecycleDrains
PROPERTIES AllAnswered
CHECK_DEADLOCK FALSE
