SPECIFICATION FairSpec
CONSTANTS
    Slots = {s1, s2}
    Busy = {s1}
    Permits = 1
    Streams = 2
    Batch = 2
    Admission = 1
    EagerCpu = FALSE
    MaxCold = 1
    MaxAsks = 2
    MaxFaults = 2
INVARIANTS AdmissionBounded NoOrphan ForcedOnlyIfAskedTwice ExitHonest
PROPERTIES StopEnds PauseEnds
CHECK_DEADLOCK FALSE
