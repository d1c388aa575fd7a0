SPECIFICATION FairSpec
CONSTANTS
    Beats = {b1, b2}
    Schedules <- OneSchedule
    Every <- EveryTwo
    Aligned = {}
    Declared <- AllDeclare
    UserDefs = {}
    MaxLateness = 0
    SkipMissed = TRUE
    NoDef = NoDef
    None = None
    MaxTime = 4
    MaxEdits = 0
    MaxFaults = 1
INVARIANTS FiredOncePerSlot LatenessJudged
PROPERTIES SlotAdvances NoFiringLost DueSettled
