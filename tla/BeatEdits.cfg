SPECIFICATION FairSpec
CONSTANTS
    Beats = {b1, b2}
    Schedules <- TwoSchedules
    Every <- EveryMixed
    Aligned <- Crontabs
    Declared <- RollingDeploy
    UserDefs <- PauseOrMove
    MaxLateness = 0
    SkipMissed = FALSE
    NoDef = NoDef
    None = None
    MaxTime = 1
    MaxEdits = 1
    MaxFaults = 0
PROPERTIES SlotFollowsDefinition
