SPECIFICATION FairSpec
CONSTANTS
    MaxToken = 3
    LoopCount = 1
    Permits = 1
    CapFloor = 2
    DrainMax = 1
    Window = 1
    Endings <- SomeEndings
    Absent = Absent
    None = None
INVARIANTS SlotKept NoLostWakeup StampAnswerable RejectedOnlyIfStarved ProgressProtects
PROPERTY WedgeFound
CHECK_DEADLOCK FALSE
