SPECIFICATION Spec
CONSTANTS
    Jobs = {j1, j2, j3}
    Slots = {s1, s2}
    Children = {c1, c2, c3}
    Concurrency = 1
    Prefetch = 1
    Recycle = 2
    MaxFaults = 2
    None = None
SYMMETRY Symmetry
INVARIANTS HeldOnce IdleExact
CHECK_DEADLOCK FALSE
