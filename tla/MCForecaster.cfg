SPECIFICATION FairSpec
CONSTANTS
    k1 = k1
    k2 = k2
    c1 = c1
    Key = {k1, k2}
    Caller = {c1}
    MinPoints = 1
    Window = 1
    Ttl = 1
    MaxParallel = 1
    MaxLen = 1
    MaxLate = 1
    MaxPoints = 2
    MaxMinute = 3
    MaxCycles = 1
    MaxCalls = 1
INVARIANTS
    CycleRefreshes
    NoObservationMissed
    NothingUnresolved
PROPERTIES
    CycleEnds
CHECK_DEADLOCK FALSE
