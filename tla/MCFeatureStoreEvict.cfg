SPECIFICATION Spec
CONSTANTS
    Service = {s1, s2, s3}
    Minute = {1, 2}
    MaxLen = 1
    MaxServices = 2
    MaxCount = 1
    MaxSpans = 3
    MaxRestarts = 1
SYMMETRY ServiceSymmetry
INVARIANT CardinalityBounded
INVARIANT NoOrphanState
PROPERTY LeastRecentlyUsedGoes
CHECK_DEADLOCK FALSE
