SPECIFICATION Spec
CONSTANTS
    Service = {s1}
    Minute = {1, 2, 3}
    MaxLen = 2
    MaxServices = 1
    MaxCount = 2
    MaxSpans = 4
    MaxRestarts = 2
INVARIANT IndexCoversSeries
INVARIANT StartupMinutesDistinct
INVARIANT PreloadMirrorsRedis
INVARIANT RedisHoldsNewest
INVARIANT SpansAccounted
CHECK_DEADLOCK FALSE
