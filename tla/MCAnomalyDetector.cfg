SPECIFICATION FairSpec
CONSTANTS
    s1 = s1
    a1 = a1
    a2 = a2
    kind = kind
    metric = metric
    Service = {s1}
    Span = {a1, a2}
    Kind = {kind}
    Metric <- ForecastMetric
    SuppressFor = 2
    Cooldown = 2
    MaxTime = 4
    MaxCycles = 3
INVARIANT RecordedIsAlertedAndClustered
PROPERTIES
    SuppressedOncePerWindow
    RateLimited
    CycleEnds
CHECK_DEADLOCK FALSE
