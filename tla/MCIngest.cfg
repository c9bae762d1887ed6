SPECIFICATION IngestSpec
CONSTANTS
    none = none
    NoParent = none
    Message <- MCMessage
    Body <- MCBody
    Service = {"web", "db"}
    SpanTtl = 1
    EdgeTtl = 0
    MaxIndex = 1
    PerService = 1
    MaxAll = 1
    MaxPoints = 1
    MaxMemory = 1
    Collection = TRUE
    MaxLog = 3
    MaxStops = 1
    MaxPosts = 1
    MaxNow = 1
INVARIANTS
    CaughtUpStoresCurrent
    TopologyShowsRecentCalls
    AppliedInOrder
    LogsSearchable
CHECK_DEADLOCK FALSE
