\* Four analyzers, one at a time: the RCA engine with two anomalies and one crash;
\* the dependency graph of three services tested at two lags; the JVM analyzer
\* with five snapshots of two services; the burn rate of one service.
SPECIFICATION AnalysisSpec
CONSTANTS
    Anomaly = {a1, a2}
    Incident = {i1}
    Interval = 2
    MaxNow = 7
    MaxCrashes = 1
    Services <- MCServices
    MaxLag = 2
    Threshold = 1
    One = 2
    JvmService = {j1, j2}
    Sample <- MCSample
    HeapMax = 4
    NoMax = NoMax
    MinSnapshots = 2
    OomWarn = 2
    GcOverhead = 2
    StormSquared = 2
    MaxLen = 4
    JvmWindow = 1
    JvmMaxNow = 2
    JvmMaxPosts = 5
    BurnServices <- MCBurnServices
    ErrorRates = {0, 3}
    Budget = 1
    Page = 3
    Ticket = 1
    Fast = 2
    Slow = 3
    BurnInterval = 1
    BurnCooldown = 2
    MaxCycle = 1
    NoPoint = NoPoint
    BurnMaxNow = 9
    BurnMaxLate = 2
SYMMETRY Symmetry
INVARIANTS
    NoAnomalyMissed
    AtMostThreeReports
    RootCausesRight
    SignalsJustified
    BurningKeepsAlerting
    AlertsAreRecent
CHECK_DEADLOCK FALSE
