SPECIFICATION FairSpec
CONSTANTS
    Settings = {"redis", "clickhouse", "kafka", "baseline", "detector", "rca", "var", "granger"}
    MaxPending = 2
INVARIANTS
    TasksUseOpenClients
    ShutDownComplete
PROPERTIES
    ReadyMeansAlive
    LifespanMovesOn
CHECK_DEADLOCK FALSE
