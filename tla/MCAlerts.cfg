\* The alert records of two pods with one anomaly each; the incidents of two
\* services with at most three opened.  One at a time.
SPECIFICATION AlertsSpec
CONSTANTS
    p1 = p1
    p2 = p2
    k1 = k1
    s1 = s1
    s2 = s2
    Pod = {p1, p2}
    Anomaly = {k1}
    MaxInserting = 3
    MaxFailures = 1
    MaxRestarts = 1
    Service = {s1, s2}
    Window = 1
    Ttl = 2
    MaxDelay = 1
    MaxTime = 4
    MaxIncidents = 3
SYMMETRY Symmetry
INVARIANTS
    IncidentsDoNotOverlap
    OpenIncidentsApart
PROPERTIES
    LifecycleForward
    ActiveSurvivesRestart
    IncidentsOnlyGrow
CHECK_DEADLOCK FALSE
