\* The incidents saved before a restart: the collection has them, the list does
\* not. One incident and one crash are enough.
SPECIFICATION RcaSpec
CONSTANTS
    Anomaly = {a1}
    Incident = {i1}
    Interval = 2
    MaxNow = 3
    MaxCrashes = 1
INVARIANT AllIncidentsListed
CHECK_DEADLOCK FALSE
