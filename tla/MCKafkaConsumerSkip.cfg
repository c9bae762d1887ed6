SPECIFICATION Spec
CONSTANTS
    MaxLog = 3
    MaxStops = 2
INVARIANT NoRecordSkipped
CHECK_DEADLOCK FALSE
