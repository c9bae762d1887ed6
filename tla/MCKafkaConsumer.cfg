SPECIFICATION FairSpec
CONSTANTS
    MaxLog = 4
    MaxStops = 3
PROPERTIES
    AcknowledgesOnlyDelivered
    CommitsMonotone
    EventuallyDispatched
CHECK_DEADLOCK FALSE
