CONSTANTS
    Cap = 2
    MaxId = 3
    Batch = 2
    MaxFaults = 1
SPECIFICATION FairSpec
PROPERTIES
    EventuallySettled
    StopCompletes
CHECK_DEADLOCK FALSE
