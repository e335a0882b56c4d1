CONSTANTS
    Cap = 3
    MaxId = 5
    Batch = 3
    MaxFaults = 2
SPECIFICATION ASpec
PROPERTY NeverOvertaken
CHECK_DEADLOCK FALSE
