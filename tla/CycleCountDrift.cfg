CONSTANTS
    Rate = 3
    Unit = 4
    Jitter = 0
    Window = 3
    MaxTime = 12
    MaxSamples = 6
    MaxSteps = 0
SPECIFICATION Spec
INVARIANT TotalUnbiased
CHECK_DEADLOCK FALSE
