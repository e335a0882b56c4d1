CONSTANTS
    Rate = 3
    Unit = 4
    Jitter = 4
    Window = 3
    MaxTime = 6
    MaxSamples = 3
    MaxSteps = 1
SPECIFICATION Spec
INVARIANTS
    TypeOK
    ReadingsTellProduction
CHECK_DEADLOCK FALSE
