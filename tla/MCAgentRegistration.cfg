CONSTANTS
    Cap = 1
    MaxId = 2
    Batch = 1
    MaxFaults = 0
SPECIFICATION ASpec
INVARIANT RegistrationBeforeTelemetry
CHECK_DEADLOCK FALSE
