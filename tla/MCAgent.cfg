CONSTANTS
    Cap = 3
    MaxId = 4
    Batch = 2
    MaxFaults = 2
SPECIFICATION ASpec
INVARIANTS
    ATypeOK
    QueueMatchesDrains
    NoSilentLoss
    NoGap
    OneResendAtMost
    ClosedMeansQuiescent
PROPERTIES
    InOrderArrival
    DrainsAreBounded
    DeliverySpec
    ClientSpec
    LoopsAreScheduled
CHECK_DEADLOCK FALSE
