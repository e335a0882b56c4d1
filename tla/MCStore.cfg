CONSTANTS
    Thread = {t1, t2}
    NoThread = NoThread
    t1 = t1
    t2 = t2
    Cap = 1
    Limit = 2
    MaxId = 3
    MaxCycles = 3
    MaxCrashes = 1
SYMMETRY ThreadSymmetry
SPECIFICATION Spec
INVARIANTS
    TypeOK
    WholeCycle
    ReadsOnlyCommitted
    BacklogBounded
    NoSilentDrop
PROPERTIES
    ConfirmedStaysConfirmed
    OutboxSpec
CHECK_DEADLOCK FALSE
