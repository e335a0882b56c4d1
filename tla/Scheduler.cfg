CONSTANTS
    MaxStarts = 4
SPECIFICATION FairSpec
INVARIANTS
    TypeOK
    OneThread
PROPERTIES
    StopTakesEffect
    LoopSpec
