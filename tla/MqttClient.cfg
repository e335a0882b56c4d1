CONSTANTS
    Sender = {main, publisher}
    MaxMessages = 3
    MaxConnections = 3
SPECIFICATION FairSpec
INVARIANTS
    TypeOK
    EventTracksState
PROPERTIES
    PublishReturns
    ContractSpec
CHECK_DEADLOCK FALSE
