CONSTANTS
    Sender = {publisher}
    MaxMessages = 1
    MaxConnections = 2
SPECIFICATION Spec
PROPERTY SentAtIsHonest
CHECK_DEADLOCK FALSE
