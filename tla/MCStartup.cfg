CONSTANTS
    SensorId = {"temperature", "vibration"}
    Documents <- MCDocuments
    MaxCommands = 1
SPECIFICATION FairSpec
INVARIANTS
    TypeOK
    
    BatchMatchesDeclaration
    ReadingsAreAtomic
PROPERTY CommandsReturn
CHECK_DEADLOCK FALSE
