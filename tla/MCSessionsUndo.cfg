SPECIFICATION Spec
CONSTANTS
    MaxMessages = 5
    Keep = 1
    MinNew = 1
    FaultSets <- NoFaults
PROPERTY
    UndoesLatest
CHECK_DEADLOCK FALSE
