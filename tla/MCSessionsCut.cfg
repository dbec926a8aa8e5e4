SPECIFICATION Spec
CONSTANTS
    MaxMessages = 5
    Keep = 1
    MinNew = 1
    FaultSets <- CutOnly
PROPERTY
    RepliesStay
CHECK_DEADLOCK FALSE
