SPECIFICATION FairSpec
CONSTANTS
    MaxMessages = 5
    Keep = 1
    MinNew = 1
    FaultSets <- SomeFaults
INVARIANTS
    Remembered
    CacheMirrors
PROPERTIES
    WritesCurrent
    ImplementsLog
    LockServed
CHECK_DEADLOCK FALSE
