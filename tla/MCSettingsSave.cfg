SPECIFICATION FairSpec
CONSTANTS
    page = page
    panel = panel
    Forms = {page}
    Panels = {panel}
    Values = {0, 1, 2}
    Invalid = {2}
    MaxEdits = 2
    MaxLoads = 1
    MaxDrains = 4
    MemoLimit = 64
    Disturbances <- Disturbed
INVARIANTS
    Honest
PROPERTIES
    AppliedOnce
    OthersKept
    FormsRest
CHECK_DEADLOCK FALSE
