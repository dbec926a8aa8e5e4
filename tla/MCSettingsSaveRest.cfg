SPECIFICATION FairSpec
CONSTANTS
    page = page
    panel = panel
    Forms = {}
    Panels = {panel}
    Values = {0, 1, 2}
    Invalid = {}
    MaxEdits = 2
    MaxLoads = 0
    MaxDrains = 3
    MemoLimit = 2
    Disturbances <- Undisturbed
PROPERTY
    PanelsRest
CHECK_DEADLOCK FALSE
