SPECIFICATION Spec
CONSTANTS
  Jobs = {j1}
  Forms <- SoftKinds
  Leads = {0, 1}
  Period = 2
  Interval = 1
  Grace = 1
  MaxTime = 3
  FaultSets = {{"interrupt"}}
PROPERTIES StartedOnce
CHECK_DEADLOCK FALSE
