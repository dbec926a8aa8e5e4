SPECIFICATION Spec
CONSTANTS
  Jobs = {j1, j2}
  Forms <- EveryKind
  Leads = {0, 1}
  Period = 2
  Interval = 1
  Grace = 1
  MaxTime = 3
  FaultSets = {{"load", "restart"}}
INVARIANTS AcceptedOnDisk
CHECK_DEADLOCK FALSE
