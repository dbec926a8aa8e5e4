SPECIFICATION Spec
CONSTANTS
  Desktop = {d1}
  Inbound = {}
  Jobs = {j1}
  Cancels = {c1}
  Stops = {}
  None = None
INVARIANTS DoneOwn
CHECK_DEADLOCK FALSE
