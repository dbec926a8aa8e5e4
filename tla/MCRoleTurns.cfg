SPECIFICATION FairSpec
CONSTANTS
  Desktop = {d1, d2}
  Inbound = {m1}
  Jobs = {}
  Cancels = {c1}
  Stops = {s1}
  None = None
INVARIANTS Serial RepliedOnce DesktopCancellable
PROPERTIES OwnRegistration TurnsEnd
CHECK_DEADLOCK FALSE
