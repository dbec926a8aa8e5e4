SPECIFICATION Spec
CONSTANTS
  Transports <- Desktop
  Contents = {c1}
  Alerts = {a1}
  MaxTexts = 2
  Delays = 3
  MaxTicks = 2
  MaxTurns = 1
  Faults = {}
  MaxFaults = 0
INVARIANT CommittedIsSent
CHECK_DEADLOCK FALSE
