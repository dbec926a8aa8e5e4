SPECIFICATION Spec
CONSTANTS
  Transports <- Channels
  Contents = {c1}
  Alerts = {a1}
  MaxTexts = 3
  Delays = 3
  MaxTicks = 2
  MaxTurns = 2
  Faults = {}
  MaxFaults = 0
PROPERTY WaitingSceneKept
CHECK_DEADLOCK FALSE
