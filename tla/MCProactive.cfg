SPECIFICATION FairSpec
CONSTANTS
  Transports <- Channels
  Contents = {}
  Alerts = {a1}
  MaxTexts = 3
  Delays = 2
  MaxTicks = 3
  MaxTurns = 1
  Faults = {"dispatch", "crash"}
  MaxFaults = 1
INVARIANTS NotTwice FollowupsBounded
PROPERTIES RetriesYield Settles
CHECK_DEADLOCK FALSE
