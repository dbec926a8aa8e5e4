CONSTANTS
  MaxGen = 2
  Work = {w1}
  Exempt = {}
  WithBackground = {1, 2}
  SlowClose = {1}
SPECIFICATION FairSpec
PROPERTY ShutdownEnds
CHECK_DEADLOCK FALSE
