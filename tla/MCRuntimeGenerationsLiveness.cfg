CONSTANTS
  MaxGen = 3
  Work = {w1}
  Exempt = {}
  WithBackground = {1, 2, 3}
  SlowClose = {}
SPECIFICATION FairSpec
PROPERTIES AdmissionReopens RetiredCloses ShutdownEnds
