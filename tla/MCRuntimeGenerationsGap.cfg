CONSTANTS
  MaxGen = 3
  Work = {w1}
  Exempt = {e1}
  WithBackground = {1, 3}
  SlowClose = {}
SPECIFICATION Spec
INVARIANT OneBackground
