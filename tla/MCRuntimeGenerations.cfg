CONSTANTS
  MaxGen = 3
  Work = {w1, w2, w3}
  Exempt = {e1}
  WithBackground = {1, 2, 3}
  SlowClose = {1}
SPECIFICATION Spec
SYMMETRY Symmetry
INVARIANTS NoUseAfterClose OneBackground SwitchedQuietly
CHECK_DEADLOCK FALSE
