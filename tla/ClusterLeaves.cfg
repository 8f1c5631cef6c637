CONSTANTS
  Ids = {i1, i2, i3}
  WORKERS = 2
  MaxDeaths = 3
SYMMETRY Symmetry
SPECIFICATION Spec
INVARIANT YoungDeathsAreMadeGood
CHECK_DEADLOCK FALSE
