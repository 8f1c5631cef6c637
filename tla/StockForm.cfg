CONSTANTS
  Clerks = {k1, k2}
  Panels = {d1}
  Waiters = {c1}
  Figures = {0, 1}
  NoForm = NoForm
  MaxUnits = 1
  MaxAsked = 1
SPECIFICATION DeskSpec
PROPERTY SoldStaysSold
CHECK_DEADLOCK FALSE
