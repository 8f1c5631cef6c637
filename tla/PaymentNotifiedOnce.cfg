CONSTANTS
  Products = {p1}
  Users = {u1}
  Orders = {1}
  Keys = {k1}
  NoKey = NoKey
  NoBasket = NoBasket
  MaxLineQty = 1
  MaxStock = 1
  Workers = {w1}
  Callbacks = {c1}
  Nobody = Nobody
  MaxPerRun = 1
  MaxCrashes = 0
  MaxTries = 1
  MaxNotices = 2
  UnpaidIsFinal = TRUE
  MaySuspend = FALSE
SPECIFICATION FlowSpec
INVARIANT NotifiedOnce
CHECK_DEADLOCK FALSE
