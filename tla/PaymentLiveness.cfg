CONSTANTS
  Products = {p1}
  Users = {u1}
  Orders = {1, 2}
  Keys = {k1, k2}
  NoKey = NoKey
  NoBasket = NoBasket
  MaxLineQty = 1
  MaxStock = 2
  Workers = {w1}
  Callbacks = {c1}
  Nobody = Nobody
  MaxPerRun = 1
  MaxCrashes = 1
  MaxTries = 1
  MaxNotices = 0
  UnpaidIsFinal = TRUE
  MaySuspend = TRUE
SPECIFICATION FairSpec
PROPERTIES EveryOrderIsDecided PaidIsRecovered
CHECK_DEADLOCK FALSE
