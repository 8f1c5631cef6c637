CONSTANTS
  Products = {p1}
  Users = {u1}
  Orders = {1, 2}
  Keys = {k1, k2}
  NoKey = NoKey
  NoBasket = NoBasket
  MaxLineQty = 1
  MaxStock = 1
  Workers = {w1, w2}
  Callbacks = {c1}
  Nobody = Nobody
  MaxPerRun = 1
  MaxCrashes = 1
  MaxTries = 0
  MaxNotices = 0
  UnpaidIsFinal = TRUE
  MaySuspend = TRUE
SYMMETRY Symmetry
SPECIFICATION FlowSpec
INVARIANTS PaidMeansSettled MoneyKept
PROPERTIES ImplementsOrderStock KeepsPromise
CHECK_DEADLOCK FALSE
