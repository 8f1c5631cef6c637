CONSTANTS
  Subjects = {"order", "session", "coupon", "checkout", "result", "catalogue", "desk", "transaction", "cart"}
  Pair = {a, b}
  Products = {p1, p2}
  Users = {a, b}
  Orders = {a, b}
  Keys = {k1}
  NoKey = NoKey
  NoBasket = NoBasket
  MaxLineQty = 1
  MaxStock = 2
  Sids = {i1, i2, i3}
  Visits = {a, b}
  Carts = {empty, full}
  NoCart = empty
  NoSession = NoSession
  Tills = {a, b}
  Buyers = {b1}
  CouponOrders = {co1, co2, co3}
  UsageLimits = {0, 1}
  PerUserLimits = {1}
  Nobody = Nobody
  NoCoupon = NoCoupon
  NoOrder = NoOrder
  MaxSecond = 1
  Posts = {a, b}
  Addresses = {home, work}
  Placed = {a, b}
  NoPost = NoPost
  NoSale = NoSale
  MaxVisits = 2
  MaxChanges = 1
  POLL_CHECKS_FAST = 2
  POLL_CHECKS_TOTAL = 3
  POLL_MS_FAST = 2
  POLL_MS_SLOW = 3
  Unset = Unset
  MaxNow = 8
  MaxReturns = 2
  MaxMounts = 2
  Processes = {a, b}
  Filters = {all, page}
  LIST_CACHE_MAX = 1
  NoSettings = NoSettings
  NoSignature = NoSignature
  NoCopy = NoCopy
  MaxWrites = 1
  Clerks = {a, b}
  Panels = {d1}
  Waiters = {b1}
  Figures = {0, 1}
  NoForm = NoForm
  MaxUnits = 1
  MaxAsked = 1
  MaxNesting = 3
  Goods = {g1}
  MaxQty = 2
  CouponMin = 2
  Calls = {a, b}
  NoCall = NoCall
  NotLoaded = NotLoaded
  MaxClicks = 3
SPECIFICATION ShopSpec
SYMMETRY Symmetry
INVARIANTS ShopTypeOK ReleasedAtMostOnce StockConserved UsesBounded OneOrderPerWish AsksOnSchedule ListIsCurrent ToldPerWish AllOrNothing PageShowsTheCart
PROPERTIES DeadStaysDead WindowNeverReopensByReturn RevivedOnlyByWriters
CHECK_DEADLOCK FALSE
