CONSTANTS
  Prices = {50000, 80000}
  MinQtys = {0, 3}
  WholesaleOffs = {0, 10}
  Quantities = {1, 3}
  PercentOff = 20
  max_discount = 30000
  min_total = 100000
  shipping_cost = 40000
  free_shipping_over = 200000
  NoPrice = NoPrice
SPECIFICATION CartPriceSpec
INVARIANT PayableIsCharged
CHECK_DEADLOCK FALSE
