CONSTANTS
  Products = {p1}
  Users = {u1}
  Orders = {o1}
  Keys = {k1}
  NoKey = NoKey
  NoBasket = NoBasket
  MaxLineQty = 1
  MaxStock = 1
SPECIFICATION Spec
INVARIANT CanceledReturnsStock
CHECK_DEADLOCK FALSE
