------------------------------- MODULE CartPrice -------------------------------
(***************************************************************************)
(* What a basket costs: buildCartResponse of routes/cart.js, which tells   *)
(* the customer what is to be paid, and POST of routes/orders.js, which    *)
(* charges it.  Both take the coupon's discount and the shipping fee from  *)
(* the same operators of lib/db.js.  One product with its wholesale price; *)
(* the panel may change it at any time.                                    *)
(***************************************************************************)
EXTENDS Integers

CONSTANTS
  Prices,         \* of a unit
  MinQtys,        \* wholesale_min_qty, 0 for none
  WholesaleOffs,  \* wholesale_discount, in percent: 0..100
  Quantities,     \* of the product in the basket
  PercentOff,     \* value of the percent coupon
  max_discount,   \* its ceiling, 0 for none
  min_total,
  shipping_cost,
  free_shipping_over,
  NoPrice

VARIABLES
  product,     \* price and wholesale terms
  qty,         \* the basket
  hasCoupon,   \* session.coupon is set
  payable,     \* what the cart said, NoPrice once anything has changed since
  grandTotal   \* what the order after it was charged

priceVars == <<product, qty, hasCoupon, payable, grandTotal>>

lesser(a, b) == IF a < b THEN a ELSE b
larger(a, b) == IF a > b THEN a ELSE b

-----------------------------------------------------------------------------
\* lib/db.js.

\* wholesaleInfo: the price of a unit in Math.round, if the quantity reaches it.
wholesaleApplies ==
  /\ product.minQty > 0 /\ product.off > 0 /\ product.off < 100
  /\ qty >= product.minQty

wholesalePrice == (product.price * (100 - product.off) + 50) \div 100

\* quoteCoupon for the percent coupon; 1000 Toman are left to pay.
couponApplies(total) ==
  /\ hasCoupon
  /\ total >= min_total
  /\ total > 1000
  /\ (total * PercentOff) \div 100 > 0

discountOf(total) ==
  LET off == (total * PercentOff) \div 100
      capped == IF max_discount > 0 THEN lesser(off, max_discount) ELSE off
  IN IF couponApplies(total) THEN larger(0, lesser(capped, total - 1000)) ELSE 0

shippingFee(total) ==
  IF free_shipping_over > 0 /\ total >= free_shipping_over THEN 0 ELSE shipping_cost

toPay(total) ==
  LET discounted == total - discountOf(total) IN discounted + shippingFee(discounted)

-----------------------------------------------------------------------------

CartPriceInit ==
  /\ product \in [price : Prices, minQty : MinQtys, off : WholesaleOffs]
  /\ qty \in Quantities
  /\ hasCoupon \in BOOLEAN
  /\ payable = NoPrice
  /\ grandTotal = NoPrice

\* buildCartResponse: a coupon that no longer applies is dropped.
ShowCart ==
  LET unitPrice == IF wholesaleApplies THEN wholesalePrice ELSE product.price
      total == unitPrice * qty
  IN /\ payable' = toPay(total)
     /\ hasCoupon' = couponApplies(total)
     /\ grandTotal' = NoPrice
     /\ UNCHANGED <<product, qty>>

\* buildOrderItemsFromCart and the total; a coupon that no longer applies refuses
\* the order.
ChargeOrder ==
  LET total == product.price * qty
  IN /\ IF hasCoupon /\ ~couponApplies(total)
        THEN hasCoupon' = FALSE /\ UNCHANGED <<payable, grandTotal>>
        ELSE grandTotal' = toPay(total) /\ UNCHANGED <<hasCoupon, payable>>
     /\ UNCHANGED <<product, qty>>

ChangeBasket(n, c) ==
  /\ qty' = n
  /\ hasCoupon' = c
  /\ payable' = NoPrice
  /\ grandTotal' = NoPrice
  /\ UNCHANGED product

EditProduct(p, m, o) ==
  /\ product' = [price |-> p, minQty |-> m, off |-> o]
  /\ payable' = NoPrice
  /\ grandTotal' = NoPrice
  /\ UNCHANGED <<qty, hasCoupon>>

CartPriceNext ==
  \/ ShowCart
  \/ ChargeOrder
  \/ \E n \in Quantities, c \in BOOLEAN : ChangeBasket(n, c)
  \/ \E p \in Prices, m \in MinQtys, o \in WholesaleOffs : EditProduct(p, m, o)

CartPriceSpec == CartPriceInit /\ [][CartPriceNext]_priceVars

-----------------------------------------------------------------------------
\* Properties.

\* What cart.js:42 says of the price it shows: it is the one that is really
\* charged.  Nothing has changed between the cart and the order.
PayableIsCharged ==
  payable # NoPrice /\ grandTotal # NoPrice => grandTotal = payable
=============================================================================
