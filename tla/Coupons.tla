-------------------------------- MODULE Coupons --------------------------------
(***************************************************************************)
(* One coupon code and the orders that carry it: quoteCoupon of            *)
(* backend/lib/db.js as POST /api/orders uses it, the order's life, and    *)
(* what the panel does to the row.  In one worker the quote and            *)
(* createOrderTx follow each other at once; another worker's statements    *)
(* come between them.  The amounts of the discount are CartPrice's matter. *)
(***************************************************************************)
EXTENDS Integers, FiniteSets

CONSTANTS
  Tills,          \* the workers that take orders
  Buyers,
  CouponOrders,   \* ids that orders with the code may get
  UsageLimits,    \* what the panel may enter for usage_limit; 0 is no limit
  PerUserLimits,  \* and for per_user_limit
  Nobody,         \* a till without a quote
  NoCoupon,
  NoOrder,
  MaxSecond       \* bound: of the clock

ASSUME CouponsAssumption ==
  /\ IsFiniteSet(Tills) /\ Tills # {}
  /\ IsFiniteSet(CouponOrders)
  /\ UsageLimits \subseteq Nat /\ PerUserLimits \subseteq Nat
  /\ Nobody \notin Buyers
  /\ MaxSecond \in Nat

CouponRow == [created_at : Nat, usage_limit : Nat, per_user_limit : Nat,
              active : BOOLEAN]

\* `paid' stands for every later status of an order that was paid and stands,
\* `failed' for canceled as well.
CouponOrder == [user : Buyers, created_at : Nat,
                status : {"pending_payment", "paid", "failed"}]

VARIABLES
  second,   \* datetime('now')
  coupon,   \* the row of the code
  order,    \* the orders that carry it
  quoted,   \* the buyer whose quote a till holds
  ceiling   \* history: the highest limit of the row, 0 once it had none

couponVars == <<second, coupon, order, quoted, ceiling>>

CouponsInit ==
  /\ second = 0
  /\ coupon = NoCoupon
  /\ order = [o \in CouponOrders |-> NoOrder]
  /\ quoted = [t \in Tills |-> Nobody]
  /\ ceiling = 0

-----------------------------------------------------------------------------
\* What counts as a use.

since(at) == {o \in CouponOrders : order[o] # NoOrder /\ order[o].created_at >= at}

\* Faulty: orders that are not paid yet do not count.
stmtCouponUses_paid(at) == {o \in since(at) : order[o].status = "paid"}

stmtCouponUses(at) == {o \in since(at) : order[o].status # "failed"}

stmtCouponUserUses(u, at) ==
  {o \in since(at) : order[o].status = "paid" /\ order[o].user = u}

\* quoteCoupon says yes; the basket's total and the day may still speak against it.
quoteOk(u) ==
  /\ coupon # NoCoupon
  /\ coupon.active
  /\ coupon.usage_limit > 0 =>
       Cardinality(stmtCouponUses(coupon.created_at)) < coupon.usage_limit
  /\ coupon.per_user_limit > 0 =>
       Cardinality(stmtCouponUserUses(u, coupon.created_at)) < coupon.per_user_limit

-----------------------------------------------------------------------------
\* POST /api/orders.

quoteCoupon(t, u) ==
  /\ quoted[t] = Nobody
  /\ quoteOk(u)
  /\ quoted' = [quoted EXCEPT ![t] = u]
  /\ UNCHANGED <<second, coupon, order, ceiling>>

\* createOrderTx stores the code; it does not look at the coupon again.
createOrder(t, o) ==
  /\ quoted[t] # Nobody
  /\ order[o] = NoOrder
  /\ order' = [order EXCEPT ![o] = [user |-> quoted[t], created_at |-> second,
                                    status |-> "pending_payment"]]
  /\ quoted' = [quoted EXCEPT ![t] = Nobody]
  /\ UNCHANGED <<second, coupon, ceiling>>

\* A stock shortage, or the worker dies.
orderRefused(t) ==
  /\ quoted[t] # Nobody
  /\ quoted' = [quoted EXCEPT ![t] = Nobody]
  /\ UNCHANGED <<second, coupon, order, ceiling>>

-----------------------------------------------------------------------------
\* The order's life, the panel, the clock.

orderPaid(o) ==
  /\ order[o] # NoOrder /\ order[o].status = "pending_payment"
  /\ order' = [order EXCEPT ![o].status = "paid"]
  /\ UNCHANGED <<second, coupon, quoted, ceiling>>

\* It fails, or a paid one is canceled.
orderDies(o) ==
  /\ order[o] # NoOrder /\ order[o].status # "failed"
  /\ order' = [order EXCEPT ![o].status = "failed"]
  /\ UNCHANGED <<second, coupon, quoted, ceiling>>

highest(a, b) == IF a > b THEN a ELSE b

\* A code that was deleted may come back: what orders of the same second used of
\* it is used of the new row as well.
adminCreateCoupon(limit, perUser) ==
  /\ coupon = NoCoupon
  /\ coupon' = [created_at |-> second, usage_limit |-> limit,
                per_user_limit |-> perUser, active |-> TRUE]
  /\ ceiling' = IF limit = 0 THEN 0
                ELSE highest(limit, Cardinality(stmtCouponUses(second)) + 1)
  /\ UNCHANGED <<second, order, quoted>>

adminUpdateCoupon(limit, perUser, active) ==
  /\ coupon # NoCoupon
  /\ coupon' = [coupon EXCEPT !.usage_limit = limit, !.per_user_limit = perUser,
                              !.active = active]
  /\ ceiling' = IF limit = 0 \/ ceiling = 0 THEN 0 ELSE highest(limit, ceiling)
  /\ UNCHANGED <<second, order, quoted>>

adminDeleteCoupon ==
  /\ coupon # NoCoupon
  /\ coupon' = NoCoupon
  /\ ceiling' = 0
  /\ UNCHANGED <<second, order, quoted>>

SecondPasses ==
  /\ second < MaxSecond
  /\ second' = second + 1
  /\ UNCHANGED <<coupon, order, quoted, ceiling>>

CouponsNext ==
  \/ \E t \in Tills :
       \/ \E u \in Buyers : quoteCoupon(t, u)
       \/ \E o \in CouponOrders : createOrder(t, o)
       \/ orderRefused(t)
  \/ \E o \in CouponOrders : orderPaid(o) \/ orderDies(o)
  \/ \E limit \in UsageLimits, perUser \in PerUserLimits :
       \/ adminCreateCoupon(limit, perUser)
       \/ \E active \in BOOLEAN : adminUpdateCoupon(limit, perUser, active)
  \/ adminDeleteCoupon
  \/ SecondPasses

CouponsSpec == CouponsInit /\ [][CouponsNext]_couponVars

-----------------------------------------------------------------------------
\* Properties.

CouponsTypeOK ==
  /\ second \in Nat
  /\ coupon \in CouponRow \cup {NoCoupon}
  /\ order \in [CouponOrders -> CouponOrder \cup {NoOrder}]
  /\ quoted \in [Tills -> Buyers \cup {Nobody}]
  /\ ceiling \in Nat

\* A coupon with a limit is used by at most one order more for each other worker
\* that was between its quote and its INSERT: orders that wait for their payment
\* hold their use, so however many of them are paid in the end, the limit stands.
UsesBounded ==
  coupon # NoCoupon /\ ceiling > 0 =>
    Cardinality(stmtCouponUses(coupon.created_at))
      <= ceiling + Cardinality(Tills) - 1
=============================================================================
