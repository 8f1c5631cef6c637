------------------------------ MODULE OrderStock ------------------------------
(***************************************************************************)
(* The order table and the stock column of the product table, as           *)
(* backend/lib/db.js changes them.  Every action is one SQL transaction    *)
(* (db.js's transaction() wrapper, or a single UPDATE; adminSetOrderStatus *)
(* alone has two), so the interleaving of the actions is the interleaving  *)
(* of handlers and of cluster workers that share the database file.  A     *)
(* transaction that throws (a stock shortage, a duplicate idempotency key) *)
(* rolls back: it is not a step.                                           *)
(*                                                                         *)
(* Which handler asks for which transaction, and when, is PaymentFlow's    *)
(* subject; here any caller may run any transaction at any moment.         *)
(***************************************************************************)
EXTENDS Integers, FiniteSets, Functions

CONSTANTS
  Products,    \* product ids
  Users,       \* customers that have an account
  Orders,      \* order ids (orders.id)
  Keys,        \* idempotency keys a browser may send
  NoKey,       \* the NULL key of an order the shop registers by hand
  NoBasket,    \* what `placed' holds for an id that is not in use yet
  MaxLineQty,  \* MAX_LINE_QTY: the most units of a product in one order
  MaxStock     \* the largest stock figure the admin form accepts

ASSUME ConstantsAssumption ==
  /\ MaxLineQty \in Nat \ {0}
  /\ MaxStock \in Nat
  /\ NoKey \notin Keys
  /\ NoBasket \notin [user : Users, key : Keys \cup {NoKey},
                      lines : [Products -> 0..MaxLineQty]]

VARIABLES
  stock,        \* products.stock
  status,       \* orders.status, "none" for an id that is not in use
  placed,       \* the columns an INSERT fixes: user_id, idempotency_key, items
  deliveredAt,  \* orders.delivered_at against the seven-day return window
  released,     \* history: how often releaseStock ran for an order
  supplied      \* history: units of a product the shop ever put on sale

rowVars == <<status, placed, deliveredAt>>
vars    == <<stock, status, placed, deliveredAt, released, supplied>>

-----------------------------------------------------------------------------
\* The rows.

Lines == {l \in [Products -> 0..MaxLineQty] : \E p \in Products : l[p] > 0}

Basket == [user : Users, key : Keys \cup {NoKey}, lines : Lines]

\* Statuses from which an order can still be delivered, or was.
Live == {"pending_payment", "paid", "shipped", "delivered", "return_requested"}

\* Statuses an order never leaves.
Dead == {"failed", "canceled", "returned"}

Status == {"none"} \cup Live \cup Dead

DeliveredAt == {"null", "recent", "old"}

\* Where the panel's status selector may move an order.
ADMIN_STATUS_FLOW ==
  [s \in Status |->
     CASE s = "paid"             -> {"shipped", "canceled"}
       [] s = "shipped"          -> {"delivered", "paid", "canceled"}
       [] s = "delivered"        -> {"shipped"}
       [] s = "return_requested" -> {"delivered"}
       [] OTHER                  -> {}]

Init ==
  /\ stock \in [Products -> 0..MaxStock]
  /\ status = [o \in Orders |-> "none"]
  /\ placed = [o \in Orders |-> NoBasket]
  /\ deliveredAt = [o \in Orders |-> "null"]
  /\ released = [o \in Orders |-> 0]
  /\ supplied = stock

-----------------------------------------------------------------------------
\* Stock.

\* Faulty variants, for checking the properties: no `stock >= ?' in the UPDATE;
\* a shortage that is clamped to zero instead of refused.
reserveStock_unchecked(l) == stock' = [p \in Products |-> stock[p] - l[p]]

reserveStock_clamped(l) ==
  stock' = [p \in Products |-> IF stock[p] > l[p] THEN stock[p] - l[p] ELSE 0]

\* All lines or none: one short line throws STOCK_SHORTAGE and undoes the rest.
reserveStock(l) ==
  /\ \A p \in Products : stock[p] >= l[p]
  /\ stock' = [p \in Products |-> stock[p] - l[p]]

releaseStock(o) ==
  /\ stock' = [p \in Products |-> stock[p] + placed[o].lines[p]]
  /\ released' = [released EXCEPT ![o] = @ + 1]

setStatus(o, to) == status' = [status EXCEPT ![o] = to]

\* Faulty: the UPDATE looks at no status, so a second request releases again.
closeOrder_anyStatus(o, from, to) ==
  /\ status[o] # "none"
  /\ setStatus(o, to)
  /\ releaseStock(o)
  /\ UNCHANGED <<placed, deliveredAt, supplied>>

\* A status change that gives the goods back in the same transaction.
closeOrder(o, from, to) ==
  /\ status[o] \in from
  /\ setStatus(o, to)
  /\ releaseStock(o)
  /\ UNCHANGED <<placed, deliveredAt, supplied>>

-----------------------------------------------------------------------------
\* Orders come in.

\* UNIQUE(user_id, idempotency_key); rows without a key do not collide.
keyIsFree(u, k) ==
  k \in Keys => \A o \in Orders : status[o] # "none" =>
                  ~(placed[o].user = u /\ placed[o].key = k)

insertOrder(o, u, k, l, st) ==
  /\ status[o] = "none"
  /\ keyIsFree(u, k)
  /\ reserveStock(l)
  /\ setStatus(o, st)
  /\ placed' = [placed EXCEPT ![o] = [user |-> u, key |-> k, lines |-> l]]
  /\ UNCHANGED <<deliveredAt, released, supplied>>

createOrderTx(o, u, k, l) == insertOrder(o, u, k, l, "pending_payment")

\* A telephone order: paid on the spot, no key.
createManualOrderTx(o, u, l) == insertOrder(o, u, NoKey, l, "paid")

-----------------------------------------------------------------------------
\* The payment is decided.

\* Faulty: a late callback marks an order that failed in the meantime.
markOrderPaid_late(o) ==
  /\ status[o] \in {"pending_payment", "failed"}
  /\ setStatus(o, "paid")
  /\ UNCHANGED <<stock, placed, deliveredAt, released, supplied>>

markOrderPaid(o) ==
  /\ status[o] = "pending_payment"
  /\ setStatus(o, "paid")
  /\ UNCHANGED <<stock, placed, deliveredAt, released, supplied>>

markOrderFailedTx(o) == closeOrder(o, {"pending_payment"}, "failed")

-----------------------------------------------------------------------------
\* The shop and the customer, after the payment.

\* Faulty: a rejected return counts as a new delivery.
adminSetOrderStatus_newClock(o, to) ==
  /\ to \in ADMIN_STATUS_FLOW[status[o]]
  /\ setStatus(o, to)
  /\ deliveredAt' = IF to = "delivered" THEN [deliveredAt EXCEPT ![o] = "recent"]
                    ELSE deliveredAt
  /\ UNCHANGED <<stock, placed, released, supplied>>

\* POST /orders/:id/status.  The UPDATE compares the status with the one the
\* panel showed, so a stale panel changes nothing; `returned' has its own path.
\* The date of a delivery is a second UPDATE, run straight after the first: the
\* two are one step here, and a death between them, which leaves a delivered
\* order without its date, is not modelled.
adminSetOrderStatus(o, to) ==
  /\ to \in ADMIN_STATUS_FLOW[status[o]]
  /\ setStatus(o, to)
  /\ deliveredAt' = IF to = "delivered" /\ status[o] # "return_requested"
                    THEN [deliveredAt EXCEPT ![o] = "recent"]
                    ELSE deliveredAt
  /\ UNCHANGED <<stock, placed, released, supplied>>

adminAcceptReturnTx(o) == closeOrder(o, {"return_requested"}, "returned")

adminCancelOrderTx(o) ==
  closeOrder(o, {"paid", "shipped", "delivered", "return_requested"}, "canceled")

userCancelOrderTx(o, u) ==
  /\ status[o] = "paid"
  /\ placed[o].user = u
  /\ closeOrder(o, {"paid"}, "canceled")

\* POST /orders/:id/return, its seven-day window included.
userRequestReturn(o, u) ==
  /\ status[o] = "delivered"
  /\ placed[o].user = u
  /\ deliveredAt[o] # "old"
  /\ setStatus(o, "return_requested")
  /\ UNCHANGED <<stock, placed, deliveredAt, released, supplied>>

\* Seven days go by after a delivery.
returnWindowEnds(o) ==
  /\ deliveredAt[o] = "recent"
  /\ deliveredAt' = [deliveredAt EXCEPT ![o] = "old"]
  /\ UNCHANGED <<stock, status, placed, released, supplied>>

-----------------------------------------------------------------------------
\* The panel writes the stock column: the product form and `set_stock' store a
\* figure, `add_stock' adds one and stops at zero, deleting a product that was
\* ordered stores zero.

writeStock(p, v) ==
  /\ v # stock[p]
  /\ stock' = [stock EXCEPT ![p] = v]
  /\ supplied' = [supplied EXCEPT ![p] = @ + v - stock[p]]
  /\ UNCHANGED <<rowVars, released>>

setProductStock(p, v) == writeStock(p, v)

\* The statement has no upper limit of its own: MaxStock bounds the model.
addProductStock(p, d) ==
  /\ stock[p] + d <= MaxStock
  /\ writeStock(p, IF stock[p] + d > 0 THEN stock[p] + d ELSE 0)

adminDeleteProductTx(p) == writeStock(p, 0)

-----------------------------------------------------------------------------

CreateOrder ==
  \E o \in Orders, u \in Users, k \in Keys, l \in Lines : createOrderTx(o, u, k, l)

CreateManualOrder ==
  \E o \in Orders, u \in Users, l \in Lines : createManualOrderTx(o, u, l)

DecidePayment ==
  \E o \in Orders : markOrderPaid(o) \/ markOrderFailedTx(o)

Fulfil ==
  \E o \in Orders :
    \/ \E to \in Status : adminSetOrderStatus(o, to)
    \/ adminAcceptReturnTx(o)
    \/ adminCancelOrderTx(o)
    \/ returnWindowEnds(o)
    \/ \E u \in Users : userCancelOrderTx(o, u) \/ userRequestReturn(o, u)

EditStock ==
  \E p \in Products :
    \/ \E v \in 0..MaxStock : setProductStock(p, v)
    \/ \E d \in -MaxStock..MaxStock : addProductStock(p, d)
    \/ adminDeleteProductTx(p)

Next == CreateOrder \/ CreateManualOrder \/ DecidePayment \/ Fulfil \/ EditStock

Spec == Init /\ [][Next]_vars

-----------------------------------------------------------------------------
\* Properties.

\* The types of the columns; in particular stock is never negative, and a
\* basket is on file exactly for the ids in use.
TypeOK ==
  /\ stock \in [Products -> Nat]
  /\ status \in [Orders -> Status]
  /\ placed \in [Orders -> Basket \cup {NoBasket}]
  /\ deliveredAt \in [Orders -> DeliveredAt]
  /\ released \in [Orders -> Nat]
  /\ supplied \in [Products -> Int]
  /\ \A o \in Orders : status[o] = "none" <=> placed[o] = NoBasket

\* The goods of an order go back to the shelf at most once, never while the
\* order is alive, and have gone back when it failed or was returned, whatever
\* the order in which callbacks, the periodic job, the panel and the customer
\* reach it (markOrderFailedTx, adminCancelOrderTx, adminAcceptReturnTx,
\* userCancelOrderTx each release "only the first time").
ReleasedAtMostOnce ==
  \A o \in Orders :
    /\ released[o] <= 1
    /\ released[o] = 1 => status[o] \in Dead
    /\ status[o] \in {"failed", "returned"} => released[o] = 1

\* Units are neither lost nor invented: what is on the shelf plus what the
\* orders that have not been released hold is what the shop put on sale.
unreleased == {o \in Orders : status[o] # "none" /\ released[o] = 0}

held(p) == SumFunction([o \in unreleased |-> placed[o].lines[p]])

StockConserved == \A p \in Products : stock[p] + held(p) = supplied[p]

\* db.js:1729: "canceled" is possible from every status after payment and gives
\* the stock back.  adminSetOrderStatus reaches "canceled" without releasing.
CanceledReturnsStock ==
  \A o \in Orders : status[o] = "canceled" => released[o] = 1

\* An order whose goods went back on sale never comes alive again: no later
\* transaction may move it, or the same units would be sold twice.
DeadStaysDead ==
  [][\A o \in Orders : status[o] \in Dead => status'[o] = status[o]]_vars

\* A customer's key names one order: the second of two concurrent checkouts
\* with the same key must not create another one (the UNIQUE index behind
\* getOrderByIdempotency).
OneOrderPerKey ==
  \A o1, o2 \in Orders :
    /\ o1 # o2
    /\ placed[o1] # NoBasket /\ placed[o2] # NoBasket
    /\ placed[o1].key = placed[o2].key
    /\ placed[o1].key # NoKey
    => placed[o1].user # placed[o2].user

\* Rejecting a return never reopens the seven days: between two deliveries that
\* the shop marks itself, the clock of the return window does not go back.
WindowNeverReopensByReturn ==
  [][\A o \in Orders :
       deliveredAt[o] = "old" /\ deliveredAt'[o] # "old"
         => status[o] = "shipped" /\ status'[o] = "delivered"]_vars
=============================================================================
