------------------------------- MODULE CartPage --------------------------------
(***************************************************************************)
(* The cart as a browser shows it against the cart as the session holds    *)
(* it: CartContent.tsx and useAddToCart.ts of next-frontend over           *)
(* backend/routes/cart.js.  The page keeps the answer of GET /api/cart     *)
(* under the key ["cart"]; a change asks anew when it has ended, or puts   *)
(* its own answer there.  Requests overlap, and are given up after         *)
(* NET_TIMEOUT while the server goes on.  In a cluster two workers may     *)
(* have loaded the same session.  One page, and amounts left out.          *)
(***************************************************************************)
EXTENDS Integers, FiniteSets

CONSTANTS
  Goods,     \* products
  MaxQty,    \* qtyCap of each
  CouponMin, \* units from which the coupon is good: min_total
  Calls,     \* bound: requests that may be under way
  NoCall,
  NotLoaded, \* no data under ["cart"]
  MaxClicks  \* bound: of what the customer does

Cart == [qty : [Goods -> 0..MaxQty], coupon : BOOLEAN]

ASSUME CartAssumption ==
  /\ IsFiniteSet(Goods)
  /\ MaxQty \in Nat \ {0} /\ CouponMin \in Nat
  /\ NoCall \notin Calls
  /\ NotLoaded \notin Cart
  /\ MaxClicks \in Nat

VARIABLES
  cart,    \* what the session's row holds
  onSale,  \* getPublicProduct finds these
  shown,   \* data of the query
  fresh,   \* the query was not invalidated since
  reading, \* the call whose answer the query awaits
  offer,   \* the quantity that "undo" would put back
  call,    \* the requests
  clicks,
  unsure   \* history: see below

cartVars == <<cart, onSale, shown, fresh, reading, offer, call, clicks, unsure>>

\* `heard': the page waits for the answer.  `orig' and `copy' are the session as
\* the worker loaded it and as the handler left it, `ok' a status below 400.
\* `alone' is history: no other request was under way beside this one.
Quiet == [kind |-> "none", good |-> CHOOSE g \in Goods : TRUE, n |-> 0,
          phase |-> "idle", heard |-> FALSE, copy |-> NotLoaded, ok |-> FALSE, alone |-> FALSE]

alive == {c \in Calls : call[c].phase # "idle"}

\* The answer of these goes into the cache as it is.
direct == {"add", "undo", "coupon", "uncoupon"}

unitsOf(s) == LET sum[G \in SUBSET Goods] ==
                  IF G = {} THEN 0
                  ELSE LET g == CHOOSE g \in G : TRUE IN s.qty[g] + sum[G \ {g}]
            IN sum[Goods]

CartInit ==
  /\ cart \in {s \in Cart : s.coupon => unitsOf(s) >= CouponMin}
  /\ onSale = Goods
  /\ shown = NotLoaded
  /\ fresh = FALSE
  /\ reading = NoCall
  /\ offer = [g \in Goods |-> 0]
  /\ call = [c \in Calls |-> Quiet]
  /\ clicks = 0
  /\ unsure = FALSE

-----------------------------------------------------------------------------
\* The server: the handlers of cart.js on a loaded session.

\* Products that are gone leave the session, and a coupon that is not met.
buildCartResponse(s) ==
  LET kept == [s EXCEPT !.qty = [g \in Goods |-> IF g \in onSale THEN @[g] ELSE 0]]
  IN [kept EXCEPT !.coupon = @ /\ unitsOf(kept) >= CouponMin]

clampQty(n) == IF n < MaxQty THEN n ELSE MaxQty

\* The session after POST /add: a product that is gone or at its cap is refused.
added(s, g, n) == [s EXCEPT !.qty[g] = clampQty(@ + n)]

mayAdd(s, g, n) == g \in onSale /\ added(s, g, n) # s

\* POST /update changes an item of the cart only.
updated(s, g, n) == IF s.qty[g] > 0 THEN [s EXCEPT !.qty[g] = n] ELSE s

\* What a handler makes of the session, and whether it says ok.
handled(s, r) ==
  CASE r.kind = "read" -> buildCartResponse(s)
    [] r.kind = "update" -> buildCartResponse(updated(s, r.good, r.n))
    [] r.kind = "remove" -> buildCartResponse([s EXCEPT !.qty[r.good] = 0])
    [] r.kind \in {"add", "undo"} ->
         IF mayAdd(s, r.good, r.n) THEN buildCartResponse(added(s, r.good, r.n)) ELSE s
    [] r.kind = "coupon" ->
         LET built == buildCartResponse(s)
         IN [built EXCEPT !.coupon = @ \/ unitsOf(built) >= CouponMin]
    [] r.kind = "uncoupon" -> buildCartResponse([s EXCEPT !.coupon = FALSE])

accepted(s, r) ==
  CASE r.kind \in {"add", "undo"} -> mayAdd(s, r.good, r.n)
    [] r.kind = "coupon" -> unitsOf(buildCartResponse(s)) >= CouponMin
    [] OTHER -> TRUE

\* store.get.
Loads(c) ==
  /\ call[c].phase = "sent"
  /\ call' = [call EXCEPT ![c].phase = "loaded", ![c].copy = cart]
  /\ UNCHANGED <<cart, onSale, shown, fresh, reading, offer, clicks, unsure>>

\* The handler, the save of a session that has changed, and the answer.
Answers(c) ==
  LET before == call[c].copy
      after == handled(before, call[c])
      ok == accepted(before, call[c])
  IN /\ call[c].phase = "loaded"
     /\ cart' = IF after # before THEN after ELSE cart
     /\ call' = [call EXCEPT ![c].phase = "answered", ![c].copy = after, ![c].ok = ok]
     /\ unsure' = (unsure \/ (after # before /\ ~(call[c].heard /\ ok)))
     /\ UNCHANGED <<onSale, shown, fresh, reading, offer, clicks>>

\* The panel takes a product off sale.
Vanishes(g) ==
  /\ g \in onSale
  /\ onSale' = onSale \ {g}
  /\ UNCHANGED <<cart, shown, fresh, reading, offer, call, clicks, unsure>>

-----------------------------------------------------------------------------
\* The page sends.

request(kind, g, n) == [Quiet EXCEPT !.kind = kind, !.good = g, !.n = n,
                                     !.phase = "sent", !.heard = TRUE]

\* `f' with one request more.
with(f, c, r) ==
  [d \in Calls |->
     IF d = c THEN [r EXCEPT !.alone = \A e \in Calls \ {c} : f[e].phase = "idle"]
     ELSE [f[d] EXCEPT !.alone = FALSE]]

\* The query is left alone by the call it awaits.
unheard(f) == IF reading = NoCall THEN f ELSE [f EXCEPT ![reading].heard = FALSE]

overlaps(kind) ==
  \E c \in alive : kind \in direct \/ call[c].kind \in direct

\* A page with the query is opened, or it is older than its staleTime.
Mounts(c) ==
  /\ call[c].phase = "idle"
  /\ reading = NoCall
  /\ clicks' = IF shown = NotLoaded THEN clicks ELSE clicks + 1
  /\ clicks' <= MaxClicks
  /\ reading' = c
  /\ call' = with(call, c, request("read", Quiet.good, 0))
  /\ unsure' = (unsure \/ overlaps("read"))
  /\ UNCHANGED <<cart, onSale, shown, fresh, offer>>

\* A change: those of a line cancel the read under way first (onMutate).
Sends(c, kind, g, n) ==
  /\ call[c].phase = "idle"
  /\ clicks < MaxClicks
  /\ clicks' = clicks + 1
  /\ IF kind \in direct
     THEN /\ reading' = reading
          /\ call' = with(call, c, request(kind, g, n))
     ELSE /\ reading' = NoCall
          /\ call' = with(unheard(call), c, request(kind, g, n))
  /\ unsure' = (unsure \/ overlaps(kind))
  /\ UNCHANGED <<cart, onSale, shown, fresh>>

pending(kind) == \E c \in alive : call[c].kind = kind /\ call[c].heard

inCart(g) == shown # NotLoaded /\ shown.qty[g] > 0

Update(c, g, n) ==
  /\ inCart(g)
  /\ n \in {shown.qty[g] - 1, shown.qty[g] + 1} \cap 1..MaxQty
  /\ ~pending("update")
  /\ Sends(c, "update", g, n)
  /\ UNCHANGED offer

\* The minus at one unit.
RemoveItem(c, g) ==
  /\ inCart(g)
  /\ shown.qty[g] = 1
  /\ ~pending("update")
  /\ Sends(c, "remove", g, 0)
  /\ UNCHANGED offer

Undo(c, g) ==
  /\ offer[g] > 0
  /\ Sends(c, "undo", g, offer[g])
  /\ offer' = [offer EXCEPT ![g] = 0]

\* useAddToCart, on any page.
Add(c, g) ==
  /\ Sends(c, "add", g, 1)
  /\ UNCHANGED offer

ApplyCoupon(c) ==
  /\ \E g \in Goods : inCart(g)
  /\ ~shown.coupon
  /\ ~pending("coupon")
  /\ Sends(c, "coupon", Quiet.good, 0)
  /\ UNCHANGED offer

RemoveCoupon(c) ==
  /\ \E g \in Goods : inCart(g)
  /\ shown.coupon
  /\ ~pending("uncoupon")
  /\ Sends(c, "uncoupon", Quiet.good, 0)
  /\ UNCHANGED offer

-----------------------------------------------------------------------------
\* The page hears.

\* Faulty: a read that is under way is taken for the new one.
invalidates_joins(f, c, loaded) ==
  IF reading # NoCall
  THEN /\ call' = f
       /\ reading' = reading
  ELSE /\ call' = with(f, c, request("read", Quiet.good, 0))
       /\ reading' = c

\* invalidateQueries cancels the read under way and starts another, under an id
\* that is free; while there is no data yet it joins the first read.
invalidates(f, c, loaded) ==
  IF ~loaded /\ reading # NoCall
  THEN /\ call' = f
       /\ reading' = reading
  ELSE /\ call' = with(unheard(f), c, request("read", Quiet.good, 0))
       /\ reading' = c

freed(c) == [call EXCEPT ![c] = Quiet]

ReadLands(c) ==
  /\ reading = c
  /\ call[c].phase = "answered"
  /\ shown' = call[c].copy
  /\ fresh' = TRUE
  /\ reading' = NoCall
  /\ call' = freed(c)
  /\ unsure' = (unsure /\ ~call[c].alone)
  /\ UNCHANGED <<cart, onSale, offer, clicks>>

\* onSettled of the changes of a line.  A removal offers to undo it.
LineSettles(c) ==
  /\ call[c].heard
  /\ call[c].kind \in {"update", "remove"}
  /\ call[c].phase = "answered"
  /\ offer' = IF call[c].kind = "remove" /\ inCart(call[c].good)
              THEN [offer EXCEPT ![call[c].good] = shown.qty[call[c].good]] ELSE offer
  /\ invalidates(freed(c), c, TRUE)
  /\ fresh' = FALSE
  /\ UNCHANGED <<cart, onSale, shown, clicks, unsure>>

\* setQueryData, unless the answer was an error; the read under way goes on.
tells(c) == shown' = IF call[c].ok THEN call[c].copy ELSE shown

DirectSettles(c) ==
  /\ call[c].heard
  /\ call[c].kind \in direct \ {"add"}
  /\ call[c].phase = "answered"
  /\ tells(c)
  /\ fresh' = (fresh \/ call[c].ok)
  /\ call' = freed(c)
  /\ UNCHANGED <<cart, onSale, reading, offer, clicks, unsure>>

\* useAddToCart asks anew as well.
AddSettles(c) ==
  /\ call[c].heard
  /\ call[c].kind = "add"
  /\ call[c].phase = "answered"
  /\ tells(c)
  /\ invalidates(freed(c), c, shown' # NotLoaded)
  /\ fresh' = FALSE
  /\ UNCHANGED <<cart, onSale, offer, clicks, unsure>>

\* NET_TIMEOUT, or the connection is lost, at whatever point the server is.
forsaken(c) == [call EXCEPT ![c].heard = FALSE]

TimesOut(c) ==
  /\ call[c].heard
  /\ CASE call[c].kind = "read" ->
            /\ reading' = NoCall
            /\ call' = forsaken(c)
            /\ UNCHANGED fresh
       [] call[c].kind \in direct \ {"add"} ->
            /\ call' = forsaken(c)
            /\ UNCHANGED <<reading, fresh>>
       [] OTHER ->
            /\ \E d \in Calls \ alive : invalidates(forsaken(c), d, shown # NotLoaded)
            /\ fresh' = FALSE
  /\ unsure' = (unsure \/ call[c].kind \in direct
                       \/ (call[c].kind = "read" /\ call[c].phase = "answered"))
  /\ UNCHANGED <<cart, onSale, shown, offer, clicks>>

\* A call nobody waits for ends, at the server or on its way.
Ends(c) ==
  /\ c \in alive
  /\ ~call[c].heard
  /\ call' = freed(c)
  /\ UNCHANGED <<cart, onSale, shown, fresh, reading, offer, clicks, unsure>>

CartNext ==
  \/ \E c \in Calls :
       \/ Loads(c)
       \/ Answers(c)
       \/ Mounts(c)
       \/ \E g \in Goods :
            \/ \E n \in 1..MaxQty : Update(c, g, n)
            \/ RemoveItem(c, g)
            \/ Undo(c, g)
            \/ Add(c, g)
       \/ ApplyCoupon(c)
       \/ RemoveCoupon(c)
       \/ ReadLands(c)
       \/ LineSettles(c)
       \/ DirectSettles(c)
       \/ AddSettles(c)
       \/ TimesOut(c)
       \/ Ends(c)
  \/ \E g \in Goods : Vanishes(g)

CartSpec == CartInit /\ [][CartNext]_cartVars

-----------------------------------------------------------------------------
\* Properties.

CartTypeOK ==
  /\ cart \in Cart
  /\ onSale \subseteq Goods
  /\ shown \in Cart \cup {NotLoaded}
  /\ fresh \in BOOLEAN
  /\ reading \in Calls \cup {NoCall}
  /\ offer \in [Goods -> 0..MaxQty]
  /\ DOMAIN call = Calls
  /\ clicks \in 0..MaxClicks
  /\ unsure \in BOOLEAN

\* When nothing is under way the page shows what the session holds, so that what
\* is ordered is what was seen, however the changes overlapped, were given up or
\* overwrote each other in two workers.  Not so (`unsure') after a change whose
\* answer goes into the cache overlapped another request or lost its answer, and
\* after a save by a call that nobody waits for, until a read that runs alone.
PageShowsTheCart ==
  alive = {} /\ fresh /\ ~unsure => shown = cart
=============================================================================
