----------------------------- MODULE CheckoutPage -----------------------------
(***************************************************************************)
(* The checkout page in a browser and POST /api/orders behind it:          *)
(* CheckoutContent.tsx with its key store (orderKey.ts) and its network    *)
(* timeout (api.ts), and the handler of backend/routes/orders.js cut at    *)
(* its await, in several workers.  Answers get lost, the customer presses  *)
(* again, changes the address, reloads, fills the cart anew.               *)
(***************************************************************************)
EXTENDS Integers, FiniteSets

CONSTANTS
  Posts,      \* requests that may be on their way or in the server
  Addresses,  \* what the customer may change; it stands for the whole signature
  Placed,     \* order ids
  NoPost,
  NoSale,
  MaxVisits,  \* bound: of the times the page is loaded
  MaxChanges  \* bound: of the changes of the address

\* What the customer asks for: a page, and an address while it stays chosen.
Wish == [loads : Nat, change : Nat]

SaleRow == [key : Nat, wish : Wish, status : {"pending_payment", "failed"}]

ASSUME CheckoutAssumption ==
  /\ NoPost \notin Posts
  /\ NoSale \notin SaleRow
  /\ MaxVisits \in Nat /\ MaxChanges \in Nat

VARIABLES
  page,     \* "away", "open", or "placing" while it waits for `waits'
  loads,    \* how often the page was loaded
  address,  \* the address that is chosen
  changes,  \* history: how often it was changed
  orderKey, \* the store's current signature and key
  keys,     \* keys made so far; a key is a number
  waits,    \* the request whose answer the page waits for
  post,     \* what each request is doing, with its key and its wish
  sale,     \* orders: key, wish and status
  cartFull  \* the session's cart

checkoutVars ==
  <<page, loads, address, changes, orderKey, keys, waits, post, sale, cartFull>>

\* What the customer asks for now.
wish == [loads |-> loads, change |-> changes]

Phases == {"sent", "looked", "opening", "answered", "refused"}

CheckoutInit ==
  /\ page = "away"
  /\ loads = 0
  /\ address \in Addresses
  /\ changes = 0
  /\ orderKey = [signature |-> address, key |-> 0]
  /\ keys = 0
  /\ waits = NoPost
  /\ post = [r \in Posts |-> NoPost]
  /\ sale = [o \in Placed |-> NoSale]
  /\ cartFull = TRUE

-----------------------------------------------------------------------------
\* The browser.

\* The key store lives in the page; key 0 says that it has none yet.
LoadPage ==
  /\ cartFull
  /\ loads < MaxVisits
  /\ loads' = loads + 1
  /\ page' = "open"
  /\ address' \in Addresses
  /\ orderKey' = [signature |-> address', key |-> 0]
  /\ waits' = NoPost
  /\ UNCHANGED <<changes, keys, post, sale, cartFull>>

ChooseAddress(a) ==
  /\ page = "open"
  /\ a # address
  /\ changes < MaxChanges
  /\ address' = a
  /\ changes' = changes + 1
  /\ UNCHANGED <<page, loads, orderKey, keys, waits, post, sale, cartFull>>

\* Faulty: every attempt makes a key.
needsKey_always == TRUE

needsKey == orderKey.key = 0 \/ orderKey.signature # address

\* handlePlaceOrder up to its await.
PlaceOrder(r) ==
  LET k == IF needsKey THEN keys + 1 ELSE orderKey.key
  IN /\ page = "open"
     /\ post[r] = NoPost
     /\ keys' = IF needsKey THEN k ELSE keys
     /\ orderKey' = [signature |-> address, key |-> k]
     /\ post' = [post EXCEPT ![r] = [phase |-> "sent", key |-> k, wish |-> wish,
                                     sale |-> NoSale]]
     /\ page' = "placing"
     /\ waits' = r
     /\ UNCHANGED <<loads, address, changes, sale, cartFull>>

\* The answer is lost or comes after NET_TIMEOUT; the server goes on.
GivesUp ==
  /\ page = "placing"
  /\ page' = "open"
  /\ waits' = NoPost
  /\ UNCHANGED <<loads, address, changes, orderKey, keys, post, sale, cartFull>>

\* A good answer leaves for the payment page; any other one says so.
Answer(r) ==
  /\ post[r] # NoPost
  /\ post[r].phase \in {"answered", "refused"}
  /\ post' = [post EXCEPT ![r] = NoPost]
  /\ IF waits = r
     THEN /\ page' = IF post[r].phase = "answered" THEN "away" ELSE "open"
          /\ waits' = NoPost
     ELSE UNCHANGED <<page, waits>>
  /\ UNCHANGED <<loads, address, changes, orderKey, keys, sale, cartFull>>

\* The customer comes back another time and shops again.
FillCart ==
  /\ ~cartFull
  /\ page = "away"
  /\ cartFull' = TRUE
  /\ UNCHANGED <<page, loads, address, changes, orderKey, keys, waits, post, sale>>

-----------------------------------------------------------------------------
\* POST /api/orders.

moves(r, from, to) ==
  /\ post[r] # NoPost
  /\ post[r].phase = from
  /\ post' = [post EXCEPT ![r].phase = to]

hasKey(k) == \E o \in Placed : sale[o] # NoSale /\ sale[o].key = k

\* getOrderByIdempotency finds the key, or the cart is empty, or there is an
\* order to be made.
LookUp(r) ==
  /\ \E to \in {"answered", "refused", "looked"} :
       /\ moves(r, "sent", to)
       /\ CASE to = "answered" -> hasKey(post[r].key)
            [] to = "refused"  -> ~hasKey(post[r].key) /\ ~cartFull
            [] OTHER           -> ~hasKey(post[r].key) /\ cartFull
  /\ UNCHANGED <<page, loads, address, changes, orderKey, keys, waits, sale, cartFull>>

\* createOrderTx; another worker may have stored the key since LookUp.
CreateSale(r, o) ==
  /\ sale[o] = NoSale
  /\ post[r] # NoPost
  /\ post[r].phase = "looked"
  /\ ~hasKey(post[r].key)
  /\ sale' = [sale EXCEPT ![o] = [key |-> post[r].key, wish |-> post[r].wish,
                                  status |-> "pending_payment"]]
  /\ post' = [post EXCEPT ![r] = [@ EXCEPT !.phase = "opening", !.sale = o]]
  /\ UNCHANGED <<page, loads, address, changes, orderKey, keys, waits, cartFull>>

\* A shortage, a key that is taken, a coupon that fails.
OrderRefused(r) ==
  /\ moves(r, "looked", "refused")
  /\ UNCHANGED <<page, loads, address, changes, orderKey, keys, waits, sale, cartFull>>

\* requestPayment succeeds: the payment page is stored, the cart emptied.
PaymentOpens(r) ==
  /\ moves(r, "opening", "answered")
  /\ cartFull' = FALSE
  /\ UNCHANGED <<page, loads, address, changes, orderKey, keys, waits, sale>>

\* It fails: the order is failed and the answer says to try again.
PaymentDoesNotOpen(r) ==
  /\ moves(r, "opening", "refused")
  /\ sale' = [sale EXCEPT ![post[r].sale].status = "failed"]
  /\ UNCHANGED <<page, loads, address, changes, orderKey, keys, waits, cartFull>>

\* The worker dies; an order it has made stays until it expires.
PostLost(r) ==
  /\ post[r] # NoPost
  /\ post' = [post EXCEPT ![r] = NoPost]
  /\ IF waits = r THEN page' = "open" /\ waits' = NoPost ELSE UNCHANGED <<page, waits>>
  /\ UNCHANGED <<loads, address, changes, orderKey, keys, sale, cartFull>>

CheckoutNext ==
  \/ LoadPage
  \/ \E a \in Addresses : ChooseAddress(a)
  \/ GivesUp
  \/ FillCart
  \/ \E r \in Posts :
       \/ PlaceOrder(r)
       \/ Answer(r)
       \/ LookUp(r)
       \/ \E o \in Placed : CreateSale(r, o)
       \/ OrderRefused(r)
       \/ PaymentOpens(r)
       \/ PaymentDoesNotOpen(r)
       \/ PostLost(r)

CheckoutSpec == CheckoutInit /\ [][CheckoutNext]_checkoutVars

-----------------------------------------------------------------------------
\* Properties.

CheckoutTypeOK ==
  /\ page \in {"away", "open", "placing"}
  /\ loads \in Nat /\ changes \in Nat /\ keys \in Nat
  /\ address \in Addresses
  /\ orderKey \in [signature : Addresses, key : Nat]
  /\ waits \in Posts \cup {NoPost}
  /\ post \in [Posts -> [phase : Phases, key : Nat, wish : Wish,
                         sale : Placed \cup {NoSale}] \cup {NoPost}]
  /\ sale \in [Placed -> SaleRow \cup {NoSale}]
  /\ cartFull \in BOOLEAN

\* However often the customer presses the button on a page that stays as it is,
\* through lost answers, timeouts, refusals and requests that overtake each other
\* in several workers, the shop makes one order of it.
OneOrderPerWish ==
  \A o1, o2 \in Placed :
    sale[o1] # NoSale /\ sale[o2] # NoSale /\ sale[o1].wish = sale[o2].wish
      => o1 = o2
=============================================================================
