------------------------------ MODULE PageProofs ------------------------------
(***************************************************************************)
(* The pages of the browser that keep a state of their own, for every      *)
(* value of their constants: the checkout page (CheckoutPage), the cart a  *)
(* page shows (CartPage), the page that waits for the outcome of a payment *)
(* (ResultPage).                                                           *)
(***************************************************************************)
EXTENDS CheckoutPage, CartPage, ResultPage, FiniteSetTheorems, SequenceTheorems, TLAPS

-----------------------------------------------------------------------------
\* CheckoutPage.

\* A request or an order of this key and wish is about.
Carried(k, w) ==
  \/ \E r \in Posts : post[r] # NoPost /\ post[r].key = k /\ post[r].wish = w
  \/ \E o \in Placed : sale[o] # NoSale /\ sale[o].key = k /\ sale[o].wish = w

\* A wish goes by one key.
WishHasOneKey == \A k, l, w : Carried(k, w) /\ Carried(l, w) => k = l

\* While the page stays as it is the key store keeps the key of its wish.
KeyIsKept ==
  \A k : Carried(k, wish) =>
    orderKey.key = k /\ k # 0 /\ orderKey.signature = address

\* No wish is of a page or an address that is yet to come.
WishesArePast == \A k, w : Carried(k, w) => w.loads <= loads /\ w.change <= changes

\* An order has its key to itself.
KeyIsSoldOnce ==
  \A o1, o2 \in Placed :
    sale[o1] # NoSale /\ sale[o2] # NoSale /\ sale[o1].key = sale[o2].key => o1 = o2

\* The request that opens a payment has made its order.
OpeningHasSale ==
  \A r \in Posts :
    post[r] # NoPost /\ post[r].phase = "opening"
      => post[r].sale \in Placed /\ sale[post[r].sale] # NoSale

CheckoutInv ==
  /\ CheckoutTypeOK
  /\ WishHasOneKey
  /\ KeyIsKept
  /\ WishesArePast
  /\ KeyIsSoldOnce
  /\ OpeningHasSale

PostRow == [phase : Phases, key : Nat, wish : Wish, sale : Placed \cup {NoSale}]

\* Nothing is carried at the start.
LEMMA InitCheckoutInv == CheckoutInit => CheckoutInv
<1> SUFFICES ASSUME CheckoutInit PROVE CheckoutInv
  OBVIOUS
<1>1. CheckoutTypeOK
  BY DEF CheckoutInit, CheckoutTypeOK
<1>2. \A k, w : ~Carried(k, w)
  BY DEF CheckoutInit, Carried
<1>3. KeyIsSoldOnce /\ OpeningHasSale
  BY DEF CheckoutInit, KeyIsSoldOnce, OpeningHasSale
<1> QED
  BY <1>1, <1>2, <1>3 DEF CheckoutInv, WishHasOneKey, KeyIsKept, WishesArePast

\* A step that brings no new wish about and leaves the page and the key store alone
\* keeps what is said of wishes.
LEMMA NothingCarried ==
  ASSUME CheckoutInv, UNCHANGED <<loads, changes, address, orderKey>>,
         \A k, w : Carried(k, w)' => Carried(k, w)
  PROVE  WishHasOneKey' /\ KeyIsKept' /\ WishesArePast'
<1>1. WishHasOneKey'
  BY DEF CheckoutInv, WishHasOneKey
<1>2. wish' = wish
  BY DEF wish
<1>3. KeyIsKept'
  BY <1>2 DEF CheckoutInv, KeyIsKept
<1>4. WishesArePast'
  BY DEF CheckoutInv, WishesArePast
<1> QED
  BY <1>1, <1>3, <1>4

\* A new page or another address is a wish that nothing carries yet.
LEMMA NewWish ==
  ASSUME CheckoutInv, UNCHANGED <<post, sale>>,
         \/ loads' = loads + 1 /\ changes' = changes
         \/ loads' = loads /\ changes' = changes + 1
  PROVE  WishHasOneKey' /\ KeyIsKept' /\ WishesArePast' /\ KeyIsSoldOnce' /\ OpeningHasSale'
<1>1. loads \in Nat /\ changes \in Nat
  BY DEF CheckoutInv, CheckoutTypeOK
<1>2. \A k, w : Carried(k, w)' <=> Carried(k, w)
  BY DEF Carried
<1>3. \A k, w : Carried(k, w) => w.loads \in Nat /\ w.change \in Nat
  BY DEF CheckoutInv, CheckoutTypeOK, SaleRow, Carried, Wish
<1>4. WishHasOneKey'
  BY <1>2 DEF CheckoutInv, WishHasOneKey
<1>5. WishesArePast'
  BY <1>1, <1>2, <1>3 DEF CheckoutInv, WishesArePast
<1>6. wish'.loads = loads' /\ wish'.change = changes'
  BY DEF wish
<1>7. \A k : ~Carried(k, wish')
  BY <1>1, <1>6 DEF CheckoutInv, WishesArePast
<1>8. \A k : ~Carried(k, wish)'
  BY <1>2, <1>7
<1>9. KeyIsKept'
  BY <1>8 DEF KeyIsKept
<1>10. KeyIsSoldOnce' /\ OpeningHasSale'
  BY DEF CheckoutInv, KeyIsSoldOnce, OpeningHasSale
<1> QED
  BY <1>4, <1>5, <1>9, <1>10

\* A request that goes on, or comes to its end, carries nothing new.
LEMMA PostMoves ==
  ASSUME CheckoutInv, NEW r \in Posts, NEW p \in PostRow \cup {NoPost},
         post[r] # NoPost, post' = [post EXCEPT ![r] = p],
         p # NoPost => /\ p.key = post[r].key /\ p.wish = post[r].wish
                       /\ p.phase # "opening",
         UNCHANGED <<sale, loads, changes, address, orderKey>>
  PROVE  /\ WishHasOneKey' /\ KeyIsKept' /\ WishesArePast' /\ KeyIsSoldOnce'
         /\ OpeningHasSale'
         /\ post' \in [Posts -> PostRow \cup {NoPost}]
<1>1. /\ \A s \in Posts : post'[s] = IF s = r THEN p ELSE post[s]
      /\ post' \in [Posts -> PostRow \cup {NoPost}]
  BY DEF CheckoutInv, CheckoutTypeOK, PostRow
<1>2. \A k, w : Carried(k, w)' => Carried(k, w)
  BY <1>1 DEF Carried
<1>3. KeyIsSoldOnce' /\ OpeningHasSale'
  BY <1>1 DEF CheckoutInv, KeyIsSoldOnce, OpeningHasSale
<1> QED
  BY <1>1, <1>2, <1>3, NothingCarried

\* The button: the key of the page's wish, or a new one if nothing carries it.
LEMMA PlaceOrderKeeps ==
  ASSUME CheckoutInv, NEW r \in Posts, PlaceOrder(r)
  PROVE  CheckoutInv'
<1> DEFINE k == IF needsKey THEN keys + 1 ELSE orderKey.key
           p == [phase |-> "sent", key |-> k, wish |-> wish, sale |-> NoSale]
<1>1. /\ post[r] = NoPost
      /\ keys' = IF needsKey THEN k ELSE keys
      /\ orderKey' = [signature |-> address, key |-> k]
      /\ post' = [post EXCEPT ![r] = p]
      /\ page' = "placing" /\ waits' = r
      /\ UNCHANGED <<loads, address, changes, sale, cartFull>>
  BY DEF PlaceOrder
<1>2. /\ keys \in Nat /\ loads \in Nat /\ changes \in Nat /\ address \in Addresses
      /\ orderKey \in [signature : Addresses, key : Nat]
  BY DEF CheckoutInv, CheckoutTypeOK
<1>3. k \in Nat /\ k # 0 /\ keys' \in Nat
  BY <1>1, <1>2 DEF needsKey
<1>4. \A l : Carried(l, wish) => l = k
  BY <1>2 DEF CheckoutInv, KeyIsKept, needsKey
<1> HIDE DEF k
<1>5. wish \in Wish /\ wish.loads = loads /\ wish.change = changes /\ wish' = wish
  BY <1>1, <1>2 DEF wish, Wish
<1>6. p \in PostRow /\ p.key = k /\ p.wish = wish /\ p.phase # "opening"
  BY <1>3, <1>5 DEF PostRow, Phases
<1> HIDE DEF p
<1>7. /\ \A s \in Posts : post'[s] = IF s = r THEN p ELSE post[s]
      /\ post' \in [Posts -> PostRow \cup {NoPost}]
  BY <1>1, <1>6 DEF CheckoutInv, CheckoutTypeOK, PostRow
<1>8. \A l, w : Carried(l, w)' => Carried(l, w) \/ (l = k /\ w = wish)
  BY <1>1, <1>6, <1>7 DEF Carried
<1>9. WishHasOneKey'
  <2> SUFFICES ASSUME NEW l, NEW m, NEW w, Carried(l, w)', Carried(m, w)'
               PROVE  l = m
    BY DEF WishHasOneKey
  <2> QED
    BY <1>4, <1>8 DEF CheckoutInv, WishHasOneKey
<1>10. KeyIsKept'
  <2> SUFFICES ASSUME NEW l, Carried(l, wish)' PROVE l = k
    BY <1>1, <1>3, <1>5 DEF KeyIsKept
  <2>1. Carried(l, wish) \/ l = k
    BY <1>5, <1>8
  <2> QED
    BY <1>4, <2>1
<1>11. WishesArePast'
  BY <1>1, <1>2, <1>5, <1>8 DEF CheckoutInv, WishesArePast
<1>12. KeyIsSoldOnce'
  BY <1>1 DEF CheckoutInv, KeyIsSoldOnce
<1>13. OpeningHasSale'
  BY <1>1, <1>6, <1>7 DEF CheckoutInv, OpeningHasSale
<1>14. CheckoutTypeOK'
  BY <1>1, <1>2, <1>3, <1>7 DEF CheckoutInv, CheckoutTypeOK, PostRow
<1> QED
  BY <1>9, <1>10, <1>11, <1>12, <1>13, <1>14 DEF CheckoutInv

\* The INSERT: the order carries what its request does, under a key nobody has.
LEMMA CreateSaleKeeps ==
  ASSUME CheckoutInv, NEW r \in Posts, NEW o \in Placed, CreateSale(r, o)
  PROVE  CheckoutInv'
<1> DEFINE row == [key |-> post[r].key, wish |-> post[r].wish,
                   status |-> "pending_payment"]
           p == [post[r] EXCEPT !.phase = "opening", !.sale = o]
<1>1. /\ sale[o] = NoSale /\ post[r] # NoPost /\ ~hasKey(post[r].key)
      /\ sale' = [sale EXCEPT ![o] = row]
      /\ post' = [post EXCEPT ![r] = p]
      /\ UNCHANGED <<page, loads, address, changes, orderKey, keys, waits, cartFull>>
  BY DEF CreateSale
<1>2. post[r] \in PostRow
  BY <1>1 DEF CheckoutInv, CheckoutTypeOK, PostRow
<1>3. row \in SaleRow /\ row.key = post[r].key /\ row.wish = post[r].wish
  BY <1>2 DEF PostRow, SaleRow
<1>4. p \in PostRow /\ p.key = post[r].key /\ p.wish = post[r].wish /\ p.sale = o
  BY <1>2 DEF PostRow, Phases
<1> HIDE DEF row, p
<1>5. /\ \A s \in Posts : post'[s] = IF s = r THEN p ELSE post[s]
      /\ post' \in [Posts -> PostRow \cup {NoPost}]
  BY <1>1, <1>4 DEF CheckoutInv, CheckoutTypeOK, PostRow
<1>6. /\ \A q \in Placed : sale'[q] = IF q = o THEN row ELSE sale[q]
      /\ sale' \in [Placed -> SaleRow \cup {NoSale}]
  BY <1>1, <1>3 DEF CheckoutInv, CheckoutTypeOK, SaleRow
<1>7. \A k, w : Carried(k, w)' => Carried(k, w)
  BY <1>1, <1>3, <1>4, <1>5, <1>6 DEF Carried
<1>8. KeyIsSoldOnce'
  BY <1>1, <1>3, <1>6 DEF CheckoutInv, KeyIsSoldOnce, hasKey
<1>9. row # NoSale
  BY <1>3, CheckoutAssumption DEF SaleRow
<1>10. OpeningHasSale'
  BY <1>1, <1>4, <1>5, <1>6, <1>9 DEF CheckoutInv, OpeningHasSale
<1>11. CheckoutTypeOK'
  BY <1>1, <1>5, <1>6 DEF CheckoutInv, CheckoutTypeOK, PostRow, SaleRow
<1> QED
  BY <1>1, <1>7, <1>8, <1>10, <1>11, NothingCarried DEF CheckoutInv

\* The payment does not open: the order keeps its key and its wish.
LEMMA FailedSaleKeeps ==
  ASSUME CheckoutInv, NEW r \in Posts, PaymentDoesNotOpen(r)
  PROVE  CheckoutInv'
<1> DEFINE o == post[r].sale
           row == [sale[o] EXCEPT !.status = "failed"]
           p == [post[r] EXCEPT !.phase = "refused"]
<1>1. /\ post[r] # NoPost /\ post[r].phase = "opening"
      /\ post' = [post EXCEPT ![r] = p]
      /\ sale' = [sale EXCEPT ![o] = row]
      /\ UNCHANGED <<page, loads, address, changes, orderKey, keys, waits, cartFull>>
  BY DEF PaymentDoesNotOpen, moves
<1>2. post[r] \in PostRow /\ o \in Placed /\ sale[o] \in SaleRow /\ sale[o] # NoSale
  BY <1>1 DEF CheckoutInv, CheckoutTypeOK, OpeningHasSale, PostRow, SaleRow
<1>3. p \in PostRow /\ p.key = post[r].key /\ p.wish = post[r].wish /\ p.phase = "refused"
  BY <1>2 DEF PostRow, Phases
<1>4. row \in SaleRow /\ row.key = sale[o].key /\ row.wish = sale[o].wish
  BY <1>2 DEF SaleRow
<1> HIDE DEF row, p, o
<1>5. /\ \A s \in Posts : post'[s] = IF s = r THEN p ELSE post[s]
      /\ post' \in [Posts -> PostRow \cup {NoPost}]
  BY <1>1, <1>3 DEF CheckoutInv, CheckoutTypeOK, PostRow
<1>6. /\ \A q \in Placed : sale'[q] = IF q = o THEN row ELSE sale[q]
      /\ sale' \in [Placed -> SaleRow \cup {NoSale}]
  BY <1>1, <1>4 DEF CheckoutInv, CheckoutTypeOK, SaleRow
<1>7. \A k, w : Carried(k, w)' => Carried(k, w)
  BY <1>1, <1>2, <1>3, <1>4, <1>5, <1>6 DEF Carried
<1>8. KeyIsSoldOnce'
  BY <1>2, <1>4, <1>6 DEF CheckoutInv, KeyIsSoldOnce
<1>9. OpeningHasSale'
  BY <1>1, <1>2, <1>3, <1>4, <1>5, <1>6, CheckoutAssumption
     DEF CheckoutInv, OpeningHasSale, SaleRow
<1>10. CheckoutTypeOK'
  BY <1>1, <1>5, <1>6 DEF CheckoutInv, CheckoutTypeOK, PostRow, SaleRow
<1> QED
  BY <1>1, <1>7, <1>8, <1>9, <1>10, NothingCarried DEF CheckoutInv

\* Every step of the page and its requests keeps the invariant.
LEMMA CheckoutStep == CheckoutInv /\ [CheckoutNext]_checkoutVars => CheckoutInv'
<1> SUFFICES ASSUME CheckoutInv, [CheckoutNext]_checkoutVars PROVE CheckoutInv'
  OBVIOUS
<1> USE DEF CheckoutInv
<1>1. CASE LoadPage
  <2>1. CheckoutTypeOK'
    BY <1>1 DEF LoadPage, CheckoutTypeOK
  <2>2. UNCHANGED <<post, sale, changes>> /\ loads' = loads + 1
    BY <1>1 DEF LoadPage
  <2> QED
    BY <2>1, <2>2, NewWish
<1>2. ASSUME NEW a \in Addresses, ChooseAddress(a) PROVE CheckoutInv'
  <2>1. CheckoutTypeOK'
    BY <1>2 DEF ChooseAddress, CheckoutTypeOK
  <2>2. UNCHANGED <<post, sale, loads>> /\ changes' = changes + 1
    BY <1>2 DEF ChooseAddress
  <2> QED
    BY <2>1, <2>2, NewWish
<1>3. CASE GivesUp \/ FillCart \/ UNCHANGED checkoutVars
  <2>1. CheckoutTypeOK'
    BY <1>3 DEF GivesUp, FillCart, checkoutVars, CheckoutTypeOK
  <2>2. UNCHANGED <<post, sale, loads, changes, address, orderKey>>
    BY <1>3 DEF GivesUp, FillCart, checkoutVars
  <2>3. \A k, w : Carried(k, w)' => Carried(k, w)
    BY <2>2 DEF Carried
  <2>4. KeyIsSoldOnce' /\ OpeningHasSale'
    BY <2>2 DEF KeyIsSoldOnce, OpeningHasSale
  <2> QED
    BY <2>1, <2>2, <2>3, <2>4, NothingCarried
<1>4. ASSUME NEW r \in Posts, PlaceOrder(r) PROVE CheckoutInv'
  BY <1>4, PlaceOrderKeeps
<1>5. ASSUME NEW r \in Posts, Answer(r) \/ PostLost(r) PROVE CheckoutInv'
  <2>1. /\ post[r] # NoPost /\ post' = [post EXCEPT ![r] = NoPost]
        /\ page' \in {page, "away", "open"} /\ waits' \in {waits, NoPost}
        /\ UNCHANGED <<loads, address, changes, orderKey, keys, sale, cartFull>>
    BY <1>5 DEF Answer, PostLost
  <2>2. /\ WishHasOneKey' /\ KeyIsKept' /\ WishesArePast' /\ KeyIsSoldOnce'
        /\ OpeningHasSale'
        /\ post' \in [Posts -> PostRow \cup {NoPost}]
    BY <2>1, PostMoves
  <2>3. CheckoutTypeOK'
    BY <2>1, <2>2 DEF CheckoutTypeOK, PostRow
  <2> QED
    BY <2>2, <2>3
<1>6. ASSUME NEW r \in Posts, LookUp(r) \/ OrderRefused(r) \/ PaymentOpens(r)
      PROVE  CheckoutInv'
  <2>1. PICK to \in {"answered", "refused", "looked"} :
          /\ post[r] # NoPost /\ post' = [post EXCEPT ![r].phase = to]
          /\ UNCHANGED <<page, loads, address, changes, orderKey, keys, waits, sale>>
          /\ cartFull' \in BOOLEAN
    BY <1>6 DEF LookUp, OrderRefused, PaymentOpens, moves, CheckoutTypeOK
  <2> DEFINE p == [post[r] EXCEPT !.phase = to]
  <2>2. post[r] \in PostRow
    BY <2>1 DEF CheckoutTypeOK, PostRow
  <2>3. /\ p \in PostRow \cup {NoPost} /\ p.key = post[r].key /\ p.wish = post[r].wish
        /\ p.phase # "opening" /\ post' = [post EXCEPT ![r] = p]
    BY <2>1, <2>2 DEF PostRow, Phases
  <2> HIDE DEF p
  <2>4. /\ WishHasOneKey' /\ KeyIsKept' /\ WishesArePast' /\ KeyIsSoldOnce'
        /\ OpeningHasSale'
        /\ post' \in [Posts -> PostRow \cup {NoPost}]
    BY <2>1, <2>3, PostMoves
  <2>5. CheckoutTypeOK'
    BY <2>1, <2>4 DEF CheckoutTypeOK, PostRow
  <2> QED
    BY <2>4, <2>5
<1>7. ASSUME NEW r \in Posts, NEW o \in Placed, CreateSale(r, o) PROVE CheckoutInv'
  BY <1>7, CreateSaleKeeps
<1>8. ASSUME NEW r \in Posts, PaymentDoesNotOpen(r) PROVE CheckoutInv'
  BY <1>8, FailedSaleKeeps
<1> QED
  BY <1>1, <1>2, <1>3, <1>4, <1>5, <1>6, <1>7, <1>8 DEF CheckoutNext

\* For any number of requests, orders, reloads and changes: the shop makes one order
\* of a page that stays as it is.
THEOREM OneOrderOfAWish == CheckoutSpec => []OneOrderPerWish
<1>1. CheckoutInv => OneOrderPerWish
  <2> SUFFICES ASSUME CheckoutInv, NEW o1 \in Placed, NEW o2 \in Placed,
                      sale[o1] # NoSale, sale[o2] # NoSale, sale[o1].wish = sale[o2].wish
               PROVE  o1 = o2
    BY DEF OneOrderPerWish
  <2>1. Carried(sale[o1].key, sale[o1].wish) /\ Carried(sale[o2].key, sale[o1].wish)
    BY DEF Carried
  <2> QED
    BY <2>1 DEF CheckoutInv, WishHasOneKey, KeyIsSoldOnce
<1>2. CheckoutSpec => []CheckoutInv
  BY InitCheckoutInv, CheckoutStep, PTL DEF CheckoutSpec
<1> QED
  BY <1>1, <1>2, PTL

\* The orders, the posts and the page stay well typed.
THEOREM CheckoutTypesHold == CheckoutSpec => []CheckoutTypeOK
<1>1. CheckoutInv => CheckoutTypeOK
  BY DEF CheckoutInv
<1> QED
  BY <1>1, InitCheckoutInv, CheckoutStep, PTL DEF CheckoutSpec

-----------------------------------------------------------------------------
\* CartPage.

\* The changes of a line.
lines == {"update", "remove"}

\* A request of the page, as far as it has come.
CallRow ==
  [kind : {"none", "read"} \cup lines \cup direct, good : Goods \cup {Quiet.good},
   n : 0..MaxQty, phase : {"idle", "sent", "loaded", "answered"}, heard : BOOLEAN,
   copy : Cart \cup {NotLoaded}, ok : BOOLEAN, alone : BOOLEAN]

CallsAreTyped ==
  /\ call \in [Calls -> CallRow]
  /\ \A c \in Calls :
       /\ call[c].phase = "idle" => call[c].kind = "none" /\ ~call[c].heard
       /\ call[c].phase # "idle" => call[c].kind # "none"
       /\ call[c].kind \in lines \cup {"add", "undo"} => call[c].good \in Goods
       /\ call[c].phase \in {"loaded", "answered"} => call[c].copy \in Cart

\* The query awaits the one read that is heard.
OneReadIsHeard ==
  \A c \in Calls : call[c].heard /\ call[c].kind = "read" <=> reading = c

\* A call that is alone finds the cart as it loaded it, and leaves it as it answers.
AloneIsCurrent ==
  \A c \in Calls :
    call[c].alone =>
      /\ \A e \in Calls \ {c} : call[e].phase = "idle"
      /\ call[c].phase \in {"loaded", "answered"} => call[c].copy = cart

\* A line is changed on a page that shows one.
LinesAreShown ==
  \A c \in Calls : call[c].heard /\ call[c].kind \in lines => shown # NotLoaded

\* A change whose answer goes into the cache has nothing beside it.
DirectIsCurrent ==
  ~unsure =>
    \A c \in Calls :
      call[c].kind \in direct =>
        /\ call[c].heard
        /\ \A e \in Calls \ {c} : call[e].phase = "idle"
        /\ call[c].phase = "loaded" => call[c].copy = cart
        /\ call[c].phase = "answered" /\ call[c].ok => call[c].copy = cart

\* A read that has missed a change of a line will be asked anew.
ReadIsCurrent ==
  ~unsure =>
    \A c \in Calls :
      reading = c /\ call[c].phase \in {"loaded", "answered"} =>
        \/ call[c].copy = cart
        \/ \E d \in Calls :
             call[d].heard /\ call[d].kind \in lines /\ call[d].phase = "answered"

\* What the page has yet to hear of: it asks anew then, or shows the answer.
outstanding(c) ==
  /\ call[c].heard
  /\ \/ call[c].kind \in lines \cup {"add"}
     \/ call[c].kind = "read" /\ call[c].phase = "answered"
     \/ call[c].kind \in direct /\ call[c].phase = "answered" /\ call[c].ok

PageIsCurrent ==
  fresh /\ ~unsure => shown = cart \/ \E c \in Calls : outstanding(c)

CartInv ==
  /\ CartTypeOK
  /\ CallsAreTyped
  /\ OneReadIsHeard
  /\ AloneIsCurrent
  /\ LinesAreShown
  /\ DirectIsCurrent
  /\ ReadIsCurrent
  /\ PageIsCurrent

\* The handlers keep a cart a cart.
LEMMA BuiltIsCart ==
  ASSUME NEW s \in Cart
  PROVE  buildCartResponse(s) \in Cart
<1> DEFINE left == [s EXCEPT !.qty = [g \in Goods |-> IF g \in onSale THEN @[g] ELSE 0]]
<1>1. left \in Cart
  BY CartAssumption DEF Cart
<1>2. buildCartResponse(s) = [left EXCEPT !.coupon = @ /\ unitsOf(left) >= CouponMin]
  BY DEF buildCartResponse
<1> HIDE DEF left
<1> QED
  BY <1>1, <1>2 DEF Cart

\* What a handler makes of a cart is one, and it says yes or no.
LEMMA HandledIsCart ==
  ASSUME NEW s \in Cart, NEW r \in CallRow, r.kind # "none",
         r.kind \in lines \cup {"add", "undo"} => r.good \in Goods
  PROVE  handled(s, r) \in Cart /\ accepted(s, r) \in BOOLEAN
<1>1. r.n \in 0..MaxQty /\ MaxQty \in Nat
  BY CartAssumption DEF CallRow
<1>2. CASE r.kind = "read"
  BY <1>2, BuiltIsCart DEF handled, accepted
<1>3. CASE r.kind = "update"
  <2>1. updated(s, r.good, r.n) \in Cart
    BY <1>1, <1>3 DEF updated, Cart, lines
  <2> QED
    BY <1>3, <2>1, BuiltIsCart DEF handled, accepted
<1>4. CASE r.kind = "remove"
  <2>1. [s EXCEPT !.qty[r.good] = 0] \in Cart
    BY <1>1, <1>4 DEF Cart, lines
  <2> QED
    BY <1>4, <2>1, BuiltIsCart DEF handled, accepted
<1>5. CASE r.kind \in {"add", "undo"}
  <2>1. s.qty[r.good] \in 0..MaxQty
    BY <1>5 DEF Cart
  <2>2. clampQty(s.qty[r.good] + r.n) \in 0..MaxQty
    BY <1>1, <2>1 DEF clampQty
  <2>3. added(s, r.good, r.n) \in Cart
    BY <1>5, <2>2 DEF added, Cart
  <2>4. mayAdd(s, r.good, r.n) \in BOOLEAN
    BY DEF mayAdd
  <2> QED
    BY <1>5, <2>3, <2>4, BuiltIsCart DEF handled, accepted
<1>6. CASE r.kind = "coupon"
  <2> DEFINE built == buildCartResponse(s)
  <2>1. built \in Cart
    BY BuiltIsCart
  <2>2. handled(s, r) = [built EXCEPT !.coupon = @ \/ unitsOf(built) >= CouponMin]
        /\ accepted(s, r) = (unitsOf(built) >= CouponMin)
    BY <1>6 DEF handled, accepted
  <2>3. accepted(s, r) \in BOOLEAN
    BY <2>2
  <2> HIDE DEF built
  <2>4. handled(s, r) \in Cart
    BY <2>1, <2>2 DEF Cart
  <2> QED
    BY <2>3, <2>4
<1>7. CASE r.kind = "uncoupon"
  <2>1. [s EXCEPT !.coupon = FALSE] \in Cart
    BY DEF Cart
  <2> QED
    BY <1>7, <2>1, BuiltIsCart DEF handled, accepted
<1> QED
  BY <1>2, <1>3, <1>4, <1>5, <1>6, <1>7 DEF CallRow, lines, direct

\* Nothing is shown and nothing under way at the start.
LEMMA InitCartInv == CartInit => CartInv
<1> SUFFICES ASSUME CartInit PROVE CartInv
  OBVIOUS
<1>1. /\ Quiet \in CallRow /\ Quiet.phase = "idle" /\ Quiet.kind = "none"
      /\ ~Quiet.heard /\ ~Quiet.alone
  BY CartAssumption DEF Quiet, CallRow, lines, direct
<1>2. \A c \in Calls : call[c] = Quiet
  BY DEF CartInit
<1>3. cart \in Cart /\ call \in [Calls -> CallRow]
  BY <1>1 DEF CartInit
<1>4. CartTypeOK
  <2>1. /\ onSale = Goods /\ shown = NotLoaded /\ fresh = FALSE /\ reading = NoCall
        /\ offer = [g \in Goods |-> 0] /\ clicks = 0 /\ unsure = FALSE
        /\ DOMAIN call = Calls
    BY DEF CartInit
  <2>2. offer \in [Goods -> 0..MaxQty] /\ clicks \in 0..MaxClicks
    BY <2>1, CartAssumption
  <2> QED
    BY <1>3, <2>1, <2>2 DEF CartTypeOK
<1>5. CallsAreTyped
  BY <1>1, <1>2, <1>3 DEF CallsAreTyped, lines
<1>6. OneReadIsHeard
  BY <1>1, <1>2, CartAssumption DEF CartInit, OneReadIsHeard
<1>7. AloneIsCurrent /\ LinesAreShown /\ DirectIsCurrent
  BY <1>1, <1>2 DEF AloneIsCurrent, LinesAreShown, DirectIsCurrent, direct
<1>8. ReadIsCurrent /\ PageIsCurrent
  BY <1>1, <1>2 DEF CartInit, ReadIsCurrent, PageIsCurrent
<1> QED
  BY <1>4, <1>5, <1>6, <1>7, <1>8 DEF CartInv

\* A call keeps what it is and how far it has come.
keepsTo(f, d) ==
  /\ f[d].kind = call[d].kind /\ f[d].phase = call[d].phase
  /\ f[d].good = call[d].good /\ f[d].copy = call[d].copy /\ f[d].ok = call[d].ok

\* One request more, with those that are there: it is heard, and alone if they are
\* idle; they are not alone any longer.
LEMMA WithRows ==
  ASSUME NEW f \in [Calls -> CallRow], NEW c \in Calls,
         NEW k \in {"read"} \cup lines \cup direct, NEW g \in Goods \cup {Quiet.good},
         NEW n \in 0..MaxQty, NEW h, h = with(f, c, request(k, g, n))
  PROVE  /\ h \in [Calls -> CallRow]
         /\ h[c].kind = k /\ h[c].good = g /\ h[c].phase = "sent" /\ h[c].heard
         /\ h[c].alone => \A e \in Calls \ {c} : f[e].phase = "idle"
         /\ \A d \in Calls \ {c} :
              /\ h[d].kind = f[d].kind /\ h[d].phase = f[d].phase
              /\ h[d].good = f[d].good /\ h[d].copy = f[d].copy /\ h[d].ok = f[d].ok
              /\ h[d].heard = f[d].heard /\ ~h[d].alone
<1> DEFINE r == request(k, g, n)
           b == \A e \in Calls \ {c} : f[e].phase = "idle"
<1>1. Quiet \in CallRow
  BY CartAssumption DEF Quiet, CallRow, lines, direct
<1>2. /\ r \in CallRow /\ r.kind = k /\ r.good = g /\ r.phase = "sent" /\ r.heard
  BY <1>1 DEF request, CallRow
<1>10. h = with(f, c, r)
  OBVIOUS
<1> HIDE DEF r
<1>3. h[c] = [r EXCEPT !.alone = b] /\ b \in BOOLEAN
  BY <1>10 DEF with
<1>4. \A d \in Calls \ {c} : h[d] = [f[d] EXCEPT !.alone = FALSE]
  BY <1>10 DEF with
<1>5. h = [d \in Calls |-> IF d = c THEN [r EXCEPT !.alone = b]
                          ELSE [f[d] EXCEPT !.alone = FALSE]]
  BY <1>10 DEF with
<1> HIDE DEF b
<1>6. h[c] \in CallRow /\ h[c].kind = k /\ h[c].good = g /\ h[c].phase = "sent"
      /\ h[c].heard /\ h[c].alone = b
  BY <1>2, <1>3 DEF CallRow
<1>7. \A d \in Calls \ {c} :
        /\ h[d] \in CallRow
        /\ h[d].kind = f[d].kind /\ h[d].phase = f[d].phase
        /\ h[d].good = f[d].good /\ h[d].copy = f[d].copy /\ h[d].ok = f[d].ok
        /\ h[d].heard = f[d].heard /\ ~h[d].alone
  <2> SUFFICES ASSUME NEW d \in Calls \ {c}
               PROVE  /\ h[d] \in CallRow
                      /\ h[d].kind = f[d].kind /\ h[d].phase = f[d].phase
                      /\ h[d].good = f[d].good /\ h[d].copy = f[d].copy
                      /\ h[d].ok = f[d].ok
                      /\ h[d].heard = f[d].heard /\ ~h[d].alone
    OBVIOUS
  <2>1. h[d] = [f[d] EXCEPT !.alone = FALSE] /\ f[d] \in CallRow
    BY <1>4
  <2>2. h[d] \in CallRow /\ h[d].alone = FALSE
    BY <2>1 DEF CallRow
  <2>3. /\ h[d].kind = f[d].kind /\ h[d].phase = f[d].phase
        /\ h[d].good = f[d].good /\ h[d].copy = f[d].copy
        /\ h[d].ok = f[d].ok
    BY <2>1 DEF CallRow
  <2>4. h[d].heard = f[d].heard
    BY <2>1 DEF CallRow
  <2> QED
    BY <2>2, <2>3, <2>4
<1>8. h \in [Calls -> CallRow]
  <2>1. [r EXCEPT !.alone = b] \in CallRow
    BY <1>3, <1>6
  <2>2. \A d \in Calls \ {c} : [f[d] EXCEPT !.alone = FALSE] \in CallRow
    BY <1>4, <1>7
  <2> QED
    BY <1>5, <2>1, <2>2
<1>9. h[c].alone => \A e \in Calls \ {c} : f[e].phase = "idle"
  BY <1>6 DEF b
<1> QED
  BY <1>6, <1>7, <1>8, <1>9 DEF r

\* Without its hearer the read that the query awaited is as before.
LEMMA UnheardRows ==
  ASSUME NEW f \in [Calls -> CallRow], reading \in Calls \cup {NoCall}
  PROVE  /\ unheard(f) \in [Calls -> CallRow]
         /\ \A d \in Calls :
              /\ unheard(f)[d].kind = f[d].kind /\ unheard(f)[d].phase = f[d].phase
              /\ unheard(f)[d].good = f[d].good /\ unheard(f)[d].copy = f[d].copy
              /\ unheard(f)[d].ok = f[d].ok /\ unheard(f)[d].alone = f[d].alone
              /\ unheard(f)[d].heard <=> f[d].heard /\ d # reading
<1>1. CASE reading = NoCall
  BY <1>1, CartAssumption DEF unheard
<1>2. CASE reading # NoCall
  <2>1. unheard(f) = [f EXCEPT ![reading].heard = FALSE] /\ reading \in Calls
    BY <1>2 DEF unheard
  <2>2. f[reading] \in CallRow
    BY <2>1
  <2>3. /\ unheard(f) \in [Calls -> CallRow]
        /\ unheard(f)[reading] = [f[reading] EXCEPT !.heard = FALSE]
        /\ \A d \in Calls \ {reading} : unheard(f)[d] = f[d]
    <3> DEFINE row == [f[reading] EXCEPT !.heard = FALSE]
    <3>1. row \in CallRow
      BY <2>2 DEF CallRow
    <3>2. unheard(f) = [f EXCEPT ![reading] = row]
      BY <2>1
    <3> HIDE DEF row
    <3>3. /\ unheard(f) \in [Calls -> CallRow]
          /\ unheard(f)[reading] = row
          /\ \A d \in Calls \ {reading} : unheard(f)[d] = f[d]
      BY <2>1, <3>1, <3>2
    <3> QED
      BY <3>3 DEF row
  <2>4. unheard(f)[reading].heard = FALSE
    BY <2>2, <2>3 DEF CallRow
  <2>6. \A d \in Calls : unheard(f)[d].heard <=> f[d].heard /\ d # reading
    <3> SUFFICES ASSUME NEW d \in Calls
                 PROVE  unheard(f)[d].heard <=> f[d].heard /\ d # reading
      OBVIOUS
    <3>1. CASE d = reading
      BY <2>4, <3>1
    <3>2. CASE d # reading
      <4>1. unheard(f)[d] = f[d]
        BY <2>3, <3>2
      <4> QED
        BY <4>1, <3>2, Zenon
    <3> QED
      BY <3>1, <3>2
  <2>5. /\ unheard(f)[reading].kind = f[reading].kind
        /\ unheard(f)[reading].phase = f[reading].phase
        /\ unheard(f)[reading].good = f[reading].good
        /\ unheard(f)[reading].copy = f[reading].copy
        /\ unheard(f)[reading].ok = f[reading].ok
        /\ unheard(f)[reading].alone = f[reading].alone
    BY <2>2, <2>3 DEF CallRow
  <2>7. \A d \in Calls :
          /\ unheard(f)[d].kind = f[d].kind /\ unheard(f)[d].phase = f[d].phase
          /\ unheard(f)[d].good = f[d].good /\ unheard(f)[d].copy = f[d].copy
          /\ unheard(f)[d].ok = f[d].ok /\ unheard(f)[d].alone = f[d].alone
    <3> SUFFICES ASSUME NEW d \in Calls
                 PROVE  /\ unheard(f)[d].kind = f[d].kind
                        /\ unheard(f)[d].phase = f[d].phase
                        /\ unheard(f)[d].good = f[d].good
                        /\ unheard(f)[d].copy = f[d].copy
                        /\ unheard(f)[d].ok = f[d].ok
                        /\ unheard(f)[d].alone = f[d].alone
      OBVIOUS
    <3>1. CASE d = reading
      BY <2>5, <3>1
    <3>2. CASE d # reading
      <4>1. unheard(f)[d] = f[d]
        BY <2>3, <3>2
      <4> QED
        BY <4>1, Zenon
    <3> QED
      BY <3>1, <3>2
  <2> QED
    BY <2>3, <2>6, <2>7
<1> QED
  BY <1>1, <1>2

\* What the invariant says of each call, for reference where it is used.
LEMMA CallFacts ==
  ASSUME CartInv
  PROVE  /\ call \in [Calls -> CallRow]
         /\ cart \in Cart /\ shown \in Cart \cup {NotLoaded} /\ NotLoaded \notin Cart
         /\ reading \in Calls \cup {NoCall} /\ NoCall \notin Calls
         /\ \A c \in Calls :
              /\ call[c].phase = "idle" => call[c].kind = "none" /\ ~call[c].heard
              /\ call[c].phase # "idle" => call[c].kind # "none"
              /\ call[c].phase \in {"idle", "sent", "loaded", "answered"}
              /\ call[c].heard \in BOOLEAN
BY CartAssumption DEF CartInv, CartTypeOK, CallsAreTyped, CallRow

\* A call that is freed is quiet; the others are as they were.
LEMMA FreedRows ==
  ASSUME CartInv, NEW c \in Calls
  PROVE  /\ freed(c) \in [Calls -> CallRow]
         /\ freed(c)[c].kind = "none" /\ freed(c)[c].phase = "idle"
         /\ ~freed(c)[c].heard /\ ~freed(c)[c].alone
         /\ \A d \in Calls \ {c} : freed(c)[d] = call[d]
<1>1. /\ Quiet \in CallRow /\ Quiet.phase = "idle" /\ Quiet.kind = "none"
      /\ ~Quiet.heard /\ ~Quiet.alone
  BY CartAssumption DEF Quiet, CallRow, lines, direct
<1>2. freed(c) = [call EXCEPT ![c] = Quiet] /\ call \in [Calls -> CallRow]
  BY CallFacts DEF freed
<1> QED
  BY <1>1, <1>2

\* A call that is forsaken is heard no more, and goes on like the others.
LEMMA ForsakenRows ==
  ASSUME CartInv, NEW c \in Calls
  PROVE  /\ forsaken(c) \in [Calls -> CallRow]
         /\ keepsTo(forsaken(c), c)
         /\ ~forsaken(c)[c].heard /\ forsaken(c)[c].alone = call[c].alone
         /\ \A d \in Calls \ {c} : forsaken(c)[d] = call[d]
<1> DEFINE row == [call[c] EXCEPT !.heard = FALSE]
<1>1. row \in CallRow /\ call \in [Calls -> CallRow]
  BY CallFacts, ZenonT(30) DEF CallRow
<1>2. /\ row.kind = call[c].kind /\ row.phase = call[c].phase /\ row.good = call[c].good
      /\ row.copy = call[c].copy /\ row.ok = call[c].ok
      /\ row.heard = FALSE /\ row.alone = call[c].alone
  BY <1>1, CallFacts DEF CallRow
<1>3. forsaken(c) = [call EXCEPT ![c] = row]
  BY <1>1 DEF forsaken
<1> HIDE DEF row
<1> QED
  BY <1>1, <1>2, <1>3 DEF keepsTo

\* A call loads the session.
LEMMA LoadsStep ==
  ASSUME CartInv, NEW c \in Calls, Loads(c)
  PROVE  CartInv'
<1> DEFINE row == [call[c] EXCEPT !.phase = "loaded", !.copy = cart]
<1>1. /\ call[c].phase = "sent" /\ call' = [call EXCEPT ![c] = row]
      /\ UNCHANGED <<cart, onSale, shown, fresh, reading, offer, clicks, unsure>>
  BY CallFacts DEF Loads
<1>2. row \in CallRow /\ call[c] \in CallRow
  BY CallFacts, ZenonT(30) DEF CallRow
<1>3. /\ row.kind = call[c].kind /\ row.good = call[c].good /\ row.phase = "loaded"
      /\ row.copy = cart /\ row.heard = call[c].heard /\ row.alone = call[c].alone
  BY <1>2 DEF CallRow
<1> HIDE DEF row
<1>4. /\ call' \in [Calls -> CallRow] /\ call'[c] = row
      /\ \A d \in Calls \ {c} : call'[d] = call[d]
  BY <1>1, <1>2, CallFacts
<1>5. CartTypeOK' /\ CallsAreTyped'
  BY <1>1, <1>3, <1>4, CallFacts DEF CartInv, CartTypeOK, CallsAreTyped
<1>6. OneReadIsHeard'
  BY <1>1, <1>3, <1>4 DEF CartInv, OneReadIsHeard
<1>7. AloneIsCurrent'
  BY <1>1, <1>3, <1>4 DEF CartInv, AloneIsCurrent
<1>8. LinesAreShown'
  BY <1>1, <1>3, <1>4 DEF CartInv, LinesAreShown
<1>9. DirectIsCurrent'
  BY <1>1, <1>3, <1>4 DEF CartInv, DirectIsCurrent
<1>10. ReadIsCurrent'
  BY <1>1, <1>3, <1>4 DEF CartInv, ReadIsCurrent
<1>11. PageIsCurrent'
  BY <1>1, <1>3, <1>4 DEF CartInv, PageIsCurrent, outstanding
<1> QED
  BY <1>5, <1>6, <1>7, <1>8, <1>9, <1>10, <1>11 DEF CartInv

\* A handler answers, and saves a session that it has changed.
LEMMA AnswersStep ==
  ASSUME CartInv, NEW c \in Calls, Answers(c)
  PROVE  CartInv'
<1> DEFINE before == call[c].copy
           after == handled(before, call[c])
           ok == accepted(before, call[c])
           row == [call[c] EXCEPT !.phase = "answered", !.copy = after, !.ok = ok]
<1>1. /\ call[c].phase = "loaded" /\ call' = [call EXCEPT ![c] = row]
      /\ cart' = (IF after # before THEN after ELSE cart)
      /\ unsure' = (unsure \/ (after # before /\ ~(call[c].heard /\ ok)))
      /\ UNCHANGED <<onSale, shown, fresh, reading, offer, clicks>>
  BY CallFacts DEF Answers
<1>2. /\ call[c] \in CallRow /\ call[c].kind # "none" /\ before \in Cart
      /\ call[c].kind \in lines \cup {"add", "undo"} => call[c].good \in Goods
  BY <1>1, CallFacts DEF CartInv, CallsAreTyped
<1>3. after \in Cart /\ ok \in BOOLEAN
  BY <1>2, HandledIsCart
<1>4. call[c].kind \in {"read"} \cup lines => ok = TRUE
  BY DEF accepted, lines
<1> HIDE DEF after, ok
<1>5. row \in CallRow
  BY <1>2, <1>3 DEF CallRow
<1>6. /\ row.kind = call[c].kind /\ row.good = call[c].good /\ row.phase = "answered"
      /\ row.copy = after /\ row.ok = ok
      /\ row.heard = call[c].heard /\ row.alone = call[c].alone
  BY <1>2 DEF CallRow
<1> HIDE DEF row
<1>7. /\ call' \in [Calls -> CallRow] /\ call'[c] = row
      /\ \A d \in Calls \ {c} : call'[d] = call[d]
  BY <1>1, <1>5, CallFacts
<1>8. cart' \in Cart
  BY <1>1, <1>3, CallFacts
<1>9. unsure' \in BOOLEAN
  BY <1>1 DEF CartInv, CartTypeOK
<1>10. ~unsure' => /\ ~unsure
                   /\ cart' # cart => call[c].heard /\ ok /\ cart' = after
                   /\ after = before \/ (call[c].heard /\ ok /\ cart' = after)
                   /\ after = before => cart' = cart
  BY <1>1 DEF CartInv, CartTypeOK
<1>11. CartTypeOK' /\ CallsAreTyped'
  BY <1>1, <1>3, <1>6, <1>7, <1>8, <1>9, CallFacts
  DEF CartInv, CartTypeOK, CallsAreTyped
<1>12. OneReadIsHeard'
  BY <1>1, <1>6, <1>7 DEF CartInv, OneReadIsHeard
<1>13. AloneIsCurrent'
  <2> SUFFICES ASSUME NEW e \in Calls, call'[e].alone
               PROVE  /\ \A d \in Calls \ {e} : call'[d].phase = "idle"
                      /\ call'[e].phase \in {"loaded", "answered"} => call'[e].copy = cart'
    BY DEF AloneIsCurrent
  <2>1. CASE e = c
    BY <2>1, <1>1, <1>6, <1>7 DEF CartInv, AloneIsCurrent
  <2>2. CASE e # c
    <3>1. call[e].alone /\ call[c].phase = "idle"
      BY <2>2, <1>7 DEF CartInv, AloneIsCurrent
    <3> QED
      BY <1>1, <3>1
  <2> QED
    BY <2>1, <2>2
<1>14. LinesAreShown'
  BY <1>1, <1>6, <1>7 DEF CartInv, LinesAreShown
<1>15. DirectIsCurrent'
  <2> SUFFICES ASSUME ~unsure', NEW e \in Calls, call'[e].kind \in direct
               PROVE  /\ call'[e].heard
                      /\ \A d \in Calls \ {e} : call'[d].phase = "idle"
                      /\ call'[e].phase = "loaded" => call'[e].copy = cart'
                      /\ call'[e].phase = "answered" /\ call'[e].ok
                           => call'[e].copy = cart'
    BY DEF DirectIsCurrent
  <2>1. CASE e = c
    BY <2>1, <1>1, <1>6, <1>7, <1>10 DEF CartInv, DirectIsCurrent
  <2>2. CASE e # c
    <3>1. call[c].phase = "idle"
      BY <2>2, <1>7, <1>10 DEF CartInv, DirectIsCurrent
    <3> QED
      BY <1>1, <3>1
  <2> QED
    BY <2>1, <2>2
<1>16. ~unsure' /\ cart' # cart =>
         \/ call[c].kind \in lines /\ call'[c].heard /\ call'[c].phase = "answered"
         \/ call[c].kind = "read" /\ reading = c
         \/ call[c].kind \in direct /\ call'[c].heard /\ call'[c].ok
            /\ call'[c].phase = "answered"
  <2>1. call[c].kind \in {"read"} \cup lines \cup direct
    BY <1>2 DEF CallRow
  <2>2. call[c].heard /\ call[c].kind = "read" => reading = c
    BY DEF CartInv, OneReadIsHeard
  <2> QED
    BY <2>1, <2>2, <1>6, <1>7, <1>10
<1>17. ReadIsCurrent'
  <2> SUFFICES ASSUME ~unsure', NEW e \in Calls, reading = e,
                      call'[e].phase \in {"loaded", "answered"}
               PROVE  \/ call'[e].copy = cart'
                      \/ \E d \in Calls : /\ call'[d].heard /\ call'[d].kind \in lines
                                          /\ call'[d].phase = "answered"
    BY <1>1 DEF ReadIsCurrent
  <2>1. /\ ~unsure /\ call[e].phase \in {"loaded", "answered"}
    BY <1>1, <1>6, <1>7, <1>10
  <2>2. \/ call[e].copy = cart
        \/ \E d \in Calls : /\ call[d].heard /\ call[d].kind \in lines
                            /\ call[d].phase = "answered"
    BY <2>1 DEF CartInv, ReadIsCurrent
  <2>3. CASE \E d \in Calls : /\ call[d].heard /\ call[d].kind \in lines
                              /\ call[d].phase = "answered"
    BY <2>3, <1>1, <1>7
  <2>4. CASE call[e].copy = cart /\ e = c
    BY <2>4, <1>1, <1>6, <1>7
  <2>5. CASE call[e].copy = cart /\ e # c
    <3>1. call[c].kind \notin direct
      <4>1. call[e].phase # "idle" /\ ~unsure
        BY <2>1
      <4> QED
        BY <2>5, <4>1 DEF CartInv, DirectIsCurrent
    <3> QED
      BY <2>5, <3>1, <1>6, <1>7, <1>16
  <2> QED
    BY <2>2, <2>3, <2>4, <2>5
<1>18. PageIsCurrent'
  <2> SUFFICES ASSUME fresh, ~unsure'
               PROVE  shown = cart' \/ \E d \in Calls : outstanding(d)'
    BY <1>1 DEF PageIsCurrent
  <2>1. CASE cart' # cart
    BY <2>1, <1>6, <1>7, <1>16 DEF CartInv, OneReadIsHeard, outstanding
  <2>2. CASE cart' = cart /\ shown # cart
    <3>1. PICK d \in Calls : outstanding(d)
      BY <2>2, <1>10 DEF CartInv, PageIsCurrent
    <3>2. outstanding(d)'
      BY <3>1, <1>1, <1>6, <1>7 DEF outstanding
    <3> QED
      BY <3>2
  <2> QED
    BY <2>1, <2>2
<1> QED
  BY <1>11, <1>12, <1>13, <1>14, <1>15, <1>17, <1>18 DEF CartInv

\* `c' is a new request of kind `k'; what the others do goes on, though some of them
\* may be heard no more.
joins(c, k) ==
  /\ call' \in [Calls -> CallRow]
  /\ call'[c].kind = k /\ call'[c].phase = "sent" /\ call'[c].heard
  /\ k \in lines \cup {"add", "undo"} => call'[c].good \in Goods
  /\ call'[c].alone => \A e \in Calls \ {c} : call'[e].phase = "idle"
  /\ \A d \in Calls \ {c} :
       /\ call'[d].kind = call[d].kind /\ call'[d].phase = call[d].phase
       /\ call'[d].good = call[d].good /\ call'[d].copy = call[d].copy
       /\ call'[d].ok = call[d].ok
       /\ ~call'[d].alone
       /\ call'[d].heard => call[d].heard

\* A new request leaves the calls sound.
LEMMA JoinStep ==
  ASSUME CartInv, NEW c \in Calls, NEW k \in {"read"} \cup lines \cup direct,
         joins(c, k), UNCHANGED cart
  PROVE  CallsAreTyped' /\ AloneIsCurrent'
<1>1. CallsAreTyped'
  <2> SUFFICES ASSUME NEW d \in Calls
               PROVE  /\ call'[d].phase = "idle" => call'[d].kind = "none" /\ ~call'[d].heard
                      /\ call'[d].phase # "idle" => call'[d].kind # "none"
                      /\ call'[d].kind \in lines \cup {"add", "undo"}
                           => call'[d].good \in Goods
                      /\ call'[d].phase \in {"loaded", "answered"} => call'[d].copy \in Cart
    BY DEF CallsAreTyped, joins
  <2>1. CASE d = c
    BY <2>1 DEF joins, lines, direct
  <2>2. CASE d # c
    BY <2>2 DEF joins, CartInv, CallsAreTyped
  <2> QED
    BY <2>1, <2>2
<1>2. AloneIsCurrent'
  BY DEF joins, AloneIsCurrent
<1> QED
  BY <1>1, <1>2

\* A request that is sent while the others go on as `f' says.
LEMMA WithJoins ==
  ASSUME NEW f \in [Calls -> CallRow], NEW c \in Calls,
         NEW k \in {"read"} \cup lines \cup direct, NEW g \in Goods \cup {Quiet.good},
         NEW n \in 0..MaxQty, call' = with(f, c, request(k, g, n)),
         k \in lines \cup {"add", "undo"} => g \in Goods,
         \A d \in Calls \ {c} : keepsTo(f, d) /\ (f[d].heard => call[d].heard)
  PROVE  joins(c, k) /\ \A d \in Calls \ {c} : call'[d].heard = f[d].heard
<1>1. /\ call' \in [Calls -> CallRow]
      /\ call'[c].kind = k /\ call'[c].good = g /\ call'[c].phase = "sent"
      /\ call'[c].heard
      /\ call'[c].alone => \A e \in Calls \ {c} : f[e].phase = "idle"
      /\ \A d \in Calls \ {c} :
           /\ call'[d].kind = f[d].kind /\ call'[d].phase = f[d].phase
           /\ call'[d].good = f[d].good /\ call'[d].copy = f[d].copy
           /\ call'[d].ok = f[d].ok
           /\ call'[d].heard = f[d].heard /\ ~call'[d].alone
  BY WithRows
<1>2. call'[c].alone => \A e \in Calls \ {c} : call'[e].phase = "idle"
  BY <1>1
<1>3. \A d \in Calls \ {c} :
        /\ call'[d].kind = call[d].kind /\ call'[d].phase = call[d].phase
        /\ call'[d].good = call[d].good /\ call'[d].copy = call[d].copy
        /\ call'[d].ok = call[d].ok
        /\ call'[d].heard => call[d].heard
  BY <1>1 DEF keepsTo
<1> QED
  BY <1>1, <1>2, <1>3 DEF joins

\* The page asks for the cart.
LEMMA MountsStep ==
  ASSUME CartInv, NEW c \in Calls, Mounts(c)
  PROVE  CartInv'
<1>1. /\ call[c].phase = "idle" /\ reading = NoCall /\ reading' = c
      /\ call' = with(call, c, request("read", Quiet.good, 0))
      /\ unsure' = (unsure \/ overlaps("read"))
      /\ clicks' = (IF shown = NotLoaded THEN clicks ELSE clicks + 1)
      /\ clicks' <= MaxClicks
      /\ UNCHANGED <<cart, onSale, shown, fresh, offer>>
  BY DEF Mounts
<1>2. 0 \in 0..MaxQty /\ Quiet.good \in Goods \cup {Quiet.good}
  BY CartAssumption
<1>3. joins(c, "read") /\ \A d \in Calls \ {c} : call'[d].heard = call[d].heard
  <2>1. \A d \in Calls : keepsTo(call, d)
    BY DEF keepsTo
  <2> QED
    BY <1>1, <1>2, <2>1, WithJoins, CallFacts DEF lines
<1>4. CallsAreTyped' /\ AloneIsCurrent'
  BY <1>1, <1>3, JoinStep
<1>5. CartTypeOK'
  <2>1. clicks' \in 0..MaxClicks
    BY <1>1, CartAssumption DEF CartInv, CartTypeOK
  <2>2. DOMAIN call' = Calls /\ unsure' \in BOOLEAN
    BY <1>1, <1>3 DEF joins, CartInv, CartTypeOK, overlaps
  <2> QED
    BY <1>1, <2>1, <2>2 DEF CartInv, CartTypeOK
<1>6. OneReadIsHeard'
  <2>1. \A d \in Calls : ~(call[d].heard /\ call[d].kind = "read")
    BY <1>1, CallFacts DEF CartInv, OneReadIsHeard
  <2> QED
    BY <1>1, <1>3, <2>1 DEF OneReadIsHeard, joins
<1>7. LinesAreShown'
  BY <1>1, <1>3 DEF CartInv, LinesAreShown, joins, lines
<1>8. ~unsure' => ~unsure /\ \A d \in Calls : call[d].kind \notin direct
  <2>1. \A d \in Calls : call[d].kind \in direct => d \in alive
    BY CallFacts DEF alive, direct
  <2> QED
    BY <1>1, <2>1 DEF overlaps, CartInv, CartTypeOK
<1>9. DirectIsCurrent'
  BY <1>3, <1>8 DEF DirectIsCurrent, joins, direct
<1>10. ReadIsCurrent'
  BY <1>1, <1>3 DEF ReadIsCurrent, joins
<1>11. PageIsCurrent'
  <2> SUFFICES ASSUME fresh, ~unsure', shown # cart PROVE \E d \in Calls : outstanding(d)'
    BY <1>1 DEF PageIsCurrent
  <2>1. PICK d \in Calls : outstanding(d)
    BY <1>8 DEF CartInv, PageIsCurrent
  <2>2. d # c
    BY <2>1, <1>1, CallFacts DEF outstanding
  <2>3. outstanding(d)'
    BY <2>1, <2>2, <1>3 DEF outstanding, joins
  <2> QED
    BY <2>3
<1> QED
  BY <1>4, <1>5, <1>6, <1>7, <1>9, <1>10, <1>11 DEF CartInv

\* The customer changes something.
LEMMA SendsStep ==
  ASSUME CartInv, NEW c \in Calls, NEW k \in lines \cup direct,
         NEW g \in Goods \cup {Quiet.good}, NEW n \in 0..MaxQty, Sends(c, k, g, n),
         k \in lines \cup {"add", "undo"} => g \in Goods,
         k \in lines => shown # NotLoaded,
         offer' \in [Goods -> 0..MaxQty]
  PROVE  CartInv'
<1>1. /\ call[c].phase = "idle" /\ clicks < MaxClicks /\ clicks' = clicks + 1
      /\ unsure' = (unsure \/ overlaps(k))
      /\ UNCHANGED <<cart, onSale, shown, fresh>>
  BY DEF Sends
<1>2. /\ joins(c, k)
      /\ \A d \in Calls \ {c} :
           call'[d].heard <=> call[d].heard /\ (k \in lines => d # reading)
      /\ reading' = IF k \in lines THEN NoCall ELSE reading
  <2>1. CASE k \in direct
    <3>1. reading' = reading /\ call' = with(call, c, request(k, g, n)) /\ k \notin lines
      BY <2>1 DEF Sends, direct, lines
    <3>2. \A d \in Calls : keepsTo(call, d)
      BY DEF keepsTo
    <3>3. joins(c, k) /\ \A d \in Calls \ {c} : call'[d].heard = call[d].heard
      BY <2>1, <3>1, <3>2, WithJoins, CallFacts
    <3> QED
      BY <3>1, <3>3
  <2>2. CASE k \notin direct
    <3>1. reading' = NoCall /\ call' = with(unheard(call), c, request(k, g, n))
          /\ k \in lines
      BY <2>2 DEF Sends
    <3>2. unheard(call) \in [Calls -> CallRow]
      BY UnheardRows, CallFacts
    <3>5. \A d \in Calls : unheard(call)[d].heard <=> call[d].heard /\ d # reading
      BY UnheardRows, CallFacts
    <3>7. \A d \in Calls : keepsTo(unheard(call), d)
      BY UnheardRows, CallFacts DEF keepsTo
    <3>3. joins(c, k) /\ \A d \in Calls \ {c} : call'[d].heard = unheard(call)[d].heard
      BY <3>1, <3>2, <3>5, <3>7, WithJoins
    <3>4. \A d \in Calls \ {c} : call'[d].heard = unheard(call)[d].heard
      BY <3>3
    <3>6. \A d \in Calls \ {c} : call'[d].heard <=> call[d].heard /\ d # reading
      <4> SUFFICES ASSUME NEW d \in Calls \ {c}
                   PROVE  call'[d].heard <=> call[d].heard /\ d # reading
        OBVIOUS
      <4>1. call'[d].heard = unheard(call)[d].heard
        BY <3>4
      <4>2. unheard(call)[d].heard <=> call[d].heard /\ d # reading
        BY <3>5
      <4> QED
        BY <4>1, <4>2, Zenon
    <3> QED
      BY <3>1, <3>3, <3>6
  <2> QED
    BY <2>1, <2>2
<1>3. CallsAreTyped' /\ AloneIsCurrent'
  BY <1>1, <1>2, JoinStep
<1>4. CartTypeOK'
  <2>1. clicks' \in 0..MaxClicks
    BY <1>1, CartAssumption DEF CartInv, CartTypeOK
  <2>2. DOMAIN call' = Calls /\ unsure' \in BOOLEAN
    BY <1>1, <1>2 DEF joins, CartInv, CartTypeOK, overlaps
  <2>3. reading' \in Calls \cup {NoCall}
    BY <1>2, CallFacts
  <2> QED
    BY <1>1, <2>1, <2>2, <2>3 DEF CartInv, CartTypeOK
<1>5. OneReadIsHeard'
  <2> SUFFICES ASSUME NEW d \in Calls
               PROVE  call'[d].heard /\ call'[d].kind = "read" <=> reading' = d
    BY DEF OneReadIsHeard
  <2>1. CASE d = c
    <3>1. call'[d].kind # "read"
      BY <2>1, <1>2 DEF joins, lines, direct
    <3>2. reading # c
      BY <1>1, CallFacts DEF CartInv, OneReadIsHeard
    <3> QED
      BY <2>1, <3>1, <3>2, <1>2, CallFacts
  <2>2. CASE d # c
    <3>1. call[d].heard /\ call[d].kind = "read" <=> reading = d
      BY DEF CartInv, OneReadIsHeard
    <3>2. call'[d].kind = call[d].kind
      BY <2>2, <1>2 DEF joins
    <3>3. call'[d].heard <=> call[d].heard /\ (k \in lines => d # reading)
      BY <2>2, <1>2
    <3>4. k \in lines => reading' = NoCall /\ reading' # d
      BY <1>2, CallFacts
    <3>5. k \notin lines => reading' = reading
      BY <1>2
    <3> QED
      BY <3>1, <3>2, <3>3, <3>4, <3>5
  <2> QED
    BY <2>1, <2>2
<1>6. LinesAreShown'
  BY <1>1, <1>2 DEF CartInv, LinesAreShown, joins
<1>7. ~unsure' => /\ ~unsure
                  /\ \A d \in Calls : call[d].kind \notin direct
                  /\ k \in direct => \A d \in Calls : call[d].phase = "idle"
  <2>1. \A d \in Calls : call[d].kind \in direct \/ call[d].phase # "idle" => d \in alive
    BY CallFacts DEF alive, direct
  <2> QED
    BY <1>1, <2>1 DEF overlaps, CartInv, CartTypeOK
<1>8. DirectIsCurrent'
  <2> SUFFICES ASSUME ~unsure', NEW e \in Calls, call'[e].kind \in direct
               PROVE  /\ call'[e].heard
                      /\ \A d \in Calls \ {e} : call'[d].phase = "idle"
                      /\ call'[e].phase = "loaded" => call'[e].copy = cart'
                      /\ call'[e].phase = "answered" /\ call'[e].ok
                           => call'[e].copy = cart'
    BY DEF DirectIsCurrent
  <2>1. e = c /\ k \in direct
    BY <1>2, <1>7 DEF joins
  <2> QED
    BY <2>1, <1>2, <1>7 DEF joins
<1>9. ReadIsCurrent'
  <2> SUFFICES ASSUME ~unsure', NEW e \in Calls, reading' = e,
                      call'[e].phase \in {"loaded", "answered"}
               PROVE  FALSE
    BY DEF ReadIsCurrent
  <2>1. e # c
    BY <1>2 DEF joins
  <2>2. k \in direct
    BY <1>2, CallFacts
  <2> QED
    BY <2>1, <2>2, <1>2, <1>7 DEF joins
<1>10. PageIsCurrent'
  <2> SUFFICES ASSUME fresh, ~unsure', shown # cart PROVE \E d \in Calls : outstanding(d)'
    BY <1>1 DEF PageIsCurrent
  <2>1. PICK d \in Calls : outstanding(d)
    BY <1>7 DEF CartInv, PageIsCurrent
  <2>2. CASE k \in lines
    <3>1. outstanding(c)'
      BY <2>2, <1>2 DEF outstanding, joins
    <3> QED
      BY <3>1
  <2>3. CASE k \in direct
    BY <2>1, <2>3, <1>7, CallFacts DEF outstanding
  <2> QED
    BY <2>2, <2>3
<1> QED
  BY <1>3, <1>4, <1>5, <1>6, <1>8, <1>9, <1>10 DEF CartInv

\* What is left when a call is freed.
LEMMA FreedIsSound ==
  ASSUME CartInv, NEW c \in Calls, call' = freed(c), call[c].phase # "idle",
         UNCHANGED cart
  PROVE  CallsAreTyped' /\ AloneIsCurrent' /\ DOMAIN call' = Calls
<1>1. /\ call' \in [Calls -> CallRow]
      /\ call'[c].kind = "none" /\ call'[c].phase = "idle"
      /\ ~call'[c].heard /\ ~call'[c].alone
      /\ \A d \in Calls \ {c} : call'[d] = call[d]
  BY FreedRows
<1>2. CallsAreTyped'
  BY <1>1 DEF CartInv, CallsAreTyped, lines
<1>3. AloneIsCurrent'
  BY <1>1 DEF CartInv, AloneIsCurrent
<1> QED
  BY <1>1, <1>2, <1>3

\* What is left when a call is heard no more.
LEMMA ForsakenIsSound ==
  ASSUME CartInv, NEW c \in Calls, call' = forsaken(c), UNCHANGED cart
  PROVE  CallsAreTyped' /\ AloneIsCurrent' /\ DOMAIN call' = Calls
<1>1. /\ call' \in [Calls -> CallRow] /\ keepsTo(call', c)
      /\ ~call'[c].heard /\ call'[c].alone = call[c].alone
      /\ \A d \in Calls \ {c} : call'[d] = call[d]
  BY ForsakenRows
<1>2. CallsAreTyped'
  <2> SUFFICES ASSUME NEW d \in Calls
               PROVE  /\ call'[d].phase = "idle" => call'[d].kind = "none" /\ ~call'[d].heard
                      /\ call'[d].phase # "idle" => call'[d].kind # "none"
                      /\ call'[d].kind \in lines \cup {"add", "undo"}
                           => call'[d].good \in Goods
                      /\ call'[d].phase \in {"loaded", "answered"} => call'[d].copy \in Cart
    BY <1>1 DEF CallsAreTyped
  <2>1. CASE d = c
    BY <2>1, <1>1 DEF CartInv, CallsAreTyped, keepsTo
  <2>2. CASE d # c
    BY <2>2, <1>1 DEF CartInv, CallsAreTyped
  <2> QED
    BY <2>1, <2>2
<1>3. AloneIsCurrent'
  <2>1. \A d \in Calls : /\ call'[d].phase = call[d].phase /\ call'[d].copy = call[d].copy
                         /\ call'[d].alone = call[d].alone
    BY <1>1 DEF keepsTo
  <2> QED
    BY <2>1 DEF CartInv, AloneIsCurrent
<1> QED
  BY <1>1, <1>2, <1>3

\* The page asks anew: whatever read it awaited, it awaits this one.
LEMMA AskedAnew ==
  ASSUME CartInv, NEW f \in [Calls -> CallRow], NEW c \in Calls,
         \A d \in Calls \ {c} : keepsTo(f, d) /\ (f[d].heard => call[d].heard),
         call' = with(unheard(f), c, request("read", Quiet.good, 0)), reading' = c,
         UNCHANGED cart
  PROVE  /\ joins(c, "read") /\ DOMAIN call' = Calls
         /\ \A d \in Calls \ {c} : call'[d].heard => f[d].heard /\ d # reading
         /\ CallsAreTyped' /\ AloneIsCurrent' /\ OneReadIsHeard' /\ ReadIsCurrent'
<1>1. 0 \in 0..MaxQty /\ Quiet.good \in Goods \cup {Quiet.good}
  BY CartAssumption
<1>2. /\ unheard(f) \in [Calls -> CallRow]
      /\ \A d \in Calls : unheard(f)[d].heard <=> f[d].heard /\ d # reading
      /\ \A d \in Calls \ {c} : keepsTo(unheard(f), d)
  BY UnheardRows, CallFacts DEF keepsTo
<1>3. \A d \in Calls \ {c} : unheard(f)[d].heard => call[d].heard
  BY <1>2
<1>4. joins(c, "read") /\ \A d \in Calls \ {c} : call'[d].heard = unheard(f)[d].heard
  BY <1>1, <1>2, <1>3, WithJoins DEF lines
<1>5. \A d \in Calls \ {c} : call'[d].heard => f[d].heard /\ d # reading
  <2> SUFFICES ASSUME NEW d \in Calls \ {c} PROVE call'[d].heard => f[d].heard /\ d # reading
    OBVIOUS
  <2>1. call'[d].heard = unheard(f)[d].heard
    BY <1>4
  <2>2. unheard(f)[d].heard <=> f[d].heard /\ d # reading
    BY <1>2
  <2> QED
    BY <2>1, <2>2, Zenon
<1>6. CallsAreTyped' /\ AloneIsCurrent'
  BY <1>4, JoinStep
<1>7. OneReadIsHeard'
  <2> SUFFICES ASSUME NEW d \in Calls
               PROVE  call'[d].heard /\ call'[d].kind = "read" <=> d = c
    BY DEF OneReadIsHeard
  <2>1. CASE d = c
    BY <2>1, <1>4 DEF joins
  <2>2. CASE d # c
    <3>1. call'[d].kind = call[d].kind /\ (call'[d].heard => call[d].heard /\ d # reading)
      BY <2>2, <1>4, <1>5 DEF joins
    <3> QED
      BY <2>2, <3>1 DEF CartInv, OneReadIsHeard
  <2> QED
    BY <2>1, <2>2
<1>8. ReadIsCurrent'
  BY <1>4 DEF ReadIsCurrent, joins
<1>9. DOMAIN call' = Calls
  BY <1>4 DEF joins
<1> QED
  BY <1>4, <1>5, <1>6, <1>7, <1>8, <1>9

\* The answer of the read that the query awaits.
LEMMA ReadLandsStep ==
  ASSUME CartInv, NEW c \in Calls, ReadLands(c)
  PROVE  CartInv'
<1>1. /\ reading = c /\ call[c].phase = "answered" /\ shown' = call[c].copy
      /\ fresh' = TRUE /\ reading' = NoCall /\ call' = freed(c)
      /\ unsure' = (unsure /\ ~call[c].alone)
      /\ UNCHANGED <<cart, onSale, offer, clicks>>
  BY DEF ReadLands
<1>2. CallsAreTyped' /\ AloneIsCurrent' /\ DOMAIN call' = Calls
  BY <1>1, FreedIsSound
<1>3. /\ call'[c].kind = "none" /\ call'[c].phase = "idle" /\ ~call'[c].heard
      /\ \A d \in Calls \ {c} : call'[d] = call[d]
  BY <1>1, FreedRows
<1>4. call[c].copy \in Cart /\ call[c].heard /\ call[c].kind = "read"
  BY <1>1 DEF CartInv, CallsAreTyped, OneReadIsHeard
<1>5. unsure' \in BOOLEAN
  BY <1>1 DEF CartInv, CartTypeOK
<1>6. CartTypeOK'
  BY <1>1, <1>2, <1>4, <1>5 DEF CartInv, CartTypeOK
<1>7. OneReadIsHeard'
  BY <1>1, <1>3, CallFacts DEF CartInv, OneReadIsHeard
<1>8. LinesAreShown'
  BY <1>1, <1>4, CallFacts DEF LinesAreShown
<1>9. ~unsure' => ~unsure \/ call[c].alone
  BY <1>1 DEF CartInv, CartTypeOK
<1>10. DirectIsCurrent'
  <2> SUFFICES ASSUME ~unsure', NEW e \in Calls, call'[e].kind \in direct PROVE FALSE
    BY DEF DirectIsCurrent
  <2>1. e # c /\ call[e].kind \in direct
    BY <1>3 DEF direct
  <2>2. call[e].phase # "idle"
    BY <2>1, CallFacts DEF direct
  <2>3. CASE call[c].alone
    BY <2>1, <2>2, <2>3 DEF CartInv, AloneIsCurrent
  <2>4. CASE ~unsure
    BY <2>1, <2>4, <1>1 DEF CartInv, DirectIsCurrent
  <2> QED
    BY <1>9, <2>3, <2>4
<1>11. ReadIsCurrent'
  BY <1>1, CallFacts DEF ReadIsCurrent
<1>12. PageIsCurrent'
  <2> SUFFICES ASSUME ~unsure' PROVE shown' = cart \/ \E d \in Calls : outstanding(d)'
    BY <1>1 DEF PageIsCurrent
  <2>1. CASE call[c].alone
    BY <2>1, <1>1 DEF CartInv, AloneIsCurrent
  <2>2. CASE ~unsure
    <3>1. \/ call[c].copy = cart
          \/ \E d \in Calls : /\ call[d].heard /\ call[d].kind \in lines
                              /\ call[d].phase = "answered"
      BY <2>2, <1>1 DEF CartInv, ReadIsCurrent
    <3>2. ASSUME NEW d \in Calls, call[d].heard, call[d].kind \in lines
          PROVE  outstanding(d)'
      <4>1. d # c
        BY <3>2, <1>4 DEF lines
      <4> QED
        BY <3>2, <4>1, <1>3 DEF outstanding
    <3> QED
      BY <3>1, <3>2, <1>1
  <2> QED
    BY <1>9, <2>1, <2>2
<1> QED
  BY <1>2, <1>6, <1>7, <1>8, <1>10, <1>11, <1>12 DEF CartInv

\* The change of a line has ended: the page asks anew.
LEMMA LineSettlesStep ==
  ASSUME CartInv, NEW c \in Calls, LineSettles(c)
  PROVE  CartInv'
<1>1. /\ call[c].heard /\ call[c].kind \in lines /\ call[c].phase = "answered"
      /\ call' = with(unheard(freed(c)), c, request("read", Quiet.good, 0))
      /\ reading' = c /\ fresh' = FALSE
      /\ UNCHANGED <<cart, onSale, shown, clicks, unsure>>
  BY DEF LineSettles, invalidates, lines
<1>2. offer' \in [Goods -> 0..MaxQty]
  <2>1. call[c].good \in Goods /\ offer \in [Goods -> 0..MaxQty]
    BY <1>1 DEF CartInv, CallsAreTyped, CartTypeOK
  <2>2. inCart(call[c].good) => shown.qty[call[c].good] \in 0..MaxQty
    BY <2>1, CallFacts DEF inCart, Cart
  <2> QED
    BY <2>1, <2>2 DEF LineSettles
<1>3. /\ freed(c) \in [Calls -> CallRow]
      /\ \A d \in Calls \ {c} : keepsTo(freed(c), d) /\ (freed(c)[d].heard => call[d].heard)
  BY FreedRows DEF keepsTo
<1>4. /\ joins(c, "read") /\ DOMAIN call' = Calls
      /\ CallsAreTyped' /\ AloneIsCurrent' /\ OneReadIsHeard' /\ ReadIsCurrent'
  BY <1>1, <1>3, AskedAnew
<1>5. CartTypeOK'
  BY <1>1, <1>2, <1>4 DEF CartInv, CartTypeOK
<1>6. LinesAreShown'
  BY <1>1, <1>4 DEF CartInv, LinesAreShown, joins, lines
<1>7. DirectIsCurrent'
  <2> SUFFICES ASSUME ~unsure, NEW e \in Calls, call'[e].kind \in direct PROVE FALSE
    BY <1>1 DEF DirectIsCurrent
  <2>1. e # c /\ call[e].kind \in direct
    BY <1>4 DEF joins, direct
  <2> QED
    BY <2>1, <1>1 DEF CartInv, DirectIsCurrent
<1>8. PageIsCurrent'
  BY <1>1 DEF PageIsCurrent
<1> QED
  BY <1>4, <1>5, <1>6, <1>7, <1>8 DEF CartInv

\* A change whose answer is shown as it is.
LEMMA DirectSettlesStep ==
  ASSUME CartInv, NEW c \in Calls, DirectSettles(c)
  PROVE  CartInv'
<1>1. /\ call[c].heard /\ call[c].kind \in direct \ {"add"} /\ call[c].phase = "answered"
      /\ shown' = (IF call[c].ok THEN call[c].copy ELSE shown)
      /\ fresh' = (fresh \/ call[c].ok) /\ call' = freed(c)
      /\ UNCHANGED <<cart, onSale, reading, offer, clicks, unsure>>
  BY DEF DirectSettles, tells
<1>2. CallsAreTyped' /\ AloneIsCurrent' /\ DOMAIN call' = Calls
  BY <1>1, FreedIsSound
<1>3. /\ call'[c].kind = "none" /\ call'[c].phase = "idle" /\ ~call'[c].heard
      /\ \A d \in Calls \ {c} : call'[d] = call[d]
  BY <1>1, FreedRows
<1>4. call[c].copy \in Cart /\ call[c].ok \in BOOLEAN
  BY <1>1, CallFacts DEF CartInv, CallsAreTyped, CallRow
<1>5. CartTypeOK'
  <2>1. shown' \in Cart \cup {NotLoaded} /\ fresh' \in BOOLEAN
    BY <1>1, <1>4, CallFacts DEF CartInv, CartTypeOK
  <2> QED
    BY <1>1, <1>2, <2>1 DEF CartInv, CartTypeOK
<1>6. OneReadIsHeard'
  BY <1>1, <1>3 DEF CartInv, OneReadIsHeard, direct
<1>7. LinesAreShown'
  BY <1>1, <1>3, <1>4, CallFacts DEF CartInv, LinesAreShown
<1>8. ~unsure => \A e \in Calls \ {c} : call[e].phase = "idle" /\ call'[e] = call[e]
  BY <1>1, <1>3 DEF CartInv, DirectIsCurrent
<1>9. DirectIsCurrent'
  BY <1>1, <1>3, <1>8, CallFacts DEF DirectIsCurrent, direct
<1>10. ReadIsCurrent'
  BY <1>1, <1>3, <1>8 DEF ReadIsCurrent
<1>11. PageIsCurrent'
  <2> SUFFICES ASSUME fresh', ~unsure PROVE shown' = cart
    BY <1>1 DEF PageIsCurrent
  <2>1. CASE call[c].ok
    BY <2>1, <1>1 DEF CartInv, DirectIsCurrent
  <2>2. CASE ~call[c].ok
    <3>1. fresh /\ shown' = shown
      BY <2>2, <1>1 DEF CartInv, CartTypeOK
    <3>2. \A d \in Calls : ~outstanding(d)
      BY <2>2, <1>1, <1>8, CallFacts DEF outstanding, lines, direct
    <3> QED
      BY <3>1, <3>2 DEF CartInv, PageIsCurrent
  <2> QED
    BY <2>1, <2>2
<1> QED
  BY <1>2, <1>5, <1>6, <1>7, <1>9, <1>10, <1>11 DEF CartInv

\* Something was put into the cart: the answer is shown, and the page asks anew.
LEMMA AddSettlesStep ==
  ASSUME CartInv, NEW c \in Calls, AddSettles(c)
  PROVE  CartInv'
<1>1. /\ call[c].heard /\ call[c].kind = "add" /\ call[c].phase = "answered"
      /\ shown' = (IF call[c].ok THEN call[c].copy ELSE shown)
      /\ fresh' = FALSE
      /\ UNCHANGED <<cart, onSale, offer, clicks, unsure>>
  BY DEF AddSettles, tells
<1>2. call[c].copy \in Cart /\ reading # c
  BY <1>1 DEF CartInv, CallsAreTyped, OneReadIsHeard
<1>3. /\ freed(c) \in [Calls -> CallRow]
      /\ freed(c)[c].kind = "none" /\ freed(c)[c].phase = "idle" /\ ~freed(c)[c].heard
      /\ \A d \in Calls \ {c} : freed(c)[d] = call[d]
  BY FreedRows
<1>4. ~unsure => \A e \in Calls \ {c} : call[e].phase = "idle"
  BY <1>1 DEF CartInv, DirectIsCurrent, direct
<1>5. shown' \in Cart \cup {NotLoaded} /\ (shown' = NotLoaded => shown = NotLoaded)
  BY <1>1, <1>2, CallFacts
<1>6. PageIsCurrent'
  BY <1>1 DEF PageIsCurrent
<1>7. CASE shown' = NotLoaded /\ reading # NoCall
  <2>1. call' = freed(c) /\ reading' = reading
    BY <1>7 DEF AddSettles, invalidates
  <2>2. CallsAreTyped' /\ AloneIsCurrent' /\ DOMAIN call' = Calls
    BY <1>1, <2>1, FreedIsSound
  <2>3. CartTypeOK'
    BY <1>1, <1>5, <2>1, <2>2 DEF CartInv, CartTypeOK
  <2>4. OneReadIsHeard'
    BY <1>2, <1>3, <2>1 DEF CartInv, OneReadIsHeard
  <2>5. LinesAreShown'
    BY <1>3, <1>5, <1>7, <2>1 DEF CartInv, LinesAreShown
  <2>6. DirectIsCurrent'
    BY <1>1, <1>3, <1>4, <2>1, CallFacts DEF DirectIsCurrent, direct
  <2>7. ReadIsCurrent'
    BY <1>1, <1>2, <1>3, <1>4, <2>1 DEF ReadIsCurrent
  <2> QED
    BY <1>6, <2>2, <2>3, <2>4, <2>5, <2>6, <2>7 DEF CartInv
<1>8. CASE ~(shown' = NotLoaded /\ reading # NoCall)
  <2>1. call' = with(unheard(freed(c)), c, request("read", Quiet.good, 0)) /\ reading' = c
    BY <1>8 DEF AddSettles, invalidates
  <2>2. \A d \in Calls \ {c} : keepsTo(freed(c), d) /\ (freed(c)[d].heard => call[d].heard)
    BY <1>3 DEF keepsTo
  <2>3. /\ joins(c, "read") /\ DOMAIN call' = Calls
        /\ CallsAreTyped' /\ AloneIsCurrent' /\ OneReadIsHeard' /\ ReadIsCurrent'
    BY <1>1, <1>3, <2>1, <2>2, AskedAnew
  <2>4. CartTypeOK'
    BY <1>1, <1>5, <2>1, <2>3 DEF CartInv, CartTypeOK
  <2>5. LinesAreShown'
    BY <1>5, <2>3 DEF CartInv, LinesAreShown, joins, lines
  <2>6. DirectIsCurrent'
    BY <1>1, <1>4, <2>3, CallFacts DEF DirectIsCurrent, joins, direct
  <2> QED
    BY <1>6, <2>3, <2>4, <2>5, <2>6 DEF CartInv
<1> QED
  BY <1>7, <1>8

\* The page gives a read up.
LEMMA ReadIsGivenUp ==
  ASSUME CartInv, NEW c \in Calls, TimesOut(c), call[c].kind = "read"
  PROVE  CartInv'
<1>1. /\ call[c].heard /\ reading' = NoCall /\ call' = forsaken(c)
      /\ unsure' = (unsure \/ call[c].phase = "answered")
      /\ UNCHANGED <<cart, onSale, shown, fresh, offer, clicks>>
  BY DEF TimesOut, direct
<1>2. CallsAreTyped' /\ AloneIsCurrent' /\ DOMAIN call' = Calls
  BY <1>1, ForsakenIsSound
<1>3. /\ keepsTo(call', c) /\ ~call'[c].heard
      /\ \A d \in Calls \ {c} : call'[d] = call[d]
  BY <1>1, ForsakenRows
<1>4. reading = c
  BY <1>1 DEF CartInv, OneReadIsHeard
<1>5. ~unsure' => ~unsure /\ call[c].phase # "answered"
  BY <1>1 DEF CartInv, CartTypeOK
<1>6. CartTypeOK'
  <2>1. unsure' \in BOOLEAN
    BY <1>1 DEF CartInv, CartTypeOK
  <2> QED
    BY <1>1, <1>2, <2>1 DEF CartInv, CartTypeOK
<1>7. OneReadIsHeard'
  BY <1>1, <1>3, <1>4, CallFacts DEF CartInv, OneReadIsHeard
<1>8. LinesAreShown'
  BY <1>1, <1>3 DEF CartInv, LinesAreShown
<1>9. DirectIsCurrent'
  <2> SUFFICES ASSUME ~unsure', NEW e \in Calls, call'[e].kind \in direct PROVE FALSE
    BY DEF DirectIsCurrent
  <2>1. e # c /\ call[e].kind \in direct
    BY <1>3 DEF keepsTo, direct
  <2>2. call[c].phase = "idle"
    BY <1>5, <2>1 DEF CartInv, DirectIsCurrent
  <2> QED
    BY <1>1, <2>2, CallFacts
<1>10. ReadIsCurrent'
  BY <1>1, CallFacts DEF ReadIsCurrent
<1>11. PageIsCurrent'
  <2> SUFFICES ASSUME fresh, ~unsure', shown # cart PROVE \E d \in Calls : outstanding(d)'
    BY <1>1 DEF PageIsCurrent
  <2>1. PICK d \in Calls : outstanding(d)
    BY <1>5 DEF CartInv, PageIsCurrent
  <2>2. d # c
    BY <1>5, <2>1 DEF outstanding, lines, direct
  <2>3. outstanding(d)'
    BY <1>3, <2>1, <2>2 DEF outstanding
  <2> QED
    BY <2>3
<1> QED
  BY <1>2, <1>6, <1>7, <1>8, <1>9, <1>10, <1>11 DEF CartInv

\* The page gives up a change that it asks nothing after.
LEMMA DirectIsGivenUp ==
  ASSUME CartInv, NEW c \in Calls, TimesOut(c), call[c].kind \in direct \ {"add"}
  PROVE  CartInv'
<1>1. /\ call[c].heard /\ reading' = reading /\ call' = forsaken(c) /\ unsure' = TRUE
      /\ UNCHANGED <<cart, onSale, shown, fresh, offer, clicks>>
  BY DEF TimesOut, direct
<1>2. CallsAreTyped' /\ AloneIsCurrent' /\ DOMAIN call' = Calls
  BY <1>1, ForsakenIsSound
<1>3. /\ keepsTo(call', c) /\ ~call'[c].heard
      /\ \A d \in Calls \ {c} : call'[d] = call[d]
  BY <1>1, ForsakenRows
<1>4. CartTypeOK'
  BY <1>1, <1>2 DEF CartInv, CartTypeOK
<1>5. OneReadIsHeard'
  BY <1>1, <1>3 DEF CartInv, OneReadIsHeard, direct
<1>6. LinesAreShown'
  BY <1>1, <1>3 DEF CartInv, LinesAreShown
<1>7. DirectIsCurrent' /\ ReadIsCurrent' /\ PageIsCurrent'
  BY <1>1 DEF DirectIsCurrent, ReadIsCurrent, PageIsCurrent
<1> QED
  BY <1>2, <1>4, <1>5, <1>6, <1>7 DEF CartInv

\* The page gives up a change that it asks anew after.
LEMMA AskingIsGivenUp ==
  ASSUME CartInv, NEW c \in Calls, TimesOut(c), call[c].kind \in lines \cup {"add"}
  PROVE  CartInv'
<1>1. /\ call[c].heard /\ fresh' = FALSE
      /\ unsure' = (unsure \/ call[c].kind \in direct)
      /\ UNCHANGED <<cart, onSale, shown, offer, clicks>>
  BY DEF TimesOut, lines, direct
<1>2. PICK d \in Calls \ alive : invalidates(forsaken(c), d, shown # NotLoaded)
  BY DEF TimesOut, lines, direct
<1>3. /\ forsaken(c) \in [Calls -> CallRow] /\ keepsTo(forsaken(c), c)
      /\ ~forsaken(c)[c].heard
      /\ \A e \in Calls \ {c} : forsaken(c)[e] = call[e]
  BY ForsakenRows
<1>4. unsure' \in BOOLEAN /\ (~unsure' => ~unsure /\ call[c].kind \in lines)
  BY <1>1 DEF CartInv, CartTypeOK, direct
<1>5. ~unsure' => \A e \in Calls : call[e].kind \notin direct
  <2> SUFFICES ASSUME ~unsure', NEW e \in Calls, call[e].kind \in direct PROVE FALSE
    OBVIOUS
  <2>1. e # c
    BY <1>4 DEF lines, direct
  <2>2. call[c].phase = "idle"
    BY <1>4, <2>1 DEF CartInv, DirectIsCurrent
  <2> QED
    BY <1>1, <2>2, CallFacts
<1>6. PageIsCurrent'
  BY <1>1 DEF PageIsCurrent
<1>7. CASE shown = NotLoaded /\ reading # NoCall
  <2>1. call' = forsaken(c) /\ reading' = reading
    BY <1>2, <1>7 DEF invalidates
  <2>2. CallsAreTyped' /\ AloneIsCurrent' /\ DOMAIN call' = Calls
    BY <1>1, <2>1, ForsakenIsSound
  <2>3. unsure'
    BY <1>1, <1>4, <1>7 DEF CartInv, LinesAreShown
  <2>4. CartTypeOK'
    BY <1>1, <1>4, <2>1, <2>2 DEF CartInv, CartTypeOK
  <2>5. OneReadIsHeard'
    BY <1>3, <2>1 DEF CartInv, OneReadIsHeard, keepsTo, lines
  <2>6. LinesAreShown'
    BY <1>1, <1>3, <2>1 DEF CartInv, LinesAreShown
  <2>7. DirectIsCurrent' /\ ReadIsCurrent'
    BY <2>3 DEF DirectIsCurrent, ReadIsCurrent
  <2> QED
    BY <1>6, <2>2, <2>4, <2>5, <2>6, <2>7 DEF CartInv
<1>8. CASE ~(shown = NotLoaded /\ reading # NoCall)
  <2>1. call' = with(unheard(forsaken(c)), d, request("read", Quiet.good, 0))
        /\ reading' = d
    BY <1>2, <1>8 DEF invalidates
  <2>2. \A e \in Calls \ {d} :
          keepsTo(forsaken(c), e) /\ (forsaken(c)[e].heard => call[e].heard)
    BY <1>3 DEF keepsTo
  <2>3. /\ joins(d, "read") /\ DOMAIN call' = Calls
        /\ CallsAreTyped' /\ AloneIsCurrent' /\ OneReadIsHeard' /\ ReadIsCurrent'
    BY <1>1, <1>3, <2>1, <2>2, AskedAnew
  <2>4. CartTypeOK'
    BY <1>1, <1>4, <2>1, <2>3 DEF CartInv, CartTypeOK
  <2>5. LinesAreShown'
    BY <1>1, <2>3 DEF CartInv, LinesAreShown, joins, lines
  <2>6. DirectIsCurrent'
    BY <1>5, <2>3 DEF DirectIsCurrent, joins, direct
  <2> QED
    BY <1>6, <2>3, <2>4, <2>5, <2>6 DEF CartInv
<1> QED
  BY <1>7, <1>8

\* NET_TIMEOUT.
LEMMA TimesOutStep ==
  ASSUME CartInv, NEW c \in Calls, TimesOut(c)
  PROVE  CartInv'
<1>1. call[c].kind \in {"read"} \cup lines \cup direct
  <2>1. call[c] \in CallRow /\ call[c].kind # "none"
    BY CallFacts DEF TimesOut, CartInv, CallsAreTyped
  <2> QED
    BY <2>1 DEF CallRow
<1> QED
  BY <1>1, ReadIsGivenUp, DirectIsGivenUp, AskingIsGivenUp DEF direct

\* A call that nobody waits for ends.
LEMMA EndsStep ==
  ASSUME CartInv, NEW c \in Calls, Ends(c)
  PROVE  CartInv'
<1>1. /\ call[c].phase # "idle" /\ ~call[c].heard /\ call' = freed(c)
      /\ UNCHANGED <<cart, onSale, shown, fresh, reading, offer, clicks, unsure>>
  BY DEF Ends, alive
<1>2. CallsAreTyped' /\ AloneIsCurrent' /\ DOMAIN call' = Calls
  BY <1>1, FreedIsSound
<1>3. /\ call'[c].kind = "none" /\ call'[c].phase = "idle" /\ ~call'[c].heard
      /\ \A d \in Calls \ {c} : call'[d] = call[d]
  BY <1>1, FreedRows
<1>4. CartTypeOK'
  BY <1>1, <1>2 DEF CartInv, CartTypeOK
<1>5. OneReadIsHeard'
  BY <1>1, <1>3 DEF CartInv, OneReadIsHeard
<1>6. LinesAreShown'
  BY <1>1, <1>3 DEF CartInv, LinesAreShown
<1>7. DirectIsCurrent'
  BY <1>1, <1>3 DEF CartInv, DirectIsCurrent, direct
<1>8. ReadIsCurrent'
  BY <1>1, <1>3 DEF CartInv, ReadIsCurrent
<1>9. PageIsCurrent'
  BY <1>1, <1>3 DEF CartInv, PageIsCurrent, outstanding
<1> QED
  BY <1>2, <1>4, <1>5, <1>6, <1>7, <1>8, <1>9 DEF CartInv

\* Every step of the page, the workers and the panel.
LEMMA CartStep == CartInv /\ [CartNext]_cartVars => CartInv'
<1> SUFFICES ASSUME CartInv, [CartNext]_cartVars PROVE CartInv'
  OBVIOUS
<1>1. ASSUME NEW c \in Calls, NEW g \in Goods,
             (\E n \in 1..MaxQty : Update(c, g, n)) \/ RemoveItem(c, g) \/ Undo(c, g) \/ Add(c, g)
      PROVE  CartInv'
  <2>1. /\ MaxQty \in Nat \ {0} /\ offer \in [Goods -> 0..MaxQty]
        /\ offer[g] \in 0..MaxQty /\ g \in Goods \cup {Quiet.good}
        /\ 0 \in 0..MaxQty /\ 1 \in 0..MaxQty
    BY CartAssumption DEF CartInv, CartTypeOK
  <2>2. ASSUME NEW n \in 1..MaxQty, Update(c, g, n) PROVE CartInv'
    <3>1. /\ Sends(c, "update", g, n) /\ offer' = offer /\ shown # NotLoaded
          /\ n \in 0..MaxQty
      BY <2>1, <2>2 DEF Update, inCart
    <3> QED
      BY <2>1, <3>1, SendsStep DEF lines, direct
  <2>3. ASSUME RemoveItem(c, g) PROVE CartInv'
    <3>1. Sends(c, "remove", g, 0) /\ offer' = offer /\ shown # NotLoaded
      BY <2>3 DEF RemoveItem, inCart
    <3> QED
      BY <2>1, <3>1, SendsStep DEF lines, direct
  <2>4. ASSUME Undo(c, g) PROVE CartInv'
    <3>1. Sends(c, "undo", g, offer[g]) /\ offer' \in [Goods -> 0..MaxQty]
      BY <2>1, <2>4 DEF Undo
    <3> QED
      BY <2>1, <3>1, SendsStep DEF lines, direct
  <2>5. ASSUME Add(c, g) PROVE CartInv'
    <3>1. Sends(c, "add", g, 1) /\ offer' = offer
      BY <2>5 DEF Add
    <3> QED
      BY <2>1, <3>1, SendsStep DEF lines, direct
  <2> QED
    BY <1>1, <2>2, <2>3, <2>4, <2>5
<1>2. ASSUME NEW c \in Calls, ApplyCoupon(c) \/ RemoveCoupon(c) PROVE CartInv'
  <2>1. /\ offer' \in [Goods -> 0..MaxQty] /\ 0 \in 0..MaxQty
        /\ Sends(c, "coupon", Quiet.good, 0) \/ Sends(c, "uncoupon", Quiet.good, 0)
    BY <1>2, CartAssumption DEF ApplyCoupon, RemoveCoupon, CartInv, CartTypeOK
  <2> QED
    BY <2>1, SendsStep DEF lines, direct
<1>3. ASSUME NEW g \in Goods, Vanishes(g) PROVE CartInv'
  <2>1. /\ onSale' \subseteq Goods
        /\ UNCHANGED <<cart, shown, fresh, reading, offer, call, clicks, unsure>>
    BY <1>3 DEF Vanishes, CartInv, CartTypeOK
  <2> QED
    BY <2>1 DEF CartInv, CartTypeOK, CallsAreTyped, OneReadIsHeard, AloneIsCurrent,
       LinesAreShown, DirectIsCurrent, ReadIsCurrent, PageIsCurrent, outstanding
<1>4. CASE UNCHANGED cartVars
  BY <1>4 DEF cartVars, CartInv, CartTypeOK, CallsAreTyped, OneReadIsHeard,
     AloneIsCurrent, LinesAreShown, DirectIsCurrent, ReadIsCurrent, PageIsCurrent,
     outstanding
<1> QED
  BY <1>1, <1>2, <1>3, <1>4, LoadsStep, AnswersStep, MountsStep, ReadLandsStep,
     LineSettlesStep, DirectSettlesStep, AddSettlesStep, TimesOutStep, EndsStep
  DEF CartNext

\* However the requests overlap, and whatever workers and timeouts do to them, a
\* page that has heard of all it asked for shows the cart that will be ordered.
THEOREM PageStaysTrue == CartSpec => []PageShowsTheCart
<1>1. CartInv => PageShowsTheCart
  <2> SUFFICES ASSUME CartInv, alive = {}, fresh, ~unsure PROVE shown = cart
    BY DEF PageShowsTheCart
  <2>1. \A c \in Calls : ~call[c].heard
    BY CallFacts DEF alive
  <2> QED
    BY <2>1 DEF CartInv, PageIsCurrent, outstanding
<1> QED
  BY <1>1, InitCartInv, CartStep, PTL DEF CartSpec

\* The cart of the session and the one that is shown stay well typed.
THEOREM CartTypesHold == CartSpec => []CartTypeOK
<1>1. CartInv => CartTypeOK
  BY DEF CartInv
<1> QED
  BY <1>1, InitCartInv, CartStep, PTL DEF CartSpec

-----------------------------------------------------------------------------
\* ResultPage.

\* A quotient counts the multiples that fit.
LEMMA QuotientCounts ==
  ASSUME NEW x \in Nat, NEW m \in Nat \ {0}, NEW n \in Nat
  PROVE  /\ x \div m \in Nat
         /\ n <= x \div m <=> n * m <= x
<1> DEFINE q == x \div m
<1>1. q \in Nat /\ m * q <= x /\ x < m * (q + 1)
  OBVIOUS
<1> HIDE DEF q
<1>2. CASE n <= q
  <2>1. PICK d \in Nat : q = n + d
    BY <1>1, <1>2
  <2>2. m * q = n * m + d * m /\ d * m >= 0 /\ n * m \in Nat /\ d * m \in Nat
    BY <2>1
  <2> QED
    BY <1>1, <1>2, <2>2 DEF q
<1>3. CASE n > q
  <2>1. PICK d \in Nat : n = q + 1 + d
    BY <1>1, <1>3
  <2>2. n * m = m * (q + 1) + d * m /\ d * m >= 0 /\ d * m \in Nat /\ m * (q + 1) \in Nat
    BY <2>1, <1>1
  <2>3. n * m > x
    BY <1>1, <2>2
  <2> QED
    BY <1>1, <1>3, <2>3 DEF q
<1> QED
  BY <1>1, <1>2, <1>3

\* The deadlines are times, and the first is ahead of the start.
LEMMA DeadlineType ==
  ASSUME NEW n \in Nat
  PROVE  checkTimeMs(n) \in Nat /\ checkTimeMs(n) >= n
<1>1. CASE n <= POLL_CHECKS_FAST
  <2>1. n * POLL_MS_FAST \in Nat /\ n * POLL_MS_FAST >= n
    <3>1. PICK d \in Nat : POLL_MS_FAST = 1 + d
      BY ResultAssumption
    <3>2. n * POLL_MS_FAST = n + n * d /\ n * d \in Nat
      BY <3>1
    <3> QED
      BY <3>2
  <2> QED
    BY <1>1, <2>1 DEF checkTimeMs
<1>2. CASE n > POLL_CHECKS_FAST
  <2> DEFINE F == POLL_CHECKS_FAST
             r == n - F
  <2>1. r \in Nat /\ F \in Nat /\ n = F + r
    BY <1>2, ResultAssumption
  <2>2. F * POLL_MS_FAST \in Nat /\ F * POLL_MS_FAST >= F
    <3>1. PICK d \in Nat : POLL_MS_FAST = 1 + d
      BY ResultAssumption
    <3>2. F * POLL_MS_FAST = F + F * d /\ F * d \in Nat
      BY <2>1, <3>1
    <3> QED
      BY <2>1, <3>2
  <2>3. r * POLL_MS_SLOW \in Nat /\ r * POLL_MS_SLOW >= r
    <3>1. PICK d \in Nat : POLL_MS_SLOW = 1 + d
      BY ResultAssumption
    <3>2. r * POLL_MS_SLOW = r + r * d /\ r * d \in Nat
      BY <2>1, <3>1
    <3> QED
      BY <2>1, <3>2
  <2> QED
    BY <1>2, <2>1, <2>2, <2>3 DEF checkTimeMs
<1> QED
  BY <1>1, <1>2, ResultAssumption

\* checksDue counts the deadlines that have passed.
LEMMA DueCountsDeadlines ==
  ASSUME NEW x \in Nat
  PROVE  /\ checksDue(x) \in 0..POLL_CHECKS_TOTAL
         /\ \A n \in 0..POLL_CHECKS_TOTAL : n <= checksDue(x) <=> checkTimeMs(n) <= x
<1> DEFINE F == POLL_CHECKS_FAST
           T == POLL_CHECKS_TOTAL
           f == POLL_MS_FAST
           s == POLL_MS_SLOW
<1>1. F \in Nat /\ T \in Nat /\ F <= T /\ f \in Nat \ {0} /\ s \in Nat \ {0}
  BY ResultAssumption
<1>2. F * f \in Nat
  BY <1>1
<1>3. CASE x <= F * f
  <2>1. checksDue(x) = x \div f
    BY <1>3 DEF checksDue
  <2>2. x \div f \in Nat /\ \A n \in Nat : n <= x \div f <=> n * f <= x
    BY <1>1, QuotientCounts
  <2>3. x \div f <= F
    <3> SUFFICES ASSUME x \div f > F PROVE FALSE
      BY <1>1, <2>2
    <3>1. F + 1 <= x \div f
      BY <1>1, <2>2
    <3>2. (F + 1) * f <= x
      BY <1>1, <2>2, <3>1
    <3>3. (F + 1) * f = F * f + f
      BY <1>1
    <3> QED
      BY <1>1, <1>2, <1>3, <3>2, <3>3
  <2>4. ASSUME NEW n \in 0..T PROVE n <= checksDue(x) <=> checkTimeMs(n) <= x
    <3>1. CASE n <= F
      BY <1>1, <2>1, <2>2, <3>1 DEF checkTimeMs
    <3>2. CASE n > F
      <4>1. ~(n <= checksDue(x))
        BY <1>1, <2>1, <2>2, <2>3, <3>2
      <4>2. checkTimeMs(n) = F * f + (n - F) * s
        BY <1>1, <3>2 DEF checkTimeMs
      <4>3. (n - F) * s \in Nat /\ (n - F) * s >= 1
        <5>1. PICK d \in Nat : n - F = 1 + d
          BY <1>1, <3>2
        <5>2. (n - F) * s = s + d * s /\ d * s \in Nat
          BY <1>1, <5>1
        <5> QED
          BY <1>1, <5>2
      <4> QED
        BY <1>2, <1>3, <4>1, <4>2, <4>3
    <3> QED
      BY <1>1, <3>1, <3>2
  <2> QED
    BY <1>1, <2>1, <2>2, <2>3, <2>4
<1>4. CASE x > F * f
  <2> DEFINE y == x - F * f
             q == y \div s
  <2>1. y \in Nat
    BY <1>2, <1>4
  <2>2. q \in Nat /\ \A n \in Nat : n <= q <=> n * s <= y
    BY <1>1, <2>1, QuotientCounts
  <2>3. checksDue(x) = least(T, F + q)
    BY <1>2, <1>4 DEF checksDue
  <2> HIDE DEF q
  <2>4. ASSUME NEW n \in 0..T PROVE n <= checksDue(x) <=> checkTimeMs(n) <= x
    <3>1. n <= checksDue(x) <=> n <= F + q
      BY <1>1, <2>2, <2>3 DEF least
    <3>2. CASE n <= F
      <4>1. n * f <= F * f
        <5>1. PICK d \in Nat : F = n + d
          BY <1>1, <3>2
        <5>2. F * f = n * f + d * f /\ d * f \in Nat /\ n * f \in Nat
          BY <1>1, <5>1
        <5> QED
          BY <5>2
      <4>2. n * f \in Nat
        BY <1>1
      <4>3. checkTimeMs(n) = n * f
        BY <3>2 DEF checkTimeMs
      <4> QED
        BY <1>1, <1>2, <1>4, <2>2, <3>1, <3>2, <4>1, <4>2, <4>3
    <3>3. CASE n > F
      <4>1. n <= F + q <=> n - F <= q
        BY <1>1, <2>2
      <4>2. n - F <= q <=> (n - F) * s <= y
        <5>1. n - F \in Nat
          BY <1>1, <3>3
        <5> QED
          BY <2>2, <5>1
      <4>3. checkTimeMs(n) = F * f + (n - F) * s /\ (n - F) * s \in Nat
        BY <1>1, <3>3 DEF checkTimeMs
      <4> QED
        BY <1>2, <3>1, <4>1, <4>2, <4>3
    <3> QED
      BY <1>1, <3>2, <3>3
  <2>5. checksDue(x) \in 0..T
    BY <1>1, <2>2, <2>3 DEF least
  <2> QED
    BY <2>4, <2>5
<1> QED
  BY <1>2, <1>3, <1>4

\* More time, no fewer deadlines.
LEMMA DueGrows ==
  ASSUME NEW x \in Nat, NEW y \in Nat, x <= y
  PROVE  checksDue(x) <= checksDue(y)
<1>1. checksDue(x) \in 0..POLL_CHECKS_TOTAL /\ checksDue(y) \in 0..POLL_CHECKS_TOTAL
  BY DueCountsDeadlines
<1>2. checkTimeMs(checksDue(x)) <= x
  BY <1>1, DueCountsDeadlines, ResultAssumption
<1>3. checkTimeMs(checksDue(x)) \in Nat
  BY <1>1, DeadlineType
<1>4. checkTimeMs(checksDue(x)) <= y
  BY <1>2, <1>3
<1> QED
  BY <1>1, <1>4, DueCountsDeadlines

\* At the start nothing is due.
LEMMA NothingDueAtOnce == checksDue(0) = 0
<1>1. checksDue(0) \in 0..POLL_CHECKS_TOTAL
  BY DueCountsDeadlines
<1>2. checkTimeMs(checksDue(0)) <= 0
  BY <1>1, DueCountsDeadlines
<1>3. checkTimeMs(checksDue(0)) >= checksDue(0) /\ checkTimeMs(checksDue(0)) \in Nat
  BY <1>1, DeadlineType
<1> QED
  BY <1>1, <1>2, <1>3

\* The gaps between deadlines do not shrink: n + k of them take at least as long
\* as n and then k.
LEMMA DeadlinesSpread ==
  ASSUME NEW n \in Nat, NEW k \in Nat
  PROVE  checkTimeMs(n) + checkTimeMs(k) <= checkTimeMs(n + k)
<1> DEFINE F == POLL_CHECKS_FAST
           f == POLL_MS_FAST
           s == POLL_MS_SLOW
           over(i) == IF i <= F THEN 0 ELSE i - F
<1>1. F \in Nat /\ f \in Nat /\ s \in Nat
  BY ResultAssumption
<1>2. PICK d \in Nat : s = f + d
  BY ResultAssumption
<1>3. ASSUME NEW i \in Nat PROVE checkTimeMs(i) = i * f + over(i) * d /\ over(i) \in Nat
  <2>1. CASE i <= F
    BY <1>1, <1>2, <2>1 DEF checkTimeMs
  <2>2. CASE i > F
    <3>1. checkTimeMs(i) = F * f + (i - F) * s
      BY <1>1, <2>2 DEF checkTimeMs
    <3>2. PICK j \in Nat : i = F + j
      BY <1>1, <2>2
    <3>3. j * s = j * f + j * d /\ i * f = F * f + j * f
      BY <1>1, <1>2, <3>2
    <3>4. over(i) = j /\ i - F = j
      BY <1>1, <2>2, <3>2
    <3>5. F * f \in Nat /\ j * f \in Nat /\ j * d \in Nat
      BY <1>1, <1>2, <3>2
    <3> QED
      BY <3>1, <3>3, <3>4, <3>5
  <2> QED
    BY <1>1, <2>1, <2>2
<1>4. over(n) + over(k) <= over(n + k)
  BY <1>1
<1> HIDE DEF over
<1>5. PICK e \in Nat : over(n + k) = over(n) + over(k) + e
  <2>1. over(n) \in Nat /\ over(k) \in Nat /\ over(n + k) \in Nat
    BY <1>3
  <2>2. over(n + k) - (over(n) + over(k)) \in Nat
    BY <1>4, <2>1
  <2> QED
    BY <2>1, <2>2
<1>6. over(n + k) * d = over(n) * d + over(k) * d + e * d
  BY <1>2, <1>3, <1>5
<1>7. (n + k) * f = n * f + k * f
  BY <1>1
<1>8. /\ n * f \in Nat /\ k * f \in Nat /\ e * d \in Nat
      /\ over(n) * d \in Nat /\ over(k) * d \in Nat
  BY <1>1, <1>2, <1>3, <1>5
<1>9. /\ checkTimeMs(n) = n * f + over(n) * d
      /\ checkTimeMs(k) = k * f + over(k) * d
      /\ checkTimeMs(n + k) = (n + k) * f + over(n + k) * d
  BY <1>3
<1> QED
  BY <1>6, <1>7, <1>8, <1>9

\* A window that starts later, askew to the deadlines, sees at most one more of
\* them than one that starts with them.
LEMMA SkewCostsOne ==
  ASSUME NEW x \in Nat, NEW y \in Nat
  PROVE  checksDue(x + y) <= checksDue(x) + checksDue(y) + 1
<1> DEFINE T == POLL_CHECKS_TOTAL
           n == checksDue(x) + 1
           k == checksDue(y) + 1
<1>1. T \in Nat /\ checksDue(x) \in 0..T /\ checksDue(y) \in 0..T /\ checksDue(x + y) \in 0..T
  BY DueCountsDeadlines, ResultAssumption
<1>2. CASE n + k > T
  BY <1>1, <1>2
<1>3. CASE n + k <= T
  <2>1. n \in 0..T /\ k \in 0..T /\ n + k \in 0..T
    BY <1>1, <1>3
  <2>2. ~(checkTimeMs(n) <= x) /\ ~(checkTimeMs(k) <= y)
    <3>1. n <= checksDue(x) <=> checkTimeMs(n) <= x
      BY <2>1, DueCountsDeadlines
    <3>2. k <= checksDue(y) <=> checkTimeMs(k) <= y
      BY <2>1, DueCountsDeadlines
    <3> QED
      BY <1>1, <3>1, <3>2
  <2>3. /\ checkTimeMs(n) \in Nat /\ checkTimeMs(k) \in Nat /\ checkTimeMs(n + k) \in Nat
        /\ checkTimeMs(n) + checkTimeMs(k) <= checkTimeMs(n + k)
    BY <2>1, DeadlineType, DeadlinesSpread
  <2>4. ~(checkTimeMs(n + k) <= x + y)
    BY <2>2, <2>3
  <2>5. ~(n + k <= checksDue(x + y))
    <3>1. x + y \in Nat
      OBVIOUS
    <3> HIDE DEF n, k
    <3> QED
      BY <2>1, <2>4, <3>1, DueCountsDeadlines
  <2> QED
    BY <1>1, <2>5
<1> QED
  BY <1>1, <1>2, <1>3

\* A timer for the next deadline does not fire while no more than n are due.
LEMMA NextIsAhead ==
  ASSUME NEW n \in Nat, n + 1 <= POLL_CHECKS_TOTAL, NEW start \in Nat,
         dateNow \in Nat, start <= dateNow
  PROVE  /\ nextAt(n, start) \in Nat
         /\ nextAt(n, start) >= start
         /\ checksDue(nextAt(n, start) - start) >= n + 1
<1> DEFINE c == checkTimeMs(n + 1)
           t == nextAt(n, start)
<1>1. c \in Nat
  BY DeadlineType
<1>2. t \in Nat /\ t >= start /\ t - start \in Nat /\ c <= t - start
  BY <1>1 DEF nextAt, greatest
<1>3. n + 1 \in 0..POLL_CHECKS_TOTAL
  BY ResultAssumption
<1> HIDE DEF t
<1>4. n + 1 <= checksDue(t - start)
  BY <1>2, <1>3, DueCountsDeadlines
<1>5. checksDue(t - start) \in Nat
  BY <1>2, DueCountsDeadlines
<1> QED
  BY <1>2, <1>4, <1>5 DEF t

-----------------------------------------------------------------------------
\* How many members of P a sequence has.
countIn(s, P) == Cardinality({i \in 1..Len(s) : s[i] \in P})

one(b) == IF b THEN 1 ELSE 0

\* No more than the sequence is long.
LEMMA CountType ==
  ASSUME NEW s \in Seq(Nat), NEW P
  PROVE  countIn(s, P) \in Nat /\ countIn(s, P) <= Len(s) /\ Len(s) \in Nat
<1> DEFINE I == {i \in 1..Len(s) : s[i] \in P}
<1>1. IsFiniteSet(1..Len(s)) /\ Cardinality(1..Len(s)) = Len(s) /\ Len(s) \in Nat
  <2>1. PICK n \in Nat : n = Len(s)
    OBVIOUS
  <2>2. IsFiniteSet(1..n) /\ Cardinality(1..n) = IF 1 > n THEN 0 ELSE n - 1 + 1
    BY FS_Interval
  <2> QED
    BY <2>1, <2>2
<1>2. I \subseteq 1..Len(s)
  OBVIOUS
<1> HIDE DEF I
<1>3. IsFiniteSet(I) /\ Cardinality(I) <= Len(s)
  BY <1>1, <1>2, FS_Subset
<1>4. Cardinality(I) \in Nat
  BY <1>3, FS_CardinalityType
<1> QED
  BY <1>1, <1>3, <1>4 DEF I, countIn

\* They are at finitely many places.
LEMMA CountIsFinite ==
  ASSUME NEW s \in Seq(Nat), NEW P
  PROVE  IsFiniteSet({i \in 1..Len(s) : s[i] \in P})
<1>1. PICK n \in Nat : n = Len(s)
  OBVIOUS
<1>2. IsFiniteSet(1..n)
  BY FS_Interval
<1>3. {i \in 1..Len(s) : s[i] \in P} \subseteq 1..n
  BY <1>1
<1> QED
  BY <1>2, <1>3, FS_Subset

\* The empty sequence has none.
LEMMA CountOfNone == ASSUME NEW P PROVE countIn(<<>>, P) = 0
<1>1. {i \in 1..Len(<<>>) : <<>>[i] \in P} = {}
  OBVIOUS
<1> QED
  BY <1>1, FS_EmptySet DEF countIn

\* A member that is appended counts.
LEMMA CountAppend ==
  ASSUME NEW s \in Seq(Nat), NEW x \in Nat, NEW P
  PROVE  countIn(Append(s, x), P) = countIn(s, P) + one(x \in P)
<1> DEFINE n == Len(s)
           r == Append(s, x)
           I == {i \in 1..n : s[i] \in P}
           J == {i \in 1..Len(r) : r[i] \in P}
<1>1. n \in Nat /\ Len(r) = n + 1 /\ r[n + 1] = x /\ \A i \in 1..n : r[i] = s[i]
  BY AppendProperties
<1>2. IsFiniteSet(I)
  BY CountIsFinite
<1>3. CASE x \in P
  <2>1. J = I \cup {n + 1} /\ n + 1 \notin I
    BY <1>1, <1>3
  <2> HIDE DEF I, J
  <2>2. Cardinality(J) = Cardinality(I) + 1
    BY <1>2, <2>1, FS_AddElement
  <2> QED
    BY <1>3, <2>2 DEF one, countIn, I, J
<1>4. CASE x \notin P
  <2>1. J = I
    BY <1>1, <1>4
  <2>2. countIn(s, P) \in Nat /\ countIn(s, P) = Cardinality(I) /\ countIn(r, P) = Cardinality(J)
    BY CountType DEF countIn
  <2>3. countIn(r, P) = countIn(s, P) /\ one(x \in P) = 0
    BY <1>4, <2>1, <2>2 DEF one
  <2>4. countIn(s, P) + 0 = countIn(s, P)
    BY <2>2
  <2> QED
    BY <2>3, <2>4, Zenon
<1> QED
  BY <1>3, <1>4

\* RemoveAt takes one position out.
LEMMA RemoveAtIs ==
  ASSUME NEW s \in Seq(Nat), NEW j \in 1..Len(s)
  PROVE  /\ RemoveAt(s, j) \in Seq(Nat)
         /\ Len(RemoveAt(s, j)) = Len(s) - 1
         /\ \A i \in 1..(Len(s) - 1) :
              RemoveAt(s, j)[i] = IF i < j THEN s[i] ELSE s[i + 1]
<1> DEFINE n == Len(s)
           a == SubSeq(s, 1, j - 1)
           b == SubSeq(s, j + 1, n)
<1>1. n \in Nat /\ j \in 1..n
  OBVIOUS
<1>2. a \in Seq(Nat) /\ Len(a) = j - 1 /\ \A i \in 1..(j - 1) : a[i] = s[i]
  <2>1. \A i \in 1..(j - 1) : i \in 1..Len(s)
    BY <1>1
  <2> QED
    BY <1>1, <2>1, SubSeqProperties
<1>3. b \in Seq(Nat) /\ Len(b) = n - j /\ \A i \in 1..(n - j) : b[i] = s[i + j]
  <2>1. \A i \in (j + 1)..n : i \in 1..Len(s)
    BY <1>1
  <2> QED
    BY <1>1, <2>1, SubSeqProperties
<1>4. RemoveAt(s, j) = a \o b
  BY DEF RemoveAt
<1> HIDE DEF a, b
<1>5. /\ a \o b \in Seq(Nat)
      /\ Len(a \o b) = Len(a) + Len(b)
      /\ \A i \in 1..(Len(a) + Len(b)) :
           (a \o b)[i] = IF i <= Len(a) THEN a[i] ELSE b[i - Len(a)]
  BY <1>2, <1>3, ConcatProperties
<1>6. ASSUME NEW i \in 1..(n - 1)
      PROVE  (a \o b)[i] = IF i < j THEN s[i] ELSE s[i + 1]
  <2>1. CASE i < j
    <3>1. i \in 1..(Len(a) + Len(b)) /\ i <= Len(a) /\ i \in 1..(j - 1)
      BY <1>1, <1>2, <1>3, <2>1
    <3>2. (a \o b)[i] = a[i]
      BY <1>5, <3>1
    <3>3. a[i] = s[i]
      BY <1>2, <3>1
    <3> QED
      BY <2>1, <3>2, <3>3
  <2>2. CASE ~(i < j)
    <3>1. i - (j - 1) \in 1..(n - j) /\ i - (j - 1) + j = i + 1
      BY <1>1, <2>2
    <3>2. (a \o b)[i] = b[i - (j - 1)]
      <4>1. i \in 1..(Len(a) + Len(b)) /\ ~(i <= Len(a))
        BY <1>1, <1>2, <1>3, <2>2
      <4>2. (a \o b)[i] = b[i - Len(a)]
        BY <1>5, <4>1
      <4> QED
        BY <1>2, <4>2
    <3>3. b[i - (j - 1)] = s[i - (j - 1) + j]
      BY <1>3, <3>1
    <3> QED
      BY <2>2, <3>1, <3>2, <3>3
  <2> QED
    BY <2>1, <2>2
<1>7. Len(a \o b) = n - 1
  BY <1>1, <1>2, <1>3, <1>5
<1> HIDE DEF n
<1> QED
  BY <1>4, <1>5, <1>6, <1>7 DEF n

\* What is taken out no longer counts, and everything else does.
LEMMA CountRemove ==
  ASSUME NEW s \in Seq(Nat), NEW j \in 1..Len(s), NEW P
  PROVE  countIn(RemoveAt(s, j), P) = countIn(s, P) - one(s[j] \in P)
<1> DEFINE n == Len(s)
           r == RemoveAt(s, j)
           I == {i \in 1..n : s[i] \in P}
           J == {i \in 1..Len(r) : r[i] \in P}
           f == [i \in J |-> IF i < j THEN i ELSE i + 1]
<1>1. n \in Nat /\ j \in 1..n
  OBVIOUS
<1>2. /\ r \in Seq(Nat) /\ Len(r) = n - 1
      /\ \A i \in 1..(n - 1) : r[i] = IF i < j THEN s[i] ELSE s[i + 1]
  BY RemoveAtIs
<1> HIDE DEF r
<1>3. IsFiniteSet(I) /\ IsFiniteSet(J) /\ countIn(s, P) \in Nat
  <2>1. countIn(s, P) \in Nat
    BY CountType
  <2>2. IsFiniteSet(I)
    BY CountIsFinite
  <2>3. IsFiniteSet(J)
    BY <1>2, CountIsFinite
  <2> QED
    BY <2>1, <2>2, <2>3
<1>4. f \in Bijection(J, I \ {j})
  <2>1. ASSUME NEW i \in J PROVE f[i] \in I \ {j}
    <3>1. i \in 1..(n - 1) /\ r[i] \in P
      BY <1>2
    <3>2. CASE i < j
      <4>1. f[i] = i /\ s[i] \in P
        BY <1>2, <3>1, <3>2
      <4>2. i \in 1..n /\ i # j
        BY <1>1, <3>1, <3>2
      <4> QED
        BY <4>1, <4>2
    <3>3. CASE ~(i < j)
      <4>1. f[i] = i + 1 /\ s[i + 1] \in P
        BY <1>2, <3>1, <3>3
      <4>2. i + 1 \in 1..n /\ i + 1 # j
        BY <1>1, <3>1, <3>3
      <4> QED
        BY <4>1, <4>2
    <3> QED
      BY <3>2, <3>3
  <2>2. ASSUME NEW i \in J, NEW k \in J, f[i] = f[k] PROVE i = k
    <3>1. i \in Int /\ k \in Int /\ j \in Int
      BY <1>1, <1>2
    <3>2. f[i] = IF i < j THEN i ELSE i + 1
      OBVIOUS
    <3>3. f[k] = IF k < j THEN k ELSE k + 1
      OBVIOUS
    <3>4. \A x, y, z \in Int :
            (IF x < z THEN x ELSE x + 1) = (IF y < z THEN y ELSE y + 1) => x = y
      OBVIOUS
    <3> HIDE DEF f, J
    <3> QED
      BY <2>2, <3>1, <3>2, <3>3, <3>4
  <2>3. ASSUME NEW k \in I \ {j} PROVE \E i \in J : f[i] = k
    <3>1. CASE k < j
      <4>1. k \in J /\ f[k] = k
        BY <1>1, <1>2, <3>1
      <4> QED
        BY <4>1
    <3>2. CASE k > j
      <4>1. k \in 1..n /\ s[k] \in P /\ k - 1 \in 1..(n - 1) /\ ~(k - 1 < j) /\ k - 1 + 1 = k
        BY <1>1, <3>2
      <4>2. r[k - 1] = s[k]
        BY <1>2, <4>1
      <4>3. k - 1 \in J
        BY <1>2, <4>1, <4>2
      <4>4. f[k - 1] = k
        BY <4>1, <4>3
      <4> QED
        BY <4>3, <4>4
    <3>3. k < j \/ k > j
      <4>1. k \in Int /\ j \in Int /\ k # j
        BY <1>1
      <4> HIDE DEF I
      <4> QED
        BY <4>1
    <3> QED
      BY <3>1, <3>2, <3>3
  <2>4. f \in [J -> I \ {j}]
    BY <2>1
  <2> HIDE DEF f, I, J
  <2> QED
    BY <2>2, <2>3, <2>4 DEF Bijection, Injection, Surjection, IsInjective
<1> HIDE DEF f, I, J
<1>5. Cardinality(J) = Cardinality(I \ {j})
  <2>1. IsFiniteSet(I \ {j}) /\ ExistsBijection(J, I \ {j})
    BY <1>3, <1>4, FS_Subset DEF ExistsBijection
  <2> QED
    BY <1>3, <2>1, FS_Bijection, FS_SameCardinalityBij
<1>6. countIn(r, P) = Cardinality(J) /\ countIn(s, P) = Cardinality(I)
  BY DEF countIn, I, J
<1>7. CASE s[j] \in P
  <2>1. j \in I
    BY <1>7 DEF I
  <2>2. Cardinality(I \ {j}) = Cardinality(I) - 1
    BY <1>3, <2>1, FS_RemoveElement
  <2> QED
    BY <1>5, <1>6, <1>7, <2>2 DEF one, r
<1>8. CASE s[j] \notin P
  <2>1. I \ {j} = I
    BY <1>8 DEF I
  <2>2. countIn(r, P) = countIn(s, P) /\ one(s[j] \in P) = 0
    BY <1>5, <1>6, <1>8, <2>1 DEF one
  <2> QED
    BY <1>3, <2>2 DEF r
<1> QED
  BY <1>7, <1>8

-----------------------------------------------------------------------------
\* The loop's timers.  Those that are left are `rest' and the one in `t'.

timersOf(rest, t) == Len(rest) + one(t # Unset)

\* The times at which no more than n deadlines of a start have passed.
early(start, n) == {x \in Nat : checksDue(x - start) <= n}

\* The timers that may fire while no more than n deadlines have passed.
firing(rest, t, start, n) == countIn(rest, early(start, n)) + one(t \in early(start, n))

\* Of k timers, g[n] may fire while no more than n deadlines have passed.  Of a
\* loop whose start has d deadlines behind it, c are the checks, q the questions,
\* of which o are too many for the window, and r the returns; l is 1 while it
\* waits for an answer.  It has no more timers than returns can have made, and
\* every timer that is not ahead of the checks finds room.
OnSchedule(k, g, l, c, q, r, d, o) ==
  /\ k + l <= r + 1
  /\ q + k + l + o <= c + r + 1
  /\ \A n \in 0..POLL_CHECKS_TOTAL : d <= n /\ n <= c =>
       /\ c + g[n] <= n + 2 * r
       /\ q + g[n] + o <= n + r

\* The same with room for one more check, which is under way.
HasRoom(k, g, l, c, q, r, d, o) ==
  /\ k + l <= r
  /\ q + k + l + o <= c + r
  /\ \A n \in 0..POLL_CHECKS_TOTAL : d <= n /\ n <= c =>
       /\ c + g[n] + 1 <= n + 2 * r
       /\ q + g[n] + 1 + o <= n + r

\* No more timers fire than there are.
LEMMA FiringType ==
  ASSUME NEW rest \in Seq(Nat), NEW t \in Nat \cup {Unset}, NEW start, NEW n
  PROVE  /\ firing(rest, t, start, n) \in Nat /\ timersOf(rest, t) \in Nat
         /\ firing(rest, t, start, n) <= timersOf(rest, t)
<1>1. /\ countIn(rest, early(start, n)) \in Nat
      /\ countIn(rest, early(start, n)) <= Len(rest)
      /\ Len(rest) \in Nat
  BY CountType
<1>2. /\ one(t \in early(start, n)) \in {0, 1} /\ one(t # Unset) \in {0, 1}
      /\ t \in early(start, n) => t # Unset
  BY ResultAssumption DEF one, early
<1>3. one(t \in early(start, n)) <= one(t # Unset)
  <2>1. CASE t \in early(start, n)
    <3>1. one(t # Unset) = 1 /\ one(t \in early(start, n)) = 1
      BY <1>2, <2>1, Zenon DEF one
    <3> QED
      BY <3>1
  <2>2. CASE t \notin early(start, n)
    <3>1. one(t \in early(start, n)) = 0
      BY <2>2, Zenon DEF one
    <3> QED
      BY <1>2, <3>1
  <2> QED
    BY <2>1, <2>2
<1> DEFINE a == countIn(rest, early(start, n))
           b == one(t \in early(start, n))
           e == one(t # Unset)
<1>4. a \in Nat /\ b \in Nat /\ e \in Nat /\ Len(rest) \in Nat /\ a <= Len(rest) /\ b <= e
  BY <1>1, <1>2, <1>3
<1> HIDE DEF a, b, e
<1>5. a + b \in Nat /\ Len(rest) + e \in Nat /\ a + b <= Len(rest) + e
  BY <1>4
<1> QED
  BY <1>5 DEF a, b, e, firing, timersOf

\* Without the timer in t.
LEMMA FiringWithout ==
  ASSUME NEW rest \in Seq(Nat), NEW start, NEW n
  PROVE  /\ firing(rest, Unset, start, n) = countIn(rest, early(start, n))
         /\ timersOf(rest, Unset) = Len(rest)
         /\ countIn(rest, early(start, n)) \in Nat /\ Len(rest) \in Nat
<1>1. one(Unset \in early(start, n)) = 0 /\ one(Unset # Unset) = 0
  BY ResultAssumption, Zenon DEF one, early
<1>2. countIn(rest, early(start, n)) \in Nat /\ Len(rest) \in Nat
  BY CountType
<1>3. /\ firing(rest, Unset, start, n) = countIn(rest, early(start, n)) + 0
      /\ timersOf(rest, Unset) = Len(rest) + 0
  BY <1>1, Zenon DEF firing, timersOf
<1> QED
  BY <1>2, <1>3

\* With a timer in t.
LEMMA FiringWith ==
  ASSUME NEW rest \in Seq(Nat), NEW t \in Nat, NEW start, NEW n
  PROVE  /\ t \in early(start, n) =>
              firing(rest, t, start, n) = firing(rest, Unset, start, n) + 1
         /\ t \notin early(start, n) =>
              firing(rest, t, start, n) = firing(rest, Unset, start, n)
         /\ timersOf(rest, t) = timersOf(rest, Unset) + 1
<1>1. /\ t \in early(start, n) => one(t \in early(start, n)) = 1
      /\ t \notin early(start, n) => one(t \in early(start, n)) = 0
      /\ one(t # Unset) = 1
  BY ResultAssumption, Zenon DEF one
<1>2. /\ firing(rest, t, start, n) = countIn(rest, early(start, n)) + one(t \in early(start, n))
      /\ timersOf(rest, t) = Len(rest) + one(t # Unset)
  BY DEF firing, timersOf
<1>3. /\ firing(rest, Unset, start, n) = countIn(rest, early(start, n))
      /\ timersOf(rest, Unset) = Len(rest)
      /\ countIn(rest, early(start, n)) \in Nat /\ Len(rest) \in Nat
  BY FiringWithout
<1> DEFINE a == countIn(rest, early(start, n))
<1> HIDE DEF a
<1>4. t \in early(start, n) => firing(rest, t, start, n) = firing(rest, Unset, start, n) + 1
  BY <1>1, <1>2, <1>3, Zenon
<1>5. t \notin early(start, n) => firing(rest, t, start, n) = firing(rest, Unset, start, n)
  <2> SUFFICES ASSUME t \notin early(start, n)
               PROVE  firing(rest, t, start, n) = firing(rest, Unset, start, n)
    OBVIOUS
  <2>1. one(t \in early(start, n)) = 0
    BY <1>1
  <2>2. firing(rest, t, start, n) = countIn(rest, early(start, n)) + 0
    BY <1>2, <2>1
  <2> QED
    BY <1>3, <2>2
<1>6. timersOf(rest, t) = timersOf(rest, Unset) + 1
  BY <1>1, <1>2, <1>3, Zenon
<1> QED
  BY <1>4, <1>5, <1>6

\* A timer that is due is one of those that may fire.
LEMMA DueIsEarly ==
  ASSUME NEW t \in Nat, NEW start \in Nat, NEW n \in Nat, dateNow \in Nat,
         start <= t, t <= dateNow, checksDue(dateNow - start) <= n
  PROVE  t \in early(start, n)
<1>1. t - start \in Nat /\ dateNow - start \in Nat /\ t - start <= dateNow - start
  OBVIOUS
<1>2. checksDue(t - start) <= checksDue(dateNow - start)
  BY <1>1, DueGrows
<1>3. checksDue(t - start) \in Nat /\ checksDue(dateNow - start) \in Nat
  BY <1>1, DueCountsDeadlines
<1> QED
  BY <1>2, <1>3 DEF early

\* A timer that is lost sight of is still there.
LEMMA FiringAppend ==
  ASSUME NEW rest \in Seq(Nat), NEW t \in Nat, NEW start, NEW n
  PROVE  /\ Append(rest, t) \in Seq(Nat)
         /\ firing(Append(rest, t), Unset, start, n) = firing(rest, t, start, n)
         /\ timersOf(Append(rest, t), Unset) = timersOf(rest, t)
<1>1. Append(rest, t) \in Seq(Nat) /\ Len(Append(rest, t)) = Len(rest) + 1
  BY AppendProperties
<1>2. countIn(Append(rest, t), early(start, n))
        = countIn(rest, early(start, n)) + one(t \in early(start, n))
  BY CountAppend
<1>3. firing(Append(rest, t), Unset, start, n) = countIn(Append(rest, t), early(start, n))
  BY <1>1, FiringWithout
<1>4. firing(Append(rest, t), Unset, start, n) = firing(rest, t, start, n)
  BY <1>2, <1>3 DEF firing
<1>5. timersOf(Append(rest, t), Unset) = Len(rest) + 1
  BY <1>1, FiringWithout
<1>6. timersOf(rest, t) = Len(rest) + 1
  BY FiringWith, FiringWithout
<1> QED
  BY <1>1, <1>4, <1>5, <1>6

-----------------------------------------------------------------------------
\* What a step does to the numbers.

\* A timer that fires leaves room for its check.
LEMMA FiredLeavesRoom ==
  ASSUME NEW k \in Nat, NEW g \in [0..POLL_CHECKS_TOTAL -> Nat],
         NEW h \in [0..POLL_CHECKS_TOTAL -> Nat], NEW l \in 0..1, NEW c \in 0..POLL_CHECKS_TOTAL,
         NEW q \in Int, NEW r \in Nat, NEW d \in 0..POLL_CHECKS_TOTAL, NEW o \in Nat,
         OnSchedule(k + 1, g, l, c, q, r, d, o),
         \A n \in 0..POLL_CHECKS_TOTAL : d <= n => g[n] = h[n] + 1
  PROVE  HasRoom(k, h, l, c, q, r, d, o)
  BY ResultAssumption DEF OnSchedule, HasRoom

\* A return to the tab makes room, and the timer it clears is gone.
LEMMA ReturnMakesRoom ==
  ASSUME NEW k \in Nat, NEW j \in Nat, NEW g \in [0..POLL_CHECKS_TOTAL -> Nat],
         NEW h \in [0..POLL_CHECKS_TOTAL -> Nat], NEW l \in 0..1, NEW c \in 0..POLL_CHECKS_TOTAL,
         NEW q \in Int, NEW r \in Nat, NEW d \in 0..POLL_CHECKS_TOTAL, NEW o \in Nat,
         OnSchedule(k, g, l, c, q, r, d, o), j <= k,
         \A n \in 0..POLL_CHECKS_TOTAL : h[n] <= g[n]
  PROVE  HasRoom(j, h, l, c, q, r + 1, d, o)
<1>1. k + l <= r + 1 /\ q + k + l + o <= c + r + 1
  BY DEF OnSchedule
<1>2. j + l <= r + 1 /\ q + j + l + o <= c + (r + 1)
  BY <1>1
<1>3. ASSUME NEW n \in 0..POLL_CHECKS_TOTAL, d <= n, n <= c
      PROVE  c + h[n] + 1 <= n + 2 * (r + 1) /\ q + h[n] + 1 + o <= n + (r + 1)
  <2> DEFINE x == g[n]
             y == h[n]
  <2>1. c + x <= n + 2 * r /\ q + x + o <= n + r
    BY <1>3 DEF OnSchedule
  <2>2. y <= x /\ y \in Nat /\ x \in Nat /\ n \in Nat
    OBVIOUS
  <2> HIDE DEF x, y
  <2>3. c + y + 1 <= n + 2 * (r + 1)
    BY <2>1, <2>2
  <2>4. q + y + 1 + o <= n + (r + 1)
    BY <2>1, <2>2
  <2> QED
    BY <2>3, <2>4 DEF y
<1> QED
  BY <1>2, <1>3 DEF HasRoom

\* Room that is not used: the timer of a hidden tab is spent.
LEMMA UnusedRoom ==
  ASSUME NEW k \in Nat, NEW g \in [0..POLL_CHECKS_TOTAL -> Nat], NEW l \in 0..1, NEW c \in 0..POLL_CHECKS_TOTAL,
         NEW q \in Int, NEW r \in Nat, NEW d \in 0..POLL_CHECKS_TOTAL, NEW o \in Nat,
         HasRoom(k, g, l, c, q, r, d, o)
  PROVE  OnSchedule(k, g, l, c, q, r, d, o)
<1>1. k + l <= r /\ q + k + l + o <= c + r
  BY DEF HasRoom
<1>2. k + l <= r + 1 /\ q + k + l + o <= c + r + 1
  BY <1>1
<1>3. ASSUME NEW n \in 0..POLL_CHECKS_TOTAL, d <= n, n <= c
      PROVE  c + g[n] <= n + 2 * r /\ q + g[n] + o <= n + r
  <2> DEFINE x == g[n]
  <2>1. c + x + 1 <= n + 2 * r /\ q + x + 1 + o <= n + r
    BY <1>3 DEF HasRoom
  <2>2. x \in Nat /\ n \in Nat
    OBVIOUS
  <2> HIDE DEF x
  <2>3. c + x <= n + 2 * r
    BY <2>1, <2>2
  <2>4. q + x + o <= n + r
    BY <2>1, <2>2
  <2> QED
    BY <2>3, <2>4 DEF x
<1> QED
  BY <1>2, <1>3 DEF OnSchedule

\* What the loop's next check is.
LEMMA NextCheck ==
  ASSUME NEW c \in Nat, NEW d \in Nat
  PROVE  /\ greatest(c, d - 1) + 1 \in Nat
         /\ greatest(c, d - 1) + 1 >= c + 1 /\ greatest(c, d - 1) + 1 >= d
         /\ d <= c => greatest(c, d - 1) + 1 = c + 1
         /\ d > c => greatest(c, d - 1) + 1 = d
  BY DEF greatest

\* A question is asked: the loop catches up with the deadlines, or makes one
\* more check than it had made.
LEMMA QuestionTakesRoom ==
  ASSUME NEW k \in Nat, NEW g \in [0..POLL_CHECKS_TOTAL -> Nat], NEW c \in 0..POLL_CHECKS_TOTAL,
         NEW q \in Int, NEW r \in Nat, NEW d \in 0..POLL_CHECKS_TOTAL, NEW o \in Nat,
         HasRoom(k, g, 0, c, q, r, d, o),
         \A n \in 0..POLL_CHECKS_TOTAL : g[n] <= k
  PROVE  OnSchedule(k, g, 1, greatest(c, d - 1) + 1, q + 1, r, d, o)
<1> DEFINE e == greatest(c, d - 1) + 1
<1>1. e \in Nat /\ e >= c + 1 /\ e >= d /\ (d <= c => e = c + 1) /\ (d > c => e = d)
  BY NextCheck
<1> HIDE DEF e
<1>2. k + 1 <= r + 1 /\ (q + 1) + k + 1 + o <= e + r + 1
  BY <1>1 DEF HasRoom
<1>3. ASSUME NEW n \in 0..POLL_CHECKS_TOTAL, d <= n, n <= e
      PROVE  e + g[n] <= n + 2 * r /\ (q + 1) + g[n] + o <= n + r
  <2> DEFINE x == g[n]
  <2>1. x \in Nat /\ x <= k /\ n \in Nat
    OBVIOUS
  <2>2. k <= r /\ q + k + o <= c + r
    BY DEF HasRoom
  <2>3. n <= c => c + x + 1 <= n + 2 * r /\ q + x + 1 + o <= n + r
    BY <1>3 DEF HasRoom
  <2> HIDE DEF x
  <2>4. CASE n <= c
    <3>1. c + x + 1 <= n + 2 * r /\ q + x + 1 + o <= n + r /\ e = c + 1
      BY <1>1, <1>3, <2>3, <2>4
    <3>2. e + x <= n + 2 * r
      BY <2>1, <3>1
    <3>3. (q + 1) + x + o <= n + r
      BY <2>1, <3>1
    <3> QED
      BY <3>2, <3>3 DEF x
  <2>5. CASE n > c
    <3>1. n = e
      BY <1>1, <1>3, <2>5
    <3>2. x <= r /\ q + x + o <= c + r
      BY <2>1, <2>2
    <3>3. e + x <= n + 2 * r
      BY <2>1, <3>1, <3>2
    <3>4. (q + 1) + x + o <= n + r
      BY <1>1, <2>1, <3>1, <3>2
    <3> QED
      BY <3>3, <3>4 DEF x
  <2>6. n <= c \/ n > c
    BY <2>1
  <2> QED
    BY <2>4, <2>5, <2>6
<1>4. OnSchedule(k, g, 1, e, q + 1, r, d, o)
  BY <1>2, <1>3 DEF OnSchedule
<1> QED
  BY <1>4 DEF e

\* A question that is swallowed: the check counts, and its timer is ahead.
LEMMA SwallowTakesRoom ==
  ASSUME NEW k \in Nat, NEW g \in [0..POLL_CHECKS_TOTAL -> Nat],
         NEW h \in [0..POLL_CHECKS_TOTAL -> Nat], NEW l \in 0..1, NEW c \in 0..POLL_CHECKS_TOTAL,
         NEW q \in Int, NEW r \in Nat, NEW d \in 0..POLL_CHECKS_TOTAL, NEW o \in Nat,
         HasRoom(k, g, l, c, q, r, d, o),
         \A n \in 0..POLL_CHECKS_TOTAL : g[n] <= k,
         \A n \in 0..POLL_CHECKS_TOTAL : n <= greatest(c, d - 1) + 1 => h[n] = g[n]
  PROVE  OnSchedule(k + 1, h, l, greatest(c, d - 1) + 1, q, r, d, o)
<1> DEFINE e == greatest(c, d - 1) + 1
<1>1. e \in Nat /\ e >= c + 1 /\ e >= d /\ (d <= c => e = c + 1) /\ (d > c => e = d)
  BY NextCheck
<1>2. \A n \in 0..POLL_CHECKS_TOTAL : n <= e => h[n] = g[n]
  OBVIOUS
<1> HIDE DEF e
<1>3. (k + 1) + l <= r + 1 /\ q + (k + 1) + l + o <= e + r + 1
  BY <1>1 DEF HasRoom
<1>4. ASSUME NEW n \in 0..POLL_CHECKS_TOTAL, d <= n, n <= e
      PROVE  e + h[n] <= n + 2 * r /\ q + h[n] + o <= n + r
  <2> DEFINE x == h[n]
  <2>0. x = g[n]
    BY <1>2, <1>4
  <2>1. x \in Nat /\ x <= k /\ n \in Nat
    BY <2>0
  <2>2. k + l <= r /\ q + k + l + o <= c + r
    BY DEF HasRoom
  <2>3. n <= c => c + x + 1 <= n + 2 * r /\ q + x + 1 + o <= n + r
    BY <1>4, <2>0 DEF HasRoom
  <2> HIDE DEF x
  <2>4. CASE n <= c
    <3>1. c + x + 1 <= n + 2 * r /\ q + x + 1 + o <= n + r /\ e = c + 1
      BY <1>1, <1>4, <2>3, <2>4
    <3>2. e + x <= n + 2 * r
      BY <2>1, <3>1
    <3>3. q + x + o <= n + r
      BY <2>1, <3>1
    <3> QED
      BY <3>2, <3>3 DEF x
  <2>5. CASE n > c
    <3>1. n = e
      BY <1>1, <1>4, <2>5
    <3>2. x <= r /\ q + x + o <= c + r
      BY <2>1, <2>2
    <3>3. e + x <= n + 2 * r
      BY <2>1, <3>1, <3>2
    <3>4. q + x + o <= n + r
      BY <1>1, <2>1, <3>1, <3>2
    <3> QED
      BY <3>3, <3>4 DEF x
  <2>6. n <= c \/ n > c
    BY <2>1
  <2> QED
    BY <2>4, <2>5, <2>6
<1>5. OnSchedule(k + 1, h, l, e, q, r, d, o)
  BY <1>3, <1>4 DEF OnSchedule
<1> QED
  BY <1>5 DEF e

\* The answer comes: the loop sets the timer of its next check.
LEMMA AnswerOnSchedule ==
  ASSUME NEW k \in Nat, NEW g \in [0..POLL_CHECKS_TOTAL -> Nat],
         NEW h \in [0..POLL_CHECKS_TOTAL -> Nat], NEW l \in 0..1, NEW c \in 0..POLL_CHECKS_TOTAL,
         NEW q \in Int, NEW r \in Nat, NEW d \in 0..POLL_CHECKS_TOTAL, NEW o \in Nat,
         OnSchedule(k, g, 1, c, q, r, d, o),
         \A n \in 0..POLL_CHECKS_TOTAL : n <= c => h[n] = g[n]
  PROVE  OnSchedule(k + 1, h, 0, c, q, r, d, o)
  BY ResultAssumption DEF OnSchedule

\* The loop gives up no earlier than its deadlines, but for the returns.
LEMMA GivesUpLate ==
  ASSUME NEW k \in Nat, NEW g \in [0..POLL_CHECKS_TOTAL -> Nat], NEW l \in 0..1, NEW c \in 0..POLL_CHECKS_TOTAL,
         NEW q \in Int, NEW r \in Nat, NEW d \in 0..POLL_CHECKS_TOTAL, NEW o \in Nat,
         HasRoom(k, g, l, c, q, r, d, o),
         greatest(c, d - 1) + 1 >= POLL_CHECKS_TOTAL
  PROVE  POLL_CHECKS_TOTAL <= d + 2 * r
<1> DEFINE T == POLL_CHECKS_TOTAL
<1>1. T \in Nat
  BY ResultAssumption
<1>2. CASE d <= c
  <2> DEFINE x == g[d]
  <2>1. c + x + 1 <= d + 2 * r /\ x \in Nat
    BY <1>2 DEF HasRoom
  <2>2. c + 1 >= T
    BY <1>1, <1>2 DEF greatest
  <2> HIDE DEF x
  <2>3. c + 1 <= d + 2 * r
    BY <2>1
  <2> QED
    BY <1>1, <2>2, <2>3
<1>3. CASE d > c
  BY <1>1, <1>3 DEF greatest
<1> QED
  BY <1>2, <1>3

\* The questions of a loop on schedule, and its checks.
LEMMA ScheduleBounds ==
  ASSUME NEW k \in Nat, NEW g \in [0..POLL_CHECKS_TOTAL -> Nat], NEW l \in 0..1, NEW c \in 0..POLL_CHECKS_TOTAL,
         NEW q \in Int, NEW r \in Nat, NEW d \in 0..POLL_CHECKS_TOTAL, NEW o \in Nat,
         OnSchedule(k, g, l, c, q, r, d, o)
  PROVE  q + o <= d + r /\ c <= d + 2 * r
<1>1. CASE d <= c
  <2>1. c + g[d] <= d + 2 * r /\ q + g[d] + o <= d + r /\ g[d] \in Nat
    BY <1>1 DEF OnSchedule
  <2> QED
    BY <2>1
<1>2. CASE d > c
  <2>1. q + k + l + o <= c + r + 1
    BY DEF OnSchedule
  <2> QED
    BY <1>2, <2>1
<1> QED
  BY <1>1, <1>2

\* Later, more deadlines have passed.
LEMMA LaterOnSchedule ==
  ASSUME NEW k, NEW g, NEW l, NEW c, NEW q, NEW r, NEW d \in Nat, NEW o,
         OnSchedule(k, g, l, c, q, r, d, o), NEW e \in Nat, d <= e
  PROVE  OnSchedule(k, g, l, c, q, r, e, o)
  BY ResultAssumption DEF OnSchedule

\* Fewer questions, or fewer that are too many, or nothing to wait for.
LEMMA LessOnSchedule ==
  ASSUME NEW k \in Nat, NEW g \in [0..POLL_CHECKS_TOTAL -> Nat], NEW l \in 0..1, NEW c \in 0..POLL_CHECKS_TOTAL,
         NEW q \in Int, NEW r \in Nat, NEW d \in 0..POLL_CHECKS_TOTAL, NEW o \in Nat,
         OnSchedule(k, g, l, c, q, r, d, o),
         NEW p \in Int, NEW u \in Nat, NEW m \in 0..1, p + u <= q + o, m <= l
  PROVE  OnSchedule(k, g, m, c, p, r, d, u)
<1>1. k + l <= r + 1 /\ q + k + l + o <= c + r + 1
  BY DEF OnSchedule
<1>2. k + m <= r + 1
  BY <1>1
<1>3. p + k + m + u <= c + r + 1
  BY <1>1
<1>4. ASSUME NEW n \in 0..POLL_CHECKS_TOTAL, d <= n, n <= c
      PROVE  c + g[n] <= n + 2 * r /\ p + g[n] + u <= n + r
  <2> DEFINE x == g[n]
  <2>1. c + x <= n + 2 * r /\ q + x + o <= n + r
    BY <1>4 DEF OnSchedule
  <2>2. x \in Nat /\ n \in Nat
    OBVIOUS
  <2> HIDE DEF x
  <2>3. p + x + u <= n + r
    BY <2>1, <2>2
  <2> QED
    BY <2>1, <2>3 DEF x
<1> QED
  BY <1>2, <1>3, <1>4 DEF OnSchedule

-----------------------------------------------------------------------------
\* What a step does to the timers.

\* For each number of deadlines, the timers that may fire by then.
alarms(rest, t, start) == [n \in 0..POLL_CHECKS_TOTAL |-> firing(rest, t, start, n)]

\* A timer that loses its place to another is lost sight of, not cleared.
parked(rest, t) == IF t = Unset THEN rest ELSE Append(rest, t)

\* No timer is set for a time before the start.
notBefore(rest, t, start) ==
  /\ t # Unset => t >= start
  /\ \A i \in 1..Len(rest) : rest[i] >= start

\* The numbers of a set of timers.
LEMMA AlarmsType ==
  ASSUME NEW rest \in Seq(Nat), NEW t \in Nat \cup {Unset}, NEW start
  PROVE  /\ alarms(rest, t, start) \in [0..POLL_CHECKS_TOTAL -> Nat]
         /\ timersOf(rest, t) \in Nat
         /\ \A n \in 0..POLL_CHECKS_TOTAL : alarms(rest, t, start)[n] <= timersOf(rest, t)
         /\ \A n \in 0..POLL_CHECKS_TOTAL : alarms(rest, t, start)[n] = firing(rest, t, start, n)
  BY FiringType DEF alarms

\* A timer that is lost sight of is still there.
LEMMA KeptTimers ==
  ASSUME NEW rest \in Seq(Nat), NEW t \in Nat \cup {Unset}, NEW start, notBefore(rest, t, start)
  PROVE  /\ parked(rest, t) \in Seq(Nat)
         /\ timersOf(parked(rest, t), Unset) = timersOf(rest, t)
         /\ alarms(parked(rest, t), Unset, start) = alarms(rest, t, start)
         /\ \A u : (u # Unset => u >= start) => notBefore(parked(rest, t), u, start)
<1>1. CASE t = Unset
  BY <1>1 DEF parked, notBefore
<1>2. CASE t # Unset
  <2>1. t \in Nat /\ parked(rest, t) = Append(rest, t)
    BY <1>2 DEF parked
  <2>2. /\ Append(rest, t) \in Seq(Nat)
        /\ timersOf(Append(rest, t), Unset) = timersOf(rest, t)
    BY <2>1, FiringAppend
  <2>3. \A n : firing(Append(rest, t), Unset, start, n) = firing(rest, t, start, n)
    BY <2>1, FiringAppend
  <2>4. \A i \in 1..Len(Append(rest, t)) : Append(rest, t)[i] >= start
    BY <1>2, <2>1, AppendProperties DEF notBefore
  <2> QED
    BY <2>1, <2>2, <2>3, <2>4 DEF alarms, notBefore
<1> QED
  BY <1>1, <1>2

\* A timer that is ahead of n deadlines adds none that fires by then.
LEMMA TimerAhead ==
  ASSUME NEW rest \in Seq(Nat), NEW u \in Nat, NEW start \in Nat, start <= u,
         NEW e \in Nat, checksDue(u - start) >= e + 1
  PROVE  /\ timersOf(rest, u) = timersOf(rest, Unset) + 1
         /\ \A n \in 0..POLL_CHECKS_TOTAL : n <= e =>
              alarms(rest, u, start)[n] = alarms(rest, Unset, start)[n]
<1>1. checksDue(u - start) \in Nat
  BY DueCountsDeadlines
<1>2. ASSUME NEW n \in 0..POLL_CHECKS_TOTAL, n <= e
      PROVE  alarms(rest, u, start)[n] = alarms(rest, Unset, start)[n]
  <2>1. u \notin early(start, n)
    BY <1>1, <1>2 DEF early
  <2> QED
    BY <2>1, FiringWith DEF alarms
<1> QED
  BY <1>2, FiringWith

\* The timer that is not lost sight of fires.
LEMMA SeenTimerFires ==
  ASSUME NEW rest \in Seq(Nat), NEW t \in Nat, NEW start \in Nat, dateNow \in Nat,
         start <= t, t <= dateNow
  PROVE  /\ timersOf(rest, t) = timersOf(rest, Unset) + 1
         /\ \A n \in 0..POLL_CHECKS_TOTAL : checksDue(dateNow - start) <= n =>
              alarms(rest, t, start)[n] = alarms(rest, Unset, start)[n] + 1
<1>1. ASSUME NEW n \in 0..POLL_CHECKS_TOTAL, checksDue(dateNow - start) <= n
      PROVE  alarms(rest, t, start)[n] = alarms(rest, Unset, start)[n] + 1
  <2>1. t \in early(start, n)
    BY <1>1, DueIsEarly
  <2> QED
    BY <2>1, FiringWith DEF alarms
<1> QED
  BY <1>1, FiringWith

\* One that was lost sight of fires.
LEMMA OrphanFires ==
  ASSUME NEW rest \in Seq(Nat), NEW t \in Nat \cup {Unset}, NEW start \in Nat, dateNow \in Nat,
         NEW i \in 1..Len(rest), notBefore(rest, t, start), rest[i] <= dateNow
  PROVE  /\ RemoveAt(rest, i) \in Seq(Nat)
         /\ notBefore(RemoveAt(rest, i), t, start)
         /\ timersOf(rest, t) = timersOf(RemoveAt(rest, i), t) + 1
         /\ \A n \in 0..POLL_CHECKS_TOTAL : checksDue(dateNow - start) <= n =>
              alarms(rest, t, start)[n] = alarms(RemoveAt(rest, i), t, start)[n] + 1
<1> DEFINE s == RemoveAt(rest, i)
<1>1. /\ s \in Seq(Nat) /\ Len(s) = Len(rest) - 1
      /\ \A j \in 1..(Len(rest) - 1) : s[j] = IF j < i THEN rest[j] ELSE rest[j + 1]
  BY RemoveAtIs
<1>2. rest[i] \in Nat /\ rest[i] >= start
  BY DEF notBefore
<1>3. \A P : countIn(s, P) = countIn(rest, P) - one(rest[i] \in P)
  BY CountRemove
<1> HIDE DEF s
<1>4. notBefore(s, t, start)
  <2>1. ASSUME NEW j \in 1..Len(s) PROVE s[j] >= start
    <3>1. j \in 1..Len(rest) /\ j + 1 \in 1..Len(rest) /\ j \in 1..(Len(rest) - 1)
      BY <1>1
    <3>2. rest[j] >= start /\ rest[j + 1] >= start
      BY <3>1 DEF notBefore
    <3>3. s[j] = rest[j] \/ s[j] = rest[j + 1]
      BY <1>1, <3>1
    <3> QED
      BY <3>2, <3>3
  <2> QED
    BY <2>1 DEF notBefore
<1>5. timersOf(rest, t) = timersOf(s, t) + 1
  <2>1. one(t # Unset) \in Nat
    BY DEF one
  <2>2. Len(s) = Len(rest) - 1 /\ Len(rest) \in Nat /\ Len(s) \in Nat
    BY <1>1
  <2> QED
    BY <2>1, <2>2 DEF timersOf
<1>6. ASSUME NEW n \in 0..POLL_CHECKS_TOTAL, checksDue(dateNow - start) <= n
      PROVE  alarms(rest, t, start)[n] = alarms(s, t, start)[n] + 1
  <2> DEFINE E == early(start, n)
  <2>1. rest[i] \in E
    BY <1>2, <1>6, DueIsEarly
  <2> HIDE DEF E
  <2>2. one(rest[i] \in E) = 1
    BY <2>1 DEF one
  <2>3. countIn(s, E) = countIn(rest, E) - 1
    BY <1>3, <2>2
  <2>4. countIn(s, E) \in Nat /\ countIn(rest, E) \in Nat /\ one(t \in E) \in Nat
    BY <1>1, CountType DEF one
  <2>5. firing(rest, t, start, n) = firing(s, t, start, n) + 1
    <3> DEFINE x == one(t \in E)
    <3>1. x \in Nat
      BY <2>4
    <3>2. /\ firing(rest, t, start, n) = countIn(rest, E) + x
          /\ firing(s, t, start, n) = countIn(s, E) + x
      BY DEF E, firing
    <3> HIDE DEF x
    <3> QED
      BY <2>3, <2>4, <3>1, <3>2
  <2> QED
    BY <2>5 DEF alarms
<1> QED
  BY <1>1, <1>4, <1>5, <1>6 DEF s

\* run() in a tab that is seen: whether the loop asks, is swallowed or gives up, it
\* stays on schedule.
LEMMA ProceedKeeps ==
  ASSUME dateNow \in Nat, startedAt \in Nat, startedAt <= dateNow,
         checks \in 0..POLL_CHECKS_TOTAL, asking \in {"nobody", "loop", "else"}, asked \in Nat,
         view = "polls",
         NEW t \in Nat \cup {Unset}, NEW rest \in Seq(Nat), notBefore(rest, t, startedAt),
         NEW q \in Int, NEW r \in Nat, NEW o \in Nat,
         HasRoom(timersOf(rest, t), alarms(rest, t, startedAt), one(asking = "loop"), checks,
                 q, r, checksDue(dateNow - startedAt), o),
         proceed(t, rest)
  PROVE  /\ checks' \in 0..POLL_CHECKS_TOTAL
         /\ timer' \in Nat \cup {Unset} /\ orphans' \in Seq(Nat)
         /\ notBefore(orphans', timer', startedAt)
         /\ asking' \in {"nobody", "loop", "else"} /\ asked' \in Nat
         /\ \/ /\ view' = "gaveUp" /\ asked' = asked
               /\ POLL_CHECKS_TOTAL <= checksDue(dateNow - startedAt) + 2 * r
            \/ /\ view' = "polls"
               /\ OnSchedule(timersOf(orphans', timer'), alarms(orphans', timer', startedAt),
                             one(asking' = "loop"), checks', q + (asked' - asked), r,
                             checksDue(dateNow - startedAt), o)
<1> DEFINE d == checksDue(dateNow - startedAt)
           n == greatest(checks, d - 1)
           k == timersOf(rest, t)
           g == alarms(rest, t, startedAt)
           T == POLL_CHECKS_TOTAL
<1>1. d \in 0..T /\ T \in Nat
  BY DueCountsDeadlines, ResultAssumption
<1>2. /\ g \in [0..T -> Nat] /\ k \in Nat
      /\ \A m \in 0..T : g[m] <= k
  BY AlarmsType
<1>3. n \in Nat /\ n + 1 \in Nat
  BY <1>1 DEF greatest
<1>4. HasRoom(k, g, one(asking = "loop"), checks, q, r, d, o)
  OBVIOUS
<1>5. one(asking = "loop") \in 0..1
  BY DEF one
<1> DEFINE Typed == /\ checks' \in 0..T
                    /\ timer' \in Nat \cup {Unset} /\ orphans' \in Seq(Nat)
                    /\ notBefore(orphans', timer', startedAt)
                    /\ asking' \in {"nobody", "loop", "else"} /\ asked' \in Nat
           Gives == view' = "gaveUp" /\ asked' = asked /\ T <= d + 2 * r
           Polls == /\ view' = "polls"
                    /\ OnSchedule(timersOf(orphans', timer'), alarms(orphans', timer', startedAt),
                                  one(asking' = "loop"), checks', q + (asked' - asked), r, d, o)
<1> SUFFICES Typed /\ (Gives \/ Polls)
  OBVIOUS
<1> HIDE DEF d, k, g
<1>6. n <= T
  BY <1>1 DEF greatest
<1>7. ASSUME NEW m \in 0..T, givesUp(m), n + 1 >= T
      PROVE  Typed /\ Gives
  <2>1. T <= d + 2 * r
    BY <1>1, <1>2, <1>4, <1>5, <1>7, GivesUpLate
  <2> QED
    BY <1>7, <2>1 DEF givesUp, notBefore
<1>8. CASE n >= T
  <2>1. givesUp(n)
    BY <1>8 DEF proceed, d
  <2>2. n \in 0..T /\ n + 1 >= T
    BY <1>1, <1>3, <1>6, <1>8
  <2> HIDE DEF n, Typed, Gives
  <2> QED
    BY <1>7, <2>1, <2>2
<1>9. CASE n < T /\ asking = "nobody"
  <2>1. /\ checks' = n + 1 /\ asking' = "loop" /\ asked' = asked + 1
        /\ timer' = t /\ orphans' = rest /\ view' = view
    BY <1>1, <1>3, <1>9 DEF proceed, d
  <2>2. one(asking = "loop") = 0 /\ one(asking' = "loop") = 1
    BY <1>9, <2>1, Zenon DEF one
  <2>3. OnSchedule(k, g, 1, n + 1, q + 1, r, d, o)
    <3>1. HasRoom(k, g, 0, checks, q, r, d, o)
      BY <1>4, <2>2, Zenon
    <3> QED
      BY <1>1, <1>2, <3>1, QuestionTakesRoom
  <2>4. q + (asked' - asked) = q + 1
    BY <2>1
  <2>5. OnSchedule(timersOf(orphans', timer'), alarms(orphans', timer', startedAt),
                   one(asking' = "loop"), checks', q + (asked' - asked), r, d, o)
    BY <2>1, <2>2, <2>3, <2>4, Zenon DEF k, g
  <2>6. n + 1 \in 0..T
    BY <1>1, <1>3, <1>9
  <2> HIDE DEF n
  <2>7. Typed
    BY <2>1, <2>6
  <2>8. Polls
    BY <2>1, <2>5
  <2> QED
    BY <2>7, <2>8
<1>10. CASE n < T /\ asking # "nobody" /\ n + 1 >= T
  <2>1. givesUp(n + 1)
    BY <1>1, <1>3, <1>10 DEF proceed, d
  <2>2. n + 1 \in 0..T /\ n + 1 >= T
    BY <1>1, <1>3, <1>10
  <2> HIDE DEF n, Typed, Gives
  <2> QED
    BY <1>7, <2>1, <2>2
<1>11. CASE n < T /\ asking # "nobody" /\ n + 1 < T
  <2> DEFINE u == nextAt(n + 1, startedAt)
             s == parked(rest, t)
             h == alarms(s, u, startedAt)
  <2>1. /\ checks' = n + 1 /\ timer' = u /\ orphans' = s
        /\ view' = view /\ asking' = asking /\ asked' = asked
    BY <1>1, <1>3, <1>11 DEF proceed, parked, d
  <2>2. u \in Nat /\ u >= startedAt /\ checksDue(u - startedAt) >= (n + 1) + 1
    BY <1>1, <1>3, <1>11, NextIsAhead
  <2> HIDE DEF u
  <2>3. /\ s \in Seq(Nat)
        /\ timersOf(s, Unset) = k
        /\ alarms(s, Unset, startedAt) = g
        /\ notBefore(s, u, startedAt)
    BY <2>2, KeptTimers DEF k, g
  <2> HIDE DEF s
  <2>4. /\ timersOf(s, u) = k + 1
        /\ \A m \in 0..T : m <= n + 1 => h[m] = g[m]
    <3> DEFINE e == n + 1
    <3>1. e \in Nat /\ startedAt <= u /\ checksDue(u - startedAt) >= e + 1
      BY <1>3, <2>2
    <3> HIDE DEF e, h
    <3>2. timersOf(s, u) = timersOf(s, Unset) + 1
      BY <2>2, <2>3, <3>1, TimerAhead
    <3>3. \A m \in 0..T : m <= e =>
            alarms(s, u, startedAt)[m] = alarms(s, Unset, startedAt)[m]
      BY <2>2, <2>3, <3>1, TimerAhead
    <3> QED
      BY <2>3, <3>2, <3>3 DEF e, h
  <2>5. h \in [0..T -> Nat]
    BY <2>2, <2>3, AlarmsType
  <2> HIDE DEF h
  <2>6. OnSchedule(k + 1, h, one(asking = "loop"), n + 1, q, r, d, o)
    BY <1>1, <1>2, <1>4, <1>5, <2>4, <2>5, SwallowTakesRoom
  <2>7. q + (asked' - asked) = q
    BY <2>1
  <2>8. OnSchedule(timersOf(orphans', timer'), alarms(orphans', timer', startedAt),
                   one(asking' = "loop"), checks', q + (asked' - asked), r, d, o)
    BY <2>1, <2>4, <2>6, <2>7, Zenon DEF h
  <2>9. n + 1 \in 0..T
    BY <1>1, <1>3, <1>11
  <2> HIDE DEF n
  <2>10. Typed
    BY <2>1, <2>2, <2>3, <2>9
  <2>11. Polls
    BY <2>1, <2>8
  <2> QED
    BY <2>10, <2>11
<1>12. n >= T \/ (n < T /\ (n + 1 >= T \/ n + 1 < T))
  BY <1>1, <1>3
<1> HIDE DEF n, Typed, Gives, Polls
<1> QED
  BY <1>8, <1>9, <1>10, <1>11, <1>12

-----------------------------------------------------------------------------
\* The start of the window.

\* A window that is askew to the loop allows the questions that the loop has asked.
LEMMA AskedInWindow ==
  ASSUME NEW now \in Nat, NEW w \in Nat, NEW start \in Nat, start <= w, w <= now,
         NEW q \in Int, NEW r \in Nat,
         q + (checksDue(w - start) + one(w # start)) <= checksDue(now - start) + r
  PROVE  q <= checksDue(now - w) + r
<1>1. /\ w - start \in Nat /\ now - w \in Nat /\ now - start \in Nat
      /\ (w - start) + (now - w) = now - start
  OBVIOUS
<1>2. /\ checksDue(w - start) \in Nat /\ checksDue(now - w) \in Nat
      /\ checksDue(now - start) \in Nat
  BY <1>1, DueCountsDeadlines
<1>3. CASE w = start
  <2>1. one(w # start) = 0
    BY <1>3 DEF one
  <2>2. now - w = now - start
    BY <1>3
  <2>3. checksDue(now - w) = checksDue(now - start)
    BY <2>2, Zenon
  <2> QED
    BY <1>2, <2>1, <2>3
<1>4. CASE w # start
  <2>1. one(w # start) = 1
    BY <1>4 DEF one
  <2>2. checksDue(now - start) <= checksDue(w - start) + checksDue(now - w) + 1
    BY <1>1, SkewCostsOne
  <2> QED
    BY <1>2, <2>1, <2>2
<1> QED
  BY <1>3, <1>4

\* A window that starts anew while the loop goes on: what the questions of the old
\* one are allowed makes up for what the new one is askew.
LEMMA WindowMoves ==
  ASSUME NEW now \in Nat, NEW w \in Nat, NEW start \in Nat, start <= w, w <= now,
         NEW x \in 0..1, NEW y \in 0..1, w # start => y = 1,
         NEW q \in Int, NEW a \in 0..1
  PROVE  (q + a - (checksDue(now - w) + 1) - 1) + (checksDue(now - start) + x)
           <= q + (checksDue(w - start) + y)
<1>1. /\ w - start \in Nat /\ now - w \in Nat /\ now - start \in Nat
      /\ (w - start) + (now - w) = now - start
  OBVIOUS
<1>2. /\ checksDue(w - start) \in Nat /\ checksDue(now - w) \in Nat
      /\ checksDue(now - start) \in Nat
  BY <1>1, DueCountsDeadlines
<1>4. CASE w = start
  <2>2. now - w = now - start
    BY <1>4
  <2>3. checksDue(now - w) = checksDue(now - start)
    BY <2>2, Zenon
  <2> QED
    BY <1>2, <2>3
<1>5. CASE w # start
  <2>1. y = 1
    BY <1>5
  <2>2. checksDue(now - start) <= checksDue(w - start) + checksDue(now - w) + 1
    BY <1>1, SkewCostsOne
  <2> QED
    BY <1>2, <2>1, <2>2
<1> QED
  BY <1>4, <1>5

\* The effect starts on schedule: its only timer is ahead of what is due.
LEMMA EffectKeeps ==
  ASSUME dateNow \in Nat, NEW start \in Nat, start <= dateNow, effectStarts(start),
         NEW q \in Int, NEW r \in Nat, q <= checksDue(dateNow - start) + r
  PROVE  /\ windowStart' = start /\ startedAt' = start
         /\ checks' \in 0..POLL_CHECKS_TOTAL
         /\ timer' \in Nat \cup {Unset} /\ orphans' \in Seq(Nat)
         /\ notBefore(orphans', timer', start)
         /\ \/ /\ view' = "gaveUp"
               /\ POLL_CHECKS_TOTAL <= checksDue(dateNow - start) + 2 * r
            \/ /\ view' = "polls"
               /\ OnSchedule(timersOf(orphans', timer'), alarms(orphans', timer', start), 0,
                             checks', q, r, checksDue(dateNow - start),
                             checksDue(start - start) + one(start # start))
<1> DEFINE d == checksDue(dateNow - start)
           T == POLL_CHECKS_TOTAL
           u == nextAt(d, start)
           g == alarms(<<>>, u, start)
<1>1. d \in 0..T /\ T \in Nat
  BY DueCountsDeadlines, ResultAssumption
<1>2. windowStart' = start /\ startedAt' = start /\ checks' = d /\ orphans' = <<>>
  BY DEF effectStarts
<1>3. <<>> \in Seq(Nat) /\ \A x : (x # Unset => x >= start) => notBefore(<<>>, x, start)
  BY DEF notBefore
<1>4. CASE d >= T
  <2>1. view' = "gaveUp" /\ timer' = Unset
    BY <1>4 DEF effectStarts
  <2>2. T <= d + 2 * r
    BY <1>1, <1>4
  <2> HIDE DEF d
  <2> QED
    BY <1>1, <1>2, <1>3, <2>1, <2>2 DEF d
<1>5. CASE d < T
  <2>1. view' = "polls" /\ timer' = u
    BY <1>1, <1>5 DEF effectStarts
  <2>2. u \in Nat /\ u >= start /\ checksDue(u - start) >= d + 1
    BY <1>1, <1>5, NextIsAhead
  <2>3. q <= d + r
    OBVIOUS
  <2> HIDE DEF d, u
  <2>4. /\ timersOf(<<>>, u) = timersOf(<<>>, Unset) + 1
        /\ \A n \in 0..T : n <= d => g[n] = alarms(<<>>, Unset, start)[n]
    <3> DEFINE s == <<>>
    <3>1. u >= start /\ start <= u
      BY <2>2
    <3>2. d \in Nat /\ s \in Seq(Nat)
      BY <1>1
    <3> HIDE DEF g, s
    <3>3. \A n \in 0..T : n <= d => alarms(s, u, start)[n] = alarms(s, Unset, start)[n]
      BY <2>2, <3>1, <3>2, TimerAhead
    <3>4. timersOf(s, u) = timersOf(s, Unset) + 1
      BY <2>2, <3>1, <3>2, TimerAhead
    <3> QED
      BY <3>3, <3>4 DEF g, s
  <2>5. timersOf(<<>>, Unset) = 0 /\ \A n \in 0..T : alarms(<<>>, Unset, start)[n] = 0
    <3>1. timersOf(<<>>, Unset) = Len(<<>>)
      BY <1>3, FiringWithout
    <3>2. \A n : firing(<<>>, Unset, start, n) = 0
      BY <1>3, FiringWithout, CountOfNone
    <3> QED
      BY <3>1, <3>2 DEF alarms
  <2> HIDE DEF g
  <2>6. \A n \in 0..T : d <= n /\ n <= d => d + g[n] <= n + 2 * r /\ q + g[n] + 0 <= n + r
    BY <1>1, <2>3, <2>4, <2>5
  <2>7. 1 + 0 <= r + 1 /\ q + 1 + 0 + 0 <= d + r + 1
    BY <1>1, <2>3
  <2>8. OnSchedule(1, g, 0, d, q, r, d, 0)
    BY <2>6, <2>7 DEF OnSchedule
  <2>9. checksDue(start - start) + one(start # start) = 0
    <3>1. start - start = 0 /\ one(start # start) = 0
      BY DEF one
    <3>2. checksDue(start - start) = 0
      BY <3>1, NothingDueAtOnce
    <3> QED
      BY <3>1, <3>2
  <2>10. timersOf(orphans', timer') = 1 /\ alarms(orphans', timer', start) = g
    BY <1>2, <2>1, <2>4, <2>5 DEF g
  <2>11. OnSchedule(timersOf(orphans', timer'), alarms(orphans', timer', start), 0, checks', q, r,
                    d, checksDue(start - start) + one(start # start))
    BY <1>2, <2>8, <2>9, <2>10, Zenon
  <2>12. checks' \in 0..T /\ timer' \in Nat /\ orphans' \in Seq(Nat) /\ notBefore(orphans', timer', start)
    BY <1>1, <1>2, <1>3, <2>1, <2>2
  <2> QED
    BY <1>2, <2>1, <2>11, <2>12 DEF d
<1>6. d >= T \/ d < T
  BY <1>1
<1> QED
  BY <1>4, <1>5, <1>6

-----------------------------------------------------------------------------
\* The invariant.

\* The window starts in the past and not before the loop; it has a start but
\* before the first loading; no timer is set for before the loop started.
WindowsAreSound ==
  /\ windowStart # Unset => windowStart <= dateNow
  /\ view \in {"polls", "gaveUp"} => windowStart # Unset /\ startedAt <= windowStart
  /\ windowStart = Unset /\ view # "decided" =>
       view = "closed" /\ asked - earlier - mounts <= returns
  /\ notBefore(orphans, timer, startedAt)

\* The loop is on schedule.
PollsOnSchedule ==
  view = "polls" =>
    OnSchedule(timersOf(orphans, timer), alarms(orphans, timer, startedAt),
               one(asking = "loop"), checks, asked - earlier - mounts, returns,
               checksDue(dateNow - startedAt),
               checksDue(windowStart - startedAt) + one(windowStart # startedAt))

ResultInv == ResultTypeOK /\ WindowsAreSound /\ PollsOnSchedule /\ AsksOnSchedule

\* Before the page is opened.
LEMMA ResultInvInit == ResultInit => ResultInv
<1> SUFFICES ASSUME ResultInit PROVE ResultInv
  OBVIOUS
<1>1. ResultTypeOK
  <2>1. 0 \in Nat /\ 0 \in 0..POLL_CHECKS_TOTAL /\ <<>> \in Seq(Nat)
    BY ResultAssumption
  <2> QED
    BY <2>1 DEF ResultInit, ResultTypeOK
<1>2. WindowsAreSound
  BY ResultAssumption DEF ResultInit, WindowsAreSound, notBefore
<1>3. PollsOnSchedule /\ AsksOnSchedule
  BY DEF ResultInit, PollsOnSchedule, AsksOnSchedule
<1> QED
  BY <1>1, <1>2, <1>3 DEF ResultInv

\* What the window allows for, with the numbers that no step changes named.
LEMMA WindowNumbers ==
  ASSUME ResultInv, view \in {"polls", "gaveUp"}
  PROVE  /\ dateNow \in Nat /\ windowStart \in Nat /\ startedAt \in Nat
         /\ startedAt <= windowStart /\ windowStart <= dateNow /\ startedAt <= dateNow
         /\ asked - earlier - mounts \in Int /\ returns \in Nat
         /\ checksDue(dateNow - windowStart) \in 0..POLL_CHECKS_TOTAL
         /\ checksDue(dateNow - startedAt) \in 0..POLL_CHECKS_TOTAL
         /\ checksDue(windowStart - startedAt) + one(windowStart # startedAt) \in Nat
         /\ asked - earlier - mounts <= checksDue(dateNow - windowStart) + returns
<1>1. /\ dateNow \in Nat /\ windowStart \in Nat /\ startedAt \in Nat
      /\ startedAt <= windowStart /\ windowStart <= dateNow
      /\ asked \in Nat /\ earlier \in Nat /\ mounts \in Nat /\ returns \in Nat
  BY DEF ResultInv, ResultTypeOK, WindowsAreSound
<1>2. dateNow - windowStart \in Nat /\ dateNow - startedAt \in Nat /\ windowStart - startedAt \in Nat
  BY <1>1
<1>3. /\ checksDue(dateNow - windowStart) \in 0..POLL_CHECKS_TOTAL
      /\ checksDue(dateNow - startedAt) \in 0..POLL_CHECKS_TOTAL
      /\ checksDue(windowStart - startedAt) \in 0..POLL_CHECKS_TOTAL
  BY <1>2, DueCountsDeadlines
<1>4. checksDue(windowStart - startedAt) + one(windowStart # startedAt) \in Nat
  <2>1. one(windowStart # startedAt) \in Nat
    BY DEF one
  <2> QED
    BY <1>3, <2>1
<1>5. asked - earlier - mounts <= checksDue(dateNow - windowStart) + returns
  <2>1. windowStart # Unset
    BY <1>1, ResultAssumption
  <2>2. asked <= earlier + checksDue(dateNow - windowStart) + returns + mounts
    BY <2>1 DEF ResultInv, AsksOnSchedule
  <2> QED
    BY <1>1, <1>3, <2>2
<1> QED
  BY <1>1, <1>3, <1>4, <1>5

\* The page is loaded: it goes on with the window it finds.
LEMMA LoadResultKeeps ==
  ASSUME ResultInv, LoadResult
  PROVE  ResultInv'
<1> DEFINE start == readWindowStart
           q == asked - earlier - mounts
<1>1. /\ dateNow \in Nat /\ windowStart \in Nat \cup {Unset}
      /\ asked \in Nat /\ earlier \in Nat /\ mounts \in Nat /\ returns \in Nat
  BY DEF ResultInv, ResultTypeOK
<1>2. /\ view = "closed" /\ effectStarts(start) /\ asking' = "nobody" /\ hidden' = FALSE
      /\ asked' = asked + 1 /\ mounts' = mounts + 1
      /\ dateNow' = dateNow /\ returns' = returns /\ earlier' = earlier
  BY DEF LoadResult
<1>3. q \in Int /\ asked' - earlier' - mounts' = q
  BY <1>1, <1>2
<1>4. start \in Nat /\ start <= dateNow
  BY <1>1 DEF readWindowStart, ResultInv, WindowsAreSound
<1>5. q <= checksDue(dateNow - start) + returns
  <2>1. CASE windowStart = Unset
    <3>1. q <= returns
      BY <1>2, <2>1 DEF ResultInv, WindowsAreSound
    <3>2. checksDue(dateNow - start) \in Nat
      BY <1>1, <1>4, DueCountsDeadlines
    <3> HIDE DEF start, q
    <3> QED
      BY <1>1, <1>3, <3>1, <3>2
  <2>2. CASE windowStart # Unset
    <3>1. start = windowStart
      BY <2>2 DEF readWindowStart
    <3>2. asked <= earlier + checksDue(dateNow - start) + returns + mounts
      BY <2>2, <3>1 DEF ResultInv, AsksOnSchedule
    <3>3. checksDue(dateNow - start) \in Nat
      BY <1>1, <1>4, DueCountsDeadlines
    <3> HIDE DEF start
    <3> QED
      BY <1>1, <3>2, <3>3
  <2> QED
    BY <2>1, <2>2
<1> HIDE DEF start
<1>6. /\ windowStart' = start /\ startedAt' = start
      /\ checks' \in 0..POLL_CHECKS_TOTAL
      /\ timer' \in Nat \cup {Unset} /\ orphans' \in Seq(Nat)
      /\ notBefore(orphans', timer', start)
      /\ \/ /\ view' = "gaveUp"
            /\ POLL_CHECKS_TOTAL <= checksDue(dateNow - start) + 2 * returns
         \/ /\ view' = "polls"
            /\ OnSchedule(timersOf(orphans', timer'), alarms(orphans', timer', start), 0,
                          checks', q, returns, checksDue(dateNow - start),
                          checksDue(start - start) + one(start # start))
  BY <1>1, <1>2, <1>3, <1>4, <1>5, EffectKeeps
<1>7. checksDue(dateNow - start) \in Nat
  BY <1>1, <1>4, DueCountsDeadlines
<1>8. ResultTypeOK'
  <2>1. /\ dateNow' \in Nat /\ asked' \in Nat /\ returns' \in Nat /\ mounts' \in Nat
        /\ earlier' \in Nat /\ windowStart' \in Nat /\ startedAt' \in Nat
    BY <1>1, <1>2, <1>4, <1>6
  <2>2. /\ view' \in {"closed", "polls", "gaveUp", "decided"} /\ hidden' \in BOOLEAN
        /\ asking' \in {"nobody", "loop", "else"}
    BY <1>2, <1>6
  <2>3. /\ checks' \in 0..POLL_CHECKS_TOTAL
        /\ timer' \in Nat \cup {Unset} /\ orphans' \in Seq(Nat)
    BY <1>6
  <2> QED
    BY <2>1, <2>2, <2>3 DEF ResultTypeOK
<1>9. WindowsAreSound'
  BY <1>2, <1>4, <1>6, ResultAssumption DEF WindowsAreSound
<1>10. PollsOnSchedule'
  <2>1. one(asking' = "loop") = 0
    BY <1>2, Zenon DEF one
  <2> SUFFICES ASSUME view' = "polls"
               PROVE  OnSchedule(timersOf(orphans', timer'), alarms(orphans', timer', startedAt'),
                                 one(asking' = "loop"), checks', asked' - earlier' - mounts',
                                 returns', checksDue(dateNow' - startedAt'),
                                 checksDue(windowStart' - startedAt')
                                   + one(windowStart' # startedAt'))
    BY DEF PollsOnSchedule
  <2> HIDE DEF q
  <2>2. OnSchedule(timersOf(orphans', timer'), alarms(orphans', timer', start), 0,
                   checks', q, returns, checksDue(dateNow - start),
                   checksDue(start - start) + one(start # start))
    BY <1>6
  <2> QED
    BY <1>2, <1>3, <1>6, <2>1, <2>2, Zenon
<1>11. AsksOnSchedule'
  <2>1. asked' <= earlier' + checksDue(dateNow' - windowStart') + returns' + mounts'
    BY <1>1, <1>2, <1>5, <1>6, <1>7
  <2>2. view' = "gaveUp" => POLL_CHECKS_TOTAL <= checksDue(dateNow' - startedAt') + 2 * returns'
    BY <1>2, <1>6
  <2> QED
    BY <2>1, <2>2 DEF AsksOnSchedule
<1> QED
  BY <1>8, <1>9, <1>10, <1>11 DEF ResultInv

\* A step of the loop that leaves it on schedule, or gives up late enough, keeps
\* the invariant.
LEMMA LoopKeeps ==
  ASSUME ResultInv, view = "polls",
         UNCHANGED <<dateNow, windowStart, startedAt, mounts, earlier>>,
         returns' \in Nat, returns' >= returns, hidden' \in BOOLEAN,
         checks' \in 0..POLL_CHECKS_TOTAL,
         timer' \in Nat \cup {Unset}, orphans' \in Seq(Nat),
         notBefore(orphans', timer', startedAt),
         asking' \in {"nobody", "loop", "else"}, asked' \in Nat,
         \/ /\ view' = "gaveUp" /\ asked' = asked
            /\ POLL_CHECKS_TOTAL <= checksDue(dateNow - startedAt) + 2 * returns'
         \/ /\ view' = "polls"
            /\ OnSchedule(timersOf(orphans', timer'), alarms(orphans', timer', startedAt),
                          one(asking' = "loop"), checks',
                          (asked - earlier - mounts) + (asked' - asked), returns',
                          checksDue(dateNow - startedAt),
                          checksDue(windowStart - startedAt) + one(windowStart # startedAt))
  PROVE  ResultInv'
<1> DEFINE q == asked - earlier - mounts
           d == checksDue(dateNow - startedAt)
           o == checksDue(windowStart - startedAt) + one(windowStart # startedAt)
           w == checksDue(dateNow - windowStart)
<1>1. /\ dateNow \in Nat /\ windowStart \in Nat /\ startedAt \in Nat
      /\ startedAt <= windowStart /\ windowStart <= dateNow /\ startedAt <= dateNow
      /\ q \in Int /\ returns \in Nat
      /\ w \in 0..POLL_CHECKS_TOTAL /\ d \in 0..POLL_CHECKS_TOTAL /\ o \in Nat
      /\ q <= w + returns
  BY WindowNumbers
<1>2. asked \in Nat /\ earlier \in Nat /\ mounts \in Nat
  BY DEF ResultInv, ResultTypeOK
<1>3. /\ dateNow' = dateNow /\ windowStart' = windowStart /\ startedAt' = startedAt
      /\ mounts' = mounts /\ earlier' = earlier
  OBVIOUS
<1>4. asked' - earlier' - mounts' = q + (asked' - asked)
  BY <1>2, <1>3
<1>5. view' \in {"polls", "gaveUp"} /\ windowStart # Unset
  BY <1>1, ResultAssumption
<1>6. ResultTypeOK'
  BY <1>1, <1>2, <1>3, <1>5 DEF ResultTypeOK
<1>7. WindowsAreSound'
  BY <1>1, <1>3, <1>5 DEF WindowsAreSound
<1>8. view' = "polls" =>
        OnSchedule(timersOf(orphans', timer'), alarms(orphans', timer', startedAt),
                   one(asking' = "loop"), checks', q + (asked' - asked), returns', d, o)
  OBVIOUS
<1>9. view' = "gaveUp" => asked' = asked /\ POLL_CHECKS_TOTAL <= d + 2 * returns'
  OBVIOUS
<1> HIDE DEF q, d, o, w
<1>10. PollsOnSchedule'
  <2> SUFFICES ASSUME view' = "polls"
               PROVE  OnSchedule(timersOf(orphans', timer'), alarms(orphans', timer', startedAt'),
                                 one(asking' = "loop"), checks', asked' - earlier' - mounts',
                                 returns', checksDue(dateNow' - startedAt'),
                                 checksDue(windowStart' - startedAt')
                                   + one(windowStart' # startedAt'))
    BY DEF PollsOnSchedule
  <2> QED
    BY <1>3, <1>4, <1>8, Zenon DEF d, o
<1>11. AsksOnSchedule'
  <2>1. q + (asked' - asked) <= w + returns'
    <3>1. CASE view' = "gaveUp"
      <4>1. q + (asked' - asked) = q
        BY <1>1, <1>2, <1>9, <3>1
      <4>2. q <= w + returns'
        <5>1. \A x, y, z, u \in Int : x <= y + z /\ u >= z => x <= y + u
          OBVIOUS
        <5>2. q \in Int /\ w \in Int /\ returns \in Int /\ returns' \in Int
          BY <1>1
        <5> QED
          BY <1>1, <5>1, <5>2
      <4> QED
        BY <4>1, <4>2
    <3>2. CASE view' = "polls"
      <4> DEFINE k == timersOf(orphans', timer')
                 g == alarms(orphans', timer', startedAt)
                 l == one(asking' = "loop")
                 p == q + (asked' - asked)
      <4>1. k \in Nat /\ g \in [0..POLL_CHECKS_TOTAL -> Nat]
        BY AlarmsType
      <4>2. l \in 0..1
        BY DEF one
      <4>3. p \in Int
        BY <1>1, <1>2
      <4>4. OnSchedule(k, g, l, checks', p, returns', d, o)
        BY <1>8, <3>2
      <4> HIDE DEF k, g, l, p
      <4>5. p + o <= d + returns'
        BY <1>1, <4>1, <4>2, <4>3, <4>4, ScheduleBounds
      <4>6. p <= w + returns'
        BY <1>1, <4>3, <4>5, AskedInWindow DEF d, o, w
      <4> QED
        BY <4>6 DEF p
    <3> QED
      BY <1>5, <3>1, <3>2
  <2>2. asked' - earlier - mounts = q + (asked' - asked)
    BY <1>3, <1>4
  <2>3. asked' <= earlier + w + returns' + mounts
    <3>1. \A a, e, m, x, y \in Int : a - e - m <= x + y => a <= e + x + y + m
      OBVIOUS
    <3>2. asked' - earlier - mounts <= w + returns'
      BY <2>1, <2>2
    <3>3. asked' \in Int /\ earlier \in Int /\ mounts \in Int /\ w \in Int /\ returns' \in Int
      BY <1>1, <1>2
    <3> QED
      BY <3>1, <3>2, <3>3
  <2>4. view' = "gaveUp" => POLL_CHECKS_TOTAL <= d + 2 * returns'
    BY <1>9
  <2>5. /\ asked' <= earlier' + checksDue(dateNow' - windowStart') + returns' + mounts'
        /\ view' = "gaveUp" =>
             POLL_CHECKS_TOTAL <= checksDue(dateNow' - startedAt') + 2 * returns'
    BY <1>3, <2>3, <2>4, Zenon DEF w, d
  <2> QED
    BY <2>5 DEF AsksOnSchedule
<1> QED
  BY <1>6, <1>7, <1>10, <1>11 DEF ResultInv

\* The loop as the invariant has it.
LEMMA LoopNumbers ==
  ASSUME ResultInv, view = "polls"
  PROVE  /\ timer \in Nat \cup {Unset} /\ orphans \in Seq(Nat) /\ notBefore(orphans, timer, startedAt)
         /\ checks \in 0..POLL_CHECKS_TOTAL /\ asking \in {"nobody", "loop", "else"}
         /\ asked \in Nat /\ hidden \in BOOLEAN
         /\ timersOf(orphans, timer) \in Nat
         /\ alarms(orphans, timer, startedAt) \in [0..POLL_CHECKS_TOTAL -> Nat]
         /\ one(asking = "loop") \in 0..1
         /\ OnSchedule(timersOf(orphans, timer), alarms(orphans, timer, startedAt),
                       one(asking = "loop"), checks, asked - earlier - mounts, returns,
                       checksDue(dateNow - startedAt),
                       checksDue(windowStart - startedAt) + one(windowStart # startedAt))
<1>1. /\ timer \in Nat \cup {Unset} /\ orphans \in Seq(Nat) /\ notBefore(orphans, timer, startedAt)
      /\ checks \in 0..POLL_CHECKS_TOTAL /\ asking \in {"nobody", "loop", "else"}
      /\ asked \in Nat /\ hidden \in BOOLEAN
  BY DEF ResultInv, ResultTypeOK, WindowsAreSound
<1>2. /\ timersOf(orphans, timer) \in Nat
      /\ alarms(orphans, timer, startedAt) \in [0..POLL_CHECKS_TOTAL -> Nat]
  BY <1>1, AlarmsType
<1>3. one(asking = "loop") \in 0..1
  BY DEF one
<1> QED
  BY <1>1, <1>2, <1>3 DEF ResultInv, PollsOnSchedule

\* A timer that fires, of a tab that is seen or hidden.
LEMMA RunKeeps ==
  ASSUME ResultInv, view = "polls", NEW t \in Nat \cup {Unset}, NEW rest \in Seq(Nat),
         notBefore(rest, t, startedAt),
         timersOf(orphans, timer) = timersOf(rest, t) + 1,
         \A n \in 0..POLL_CHECKS_TOTAL : checksDue(dateNow - startedAt) <= n =>
           alarms(orphans, timer, startedAt)[n] = alarms(rest, t, startedAt)[n] + 1,
         run(t, rest),
         UNCHANGED <<dateNow, windowStart, startedAt, hidden, returns, mounts, earlier>>
  PROVE  ResultInv'
<1> DEFINE q == asked - earlier - mounts
           d == checksDue(dateNow - startedAt)
           o == checksDue(windowStart - startedAt) + one(windowStart # startedAt)
           k == timersOf(rest, t)
           g == alarms(orphans, timer, startedAt)
           h == alarms(rest, t, startedAt)
           l == one(asking = "loop")
<1>1. /\ dateNow \in Nat /\ startedAt \in Nat /\ startedAt <= dateNow
      /\ q \in Int /\ returns \in Nat /\ d \in 0..POLL_CHECKS_TOTAL /\ o \in Nat
  BY WindowNumbers
<1>2. /\ checks \in 0..POLL_CHECKS_TOTAL /\ asking \in {"nobody", "loop", "else"}
      /\ asked \in Nat /\ hidden \in BOOLEAN
      /\ g \in [0..POLL_CHECKS_TOTAL -> Nat] /\ l \in 0..1
      /\ OnSchedule(k + 1, g, l, checks, q, returns, d, o)
  BY LoopNumbers
<1>3. k \in Nat /\ h \in [0..POLL_CHECKS_TOTAL -> Nat]
  BY AlarmsType
<1>4. \A n \in 0..POLL_CHECKS_TOTAL : d <= n => g[n] = h[n] + 1
  OBVIOUS
<1>5. UNCHANGED <<dateNow, windowStart, startedAt, mounts, earlier>>
  OBVIOUS
<1>6. returns' \in Nat /\ returns' >= returns /\ returns' = returns /\ hidden' \in BOOLEAN
  BY <1>1, <1>2
<1> HIDE DEF q, d, o, k, g, h, l
<1>7. HasRoom(k, h, l, checks, q, returns, d, o)
  BY <1>1, <1>2, <1>3, <1>4, FiredLeavesRoom
<1>8. CASE hidden
  <2>1. /\ timer' = t /\ orphans' = rest /\ view' = view /\ checks' = checks
        /\ asking' = asking /\ asked' = asked
    BY <1>8 DEF run
  <2>2. OnSchedule(k, h, l, checks, q, returns, d, o)
    BY <1>1, <1>2, <1>3, <1>7, UnusedRoom
  <2>3. q + (asked' - asked) = q
    BY <1>1, <1>2, <2>1
  <2>4. OnSchedule(timersOf(orphans', timer'), alarms(orphans', timer', startedAt),
                   one(asking' = "loop"), checks', q + (asked' - asked), returns', d, o)
    BY <1>6, <2>1, <2>2, <2>3, Zenon DEF k, h, l
  <2>5. /\ checks' \in 0..POLL_CHECKS_TOTAL
        /\ timer' \in Nat \cup {Unset} /\ orphans' \in Seq(Nat)
        /\ notBefore(orphans', timer', startedAt)
        /\ asking' \in {"nobody", "loop", "else"} /\ asked' \in Nat /\ view' = "polls"
    BY <1>2, <2>1
  <2> QED
    BY <1>5, <1>6, <2>4, <2>5, LoopKeeps DEF q, d, o
<1>9. CASE ~hidden
  <2>1. proceed(t, rest)
    BY <1>9 DEF run
  <2>2. HasRoom(timersOf(rest, t), alarms(rest, t, startedAt), one(asking = "loop"), checks,
                q, returns, checksDue(dateNow - startedAt), o)
    BY <1>7 DEF k, h, l, d
  <2>3. /\ checks' \in 0..POLL_CHECKS_TOTAL
        /\ timer' \in Nat \cup {Unset} /\ orphans' \in Seq(Nat)
        /\ notBefore(orphans', timer', startedAt)
        /\ asking' \in {"nobody", "loop", "else"} /\ asked' \in Nat
        /\ \/ /\ view' = "gaveUp" /\ asked' = asked
              /\ POLL_CHECKS_TOTAL <= checksDue(dateNow - startedAt) + 2 * returns
           \/ /\ view' = "polls"
              /\ OnSchedule(timersOf(orphans', timer'), alarms(orphans', timer', startedAt),
                            one(asking' = "loop"), checks', q + (asked' - asked), returns,
                            checksDue(dateNow - startedAt), o)
    BY <1>1, <1>2, <2>1, <2>2, ProceedKeeps
  <2> QED
    BY <1>5, <1>6, <2>3, LoopKeeps DEF q, o
<1> QED
  BY <1>8, <1>9

\* The timer fires that the loop can still see.
LEMMA TimerRunsKeeps ==
  ASSUME ResultInv, TimerRuns
  PROVE  ResultInv'
<1>1. /\ view = "polls" /\ timer # Unset /\ timer <= dateNow /\ run(Unset, orphans)
      /\ UNCHANGED <<dateNow, windowStart, startedAt, hidden, returns, mounts, earlier>>
  BY DEF TimerRuns, due
<1>2. timer \in Nat /\ orphans \in Seq(Nat) /\ notBefore(orphans, timer, startedAt)
  BY <1>1, LoopNumbers
<1>3. dateNow \in Nat /\ startedAt \in Nat /\ startedAt <= timer
  <2>1. dateNow \in Nat /\ startedAt \in Nat
    BY <1>1, WindowNumbers
  <2> QED
    BY <1>1, <1>2, <2>1 DEF notBefore
<1>4. notBefore(orphans, Unset, startedAt)
  BY <1>2 DEF notBefore
<1>5. timersOf(orphans, timer) = timersOf(orphans, Unset) + 1
  BY <1>1, <1>2, <1>3, SeenTimerFires
<1>6. \A n \in 0..POLL_CHECKS_TOTAL : checksDue(dateNow - startedAt) <= n =>
        alarms(orphans, timer, startedAt)[n] = alarms(orphans, Unset, startedAt)[n] + 1
  BY <1>1, <1>2, <1>3, SeenTimerFires
<1> QED
  BY <1>1, <1>2, <1>4, <1>5, <1>6, RunKeeps

\* A timer fires that it has lost sight of.
LEMMA OrphanRunsKeeps ==
  ASSUME ResultInv, NEW i \in DOMAIN orphans, OrphanRuns(i)
  PROVE  ResultInv'
<1> DEFINE rest == RemoveAt(orphans, i)
<1>1. /\ view = "polls" /\ orphans[i] <= dateNow /\ run(timer, rest)
      /\ UNCHANGED <<dateNow, windowStart, startedAt, hidden, returns, mounts, earlier>>
  BY DEF OrphanRuns, due
<1>2. /\ timer \in Nat \cup {Unset} /\ orphans \in Seq(Nat) /\ notBefore(orphans, timer, startedAt)
      /\ dateNow \in Nat /\ startedAt \in Nat
  BY <1>1, LoopNumbers, WindowNumbers
<1>3. i \in 1..Len(orphans)
  BY <1>2
<1>4. /\ rest \in Seq(Nat) /\ notBefore(rest, timer, startedAt)
      /\ timersOf(orphans, timer) = timersOf(rest, timer) + 1
  BY <1>1, <1>2, <1>3, OrphanFires
<1>5. \A n \in 0..POLL_CHECKS_TOTAL : checksDue(dateNow - startedAt) <= n =>
        alarms(orphans, timer, startedAt)[n] = alarms(rest, timer, startedAt)[n] + 1
  BY <1>1, <1>2, <1>3, OrphanFires
<1> HIDE DEF rest
<1> QED
  BY <1>1, <1>2, <1>4, <1>5, RunKeeps

\* The customer returns to the tab.
LEMMA ShowKeeps ==
  ASSUME ResultInv, Show, view = "polls"
  PROVE  ResultInv'
<1> DEFINE q == asked - earlier - mounts
           d == checksDue(dateNow - startedAt)
           o == checksDue(windowStart - startedAt) + one(windowStart # startedAt)
           k == timersOf(orphans, timer)
           j == timersOf(orphans, Unset)
           g == alarms(orphans, timer, startedAt)
           h == alarms(orphans, Unset, startedAt)
           l == one(asking = "loop")
<1>1. /\ hidden' = FALSE /\ returns' = returns + 1 /\ proceed(Unset, orphans)
      /\ UNCHANGED <<dateNow, windowStart, startedAt, mounts, earlier>>
  BY DEF Show
<1>2. /\ dateNow \in Nat /\ startedAt \in Nat /\ startedAt <= dateNow
      /\ q \in Int /\ returns \in Nat /\ d \in 0..POLL_CHECKS_TOTAL /\ o \in Nat
  BY WindowNumbers
<1>3. /\ timer \in Nat \cup {Unset} /\ orphans \in Seq(Nat) /\ notBefore(orphans, timer, startedAt)
      /\ checks \in 0..POLL_CHECKS_TOTAL /\ asking \in {"nobody", "loop", "else"}
      /\ asked \in Nat /\ k \in Nat /\ g \in [0..POLL_CHECKS_TOTAL -> Nat] /\ l \in 0..1
      /\ OnSchedule(k, g, l, checks, q, returns, d, o)
  BY LoopNumbers
<1>4. notBefore(orphans, Unset, startedAt)
  BY <1>3 DEF notBefore
<1>5. j \in Nat /\ h \in [0..POLL_CHECKS_TOTAL -> Nat]
  BY <1>3, AlarmsType
<1>6. j <= k /\ \A n \in 0..POLL_CHECKS_TOTAL : h[n] <= g[n]
  <2>1. CASE timer = Unset
    BY <1>3, <1>5, <2>1
  <2>2. CASE timer # Unset
    <3>1. timer \in Nat
      BY <1>3, <2>2
    <3>2. k = j + 1
      BY <1>3, <3>1, FiringWith
    <3>3. ASSUME NEW n \in 0..POLL_CHECKS_TOTAL PROVE h[n] <= g[n]
      <4>1. g[n] = firing(orphans, timer, startedAt, n) /\ h[n] = firing(orphans, Unset, startedAt, n)
        BY DEF alarms
      <4>2. \/ firing(orphans, timer, startedAt, n) = firing(orphans, Unset, startedAt, n) + 1
            \/ firing(orphans, timer, startedAt, n) = firing(orphans, Unset, startedAt, n)
        BY <1>3, <3>1, FiringWith
      <4>3. h[n] \in Nat
        BY <1>5
      <4> HIDE DEF g, h
      <4> QED
        BY <4>1, <4>2, <4>3
    <3> HIDE DEF k, j, g, h
    <3> QED
      BY <1>5, <3>2, <3>3
  <2> QED
    BY <2>1, <2>2
<1> HIDE DEF q, d, o, k, j, g, h, l
<1>7. HasRoom(j, h, l, checks, q, returns + 1, d, o)
  BY <1>2, <1>3, <1>5, <1>6, ReturnMakesRoom
<1>8. HasRoom(timersOf(orphans, Unset), alarms(orphans, Unset, startedAt), one(asking = "loop"),
              checks, q, returns + 1, checksDue(dateNow - startedAt), o)
  BY <1>7 DEF j, h, l, d
<1>9. returns + 1 \in Nat /\ returns' \in Nat /\ returns' >= returns
  BY <1>1, <1>2
<1>10. /\ checks' \in 0..POLL_CHECKS_TOTAL
       /\ timer' \in Nat \cup {Unset} /\ orphans' \in Seq(Nat)
       /\ notBefore(orphans', timer', startedAt)
       /\ asking' \in {"nobody", "loop", "else"} /\ asked' \in Nat
       /\ \/ /\ view' = "gaveUp" /\ asked' = asked
             /\ POLL_CHECKS_TOTAL <= checksDue(dateNow - startedAt) + 2 * (returns + 1)
          \/ /\ view' = "polls"
             /\ OnSchedule(timersOf(orphans', timer'), alarms(orphans', timer', startedAt),
                           one(asking' = "loop"), checks', q + (asked' - asked), returns + 1,
                           checksDue(dateNow - startedAt), o)
  BY <1>1, <1>2, <1>3, <1>4, <1>8, <1>9, ProceedKeeps
<1>11. \/ /\ view' = "gaveUp" /\ asked' = asked
          /\ POLL_CHECKS_TOTAL <= checksDue(dateNow - startedAt) + 2 * returns'
       \/ /\ view' = "polls"
          /\ OnSchedule(timersOf(orphans', timer'), alarms(orphans', timer', startedAt),
                        one(asking' = "loop"), checks', q + (asked' - asked), returns',
                        checksDue(dateNow - startedAt), o)
  BY <1>1, <1>10, Zenon
<1> QED
  BY <1>1, <1>9, <1>10, <1>11, LoopKeeps DEF q, o

\* The answer to a question of the loop.
LEMMA StillPendingKeeps ==
  ASSUME ResultInv, StillPending, view = "polls"
  PROVE  ResultInv'
<1> DEFINE q == asked - earlier - mounts
           d == checksDue(dateNow - startedAt)
           o == checksDue(windowStart - startedAt) + one(windowStart # startedAt)
           k == timersOf(orphans, timer)
           g == alarms(orphans, timer, startedAt)
           l == one(asking = "loop")
<1>1. /\ asking # "nobody" /\ asking' = "nobody" /\ asked' = asked
      /\ hidden' = hidden /\ returns' = returns
      /\ UNCHANGED <<dateNow, windowStart, startedAt, mounts, earlier>>
  BY DEF StillPending
<1>2. /\ dateNow \in Nat /\ startedAt \in Nat /\ startedAt <= dateNow
      /\ q \in Int /\ returns \in Nat /\ d \in 0..POLL_CHECKS_TOTAL /\ o \in Nat
  BY WindowNumbers
<1>3. /\ timer \in Nat \cup {Unset} /\ orphans \in Seq(Nat) /\ notBefore(orphans, timer, startedAt)
      /\ checks \in 0..POLL_CHECKS_TOTAL
      /\ asked \in Nat /\ hidden \in BOOLEAN
      /\ k \in Nat /\ g \in [0..POLL_CHECKS_TOTAL -> Nat] /\ l \in 0..1
      /\ OnSchedule(k, g, l, checks, q, returns, d, o)
  BY LoopNumbers
<1>4. one(asking' = "loop") = 0
  BY <1>1, Zenon DEF one
<1>5. returns' \in Nat /\ returns' >= returns /\ hidden' \in BOOLEAN /\ asked' \in Nat
  BY <1>1, <1>2, <1>3
<1>6. q + (asked' - asked) = q
  BY <1>1, <1>2, <1>3
<1> HIDE DEF q, d, o, k, g, l
<1>7. CASE asking = "else"
  <2>1. view' = view /\ checks' = checks /\ timer' = timer /\ orphans' = orphans
    BY <1>7 DEF StillPending
  <2>2. l = 0
    BY <1>7, Zenon DEF one, l
  <2>3. OnSchedule(timersOf(orphans', timer'), alarms(orphans', timer', startedAt),
                   one(asking' = "loop"), checks', q + (asked' - asked), returns', d, o)
    BY <1>1, <1>3, <1>4, <1>6, <2>1, <2>2, Zenon DEF k, g
  <2>4. /\ checks' \in 0..POLL_CHECKS_TOTAL
        /\ timer' \in Nat \cup {Unset} /\ orphans' \in Seq(Nat)
        /\ notBefore(orphans', timer', startedAt) /\ view' = "polls"
    BY <1>3, <2>1
  <2> QED
    BY <1>1, <1>5, <2>3, <2>4, LoopKeeps DEF q, d, o
<1>8. CASE asking # "else" /\ checks >= POLL_CHECKS_TOTAL
  <2>1. view' = "gaveUp" /\ timer' = Unset /\ orphans' = <<>> /\ checks' = checks
    BY <1>8 DEF StillPending
  <2>2. checks <= d + 2 * returns
    BY <1>2, <1>3, ScheduleBounds
  <2>3. POLL_CHECKS_TOTAL <= d + 2 * returns'
    BY <1>1, <1>2, <1>3, <1>8, <2>2, ResultAssumption
  <2>4. /\ checks' \in 0..POLL_CHECKS_TOTAL
        /\ timer' \in Nat \cup {Unset} /\ orphans' \in Seq(Nat)
        /\ notBefore(orphans', timer', startedAt)
    BY <1>3, <2>1 DEF notBefore
  <2> QED
    BY <1>1, <1>5, <2>1, <2>3, <2>4, LoopKeeps DEF d
<1>9. CASE asking # "else" /\ checks < POLL_CHECKS_TOTAL
  <2> DEFINE s == parked(orphans, timer)
             u == nextAt(checks, startedAt)
             h == alarms(s, u, startedAt)
  <2>1. view' = view /\ checks' = checks /\ timer' = u /\ orphans' = s
    BY <1>3, <1>9, ResultAssumption DEF StillPending, setTimers, parked
  <2>2. u \in Nat /\ u >= startedAt /\ checksDue(u - startedAt) >= checks + 1
    BY <1>2, <1>3, <1>9, NextIsAhead, ResultAssumption
  <2>3. l = 1
    <3>1. asking = "loop"
      BY <1>1, <1>9, LoopNumbers
    <3> QED
      BY <3>1, Zenon DEF one, l
  <2> HIDE DEF u
  <2>4. /\ s \in Seq(Nat) /\ timersOf(s, Unset) = k /\ alarms(s, Unset, startedAt) = g
        /\ notBefore(s, u, startedAt)
    BY <1>3, <2>2, KeptTimers DEF k, g
  <2> HIDE DEF s
  <2>5. timersOf(s, u) = k + 1 /\ \A n \in 0..POLL_CHECKS_TOTAL : n <= checks => h[n] = g[n]
    <3> HIDE DEF h
    <3>1. startedAt <= u /\ checks \in Nat
      BY <1>2, <1>3, <2>2
    <3>2. timersOf(s, u) = timersOf(s, Unset) + 1
      BY <1>2, <2>2, <2>4, <3>1, TimerAhead
    <3>3. \A n \in 0..POLL_CHECKS_TOTAL : n <= checks =>
            alarms(s, u, startedAt)[n] = alarms(s, Unset, startedAt)[n]
      BY <1>2, <2>2, <2>4, <3>1, TimerAhead
    <3> QED
      BY <2>4, <3>2, <3>3 DEF h
  <2>6. h \in [0..POLL_CHECKS_TOTAL -> Nat]
    BY <2>2, <2>4, AlarmsType
  <2> HIDE DEF h
  <2>7. OnSchedule(k, g, 1, checks, q, returns, d, o)
    BY <1>3, <2>3, Zenon
  <2>8. OnSchedule(k + 1, h, 0, checks, q, returns, d, o)
    BY <1>2, <1>3, <2>5, <2>6, <2>7, AnswerOnSchedule
  <2>9. OnSchedule(timersOf(orphans', timer'), alarms(orphans', timer', startedAt),
                   one(asking' = "loop"), checks', q + (asked' - asked), returns', d, o)
    BY <1>1, <1>4, <1>6, <2>1, <2>5, <2>8, Zenon DEF h
  <2>10. /\ checks' \in 0..POLL_CHECKS_TOTAL
         /\ timer' \in Nat \cup {Unset} /\ orphans' \in Seq(Nat)
         /\ notBefore(orphans', timer', startedAt) /\ view' = "polls"
    BY <1>3, <2>1, <2>2, <2>4
  <2> QED
    BY <1>1, <1>5, <2>9, <2>10, LoopKeeps DEF q, d, o
<1>10. checks >= POLL_CHECKS_TOTAL \/ checks < POLL_CHECKS_TOTAL
  BY <1>3, ResultAssumption
<1> QED
  BY <1>7, <1>8, <1>9, <1>10

\* The page is left.
LEMMA LeaveResultKeeps ==
  ASSUME ResultInv, LeaveResult
  PROVE  ResultInv'
<1>1. /\ view \in {"polls", "gaveUp"} /\ view' = "closed" /\ timer' = Unset /\ orphans' = <<>>
      /\ asking' = "nobody"
      /\ UNCHANGED <<dateNow, windowStart, startedAt, checks, hidden, asked, returns, mounts,
                     earlier>>
  BY DEF LeaveResult
<1>2. windowStart # Unset /\ windowStart <= dateNow
  BY <1>1 DEF ResultInv, WindowsAreSound
<1>3. <<>> \in Seq(Nat)
  OBVIOUS
<1>4. ResultTypeOK'
  BY <1>1, <1>3 DEF ResultInv, ResultTypeOK
<1>5. WindowsAreSound'
  BY <1>1, <1>2 DEF WindowsAreSound, notBefore
<1>6. PollsOnSchedule'
  BY <1>1 DEF PollsOnSchedule
<1>7. AsksOnSchedule'
  BY <1>1 DEF ResultInv, AsksOnSchedule
<1> QED
  BY <1>4, <1>5, <1>6, <1>7 DEF ResultInv

\* The tab is hidden.
LEMMA HideKeeps ==
  ASSUME ResultInv, Hide
  PROVE  ResultInv'
<1>1. /\ hidden' = TRUE
      /\ UNCHANGED <<dateNow, windowStart, view, startedAt, checks, timer, orphans, asking,
                     asked, returns, mounts, earlier>>
  BY DEF Hide
<1>2. ResultTypeOK'
  BY <1>1 DEF ResultInv, ResultTypeOK
<1>3. WindowsAreSound' /\ PollsOnSchedule' /\ AsksOnSchedule'
  BY <1>1 DEF ResultInv, WindowsAreSound, PollsOnSchedule, AsksOnSchedule
<1> QED
  BY <1>2, <1>3 DEF ResultInv

\* The customer returns to a page that does not poll.
LEMMA ShowElsewhereKeeps ==
  ASSUME ResultInv, Show, view # "polls"
  PROVE  ResultInv'
<1>1. /\ hidden' = FALSE /\ returns' = returns + 1
      /\ UNCHANGED <<view, checks, timer, orphans, asking, asked>>
      /\ UNCHANGED <<dateNow, windowStart, startedAt, mounts, earlier>>
  BY DEF Show
<1>2. ResultTypeOK
  BY DEF ResultInv
<1>3. ResultTypeOK'
  <2>1. returns + 1 \in Nat /\ FALSE \in BOOLEAN
    BY <1>2 DEF ResultTypeOK
  <2> QED
    BY <1>1, <1>2, <2>1 DEF ResultTypeOK
<1>4. WindowsAreSound'
  <2>1. asked - earlier - mounts <= returns => asked - earlier - mounts <= returns + 1
    BY <1>2 DEF ResultTypeOK
  <2> QED
    BY <1>1, <2>1 DEF ResultInv, WindowsAreSound
<1>5. PollsOnSchedule'
  BY <1>1 DEF PollsOnSchedule
<1>6. AsksOnSchedule'
  <2>1. /\ view = "gaveUp" => windowStart # Unset
        /\ windowStart # Unset => checksDue(dateNow - windowStart) \in Nat
        /\ view = "gaveUp" => checksDue(dateNow - startedAt) \in Nat
    <3>1. ASSUME windowStart # Unset PROVE checksDue(dateNow - windowStart) \in Nat
      <4>1. dateNow - windowStart \in Nat
        BY <1>2, <3>1 DEF ResultInv, ResultTypeOK, WindowsAreSound
      <4> QED
        BY <4>1, DueCountsDeadlines
    <3>2. ASSUME view = "gaveUp"
          PROVE  windowStart # Unset /\ checksDue(dateNow - startedAt) \in Nat
      BY <3>2, WindowNumbers, ResultAssumption
    <3> QED
      BY <3>1, <3>2
  <2>2. ASSUME windowStart # Unset
        PROVE  asked <= earlier + checksDue(dateNow - windowStart) + (returns + 1) + mounts
    <3>1. asked <= earlier + checksDue(dateNow - windowStart) + returns + mounts
      BY <2>2 DEF ResultInv, AsksOnSchedule
    <3> QED
      BY <1>2, <2>1, <2>2, <3>1 DEF ResultTypeOK
  <2>3. ASSUME view = "gaveUp"
        PROVE  POLL_CHECKS_TOTAL <= checksDue(dateNow - startedAt) + 2 * (returns + 1)
    <3>1. POLL_CHECKS_TOTAL <= checksDue(dateNow - startedAt) + 2 * returns
      BY <2>3 DEF ResultInv, AsksOnSchedule
    <3> QED
      BY <1>2, <2>1, <2>3, <3>1, ResultAssumption DEF ResultTypeOK
  <2> QED
    BY <1>1, <2>2, <2>3 DEF AsksOnSchedule
<1> QED
  BY <1>3, <1>4, <1>5, <1>6 DEF ResultInv

\* An answer that no loop waits for.
LEMMA StillPendingElsewhereKeeps ==
  ASSUME ResultInv, StillPending, view # "polls"
  PROVE  ResultInv'
<1>1. /\ asking' = "nobody" /\ UNCHANGED <<view, checks, timer, orphans>>
      /\ UNCHANGED <<dateNow, windowStart, startedAt, hidden, asked, returns, mounts, earlier>>
  BY DEF StillPending
<1> QED
  BY <1>1 DEF ResultInv, ResultTypeOK, WindowsAreSound, PollsOnSchedule, AsksOnSchedule

\* The order is decided.
LEMMA DecidedKeeps ==
  ASSUME ResultInv, Decided
  PROVE  ResultInv'
<1>1. /\ asking' = "nobody" /\ view' = "decided" /\ windowStart' = Unset /\ timer' = Unset
      /\ orphans' = <<>>
      /\ UNCHANGED <<dateNow, startedAt, checks, hidden, asked, returns, mounts, earlier>>
  BY DEF Decided
<1>2. <<>> \in Seq(Nat)
  OBVIOUS
<1>3. ResultTypeOK'
  BY <1>1, <1>2 DEF ResultInv, ResultTypeOK
<1>4. WindowsAreSound' /\ PollsOnSchedule' /\ AsksOnSchedule'
  BY <1>1 DEF WindowsAreSound, notBefore, PollsOnSchedule, AsksOnSchedule
<1> QED
  BY <1>3, <1>4 DEF ResultInv

\* Time passes: more deadlines are due.
LEMMA TimePassesKeeps ==
  ASSUME ResultInv, TimePasses
  PROVE  ResultInv'
<1>1. /\ dateNow' = dateNow + 1
      /\ UNCHANGED <<windowStart, view, startedAt, checks, timer, orphans, asking, hidden,
                     asked, returns, mounts, earlier>>
  BY DEF TimePasses
<1>2. ResultTypeOK /\ dateNow \in Nat
  BY DEF ResultInv, ResultTypeOK
<1>3. ResultTypeOK'
  BY <1>1, <1>2 DEF ResultTypeOK
<1>4. WindowsAreSound'
  <2>1. windowStart # Unset => windowStart <= dateNow + 1
    BY <1>2 DEF ResultInv, ResultTypeOK, WindowsAreSound
  <2> QED
    BY <1>1, <2>1 DEF ResultInv, WindowsAreSound
<1>5. ASSUME NEW x \in Nat, x <= dateNow
      PROVE  /\ checksDue(dateNow - x) <= checksDue(dateNow' - x)
             /\ checksDue(dateNow - x) \in Nat /\ checksDue(dateNow' - x) \in Nat
  <2>1. dateNow - x \in Nat /\ dateNow' - x \in Nat /\ dateNow - x <= dateNow' - x
    BY <1>1, <1>2, <1>5
  <2> QED
    BY <2>1, DueGrows, DueCountsDeadlines
<1>6. PollsOnSchedule'
  <2> SUFFICES ASSUME view = "polls"
               PROVE  OnSchedule(timersOf(orphans, timer), alarms(orphans, timer, startedAt),
                                 one(asking = "loop"), checks, asked - earlier - mounts, returns,
                                 checksDue(dateNow' - startedAt),
                                 checksDue(windowStart - startedAt) + one(windowStart # startedAt))
    BY <1>1 DEF PollsOnSchedule
  <2>1. startedAt \in Nat /\ startedAt <= dateNow
    BY WindowNumbers
  <2>2. /\ checksDue(dateNow - startedAt) <= checksDue(dateNow' - startedAt)
        /\ checksDue(dateNow - startedAt) \in Nat /\ checksDue(dateNow' - startedAt) \in Nat
    BY <1>5, <2>1
  <2>3. OnSchedule(timersOf(orphans, timer), alarms(orphans, timer, startedAt),
                   one(asking = "loop"), checks, asked - earlier - mounts, returns,
                   checksDue(dateNow - startedAt),
                   checksDue(windowStart - startedAt) + one(windowStart # startedAt))
    BY LoopNumbers
  <2> QED
    BY <2>2, <2>3, LaterOnSchedule
<1>7. AsksOnSchedule'
  <2>1. ASSUME windowStart # Unset
        PROVE  asked <= earlier + checksDue(dateNow' - windowStart) + returns + mounts
    <3>1. windowStart \in Nat /\ windowStart <= dateNow
      BY <1>2, <2>1 DEF ResultInv, ResultTypeOK, WindowsAreSound
    <3>2. asked <= earlier + checksDue(dateNow - windowStart) + returns + mounts
      BY <2>1 DEF ResultInv, AsksOnSchedule
    <3>3. /\ checksDue(dateNow - windowStart) <= checksDue(dateNow' - windowStart)
          /\ checksDue(dateNow - windowStart) \in Nat /\ checksDue(dateNow' - windowStart) \in Nat
      BY <1>5, <3>1
    <3>4. asked \in Nat /\ earlier \in Nat /\ returns \in Nat /\ mounts \in Nat
      BY <1>2 DEF ResultTypeOK
    <3> QED
      BY <3>2, <3>3, <3>4
  <2>2. ASSUME view = "gaveUp"
        PROVE  POLL_CHECKS_TOTAL <= checksDue(dateNow' - startedAt) + 2 * returns
    <3>1. startedAt \in Nat /\ startedAt <= dateNow
      BY <2>2, WindowNumbers
    <3>2. POLL_CHECKS_TOTAL <= checksDue(dateNow - startedAt) + 2 * returns
      BY <2>2 DEF ResultInv, AsksOnSchedule
    <3>3. /\ checksDue(dateNow - startedAt) <= checksDue(dateNow' - startedAt)
          /\ checksDue(dateNow - startedAt) \in Nat /\ checksDue(dateNow' - startedAt) \in Nat
      BY <1>5, <3>1
    <3>4. returns \in Nat /\ POLL_CHECKS_TOTAL \in Nat
      BY <1>2, ResultAssumption DEF ResultTypeOK
    <3> QED
      BY <3>2, <3>3, <3>4
  <2> QED
    BY <1>1, <2>1, <2>2 DEF AsksOnSchedule
<1> QED
  BY <1>3, <1>4, <1>6, <1>7 DEF ResultInv

\* The customer asks again, while the loop goes on or after it gave up.
LEMMA CheckAgainKeeps ==
  ASSUME ResultInv, CheckAgain
  PROVE  ResultInv'
<1> DEFINE q == asked - earlier - mounts
           w == checksDue(dateNow - windowStart)
           p == asked' - earlier' - mounts'
           a == asked' - asked
<1>1. /\ view \in {"polls", "gaveUp"}
      /\ asking' = IF view = "polls" /\ asking = "loop" THEN "loop" ELSE "else"
      /\ asked' = IF asking = "nobody" THEN asked + 1 ELSE asked
      /\ mounts' = mounts + 1
      /\ earlier' = earlier + w + 1
      /\ dateNow' = dateNow /\ hidden' = hidden /\ returns' = returns
  BY DEF CheckAgain
<1>2. /\ dateNow \in Nat /\ windowStart \in Nat /\ startedAt \in Nat
      /\ startedAt <= windowStart /\ windowStart <= dateNow /\ startedAt <= dateNow
      /\ q \in Int /\ returns \in Nat /\ w \in Nat /\ q <= w + returns
  BY <1>1, WindowNumbers
<1>3. asked \in Nat /\ earlier \in Nat /\ mounts \in Nat /\ hidden \in BOOLEAN
  BY DEF ResultInv, ResultTypeOK
<1> HIDE DEF w
<1>4. /\ asked' \in Nat /\ earlier' \in Nat /\ mounts' \in Nat
      /\ a \in 0..1 /\ p = q + a - (w + 1) - 1 /\ p \in Int /\ p <= returns
  BY <1>1, <1>2, <1>3
<1>5. asking' \in {"loop", "else"} /\ hidden' \in BOOLEAN
  BY <1>1, <1>3
<1> HIDE DEF p, a, q
<1>6. CASE view = "gaveUp"
  <2>1. effectStarts(dateNow)
    BY <1>6 DEF CheckAgain
  <2>2. dateNow - dateNow = 0
    BY <1>2
  <2>3. checksDue(dateNow - dateNow) = 0
    BY <2>2, NothingDueAtOnce
  <2>4. p <= checksDue(dateNow - dateNow) + returns
    BY <1>2, <1>4, <2>3
  <2>5. /\ windowStart' = dateNow /\ startedAt' = dateNow
        /\ checks' \in 0..POLL_CHECKS_TOTAL
        /\ timer' \in Nat \cup {Unset} /\ orphans' \in Seq(Nat)
        /\ notBefore(orphans', timer', dateNow)
        /\ \/ /\ view' = "gaveUp"
              /\ POLL_CHECKS_TOTAL <= checksDue(dateNow - dateNow) + 2 * returns
           \/ /\ view' = "polls"
              /\ OnSchedule(timersOf(orphans', timer'), alarms(orphans', timer', dateNow), 0,
                            checks', p, returns, checksDue(dateNow - dateNow),
                            checksDue(dateNow - dateNow) + one(dateNow # dateNow))
    BY <1>2, <1>4, <2>1, <2>4, EffectKeeps
  <2>6. ResultTypeOK'
    <3>1. view' \in {"closed", "polls", "gaveUp", "decided"}
      BY <2>5
    <3>2. dateNow' \in Nat /\ windowStart' \in Nat /\ startedAt' \in Nat /\ returns' \in Nat
      BY <1>1, <1>2, <2>5
    <3> QED
      BY <1>4, <1>5, <2>5, <3>1, <3>2 DEF ResultTypeOK
  <2>7. WindowsAreSound'
    <3>1. windowStart' # Unset /\ windowStart' <= dateNow' /\ startedAt' <= windowStart'
      BY <1>1, <1>2, <2>5, ResultAssumption
    <3>2. notBefore(orphans', timer', startedAt')
      BY <2>5
    <3> QED
      BY <3>1, <3>2 DEF WindowsAreSound
  <2>8. PollsOnSchedule'
    <3>1. one(asking' = "loop") = 0
      <4>1. asking' # "loop"
        BY <1>1, <1>6
      <4> QED
        BY <4>1, Zenon DEF one
    <3> SUFFICES ASSUME view' = "polls"
                 PROVE  OnSchedule(timersOf(orphans', timer'), alarms(orphans', timer', startedAt'),
                                   one(asking' = "loop"), checks', asked' - earlier' - mounts',
                                   returns', checksDue(dateNow' - startedAt'),
                                   checksDue(windowStart' - startedAt')
                                     + one(windowStart' # startedAt'))
      BY DEF PollsOnSchedule
    <3>2. OnSchedule(timersOf(orphans', timer'), alarms(orphans', timer', dateNow), 0,
                     checks', p, returns, checksDue(dateNow - dateNow),
                     checksDue(dateNow - dateNow) + one(dateNow # dateNow))
      BY <2>5
    <3> QED
      BY <1>1, <2>5, <3>1, <3>2, Zenon DEF p
  <2>9. AsksOnSchedule'
    <3>1. asked' <= earlier' + checksDue(dateNow' - windowStart') + returns' + mounts'
      <4>1. checksDue(dateNow' - windowStart') = 0
        BY <1>1, <2>3, <2>5
      <4> QED
        BY <1>1, <1>2, <1>4, <4>1 DEF p
    <3>2. view' = "gaveUp" => POLL_CHECKS_TOTAL <= checksDue(dateNow' - startedAt') + 2 * returns'
      BY <1>1, <2>5
    <3> QED
      BY <3>1, <3>2 DEF AsksOnSchedule
  <2> QED
    BY <2>6, <2>7, <2>8, <2>9 DEF ResultInv
<1>7. CASE view = "polls"
  <2> DEFINE k == timersOf(orphans, timer)
             g == alarms(orphans, timer, startedAt)
             l == one(asking = "loop")
             m == one(asking' = "loop")
             d == checksDue(dateNow - startedAt)
             o == checksDue(windowStart - startedAt) + one(windowStart # startedAt)
             u == checksDue(dateNow - startedAt) + one(dateNow # startedAt)
  <2>1. windowStart' = dateNow /\ UNCHANGED <<view, startedAt, checks, timer, orphans>>
    BY <1>7 DEF CheckAgain
  <2>2. /\ timer \in Nat \cup {Unset} /\ orphans \in Seq(Nat) /\ notBefore(orphans, timer, startedAt)
        /\ checks \in 0..POLL_CHECKS_TOTAL
        /\ k \in Nat /\ g \in [0..POLL_CHECKS_TOTAL -> Nat] /\ l \in 0..1
        /\ OnSchedule(k, g, l, checks, q, returns, d, o)
    BY <1>7, LoopNumbers DEF q
  <2>3. d \in 0..POLL_CHECKS_TOTAL /\ o \in Nat
    BY <1>1, WindowNumbers
  <2>4. u \in Nat
    <3>1. one(dateNow # startedAt) \in Nat
      BY DEF one
    <3> QED
      BY <2>3, <3>1
  <2>5. p + u <= q + o
    <3> DEFINE x == one(dateNow # startedAt)
               y == one(windowStart # startedAt)
    <3>1. x \in 0..1 /\ y \in 0..1 /\ (windowStart # startedAt => y = 1)
      <4>1. x \in 0..1
        BY DEF one
      <4>2. y \in 0..1
        BY DEF one
      <4>3. windowStart # startedAt => y = 1
        BY Zenon DEF one
      <4> QED
        BY <4>1, <4>2, <4>3
    <3> HIDE DEF x, y
    <3>2. (q + a - (checksDue(dateNow - windowStart) + 1) - 1) + (checksDue(dateNow - startedAt) + x)
            <= q + (checksDue(windowStart - startedAt) + y)
      BY <1>2, <1>4, <3>1, WindowMoves
    <3> QED
      BY <1>4, <3>2 DEF w, x, y
  <2>6. m \in 0..1 /\ m <= l
    <3>1. CASE asking = "loop"
      <4>1. l = 1
        BY <3>1, Zenon DEF one
      <4>2. m \in 0..1
        BY DEF one
      <4> HIDE DEF l, m
      <4> QED
        BY <4>1, <4>2
    <3>2. CASE asking # "loop"
      <4>1. asking' # "loop"
        BY <1>1, <3>2
      <4>2. m = 0
        BY <4>1, Zenon DEF one
      <4> HIDE DEF l, m
      <4> QED
        BY <2>2, <4>2
    <3> QED
      BY <3>1, <3>2
  <2> HIDE DEF k, g, l, m, d, o, u
  <2>7. OnSchedule(k, g, m, checks, p, returns, d, u)
    BY <1>2, <1>4, <2>2, <2>3, <2>4, <2>5, <2>6, LessOnSchedule
  <2>8. ResultTypeOK'
    <3>1. dateNow' \in Nat /\ windowStart' \in Nat /\ startedAt' \in Nat /\ returns' \in Nat
      BY <1>1, <1>2, <2>1
    <3>2. view' \in {"closed", "polls", "gaveUp", "decided"}
      BY <1>7, <2>1
    <3> QED
      BY <1>4, <1>5, <2>1, <2>2, <3>1, <3>2 DEF ResultTypeOK
  <2>9. WindowsAreSound'
    <3>1. windowStart' # Unset /\ windowStart' <= dateNow' /\ startedAt' <= windowStart'
      BY <1>1, <1>2, <2>1, ResultAssumption
    <3> QED
      BY <2>1, <2>2, <3>1 DEF WindowsAreSound
  <2>10. PollsOnSchedule'
    <3> SUFFICES OnSchedule(timersOf(orphans', timer'), alarms(orphans', timer', startedAt'),
                            one(asking' = "loop"), checks', asked' - earlier' - mounts',
                            returns', checksDue(dateNow' - startedAt'),
                            checksDue(windowStart' - startedAt')
                              + one(windowStart' # startedAt'))
      BY DEF PollsOnSchedule
    <3> QED
      BY <1>1, <2>1, <2>7, Zenon DEF k, g, m, p, d, u
  <2>11. AsksOnSchedule'
    <3>1. asked' <= earlier' + checksDue(dateNow' - windowStart') + returns' + mounts'
      <4>1. dateNow' - windowStart' = 0
        BY <1>1, <1>2, <2>1
      <4>2. checksDue(dateNow' - windowStart') = 0
        BY <4>1, NothingDueAtOnce
      <4> QED
        BY <1>1, <1>2, <1>4, <4>2 DEF p
    <3>2. view' # "gaveUp"
      BY <1>7, <2>1
    <3> QED
      BY <3>1, <3>2 DEF AsksOnSchedule
  <2> QED
    BY <2>8, <2>9, <2>10, <2>11 DEF ResultInv
<1> QED
  BY <1>1, <1>6, <1>7

\* Every step keeps the invariant.
LEMMA ResultInvStep == ResultInv /\ [ResultNext]_resultVars => ResultInv'
<1> SUFFICES ASSUME ResultInv, [ResultNext]_resultVars PROVE ResultInv'
  OBVIOUS
<1>1. CASE LoadResult
  BY <1>1, LoadResultKeeps
<1>2. CASE LeaveResult
  BY <1>2, LeaveResultKeeps
<1>3. CASE CheckAgain
  BY <1>3, CheckAgainKeeps
<1>4. CASE TimerRuns
  BY <1>4, TimerRunsKeeps
<1>5. ASSUME NEW i \in DOMAIN orphans, OrphanRuns(i) PROVE ResultInv'
  BY <1>5, OrphanRunsKeeps
<1>6. CASE Hide
  BY <1>6, HideKeeps
<1>7. CASE Show
  BY <1>7, ShowKeeps, ShowElsewhereKeeps
<1>8. CASE StillPending
  BY <1>8, StillPendingKeeps, StillPendingElsewhereKeeps
<1>9. CASE Decided
  BY <1>9, DecidedKeeps
<1>10. CASE TimePasses
  BY <1>10, TimePassesKeeps
<1>11. CASE UNCHANGED resultVars
  <2>1. UNCHANGED <<dateNow, windowStart, view, startedAt, checks, timer, orphans, asking,
                    hidden, asked, returns, mounts, earlier>>
    BY <1>11 DEF resultVars
  <2> QED
    BY <2>1 DEF ResultInv, ResultTypeOK, WindowsAreSound, PollsOnSchedule, AsksOnSchedule
<1> QED
  BY <1>1, <1>2, <1>3, <1>4, <1>5, <1>6, <1>7, <1>8, <1>9, <1>10, <1>11 DEF ResultNext

\* The invariant.
THEOREM ResultInvariant == ResultSpec => []ResultInv
  BY ResultInvInit, ResultInvStep, PTL DEF ResultSpec

\* Its state stays well typed: in particular no check is counted beyond the last.
THEOREM ResultTypesHold == ResultSpec => []ResultTypeOK
<1>1. ResultInv => ResultTypeOK
  BY DEF ResultInv
<1> QED
  BY <1>1, ResultInvariant, PTL

\* Whatever hidden tabs, reloads, slow answers and lost timers do, the page asks no
\* more often than its deadlines allow, and gives up no earlier.
THEOREM PageAsksOnSchedule == ResultSpec => []AsksOnSchedule
<1>1. ResultInv => AsksOnSchedule
  BY DEF ResultInv
<1> QED
  BY <1>1, ResultInvariant, PTL
=============================================================================
