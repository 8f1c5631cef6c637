--------------------------- MODULE OrderStockProofs ---------------------------
(***************************************************************************)
(* OrderStock for every set of products, customers, keys and orders.       *)
(***************************************************************************)
EXTENDS OrderStock, FiniteSetTheorems, TLAPS

\* Both parts are needed in a step: releaseStock runs only on a row that is on
\* file (TypeOK), and a release from a live status is the first one because no
\* live order was ever released (ReleasedAtMostOnce).
IInv == TypeOK /\ ReleasedAtMostOnce

-----------------------------------------------------------------------------

\* A basket on file holds, for every product, a natural number of units
\* (cleanQtyItems lets no other quantity into a row).
LEMMA BasketLines ==
  ASSUME NEW b \in Basket, NEW p \in Products
  PROVE  b.lines[p] \in Nat
  BY ConstantsAssumption DEF Basket, Lines

\* A basket is never mistaken for the empty row.
LEMMA BasketIsNotNone == NoBasket \notin Basket
  BY ConstantsAssumption DEF Basket, Lines

\* Releasing the goods of an order on file gives a well-typed stock column.
LEMMA ReleaseType ==
  ASSUME TypeOK, NEW o \in Orders, placed[o] # NoBasket, releaseStock(o)
  PROVE  stock' \in [Products -> Nat] /\ released' \in [Orders -> Nat]
<1>1. placed[o] \in Basket
  BY DEF TypeOK
<1>2. \A p \in Products : stock[p] + placed[o].lines[p] \in Nat
  BY <1>1, BasketLines DEF TypeOK
<1>3. released[o] + 1 \in Nat
  BY DEF TypeOK
<1> QED
  BY <1>2, <1>3 DEF releaseStock, TypeOK

\* closeOrder, the shape of every transaction that releases, keeps the
\* invariant when it leads from live statuses to a dead one.
LEMMA CloseKeepsIInv ==
  ASSUME IInv, NEW o \in Orders,
         NEW from \in SUBSET Live, NEW to \in Dead, closeOrder(o, from, to)
  PROVE  IInv'
<1>1. /\ status[o] \in Live
      /\ status' = [status EXCEPT ![o] = to]
      /\ released' = [released EXCEPT ![o] = @ + 1]
      /\ UNCHANGED <<placed, deliveredAt, supplied>>
  BY DEF closeOrder, setStatus, releaseStock
<1>2. placed[o] # NoBasket /\ released[o] = 0
  BY <1>1 DEF IInv, TypeOK, ReleasedAtMostOnce, Live, Dead
<1>3. TypeOK'
  <2>1. stock' \in [Products -> Nat] /\ released' \in [Orders -> Nat]
    BY <1>2, ReleaseType DEF IInv, closeOrder
  <2> QED
    BY <1>1, <1>2, <2>1 DEF IInv, TypeOK, Status, Dead
<1>4. ReleasedAtMostOnce'
  BY <1>1, <1>2 DEF IInv, TypeOK, ReleasedAtMostOnce, Live, Dead
<1> QED
  BY <1>3, <1>4 DEF IInv

\* An order that comes in keeps the invariant.
LEMMA InsertKeepsIInv ==
  ASSUME IInv, NEW o \in Orders, NEW u \in Users, NEW k \in Keys \cup {NoKey},
         NEW l \in Lines, NEW st \in {"pending_payment", "paid"},
         insertOrder(o, u, k, l, st)
  PROVE  IInv'
<1> DEFINE b == [user |-> u, key |-> k, lines |-> l]
<1>1. b \in Basket /\ b # NoBasket
  BY BasketIsNotNone DEF Basket
<1>2. /\ status[o] = "none"
      /\ status' = [status EXCEPT ![o] = st]
      /\ placed' = [placed EXCEPT ![o] = b]
      /\ UNCHANGED <<deliveredAt, released, supplied>>
  BY DEF insertOrder, setStatus
<1>3. stock' \in [Products -> Nat]
  <2>1. \A p \in Products : l[p] \in Nat /\ stock[p] >= l[p]
    BY ConstantsAssumption DEF insertOrder, reserveStock, Lines
  <2>2. \A p \in Products : stock[p] - l[p] \in Nat
    BY <2>1 DEF IInv, TypeOK
  <2> QED
    BY <2>2 DEF insertOrder, reserveStock
<1>4. TypeOK'
  BY <1>1, <1>2, <1>3 DEF IInv, TypeOK, Status, Live
<1>5. ReleasedAtMostOnce'
  BY <1>2 DEF IInv, TypeOK, ReleasedAtMostOnce, Live, Dead
<1> QED
  BY <1>4, <1>5 DEF IInv

\* A status that moves between live statuses, or from paid or shipped to
\* canceled by the panel, keeps the invariant.
LEMMA MoveKeepsIInv ==
  ASSUME IInv, NEW o \in Orders, NEW to \in Status,
         status[o] \in Live, to \in Live \cup {"canceled"},
         status' = [status EXCEPT ![o] = to],
         deliveredAt' \in [Orders -> DeliveredAt],
         UNCHANGED <<stock, placed, released, supplied>>
  PROVE  IInv'
<1>1. TypeOK'
  BY DEF IInv, TypeOK, Live
<1>2. ReleasedAtMostOnce'
  BY DEF IInv, TypeOK, ReleasedAtMostOnce, Live, Dead
<1> QED
  BY <1>1, <1>2 DEF IInv

\* The panel writes a stock figure.
LEMMA WriteKeepsIInv ==
  ASSUME IInv, NEW p \in Products, NEW v \in Nat, writeStock(p, v)
  PROVE  IInv'
<1>1. TypeOK'
  BY DEF IInv, TypeOK, writeStock, rowVars
<1>2. ReleasedAtMostOnce'
  BY DEF IInv, ReleasedAtMostOnce, writeStock, rowVars
<1> QED
  BY <1>1, <1>2 DEF IInv

-----------------------------------------------------------------------------

\* The empty order table satisfies the invariant.
LEMMA InitIInv == Init => IInv
<1> SUFFICES ASSUME Init PROVE IInv
  OBVIOUS
<1>1. TypeOK
  BY ConstantsAssumption DEF Init, TypeOK, Status, DeliveredAt
<1>2. ReleasedAtMostOnce
  BY DEF Init, ReleasedAtMostOnce
<1> QED
  BY <1>1, <1>2 DEF IInv

\* Every transaction of db.js keeps the invariant.
LEMMA NextIInv == IInv /\ [Next]_vars => IInv'
<1> SUFFICES ASSUME IInv, [Next]_vars PROVE IInv'
  OBVIOUS
<1>1. CASE CreateOrder
  BY <1>1, InsertKeepsIInv DEF CreateOrder, createOrderTx
<1>2. CASE CreateManualOrder
  BY <1>2, InsertKeepsIInv DEF CreateManualOrder, createManualOrderTx
<1>3. CASE DecidePayment
  <2>1. ASSUME NEW o \in Orders, markOrderPaid(o) PROVE IInv'
    BY <2>1, MoveKeepsIInv
    DEF markOrderPaid, setStatus, Live, Status, IInv, TypeOK
  <2>2. ASSUME NEW o \in Orders, markOrderFailedTx(o) PROVE IInv'
    BY <2>2, CloseKeepsIInv DEF markOrderFailedTx, Live, Dead
  <2> QED
    BY <1>3, <2>1, <2>2 DEF DecidePayment
<1>4. CASE Fulfil
  <2>1. ASSUME NEW o \in Orders, NEW to \in Status, adminSetOrderStatus(o, to)
        PROVE  IInv'
    <3>1. status[o] \in Live /\ to \in Live \cup {"canceled"}
      BY <2>1 DEF adminSetOrderStatus, ADMIN_STATUS_FLOW, IInv, TypeOK, Status, Live, Dead
    <3>2. deliveredAt' \in [Orders -> DeliveredAt]
      BY <2>1 DEF adminSetOrderStatus, IInv, TypeOK, DeliveredAt
    <3> QED
      BY <2>1, <3>1, <3>2, MoveKeepsIInv DEF adminSetOrderStatus, setStatus
  <2>2. ASSUME NEW o \in Orders, adminAcceptReturnTx(o) PROVE IInv'
    BY <2>2, CloseKeepsIInv DEF adminAcceptReturnTx, Live, Dead
  <2>3. ASSUME NEW o \in Orders, adminCancelOrderTx(o) PROVE IInv'
    BY <2>3, CloseKeepsIInv DEF adminCancelOrderTx, Live, Dead
  <2>4. ASSUME NEW o \in Orders, returnWindowEnds(o) PROVE IInv'
    BY <2>4 DEF returnWindowEnds, IInv, TypeOK, ReleasedAtMostOnce, DeliveredAt
  <2>5. ASSUME NEW o \in Orders, NEW u \in Users, userCancelOrderTx(o, u) PROVE IInv'
    BY <2>5, CloseKeepsIInv DEF userCancelOrderTx, Live, Dead
  <2>6. ASSUME NEW o \in Orders, NEW u \in Users, userRequestReturn(o, u) PROVE IInv'
    BY <2>6, MoveKeepsIInv
    DEF userRequestReturn, setStatus, Live, Status, IInv, TypeOK
  <2> QED
    BY <1>4, <2>1, <2>2, <2>3, <2>4, <2>5, <2>6 DEF Fulfil
<1>5. CASE EditStock
  <2>1. ASSUME NEW p \in Products, NEW v \in 0..MaxStock, setProductStock(p, v)
        PROVE  IInv'
    BY <2>1, WriteKeepsIInv, ConstantsAssumption DEF setProductStock
  <2>2. ASSUME NEW p \in Products, NEW d \in -MaxStock..MaxStock, addProductStock(p, d)
        PROVE  IInv'
    <3>1. (IF stock[p] + d > 0 THEN stock[p] + d ELSE 0) \in Nat
      BY ConstantsAssumption DEF IInv, TypeOK
    <3> QED
      BY <2>2, <3>1, WriteKeepsIInv DEF addProductStock
  <2>3. ASSUME NEW p \in Products, adminDeleteProductTx(p) PROVE IInv'
    BY <2>3, WriteKeepsIInv DEF adminDeleteProductTx
  <2> QED
    BY <1>5, <2>1, <2>2, <2>3 DEF EditStock
<1>6. CASE UNCHANGED vars
  BY <1>6 DEF vars, IInv, TypeOK, ReleasedAtMostOnce
<1> QED
  BY <1>1, <1>2, <1>3, <1>4, <1>5, <1>6 DEF Next

\* The invariant holds in every reachable state of the order table.
THEOREM Invariance == Spec => []IInv
<1>1. Init => IInv
  BY InitIInv
<1>2. IInv /\ [Next]_vars => IInv'
  BY NextIInv
<1> QED
  BY <1>1, <1>2, PTL DEF Spec

-----------------------------------------------------------------------------

\* Type correctness: in particular no product's stock ever goes below zero,
\* whatever the concurrent reservations (stmtDecStock's `stock >= ?').
THEOREM TypeCorrect == Spec => []TypeOK
<1>1. IInv => TypeOK
  BY DEF IInv
<1> QED
  BY <1>1, Invariance, PTL

\* The goods of an order return to the shelf at most once.
THEOREM ReleaseOnce == Spec => []ReleasedAtMostOnce
<1>1. IInv => ReleasedAtMostOnce
  BY DEF IInv
<1> QED
  BY <1>1, Invariance, PTL

\* No transaction brings a failed, canceled or returned order back to life.
THEOREM NoResurrection == Spec => DeadStaysDead
<1> DEFINE Stays == \A o \in Orders : status[o] \in Dead => status'[o] = status[o]
<1>1. IInv /\ [Next]_vars => [Stays]_vars
  <2> SUFFICES ASSUME IInv, Next, NEW x \in Orders, status[x] \in Dead
               PROVE  status'[x] = status[x]
    OBVIOUS
  <2>1. CASE CreateOrder
    BY <2>1 DEF CreateOrder, createOrderTx, insertOrder, setStatus, IInv, TypeOK, Dead
  <2>2. CASE CreateManualOrder
    BY <2>2 DEF CreateManualOrder, createManualOrderTx, insertOrder, setStatus,
                IInv, TypeOK, Dead
  <2>3. CASE DecidePayment
    BY <2>3 DEF DecidePayment, markOrderPaid, markOrderFailedTx, closeOrder, setStatus,
                IInv, TypeOK, Dead
  <2>4. CASE Fulfil
    <3>1. ASSUME NEW o \in Orders, NEW to \in Status, adminSetOrderStatus(o, to)
          PROVE  status'[x] = status[x]
      BY <3>1 DEF adminSetOrderStatus, ADMIN_STATUS_FLOW, setStatus, IInv, TypeOK,
                  Status, Live, Dead
    <3>2. ASSUME NEW o \in Orders,
                 \/ adminAcceptReturnTx(o) \/ adminCancelOrderTx(o) \/ returnWindowEnds(o)
                 \/ \E u \in Users : userCancelOrderTx(o, u) \/ userRequestReturn(o, u)
          PROVE  status'[x] = status[x]
      BY <3>2 DEF adminAcceptReturnTx, adminCancelOrderTx, returnWindowEnds,
                  userCancelOrderTx, userRequestReturn, closeOrder, setStatus,
                  IInv, TypeOK, Dead
    <3> QED
      BY <2>4, <3>1, <3>2 DEF Fulfil
  <2>5. CASE EditStock
    BY <2>5 DEF EditStock, setProductStock, addProductStock, adminDeleteProductTx,
                writeStock, rowVars
  <2> QED
    BY <2>1, <2>2, <2>3, <2>4, <2>5 DEF Next
<1> QED
  BY <1>1, Invariance, PTL DEF Spec, DeadStaysDead

\* A return that is rejected, or anything but the shop's own delivery, leaves the
\* clock of the return window alone.
THEOREM ReturnKeepsWindow == Spec => WindowNeverReopensByReturn
<1> DEFINE Keeps == \A o \in Orders :
                      deliveredAt[o] = "old" /\ deliveredAt'[o] # "old"
                        => status[o] = "shipped" /\ status'[o] = "delivered"
<1>1. IInv /\ [Next]_vars => [Keeps]_vars
  <2> SUFFICES ASSUME IInv, Next, NEW x \in Orders,
                      deliveredAt[x] = "old", deliveredAt'[x] # "old"
               PROVE  status[x] = "shipped" /\ status'[x] = "delivered"
    OBVIOUS
  <2>1. deliveredAt \in [Orders -> DeliveredAt] /\ status \in [Orders -> Status]
    BY DEF IInv, TypeOK
  <2>2. PICK o \in Orders, to \in Status : adminSetOrderStatus(o, to)
    BY <2>1 DEF Next, CreateOrder, createOrderTx, CreateManualOrder, createManualOrderTx,
                insertOrder, DecidePayment, markOrderPaid, markOrderFailedTx, Fulfil,
                adminAcceptReturnTx, adminCancelOrderTx, userCancelOrderTx,
                userRequestReturn, returnWindowEnds, closeOrder, EditStock,
                setProductStock, addProductStock, adminDeleteProductTx, writeStock, rowVars
  <2>3. /\ to \in ADMIN_STATUS_FLOW[status[o]]
        /\ status' = [status EXCEPT ![o] = to]
        /\ deliveredAt' = IF to = "delivered" /\ status[o] # "return_requested"
                          THEN [deliveredAt EXCEPT ![o] = "recent"] ELSE deliveredAt
    BY <2>2 DEF adminSetOrderStatus, setStatus
  <2>4. o = x /\ to = "delivered" /\ status[x] # "return_requested"
    BY <2>1, <2>3
  <2> QED
    BY <2>1, <2>3, <2>4 DEF ADMIN_STATUS_FLOW, Status
<1> QED
  BY <1>1, Invariance, PTL DEF Spec, WindowNeverReopensByReturn

\* A customer's idempotency key never names two orders.
THEOREM KeysAreUnique == Spec => []OneOrderPerKey
<1>1. Init => OneOrderPerKey
  BY DEF Init, OneOrderPerKey
<1>2. IInv /\ OneOrderPerKey /\ [Next]_vars => OneOrderPerKey'
  <2> SUFFICES ASSUME IInv, OneOrderPerKey, [Next]_vars PROVE OneOrderPerKey'
    OBVIOUS
  <2>1. CASE UNCHANGED placed
    BY <2>1 DEF OneOrderPerKey
  <2>2. ASSUME NEW o \in Orders, NEW u \in Users, NEW k \in Keys \cup {NoKey},
               NEW l \in Lines, NEW st \in Status, insertOrder(o, u, k, l, st)
        PROVE  OneOrderPerKey'
    <3>1. placed' = [placed EXCEPT ![o] = [user |-> u, key |-> k, lines |-> l]]
      BY <2>2 DEF insertOrder
    <3>2. \A q \in Orders : placed[q] # NoBasket /\ k # NoKey =>
            ~(placed[q].user = u /\ placed[q].key = k)
      BY <2>2 DEF insertOrder, keyIsFree, IInv, TypeOK
    <3> QED
      BY <3>1, <3>2 DEF OneOrderPerKey, IInv, TypeOK
  <2>3. CASE CreateOrder
    BY <2>2, <2>3 DEF CreateOrder, createOrderTx, Status, Live
  <2>4. CASE CreateManualOrder
    BY <2>2, <2>4 DEF CreateManualOrder, createManualOrderTx, Status, Live
  <2>5. CASE DecidePayment \/ Fulfil \/ EditStock \/ UNCHANGED vars
    BY <2>1, <2>5
    DEF DecidePayment, markOrderPaid, markOrderFailedTx, closeOrder, Fulfil,
        adminSetOrderStatus, adminAcceptReturnTx, adminCancelOrderTx,
        returnWindowEnds, userCancelOrderTx, userRequestReturn, EditStock,
        setProductStock, addProductStock, adminDeleteProductTx, writeStock,
        rowVars, vars
  <2> QED
    BY <2>3, <2>4, <2>5 DEF Next
<1> QED
  BY <1>1, <1>2, Invariance, PTL DEF Spec
-----------------------------------------------------------------------------
\* Sums over a finite set.  SumFunction takes its elements in an order of
\* CHOOSE's own; the lemmas say that the order does not matter.

\* f assigns to every subset of S the sum of w over it.
IsSum(f, w, S) ==
  /\ f \in [SUBSET S -> Int]
  /\ f[{}] = 0
  /\ \A T \in SUBSET S : T # {} =>
       f[T] = w[CHOOSE x \in T : TRUE] + f[T \ {CHOOSE x \in T : TRUE}]

\* Induction over the subsets of a finite set, in a form without a predicate:
\* a collection of subsets that contains a set whenever it contains all the
\* smaller ones contains every subset.
LEMMA SubsetInduction ==
  ASSUME NEW S, IsFiniteSet(S), NEW G,
         \A T \in SUBSET S : (\A U \in SUBSET T : U # T => U \in G) => T \in G
  PROVE  SUBSET S \subseteq G
<1> SUFFICES ASSUME (SUBSET S) \ G # {} PROVE FALSE
  OBVIOUS
<1> DEFINE Bad == (SUBSET S) \ G
           R == StrictSubsetOrdering(S)
<1>1. IsWellFoundedOn(R, SUBSET S)
  <2>1. IsWellFoundedOn(R, FiniteSubsetsOf(S))
    BY FS_StrictSubsetOrderingWellFounded
  <2>2. FiniteSubsetsOf(S) = SUBSET S
    BY FS_FiniteSubsetsOfFinite
  <2> QED
    BY <2>1, <2>2
<1>2. PICK T \in Bad : \A U \in Bad : ~(<<U, T>> \in R)
  <2>1. Bad \subseteq SUBSET S /\ Bad # {}
    OBVIOUS
  <2> HIDE DEF R, Bad
  <2> QED
    BY <1>1, <2>1, WFMin
<1>3. \A U \in SUBSET T : U # T => U \in G
  BY <1>2 DEF StrictSubsetOrdering
<1> QED
  BY <1>2, <1>3

\* Two sums agree where their weights do.
LEMMA SumsAgree ==
  ASSUME NEW S, NEW T, NEW w, NEW v, NEW f, NEW g,
         IsSum(f, w, S), IsSum(g, v, T),
         NEW A \in SUBSET S, A \subseteq T, IsFiniteSet(A),
         \A x \in A : w[x] = v[x]
  PROVE  f[A] = g[A]
<1> DEFINE G == {U \in SUBSET A : f[U] = g[U]}
<1>1. ASSUME NEW U \in SUBSET A, \A V \in SUBSET U : V # U => V \in G
      PROVE  U \in G
  <2>1. CASE U = {}
    BY <2>1 DEF IsSum
  <2>2. CASE U # {}
    <3> DEFINE c == CHOOSE x \in U : TRUE
    <3>1. c \in U
      BY <2>2
    <3>2. U \ {c} \in SUBSET U /\ U \ {c} # U
      BY <3>1
    <3>3. f[U \ {c}] = g[U \ {c}]
      BY <1>1, <3>2
    <3>4. f[U] = w[c] + f[U \ {c}] /\ g[U] = v[c] + g[U \ {c}]
      BY <2>2 DEF IsSum
    <3> QED
      BY <3>1, <3>3, <3>4
  <2> QED
    BY <2>1, <2>2
<1> HIDE DEF G
<1>2. SUBSET A \subseteq G
  BY <1>1, SubsetInduction
<1> QED
  BY <1>2 DEF G

\* Every finite set of integers has a sum.
LEMMA SumExists ==
  ASSUME NEW S, IsFiniteSet(S), NEW w \in [S -> Int]
  PROVE  \E f : IsSum(f, w, S)
<1> DEFINE G == {T \in SUBSET S : \E f : IsSum(f, w, T)}
<1>1. ASSUME NEW T \in SUBSET S, \A U \in SUBSET T : U # T => U \in G
      PROVE  T \in G
  <2> DEFINE c(U) == CHOOSE x \in U : TRUE
             sum == [U \in SUBSET T |-> CHOOSE f : IsSum(f, w, U)]
             F == [U \in SUBSET T |->
                     IF U = {} THEN 0
                     ELSE w[c(U)] + sum[U \ {c(U)}][U \ {c(U)}]]
  <2>1. \A U \in SUBSET T : U # T => IsSum(sum[U], w, U)
    BY <1>1
  <2>2. \A U \in SUBSET T : U # {} => c(U) \in U /\ U \ {c(U)} # T /\ U \ {c(U)} \in SUBSET T
    OBVIOUS
  <2> HIDE DEF sum
  <2>3. ASSUME NEW U \in SUBSET T, U # T PROVE sum[U][U] \in Int
    <3>1. sum[U] \in [SUBSET U -> Int]
      BY <2>1, <2>3 DEF IsSum
    <3> QED
      BY <3>1
  <2>4. F \in [SUBSET T -> Int]
    <3> SUFFICES ASSUME NEW U \in SUBSET T, U # {}
                 PROVE  w[c(U)] + sum[U \ {c(U)}][U \ {c(U)}] \in Int
      OBVIOUS
    <3> QED
      BY <2>2, <2>3
  <2>5. ASSUME NEW U \in SUBSET T, U # T PROVE F[U] = sum[U][U]
    <3>1. CASE U = {}
      BY <2>1, <2>5, <3>1 DEF IsSum
    <3>2. CASE U # {}
      <4> DEFINE V == U \ {c(U)}
      <4>1. V \in SUBSET T /\ V # T /\ V \in SUBSET U
        BY <2>2, <3>2
      <4>2. IsSum(sum[U], w, U) /\ IsSum(sum[V], w, V)
        BY <2>1, <2>5, <4>1
      <4>3. IsFiniteSet(V)
        BY <4>1, FS_Subset
      <4>4. sum[U][V] = sum[V][V]
        BY <4>1, <4>2, <4>3, SumsAgree
      <4>5. sum[U][U] = w[c(U)] + sum[U][V]
        BY <3>2, <4>2 DEF IsSum
      <4>6. F[U] = w[c(U)] + sum[V][V]
        BY <3>2
      <4> QED
        BY <4>4, <4>5, <4>6
    <3> QED
      BY <3>1, <3>2
  <2>6. ASSUME NEW U \in SUBSET T, U # {} PROVE F[U] = w[c(U)] + F[U \ {c(U)}]
    <3>1. F[U \ {c(U)}] = sum[U \ {c(U)}][U \ {c(U)}]
      BY <2>2, <2>5, <2>6
    <3>2. F[U] = w[c(U)] + sum[U \ {c(U)}][U \ {c(U)}]
      BY <2>6
    <3> QED
      BY <3>1, <3>2
  <2>7. F[{}] = 0
    OBVIOUS
  <2> HIDE DEF F
  <2>8. IsSum(F, w, T)
    BY <2>4, <2>6, <2>7 DEF IsSum
  <2> QED
    BY <2>8
<1> HIDE DEF G
<1>2. SUBSET S \subseteq G
  BY <1>1, SubsetInduction
<1> QED
  BY <1>2 DEF G

\* The sum of a set is any one element's weight and the sum of the rest.
LEMMA SumTakesAny ==
  ASSUME NEW S, IsFiniteSet(S), NEW w \in [S -> Int], NEW f, IsSum(f, w, S)
  PROVE  \A T \in SUBSET S : \A x \in T : f[T] = w[x] + f[T \ {x}]
<1> DEFINE G == {T \in SUBSET S : \A x \in T : f[T] = w[x] + f[T \ {x}]}
<1>1. ASSUME NEW T \in SUBSET S, \A U \in SUBSET T : U # T => U \in G
      PROVE  T \in G
  <2> SUFFICES ASSUME NEW x \in T PROVE f[T] = w[x] + f[T \ {x}]
    OBVIOUS
  <2> DEFINE c == CHOOSE y \in T : TRUE
             Rest == T \ {x, c}
  <2>1. c \in T /\ f[T] = w[c] + f[T \ {c}]
    BY DEF IsSum
  <2>2. CASE x = c
    BY <2>1, <2>2
  <2>3. CASE x # c
    <3>1. f[T \ {c}] = w[x] + f[Rest]
      <4>1. T \ {c} \in G /\ x \in T \ {c} /\ (T \ {c}) \ {x} = Rest
        BY <1>1, <2>1, <2>3
      <4> QED
        BY <4>1
    <3>2. f[T \ {x}] = w[c] + f[Rest]
      <4>1. T \ {x} \in G /\ c \in T \ {x} /\ (T \ {x}) \ {c} = Rest
        BY <1>1, <2>1, <2>3
      <4> QED
        BY <4>1
    <3>3. w[x] \in Int /\ w[c] \in Int /\ f[Rest] \in Int
      BY <2>1 DEF IsSum
    <3> QED
      BY <2>1, <3>1, <3>2, <3>3
  <2> QED
    BY <2>2, <2>3
<1> HIDE DEF G
<1>2. SUBSET S \subseteq G
  BY <1>1, SubsetInduction
<1> QED
  BY <1>2 DEF G

\* SumFunction, unfolded, is such a sum.
LEMMA SumFunctionIsSum ==
  ASSUME NEW S, IsFiniteSet(S), NEW w \in [S -> Int]
  PROVE  \E f : IsSum(f, w, S) /\ SumFunction(w) = f[S]
<1> DEFINE Iter(f) == [T \in SUBSET S |->
                         IF T = {} THEN 0
                         ELSE w[CHOOSE x \in T : TRUE] + f[T \ {CHOOSE x \in T : TRUE}]]
           it == CHOOSE f : f = Iter(f)
<1>1. DOMAIN w = S
  OBVIOUS
<1>2. SumFunction(w) = it[S]
  BY <1>1, Zenon DEF SumFunction, SumFunctionOnSet, FoldFunctionOnSet, MapThenFoldSet
<1>3. PICK g : IsSum(g, w, S)
  BY SumExists
<1>4. g = Iter(g)
  BY <1>3 DEF IsSum
<1>5. it = Iter(it)
  <2> HIDE DEF Iter
  <2> QED
    BY <1>4
<1> HIDE DEF it
<1> DEFINE G == {T \in SUBSET S : it[T] = g[T]}
<1>6. ASSUME NEW T \in SUBSET S, \A U \in SUBSET T : U # T => U \in G
      PROVE  T \in G
  <2>1. CASE T = {}
    BY <1>3, <1>5, <2>1 DEF IsSum
  <2>2. CASE T # {}
    <3> DEFINE c == CHOOSE x \in T : TRUE
    <3>1. T \ {c} \in SUBSET T /\ T \ {c} # T
      BY <2>2
    <3>2. it[T \ {c}] = g[T \ {c}]
      BY <1>6, <3>1
    <3>3. it[T] = w[c] + it[T \ {c}]
      BY <1>5, <2>2
    <3>4. g[T] = w[c] + g[T \ {c}]
      BY <1>3, <2>2 DEF IsSum
    <3> QED
      BY <3>2, <3>3, <3>4
  <2> QED
    BY <2>1, <2>2
<1> HIDE DEF G
<1>7. SUBSET S \subseteq G
  BY <1>6, SubsetInduction
<1>8. it[S] = g[S]
  BY <1>7 DEF G
<1> QED
  BY <1>2, <1>3, <1>8

\* The sum over no element.
LEMMA SumOfNone ==
  ASSUME NEW w \in [{} -> Int]
  PROVE  SumFunction(w) = 0
<1>1. IsFiniteSet({})
  BY FS_EmptySet
<1> QED
  BY <1>1, SumFunctionIsSum DEF IsSum

\* The sum of integers is an integer, and any element may be taken off it.
LEMMA SumRemove ==
  ASSUME NEW S, IsFiniteSet(S), NEW w \in [S -> Int]
  PROVE  /\ SumFunction(w) \in Int
         /\ \A x \in S :
              SumFunction(w) = w[x] + SumFunction([y \in S \ {x} |-> w[y]])
<1>1. PICK f : IsSum(f, w, S) /\ SumFunction(w) = f[S]
  BY SumFunctionIsSum
<1>2. SumFunction(w) \in Int
  BY <1>1 DEF IsSum
<1>3. ASSUME NEW x \in S
      PROVE  SumFunction(w) = w[x] + SumFunction([y \in S \ {x} |-> w[y]])
  <2> DEFINE A == S \ {x}
             v == [y \in A |-> w[y]]
  <2>1. IsFiniteSet(A) /\ v \in [A -> Int] /\ A \subseteq S /\ \A y \in A : v[y] = w[y]
    BY FS_Subset
  <2> HIDE DEF v
  <2>2. PICK g : IsSum(g, v, A) /\ SumFunction(v) = g[A]
    BY <2>1, SumFunctionIsSum
  <2>3. f[A] = g[A]
    BY <1>1, <2>1, <2>2, SumsAgree
  <2>4. f[S] = w[x] + f[A]
    BY <1>1, SumTakesAny
  <2>5. SumFunction(w) = w[x] + SumFunction(v)
    BY <1>1, <2>2, <2>3, <2>4
  <2> QED
    BY <2>5 DEF v
<1> QED
  BY <1>2, <1>3

-----------------------------------------------------------------------------
\* Conservation.  Only finitely many orders are on file at any time, because
\* they come in one by one; that is what makes the sum a sum.
ConservedInv == IsFiniteSet(unreleased) /\ StockConserved

\* What the orders in U hold of a product: r are their rows.
LinesSum(U, r, p) == SumFunction([q \in U |-> r[q].lines[p]])

\* It is an integer, and the units of any one order may be counted apart.
LEMMA LinesTakeAny ==
  ASSUME NEW U, IsFiniteSet(U), NEW r, \A q \in U : r[q] \in Basket, NEW p \in Products
  PROVE  /\ LinesSum(U, r, p) \in Int
         /\ \A o \in U : LinesSum(U, r, p) = r[o].lines[p] + LinesSum(U \ {o}, r, p)
<1> DEFINE w == [q \in U |-> r[q].lines[p]]
<1>1. w \in [U -> Int]
  BY BasketLines
<1>2. SumFunction(w) \in Int
  <2> HIDE DEF w
  <2> QED
    BY <1>1, SumRemove
<1>3. ASSUME NEW o \in U
      PROVE  SumFunction(w) = w[o] + SumFunction([q \in U \ {o} |-> w[q]])
  <2> HIDE DEF w
  <2> QED
    BY <1>1, SumRemove
<1>4. ASSUME NEW o \in U
      PROVE  [q \in U \ {o} |-> w[q]] = [q \in U \ {o} |-> r[q].lines[p]]
  OBVIOUS
<1> QED
  BY <1>2, <1>3, <1>4 DEF LinesSum

\* The rows that are counted are on file.
LEMMA HeldIsLinesSum ==
  /\ \A p : held(p) = LinesSum(unreleased, placed, p)
  /\ TypeOK => \A q \in unreleased : placed[q] \in Basket
<1>1. \A p : held(p) = LinesSum(unreleased, placed, p)
  BY DEF held, LinesSum
<1>2. TypeOK => \A q \in unreleased : placed[q] \in Basket
  BY DEF TypeOK, unreleased
<1> QED
  BY <1>1, <1>2

\* What the unreleased orders hold is a number.
LEMMA HeldIsAnInteger ==
  ASSUME TypeOK, IsFiniteSet(unreleased), NEW p \in Products
  PROVE  held(p) \in Int
<1>1. \A q \in unreleased : placed[q] \in Basket
  BY HeldIsLinesSum
<1>2. LinesSum(unreleased, placed, p) \in Int
  BY <1>1, LinesTakeAny
<1> QED
  BY <1>2, HeldIsLinesSum

\* An order that comes in takes from the shelf what it then holds.
LEMMA InsertConserves ==
  ASSUME IInv, ConservedInv,
         NEW o \in Orders, NEW u \in Users, NEW k \in Keys \cup {NoKey},
         NEW l \in Lines, NEW st \in {"pending_payment", "paid"},
         insertOrder(o, u, k, l, st)
  PROVE  ConservedInv'
<1>1. /\ status[o] = "none"
      /\ status' = [status EXCEPT ![o] = st]
      /\ placed' = [placed EXCEPT ![o] = [user |-> u, key |-> k, lines |-> l]]
      /\ stock' = [p \in Products |-> stock[p] - l[p]]
      /\ UNCHANGED <<released, supplied>>
  BY DEF insertOrder, setStatus, reserveStock
<1>2. released[o] = 0
  BY <1>1 DEF IInv, TypeOK, ReleasedAtMostOnce, Dead
<1>3. unreleased' = unreleased \cup {o} /\ o \notin unreleased
  BY <1>1, <1>2 DEF unreleased, IInv, TypeOK
<1>4. IsFiniteSet(unreleased')
  BY <1>3, FS_AddElement DEF ConservedInv
<1>5. (\A q \in unreleased' : placed'[q] \in Basket) /\ \A q \in unreleased : placed[q] \in Basket
  <2>1. IInv'
    BY InsertKeepsIInv
  <2> QED
    BY <2>1 DEF IInv, TypeOK, unreleased
<1>6. ASSUME NEW p \in Products PROVE stock'[p] + held(p)' = supplied'[p]
  <2>1. placed'[o].lines[p] = l[p]
    BY <1>1 DEF IInv, TypeOK
  <2>2. LinesSum(unreleased', placed', p)
          = placed'[o].lines[p] + LinesSum(unreleased' \ {o}, placed', p)
    BY <1>3, <1>4, <1>5, LinesTakeAny
  <2>3. LinesSum(unreleased' \ {o}, placed', p) = LinesSum(unreleased, placed, p)
    <3>1. unreleased' \ {o} = unreleased
      BY <1>3
    <3>2. \A q \in unreleased : placed'[q] = placed[q]
      BY <1>1, <1>3 DEF IInv, TypeOK, unreleased
    <3> QED
      BY <3>1, <3>2 DEF LinesSum
  <2>4. held(p)' = l[p] + held(p)
    BY <2>1, <2>2, <2>3 DEF held, LinesSum
  <2>5. held(p) \in Int
    BY HeldIsAnInteger DEF ConservedInv, IInv
  <2>6. stock[p] \in Int /\ l[p] \in Int /\ stock[p] + held(p) = supplied[p]
    BY ConstantsAssumption DEF IInv, TypeOK, ConservedInv, StockConserved, Lines
  <2>7. stock'[p] = stock[p] - l[p] /\ supplied'[p] = supplied[p]
    BY <1>1
  <2> QED
    BY <2>4, <2>5, <2>6, <2>7
<1> QED
  BY <1>4, <1>6 DEF ConservedInv, StockConserved

\* A transaction that closes an order puts on the shelf what the order held.
LEMMA CloseConserves ==
  ASSUME IInv, ConservedInv, NEW o \in Orders,
         NEW from \in SUBSET Live, NEW to \in Dead, closeOrder(o, from, to)
  PROVE  ConservedInv'
<1>1. /\ status[o] \in Live
      /\ status' = [status EXCEPT ![o] = to]
      /\ stock' = [p \in Products |-> stock[p] + placed[o].lines[p]]
      /\ released' = [released EXCEPT ![o] = @ + 1]
      /\ UNCHANGED <<placed, supplied>>
  BY DEF closeOrder, setStatus, releaseStock
<1>2. released[o] = 0
  BY <1>1 DEF IInv, TypeOK, ReleasedAtMostOnce, Live, Dead
<1>3. o \in unreleased /\ unreleased' = unreleased \ {o}
  BY <1>1, <1>2 DEF unreleased, IInv, TypeOK, Live, Dead
<1>4. IsFiniteSet(unreleased')
  BY <1>3, FS_RemoveElement DEF ConservedInv
<1>5. ASSUME NEW p \in Products PROVE stock'[p] + held(p)' = supplied'[p]
  <2>1. /\ LinesSum(unreleased, placed, p)
             = placed[o].lines[p] + LinesSum(unreleased \ {o}, placed, p)
        /\ LinesSum(unreleased \ {o}, placed, p) \in Int
    <3>1. \A q \in unreleased : placed[q] \in Basket
      BY HeldIsLinesSum DEF IInv
    <3>2. IsFiniteSet(unreleased \ {o}) /\ IsFiniteSet(unreleased)
      BY <1>3, <1>4 DEF ConservedInv
    <3> QED
      BY <1>3, <3>1, <3>2, LinesTakeAny
  <2>2. held(p)' = LinesSum(unreleased \ {o}, placed, p)
    BY <1>1, <1>3 DEF held, LinesSum
  <2>3. held(p) = LinesSum(unreleased, placed, p)
    BY HeldIsLinesSum
  <2>4. /\ stock[p] \in Int /\ placed[o].lines[p] \in Int
        /\ stock[p] + held(p) = supplied[p]
    BY <1>3, BasketLines, HeldIsLinesSum DEF IInv, TypeOK, ConservedInv, StockConserved
  <2>5. stock'[p] = stock[p] + placed[o].lines[p] /\ supplied'[p] = supplied[p]
    BY <1>1
  <2> QED
    BY <2>1, <2>2, <2>3, <2>4, <2>5
<1> QED
  BY <1>4, <1>5 DEF ConservedInv, StockConserved

\* A step that neither brings in nor releases an order, and leaves the baskets
\* alone, moves stock and what was put on sale by the same amount.
LEMMA OtherConserves ==
  ASSUME ConservedInv, IInv, unreleased' = unreleased, placed' = placed,
         \A p \in Products : stock'[p] - stock[p] = supplied'[p] - supplied[p],
         stock' \in [Products -> Int], supplied' \in [Products -> Int]
  PROVE  ConservedInv'
<1>1. ASSUME NEW p \in Products PROVE stock'[p] + held(p)' = supplied'[p]
  <2>1. held(p)' = held(p)
    BY DEF held
  <2>2. held(p) \in Int
    BY HeldIsAnInteger DEF ConservedInv, IInv
  <2>3. stock[p] \in Int /\ stock'[p] \in Int /\ supplied'[p] \in Int /\ supplied[p] \in Int
    BY DEF IInv, TypeOK
  <2>4. stock[p] + held(p) = supplied[p]
    BY DEF ConservedInv, StockConserved
  <2>5. stock'[p] - stock[p] = supplied'[p] - supplied[p]
    OBVIOUS
  <2>6. \A a, b, c, d, h \in Int : b - a = d - c /\ a + h = c => b + h = d
    OBVIOUS
  <2>7. stock'[p] + held(p) = supplied'[p]
    BY <2>2, <2>3, <2>4, <2>5, <2>6
  <2> QED
    BY <2>1, <2>7
<1>2. IsFiniteSet(unreleased')
  BY DEF ConservedInv
<1> QED
  BY <1>1, <1>2 DEF ConservedInv, StockConserved

\* The panel writes a figure: what it adds counts as put on sale.
LEMMA WriteConserves ==
  ASSUME IInv, ConservedInv, NEW p \in Products, NEW v \in Nat, writeStock(p, v)
  PROVE  ConservedInv'
<1>1. stock' = [stock EXCEPT ![p] = v] /\ supplied' = [supplied EXCEPT ![p] = @ + v - stock[p]]
  BY DEF writeStock
<1>2. unreleased' = unreleased /\ placed' = placed
  BY DEF writeStock, rowVars, unreleased
<1>3. \A x \in Products : stock'[x] - stock[x] = supplied'[x] - supplied[x]
  BY <1>1 DEF IInv, TypeOK
<1>4. stock' \in [Products -> Int] /\ supplied' \in [Products -> Int]
  BY <1>1 DEF IInv, TypeOK
<1> QED
  BY <1>2, <1>3, <1>4, OtherConserves

\* A status that moves between statuses in use leaves goods and baskets alone.
LEMMA MoveConserves ==
  ASSUME IInv, ConservedInv, NEW o \in Orders, NEW to \in Status, to # "none",
         status[o] # "none", status' = [status EXCEPT ![o] = to],
         UNCHANGED <<stock, placed, released, supplied>>
  PROVE  ConservedInv'
<1>1. unreleased' = unreleased
  BY DEF unreleased, IInv, TypeOK
<1>2. \A x \in Products : stock'[x] - stock[x] = supplied'[x] - supplied[x]
  BY DEF IInv, TypeOK
<1>3. stock' \in [Products -> Int] /\ supplied' \in [Products -> Int]
  BY DEF IInv, TypeOK
<1> QED
  BY <1>1, <1>2, <1>3, OtherConserves

\* At the start nothing is on file and everything is on the shelf.
LEMMA InitConserves == Init => ConservedInv
<1> SUFFICES ASSUME Init PROVE ConservedInv
  OBVIOUS
<1>1. unreleased = {}
  BY DEF Init, unreleased
<1>2. IsFiniteSet(unreleased)
  BY <1>1, FS_EmptySet
<1>3. ASSUME NEW p \in Products PROVE stock[p] + held(p) = supplied[p]
  <2> DEFINE w == [q \in unreleased |-> placed[q].lines[p]]
  <2>1. w \in [{} -> Int]
    BY <1>1
  <2>2. held(p) = 0
    <3>1. SumFunction(w) = 0
      <4> HIDE DEF w
      <4> QED
        BY <2>1, SumOfNone
    <3> QED
      BY <3>1 DEF held
  <2>3. stock[p] \in Int /\ stock[p] = supplied[p]
    BY ConstantsAssumption DEF Init
  <2> QED
    BY <2>2, <2>3
<1> QED
  BY <1>2, <1>3 DEF ConservedInv, StockConserved

\* Every transaction conserves the units.
LEMMA NextConserves == IInv /\ ConservedInv /\ [Next]_vars => ConservedInv'
<1> SUFFICES ASSUME IInv, ConservedInv, [Next]_vars PROVE ConservedInv'
  OBVIOUS
<1>1. CASE CreateOrder
  BY <1>1, InsertConserves DEF CreateOrder, createOrderTx
<1>2. CASE CreateManualOrder
  BY <1>2, InsertConserves DEF CreateManualOrder, createManualOrderTx
<1>3. CASE DecidePayment
  <2>1. ASSUME NEW o \in Orders, markOrderPaid(o) PROVE ConservedInv'
    BY <2>1, MoveConserves DEF markOrderPaid, setStatus, Live, Status
  <2>2. ASSUME NEW o \in Orders, markOrderFailedTx(o) PROVE ConservedInv'
    BY <2>2, CloseConserves DEF markOrderFailedTx, Live, Dead
  <2> QED
    BY <1>3, <2>1, <2>2 DEF DecidePayment
<1>4. CASE Fulfil
  <2>1. ASSUME NEW o \in Orders, NEW to \in Status, adminSetOrderStatus(o, to)
        PROVE  ConservedInv'
    <3>1. status[o] # "none" /\ to # "none"
      BY <2>1 DEF adminSetOrderStatus, ADMIN_STATUS_FLOW, IInv, TypeOK, Status, Live, Dead
    <3> QED
      BY <2>1, <3>1, MoveConserves DEF adminSetOrderStatus, setStatus
  <2>2. ASSUME NEW o \in Orders, adminAcceptReturnTx(o) PROVE ConservedInv'
    BY <2>2, CloseConserves DEF adminAcceptReturnTx, Live, Dead
  <2>3. ASSUME NEW o \in Orders, adminCancelOrderTx(o) PROVE ConservedInv'
    BY <2>3, CloseConserves DEF adminCancelOrderTx, Live, Dead
  <2>4. ASSUME NEW o \in Orders, returnWindowEnds(o) PROVE ConservedInv'
    <3>1. unreleased' = unreleased /\ UNCHANGED <<stock, placed, supplied>>
      BY <2>4 DEF returnWindowEnds, unreleased
    <3>2. /\ \A x \in Products : stock'[x] - stock[x] = supplied'[x] - supplied[x]
          /\ stock' \in [Products -> Int] /\ supplied' \in [Products -> Int]
      BY <3>1 DEF IInv, TypeOK
    <3> QED
      BY <3>1, <3>2, OtherConserves
  <2>5. ASSUME NEW o \in Orders, NEW u \in Users, userCancelOrderTx(o, u)
        PROVE  ConservedInv'
    BY <2>5, CloseConserves DEF userCancelOrderTx, Live, Dead
  <2>6. ASSUME NEW o \in Orders, NEW u \in Users, userRequestReturn(o, u)
        PROVE  ConservedInv'
    BY <2>6, MoveConserves DEF userRequestReturn, setStatus, Live, Status
  <2> QED
    BY <1>4, <2>1, <2>2, <2>3, <2>4, <2>5, <2>6 DEF Fulfil
<1>5. CASE EditStock
  <2>1. ASSUME NEW p \in Products, NEW v \in 0..MaxStock, setProductStock(p, v)
        PROVE  ConservedInv'
    BY <2>1, WriteConserves, ConstantsAssumption DEF setProductStock
  <2>2. ASSUME NEW p \in Products, NEW d \in -MaxStock..MaxStock, addProductStock(p, d)
        PROVE  ConservedInv'
    <3>1. (IF stock[p] + d > 0 THEN stock[p] + d ELSE 0) \in Nat
      BY ConstantsAssumption DEF IInv, TypeOK
    <3> QED
      BY <2>2, <3>1, WriteConserves DEF addProductStock
  <2>3. ASSUME NEW p \in Products, adminDeleteProductTx(p) PROVE ConservedInv'
    BY <2>3, WriteConserves DEF adminDeleteProductTx
  <2> QED
    BY <1>5, <2>1, <2>2, <2>3 DEF EditStock
<1>6. CASE UNCHANGED vars
  <2>1. unreleased' = unreleased /\ UNCHANGED <<stock, placed, supplied>>
    BY <1>6 DEF vars, unreleased
  <2>2. /\ \A x \in Products : stock'[x] - stock[x] = supplied'[x] - supplied[x]
        /\ stock' \in [Products -> Int] /\ supplied' \in [Products -> Int]
    BY <2>1 DEF IInv, TypeOK
  <2> QED
    BY <2>1, <2>2, OtherConserves
<1> QED
  BY <1>1, <1>2, <1>3, <1>4, <1>5, <1>6 DEF Next

\* Units are neither lost nor invented, whatever number of orders, products and
\* customers there is and in whatever order the transactions of db.js run.
THEOREM UnitsAreConserved == Spec => []StockConserved
<1>1. Init => ConservedInv
  BY InitConserves
<1>2. IInv /\ ConservedInv /\ [Next]_vars => ConservedInv'
  BY NextConserves
<1>3. ConservedInv => StockConserved
  BY DEF ConservedInv
<1> QED
  BY <1>1, <1>2, <1>3, Invariance, PTL DEF Spec
=============================================================================
