----------------------------- MODULE PaymentProofs -----------------------------
(***************************************************************************)
(* PaymentFlow for every number of orders, workers, callbacks in flight,   *)
(* crashes and any MaxPerRun.                                              *)
(***************************************************************************)
EXTENDS PaymentProperties, OrderStockProofs

\* The columns and handlers that PaymentFlow adds, well-typed.
FlowColumnsOK ==
  /\ status \in [Orders -> {"none", "pending_payment", "paid", "failed"}]
  /\ authority \in [Orders -> BOOLEAN]
  /\ expires \in [Orders -> {"null", "ahead", "passed", "longPassed"}]
  /\ tries \in [Orders -> 0..MaxTries]
  /\ gateway \in [Orders -> {"none", "open", "paid", "settled", "closed"}]
  /\ post \in [Orders -> Workers \cup {Nobody}]
  /\ callback \in [Callbacks -> CallRecord]
  /\ expiring \in [Workers -> SUBSET Orders]
  /\ reconcile \in [Workers -> RunRecord]
  /\ up \in SUBSET Workers
  /\ crashes \in 0..MaxCrashes
  /\ overtaken \in SUBSET Orders
  /\ excuse \in [Orders -> Excuses \cup {"none"}]
  /\ notices \in [Orders -> 0..MaxNotices]

\* Some handler holds the order: it asks the gateway about it, has an answer it
\* will act on, or has the row in the list it read before its awaits.
asks(o) ==
  \/ \E c \in Callbacks : callback[c].order = o
  \/ \E w \in Workers : reconcile[w].order = o \/ o \in reconcile[w].rest

\* An authority is written once the POST handler is through, and only orders
\* with an authority are ever asked about.
AuthorityOrder ==
  \A o \in Orders :
    /\ post[o] # Nobody => ~authority[o] /\ status[o] # "none"
    /\ authority[o] => status[o] # "none"
    /\ asks(o) => authority[o]

\* What a handler was told stays true until it acts on it.
verdictHolds(o, answer) ==
  /\ answer = "ok" => gateway[o] = "settled"
  /\ answer = "no" /\ UnpaidIsFinal => gateway[o] = "closed"

VerdictsHold ==
  \A o \in Orders :
    /\ \A c \in Callbacks :
         callback[c].order = o => verdictHolds(o, callback[c].answer)
    /\ \A w \in Workers :
         reconcile[w].order = o => verdictHolds(o, reconcile[w].answer)

\* A row that expireStaleOrders has still to fail has no authority, unless its
\* POST handler wrote one since the SELECT.
ListedRowsAreUnasked ==
  \A w \in Workers : \A o \in expiring[w] : authority[o] => o \in overtaken

\* A failed order without an excuse has no settled money, and no handler that
\* still holds it can settle any.
FailedIsFinal ==
  UnpaidIsFinal =>
    \A o \in Orders : status[o] = "failed" /\ excuse[o] = "none" =>
      gateway[o] # "settled" /\ (asks(o) => gateway[o] = "closed")

ExcusedFailed == \A o \in Orders : excuse[o] # "none" => status[o] = "failed"

FlowInv ==
  /\ FlowColumnsOK /\ AuthorityOrder /\ VerdictsHold /\ ListedRowsAreUnasked
  /\ FailedIsFinal /\ ExcusedFailed
  /\ PendingHasDeadline /\ NoAuthorityNoMoney /\ PaidMeansSettled

\* What a step may do to one order, as the promise sees it: settle its payment,
\* or move its row one decision on.
orderStep(o) ==
  /\ \A q \in Orders : q # o => /\ status'[q] = status[q]
                                /\ gateway'[q] = gateway[q]
                                /\ excuse'[q] = excuse[q]
  /\ \/ /\ UNCHANGED <<status, excuse>>
        /\ gateway[o] = "settled" => gateway'[o] = "settled"
     \/ /\ UNCHANGED <<gateway, excuse>>
        /\ \/ status[o] = "none" /\ status'[o] = "pending_payment"
           \/ status[o] = "pending_payment" /\ status'[o] \in {"paid", "failed"}
     \/ /\ UNCHANGED gateway
        /\ status[o] = "pending_payment" /\ status'[o] = "failed" /\ excuse'[o] # "none"

oneOrderMoves == UNCHANGED <<status, gateway, excuse>> \/ \E o \in Orders : orderStep(o)

-----------------------------------------------------------------------------
\* Marking an order, as seen in the two columns it may write.

\* markPaid moves a pending order to paid and clears its deadline.
LEMMA MarkPaidEffect ==
  ASSUME FlowColumnsOK, NEW o \in Orders, markPaid(o)
  PROVE  /\ status[o] = "pending_payment" =>
              /\ status' = [status EXCEPT ![o] = "paid"]
              /\ expires' = [expires EXCEPT ![o] = "null"]
         /\ status[o] # "pending_payment" => UNCHANGED <<status, expires>>
         /\ [Next]_vars
  BY DEF markPaid, markOrderPaid, setStatus, vars, Next, DecidePayment

\* markFailed moves a pending order to failed and clears its deadline.
LEMMA MarkFailedEffect ==
  ASSUME FlowColumnsOK, NEW o \in Orders, markFailed(o)
  PROVE  /\ status[o] = "pending_payment" =>
              /\ status' = [status EXCEPT ![o] = "failed"]
              /\ expires' = [expires EXCEPT ![o] = "null"]
         /\ status[o] # "pending_payment" => UNCHANGED <<status, expires>>
         /\ [Next]_vars
  BY DEF markFailed, markOrderFailedTx, closeOrder, setStatus, vars, Next, DecidePayment

-----------------------------------------------------------------------------

\* An order that was just placed has no authority and nobody asks about it.
LEMMA CheckoutInv ==
  ASSUME FlowInv, NEW w \in Workers, NEW o \in Orders, NEW u \in Users, NEW k \in Keys,
         NEW l \in Lines, Checkout(w, o, u, k, l)
  PROVE  FlowInv' /\ [Next]_vars /\ oneOrderMoves
<1>1. /\ status[o] = "none"
      /\ status' = [status EXCEPT ![o] = "pending_payment"]
      /\ expires' = [expires EXCEPT ![o] = "ahead"]
      /\ post' = [post EXCEPT ![o] = w]
      /\ UNCHANGED <<authority, tries, gateway, callback, expiring, reconcile, up, crashes,
                     overtaken, excuse, notices>>
  BY DEF Checkout, createOrderTx, insertOrder, setStatus, histVars
<1>2. FlowColumnsOK'
  BY <1>1 DEF FlowInv, FlowColumnsOK
<1>3. AuthorityOrder' /\ VerdictsHold' /\ ListedRowsAreUnasked' /\ FailedIsFinal' /\ ExcusedFailed'
  BY <1>1 DEF FlowInv, FlowColumnsOK, AuthorityOrder, VerdictsHold, verdictHolds,
              ListedRowsAreUnasked, FailedIsFinal, ExcusedFailed, asks
<1>4. PendingHasDeadline' /\ NoAuthorityNoMoney' /\ PaidMeansSettled'
  BY <1>1 DEF FlowInv, FlowColumnsOK, PendingHasDeadline, NoAuthorityNoMoney, PaidMeansSettled
<1>5. [Next]_vars
  BY DEF Checkout, Next, CreateOrder
<1>6. orderStep(o)
  BY <1>1 DEF FlowInv, FlowColumnsOK, orderStep
<1> QED
  BY <1>2, <1>3, <1>4, <1>5, <1>6 DEF FlowInv, oneOrderMoves

\* The POST handler ends: the authority is written on an order that has none, or
\* the order is failed before its customer could see the payment page.
LEMMA CheckoutEndInv ==
  ASSUME FlowInv, NEW o \in Orders, CheckoutOpened(o) \/ CheckoutRefused(o)
  PROVE  FlowInv' /\ [Next]_vars /\ oneOrderMoves
<1>1. CASE CheckoutOpened(o)
  <2>1. FlowColumnsOK'
    BY <1>1, FlowAssumption DEF CheckoutOpened, vars, histVars, FlowInv, FlowColumnsOK
  <2>2. AuthorityOrder' /\ VerdictsHold' /\ FailedIsFinal' /\ ExcusedFailed'
    BY <1>1 DEF CheckoutOpened, vars, FlowInv, FlowColumnsOK, AuthorityOrder,
                VerdictsHold, verdictHolds, FailedIsFinal, ExcusedFailed, asks
  <2>4. ListedRowsAreUnasked'
    <3>1. /\ authority' = [authority EXCEPT ![o] = TRUE]
          /\ overtaken' = overtaken \cup {q \in {o} : \E w \in Workers : q \in expiring[w]}
          /\ UNCHANGED expiring
      BY <1>1 DEF CheckoutOpened
    <3> SUFFICES ASSUME NEW w \in Workers, NEW q \in expiring[w], authority'[q]
                 PROVE  q \in overtaken'
      BY <3>1 DEF ListedRowsAreUnasked
    <3>2. q \in Orders
      BY DEF FlowInv, FlowColumnsOK
    <3>3. CASE q = o
      BY <3>1, <3>3
    <3>4. CASE q # o
      BY <3>1, <3>2, <3>4 DEF FlowInv, FlowColumnsOK, ListedRowsAreUnasked
    <3> QED
      BY <3>3, <3>4
  <2>3. PendingHasDeadline' /\ NoAuthorityNoMoney' /\ PaidMeansSettled'
    BY <1>1 DEF CheckoutOpened, vars, histVars, FlowInv, FlowColumnsOK,
                PendingHasDeadline, NoAuthorityNoMoney, PaidMeansSettled
  <2> QED
    BY <1>1, <2>1, <2>2, <2>3, <2>4 DEF FlowInv, oneOrderMoves, CheckoutOpened, vars
<1>2. CASE CheckoutRefused(o)
  <2>1. /\ post[o] # Nobody
        /\ markFailed(o)
        /\ post' = [post EXCEPT ![o] = Nobody]
        /\ UNCHANGED <<authority, tries, gateway, callback, expiring, reconcile, up, crashes,
                     overtaken, excuse, notices>>
    BY <1>2 DEF CheckoutRefused, histVars
  <2>2. /\ status[o] = "pending_payment" =>
              /\ status' = [status EXCEPT ![o] = "failed"]
              /\ expires' = [expires EXCEPT ![o] = "null"]
        /\ status[o] # "pending_payment" => UNCHANGED <<status, expires>>
        /\ [Next]_vars
    BY <2>1, MarkFailedEffect DEF FlowInv
  <2>3. FlowColumnsOK'
    BY <2>1, <2>2 DEF FlowInv, FlowColumnsOK
  <2>4. /\ AuthorityOrder' /\ VerdictsHold' /\ ListedRowsAreUnasked'
        /\ FailedIsFinal' /\ ExcusedFailed'
    BY <2>1, <2>2 DEF FlowInv, FlowColumnsOK, AuthorityOrder, VerdictsHold, verdictHolds,
              ListedRowsAreUnasked, NoAuthorityNoMoney, FailedIsFinal, ExcusedFailed, asks
  <2>5. PendingHasDeadline' /\ NoAuthorityNoMoney' /\ PaidMeansSettled'
    BY <2>1, <2>2 DEF FlowInv, FlowColumnsOK, PendingHasDeadline, NoAuthorityNoMoney,
              PaidMeansSettled
  <2>6. orderStep(o) \/ UNCHANGED <<status, gateway, excuse>>
    BY <2>1, <2>2 DEF FlowInv, FlowColumnsOK, orderStep
  <2> QED
    BY <2>2, <2>3, <2>4, <2>5, <2>6 DEF FlowInv, oneOrderMoves
<1> QED
  BY <1>1, <1>2

\* The customer and the gateway touch neither settled nor closed money.
LEMMA GatewayInv ==
  ASSUME FlowInv, GatewayStep
  PROVE  FlowInv' /\ [Next]_vars /\ oneOrderMoves
<1>1. PICK o \in Orders : GatewayOpens(o) \/ CustomerPays(o) \/ GatewayCloses(o)
  BY DEF GatewayStep
<1>2. /\ \/ post[o] # Nobody /\ gateway[o] = "none" /\ gateway' = [gateway EXCEPT ![o] = "open"]
         \/ authority[o] /\ gateway[o] = "open" /\ gateway' = [gateway EXCEPT ![o] = "paid"]
         \/ gateway[o] \in {"open", "paid"} /\ gateway' = [gateway EXCEPT ![o] = "closed"]
      /\ UNCHANGED <<vars, payVars, jobVars, histVars>>
  BY <1>1 DEF GatewayOpens, CustomerPays, GatewayCloses
<1>3. UNCHANGED <<status, authority, expires, tries, post, callback, expiring, reconcile, up,
                  crashes, overtaken, excuse, notices>>
  BY <1>2 DEF vars, payVars, jobVars, histVars
<1>4. FlowColumnsOK'
  BY <1>2, <1>3 DEF FlowInv, FlowColumnsOK
<1>5. AuthorityOrder' /\ ListedRowsAreUnasked' /\ ExcusedFailed' /\ PendingHasDeadline'
  BY <1>3 DEF FlowInv, AuthorityOrder, ListedRowsAreUnasked, ExcusedFailed, PendingHasDeadline,
              asks
<1>6. /\ gateway'[o] = "settled" <=> gateway[o] = "settled"
      /\ gateway[o] = "closed" => gateway'[o] = "closed"
      /\ \A q \in Orders : q # o => gateway'[q] = gateway[q]
  BY <1>2 DEF FlowInv, FlowColumnsOK
<1>7. VerdictsHold'
  BY <1>3, <1>6 DEF FlowInv, VerdictsHold, verdictHolds
<1>8. FailedIsFinal'
  BY <1>3, <1>6 DEF FlowInv, FailedIsFinal, asks
<1>9. NoAuthorityNoMoney' /\ PaidMeansSettled'
  BY <1>2, <1>3 DEF FlowInv, FlowColumnsOK, NoAuthorityNoMoney, PaidMeansSettled
<1>10. orderStep(o)
  BY <1>3, <1>6 DEF orderStep
<1> QED
  BY <1>2, <1>4, <1>5, <1>7, <1>8, <1>9, <1>10 DEF FlowInv, oneOrderMoves

\* A verify call about an order that some handler holds.  It never takes back
\* what another handler was told.
LEMMA VerifyEffect ==
  ASSUME FlowInv, NEW o \in Orders, NEW a \in Answers \ {"asking"}, asks(o), verify(o, a)
  PROVE  /\ gateway' \in [Orders -> {"none", "open", "paid", "settled", "closed"}]
         /\ \A q \in Orders : q # o => gateway'[q] = gateway[q]
         /\ gateway[o] \in {"settled"} => gateway'[o] = gateway[o]
         /\ gateway[o] = "closed" => gateway'[o] = "closed"
         /\ a = "ok" => gateway'[o] = "settled"
         /\ a = "no" /\ UnpaidIsFinal => gateway'[o] = "closed"
         /\ gateway'[o] \in {"paid", "settled"} => gateway[o] \in {"paid", "settled"}
<1>1. gateway[o] \in {"none", "open", "paid", "settled", "closed"}
  BY DEF FlowInv, FlowColumnsOK
<1>2. CASE a = "ok"
  BY <1>1, <1>2 DEF verify, FlowInv, FlowColumnsOK
<1>3. CASE a = "no"
  BY <1>1, <1>3 DEF verify, FlowInv, FlowColumnsOK
<1>4. CASE a = "unreachable"
  BY <1>1, <1>4 DEF verify, FlowInv, FlowColumnsOK
<1> QED
  BY <1>2, <1>3, <1>4 DEF Answers

\* A callback that starts holds a pending order with an authority.
LEMMA CallbackStartInv ==
  ASSUME FlowInv, NEW w \in Workers, NEW c \in Callbacks, NEW o \in Orders, CallbackOk(w, c, o)
  PROVE  FlowInv' /\ [Next]_vars /\ oneOrderMoves
<1>1. /\ status[o] = "pending_payment" /\ authority[o]
      /\ callback' = [callback EXCEPT
                        ![c] = [order |-> o, worker |-> w, answer |-> "asking"]]
      /\ UNCHANGED <<status, authority, expires, tries, gateway, post, expiring, reconcile,
                     up, crashes, overtaken, excuse, notices>>
      /\ UNCHANGED vars
  BY DEF CallbackOk, vars, payVars, histVars
<1>2. FlowColumnsOK'
  BY <1>1 DEF FlowInv, FlowColumnsOK, CallRecord, Answers
<1>3. AuthorityOrder' /\ ListedRowsAreUnasked' /\ FailedIsFinal'
  BY <1>1 DEF FlowInv, FlowColumnsOK, AuthorityOrder, ListedRowsAreUnasked, FailedIsFinal, asks
<1>4. VerdictsHold' /\ ExcusedFailed'
  BY <1>1 DEF FlowInv, FlowColumnsOK, VerdictsHold, verdictHolds, ExcusedFailed
<1>5. PendingHasDeadline' /\ NoAuthorityNoMoney' /\ PaidMeansSettled'
  BY <1>1 DEF FlowInv, PendingHasDeadline, NoAuthorityNoMoney, PaidMeansSettled
<1> QED
  BY <1>1, <1>2, <1>3, <1>4, <1>5 DEF FlowInv, oneOrderMoves

\* The answer that reaches a callback is true, and contradicts no other.
LEMMA CallbackAnswerInv ==
  ASSUME FlowInv, NEW c \in Callbacks, CallbackAnswer(c)
  PROVE  FlowInv' /\ [Next]_vars /\ oneOrderMoves
<1> DEFINE o == callback[c].order
<1>1. o \in Orders /\ callback[c] \in [order : Orders, worker : Workers, answer : Answers]
  BY DEF CallbackAnswer, FlowInv, FlowColumnsOK, CallRecord, Idle
<1>2. PICK a \in Answers \ {"asking"} :
        verify(o, a) /\ callback' = [callback EXCEPT ![c].answer = a]
  BY DEF CallbackAnswer
<1>3. /\ UNCHANGED <<status, authority, expires, tries, post, expiring, reconcile, up,
                     crashes, overtaken, excuse, notices>>
      /\ UNCHANGED vars
  BY DEF CallbackAnswer, vars, payVars, histVars
<1>4. asks(o)
  BY DEF asks
<1> HIDE DEF o
<1>5. /\ gateway' \in [Orders -> {"none", "open", "paid", "settled", "closed"}]
      /\ \A q \in Orders : q # o => gateway'[q] = gateway[q]
      /\ gateway[o] \in {"settled"} => gateway'[o] = gateway[o]
      /\ gateway[o] = "closed" => gateway'[o] = "closed"
      /\ a = "ok" => gateway'[o] = "settled"
      /\ a = "no" /\ UnpaidIsFinal => gateway'[o] = "closed"
      /\ gateway'[o] \in {"paid", "settled"} => gateway[o] \in {"paid", "settled"}
  BY <1>1, <1>2, <1>4, VerifyEffect
<1>6. /\ \A d \in Callbacks : callback'[d].order = callback[d].order
      /\ \A d \in Callbacks : d # c => callback'[d] = callback[d]
      /\ callback'[c].answer = a
      /\ callback' \in [Callbacks -> CallRecord]
  BY <1>1, <1>2 DEF FlowInv, FlowColumnsOK, CallRecord
<1>7. FlowColumnsOK'
  BY <1>3, <1>5, <1>6 DEF FlowInv, FlowColumnsOK
<1>8. AuthorityOrder' /\ ListedRowsAreUnasked' /\ ExcusedFailed' /\ PendingHasDeadline'
  BY <1>3, <1>6 DEF FlowInv, AuthorityOrder, ListedRowsAreUnasked, ExcusedFailed,
                   PendingHasDeadline, asks
<1>9. \A q \in Orders : asks(q)' <=> asks(q)
  BY <1>3, <1>6 DEF asks
<1>10. VerdictsHold'
  <2>1. ASSUME NEW q \in Orders, NEW d \in Callbacks, callback'[d].order = q
        PROVE  verdictHolds(q, callback[d].answer)' 
    BY <2>1, <1>5, <1>6 DEF FlowInv, VerdictsHold, verdictHolds, o
  <2>2. ASSUME NEW q \in Orders, NEW w \in Workers, reconcile'[w].order = q
        PROVE  verdictHolds(q, reconcile[w].answer)'
    BY <2>2, <1>3, <1>5 DEF FlowInv, VerdictsHold, verdictHolds
  <2> QED
    BY <2>1, <2>2 DEF VerdictsHold
<1>11. FailedIsFinal'
  BY <1>3, <1>4, <1>5, <1>9 DEF FlowInv, FailedIsFinal
<1>12. NoAuthorityNoMoney' /\ PaidMeansSettled'
  BY <1>1, <1>3, <1>5 DEF FlowInv, NoAuthorityNoMoney, PaidMeansSettled
<1>13. orderStep(o)
  BY <1>3, <1>5 DEF orderStep
<1> QED
  BY <1>1, <1>3, <1>7, <1>8, <1>10, <1>11, <1>12, <1>13 DEF FlowInv, oneOrderMoves

\* The same for a reconcile run.
LEMMA ReconcileAnswerInv ==
  ASSUME FlowInv, NEW w \in Workers, ReconcileAnswer(w)
  PROVE  FlowInv' /\ [Next]_vars /\ oneOrderMoves
<1> DEFINE o == reconcile[w].order
<1>1. /\ o \in Orders
      /\ reconcile[w] \in [order : Orders, rest : SUBSET Orders, answer : Answers]
  BY DEF ReconcileAnswer, FlowInv, FlowColumnsOK, RunRecord, Resting
<1>2. PICK a \in Answers \ {"asking"} :
        verify(o, a) /\ reconcile' = [reconcile EXCEPT ![w].answer = a]
  BY DEF ReconcileAnswer
<1>3. /\ UNCHANGED <<status, authority, expires, tries, post, callback, expiring, up,
                     crashes, overtaken, excuse, notices>>
      /\ UNCHANGED vars
  BY DEF ReconcileAnswer, vars, payVars, histVars
<1>4. asks(o)
  BY DEF asks
<1> HIDE DEF o
<1>5. /\ gateway' \in [Orders -> {"none", "open", "paid", "settled", "closed"}]
      /\ \A q \in Orders : q # o => gateway'[q] = gateway[q]
      /\ gateway[o] \in {"settled"} => gateway'[o] = gateway[o]
      /\ gateway[o] = "closed" => gateway'[o] = "closed"
      /\ a = "ok" => gateway'[o] = "settled"
      /\ a = "no" /\ UnpaidIsFinal => gateway'[o] = "closed"
      /\ gateway'[o] \in {"paid", "settled"} => gateway[o] \in {"paid", "settled"}
  BY <1>1, <1>2, <1>4, VerifyEffect
<1>6. /\ \A v \in Workers : /\ reconcile'[v].order = reconcile[v].order
                            /\ reconcile'[v].rest = reconcile[v].rest
      /\ \A v \in Workers : v # w => reconcile'[v] = reconcile[v]
      /\ reconcile'[w].answer = a
      /\ reconcile' \in [Workers -> RunRecord]
  BY <1>1, <1>2 DEF FlowInv, FlowColumnsOK, RunRecord
<1>7. FlowColumnsOK'
  BY <1>3, <1>5, <1>6 DEF FlowInv, FlowColumnsOK
<1>8. AuthorityOrder' /\ ListedRowsAreUnasked' /\ ExcusedFailed' /\ PendingHasDeadline'
  BY <1>3, <1>6 DEF FlowInv, AuthorityOrder, ListedRowsAreUnasked, ExcusedFailed,
                   PendingHasDeadline, asks
<1>9. \A q \in Orders : asks(q)' <=> asks(q)
  BY <1>3, <1>6 DEF asks
<1>10. VerdictsHold'
  <2>1. ASSUME NEW q \in Orders, NEW v \in Workers, reconcile'[v].order = q
        PROVE  verdictHolds(q, reconcile[v].answer)'
    BY <2>1, <1>5, <1>6 DEF FlowInv, VerdictsHold, verdictHolds, o
  <2>2. ASSUME NEW q \in Orders, NEW c \in Callbacks, callback'[c].order = q
        PROVE  verdictHolds(q, callback[c].answer)'
    BY <2>2, <1>3, <1>5 DEF FlowInv, VerdictsHold, verdictHolds
  <2> QED
    BY <2>1, <2>2 DEF VerdictsHold
<1>11. FailedIsFinal'
  BY <1>3, <1>4, <1>5, <1>9 DEF FlowInv, FailedIsFinal
<1>12. NoAuthorityNoMoney' /\ PaidMeansSettled'
  BY <1>1, <1>3, <1>5 DEF FlowInv, NoAuthorityNoMoney, PaidMeansSettled
<1>13. orderStep(o)
  BY <1>3, <1>5 DEF orderStep
<1> QED
  BY <1>1, <1>3, <1>7, <1>8, <1>10, <1>11, <1>12, <1>13 DEF FlowInv, oneOrderMoves

-----------------------------------------------------------------------------
\* The steps in which the money stands still.

\* How a step may treat an order's row: leave it undecided or decided, keep it
\* against settled money, drop it when there can be none, or with an excuse.
rowMoves(o) ==
  \/ /\ UNCHANGED <<status, excuse>>
     /\ \A q \in Orders : expires'[q] = "null" <=> expires[q] = "null"
  \/ /\ status[o] = "pending_payment"
     /\ expires' = [expires EXCEPT ![o] = "null"]
     /\ \/ /\ status' = [status EXCEPT ![o] = "paid"]
           /\ gateway[o] = "settled"
           /\ UNCHANGED excuse
        \/ /\ status' = [status EXCEPT ![o] = "failed"]
           /\ UnpaidIsFinal => gateway[o] # "settled" /\ (asks(o) => gateway[o] = "closed")
           /\ UNCHANGED excuse
        \/ /\ status' = [status EXCEPT ![o] = "failed"]
           /\ \E reason \in Excuses : excuse' = [excuse EXCEPT ![o] = reason]

\* How a step may treat the handlers: drop them, list rows that have no
\* authority, or have them ask anew, about a row they hold already or about a
\* pending one with an authority.
handlersMove ==
  /\ \A q \in Orders : post'[q] \in {post[q], Nobody}
  /\ \A c \in Callbacks : callback'[c] = callback[c] \/ callback'[c].answer = "asking"
  /\ \A w \in Workers : reconcile'[w] = reconcile[w] \/ reconcile'[w].answer = "asking"
  /\ \A w \in Workers : \A q \in expiring'[w] : q \in expiring[w] \/ ~authority[q]
  /\ \A q \in Orders : asks(q)' => \/ asks(q)
                                   \/ authority[q] /\ status'[q] = "pending_payment"

\* Such a step keeps the invariant.
LEMMA RowMovesInv ==
  ASSUME FlowInv, NEW o \in Orders, rowMoves(o), handlersMove, FlowColumnsOK',
         UNCHANGED <<authority, gateway, overtaken>>
  PROVE  FlowInv' /\ oneOrderMoves
<1>1. AuthorityOrder'
  BY DEF FlowInv, AuthorityOrder, handlersMove, rowMoves, FlowColumnsOK
<1>2. VerdictsHold'
  BY DEF FlowInv, VerdictsHold, verdictHolds, handlersMove
<1>3. FailedIsFinal'
  BY DEF FlowInv, FailedIsFinal, handlersMove, rowMoves, Excuses, FlowColumnsOK
<1>4. ExcusedFailed'
  BY DEF FlowInv, ExcusedFailed, rowMoves, FlowColumnsOK
<1>5. PendingHasDeadline'
  BY DEF FlowInv, PendingHasDeadline, rowMoves, FlowColumnsOK
<1>6. NoAuthorityNoMoney' /\ PaidMeansSettled'
  BY DEF FlowInv, NoAuthorityNoMoney, PaidMeansSettled, rowMoves, FlowColumnsOK
<1>7. orderStep(o)
  BY DEF rowMoves, orderStep, Excuses, FlowInv, FlowColumnsOK
<1>8. ListedRowsAreUnasked'
  BY DEF FlowInv, ListedRowsAreUnasked, handlersMove
<1> QED
  BY <1>1, <1>2, <1>3, <1>4, <1>5, <1>6, <1>7, <1>8 DEF FlowInv, oneOrderMoves

\* Marking a row in either way is a step of the order table that leaves the
\* row's columns well-typed; what rowMoves asks for is left to the caller.
LEMMA MarkingIsARowMove ==
  ASSUME FlowInv, NEW o \in Orders,
         \/ /\ markPaid(o)
            /\ gateway[o] = "settled"
            /\ UNCHANGED excuse
         \/ /\ markFailed(o)
            /\ UnpaidIsFinal => gateway[o] # "settled" /\ (asks(o) => gateway[o] = "closed")
            /\ UNCHANGED excuse
         \/ /\ markFailed(o)
            /\ \E reason \in Excuses : excuseIf(TRUE, o, reason)
  PROVE  /\ rowMoves(o)
         /\ [Next]_vars
         /\ status' \in [Orders -> {"none", "pending_payment", "paid", "failed"}]
         /\ expires' \in [Orders -> {"null", "ahead", "passed", "longPassed"}]
         /\ excuse' \in [Orders -> Excuses \cup {"none"}]
<1> DEFINE columns == /\ status' \in [Orders -> {"none", "pending_payment", "paid", "failed"}]
                      /\ expires' \in [Orders -> {"null", "ahead", "passed", "longPassed"}]
                      /\ excuse' \in [Orders -> Excuses \cup {"none"}]
<1>1. CASE /\ markPaid(o)
           /\ gateway[o] = "settled"
           /\ UNCHANGED excuse
  <2>1. /\ status[o] = "pending_payment" =>
              /\ status' = [status EXCEPT ![o] = "paid"]
              /\ expires' = [expires EXCEPT ![o] = "null"]
        /\ status[o] # "pending_payment" => UNCHANGED <<status, expires>>
        /\ [Next]_vars
    BY <1>1, MarkPaidEffect DEF FlowInv
  <2>2. columns
    BY <1>1, <2>1 DEF FlowInv, FlowColumnsOK
  <2>3. rowMoves(o)
    BY <1>1, <2>1 DEF rowMoves
  <2> QED
    BY <2>1, <2>2, <2>3
<1>2. CASE markFailed(o)
  <2>1. /\ status[o] = "pending_payment" =>
              /\ status' = [status EXCEPT ![o] = "failed"]
              /\ expires' = [expires EXCEPT ![o] = "null"]
        /\ status[o] # "pending_payment" => UNCHANGED <<status, expires>>
        /\ [Next]_vars
    BY <1>2, MarkFailedEffect DEF FlowInv
  <2>2. CASE /\ UnpaidIsFinal => gateway[o] # "settled" /\ (asks(o) => gateway[o] = "closed")
             /\ UNCHANGED excuse
    <3>1. columns
      BY <2>1, <2>2 DEF FlowInv, FlowColumnsOK
    <3>2. rowMoves(o)
      BY <2>1, <2>2 DEF rowMoves
    <3> QED
      BY <2>1, <3>1, <3>2
  <2>3. CASE \E reason \in Excuses : excuseIf(TRUE, o, reason)
    <3>1. PICK reason \in Excuses :
            excuse' = IF status[o] = "pending_payment" THEN [excuse EXCEPT ![o] = reason]
                      ELSE excuse
      BY <2>3 DEF excuseIf
    <3>2. columns
      BY <2>1, <3>1 DEF FlowInv, FlowColumnsOK
    <3>3. rowMoves(o)
      BY <2>1, <3>1 DEF rowMoves
    <3> QED
      BY <2>1, <3>2, <3>3
  <2> QED
    BY <1>2, <2>2, <2>3, <1>1
<1> QED
  BY <1>1, <1>2

\* A browser that comes back with another Status than OK fails the order, by
\* which the money is safe if the transaction is closed, and excused if not.
LEMMA CallbackNokInv ==
  ASSUME FlowInv, NEW w \in Workers, NEW o \in Orders, CallbackNok(w, o)
  PROVE  FlowInv' /\ [Next]_vars /\ oneOrderMoves
<1>1. /\ markFailed(o) /\ excuseIf(gateway[o] # "closed", o, "nok")
      /\ UNCHANGED <<authority, tries, gateway, post, callback, expiring, reconcile, up, crashes,
                     overtaken, notices>>
  BY DEF CallbackNok, jobVars
<1>2. /\ rowMoves(o)
      /\ [Next]_vars
      /\ status' \in [Orders -> {"none", "pending_payment", "paid", "failed"}]
      /\ expires' \in [Orders -> {"null", "ahead", "passed", "longPassed"}]
      /\ excuse' \in [Orders -> Excuses \cup {"none"}]
  <2>1. CASE gateway[o] = "closed"
    <3>1. UNCHANGED excuse
      BY <1>1, <2>1 DEF excuseIf
    <3> QED
      BY <1>1, <2>1, <3>1, MarkingIsARowMove
  <2>2. CASE gateway[o] # "closed"
    <3>1. excuseIf(TRUE, o, "nok")
      BY <1>1, <2>2 DEF excuseIf
    <3>2. "nok" \in Excuses
      BY DEF Excuses
    <3> QED
      BY <1>1, <3>1, <3>2, MarkingIsARowMove
  <2> QED
    BY <2>1, <2>2
<1>3. handlersMove
  BY <1>1 DEF handlersMove, asks
<1>4. FlowColumnsOK'
  BY <1>1, <1>2 DEF FlowInv, FlowColumnsOK
<1> QED
  BY <1>1, <1>2, <1>3, <1>4, RowMovesInv

\* The SELECT of expireStaleOrders finds rows without an authority.
LEMMA ExpireStaleInv ==
  ASSUME FlowInv, NEW w \in Workers, ExpireStale(w)
  PROVE  FlowInv' /\ [Next]_vars /\ oneOrderMoves
<1> DEFINE rows == {q \in Orders : stale(q) /\ ~authority[q]}
<1>1. /\ UNCHANGED <<authority, expires, tries, gateway, post, callback, reconcile, up, crashes,
                     overtaken, excuse, notices>>
      /\ UNCHANGED vars /\ UNCHANGED status
      /\ expiring' = [expiring EXCEPT ![w] = rows]
  BY DEF ExpireStale, vars, payVars, histVars
<1>2. PICK o \in Orders : o \in rows
  BY DEF ExpireStale
<1>3. rows \in SUBSET Orders /\ \A q \in rows : ~authority[q]
  OBVIOUS
<1> HIDE DEF rows
<1>4. FlowColumnsOK'
  BY <1>1, <1>3 DEF FlowInv, FlowColumnsOK
<1>5. \A v \in Workers : expiring'[v] = IF v = w THEN rows ELSE expiring[v]
  BY <1>1 DEF FlowInv, FlowColumnsOK
<1>6. handlersMove
  BY <1>1, <1>3, <1>5 DEF handlersMove, asks
<1>7. rowMoves(o)
  BY <1>1 DEF rowMoves
<1> QED
  BY <1>1, <1>4, <1>6, <1>7, RowMovesInv

\* A listed row that was not overtaken still has no authority when it is failed,
\* hence no money, and nobody asks about it; one that was overtaken is excused.
LEMMA ExpireRowInv ==
  ASSUME FlowInv, NEW w \in Workers, NEW o \in Orders, ExpireRow(w, o)
  PROVE  FlowInv' /\ [Next]_vars /\ oneOrderMoves
<1>1. /\ o \in expiring[w]
      /\ markFailed(o) /\ excuseIf(o \in overtaken, o, "overtaken")
      /\ expiring' = [expiring EXCEPT ![w] = @ \ {o}]
      /\ UNCHANGED <<authority, tries, gateway, post, callback, reconcile, up, crashes,
                     overtaken, notices>>
  BY DEF ExpireRow
<1>2. /\ rowMoves(o)
      /\ [Next]_vars
      /\ status' \in [Orders -> {"none", "pending_payment", "paid", "failed"}]
      /\ expires' \in [Orders -> {"null", "ahead", "passed", "longPassed"}]
      /\ excuse' \in [Orders -> Excuses \cup {"none"}]
  <2>1. CASE o \notin overtaken
    <3>1. UNCHANGED excuse
      BY <1>1, <2>1 DEF excuseIf
    <3>2. ~authority[o]
      BY <1>1, <2>1 DEF FlowInv, ListedRowsAreUnasked
    <3>3. gateway[o] # "settled" /\ ~asks(o)
      BY <3>2 DEF FlowInv, NoAuthorityNoMoney, AuthorityOrder
    <3> QED
      BY <1>1, <3>1, <3>3, MarkingIsARowMove
  <2>2. CASE o \in overtaken
    <3>1. excuseIf(TRUE, o, "overtaken")
      BY <1>1, <2>2 DEF excuseIf
    <3>2. "overtaken" \in Excuses
      BY DEF Excuses
    <3> QED
      BY <1>1, <3>1, <3>2, MarkingIsARowMove
  <2> QED
    BY <2>1, <2>2
<1>3. /\ expiring' \in [Workers -> SUBSET Orders]
      /\ \A v \in Workers : expiring'[v] \subseteq expiring[v]
  BY <1>1 DEF FlowInv, FlowColumnsOK
<1>4. handlersMove
  BY <1>1, <1>3 DEF handlersMove, asks
<1>5. FlowColumnsOK'
  BY <1>1, <1>2, <1>3 DEF FlowInv, FlowColumnsOK
<1> QED
  BY <1>1, <1>2, <1>4, <1>5, RowMovesInv

\* A callback acts on its answer: the answer still holds, although an await lies
\* between the gateway's word and the deed.
LEMMA CallbackEndInv ==
  ASSUME FlowInv, NEW c \in Callbacks, CallbackEnd(c)
  PROVE  FlowInv' /\ [Next]_vars /\ oneOrderMoves
<1> DEFINE o == callback[c].order
<1>1. o \in Orders
  BY DEF CallbackEnd, FlowInv, FlowColumnsOK, CallRecord, Idle
<1>2. /\ callback' = [callback EXCEPT ![c] = Idle]
      /\ UNCHANGED <<authority, tries, gateway, post, expiring, reconcile, up, crashes, overtaken>>
      /\ notices' \in [Orders -> 0..MaxNotices]
  BY <1>1, FlowAssumption
     DEF CallbackEnd, notifyNewOrder, Min2, FlowInv, FlowColumnsOK, histVars
<1>3. /\ callback' \in [Callbacks -> CallRecord]
      /\ callback'[c] = Idle
      /\ \A d \in Callbacks : d # c => callback'[d] = callback[d]
  BY <1>2 DEF FlowInv, FlowColumnsOK, CallRecord
<1>4. /\ rowMoves(o)
      /\ [Next]_vars
      /\ status' \in [Orders -> {"none", "pending_payment", "paid", "failed"}]
      /\ expires' \in [Orders -> {"null", "ahead", "passed", "longPassed"}]
      /\ excuse' \in [Orders -> Excuses \cup {"none"}]
  <2>1. verdictHolds(o, callback[c].answer)
    BY <1>1 DEF FlowInv, VerdictsHold
  <2>2. CASE callback[c].answer = "ok"
    BY <1>1, <1>2, <2>1, <2>2, MarkingIsARowMove DEF CallbackEnd, verdictHolds
  <2>3. CASE callback[c].answer = "no"
    BY <1>1, <1>2, <2>1, <2>3, MarkingIsARowMove DEF CallbackEnd, verdictHolds
  <2>4. CASE callback[c].answer = "unreachable"
    BY <1>2, <2>4 DEF CallbackEnd, rowMoves, FlowInv, FlowColumnsOK, vars
  <2> QED
    BY <2>2, <2>3, <2>4 DEF CallbackEnd
<1>5. handlersMove
  BY <1>2, <1>3, FlowAssumption DEF handlersMove, asks, Idle
<1>6. FlowColumnsOK'
  BY <1>2, <1>3, <1>4 DEF FlowInv, FlowColumnsOK
<1> QED
  BY <1>1, <1>2, <1>4, <1>5, <1>6, RowMovesInv

\* askNext asks about one of the rows, keeps the others, and asks anew.
LEMMA AskNextEffect ==
  ASSUME FlowInv, NEW w \in Workers, NEW rows \in SUBSET Orders, askNext(w, rows)
  PROVE  /\ reconcile' \in [Workers -> RunRecord]
         /\ tries' \in [Orders -> 0..MaxTries]
         /\ reconcile'[w].answer = "asking"
         /\ reconcile'[w].rest \subseteq rows
         /\ reconcile'[w].order \in rows \cup {Nobody}
         /\ \A v \in Workers : v # w => reconcile'[v] = reconcile[v]
<1>1. CASE /\ reconcile' = [reconcile EXCEPT ![w] = Resting]
           /\ UNCHANGED tries
  BY <1>1 DEF FlowInv, FlowColumnsOK, RunRecord, Resting
<1>2. CASE \E o \in rows :
             /\ reconcile' = [reconcile EXCEPT
                                ![w] = [order |-> o, rest |-> rows \ {o}, answer |-> "asking"]]
             /\ tries' = [tries EXCEPT ![o] = Min2(@ + 1, MaxTries)]
  BY <1>2, FlowAssumption DEF FlowInv, FlowColumnsOK, RunRecord, Answers, Min2
<1> QED
  BY <1>1, <1>2 DEF askNext

\* A reconcile run starts: it reads pending rows that have an authority.
LEMMA ReconcileStartInv ==
  ASSUME FlowInv, NEW w \in Workers, ReconcileStart(w)
  PROVE  FlowInv' /\ [Next]_vars /\ oneOrderMoves
<1>1. /\ UNCHANGED <<authority, expires, gateway, post, callback, expiring, up, crashes,
                     overtaken, excuse, notices>>
      /\ UNCHANGED vars /\ UNCHANGED status
      /\ askNext(w, staleRows)
  BY DEF ReconcileStart, vars, histVars
<1>2. /\ staleRows \in SUBSET Orders
      /\ \A q \in staleRows : authority[q] /\ status[q] = "pending_payment"
  BY DEF staleRows, stale
<1>3. /\ reconcile' \in [Workers -> RunRecord]
      /\ tries' \in [Orders -> 0..MaxTries]
      /\ reconcile'[w].answer = "asking"
      /\ reconcile'[w].rest \subseteq staleRows
      /\ reconcile'[w].order \in staleRows \cup {Nobody}
      /\ \A v \in Workers : v # w => reconcile'[v] = reconcile[v]
  BY <1>1, <1>2, AskNextEffect
<1>4. handlersMove
  BY <1>1, <1>2, <1>3, FlowAssumption, ZenonT(30) DEF handlersMove, asks
<1>5. FlowColumnsOK'
  BY <1>1, <1>3 DEF FlowInv, FlowColumnsOK
<1>6. PICK o \in Orders : TRUE
  BY <1>2 DEF ReconcileStart
<1>7. rowMoves(o)
  BY <1>1 DEF rowMoves
<1> QED
  BY <1>1, <1>4, <1>5, <1>7, RowMovesInv

\* A reconcile run acts on its answer and goes on to a row it read earlier.
LEMMA ReconcileEndInv ==
  ASSUME FlowInv, NEW w \in Workers, ReconcileEnd(w)
  PROVE  FlowInv' /\ [Next]_vars /\ oneOrderMoves
<1> DEFINE o == reconcile[w].order
<1>1. /\ o \in Orders
      /\ reconcile[w].rest \in SUBSET Orders
  BY DEF ReconcileEnd, FlowInv, FlowColumnsOK, RunRecord, Resting
<1>2. /\ UNCHANGED <<authority, gateway, post, callback, expiring, up, crashes, overtaken>>
      /\ notices' \in [Orders -> 0..MaxNotices]
      /\ askNext(w, reconcile[w].rest)
  <2>1. /\ UNCHANGED <<authority, gateway, post, callback, expiring, up, crashes, overtaken>>
        /\ askNext(w, reconcile[w].rest)
        /\ notifyNewOrder(o) \/ UNCHANGED notices
    BY DEF ReconcileEnd
  <2>2. notices' \in [Orders -> 0..MaxNotices]
    BY <1>1, <2>1, FlowAssumption DEF notifyNewOrder, Min2, FlowInv, FlowColumnsOK
  <2> QED
    BY <2>1, <2>2
<1>3. /\ reconcile' \in [Workers -> RunRecord]
      /\ tries' \in [Orders -> 0..MaxTries]
      /\ reconcile'[w].answer = "asking"
      /\ reconcile'[w].rest \subseteq reconcile[w].rest
      /\ reconcile'[w].order \in reconcile[w].rest \cup {Nobody}
      /\ \A v \in Workers : v # w => reconcile'[v] = reconcile[v]
  BY <1>1, <1>2, AskNextEffect
<1>4. /\ rowMoves(o)
      /\ [Next]_vars
      /\ status' \in [Orders -> {"none", "pending_payment", "paid", "failed"}]
      /\ expires' \in [Orders -> {"null", "ahead", "passed", "longPassed"}]
      /\ excuse' \in [Orders -> Excuses \cup {"none"}]
  <2>1. verdictHolds(o, reconcile[w].answer)
    BY <1>1 DEF FlowInv, VerdictsHold
  <2>2. CASE reconcile[w].answer = "ok"
    BY <1>1, <2>1, <2>2, MarkingIsARowMove DEF ReconcileEnd, verdictHolds
  <2>3. CASE reconcile[w].answer = "no"
    BY <1>1, <2>1, <2>3, MarkingIsARowMove DEF ReconcileEnd, verdictHolds, histVars
  <2>4. CASE reconcile[w].answer = "unreachable" /\ expires[o] = "longPassed"
    <3>1. markFailed(o) /\ excuseIf(TRUE, o, "gaveUp") /\ "gaveUp" \in Excuses
      BY <2>4 DEF ReconcileEnd, Excuses
    <3> QED
      BY <1>1, <3>1, MarkingIsARowMove
  <2>5. CASE reconcile[w].answer = "unreachable" /\ expires[o] # "longPassed"
    BY <2>5 DEF ReconcileEnd, rowMoves, FlowInv, FlowColumnsOK, vars, histVars
  <2> QED
    BY <2>2, <2>3, <2>4, <2>5 DEF ReconcileEnd
<1>5. handlersMove
  BY <1>1, <1>2, <1>3, FlowAssumption DEF handlersMove, asks
<1>6. FlowColumnsOK'
  BY <1>2, <1>3, <1>4 DEF FlowInv, FlowColumnsOK
<1> QED
  BY <1>1, <1>2, <1>4, <1>5, <1>6, RowMovesInv

\* A deadline passes: the order keeps having one.
LEMMA TimePassesInv ==
  ASSUME FlowInv, NEW o \in Orders, TimePasses(o)
  PROVE  FlowInv' /\ [Next]_vars /\ oneOrderMoves
<1>1. /\ UNCHANGED <<authority, tries, gateway, post, callback, expiring, reconcile, up,
                     crashes, overtaken, excuse, notices>>
      /\ UNCHANGED vars /\ UNCHANGED status
      /\ expires[o] \in {"ahead", "passed"}
      /\ expires' = [expires EXCEPT
                       ![o] = IF @ = "ahead" THEN "passed" ELSE "longPassed"]
  BY DEF TimePasses, vars, jobVars, histVars
<1>2. FlowColumnsOK'
  BY <1>1 DEF FlowInv, FlowColumnsOK
<1>3. rowMoves(o)
  BY <1>1 DEF rowMoves, FlowInv, FlowColumnsOK
<1>4. handlersMove
  BY <1>1 DEF handlersMove, asks
<1> QED
  BY <1>1, <1>2, <1>3, <1>4, RowMovesInv

\* A worker dies or comes back: handlers vanish, rows and money stay.
LEMMA ProcessInv ==
  ASSUME FlowInv, ProcessStep
  PROVE  FlowInv' /\ [Next]_vars /\ oneOrderMoves
<1>1. PICK w \in Workers : Crash(w) \/ Restart(w)
  BY DEF ProcessStep
<1>2. /\ UNCHANGED <<authority, expires, tries, gateway, overtaken, excuse, notices>>
      /\ UNCHANGED vars /\ UNCHANGED status
  BY <1>1 DEF Crash, Restart, vars, payVars, histVars
<1>3. /\ post' \in [Orders -> Workers \cup {Nobody}]
      /\ callback' \in [Callbacks -> CallRecord]
      /\ reconcile' \in [Workers -> RunRecord]
      /\ up' \in SUBSET Workers
      /\ crashes' \in 0..MaxCrashes
      /\ \A q \in Orders : post'[q] \in {post[q], Nobody}
      /\ \A c \in Callbacks : callback'[c] = callback[c] \/ callback'[c] = Idle
      /\ \A v \in Workers : reconcile'[v] = reconcile[v] \/ reconcile'[v] = Resting
      /\ expiring' \in [Workers -> SUBSET Orders]
      /\ \A v \in Workers : expiring'[v] \subseteq expiring[v]
  <2>1. CASE Crash(w)
    BY <2>1, FlowAssumption DEF Crash, FlowInv, FlowColumnsOK, CallRecord, RunRecord
  <2>2. CASE Restart(w)
    BY <2>2 DEF Restart, FlowInv, FlowColumnsOK
  <2> QED
    BY <1>1, <2>1, <2>2
<1>4. FlowColumnsOK'
  BY <1>2, <1>3 DEF FlowInv, FlowColumnsOK
<1>5. handlersMove
  BY <1>2, <1>3, FlowAssumption DEF handlersMove, asks, Idle, Resting
<1>6. ASSUME NEW o \in Orders PROVE FlowInv' /\ oneOrderMoves
  <2>1. rowMoves(o)
    BY <1>2 DEF rowMoves
  <2> QED
    BY <1>2, <1>4, <1>5, <2>1, RowMovesInv
<1>7. CASE Orders = {}
  <2>1. ListedRowsAreUnasked'
    BY <1>2, <1>3 DEF FlowInv, ListedRowsAreUnasked
  <2> QED
    BY <1>2, <1>4, <1>7, <2>1
       DEF FlowInv, oneOrderMoves, AuthorityOrder, VerdictsHold, FailedIsFinal, ExcusedFailed,
           PendingHasDeadline, NoAuthorityNoMoney, PaidMeansSettled
<1> QED
  BY <1>2, <1>6, <1>7

-----------------------------------------------------------------------------

\* The invariant holds at the start.
LEMMA InitFlowInv == FlowInit => FlowInv /\ Init
<1> SUFFICES ASSUME FlowInit PROVE FlowInv /\ Init
  OBVIOUS
<1>1. FlowColumnsOK
  BY FlowAssumption DEF FlowInit, Init, FlowColumnsOK, CallRecord, RunRecord
<1>2. \A o \in Orders : ~asks(o)
  BY FlowAssumption DEF FlowInit, asks, Idle, Resting
<1>3. AuthorityOrder /\ ListedRowsAreUnasked /\ FailedIsFinal /\ ExcusedFailed
  BY <1>2 DEF FlowInit, Init, AuthorityOrder, ListedRowsAreUnasked, FailedIsFinal,
              ExcusedFailed
<1>4. VerdictsHold
  BY FlowAssumption DEF FlowInit, VerdictsHold, Idle, Resting
<1>5. PendingHasDeadline /\ NoAuthorityNoMoney /\ PaidMeansSettled
  BY DEF FlowInit, Init, PendingHasDeadline, NoAuthorityNoMoney, PaidMeansSettled
<1> QED
  BY <1>1, <1>3, <1>4, <1>5 DEF FlowInv, FlowInit

\* Every step keeps the invariant, is a step of the order table or leaves it
\* alone, and moves one order on.
LEMMA NextFlowInv ==
  FlowInv /\ [FlowNext]_flowVars => FlowInv' /\ [Next]_vars /\ oneOrderMoves
<1> SUFFICES ASSUME FlowInv, [FlowNext]_flowVars
             PROVE  FlowInv' /\ [Next]_vars /\ oneOrderMoves
  OBVIOUS
<1>1. CASE CheckoutStep
  BY <1>1, CheckoutInv, CheckoutEndInv DEF CheckoutStep
<1>2. CASE GatewayStep
  BY <1>2, GatewayInv
<1>3. CASE CallbackStep
  BY <1>3, CallbackNokInv, CallbackStartInv, CallbackAnswerInv, CallbackEndInv DEF CallbackStep
<1>4. CASE PeriodicStep
  BY <1>4, ExpireStaleInv, ExpireRowInv, ReconcileStartInv, ReconcileAnswerInv, ReconcileEndInv
     DEF PeriodicStep
<1>5. CASE ProcessStep
  BY <1>5, ProcessInv
<1>6. CASE \E o \in Orders : TimePasses(o)
  BY <1>6, TimePassesInv
<1>7. CASE UNCHANGED flowVars
  <2>1. UNCHANGED <<status, authority, expires, tries, gateway, post, callback, expiring,
                    reconcile, up, crashes, overtaken, excuse, notices>> /\ UNCHANGED vars
    BY <1>7 DEF flowVars, vars, payVars, jobVars, histVars
  <2> QED
    BY <2>1 DEF oneOrderMoves, FlowInv, FlowColumnsOK, AuthorityOrder, VerdictsHold,
         verdictHolds, ListedRowsAreUnasked, FailedIsFinal, ExcusedFailed, PendingHasDeadline,
         NoAuthorityNoMoney, PaidMeansSettled, asks
<1> QED
  BY <1>1, <1>2, <1>3, <1>4, <1>5, <1>6, <1>7 DEF FlowNext

\* Everything the flow relies on holds in every reachable state, whatever the
\* numbers of orders, workers, callbacks in flight and crashes.
THEOREM FlowInvariance == FlowSpec => []FlowInv
<1> QED
  BY InitFlowInv, NextFlowInv, PTL DEF FlowSpec

\* The handlers of routes/orders.js and lib/reconcile.js touch the order table
\* only by OrderStock's transactions: every step of theirs is one or a stutter.
THEOREM FlowImplementsOrderStock == FlowSpec => ImplementsOrderStock
<1> QED
  BY InitFlowInv, NextFlowInv, PTL DEF FlowSpec, ImplementsOrderStock, Spec

\* Hence the order table's columns, and those of the flow, keep their types.
THEOREM FlowTypeCorrect == FlowSpec => []FlowTypeOK
<1>1. FlowInv /\ TypeOK => FlowTypeOK
  BY DEF FlowInv, FlowColumnsOK, FlowTypeOK
<1> QED
  BY <1>1, FlowInvariance, FlowImplementsOrderStock, TypeCorrect, PTL DEF ImplementsOrderStock

\* Goods of a failed order go back once also with all handlers running at once.
THEOREM FlowReleaseOnce == FlowSpec => []ReleasedAtMostOnce
<1> QED
  BY FlowImplementsOrderStock, ReleaseOnce, PTL DEF ImplementsOrderStock

\* Units are neither lost nor made while checkouts, callbacks, workers and the
\* reconciler overlap: the handlers touch the shelf only through transactions
\* that conserve it.
THEOREM FlowUnitsAreConserved == FlowSpec => []StockConserved
<1> QED
  BY FlowImplementsOrderStock, UnitsAreConserved, PTL DEF ImplementsOrderStock

\* A kept order has settled money behind it, also when the verdict is an await
\* old when the handler acts on it.
THEOREM PaidOrdersAreSettled == FlowSpec => []PaidMeansSettled
<1>1. FlowInv => PaidMeansSettled
  BY DEF FlowInv
<1> QED
  BY <1>1, FlowInvariance, PTL

\* On a machine that stays awake a deadline does not pass while the POST handler
\* waits for the gateway: nobody is left to write an authority on a listed row.
AwakeRuns ==
  /\ \A o \in Orders : expires[o] \in {"passed", "longPassed"} => post[o] = Nobody
  /\ \A w \in Workers : \A o \in expiring[w] :
       ~authority[o] /\ post[o] = Nobody /\ status[o] # "none"

\* A step of an awake machine keeps AwakeRuns.
LEMMA NextAwakeRuns ==
  ASSUME ~MaySuspend, FlowInv, FlowInv', AwakeRuns, [FlowNext]_flowVars
  PROVE  AwakeRuns'
<1> DEFINE listed(q) == \E w \in Workers : q \in expiring[w]
           quiet == /\ \A q \in Orders : post'[q] \in {post[q], Nobody}
                    /\ \A q \in Orders : expires'[q] \in {expires[q], "null"}
                    /\ \A w \in Workers : expiring'[w] \subseteq expiring[w]
                    /\ UNCHANGED authority
<1>1. \A q \in Orders : status[q] # "none" => status'[q] # "none"
  BY NextFlowInv DEF oneOrderMoves, orderStep
<1>2. ASSUME quiet PROVE AwakeRuns'
  BY <1>1, <1>2 DEF AwakeRuns, FlowInv, FlowColumnsOK
<1>3. ASSUME NEW o \in Orders, markPaid(o) \/ markFailed(o)
      PROVE  \A q \in Orders : expires'[q] \in {expires[q], "null"}
  BY <1>3, MarkPaidEffect, MarkFailedEffect DEF FlowInv, FlowColumnsOK
<1>4. CASE CheckoutStep
  <2>1. ASSUME NEW w \in Workers, NEW o \in Orders, NEW u \in Users, NEW k \in Keys,
               NEW l \in Lines, Checkout(w, o, u, k, l)
        PROVE  AwakeRuns'
    <3>1. /\ status[o] = "none"
          /\ expires' = [expires EXCEPT ![o] = "ahead"]
          /\ post' = [post EXCEPT ![o] = w]
          /\ UNCHANGED <<authority, expiring>>
      BY <2>1 DEF Checkout, createOrderTx, insertOrder
    <3>2. ~listed(o)
      BY <3>1 DEF AwakeRuns
    <3> QED
      BY <1>1, <3>1, <3>2 DEF AwakeRuns, FlowInv, FlowColumnsOK
  <2>2. ASSUME NEW o \in Orders, CheckoutOpened(o)
        PROVE  AwakeRuns'
    <3>1. /\ post[o] # Nobody
          /\ authority' = [authority EXCEPT ![o] = TRUE]
          /\ post' = [post EXCEPT ![o] = Nobody]
          /\ UNCHANGED <<expires, expiring>>
      BY <2>2 DEF CheckoutOpened
    <3>2. ~listed(o)
      BY <3>1 DEF AwakeRuns
    <3> QED
      BY <1>1, <3>1, <3>2 DEF AwakeRuns, FlowInv, FlowColumnsOK
  <2>3. ASSUME NEW o \in Orders, CheckoutRefused(o)
        PROVE  AwakeRuns'
    <3>1. /\ markFailed(o)
          /\ post' = [post EXCEPT ![o] = Nobody]
          /\ UNCHANGED <<authority, expiring>>
      BY <2>3 DEF CheckoutRefused
    <3> QED
      BY <1>2, <1>3, <3>1 DEF FlowInv, FlowColumnsOK
  <2> QED
    BY <1>4, <2>1, <2>2, <2>3 DEF CheckoutStep
<1>5. CASE GatewayStep
  <2>1. UNCHANGED <<payVars, jobVars>>
    BY <1>5 DEF GatewayStep, GatewayOpens, CustomerPays, GatewayCloses
  <2> QED
    BY <1>2, <2>1 DEF payVars, jobVars
<1>6. CASE CallbackStep
  <2>1. ASSUME NEW w \in Workers, NEW o \in Orders, CallbackNok(w, o)
        PROVE  AwakeRuns'
    BY <1>2, <1>3, <2>1 DEF CallbackNok, jobVars
  <2>2. ASSUME NEW w \in Workers, NEW c \in Callbacks, NEW o \in Orders, CallbackOk(w, c, o)
        PROVE  AwakeRuns'
    BY <1>2, <2>2 DEF CallbackOk, payVars
  <2>3. ASSUME NEW c \in Callbacks, CallbackAnswer(c)
        PROVE  AwakeRuns'
    BY <1>2, <2>3 DEF CallbackAnswer, payVars
  <2>4. ASSUME NEW c \in Callbacks, CallbackEnd(c)
        PROVE  AwakeRuns'
    <3>1. callback[c].order \in Orders
      BY <2>4 DEF CallbackEnd, FlowInv, FlowColumnsOK, CallRecord, Idle
    <3>2. /\ \/ markPaid(callback[c].order) \/ markFailed(callback[c].order)
             \/ UNCHANGED expires
          /\ UNCHANGED <<authority, post, expiring>>
      BY <2>4 DEF CallbackEnd
    <3> QED
      BY <1>2, <1>3, <3>1, <3>2
  <2> QED
    BY <1>6, <2>1, <2>2, <2>3, <2>4 DEF CallbackStep
<1>7. CASE PeriodicStep
  <2>1. ASSUME NEW w \in Workers, ExpireStale(w)
        PROVE  AwakeRuns'
    <3>1. /\ expiring' = [expiring EXCEPT ![w] = {q \in Orders : stale(q) /\ ~authority[q]}]
          /\ UNCHANGED <<authority, expires, post>>
      BY <2>1 DEF ExpireStale, payVars
    <3>2. \A q \in Orders : stale(q) => status[q] # "none" /\ post[q] = Nobody
      BY DEF stale, AwakeRuns
    <3> QED
      BY <1>1, <3>1, <3>2 DEF AwakeRuns, FlowInv, FlowColumnsOK
  <2>2. ASSUME NEW w \in Workers, NEW o \in Orders, ExpireRow(w, o)
        PROVE  AwakeRuns'
    <3>1. /\ markFailed(o)
          /\ expiring' = [expiring EXCEPT ![w] = @ \ {o}]
          /\ UNCHANGED <<authority, post>>
      BY <2>2 DEF ExpireRow
    <3>2. \A v \in Workers : expiring'[v] \subseteq expiring[v]
      BY <3>1 DEF FlowInv, FlowColumnsOK
    <3> QED
      BY <1>2, <1>3, <3>1, <3>2
  <2>3. ASSUME NEW w \in Workers, ReconcileStart(w) \/ ReconcileAnswer(w)
        PROVE  AwakeRuns'
    BY <1>2, <2>3 DEF ReconcileStart, ReconcileAnswer, payVars
  <2>4. ASSUME NEW w \in Workers, ReconcileEnd(w)
        PROVE  AwakeRuns'
    <3>1. reconcile[w].order \in Orders
      BY <2>4 DEF ReconcileEnd, FlowInv, FlowColumnsOK, RunRecord, Resting
    <3>2. /\ \/ markPaid(reconcile[w].order) \/ markFailed(reconcile[w].order)
             \/ UNCHANGED expires
          /\ UNCHANGED <<authority, post, expiring>>
      BY <2>4 DEF ReconcileEnd
    <3> QED
      BY <1>2, <1>3, <3>1, <3>2
  <2> QED
    BY <1>7, <2>1, <2>2, <2>3, <2>4 DEF PeriodicStep
<1>8. CASE ProcessStep
  <2>1. PICK w \in Workers : Crash(w) \/ Restart(w)
    BY <1>8 DEF ProcessStep
  <2>2. /\ UNCHANGED <<authority, expires>>
        /\ \A q \in Orders : post'[q] \in {post[q], Nobody}
        /\ \A v \in Workers : expiring'[v] \subseteq expiring[v]
    BY <2>1 DEF Crash, Restart, payVars, FlowInv, FlowColumnsOK
  <2> QED
    BY <1>2, <2>2
<1>9. ASSUME NEW o \in Orders, TimePasses(o)
      PROVE  AwakeRuns'
  <2>1. /\ post[o] = Nobody
        /\ UNCHANGED <<authority, post, expiring>>
        /\ \A q \in Orders : q # o => expires'[q] = expires[q]
    BY <1>9 DEF TimePasses, awake, jobVars, FlowInv, FlowColumnsOK
  <2> QED
    BY <1>1, <2>1 DEF AwakeRuns, FlowInv, FlowColumnsOK
<1>10. CASE UNCHANGED flowVars
  BY <1>2, <1>10 DEF flowVars, payVars, jobVars
<1> QED
  BY <1>4, <1>5, <1>6, <1>7, <1>8, <1>9, <1>10 DEF FlowNext

\* db.js:2881-2887 promises that expireStaleOrders fails only orders that never
\* reached the gateway.  A machine that sleeps while a POST awaits requestPayment
\* may break that: another worker writes the authority after the SELECT.  One that
\* stays awake keeps it, with any number of workers, orders and crashes.
THEOREM AwakeExpiryIsSafe ==
  ASSUME ~MaySuspend
  PROVE  FlowSpec => []ExpiredNeverReachedGateway
<1>1. FlowInit => AwakeRuns
  BY DEF FlowInit, Init, AwakeRuns
<1>2. FlowInv /\ FlowInv' /\ AwakeRuns /\ [FlowNext]_flowVars => AwakeRuns'
  BY NextAwakeRuns
<1>3. AwakeRuns => ExpiredNeverReachedGateway
  BY DEF AwakeRuns, ExpiredNeverReachedGateway
<1> QED
  BY <1>1, <1>2, <1>3, FlowInvariance, PTL DEF FlowSpec

\* No pending order escapes the periodic job for want of a deadline.
THEOREM DeadlinesAreKept == FlowSpec => []PendingHasDeadline
<1>1. FlowInv => PendingHasDeadline
  BY DEF FlowInv
<1> QED
  BY <1>1, FlowInvariance, PTL

\* Money taken is not thrown away, but where an excuse is on record: the gateway
\* away for a day, a browser's word, a suspended run of expireStaleOrders.  The
\* one assumption is about the gateway: "not paid" is its last word on a
\* transaction.
THEOREM TakenMoneyIsKept ==
  ASSUME UnpaidIsFinal
  PROVE  FlowSpec => []MoneyKept
<1>1. FlowInv => MoneyKept
  BY DEF FlowInv, FailedIsFinal, MoneyKept
<1> QED
  BY <1>1, FlowInvariance, PTL

-----------------------------------------------------------------------------
\* The promise.

\* A step of one order that starts and ends in the invariant is a step of the
\* promise: the invariant says of which kind.
LEMMA OrderStepKeepsPromise ==
  ASSUME UnpaidIsFinal, FlowInv, FlowInv', NEW o \in Orders, orderStep(o)
  PROVE  [Promise!Next]_(Promise!vars)
<1> DEFINE out   == [q \in Orders |-> outcomeOf(status[q])]
           taken == [q \in Orders |-> gateway[q] = "settled"]
           exc   == [q \in Orders |-> excuse[q] # "none"]
<1>1. /\ status \in [Orders -> {"none", "pending_payment", "paid", "failed"}]
      /\ status' \in [Orders -> {"none", "pending_payment", "paid", "failed"}]
      /\ excuse \in [Orders -> Excuses \cup {"none"}]
      /\ excuse' \in [Orders -> Excuses \cup {"none"}]
      /\ gateway \in [Orders -> {"none", "open", "paid", "settled", "closed"}]
  BY DEF FlowInv, FlowColumnsOK
<1>2. CASE /\ UNCHANGED <<status, excuse>>
           /\ gateway[o] = "settled" => gateway'[o] = "settled"
           /\ gateway'[o] = "settled"
           /\ gateway[o] # "settled"
  <2>1. status[o] = "pending_payment" \/ excuse[o] # "none"
    BY <1>1, <1>2 DEF FlowInv, FailedIsFinal, PaidMeansSettled, NoAuthorityNoMoney, AuthorityOrder
  <2>2. out[o] = "open" \/ exc[o]
    BY <2>1 DEF outcomeOf
  <2>3. taken' = [taken EXCEPT ![o] = TRUE]
    BY <1>2 DEF orderStep
  <2>4. Promise!Take(o)
    BY <1>2, <2>2, <2>3 DEF Promise!Take
  <2> QED
    BY <2>4 DEF Promise!Next
<1>3. CASE /\ UNCHANGED <<status, excuse>>
           /\ gateway'[o] = "settled" <=> gateway[o] = "settled"
  <2>1. taken' = taken
    BY <1>3 DEF orderStep
  <2> QED
    BY <1>3, <2>1 DEF Promise!vars
<1>4. ASSUME UNCHANGED gateway, NEW to \in {"pending_payment", "paid", "failed"},
             status'[o] = to
      PROVE  out' = [out EXCEPT ![o] = outcomeOf(to)] /\ taken' = taken
  BY <1>4 DEF orderStep
<1>5. CASE UNCHANGED <<gateway, excuse>> /\ status[o] = "none" /\ status'[o] = "pending_payment"
  <2>1. Promise!Open(o)
    BY <1>4, <1>5 DEF Promise!Open, Promise!decide, outcomeOf
  <2> QED
    BY <2>1 DEF Promise!Next
<1>6. CASE UNCHANGED <<gateway, excuse>> /\ status[o] = "pending_payment" /\ status'[o] = "paid"
  <2>1. gateway[o] = "settled"
    BY <1>6 DEF FlowInv, PaidMeansSettled
  <2>2. Promise!Keep(o)
    BY <1>4, <1>6, <2>1 DEF Promise!Keep, Promise!decide, outcomeOf
  <2> QED
    BY <2>2 DEF Promise!Next
<1>7. CASE /\ UNCHANGED <<gateway, excuse>>
           /\ status[o] = "pending_payment" /\ status'[o] = "failed"
  <2>1. gateway[o] # "settled"
    BY <1>7 DEF FlowInv, FailedIsFinal, ExcusedFailed
  <2>2. Promise!Drop(o)
    BY <1>4, <1>7, <2>1 DEF Promise!Drop, Promise!decide, outcomeOf
  <2> QED
    BY <2>2 DEF Promise!Next
<1>8. CASE /\ UNCHANGED gateway
           /\ status[o] = "pending_payment" /\ status'[o] = "failed" /\ excuse'[o] # "none"
  <2>1. exc' = [exc EXCEPT ![o] = TRUE]
    BY <1>1, <1>8 DEF orderStep
  <2>2. Promise!Excuse(o)
    BY <1>4, <1>8, <2>1 DEF Promise!Excuse, Promise!decide, outcomeOf
  <2> QED
    BY <2>2 DEF Promise!Next
<1> QED
  BY <1>2, <1>3, <1>5, <1>6, <1>7, <1>8 DEF orderStep

\* The handlers keep the promise of PaymentPromise: an order is decided once,
\* kept only against money, and money taken is never thrown away unless the
\* order was failed without the gateway's word, for one of the three excuses.
THEOREM FlowKeepsPromise ==
  ASSUME UnpaidIsFinal
  PROVE  FlowSpec => KeepsPromise
<1>1. FlowInit => Promise!Init
  <2> SUFFICES ASSUME FlowInit PROVE Promise!Init
    OBVIOUS
  <2>1. [o \in Orders |-> outcomeOf(status[o])] = [o \in Orders |-> "none"]
    BY DEF FlowInit, Init, outcomeOf
  <2>2. [o \in Orders |-> gateway[o] = "settled"] = [o \in Orders |-> FALSE]
    BY DEF FlowInit
  <2>3. [o \in Orders |-> excuse[o] # "none"] = [o \in Orders |-> FALSE]
    <3>1. ASSUME NEW o \in Orders PROVE (excuse[o] # "none") = FALSE
      BY DEF FlowInit
    <3> QED
      BY <3>1, Zenon
  <2> QED
    BY <2>1, <2>2, <2>3 DEF Promise!Init
<1>2. FlowInv /\ [FlowNext]_flowVars => [Promise!Next]_(Promise!vars)
  <2> SUFFICES ASSUME FlowInv, [FlowNext]_flowVars PROVE [Promise!Next]_(Promise!vars)
    OBVIOUS
  <2>1. FlowInv' /\ oneOrderMoves
    BY NextFlowInv
  <2>2. CASE UNCHANGED <<status, gateway, excuse>>
    BY <2>2 DEF Promise!vars
  <2>3. CASE \E o \in Orders : orderStep(o)
    BY <2>1, <2>3, OrderStepKeepsPromise
  <2> QED
    BY <2>1, <2>2, <2>3 DEF oneOrderMoves
<1> QED
  BY <1>1, <1>2, FlowInvariance, PTL DEF FlowSpec, KeepsPromise, Promise!Spec
=============================================================================
