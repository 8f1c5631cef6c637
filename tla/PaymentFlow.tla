----------------------------- MODULE PaymentFlow -----------------------------
(***************************************************************************)
(* From the checkout button to a decided order: POST /api/orders and       *)
(* GET /api/orders/payment-callback (routes/orders.js), the periodic job   *)
(* (server.js) with reconcileStaleOrders (lib/reconcile.js), and the       *)
(* payment gateway as lib/payment.js uses it.                              *)
(*                                                                         *)
(* A Node handler runs to its next `await' without interruption, so one    *)
(* action is one such segment.  Between two segments anything else may     *)
(* run: other handlers of the same worker, other workers of the cluster    *)
(* that share the database, the customer at the bank, the clock, a crash.  *)
(* expireStaleOrders has no await, but writes row by row what one SELECT   *)
(* found: its worker does nothing else meanwhile, the other workers do.    *)
(* The order table is OrderStock's; every action here runs at most one of  *)
(* its transactions.                                                       *)
(***************************************************************************)
EXTENDS OrderStock

CONSTANTS
  Workers,        \* server processes on the one database
  Callbacks,      \* requests to /payment-callback in flight at a time
  Nobody,         \* no order, no worker
  MaxPerRun,      \* MAX_PER_RUN: orders one reconcile run asks about
  MaxCrashes,     \* bound: crashes of workers in a behaviour
  MaxTries,       \* bound: where the count of reconcile_tries stops
  MaxNotices,     \* bound: where the count of notifications stops
  UnpaidIsFinal,  \* after "not paid" the gateway takes no money any more
  MaySuspend      \* the machine may sleep in the middle of anything

ASSUME FlowAssumption ==
  /\ Orders \subseteq Nat
  /\ Nobody \notin Orders \cup Workers
  /\ MaxPerRun \in Nat \ {0}
  /\ MaxCrashes \in Nat
  /\ MaxTries \in Nat
  /\ MaxNotices \in Nat
  /\ UnpaidIsFinal \in BOOLEAN
  /\ MaySuspend \in BOOLEAN

VARIABLES
  authority,   \* orders.authority is set
  expires,     \* orders.expires_at against the clock
  tries,       \* orders.reconcile_tries
  gateway,     \* the transaction of an order at the gateway
  post,        \* the worker whose POST handler awaits requestPayment
  callback,    \* the payment-callback handlers
  expiring,    \* per worker, the rows that expireStaleOrders has still to fail
  reconcile,   \* per worker, the reconcile run
  up,          \* the workers that run
  crashes,     \* bound: crashes so far
  overtaken,   \* history: the orders whose authority came while a run of
               \* expireStaleOrders had them in its rows
  excuse,      \* history: how an order was failed without a no of the gateway
  notices      \* history: "new order" notifications sent

payVars  == <<authority, expires, tries>>
jobVars  == <<post, callback, expiring, reconcile, up, crashes>>
histVars == <<overtaken, excuse, notices>>
flowVars == <<vars, payVars, gateway, jobVars, histVars>>

-----------------------------------------------------------------------------
\* What a call to the gateway can be waiting for or have brought back:
\* verifyPayment's { ok }, { retriable: false } and { retriable: true }.
Answers == {"asking", "ok", "no", "unreachable"}

Idle == [order |-> Nobody, worker |-> Nobody, answer |-> "asking"]

\* No run: nothing being asked, nothing left in the list of rows.
Resting == [order |-> Nobody, rest |-> {}, answer |-> "asking"]

\* Failed after a day without an answer, with the alarm RECONCILE-GIVEUP; on the
\* word of the browser, of a transaction that the gateway had not closed; by
\* expireStaleOrders, which had read the row before its authority came.
Excuses == {"gaveUp", "nok", "overtaken"}

Min2(a, b) == IF a < b THEN a ELSE b

FlowInit ==
  /\ Init
  /\ authority = [o \in Orders |-> FALSE]
  /\ expires = [o \in Orders |-> "null"]
  /\ tries = [o \in Orders |-> 0]
  /\ gateway = [o \in Orders |-> "none"]
  /\ post = [o \in Orders |-> Nobody]
  /\ callback = [c \in Callbacks |-> Idle]
  /\ expiring = [w \in Workers |-> {}]
  /\ reconcile = [w \in Workers |-> Resting]
  /\ up = Workers
  /\ crashes = 0
  /\ overtaken = {}
  /\ excuse = [o \in Orders |-> "none"]
  /\ notices = [o \in Orders |-> 0]

\* The worker can run a handler.
free(w) == w \in up /\ expiring[w] = {}

-----------------------------------------------------------------------------
\* The two transactions that decide a payment, as their callers use them: on
\* an order that is decided already they change no row and return false.

\* Faulty: a failed order is failed, and its goods released, once more.
markFailed_again(o) ==
  IF status[o] \in {"pending_payment", "failed"}
  THEN /\ closeOrder(o, {"pending_payment", "failed"}, "failed")
       /\ expires' = [expires EXCEPT ![o] = "null"]
  ELSE UNCHANGED <<vars, expires>>

markPaid(o) ==
  IF status[o] = "pending_payment"
  THEN markOrderPaid(o) /\ expires' = [expires EXCEPT ![o] = "null"]
  ELSE UNCHANGED <<vars, expires>>

markFailed(o) ==
  IF status[o] = "pending_payment"
  THEN markOrderFailedTx(o) /\ expires' = [expires EXCEPT ![o] = "null"]
  ELSE UNCHANGED <<vars, expires>>

\* Failing a pending order for a reason that is not the gateway's no.
excuseIf(b, o, reason) ==
  excuse' = IF b /\ status[o] = "pending_payment" THEN [excuse EXCEPT ![o] = reason]
            ELSE excuse

notifyNewOrder(o) == notices' = [notices EXCEPT ![o] = Min2(@ + 1, MaxNotices)]

-----------------------------------------------------------------------------
\* POST /api/orders.

\* Up to `await requestPayment'.  A key that is on file returns the old order
\* and changes nothing; in a cluster the UNIQUE index stops the late insert.
Checkout(w, o, u, k, l) ==
  /\ free(w)
  /\ \A q \in Orders : q < o => status[q] # "none"
  /\ createOrderTx(o, u, k, l)
  /\ expires' = [expires EXCEPT ![o] = "ahead"]
  /\ post' = [post EXCEPT ![o] = w]
  /\ UNCHANGED <<authority, tries, gateway, callback, expiring, reconcile, up, crashes, histVars>>

\* The gateway opens a transaction; its answer may still get lost.
GatewayOpens(o) ==
  /\ post[o] # Nobody
  /\ gateway[o] = "none"
  /\ gateway' = [gateway EXCEPT ![o] = "open"]
  /\ UNCHANGED <<vars, payVars, jobVars, histVars>>

\* requestPayment came back ok: setPaymentDetails, which looks at no status.
CheckoutOpened(o) ==
  /\ post[o] # Nobody /\ free(post[o])
  /\ gateway[o] # "none"
  /\ authority' = [authority EXCEPT ![o] = TRUE]
  /\ post' = [post EXCEPT ![o] = Nobody]
  /\ overtaken' = overtaken \cup {q \in {o} : \E w \in Workers : q \in expiring[w]}
  /\ UNCHANGED <<vars, expires, tries, gateway, callback, expiring, reconcile, up, crashes,
                 excuse, notices>>

\* requestPayment came back not ok: refused, unreachable or timed out.
CheckoutRefused(o) ==
  /\ post[o] # Nobody /\ free(post[o])
  /\ markFailed(o)
  /\ post' = [post EXCEPT ![o] = Nobody]
  /\ UNCHANGED <<authority, tries, gateway, callback, expiring, reconcile, up, crashes, histVars>>

-----------------------------------------------------------------------------
\* The customer and the gateway.

\* The payment page is reached by the paymentUrl that POST answered with.
CustomerPays(o) ==
  /\ authority[o] /\ gateway[o] = "open"
  /\ gateway' = [gateway EXCEPT ![o] = "paid"]
  /\ UNCHANGED <<vars, payVars, jobVars, histVars>>

\* The customer cancels or the page times out; or nobody verified the payment
\* and the gateway gave the money back.
GatewayCloses(o) ==
  /\ gateway[o] \in {"open", "paid"}
  /\ gateway' = [gateway EXCEPT ![o] = "closed"]
  /\ UNCHANGED <<vars, payVars, jobVars, histVars>>

\* One verify call.  It settles a payment and repeats its yes (codes 100 and
\* 101); "unreachable" may hide a call that did reach the gateway.
verify(o, answer) ==
  CASE answer = "ok" ->
         /\ gateway[o] \in {"paid", "settled"}
         /\ gateway' = [gateway EXCEPT ![o] = "settled"]
    [] answer = "no" ->
         /\ gateway[o] \notin {"paid", "settled"}
         /\ gateway' = IF UnpaidIsFinal THEN [gateway EXCEPT ![o] = "closed"]
                       ELSE gateway
    [] answer = "unreachable" ->
         \/ UNCHANGED gateway
         \/ gateway[o] = "paid" /\ gateway' = [gateway EXCEPT ![o] = "settled"]

-----------------------------------------------------------------------------
\* GET /api/orders/payment-callback.  The browser may load it any number of
\* times, late, twice at once, or never.  A request for an order that is not
\* pending, or whose authority does not match, changes nothing: no action.

\* Any Status but OK: the gateway sends the browser back like this after a
\* cancel.  The handler believes it and asks nobody, whenever it comes: also with
\* the payment page still open, or the money paid or settled meanwhile.
CallbackNok(w, o) ==
  /\ free(w)
  /\ status[o] = "pending_payment" /\ authority[o]
  /\ excuseIf(gateway[o] # "closed", o, "nok")
  /\ markFailed(o)
  /\ UNCHANGED <<authority, tries, gateway, jobVars, overtaken, notices>>

\* Faulty: the browser's Status=OK is believed, nobody asks the gateway.
CallbackOk_believed(w, c, o) ==
  /\ free(w)
  /\ callback[c] = Idle
  /\ status[o] = "pending_payment" /\ authority[o]
  /\ callback' = [callback EXCEPT ![c] = [order |-> o, worker |-> w, answer |-> "ok"]]
  /\ UNCHANGED <<vars, payVars, gateway, post, expiring, reconcile, up, crashes, histVars>>

\* Status=OK, up to `await verifyPayment'.
CallbackOk(w, c, o) ==
  /\ free(w)
  /\ callback[c] = Idle
  /\ status[o] = "pending_payment" /\ authority[o]
  /\ callback' = [callback EXCEPT ![c] = [order |-> o, worker |-> w, answer |-> "asking"]]
  /\ UNCHANGED <<vars, payVars, gateway, post, expiring, reconcile, up, crashes, histVars>>

\* Faulty: no answer is taken for a no (`retriable' is lost on the way).
CallbackAnswer_hasty(c) ==
  /\ callback[c].order # Nobody /\ callback[c].answer = "asking"
  /\ \E a \in Answers \ {"asking"} :
       /\ verify(callback[c].order, a)
       /\ callback' = [callback EXCEPT ![c].answer = IF a = "ok" THEN "ok" ELSE "no"]
  /\ UNCHANGED <<vars, payVars, post, expiring, reconcile, up, crashes, histVars>>

CallbackAnswer(c) ==
  /\ callback[c].order # Nobody /\ callback[c].answer = "asking"
  /\ \E a \in Answers \ {"asking"} :
       /\ verify(callback[c].order, a)
       /\ callback' = [callback EXCEPT ![c].answer = a]
  /\ UNCHANGED <<vars, payVars, post, expiring, reconcile, up, crashes, histVars>>

\* After the await.  The result of markOrderPaid is not looked at: the
\* notifications go out in any case.  "unreachable" leaves the order pending.
CallbackEnd(c) ==
  /\ callback[c].answer # "asking" /\ free(callback[c].worker)
  /\ LET o == callback[c].order IN
       \/ /\ callback[c].answer = "ok"
          /\ markPaid(o)
          /\ notifyNewOrder(o)
       \/ /\ callback[c].answer = "no"
          /\ markFailed(o)
          /\ UNCHANGED notices
       \/ /\ callback[c].answer = "unreachable"
          /\ UNCHANGED <<vars, expires, notices>>
  /\ callback' = [callback EXCEPT ![c] = Idle]
  /\ UNCHANGED <<authority, tries, gateway, post, expiring, reconcile, up, crashes,
                 overtaken, excuse>>

-----------------------------------------------------------------------------
\* The periodic job, every RECONCILE_INTERVAL_MS in every worker.

stale(o) == status[o] = "pending_payment" /\ expires[o] \in {"passed", "longPassed"}

\* Faulty: without `authority IS NULL'.
ExpireStale_unasked(w) ==
  LET rows == {o \in Orders : stale(o)} IN
  /\ free(w)
  /\ rows # {}
  /\ expiring' = [expiring EXCEPT ![w] = rows]
  /\ UNCHANGED <<vars, payVars, gateway, post, callback, reconcile, up, crashes, histVars>>

\* expireStaleOrders: one SELECT of the orders that have not reached the gateway.
ExpireStale(w) ==
  LET rows == {o \in Orders : stale(o) /\ ~authority[o]} IN
  /\ free(w)
  /\ rows # {}
  /\ expiring' = [expiring EXCEPT ![w] = rows]
  /\ UNCHANGED <<vars, payVars, gateway, post, callback, reconcile, up, crashes, histVars>>

\* Each row is a transaction of its own, which looks at the status only: the
\* authority may have been written since, by a worker that was not stopped.
ExpireRow(w, o) ==
  /\ o \in expiring[w]
  /\ expiring' = [expiring EXCEPT ![w] = @ \ {o}]
  /\ excuseIf(o \in overtaken, o, "overtaken")
  /\ markFailed(o)
  /\ UNCHANGED <<authority, tries, gateway, post, callback, reconcile, up, crashes,
                 overtaken, notices>>

\* Faulty: an order is asked about once and never again.
staleRows_once ==
  LET rows == {o \in Orders : stale(o) /\ authority[o] /\ tries[o] = 0}
  IN  {o \in rows : Cardinality({q \in rows : q < o}) < MaxPerRun}

\* getStaleOrdersToReconcile: ORDER BY id LIMIT MaxPerRun.
staleRows ==
  LET rows == {o \in Orders : stale(o) /\ authority[o]}
  IN  {o \in rows : Cardinality({q \in rows : q < o}) < MaxPerRun}

\* The loop goes on with the row of the smallest id (bumpReconcileTries, then
\* `await inquirePayment'), or ends.
askNext(w, rows) ==
  \/ /\ rows = {}
     /\ reconcile' = [reconcile EXCEPT ![w] = Resting]
     /\ UNCHANGED tries
  \/ \E o \in rows :
       /\ \A q \in rows : o <= q
       /\ reconcile' = [reconcile EXCEPT
                          ![w] = [order |-> o, rest |-> rows \ {o}, answer |-> "asking"]]
       /\ tries' = [tries EXCEPT ![o] = Min2(@ + 1, MaxTries)]

\* reconcileRunning keeps a worker from starting a second run.
ReconcileStart(w) ==
  /\ free(w)
  /\ reconcile[w] = Resting
  /\ staleRows # {}
  /\ askNext(w, staleRows)
  /\ UNCHANGED <<vars, authority, expires, gateway, post, callback, expiring, up, crashes,
                 histVars>>

ReconcileAnswer(w) ==
  /\ reconcile[w].order # Nobody /\ reconcile[w].answer = "asking"
  /\ \E a \in Answers \ {"asking"} :
       /\ verify(reconcile[w].order, a)
       /\ reconcile' = [reconcile EXCEPT ![w].answer = a]
  /\ UNCHANGED <<vars, payVars, post, callback, expiring, up, crashes, histVars>>

\* After the await: paid, unpaid, or unknown.  Here markOrderPaid's result
\* decides about the notifications.
ReconcileEnd(w) ==
  /\ reconcile[w].answer # "asking" /\ free(w)
  /\ LET o == reconcile[w].order
         pending == status[o] = "pending_payment" IN
       \/ /\ reconcile[w].answer = "ok"
          /\ markPaid(o)
          /\ IF pending THEN notifyNewOrder(o) ELSE UNCHANGED notices
          /\ UNCHANGED excuse
       \/ /\ reconcile[w].answer = "no"
          /\ markFailed(o)
          /\ UNCHANGED <<excuse, notices>>
       \/ /\ reconcile[w].answer = "unreachable" /\ expires[o] = "longPassed"
          /\ markFailed(o)
          /\ excuseIf(TRUE, o, "gaveUp")
          /\ UNCHANGED notices
       \/ /\ reconcile[w].answer = "unreachable" /\ expires[o] # "longPassed"
          /\ UNCHANGED <<vars, expires, excuse, notices>>
  /\ askNext(w, reconcile[w].rest)
  /\ UNCHANGED <<authority, gateway, post, callback, expiring, up, crashes, overtaken>>

-----------------------------------------------------------------------------
\* The clock and the processes.

\* On a machine that stays awake no deadline falls into a call (15 s at most),
\* and a day does not go by without the job asking once, if a worker is up.
awake(o) ==
  /\ post[o] = Nobody
  /\ \A c \in Callbacks : callback[c].order # o
  /\ \A w \in Workers : reconcile[w].order # o
  /\ expires[o] = "passed" => up = {} \/ tries[o] > 0

\* ORDER_TTL_MS, later GIVE_UP_AFTER_MS, go by.
TimePasses(o) ==
  /\ expires[o] \in {"ahead", "passed"}
  /\ MaySuspend \/ awake(o)
  /\ expires' = [expires EXCEPT
                   ![o] = IF @ = "ahead" THEN "passed" ELSE "longPassed"]
  /\ UNCHANGED <<vars, authority, tries, gateway, jobVars, histVars>>

\* A worker dies: what its handlers were doing is forgotten, the rows stay.
Crash(w) ==
  /\ w \in up /\ crashes < MaxCrashes
  /\ crashes' = crashes + 1
  /\ up' = up \ {w}
  /\ post' = [o \in Orders |-> IF post[o] = w THEN Nobody ELSE post[o]]
  /\ callback' = [c \in Callbacks |->
                    IF callback[c].worker = w THEN Idle ELSE callback[c]]
  /\ expiring' = [expiring EXCEPT ![w] = {}]
  /\ reconcile' = [reconcile EXCEPT ![w] = Resting]
  /\ UNCHANGED <<vars, payVars, gateway, histVars>>

Restart(w) ==
  /\ w \notin up
  /\ up' = up \cup {w}
  /\ UNCHANGED <<vars, payVars, gateway, post, callback, expiring, reconcile, crashes, histVars>>

-----------------------------------------------------------------------------

CheckoutStep ==
  \/ \E w \in Workers, o \in Orders, u \in Users, k \in Keys, l \in Lines :
       Checkout(w, o, u, k, l)
  \/ \E o \in Orders : CheckoutOpened(o) \/ CheckoutRefused(o)

GatewayStep == \E o \in Orders : GatewayOpens(o) \/ CustomerPays(o) \/ GatewayCloses(o)

CallbackStep ==
  \/ \E w \in Workers, o \in Orders : CallbackNok(w, o)
  \/ \E w \in Workers, c \in Callbacks, o \in Orders : CallbackOk(w, c, o)
  \/ \E c \in Callbacks : CallbackAnswer(c) \/ CallbackEnd(c)

PeriodicStep ==
  \/ \E w \in Workers : ExpireStale(w)
  \/ \E w \in Workers, o \in Orders : ExpireRow(w, o)
  \/ \E w \in Workers : ReconcileStart(w) \/ ReconcileAnswer(w) \/ ReconcileEnd(w)

ProcessStep == \E w \in Workers : Crash(w) \/ Restart(w)

FlowNext ==
  \/ CheckoutStep \/ GatewayStep \/ CallbackStep \/ PeriodicStep \/ ProcessStep
  \/ \E o \in Orders : TimePasses(o)

FlowSpec == FlowInit /\ [][FlowNext]_flowVars

\* Time passes; a call to the gateway ends, at the latest by its 15 s timeout;
\* a resumed handler runs to its end; setInterval fires; a dead worker is
\* started again.  Nothing is assumed of customers, their browsers or money.
Fairness ==
  /\ \A o \in Orders :
       /\ WF_flowVars(TimePasses(o))
       /\ WF_flowVars(CheckoutOpened(o) \/ CheckoutRefused(o))
  /\ \A c \in Callbacks :
       WF_flowVars(CallbackAnswer(c)) /\ WF_flowVars(CallbackEnd(c))
  /\ \A w \in Workers :
       /\ WF_flowVars(Restart(w))
       /\ WF_flowVars(ExpireStale(w))
       /\ \A o \in Orders : WF_flowVars(ExpireRow(w, o))
       /\ WF_flowVars(ReconcileStart(w))
       /\ WF_flowVars(ReconcileAnswer(w))
       /\ WF_flowVars(ReconcileEnd(w))

FairSpec == FlowSpec /\ Fairness
=============================================================================
