-------------------------- MODULE PaymentProperties --------------------------
(***************************************************************************)
(* What PaymentFlow is held to.                                            *)
(***************************************************************************)
EXTENDS PaymentFlow

CallRecord == [order : Orders, worker : Workers, answer : Answers] \cup {Idle}

RunRecord ==
  [order : Orders, rest : SUBSET Orders, answer : Answers] \cup {Resting}

\* The types; also, a handler that is not there has no answer to act on.
FlowTypeOK ==
  /\ TypeOK
  /\ authority \in [Orders -> BOOLEAN]
  /\ expires \in [Orders -> {"null", "ahead", "passed", "longPassed"}]
  /\ tries \in [Orders -> 0..MaxTries]
  /\ gateway \in [Orders -> {"none", "open", "paid", "settled", "closed"}]
  /\ post \in [Orders -> Workers \cup {Nobody}]
  /\ callback \in [Callbacks -> CallRecord]
  /\ expiring \in [Workers -> SUBSET Orders]
  /\ reconcile \in [Workers -> RunRecord]
  /\ up \in SUBSET Workers
  /\ crashes \in 0..MaxCrashes
  /\ overtaken \in SUBSET Orders
  /\ excuse \in [Orders -> Excuses \cup {"none"}]
  /\ notices \in [Orders -> 0..MaxNotices]

\* An order is kept only against money the gateway settled, although the
\* verdict is acted on one await after the gateway gave it.
PaidMeansSettled ==
  \A o \in Orders : status[o] = "paid" => gateway[o] = "settled"

\* reconcile.js:1-12, "we took the money and threw the order away": however
\* callbacks, reconcile runs, crashes and late answers interleave, settled money
\* and a failed order meet only where the shop gave up with an alarm, where a
\* browser came back with another Status than OK from a transaction that the
\* gateway had not closed, or where expireStaleOrders was overtaken by the POST
\* handler of the row it had read.
MoneyKept ==
  \A o \in Orders :
    status[o] = "failed" /\ gateway[o] = "settled" => excuse[o] # "none"

\* Money comes only to a transaction whose authority is on file: nobody is sent
\* to the payment page before.
NoAuthorityNoMoney ==
  \A o \in Orders : gateway[o] \in {"paid", "settled"} => authority[o]

\* db.js:2881-2887: what expireStaleOrders fails never reached the gateway, for
\* as long as the row is in its list, hence also at the moment it is failed.  It
\* holds on a machine that stays awake (PaymentProofs).
ExpiredNeverReachedGateway ==
  \A w \in Workers : \A o \in expiring[w] : ~authority[o]

\* An undecided order always carries a deadline, and only such an order does:
\* a pending row without expires_at would hold its stock for ever, because
\* both periodic queries ask for expires_at IS NOT NULL.
PendingHasDeadline ==
  \A o \in Orders : status[o] = "pending_payment" <=> expires[o] # "null"

\* The handlers use the order table only through its transactions.
ImplementsOrderStock == Spec

\* The outcome of an order, as the promise speaks of it.
outcomeOf(s) ==
  CASE s = "none" -> "none"
    [] s = "pending_payment" -> "open"
    [] s = "failed" -> "dropped"
    [] OTHER -> "kept"

Promise == INSTANCE PaymentPromise WITH
  outcome <- [o \in Orders |-> outcomeOf(status[o])],
  taken   <- [o \in Orders |-> gateway[o] = "settled"],
  excused <- [o \in Orders |-> excuse[o] # "none"]

\* The handlers keep the promise: decided once, kept only against money, money
\* never thrown away but with an excuse.
KeepsPromise == Promise!Spec

\* Every order is decided, so reserved stock is never locked for ever: also
\* when the browser never returns, the gateway is away, or workers crash.
EveryOrderIsDecided ==
  \A o \in Orders : status[o] = "pending_payment" ~> status[o] # "pending_payment"

\* A customer who paid and never came back gets the order all the same, unless
\* the gateway returned the money or stayed away for a day, or a browser did come
\* back and said that nothing was paid.
PaidIsRecovered ==
  \A o \in Orders :
    gateway[o] = "paid" /\ status[o] = "pending_payment"
      ~> status[o] = "paid" \/ gateway[o] = "closed" \/ excuse[o] # "none"

\* reconcile.js:84-85: when the customer's callback arrives in the meantime
\* "no work is done twice": the shop hears of a new order once.
NotifiedOnce == \A o \in Orders : notices[o] <= 1
=============================================================================
