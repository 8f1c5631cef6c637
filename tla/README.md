# Polasco Goli — TLA+ verification project

Polasco Goli is an online shop: an Express/Node back end on one SQLite file
(`backend/`), optionally as a cluster of worker processes, and a Next.js front
end (`next-frontend/`).  This directory holds TLA+ modules of the parts
where concurrency, failure and time decide whether the shop is right,
the TLC configurations that check them on small instances, and TLAPS proofs of
the results that should hold at every size.

Check one run with `tlc -config X.cfg M`, one proof module with `tlapm M.tla`.
`PROJECT.json` lists components, runs, faulty variants, findings, hazards and
theorems, and maps every definition to its lines in the source.

## 1. Inventory

| Component | State | Operations | Interacts with |
|---|---|---|---|
| Orders and stock (`lib/db.js`) | `orders.status`, `user_id`, `idempotency_key`, `items`, `delivered_at`; `products.stock` | checkout, manual order, mark paid, mark failed, status selector, admin cancel, accept return, customer cancel, ask for a return, edit stock | every caller below; one SQL transaction per operation |
| Transactions (`lib/db.js`) | `txDepth`, what SQLite has open | `transaction(fn)`: BEGIN, savepoints, COMMIT, undo | everything that writes more than one row |
| Checkout and callback (`routes/orders.js`, `lib/payment.js`) | handlers suspended at `await`; `authority`, `expires_at` | POST `/api/orders`, GET `/payment-callback` | gateway (request, verify), order transactions, notifications |
| Reconciliation (`lib/reconcile.js`, `server.js`) | the list of rows of a run, `reconcileRunning`, `reconcile_tries` | `expireStaleOrders`, `reconcileStaleOrders` every five minutes in every worker | gateway (verify), order transactions, notifications |
| Payment gateway (external) | a transaction per authority | open, pay, cancel, time out, verify (asks **and** settles), give the money back | checkout, callback, reconciliation |
| Cluster master (`lib/cluster.js`) | the workers and their age, restart timers, count of young deaths, `shuttingDown` | fork, exit handler, delayed restart, shutdown | workers (`server.js` shutdown) |
| Login codes (`routes/auth.js`, `lib/db.js`) | one row per number: code, attempts, messages of the day; one-use challenges | request, verify, sweep | SMS, sessions |
| Password login, second factor (`routes/auth.js`, `lib/login-guard.js`, `lib/mfa.js`, `lib/totp.js`) | a record per account in the shared store; last TOTP step; recovery codes used | look at the lock, compare, register failure or success; match and accept a code | shared state, sessions |
| Sessions and cart (`lib/session-store.js`, `routes/cart.js`) | one JSON row per session, the cart and the coupon in it | get, set, touch, destroy, destroy others; add, update, remove, coupon | login, checkout, the browser's cart |
| Rate limits, shared state (`lib/rate-limit-sqlite.js`, `lib/middleware.js`, `lib/shared-state.js`) | counters with a window; key-value rows with expiry | count, give back, sweep; get, set, mutate, evict | every route |
| SMS (`lib/sms.js`) | counter of the day | reserve, send, release | login, notifications |
| Coupons (`lib/db.js`) | coupons, and the orders that carry a code | quote at cart and at checkout, edit | checkout, cart |
| Product list and settings (`routes/products.js`, `lib/db.js`, `lib/middleware.js`) | per worker: `listCache`, `settingsCache`; in the database: two revisions; in the browser: a copy with its ETag | list, write products, reviews and settings | panel, checkout |
| Panel desk (`routes/admin.js`, `ProductEditor.tsx`, `lib/db.js`) | forms in tabs, `stock_alerts` | save a product, add stock, tell waiting customers | orders and stock |
| Backups (`lib/db.js`, `server.js`) | daily files in one or two directories | check, copy, rotate | every worker, the panel |
| Front end (`next-frontend`) | cached cart, idempotency key, polling window | cart changes, place order, poll the result | cart, orders |
| Logging, metrics, images, compression, redirects, phone numbers, dates | files and view state | | |

`lib/cache.js` (`TtlCache`) is imported by `server.js:32` and used by nobody.

The behaviours that are hard here:

* Node runs a handler undisturbed up to its next `await`; between two segments
  of a handler other handlers, **other workers**, the customer at the bank, the
  clock and crashes come in.  Callback and reconciliation check an order,
  await the gateway for up to 15 s, and then act; a password is compared after
  the lock was looked at.
* Statements that form no transaction (limiter, coupon quote and order, stock
  alerts, review and its revision) let other workers in between.
* A session is loaded and stored as a whole, last write wins.
* The gateway's `verify` asks and settles at once, and its answer may get lost;
  so may the answers to a browser, which gives up after 20 s.
* A browser may return from the bank never, late, or twice, reload, hide a tab.
* `reconcileRunning` guards one process; the periodic job runs in all of them,
  and so do the backups.
* The cluster master's restart timers race with a shutdown and with further
  deaths, and they are unref'd.

What makes each modelled component correct:

* **Orders and stock** — stock never negative; units neither lost nor invented;
  the goods of an order released at most once and never while it lives; a dead
  order stays dead; a key names one order; refusing a return does not restart
  its seven days.
* **Transactions** — nothing stays open when a call has ended, and what it wrote
  is there exactly if it returned.
* **Payment** — an order is kept only against settled money; settled money is
  thrown away only with the give-up alarm, on a browser's word against the
  gateway's, or by an expiry that its own POST handler overtook; every order is
  decided; whoever paid gets the order even if the browser never returns.
* **Cluster** — every death made good exactly once; nothing born after the
  signal; a signal ends everything; crashes end in full capacity again.
* **Rate limits** — no limiter lets more than its `max` through a row, however
  the statements of the workers interleave; a successful login costs nothing.
* **Login codes** — a code is guessed at a handful of times, by however many
  workers, and is of no use once it has logged in; a number is not sent codes
  without end.
* **Password login, second factor** — while a lock stands only guesses are
  compared that were under way when it fell; a code of the app logs in once.
* **Sessions** — logging the other devices out is final but for a request that
  was under way and changed its session.
* **SMS** — the messages a day is charged for stay within the cap; failed sends
  do not use up the day.
* **Coupons** — a limit is passed by one order for each further worker at most,
  whatever the panel does to the code; the cart's sum is what is charged.
* **Product list** — an answer shows every product write done before it was
  asked for, through both caches and the browser's copy.
* **Panel desk** — a wish to be told is answered once per worker at most; a form
  saved for another field puts no sold unit back.
* **Backups** — the last good copy is not rotated away by days of damage, half
  copies or other workers.
* **Front end** — the page shows the cart that will be ordered; one wish makes
  one order; polling neither goes on without end nor stops too early.

## 2. Modules

| Module | Contents |
|---|---|
| `OrderStock`, `OrderStockProofs` | the order table and the stock column, one action per SQL transaction; theorems |
| `PaymentFlow` | EXTENDS `OrderStock`: checkout, callback, periodic job, gateway, clock, crashes |
| `PaymentPromise` | abstract: what the shop promises about an order and its money |
| `PaymentProperties` | the properties of `PaymentFlow`, both refinements among them |
| `PaymentProofs` | inductive invariant of the handlers, both refinements, invariants |
| `Cluster`, `ClusterProofs` | the cluster master and its theorems |
| `RateLimit` | the request counter that workers share |
| `OtpCode`, `OtpProofs` | the login code of one number across workers, and its theorems |
| `SmsBudget` | the daily cap on login messages |
| `LoginGuard` | the lock of one account around an awaited password check |
| `SecondFactor` | codes of the app and recovery codes of one account |
| `Sessions` | whole-session saves of overlapping requests |
| `Transactions` | `transaction()` in one process |
| `Coupons` | one code, the orders that carry it, the panel |
| `CartPrice` | the sum that the cart shows and the sum that the order charges |
| `Catalogue` | the product list, its caches in workers and browser |
| `StockDesk` | the product form, restocking, waiting customers |
| `Backups` | the daily copies and their rotation |
| `CartPage` | the cart as the browser keeps it, over the handlers of `cart.js` |
| `CheckoutPage` | the checkout page with its key and retries, over POST `/api/orders` |
| `ResultPage` | the polling of the page that waits for a payment's outcome |
| `LoginProofs` | theorems of `LoginGuard`, `SecondFactor` and `Backups` |
| `PageProofs` | theorems of `CheckoutPage`, `CartPage` and `ResultPage` |
| `LimitProofs` | theorems of `RateLimit` and `SmsBudget`, and of all machines of `MCLimits` side by side |
| `ShopProofs` | theorems of `Transactions`, `Coupons`, `Sessions`, `StockDesk` and `Catalogue`, and of all machines of `MCShop` side by side |
| `MCPayment`, `MCCluster` | symmetry sets for the configurations |
| `MCShop` | small instances of nine machines in one run: orders, sessions, coupons, the three pages, catalogue, desk, transactions |
| `MCLimits` | small instances of six machines in one run: limiter, codes, SMS, lock, second factor, backups |

```
PaymentPromise  <--implements--  PaymentFlow  --implements-->  OrderStock
                                 (KeepsPromise)  (ImplementsOrderStock)
```

Definitions named `x_something` stand just before the definition `x` they are a
faulty variant of (a dropped guard, a missing reset, a swapped order).  Nothing
uses them; `PROJECT.json` ("mutants") says which property each one breaks when
it takes the place of `x`.

### OrderStock and `lib/db.js`

`status`, `placed`, `deliveredAt` are columns of `orders` (`placed` is what the
INSERT fixes: customer, key, lines), `stock` the column of `products`.
`released` and `supplied` are history: how often `releaseStock` ran for an
order, and how many units the shop ever put on sale.  A transaction that throws
rolls back and is not a step.  `status = "none"` is an id not in use;
`deliveredAt` is a date seen against the seven-day window (`null`, `recent`,
`old`).  Prices, addresses and texts are left out.  The panel's edits may store
any figure, and count as supply; what the *author* of such an edit believed the
stock to be is the matter of `StockDesk`.

### PaymentFlow and the handlers

One action is one segment between two awaits.

| Action | Code |
|---|---|
| `Checkout`, `CheckoutOpened`, `CheckoutRefused` | POST `/api/orders` before and after `await requestPayment` |
| `CallbackNok`, `CallbackOk`, `CallbackAnswer`, `CallbackEnd` | GET `/payment-callback`: Status≠OK; up to `await verifyPayment`; the call; the rest |
| `ExpireStale`, `ExpireRow` | `expireStaleOrders`: its SELECT; `markOrderFailedTx` of one of the rows |
| `ReconcileStart`, `ReconcileAnswer`, `ReconcileEnd` | `reconcileStaleOrders`: first row; the call; verdict and next row |
| `GatewayOpens`, `CustomerPays`, `GatewayCloses`, `verify` | the gateway as `lib/payment.js` uses it |
| `TimePasses` | 30 minutes (`ORDER_TTL_MS`), then 24 hours (`GIVE_UP_AFTER_MS`) |
| `Crash`, `Restart` | a worker with all its handlers; the rows stay |

`expires` is `orders.expires_at` against the clock: `null`, `ahead`, `passed`,
`longPassed`.  `markPaid` and `markFailed` are the transactions with their
answer "no row changed" made explicit.  Requests that change nothing (wrong
authority, order decided already, key on file) are not actions.

`expireStaleOrders` reads the rows without an authority once, and then fails
them one by one, each in a transaction that looks at the status only.
`expiring` holds, per worker, the rows still to be failed.  There is no await in
between, so the worker does nothing else meanwhile (`free`); other workers write
what they like, the authority of a listed order too.  An error of one row, which
the loop swallows, is left out: the next run of the job reads the row again.

`CallbackNok` is any request with the order's authority and another Status than
`OK`.  The handler fails a pending order on the browser's word and asks nobody,
and nothing is assumed of when browsers send it: with the page still open, after
the payment, after another callback's verify call settled it.

So there are three ways in which an order is failed without a no of the gateway,
and `excuse` (history) records by which: `gaveUp` (a day without an answer, with
the alarm `RECONCILE-GIVEUP`), `nok` (a browser's word while the transaction was
not closed) and `overtaken` (the authority was written while the order was in
the list of an `expireStaleOrders`; history `overtaken`).  The first is what the
code means to do, the other two are told in section 6.  `MoneyKept`,
`KeepsPromise` and `PaidIsRecovered` except these orders and no others.

Two parameters name assumptions about the environment:

* `UnpaidIsFinal` — once the gateway answered "not paid" to a verify call it
  takes no money for that transaction.  `reconcile.js` relies on it when it
  fails an order on the verdict `unpaid`.  With `FALSE`, `MoneyKept` and
  `KeepsPromise` fail: the customer can complete a payment on the open page
  after the order was failed.  Whether the real gateway allows it is not
  visible in this repository, so it is an assumption here and a hazard in
  `PROJECT.json`, not a finding.
* `MaySuspend` — deadlines may fall at any moment, even into a 15 s call, as on
  a machine that sleeps.  `TRUE` (the more hostile choice) in the passing runs,
  `FALSE` in `payment_notified`, which does not lean on it.  The excuse
  `overtaken` does, as the theorem `AwakeExpiryIsSafe` shows.

### Cluster and `lib/cluster.js`

`young` and `old` are the workers on either side of `YOUNG_CRASH_MS`, `timers`
the restarts under way, `master` says whether the master runs or how it ended.
Each event the master handles is one action.  `LoopEmpties` is what Node does
when nothing that is ref'd remains: no worker's channel is open, and the
restart timers do not count.

### RateLimit and `lib/rate-limit-sqlite.js`

The table has one row per client, in which **all** limiters count, each with
its own window and maximum.  Rows do not touch each other, so the model follows
one.  A request is one pass through one limiter; a request of the server that
passes two of them is two requests here.

| Action | Code |
|---|---|
| `Arrive`, `Count`, `Admit` / `Refuse` | first read, upsert, second read with its verdict |
| `Degrade` | the `catch`: SQLite failed, the request passes unlimited |
| `GivesBack`, `KeepsCount` | the end of the response, with or without `skipSuccess` |
| `stmtCleanup` | the sweep of one limiter in one worker |
| `Tick` | the clock |

Each statement is atomic, and the three of one request are not a transaction:
in a cluster anything can come between them.  History: `mine` (the row in place
is the one the request was counted in), `spent`, `refused`, and `strays` (counts
taken from this row by requests that were counted in an earlier one).

### OtpCode and `/otp/request`, `/otp/verify`

The row of one number in `otp_codes`; rows of other numbers do not touch it.
Neither handler awaits anything between its statements, so one worker is inside
one of them at a time, but other workers come in between any two.

| Action | Code |
|---|---|
| `Ask`, `Upsert` | POST `/otp/request`: the clock and the row are read and judged; the new code is stored, and sent |
| `Read`, `Expire` | POST `/otp/verify`: the row is read; its time is over |
| `BumpAttempts` | the attempt is counted in the row |
| `Burn`, `WrongCode`, `RightCode` | the number of attempts that was **read**, plus one, is judged, and then the code |
| `cleanupExpired`, `ClockTicks`, `DayEnds` | the sweep of `server.js` and time |
| `Stops` | a request refused for its IP's count, or the death of the worker |

`otp.del` and `otp.bumpAttempts` name the number and not the code, so they hit
whatever row is there, a newer one too.  `Watched` is any one code; `compared`
and `logins` count its uses over the whole behaviour, `issued` holds the codes
sent so far.  `expires_at` is `last_sent_at` plus `OTP_TTL_MS` in every row and
is not kept twice.  The day may change at any moment of the clock.  Which code a
customer types is open: a comparison may go either way.

### SmsBudget and `sendOtpSms`

`sms_counter` is the row of `settings`; `sending` holds the day on which a call
under way reserved its slot.  A send reserves, waits for the provider, and is
sent or fails; a failure gives the slot back, whatever the day is by then.  A
call may also time out **after** its message went out, or die with its worker,
which gives nothing back.  History, of the current day: `charged`, `misjudged`
(slots given back that were in use), `lost`.

### LoginGuard and POST `/password/login`

The record of one number in the shared store (`attempts`), with the row's
`expires_at`.  `LockState` is the handler up to `await verifyPassword`, `Fails`
and `Succeeds` what follows it, each one `mutate`, that is one transaction.
`FindsExpired` and `DropsExpired` are the two statements of the store's `read`:
the second deletes whatever is there by then.  `SweepRecord` is the store's
sweep, `LoginStops` a death.  History: `until`, the end of the lock that fell
last, and `sneaked`, the wrong passwords compared during it.  The
store of a cluster evicts in `set` only, which the guard never calls.

### SecondFactor and POST `/totp/verify`

Time is counted in steps of thirty seconds.  `Matches` finds the step of a code
within `WINDOW`; `Accept` and `Replay` are the `mutate` of `usedSteps`, which
may come up to `MaxDelay` steps later and after other workers.
`FactorAssumption` (`STEP_TTL > 2 * WINDOW + MaxDelay`) holds in the code: ten
steps against three.  Enrolment concerns one user's own session and is left out.

### Sessions and `lib/session-store.js`

A request loads its session (`get`) or starts one (`generate`), works on its
copy, and at the end stores the whole copy if its hash changed (`set`) or only
touches the row (`touch`).  `establishSession` gives a new id and destroys the
old row, `destroyOtherSessions` takes the customer's other rows.  `killed` is
history.  `old` says that the row existed when the request began: saving such a
session is an upsert, and so it can bring a destroyed row back.

### Transactions and `transaction()`

`calls` are the calls under way with the depth each was given, `levels` what
SQLite has open.  An error may come from a statement, from BEGIN, from COMMIT or
from SQLite, which may then have rolled back by itself (`afterError`).  No
caller in the code catches an error inside a transaction, so an error unwinds
every call.

### Coupons and `quoteCoupon`

`quoteCoupon` and `createOrder` are two steps of a till, because in another
worker the quote and the order may come in between.  `coupon` is the row of one
code; the panel edits, removes and re-creates it, also in the second in which
orders of the old row came in.  `ceiling` is history: the highest limit the row
has had.  Amounts are `CartPrice`'s.

### CartPrice

`ShowCart` is `buildCartResponse`, `ChargeOrder` the sum of POST `/api/orders`;
both call the same helpers of `db.js` for coupon and shipping.  One product with
its wholesale terms, one percent coupon with minimum and ceiling.  Arithmetic is
exact, as it is in the code for whole Tomans of this size.

### Catalogue

Contents are numbers: how many writes a table has seen.  GET `/api/products`
reads two halves of a signature (`ReadReviewsRev` through the settings cache of
its worker, `ReadCatalogRev` past it), and then answers 304 (`NotModified`), from
the list cache (`CacheHit`) or by building (`ReadRatings`, `ReadProducts`).
Triggers count product writes in the statement; a review and its revision are
two statements.  `ListIsCurrent` is about the answers of the server: that a
browser may show its copy for thirty seconds without asking (`max-age=30`,
`middleware.js:130`) is left out.

### StockDesk

One product.  `OpenForm`, `TypeStock`, `Save` and `adminUpdateProduct` are the
form and PUT `/products/:id`, which reads the row before it writes;
`getPendingStockAlerts`, `markStockAlertsNotified` and `notifyStockAvailable`
are `fireRestockAlerts`: read, mark, send.  A worker may die between any two.
`NotifyMe` and `addStockAlert` are the check and the INSERT of a wish.

### Backups and `backupNow`

A run is synchronous in its worker; other workers, midnight, damage and the end
of the process may come between any two of its file operations.  `KEEP` stands
for 14.  A file is `good` or `bad`: a copy of a damaged database, or one that
was cut short.  A run may see one midnight.

### CartPage, CheckoutPage, ResultPage

`CartPage` follows one tab.  A request is `sent`, `loaded` (the worker has the
session), `answered`; `heard` says that the page still waits for it.  What
TanStack Query does is taken from its documentation as the code uses it:
`cancelQueries` drops the read under way while the server goes on,
`setQueryData` cancels nothing, `invalidateQueries` drops the read under way and
starts another, and joins a first read that has no data yet.  The optimistic
display and the amounts are left out.

`CheckoutPage` joins the page (`PlaceOrder`, `GivesUp`, `Answer`, `ChooseAddress`,
`LoadPage`) with POST `/api/orders` cut at its statements and its await (`LookUp`,
`CreateSale`, `PaymentOpens`, `PaymentDoesNotOpen`).  The address stands for the
whole signature; a key is a number.  A wish is one page with one choice of
address.

`ResultPage` is the effect of `OrderSuccessContent`: deadlines counted from
`windowStart` in localStorage, `run`, the timers, hidden tabs.  `orphans` are
timers that the effect cannot clear any more: `onVisible` starts a second loop
while a question is under way.

## 3. Runs

| Run | Shows | Bounds |
|---|---|---|
| `shop` | types; the order table; coupons; cart, checkout and result page; product list; desk; sessions; transactions | two actors of each kind (`Pair`); see below |
| `limits` | no limiter overrun, success free; few guesses, one use of a code, the day's count; the bill within the cap, failures free; the lock; the second factor; the last good copy | 3 requests, 2 limiters (windows 1 and 4, maxima 3 and 2), clock 0..3, count up to 4; 2 workers, 3 codes, 2 attempts (counted up to 3), 1 code a day, clock 0..2, 2 days; 3 sends, cap 2, 3 days, 2 late answers a day; 3 logins, 2 failures to a lock, 2 lock steps, clock 0..6; 2 verifiers, window 1, 6 steps; 2 runs, 2 files kept, 4 days |
| `payment` | safety, both refinements | 2 orders, stock 1, 2 workers, 1 callback in flight, 1 crash, `MAX_PER_RUN` 1 |
| `payment_liveness` | every order decided, every payment recovered | 2 orders, 1 worker, 1 callback, 1 crash, `MAX_PER_RUN` 1 |
| `cluster` | capacity, shutdown, recovery | 3 workers of 4 ids, 5 deaths |
| `order_canceled`, `payment_notified`, `cluster_leaves`, `rate_window`, `otp_daily_cap`, `cart_price`, `stock_form` | disagreements of code and documentation, section 6 | smallest instances |

Bounds of `shop`: 2 products, 2 customers, 2 orders, 1 key, at most 1 unit per
line, stock up to 2; 3 session ids, 2 requests, 2 carts; 2 tills, 3 orders with
the code, limit 0 or 1, 2 seconds; 2 posts, 2 addresses, 2 loads of the page, 1
change, 2 orders; 2 fast and 1 slow check of the result page, 2 loads, 2
returns, clock 0..8; 2 processes, 2 filters, 1 cached list, 1 write of each
table; 2 clerks, 1 form, 1 waiting customer, 1 unit; 3 nested calls; 1 product of
up to 2 units in the cart, 2 requests, 3 clicks.

Why the bounds are enough: two orders are the least with which stock is
contended, a key can be used twice and `LIMIT` can starve one of them; one unit
per line with stock up to two covers "enough for both", "for one" and "for
none" in `shop`, and with stock up to one "for one" and "for none" in `payment`,
where the second order comes when the first has failed; two workers are the
least for the races of a cluster, and one callback
against two reconcile runs gives three handlers on one order; one crash can hit
each segment.  `MaxTries` and `MaxNotices` stop counters that only grow; both
are 0 in `payment`, and `MaxNotices` in `payment_liveness`, whose properties do
not depend on them (with `MaySuspend` no guard reads them).  Five
deaths with three workers reach the abort threshold, a reset by an old death
and a young death after it.  In `limits` one window is more than twice the
other, so that one limiter sweeps a row in which the other still counts; three
requests exceed the smaller maximum while an earlier one is being answered.
Two workers at a code of two attempts reach the bound of three comparisons; a
third code replaces the watched one and lets a verification of the old code meet
the row of a new one, before, at and after the end of its life.
Three sends exceed the cap of two, and three days give a slot time to be
released on a day that has its own sends.  Three logins with a lock at two
failures leave one that is compared during the lock, and the clock outlasts both
steps and `FORGET_MS`, so that an old row is found expired while a new one falls.
The second factor's clock passes `STEP_TTL`, so the store forgets.  Four days
with two files kept rotate twice, with a bad copy before and after.

Three session ids let a request hold an old session, another log in with a new
one and take it, and a third come.  Three coupon orders pass a limit of one by
two, which is one more than two tills may.  Two posts under one key meet in two
workers, two loads of the page make two keys.  Eight ticks outlast a window of
three checks with a second one after it.  In the cart page two requests overlap
in every way the page knows; three calls with three clicks were checked as well
and take longer without showing more.  One list in the cache makes every second
filter evict.

The machines of `shop` share no state with each other, nor do those of `limits`,
and each property is about one of them, so letting one move per behaviour
(`subject`) loses nothing and keeps the state space a sum.  The type invariant of
`shop` is that of all its machines; those of the other runs are proved.

`CHECK_DEADLOCK FALSE` everywhere, because a behaviour may end: all ids of the
instance used and every order decided, or the master ended.

**Fairness.**  `PaymentFlow!Fairness`: time passes; a call to the gateway ends
(at the latest by `GATEWAY_TIMEOUT_MS`); a resumed handler runs on; the interval
fires; a dead worker is restarted (`cluster.js`, pm2).  Nothing is assumed of
customers, browsers, or of the gateway's willingness to answer.
`Cluster!Fairness`: timers fire, a worker told to stop stops (`server.js` ends
itself 5 s after SIGTERM), the grace period ends, an empty loop ends the
process.  Workers need not die and need not live.  `shop` and `limits` check safety only
and assume no fairness.

## 4. Proofs

For all values of the constants under the named assumptions
(`ConstantsAssumption`, `FlowAssumption`, `ClusterAssumption`,
`RateAssumption`, `OtpAssumption`, `SmsAssumption`, `GuardAssumption`,
`FactorAssumption`, `NestingAssumption`, `CouponsAssumption`,
`CheckoutAssumption`, `SessionAssumption`, `DeskAssumption`,
`CatalogueAssumption`, `CartAssumption`, `ResultAssumption`,
`BackupAssumption`):

* `OrderStockProofs` — `TypeCorrect`, `ReleaseOnce`, `NoResurrection`,
  `KeysAreUnique`, `ReturnKeepsWindow`.  `ReleasedAtMostOnce` is not inductive by itself: that a live
  order was not released needs the statuses an order can be released from, and
  that a failed or returned order was released needs every way into those
  statuses.  `IInv` is the conjunction of types, releases and keys.
  `UnitsAreConserved` is about a sum over the orders that were not released
  (`unreleased`).  They are finitely many in every state, because orders come in
  one at a time, and this is proved along (`ConservedInv`), not assumed of
  `Orders`.  Of a finite sum one order may be counted apart (`LinesTakeAny`);
  every transaction then moves one order in or out of it by as many units as it
  moves on the shelf, or by none.
* `PaymentProofs` — `FlowInv` adds what connects a verdict in flight to the
  gateway: an `ok` in a handler means settled money (settled is final); a `no`
  means the transaction is closed, if unpaid is final; an order failed without
  an excuse has no money; a handler that awaits `requestPayment` holds an order
  without an authority; and a row that `expireStaleOrders` has listed has none
  either, unless it was overtaken (`ListedRowsAreUnasked`).  From it follow
  `FlowTypeCorrect`, `PaidOrdersAreSettled`, `DeadlinesAreKept`, and
  under `UnpaidIsFinal` also `TakenMoneyIsKept` and `FlowKeepsPromise`, the
  implementation of `PaymentPromise`.  `AwakeExpiryIsSafe` needs `~MaySuspend`
  and `AwakeRuns`: where no deadline falls into a call to the gateway, nobody
  awaits `requestPayment` for an order whose deadline has passed, so nobody is
  left to write an authority on a listed row.  `FlowImplementsOrderStock` maps every
  step to a transaction of `OrderStock` or a stutter, and carries the theorems
  of `OrderStockProofs` over (`FlowReleaseOnce`, `FlowUnitsAreConserved`).  The argument goes in two
  halves, "a step moves at most one order in one of these ways" and "a step
  moves the handlers in one of these ways", so that the invariant is proved
  against a dozen kinds of move instead of every action.
* `ClusterProofs` — `CapacityIsKept` (types and the equation *workers + timers =
  WORKERS* are inductive together), `NoBirthAfterSignal`.
* `LimitProofs`, of the limiter — `SuccessStaysFree`, `NeverAdmitsTooMany`.  An admission looks
  at the count only, so the invariant must bound those served by the count
  (`AdmittedAreCounted`, up to `strays`) as well as the count by those who
  caused it (`SuccessIsFree`).  The second needs that a give-back of a request
  counted in this row finds that row: it carries its `window_start`
  (`WindowsAreRight`).  Both need that nothing is left over when a row goes
  (`MineIsCounted`).
* `OtpProofs` — `GuessesStayFew`, `LoginsStayFew`, `DayCountStaysBounded`.  None
  of the three bounds is inductive, because a step of a worker that had read the
  row earlier would break it; what holds in every state is that the uses made
  **and those still to come** are within the bound.  `live` are the workers that
  may still compare the watched code, `pend` those of them that have counted
  their attempt.  While the code is in the row nobody has logged in with it and
  comparisons made and pending were counted there (`CountedBeforeCompared`), so
  a worker that joins `live` finds room.  That a new row does not bring an old
  code back is `UnsentIsUnused`.  The day's count is argued alike, with the
  requests that were admitted for a day (`MessagesToCome`).
* `LimitProofs`, of the SMS cap — `BillStaysWithinCap`, `FailuresStayFree`.  The bill is bounded
  through the counter: it never passes the cap (`CounterWithinCap`), and every
  slot charged or in use is counted in it but for the misjudged ones
  (`SlotsAreCounted`).  `LimitsAreSafe` states the bounds of all six machines of
  `MCLimits`, running side by side.
* `LoginProofs` — `LockStands`, `NoCodeTwice`, `GoodCopyStays`.  Of the lock: what was compared
  since it fell and the requests that may still compare are together fewer than
  the requests there are, because one of them made the lock (`LateOnesAreFew`);
  it needs that the record outlives its lock and that a later lock ends no
  earlier (`LockIsStored`).  Of the second factor: the record holds the latest
  step accepted (`LatestIsStored`), and once the store has forgotten it no code
  accepted so far can match any more, not even in a request that has waited
  `MaxDelay` since its match (`ForgottenIsOver`).  Of the backups: a file that
  is surplus is at least two days old, because `KEEP >= 2` newer ones stand
  beside it and none is of a day to come (`FilesArePast`), while a run is of
  today or yesterday (`RunsAreRecent`); so the file that a run has just made is
  no other run's to delete, and no other run makes it (`FilesAreOwned`).
* `ShopProofs`, one part for each machine:
  `TransactionsAreAtomic`: the calls under way are the levels 0, 1, ... in order,
  SQLite has all of them open or none, and it has none only with an error on its
  way; so what the outermost call reports is what became of its writes, to any
  depth of nesting.
  `UsesStayBounded`: the orders of a coupon and the requests between quote and
  INSERT are together within the largest limit the row has had and one more for
  each other worker.
  `LoggedOutStaysOut`: an id that was just made is in no row and with no other
  request, and was never logged out; so only a request that loaded a row can
  bring one back, and whoever only touches it does not.
  `ToldOncePerWorker`: messages sent, and those that a worker still owes to the
  rows it has read, are within the number of wishes times that of the workers.
  `ListStaysCurrent`: `reviews_rev` and the bumps still to come count no more
  than the reviews written (`RevsAreCounted`), so a signature is never ahead of
  the tables that are read after it (`JobsAreSound`), and what a worker or a
  browser keeps under a signature shows at least what that counts.
  `ShopRunsMachines`, `ShopTypesHold`, `ShopIsSafe`: in `MCShop` every machine
  behaves as it does alone, so all its invariants and action properties hold
  there for every value of the constants.
* `PageProofs`, one part for each page:
  `OneOrderOfAWish`: a wish travels under one key as long as an order or a
  request carries it, and the unique index keeps a key to one order.
  `PageStaysTrue`: what the page shows is the session's cart, or some request
  that the page still waits for will change that (`PageIsCurrent`: a change that
  will ask anew, or an answer that will be shown).  It takes that a read which a
  change of a line has overtaken is followed by another (`ReadIsCurrent`), that
  a change whose answer is shown as it is had nothing beside it, but for
  `unsure` (`DirectIsCurrent`), and that a read which ran alone read the last
  word (`AloneIsCurrent`), which is why it may end `unsure`.
  `PageAsksOnSchedule`: a timer *fires within n deadlines* if it is set for a
  time at which no more than n of them have passed.  For each n the checks made
  and the timers that fire within n, together, are at most n but for what returns
  to the tab have added (`OnSchedule`): a return may start a second loop beside
  the first, which then runs on.  A timer that fires has room for its question
  (`HasRoom`), because its deadline has passed, and the next one is set for the
  deadline after the checks made so far.  The loop counts from `startedAt`, the
  property from `windowStart`, which is later once the customer has pressed
  *check again* while the loop ran: the difference costs one question.  That the deadlines come one after
  the other (`checksDue` and `checkTimeMs` are inverse to each other) needs
  `POLL_MS_FAST <= POLL_MS_SLOW`, as in `OrderSuccessContent.tsx:67-68`.

Only model-checked: the liveness properties `EveryOrderIsDecided`,
`PaidIsRecovered`, `Recovers` and `StopsWhenAsked` (fairness and ENABLED are out
of the prover's reach), and the sums of `CartPrice` (computed from a record of
numbers, without a behaviour).  Every other property of a run that passes is a
theorem.

## 5. Not modelled, and why

In front of a request for a login code stand the one-use challenge and the count
of the client's IP; both only refuse, and `OtpCode` lets any request come and any
request stop.  What a full store does to challenges (`evictIfFull` drops the
oldest tenth) costs a customer a second attempt and nothing else.  The limiter of
a single process (`lib/middleware.js`) counts in one synchronous step and has no
interleaving to check; the same holds for the parts of the panel, addresses,
wishlist and wholesale requests that are single statements.  Test mode (no
gateway configured) is left out of `PaymentFlow`: there `verifyPayment` says yes
to any test authority and `inquirePayment` says no, which is meant so.
After-sales actions (`Fulfil`, `EditStock`) are not interleaved with the payment
handlers in `PaymentFlow`: they touch paid orders and stock, which the handlers
only touch while an order is pending; they are in `OrderStock`, whose actions may
come in any order.  `adminSetOrderStatus` writes the date of a delivery in an
UPDATE of its own, straight after that of the status; `OrderStock` has the two in
one step, and so leaves out the death of a worker between them, after which a
delivered order has no date to count its return window from.  Images, dates, compression, redirects, logging and
metrics convert or write data of one request.  Of the front end the pages whose
state outlives a request are modelled; the others show what the server answered.
The image queue (`lib/image-encode.js`) is a plain FIFO in one process.  Scripts
and tests are no part of the program.  SQLite itself (atomic, isolated
transactions) is trusted.

## 6. Disagreements found

Each one is a run that TLC answers with a counterexample.

1. `order_canceled` — `db.js:1729` says that cancelling returns the stock; the
   status selector's way to `canceled` does not.
2. `payment_notified` — `reconcile.js:84-85` says nothing is done twice when
   callback and reconciliation meet; both announce the order.
3. `cluster_leaves` — `cluster.js:79-80` says a young crash is restarted after a
   delay; with all workers dead the master ends before its unref'd timer fires.
4. `rate_window` — `rate-limit-sqlite.js:91` says that a request which finds its
   window over starts a new one, counting from one; the upsert only adds one to
   the old count, and `window_start` changes only after a sweep.
5. `otp_daily_cap` — `auth.js:202` speaks of a daily cap for each number, ten
   messages (`REVIEW.md:508`); the count is a column of the code's row, and goes
   when a login, an expired code or the sweep deletes the row.
6. `cart_price` — `cart.js:42` says the unit price in the cart is the one that is
   really charged; the order charges the plain price where the cart showed the
   wholesale price.
7. `stock_form` — `db.js:2508` says that setting the stock while customers buy is
   safe; a form that was filled before a sale, saved for another field, puts the
   sold unit back on sale.

What some properties allow, and so how far the code can be off:

* `MoneyKept`, `KeepsPromise` and `PaidIsRecovered` except the orders with an
  `excuse`: given up with the alarm; failed on a browser's word; overtaken.
* `BillWithinCap` has an allowance (`misjudged`), `AdmitsWithinMax` another
  (`strays`), and `GuessesAreFew`, `LoginsOfACode`, `DayCountHolds`, `LockHolds`,
  `UsesBounded` and `ToldPerWish` one for each actor but the first (for each
  clerk, in the last) that had read before another one wrote.  With a single
  worker those of the login codes are the bounds of the comments (five attempts
  for a code, `auth.js:81`; one login; ten messages a day for a row).
* `LockHolds` ends with a success among the guesses under way, and with a row
  that was read as expired and deleted after a new lock had been stored in it.
* `RevivedOnlyByWriters` lets a request that changed its session bring a deleted
  row back (`set` is an upsert).
* `UsesBounded` is the overall limit; the limit per customer does not count
  pending orders (`db.js:2425-2427`) and so bounds nothing while they wait.
* `AsksOnSchedule` allows a question per load and per return to the tab, and each
  return uses up a deadline.
* `LastGoodCopyStays` excepts a database damaged between the check and the copy:
  then the bad copy counts and the oldest file is rotated away.
* `PageShowsTheCart` excepts `unsure`: undo, coupon and the wishlist's button put
  their answer in the cache and ask for nothing, so an overlapping read or a lost
  answer leaves another cart on the page until the next read.  `useAddToCart`
  and the changes of a line ask again.

Met while modelling, and not made into runs:

* `db.js:2882-2883` says that `expireStaleOrders` voids only orders that never
  reached the gateway.  The SELECT asks for rows without an authority, the UPDATE
  of each row looks at the status alone, and no transaction encloses the two.  On
  a machine that slept while a POST awaited `requestPayment`, one worker may read
  the order as expired and another one write its authority: the order is at the
  gateway and is failed next, and with a payment and a verify call in between
  settled money meets a failed order without an alarm.  On a machine that stays
  awake it does not come to that (`AwakeExpiryIsSafe`).
* `orders.js:155-157` fails a pending order on any `Status` but `OK` with the right
  authority, and asks nobody.  A browser that sends it after the payment, or
  while another callback awaits `verifyPayment`, throws a paid order away
  without an alarm; its goods go back and the money stays with the gateway or
  the shop.  `reconcile.js:1-12` calls that the worst case, but speaks of its
  own part only.
* After a 502 the same key only finds the failed order, though `orders.js:111`
  says to try again; a changed address edited in place keeps its id and so its
  signature (`orderKey.ts:13-15` says a change turns the key); reloading the page
  loses the key.  `OneOrderPerWish` is about a page that stays as it is.
* `reconcile.js:33` gives up when the gateway was away for a day; line 105 counts
  from `expires_at`, so that a server which was off for a day gives up after one
  unanswered question.
* `cluster.js:81-83` leaves cluster mode when all workers died young; the count
  (line 103) does not tell one worker that keeps dying from several.
* `products.js:252` promises a message as soon as a product is back; units that
  come back from failed orders announce nobody, and a wish stored between the
  reading of the alerts and their mark is marked without a message.
* `db.js:2080` says the settings cache never goes stale; in a cluster it does in
  every other worker, and `setSettingsTx` fills it before its COMMIT.
* `shared-state.js:196` says `maxKeys` caps the live keys; `mutate` of the SQLite
  store, unlike the Map's, never evicts.
* A VACUUM INTO that is cut short leaves a file that counts as the day's backup,
  and `getDbHealth` takes it for a fresh one.

## 7. Plan

1. Done, with proofs: order table, payment, cluster master, shared request
   counter, login codes, SMS cap, password lock, second factor, sessions,
   transactions, coupons, the three pages, desk, product list, backups;
   model-checked: prices.
2. Safety lemmas that the liveness properties rest on (a pending order always has
   a deadline that a later run of the job will see; a master without a worker has
   a restart pending), stated and proved by themselves.
3. The one-use challenge with the store's eviction, as a further machine of
   `limits`.
