------------------------------- MODULE StockDesk -------------------------------
(***************************************************************************)
(* The panel's forms over one product's stock, and the customers that wait *)
(* for it: ProductEditor.tsx fills its form once and posts every field,    *)
(* routes/admin.js writes the figure as it stands and tells the customers  *)
(* of the table stock_alerts, while checkouts reserve units.  Requests run *)
(* in several workers; each line of fireRestockAlerts is a statement.      *)
(***************************************************************************)
EXTENDS Integers, FiniteSets

CONSTANTS
  Clerks,     \* the workers that run the panel's requests
  Panels,     \* browser tabs with the product's form
  Waiters,    \* customers that may ask to be told
  Figures,    \* what the manager may type
  NoForm,
  MaxUnits,   \* bound: of the units on sale and sold
  MaxAsked    \* bound: of the wishes of one customer

ASSUME DeskAssumption ==
  /\ IsFiniteSet(Clerks)
  /\ Figures \subseteq Nat
  /\ NoForm \notin [seen : Nat, typed : Nat]
  /\ MaxUnits \in Nat /\ MaxAsked \in Nat

VARIABLES
  units,     \* products.stock
  sold,      \* units in orders
  form,      \* what a tab's form shows for the stock, and what it was filled with
  clerk,     \* what each worker is doing
  alert,     \* a customer's row: "none", "waiting", or "notified"
  asker,     \* customers whose request has seen the product sold out
  wished,    \* history: how often a customer has asked
  told       \* history: how often a customer was told

deskVars == <<units, sold, form, clerk, alert, asker, wished, told>>

Free == [doing |-> "nothing"]

DeskInit ==
  /\ units \in {n \in Figures : n <= MaxUnits}
  /\ sold = 0
  /\ form = [d \in Panels |-> NoForm]
  /\ clerk = [w \in Clerks |-> Free]
  /\ alert = [c \in Waiters |-> "none"]
  /\ asker = {}
  /\ wished = [c \in Waiters |-> 0]
  /\ told = [c \in Waiters |-> 0]

-----------------------------------------------------------------------------
\* The form.

\* The list is loaded and the form filled; later loads leave it alone.
OpenForm(d) ==
  /\ form' = [form EXCEPT ![d] = [seen |-> units, typed |-> units]]
  /\ UNCHANGED <<units, sold, clerk, alert, asker, wished, told>>

TypeStock(d, n) ==
  /\ form[d] # NoForm
  /\ form' = [form EXCEPT ![d].typed = n]
  /\ UNCHANGED <<units, sold, clerk, alert, asker, wished, told>>

\* PUT /products/:id reads the row first, ...
Save(d, w) ==
  /\ form[d] # NoForm
  /\ clerk[w] = Free
  /\ clerk' = [clerk EXCEPT ![w] = [doing |-> "saving", existing |-> units,
                                    seen |-> form[d].seen, typed |-> form[d].typed]]
  /\ form' = [form EXCEPT ![d] = [seen |-> @.typed, typed |-> @.typed]]
  /\ UNCHANGED <<units, sold, alert, asker, wished, told>>

\* ... then writes the figure of the form, whatever was sold since it was filled.
adminUpdateProduct(w) ==
  /\ clerk[w].doing = "saving"
  /\ units' = clerk[w].typed
  /\ clerk' = [clerk EXCEPT ![w] =
                 IF clerk[w].existing <= 0 /\ clerk[w].typed > 0
                 THEN [doing |-> "restocked"] ELSE Free]
  /\ UNCHANGED <<sold, form, alert, asker, wished, told>>

\* adminBulkProductsTx, add_stock; it looks for waiting customers in any case.
addStock(w) ==
  /\ clerk[w] = Free
  /\ units < MaxUnits
  /\ units' = units + 1
  /\ clerk' = [clerk EXCEPT ![w] = [doing |-> "restocked"]]
  /\ UNCHANGED <<sold, form, alert, asker, wished, told>>

-----------------------------------------------------------------------------
\* fireRestockAlerts.

waiting == {c \in Waiters : alert[c] = "waiting"}

getPendingStockAlerts(w) ==
  /\ clerk[w].doing = "restocked"
  /\ clerk' = [clerk EXCEPT ![w] =
                 IF units > 0 /\ waiting # {}
                 THEN [doing |-> "telling", whom |-> waiting] ELSE Free]
  /\ UNCHANGED <<units, sold, form, alert, asker, wished, told>>

\* Faulty: only the message, no mark.
marked_none == alert

\* markStockAlertsNotified marks whoever waits by now.
marked == [c \in Waiters |-> IF alert[c] = "waiting" THEN "notified" ELSE alert[c]]

markStockAlertsNotified(w) ==
  /\ clerk[w].doing = "telling"
  /\ alert' = marked
  /\ clerk' = [clerk EXCEPT ![w] = [doing |-> "sending", whom |-> clerk[w].whom]]
  /\ UNCHANGED <<units, sold, form, asker, wished, told>>

\* The messages leave at once; a worker that dies before has marked for nothing.
notifyStockAvailable(w) ==
  /\ clerk[w].doing = "sending"
  /\ told' = [c \in Waiters |-> IF c \in clerk[w].whom THEN told[c] + 1 ELSE told[c]]
  /\ clerk' = [clerk EXCEPT ![w] = Free]
  /\ UNCHANGED <<units, sold, form, alert, asker, wished>>

ClerkDies(w) ==
  /\ clerk[w] # Free
  /\ clerk' = [clerk EXCEPT ![w] = Free]
  /\ UNCHANGED <<units, sold, form, alert, asker, wished, told>>

-----------------------------------------------------------------------------
\* The customers.

\* POST /products/:id/notify-me sees the product sold out, ...
NotifyMe(c) ==
  /\ units = 0
  /\ c \notin asker
  /\ wished[c] < MaxAsked
  /\ asker' = asker \cup {c}
  /\ UNCHANGED <<units, sold, form, clerk, alert, wished, told>>

\* ... and stores the wish, by then perhaps too late for a restocking.
addStockAlert(c) ==
  /\ c \in asker
  /\ asker' = asker \ {c}
  /\ alert' = [alert EXCEPT ![c] = "waiting"]
  /\ wished' = [wished EXCEPT ![c] = @ + 1]
  /\ UNCHANGED <<units, sold, form, clerk, told>>

reserveUnit ==
  /\ units > 0
  /\ sold < MaxUnits
  /\ units' = units - 1
  /\ sold' = sold + 1
  /\ UNCHANGED <<form, clerk, alert, asker, wished, told>>

\* A failed order gives its unit back; nobody who waits is told of that.
releaseUnit ==
  /\ sold > 0
  /\ units < MaxUnits
  /\ sold' = sold - 1
  /\ units' = units + 1
  /\ UNCHANGED <<form, clerk, alert, asker, wished, told>>

DeskNext ==
  \/ \E d \in Panels :
       \/ OpenForm(d)
       \/ \E n \in Figures : TypeStock(d, n)
       \/ \E w \in Clerks : Save(d, w)
  \/ \E w \in Clerks :
       \/ adminUpdateProduct(w)
       \/ addStock(w)
       \/ getPendingStockAlerts(w)
       \/ markStockAlertsNotified(w)
       \/ notifyStockAvailable(w)
       \/ ClerkDies(w)
  \/ \E c \in Waiters : NotifyMe(c) \/ addStockAlert(c)
  \/ reserveUnit
  \/ releaseUnit

DeskSpec == DeskInit /\ [][DeskNext]_deskVars

-----------------------------------------------------------------------------
\* Properties.

DeskTypeOK ==
  /\ units \in Nat /\ sold \in Nat
  /\ form \in [Panels -> [seen : Nat, typed : Nat] \cup {NoForm}]
  /\ alert \in [Waiters -> {"none", "waiting", "notified"}]
  /\ asker \subseteq Waiters
  /\ wished \in [Waiters -> Nat] /\ told \in [Waiters -> Nat]

\* A wish is answered by one message, or by one from each worker that read the
\* table before another had marked it: restocking again tells nobody twice.
ToldPerWish ==
  \A c \in Waiters : told[c] <= wished[c] * Cardinality(Clerks)

\* What db.js:2508 says of this UPDATE: to set the stock while customers buy is
\* safe.  So a form whose stock field nobody has touched, saved for the sake of
\* another field, puts no unit on sale.
SoldStaysSold ==
  [][\A w \in Clerks :
       /\ clerk[w].doing = "saving"
       /\ clerk'[w] # clerk[w]
       /\ clerk[w].typed = clerk[w].seen
       => units' <= units]_deskVars
=============================================================================
