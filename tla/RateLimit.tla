------------------------------- MODULE RateLimit -------------------------------
(***************************************************************************)
(* The request counter of backend/lib/rate-limit-sqlite.js, which the      *)
(* routes use when the server runs as a cluster.  One row per client, and  *)
(* every limiter a request passes counts in that row; the model follows    *)
(* the row of one client, as rows do not touch each other.                 *)
(*                                                                         *)
(* The three statements of the middleware run one after the other in one   *)
(* worker, and the statements of other workers, their sweeps and the ends  *)
(* of earlier responses come between them.                                 *)
(***************************************************************************)
EXTENDS Integers, FiniteSets

CONSTANTS
  Requests,     \* requests of the client that may be under way at once
  Limiters,     \* the limiters they pass, one each
  windowMs,     \* of a limiter, in units of the model's clock
  max,          \* of a limiter
  skipSuccess,  \* of a limiter: a success gives its count back
  NoRow,        \* the client has no row
  MaxTime,      \* bound: of the clock
  MaxCount      \* bound: of the counter

ASSUME RateAssumption ==
  /\ IsFiniteSet(Requests)
  /\ Limiters # {}
  /\ windowMs \in [Limiters -> Nat \ {0}]
  /\ max \in [Limiters -> Nat]
  /\ skipSuccess \in [Limiters -> BOOLEAN]
  /\ MaxTime \in Nat
  /\ MaxCount \in Nat
  /\ NoRow \notin [count : Nat, window_start : Nat]

VARIABLES
  now,      \* Date.now()
  row,      \* the client's row of rate_limits
  req,      \* the requests
  spent,    \* history: admitted requests of this row that keep their count
  refused,  \* history: refused requests of this row
  strays    \* history: counts of this row given back by requests of an earlier one

rateVars == <<now, row, req, spent, refused, strays>>

\* `window' is the window_start a request works with, -1 the code's null;
\* `mine' (history) says that the row in place is the one it was counted in.
Idle == [phase |-> "idle", lim |-> CHOOSE l \in Limiters : TRUE,
         window |-> -1, mine |-> FALSE]

RateInit ==
  /\ now = 0
  /\ row = NoRow
  /\ req = [r \in Requests |-> Idle]
  /\ spent = 0
  /\ refused = 0
  /\ strays = 0

-----------------------------------------------------------------------------
\* The statements.

\* The row's window is over for a limiter.
windowOver(l) == row.window_start <= now - windowMs[l]

\* On conflict only the count changes; window_start is for a new row.
stmtUpsert(start) ==
  row' = IF row = NoRow THEN [count |-> 1, window_start |-> start]
         ELSE [row EXCEPT !.count = @ + 1]

\* Faulty: a success sets the count back to one.
stmtGiveBack_reset(start) ==
  row' = IF row # NoRow /\ row.window_start = start /\ row.count > 0
         THEN [row EXCEPT !.count = 1] ELSE row

\* Faulty: nothing is given back.
stmtGiveBack_missing(start) == UNCHANGED row

stmtGiveBack(start) ==
  row' = IF row # NoRow /\ row.window_start = start /\ row.count > 0
         THEN [row EXCEPT !.count = @ - 1] ELSE row

-----------------------------------------------------------------------------
\* The middleware.

\* The first read decides which window_start an INSERT would store.
Arrive(r, l) ==
  /\ req[r].phase = "idle"
  /\ req' = [req EXCEPT ![r] =
       [phase |-> "read", lim |-> l, mine |-> FALSE,
        window |-> IF row = NoRow THEN now
                   ELSE IF windowOver(l) THEN now ELSE row.window_start]]
  /\ UNCHANGED <<now, row, spent, refused, strays>>

Count(r) ==
  /\ req[r].phase = "read"
  /\ row # NoRow => row.count < MaxCount
  /\ stmtUpsert(req[r].window)
  /\ req' = [req EXCEPT ![r].phase = "counted", ![r].mine = TRUE]
  /\ UNCHANGED <<now, spent, refused, strays>>

\* The count as the second read sees it: a sweep may have taken the row.
seen == IF row = NoRow THEN 1 ELSE row.count

Admit(r) ==
  /\ req[r].phase = "counted"
  /\ seen <= max[req[r].lim]
  /\ req' = [req EXCEPT ![r].phase = "serving",
                        ![r].window = IF row = NoRow THEN -1 ELSE row.window_start]
  /\ UNCHANGED <<now, row, spent, refused, strays>>

Refuse(r) ==
  /\ req[r].phase = "counted"
  /\ seen > max[req[r].lim]
  /\ req' = [req EXCEPT ![r] = Idle]
  /\ refused' = IF req[r].mine THEN refused + 1 ELSE refused
  /\ UNCHANGED <<now, row, spent, strays>>

\* SQLite throws: the request passes without a limit, and gives nothing back.
Degrade(r) ==
  /\ req[r].phase \in {"read", "counted"}
  /\ req' = [req EXCEPT ![r] = Idle]
  /\ refused' = IF req[r].mine THEN refused + 1 ELSE refused
  /\ UNCHANGED <<now, row, spent, strays>>

\* The response is an error, has no claim, or never finishes.
KeepsCount(r) ==
  /\ req[r].phase = "serving"
  /\ req' = [req EXCEPT ![r] = Idle]
  /\ spent' = IF req[r].mine THEN spent + 1 ELSE spent
  /\ UNCHANGED <<now, row, refused, strays>>

\* res.on('finish') of a response below 400.
GivesBack(r) ==
  /\ req[r].phase = "serving"
  /\ skipSuccess[req[r].lim] /\ req[r].window # -1
  /\ stmtGiveBack(req[r].window)
  /\ req' = [req EXCEPT ![r] = Idle]
  /\ strays' = IF row' # row /\ ~req[r].mine THEN strays + 1 ELSE strays
  /\ UNCHANGED <<now, spent, refused>>

-----------------------------------------------------------------------------

tooOld(l) == row.window_start < now - 2 * windowMs[l]

\* Every limiter sweeps the whole table by its own window, in every worker.
stmtCleanup(l) ==
  /\ row # NoRow
  /\ tooOld(l)
  /\ row' = NoRow
  /\ req' = [r \in Requests |-> [req[r] EXCEPT !.mine = FALSE]]
  /\ spent' = 0
  /\ refused' = 0
  /\ strays' = 0
  /\ UNCHANGED now

Tick ==
  /\ now < MaxTime
  /\ now' = now + 1
  /\ UNCHANGED <<row, req, spent, refused, strays>>

RateNext ==
  \/ \E r \in Requests :
       \/ \E l \in Limiters : Arrive(r, l)
       \/ Count(r)
       \/ Admit(r)
       \/ Refuse(r)
       \/ Degrade(r)
       \/ KeepsCount(r)
       \/ GivesBack(r)
  \/ \E l \in Limiters : stmtCleanup(l)
  \/ Tick

RateSpec == RateInit /\ [][RateNext]_rateVars

-----------------------------------------------------------------------------
\* Properties.

Phase == {"idle", "read", "counted", "serving"}

RateTypeOK ==
  /\ now \in Nat
  /\ row \in [count : Nat, window_start : Nat] \cup {NoRow}
  /\ req \in [Requests -> [phase : Phase, lim : Limiters,
                           window : Nat \cup {-1}, mine : BOOLEAN]]
  /\ spent \in Nat
  /\ refused \in Nat
  /\ strays \in Nat

inFlight(phases) ==
  Cardinality({r \in Requests : req[r].mine /\ req[r].phase \in phases})

\* However many workers count at once, and whichever responses end meanwhile,
\* a limiter lets no more requests through a row than its max, not counting
\* those that gave their count back.  (A row that another limiter swept may be
\* stored again with its old window_start; counts given back by the requests of
\* the earlier row are then taken from the new one.)
AdmitsWithinMax ==
  [][\A r \in Requests :
       Admit(r) /\ req[r].mine
         => inFlight({"serving"})' + spent <= max[req[r].lim] + strays]_rateVars

\* A success costs nothing where skipSuccess is set: every count in the row
\* belongs to a request under way, to one that kept it, or to a refused one.
SuccessIsFree ==
  row # NoRow => row.count <= inFlight({"counted", "serving"}) + spent + refused

\* rate-limit-sqlite.js:91: a request that finds the window over starts a new
\* window, and counting starts at one.
NewWindowStartsAtOne ==
  [][\A r \in Requests :
       /\ Count(r)
       /\ row # NoRow
       /\ req[r].window >= row.window_start + windowMs[req[r].lim]
       => row'.count = 1]_rateVars
=============================================================================
