------------------------------ MODULE LoginGuard ------------------------------
(***************************************************************************)
(* The lock of an account after wrong passwords: backend/lib/login-guard.js *)
(* as POST /password/login uses it, on the shared store of a cluster.  The *)
(* lock is looked at before `await verifyPassword' and a failure is        *)
(* registered after it, in one transaction (mutate).  The model follows    *)
(* the record of one phone number.                                         *)
(***************************************************************************)
EXTENDS Integers, FiniteSets

CONSTANTS
  Logins,      \* requests for the account that may be under way, in all workers
  MAX_FAILS,
  LastStep,    \* LOCK_STEPS_MS has the indices 0..LastStep
  LOCK_STEPS_MS,
  FORGET_MS,   \* life of a record, and silence after which failures are forgotten
  NoRecord,
  MaxGuardTime \* bound: of the clock

\* A record of the store, with the row's expires_at.
GuardRecord == [fails : Nat, lockedUntil : Nat, level : Nat, seen : Nat,
                expires_at : Nat]

\* The steps grow, and none outlasts FORGET_MS.
ASSUME GuardAssumption ==
  /\ IsFiniteSet(Logins) /\ Logins # {}
  /\ MAX_FAILS \in Nat \ {0}
  /\ LastStep \in Nat
  /\ FORGET_MS \in Nat
  /\ LOCK_STEPS_MS \in [0..LastStep -> 1..FORGET_MS]
  /\ \A i, j \in 0..LastStep : i <= j => LOCK_STEPS_MS[i] <= LOCK_STEPS_MS[j]
  /\ NoRecord \notin GuardRecord
  /\ MaxGuardTime \in Nat

VARIABLES
  time,     \* Date.now()
  attempts, \* the account's record
  login,    \* what each request is doing
  until,    \* history: the end of the lock that fell last, 0 once it is lifted
  sneaked   \* history: wrong passwords that were compared during that lock

guardVars == <<time, attempts, login, until, sneaked>>

GuardInit ==
  /\ time = 0
  /\ attempts = NoRecord
  /\ login = [l \in Logins |-> "idle"]
  /\ until = 0
  /\ sneaked = 0

-----------------------------------------------------------------------------
\* lockState.

expired == attempts # NoRecord /\ attempts.expires_at <= time

locked == attempts # NoRecord /\ ~expired /\ attempts.lockedUntil > time

\* A request finds the account open and awaits verifyPassword.
LockState(l) ==
  /\ login[l] = "idle"
  /\ ~expired /\ ~locked
  /\ login' = [login EXCEPT ![l] = "comparing"]
  /\ UNCHANGED <<time, attempts, until, sneaked>>

\* The row that was read is over, and `read' deletes it in a second statement,
FindsExpired(l) ==
  /\ login[l] = "idle"
  /\ expired
  /\ login' = [login EXCEPT ![l] = "dropping"]
  /\ UNCHANGED <<time, attempts, until, sneaked>>

\* which takes whatever is in its place by then.
DropsExpired(l) ==
  /\ login[l] = "dropping"
  /\ attempts' = NoRecord
  /\ login' = [login EXCEPT ![l] = "comparing"]
  /\ until' = 0
  /\ sneaked' = 0
  /\ UNCHANGED time

-----------------------------------------------------------------------------
\* registerFail and registerSuccess.

stepOf(level) == LOCK_STEPS_MS[IF level <= LastStep THEN level ELSE LastStep]

\* What mutate finds: an expired row is none.
found ==
  IF attempts = NoRecord \/ expired
  THEN [fails |-> 0, lockedUntil |-> 0, level |-> 0, seen |-> time, expires_at |-> 0]
  ELSE attempts

\* The record before it is counted up; after a long silence it starts anew.
remembered ==
  IF time - found.seen > FORGET_MS
  THEN [found EXCEPT !.fails = 0, !.level = 0]
  ELSE found

expiresAt(lockedUntil) ==
  time + (IF lockedUntil - time > FORGET_MS THEN lockedUntil - time ELSE FORGET_MS)

\* Faulty: a failure below MAX_FAILS stores the record without its lock.
registerFail_unlocks ==
  LET rec == remembered
      falls == rec.fails + 1 >= MAX_FAILS
      end == IF falls THEN time + stepOf(rec.level) ELSE 0
  IN attempts' = [fails |-> IF falls THEN 0 ELSE rec.fails + 1,
                  lockedUntil |-> end,
                  level |-> IF falls THEN rec.level + 1 ELSE rec.level,
                  seen |-> time,
                  expires_at |-> expiresAt(end)]

registerFail ==
  LET rec == remembered
      falls == rec.fails + 1 >= MAX_FAILS
      end == IF falls THEN time + stepOf(rec.level) ELSE rec.lockedUntil
  IN attempts' = [fails |-> IF falls THEN 0 ELSE rec.fails + 1,
                  lockedUntil |-> end,
                  level |-> IF falls THEN rec.level + 1 ELSE rec.level,
                  seen |-> time,
                  expires_at |-> expiresAt(end)]

Fails(l) ==
  /\ login[l] = "comparing"
  /\ registerFail
  /\ login' = [login EXCEPT ![l] = "idle"]
  /\ until' = IF attempts'.lockedUntil > until THEN attempts'.lockedUntil ELSE until
  /\ sneaked' = IF until > time THEN sneaked + 1 ELSE 0
  /\ UNCHANGED time

\* registerSuccess closes the record, lock and all.
Succeeds(l) ==
  /\ login[l] = "comparing"
  /\ attempts' = NoRecord
  /\ login' = [login EXCEPT ![l] = "idle"]
  /\ until' = 0
  /\ sneaked' = 0
  /\ UNCHANGED time

\* The worker dies, or the request is malformed.
LoginStops(l) ==
  /\ login[l] # "idle"
  /\ login' = [login EXCEPT ![l] = "idle"]
  /\ UNCHANGED <<time, attempts, until, sneaked>>

-----------------------------------------------------------------------------

\* The sweep of the store.
SweepRecord ==
  /\ expired
  /\ attempts' = NoRecord
  /\ UNCHANGED <<time, login, until, sneaked>>

GuardTick ==
  /\ time < MaxGuardTime
  /\ time' = time + 1
  /\ UNCHANGED <<attempts, login, until, sneaked>>

GuardNext ==
  \/ \E l \in Logins :
       \/ LockState(l)
       \/ FindsExpired(l)
       \/ DropsExpired(l)
       \/ Fails(l)
       \/ Succeeds(l)
       \/ LoginStops(l)
  \/ SweepRecord
  \/ GuardTick

GuardSpec == GuardInit /\ [][GuardNext]_guardVars

-----------------------------------------------------------------------------
\* Properties.

GuardTypeOK ==
  /\ time \in Nat
  /\ attempts \in GuardRecord \cup {NoRecord}
  /\ login \in [Logins -> {"idle", "comparing", "dropping"}]
  /\ until \in Nat
  /\ sneaked \in Nat

\* During a lock only the requests are still compared that had passed lockState
\* before it fell: failures that come in late neither lift the lock nor shorten
\* it.  (A right password among them, or the deletion of a row seen expired, does.)
LockHolds ==
  until > time => sneaked <= Cardinality(Logins) - 1
=============================================================================
