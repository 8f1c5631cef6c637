------------------------------ MODULE LoginProofs ------------------------------
(***************************************************************************)
(* The lock of an account and its second factor, LoginGuard and            *)
(* SecondFactor, and the copies of the database, Backups, for every number *)
(* of requests and workers at once, every clock and every table of steps.  *)
(***************************************************************************)
EXTENDS LoginGuard, SecondFactor, Backups, FiniteSetTheorems, TLAPS

-----------------------------------------------------------------------------
\* LoginGuard.

\* A record knows no later lock than the history does, and no future.
RecordsAreOld ==
  attempts # NoRecord => attempts.lockedUntil <= until /\ attempts.seen <= time

\* While a lock holds it is in the record, which outlives it, and a further lock
\* would end no earlier.
LockIsStored ==
  until > time =>
    /\ attempts # NoRecord
    /\ attempts.lockedUntil = until
    /\ attempts.expires_at >= until
    /\ until <= attempts.seen + stepOf(attempts.level)

comparing == {l \in Logins : login[l] = "comparing"}

\* Those that have been compared during the lock, and those that may still be, are
\* all but the one whose failure the lock is due to.
LateOnesAreFew ==
  until > time => sneaked + Cardinality(comparing) <= Cardinality(Logins) - 1

GuardInv == GuardTypeOK /\ RecordsAreOld /\ LockIsStored /\ LateOnesAreFew

\* The steps of the lock are durations that FORGET_MS covers, and they grow.
LEMMA StepsGrow ==
  ASSUME NEW n \in Nat
  PROVE  /\ stepOf(n) \in Nat
         /\ 0 < stepOf(n) /\ stepOf(n) <= FORGET_MS
         /\ stepOf(n) <= stepOf(n + 1)
<1> DEFINE i(k) == IF k <= LastStep THEN k ELSE LastStep
<1>1. i(n) \in 0..LastStep /\ i(n + 1) \in 0..LastStep /\ i(n) <= i(n + 1)
  BY GuardAssumption
<1>2. stepOf(n) = LOCK_STEPS_MS[i(n)] /\ stepOf(n + 1) = LOCK_STEPS_MS[i(n + 1)]
  BY DEF stepOf
<1>3. LOCK_STEPS_MS[i(n)] \in 1..FORGET_MS
  BY <1>1, GuardAssumption
<1>4. LOCK_STEPS_MS[i(n)] <= LOCK_STEPS_MS[i(n + 1)]
  BY <1>1, GuardAssumption
<1> QED
  BY <1>2, <1>3, <1>4, GuardAssumption

\* The requests that are compared are finitely many.
LEMMA ComparingIsFinite ==
  /\ IsFiniteSet(comparing)
  /\ Cardinality(comparing) \in Nat
  /\ Cardinality(Logins) \in Nat
<1>1. IsFiniteSet(comparing)
  BY GuardAssumption, FS_Subset DEF comparing
<1> QED
  BY <1>1, GuardAssumption, FS_CardinalityType

\* A request that has been compared is one less.
LEMMA ComparedTakesOne ==
  ASSUME GuardTypeOK, NEW l \in Logins, login[l] = "comparing",
         login' = [login EXCEPT ![l] = "idle"]
  PROVE  /\ Cardinality(comparing') = Cardinality(comparing) - 1
         /\ Cardinality(comparing') <= Cardinality(Logins) - 1
         /\ Cardinality(comparing') \in Nat
<1>1. comparing' = comparing \ {l} /\ l \in comparing
  BY DEF comparing, GuardTypeOK
<1>2. Cardinality(comparing') = Cardinality(comparing) - 1
  BY <1>1, ComparingIsFinite, FS_RemoveElement
<1>3. Cardinality(comparing) <= Cardinality(Logins)
  BY GuardAssumption, FS_Subset DEF comparing
<1>4. IsFiniteSet(comparing')
  BY <1>1, ComparingIsFinite, FS_RemoveElement
<1>5. Cardinality(comparing') \in Nat
  BY <1>4, FS_CardinalityType
<1> QED
  BY <1>2, <1>3, <1>5, ComparingIsFinite

\* The table is empty and no request under way at the start.
LEMMA InitGuardInv == GuardInit => GuardInv
BY DEF GuardInit, GuardInv, GuardTypeOK, RecordsAreOld, LockIsStored, LateOnesAreFew

\* What registerFail stores, seen against the lock that holds.
LEMMA FailKeepsLock ==
  ASSUME GuardInv, registerFail
  PROVE  /\ attempts' \in GuardRecord
         /\ attempts'.seen = time
         /\ attempts'.lockedUntil > time =>
              /\ attempts'.expires_at >= attempts'.lockedUntil
              /\ attempts'.lockedUntil <= time + stepOf(attempts'.level)
         /\ until > time => attempts'.lockedUntil >= until
         /\ attempts'.lockedUntil <= until \/ attempts'.lockedUntil > time
<1> USE DEF GuardInv
<1>1. time \in Nat /\ until \in Nat /\ FORGET_MS \in Nat
  BY GuardAssumption DEF GuardTypeOK
<1>2. found \in GuardRecord
  BY <1>1 DEF found, GuardTypeOK, GuardRecord
<1>3. remembered \in GuardRecord /\ remembered.lockedUntil = found.lockedUntil
      /\ remembered.seen = found.seen
  BY <1>1, <1>2 DEF remembered, GuardRecord
<1>4. found.lockedUntil <= until /\ found.seen <= time
  BY <1>1 DEF found, RecordsAreOld
<1>5. ASSUME until > time
      PROVE  /\ found = attempts
             /\ remembered = attempts
             /\ attempts.lockedUntil = until
             /\ until <= time + stepOf(attempts.level)
  <2>1. attempts \in GuardRecord /\ attempts # NoRecord
    BY <1>5, GuardAssumption DEF LockIsStored, GuardTypeOK
  <2>2. ~expired /\ found = attempts
    BY <1>1, <1>5, <2>1 DEF LockIsStored, expired, found, GuardRecord
  <2>3. /\ attempts.seen \in Nat /\ attempts.level \in Nat
        /\ attempts.seen <= time
        /\ until <= attempts.seen + stepOf(attempts.level)
    BY <1>5, <2>1 DEF LockIsStored, RecordsAreOld, GuardRecord
  <2>4. stepOf(attempts.level) \in Nat /\ stepOf(attempts.level) <= FORGET_MS
    BY <2>3, StepsGrow
  <2>5. ~(time - attempts.seen > FORGET_MS)
    BY <1>1, <1>5, <2>3, <2>4
  <2>6. remembered = attempts
    BY <2>2, <2>5 DEF remembered
  <2>7. attempts.lockedUntil = until
    BY <1>5 DEF LockIsStored
  <2> QED
    BY <1>1, <2>2, <2>3, <2>4, <2>6, <2>7
<1> DEFINE rec == remembered
           falls == rec.fails + 1 >= MAX_FAILS
           end == IF falls THEN time + stepOf(rec.level) ELSE rec.lockedUntil
<1>6. /\ rec.fails \in Nat /\ rec.level \in Nat /\ rec.lockedUntil \in Nat
      /\ stepOf(rec.level) \in Nat /\ stepOf(rec.level) > 0
      /\ stepOf(rec.level) <= stepOf(rec.level + 1)
      /\ stepOf(rec.level + 1) \in Nat
  BY <1>3, StepsGrow DEF GuardRecord
<1>7. attempts' = [fails |-> IF falls THEN 0 ELSE rec.fails + 1,
                   lockedUntil |-> end,
                   level |-> IF falls THEN rec.level + 1 ELSE rec.level,
                   seen |-> time,
                   expires_at |-> expiresAt(end)]
  BY DEF registerFail
<1>8. end \in Nat
  BY <1>1, <1>6
<1>9. expiresAt(end) \in Nat /\ expiresAt(end) >= end
  BY <1>1, <1>8 DEF expiresAt
<1>10. attempts' \in GuardRecord /\ attempts'.seen = time
       /\ attempts'.lockedUntil = end /\ attempts'.expires_at = expiresAt(end)
       /\ attempts'.level = IF falls THEN rec.level + 1 ELSE rec.level
  <2> HIDE DEF end, falls, rec
  <2> QED
    BY <1>1, <1>6, <1>7, <1>8, <1>9 DEF GuardRecord
<1>11. end > time => end <= time + stepOf(attempts'.level)
  <2>1. CASE falls
    BY <1>1, <1>6, <1>10, <2>1
  <2>2. CASE ~falls
    <3> SUFFICES ASSUME end > time PROVE end <= time + stepOf(attempts'.level)
      OBVIOUS
    <3>1. end = found.lockedUntil
      BY <1>3, <2>2
    <3>2. until > time
      BY <1>1, <1>4, <1>8, <3>1, <1>2 DEF GuardRecord
    <3>3. end = until /\ attempts'.level = attempts.level
      BY <1>5, <1>10, <2>2, <3>1, <3>2
    <3> QED
      BY <1>5, <3>2, <3>3
  <2> QED
    BY <2>1, <2>2
<1>12. until > time => end >= until
  <2>1. CASE falls
    BY <1>1, <1>5, <1>6, <2>1
  <2>2. CASE ~falls
    BY <1>1, <1>5, <2>2
  <2> QED
    BY <2>1, <2>2
<1>13. end <= until \/ end > time
  BY <1>1, <1>3, <1>4, <1>6
<1> QED
  BY <1>9, <1>10, <1>11, <1>12, <1>13

\* A lock that is lifted leaves nothing to keep.
LEMMA LiftedLockIsNone ==
  ASSUME time \in Nat, attempts' = NoRecord, until' = 0, time' = time
  PROVE  RecordsAreOld' /\ LockIsStored' /\ LateOnesAreFew'
BY DEF RecordsAreOld, LockIsStored, LateOnesAreFew

\* A failure keeps the lock that holds, and a lock that falls finds nobody
\* compared during it yet.
LEMMA FailureKeepsGuard ==
  ASSUME GuardInv, NEW l \in Logins, Fails(l)
  PROVE  GuardInv'
<1> USE DEF GuardInv
<1>1. /\ time \in Nat /\ until \in Nat /\ sneaked \in Nat /\ time' = time
      /\ login[l] = "comparing" /\ login' = [login EXCEPT ![l] = "idle"]
      /\ until' = IF attempts'.lockedUntil > until THEN attempts'.lockedUntil ELSE until
      /\ sneaked' = IF until > time THEN sneaked + 1 ELSE 0
  BY DEF Fails, GuardTypeOK
<1>2. registerFail
  BY DEF Fails
<1>3. /\ attempts' \in GuardRecord
      /\ attempts'.seen = time
      /\ attempts'.lockedUntil > time =>
           /\ attempts'.expires_at >= attempts'.lockedUntil
           /\ attempts'.lockedUntil <= time + stepOf(attempts'.level)
      /\ until > time => attempts'.lockedUntil >= until
      /\ attempts'.lockedUntil <= until \/ attempts'.lockedUntil > time
  BY <1>2, FailKeepsLock
<1>4. /\ attempts'.lockedUntil \in Nat /\ attempts'.expires_at \in Nat
      /\ attempts'.level \in Nat /\ attempts' # NoRecord
  BY <1>3, GuardAssumption DEF GuardRecord
<1>5. GuardTypeOK'
  BY <1>1, <1>3, <1>4 DEF GuardTypeOK
<1>6. RecordsAreOld'
  BY <1>1, <1>3, <1>4 DEF RecordsAreOld
<1>7. LockIsStored'
  <2> SUFFICES ASSUME until' > time
               PROVE  /\ attempts'.lockedUntil = until'
                      /\ attempts'.expires_at >= until'
                      /\ until' <= attempts'.seen + stepOf(attempts'.level)
    BY <1>1, <1>4 DEF LockIsStored, stepOf
  <2>1. attempts'.lockedUntil = until'
    BY <1>1, <1>3, <1>4
  <2> QED
    BY <1>3, <2>1
<1>8. LateOnesAreFew'
  <2>1. /\ Cardinality(comparing') = Cardinality(comparing) - 1
        /\ Cardinality(comparing') <= Cardinality(Logins) - 1
    BY <1>1, ComparedTakesOne
  <2>2. until > time => sneaked + Cardinality(comparing) <= Cardinality(Logins) - 1
    BY DEF LateOnesAreFew
  <2>3. sneaked' + Cardinality(comparing') <= Cardinality(Logins) - 1
    BY <1>1, <2>1, <2>2, ComparingIsFinite
  <2> QED
    BY <2>3 DEF LateOnesAreFew
<1> QED
  BY <1>5, <1>6, <1>7, <1>8

\* Every step of the login keeps the invariant.
LEMMA GuardStep == GuardInv /\ [GuardNext]_guardVars => GuardInv'
<1> SUFFICES ASSUME GuardInv, [GuardNext]_guardVars PROVE GuardInv'
  OBVIOUS
<1> USE DEF GuardInv
<1>0. time \in Nat /\ until \in Nat /\ sneaked \in Nat
  BY DEF GuardTypeOK
<1>1. ASSUME NEW l \in Logins, LockState(l) PROVE GuardInv'
  <2>1. GuardTypeOK'
    BY <1>1 DEF LockState, GuardTypeOK
  <2>2. ~(until > time)
    BY <1>0, <1>1 DEF LockState, locked, expired, LockIsStored
  <2>3. UNCHANGED <<time, attempts, until>>
    BY <1>1 DEF LockState
  <2> QED
    BY <2>1, <2>2, <2>3 DEF RecordsAreOld, LockIsStored, LateOnesAreFew
<1>2. ASSUME NEW l \in Logins, FindsExpired(l) PROVE GuardInv'
  <2>1. GuardTypeOK'
    BY <1>2 DEF FindsExpired, GuardTypeOK
  <2>2. comparing' = comparing
    BY <1>2 DEF FindsExpired, GuardTypeOK, comparing
  <2>3. UNCHANGED <<time, attempts, until, sneaked>>
    BY <1>2 DEF FindsExpired
  <2> QED
    BY <2>1, <2>2, <2>3 DEF RecordsAreOld, LockIsStored, LateOnesAreFew, stepOf
<1>3. ASSUME NEW l \in Logins, DropsExpired(l) PROVE GuardInv'
  <2>1. GuardTypeOK'
    BY <1>3 DEF DropsExpired, GuardTypeOK
  <2> QED
    BY <1>0, <1>3, <2>1, LiftedLockIsNone DEF DropsExpired
<1>4. ASSUME NEW l \in Logins, Fails(l) PROVE GuardInv'
  BY <1>4, FailureKeepsGuard
<1>5. ASSUME NEW l \in Logins, Succeeds(l) PROVE GuardInv'
  <2>1. GuardTypeOK'
    BY <1>5 DEF Succeeds, GuardTypeOK
  <2> QED
    BY <1>0, <1>5, <2>1, LiftedLockIsNone DEF Succeeds
<1>6. ASSUME NEW l \in Logins, LoginStops(l) PROVE GuardInv'
  <2>1. GuardTypeOK'
    BY <1>6 DEF LoginStops, GuardTypeOK
  <2>2. comparing' \subseteq comparing
    BY <1>6 DEF LoginStops, GuardTypeOK, comparing
  <2>3. IsFiniteSet(comparing') /\ Cardinality(comparing') <= Cardinality(comparing)
    BY <2>2, ComparingIsFinite, FS_Subset
  <2>4. Cardinality(comparing') \in Nat
    BY <2>3, FS_CardinalityType
  <2>5. UNCHANGED <<time, attempts, until, sneaked>>
    BY <1>6 DEF LoginStops
  <2>6. LateOnesAreFew'
    BY <1>0, <2>3, <2>4, <2>5, ComparingIsFinite DEF LateOnesAreFew
  <2> QED
    BY <2>1, <2>5, <2>6 DEF RecordsAreOld, LockIsStored, stepOf
<1>7. CASE SweepRecord
  <2>1. UNCHANGED <<time, login, until, sneaked>> /\ attempts' = NoRecord /\ expired
    BY <1>7 DEF SweepRecord
  <2>2. ~(until > time)
    BY <1>0, <2>1 DEF expired, LockIsStored, GuardTypeOK, GuardRecord
  <2>3. GuardTypeOK'
    BY <2>1 DEF GuardTypeOK
  <2> QED
    BY <2>1, <2>2, <2>3 DEF RecordsAreOld, LockIsStored, LateOnesAreFew
<1>8. CASE GuardTick
  <2>1. UNCHANGED <<attempts, login, until, sneaked>> /\ time' = time + 1
    BY <1>8 DEF GuardTick
  <2>2. comparing' = comparing
    BY <2>1 DEF comparing
  <2>3. GuardTypeOK'
    BY <1>0, <2>1 DEF GuardTypeOK
  <2>4. RecordsAreOld'
    BY <1>0, <2>1 DEF RecordsAreOld, GuardTypeOK, GuardRecord
  <2>5. LockIsStored'
    BY <1>0, <2>1 DEF LockIsStored, stepOf
  <2>6. LateOnesAreFew'
    BY <1>0, <2>1, <2>2 DEF LateOnesAreFew
  <2> QED
    BY <2>3, <2>4, <2>5, <2>6
<1>9. CASE UNCHANGED guardVars
  BY <1>9 DEF guardVars, GuardTypeOK, RecordsAreOld, LockIsStored, LateOnesAreFew,
             comparing, stepOf
<1> QED
  BY <1>1, <1>2, <1>3, <1>4, <1>5, <1>6, <1>7, <1>8, <1>9 DEF GuardNext

\* The inductive invariant of the lock of an account.
THEOREM GuardInvariant == GuardSpec => []GuardInv
BY InitGuardInv, GuardStep, PTL DEF GuardSpec

\* Type correctness of the lock's record and the requests under way.
THEOREM GuardTypeCorrect == GuardSpec => []GuardTypeOK
<1>1. GuardInv => GuardTypeOK
  BY DEF GuardInv
<1> QED
  BY <1>1, GuardInvariant, PTL

\* For any number of requests at once, only those that had passed lockState before
\* the lock fell are compared during it.
THEOREM LockStands == GuardSpec => []LockHolds
<1>1. GuardInv => LockHolds
  BY ComparingIsFinite DEF GuardInv, GuardTypeOK, LateOnesAreFew, LockHolds
<1> QED
  BY <1>1, GuardInvariant, PTL

-----------------------------------------------------------------------------
\* SecondFactor.

\* The step in the store is the latest that was accepted, and it was stored near
\* its time.
LatestIsStored ==
  usedSteps # NoStep =>
    /\ \A s \in accepted : s <= usedSteps.step
    /\ usedSteps.step + STEP_TTL <= usedSteps.expires_at + WINDOW
    /\ usedSteps.expires_at <= current + STEP_TTL

\* When the store has forgotten, what was accepted matches no more, not even with a
\* request that has been waiting since its match.
ForgottenIsOver ==
  usedSteps = NoStep => \A s \in accepted : s + WINDOW + MaxDelay < current

\* A match is of a step near the clock, and no older than MaxDelay.
MatchesAreFresh ==
  \A v \in Verifiers :
    verifier[v].phase = "matched" =>
      /\ verifier[v].at <= verifier[v].step + WINDOW
      /\ verifier[v].step <= verifier[v].at + WINDOW
      /\ verifier[v].at <= current
      /\ current <= verifier[v].at + MaxDelay

FactorInv ==
  FactorTypeOK /\ LatestIsStored /\ ForgottenIsOver /\ MatchesAreFresh /\ CodeWorksOnce

\* Nothing is accepted and nobody waits at the start.
LEMMA InitFactorInv == FactorInit => FactorInv
<1> SUFFICES ASSUME FactorInit PROVE FactorInv
  OBVIOUS
<1>1. /\ Resting \in [phase : {"idle", "matched"}, step : Nat, at : Nat]
      /\ Resting.phase = "idle"
  BY DEF Resting
<1>2. FactorTypeOK
  BY <1>1 DEF FactorInit, FactorTypeOK
<1>3. MatchesAreFresh
  BY <1>1 DEF FactorInit, MatchesAreFresh
<1>4. LatestIsStored /\ ForgottenIsOver
  BY DEF FactorInit, LatestIsStored, ForgottenIsOver
<1>5. CodeWorksOnce
  BY Zenon DEF FactorInit, CodeWorksOnce
<1> QED
  BY <1>2, <1>3, <1>4, <1>5 DEF FactorInv

\* What a step of the login stores is a row, and it lives STEP_TTL steps from now.
LEMMA StoredIsRow ==
  ASSUME NEW s \in Nat, current \in Nat
  PROVE  /\ stored(s) \in [step : Nat, expires_at : Nat]
         /\ stored(s) # NoStep
         /\ stored(s).step = s /\ stored(s).expires_at = current + STEP_TTL
BY FactorAssumption DEF stored

\* A request that has matched is at rest afterwards: the others are as fresh as
\* they were.
LEMMA RestingKeepsMatches ==
  ASSUME FactorTypeOK, MatchesAreFresh, NEW v \in Verifiers,
         verifier' = [verifier EXCEPT ![v] = Resting], current' = current
  PROVE  /\ verifier' \in [Verifiers -> [phase : {"idle", "matched"}, step : Nat, at : Nat]]
         /\ MatchesAreFresh'
<1>1. \A w \in Verifiers : verifier'[w] = IF w = v THEN Resting ELSE verifier[w]
  BY DEF FactorTypeOK
<1>2. Resting \in [phase : {"idle", "matched"}, step : Nat, at : Nat]
      /\ Resting.phase = "idle"
  BY DEF Resting
<1> QED
  BY <1>1, <1>2 DEF FactorTypeOK, MatchesAreFresh

\* A code that is accepted is later than all that were, so it was not among them.
LEMMA AcceptIsNew ==
  ASSUME FactorInv, NEW v \in Verifiers, Accept(v)
  PROVE  FactorInv'
<1> USE DEF FactorInv
<1> DEFINE s == verifier[v].step
<1>1. /\ current \in Nat /\ s \in Nat /\ verifier[v].at \in Nat
      /\ WINDOW \in Nat /\ MaxDelay \in Nat /\ STEP_TTL \in Nat
      /\ STEP_TTL > 2 * WINDOW + MaxDelay
      /\ accepted \subseteq Nat
  BY FactorAssumption DEF FactorTypeOK
<1>2. /\ verifier[v].phase = "matched" /\ ~isReplay(s)
      /\ usedSteps' = stored(s)
      /\ accepted' = accepted \cup {s}
      /\ reaccepted' = (reaccepted \/ s \in accepted)
      /\ verifier' = [verifier EXCEPT ![v] = Resting]
      /\ current' = current /\ recovery_code_use' = recovery_code_use
  BY DEF Accept
<1>3. /\ verifier[v].at <= s + WINDOW /\ s <= verifier[v].at + WINDOW
      /\ verifier[v].at <= current /\ current <= verifier[v].at + MaxDelay
  BY <1>2 DEF MatchesAreFresh
<1> HIDE DEF s
<1>4. \A t \in accepted : t < s
  <2>1. CASE usedSteps = NoStep
    <3> SUFFICES ASSUME NEW t \in accepted PROVE t < s
      OBVIOUS
    <3>1. t \in Nat
      BY <1>1
    <3>2. t + WINDOW + MaxDelay < current
      BY <2>1 DEF ForgottenIsOver
    <3>3. s + WINDOW + MaxDelay >= current
      BY <1>1, <1>3
    <3> QED
      BY <1>1, <3>1, <3>2, <3>3
  <2>2. CASE usedSteps # NoStep
    <3>1. usedSteps.step \in Nat /\ usedSteps.expires_at \in Nat
      BY <2>2 DEF FactorTypeOK
    <3>2. usedSteps.expires_at <= current \/ s > usedSteps.step
      BY <1>1, <1>2, <2>2, <3>1 DEF isReplay
    <3>3. usedSteps.step + STEP_TTL <= usedSteps.expires_at + WINDOW
      BY <2>2 DEF LatestIsStored
    <3>4. usedSteps.step < s
      BY <1>1, <1>3, <3>1, <3>2, <3>3
    <3> QED
      BY <1>1, <2>2, <3>1, <3>4 DEF LatestIsStored
  <2> QED
    BY <2>1, <2>2
<1>5. s \notin accepted
  BY <1>1, <1>4
<1>6. /\ stored(s) \in [step : Nat, expires_at : Nat] /\ stored(s) # NoStep
      /\ stored(s).step = s /\ stored(s).expires_at = current + STEP_TTL
  BY <1>1, StoredIsRow
<1>7. LatestIsStored'
  BY <1>1, <1>2, <1>3, <1>4, <1>6 DEF LatestIsStored
<1>8. ForgottenIsOver'
  BY <1>2, <1>6 DEF ForgottenIsOver
<1>9. CodeWorksOnce'
  BY <1>2, <1>5 DEF CodeWorksOnce
<1>10. MatchesAreFresh'
       /\ verifier' \in [Verifiers -> [phase : {"idle", "matched"}, step : Nat, at : Nat]]
  BY <1>2, RestingKeepsMatches
<1>11. FactorTypeOK'
  BY <1>1, <1>2, <1>5, <1>6, <1>10 DEF FactorTypeOK
<1> QED
  BY <1>7, <1>8, <1>9, <1>10, <1>11

\* Every step of the second factor keeps the invariant.
LEMMA FactorStep == FactorInv /\ [FactorNext]_factorVars => FactorInv'
<1> SUFFICES ASSUME FactorInv, [FactorNext]_factorVars PROVE FactorInv'
  OBVIOUS
<1> USE DEF FactorInv
<1>0. /\ current \in Nat /\ WINDOW \in Nat /\ MaxDelay \in Nat /\ STEP_TTL \in Nat
      /\ STEP_TTL > 2 * WINDOW + MaxDelay
      /\ accepted \subseteq Nat
  BY FactorAssumption DEF FactorTypeOK
<1>1. ASSUME NEW v \in Verifiers, NEW s \in 0..(MaxStep + WINDOW), Matches(v, s)
      PROVE  FactorInv'
  <2> DEFINE m == [phase |-> "matched", step |-> s, at |-> current]
  <2>1. /\ verifier' = [verifier EXCEPT ![v] = m] /\ s \in Nat
        /\ s \in (current - WINDOW)..(current + WINDOW)
        /\ UNCHANGED <<current, usedSteps, recovery_code_use, accepted, reaccepted>>
    BY <1>1, FactorAssumption DEF Matches
  <2>2. m \in [phase : {"idle", "matched"}, step : Nat, at : Nat]
        /\ m.step = s /\ m.at = current
    BY <1>0, <2>1
  <2> HIDE DEF m
  <2>3. \A w \in Verifiers : verifier'[w] = IF w = v THEN m ELSE verifier[w]
    BY <2>1 DEF FactorTypeOK
  <2>4. FactorTypeOK'
    BY <2>1, <2>2 DEF FactorTypeOK
  <2>5. MatchesAreFresh'
    BY <1>0, <2>1, <2>2, <2>3 DEF MatchesAreFresh
  <2> QED
    BY <2>1, <2>4, <2>5 DEF LatestIsStored, ForgottenIsOver, CodeWorksOnce
<1>2. ASSUME NEW v \in Verifiers, Accept(v) PROVE FactorInv'
  BY <1>2, AcceptIsNew
<1>3. ASSUME NEW v \in Verifiers, Replay(v) PROVE FactorInv'
  <2>1. /\ isReplay(verifier[v].step)
        /\ usedSteps' = stored(usedSteps.step)
        /\ verifier' = [verifier EXCEPT ![v] = Resting]
        /\ UNCHANGED <<current, recovery_code_use, accepted, reaccepted>>
    BY <1>3 DEF Replay
  <2>2. usedSteps # NoStep /\ usedSteps.step \in Nat /\ usedSteps.expires_at \in Nat
    BY <2>1 DEF isReplay, FactorTypeOK
  <2>3. /\ usedSteps' \in [step : Nat, expires_at : Nat] /\ usedSteps' # NoStep
        /\ usedSteps'.step = usedSteps.step
        /\ usedSteps'.expires_at = current + STEP_TTL
    BY <1>0, <2>1, <2>2, StoredIsRow
  <2>4. LatestIsStored'
    BY <1>0, <2>1, <2>2, <2>3 DEF LatestIsStored
  <2>5. MatchesAreFresh'
        /\ verifier' \in [Verifiers -> [phase : {"idle", "matched"}, step : Nat, at : Nat]]
    BY <2>1, RestingKeepsMatches
  <2> QED
    BY <2>1, <2>3, <2>4, <2>5 DEF FactorTypeOK, ForgottenIsOver, CodeWorksOnce
<1>4. ASSUME NEW v \in Verifiers, Vanishes(v) PROVE FactorInv'
  <2>1. /\ verifier' = [verifier EXCEPT ![v] = Resting]
        /\ UNCHANGED <<current, usedSteps, recovery_code_use, accepted, reaccepted>>
    BY <1>4 DEF Vanishes
  <2>2. MatchesAreFresh'
        /\ verifier' \in [Verifiers -> [phase : {"idle", "matched"}, step : Nat, at : Nat]]
    BY <2>1, RestingKeepsMatches
  <2> QED
    BY <2>1, <2>2 DEF FactorTypeOK, LatestIsStored, ForgottenIsOver, CodeWorksOnce
<1>5. ASSUME NEW c \in RecoveryCodes, consumeRecoveryCode(c) PROVE FactorInv'
  BY <1>5 DEF consumeRecoveryCode, FactorTypeOK, LatestIsStored, ForgottenIsOver,
              MatchesAreFresh, CodeWorksOnce
<1>6. CASE SweepSteps
  <2>1. /\ usedSteps # NoStep /\ usedSteps.expires_at <= current
        /\ usedSteps' = NoStep
        /\ UNCHANGED <<current, verifier, recovery_code_use, accepted, reaccepted>>
    BY <1>6 DEF SweepSteps
  <2>2. usedSteps.step \in Nat /\ usedSteps.expires_at \in Nat
    BY <2>1 DEF FactorTypeOK
  <2>3. ForgottenIsOver'
    BY <1>0, <2>1, <2>2 DEF LatestIsStored, ForgottenIsOver
  <2> QED
    BY <2>1, <2>3 DEF FactorTypeOK, LatestIsStored, MatchesAreFresh, CodeWorksOnce
<1>7. CASE StepPasses
  <2>1. /\ current' = current + 1
        /\ \A v \in Verifiers :
             verifier[v].phase = "matched" => current < verifier[v].at + MaxDelay
        /\ UNCHANGED <<usedSteps, verifier, recovery_code_use, accepted, reaccepted>>
    BY <1>7 DEF StepPasses
  <2>2. FactorTypeOK'
    BY <1>0, <2>1 DEF FactorTypeOK
  <2>3. LatestIsStored'
    BY <1>0, <2>1 DEF LatestIsStored, FactorTypeOK
  <2>4. ForgottenIsOver'
    BY <1>0, <2>1 DEF ForgottenIsOver
  <2>5. MatchesAreFresh'
    BY <1>0, <2>1 DEF MatchesAreFresh, FactorTypeOK
  <2> QED
    BY <2>1, <2>2, <2>3, <2>4, <2>5 DEF CodeWorksOnce
<1>8. CASE UNCHANGED factorVars
  BY <1>8 DEF factorVars, FactorTypeOK, LatestIsStored, ForgottenIsOver, MatchesAreFresh,
              CodeWorksOnce
<1> QED
  BY <1>1, <1>2, <1>3, <1>4, <1>5, <1>6, <1>7, <1>8 DEF FactorNext

\* The inductive invariant of the second factor.
THEOREM FactorInvariant == FactorSpec => []FactorInv
BY InitFactorInv, FactorStep, PTL DEF FactorSpec

\* A code of the app logs in once, for any number of requests and any window the
\* life of the stored step covers.
THEOREM NoCodeTwice == FactorSpec => []CodeWorksOnce
<1>1. FactorInv => CodeWorksOnce
  BY DEF FactorInv
<1> QED
  BY <1>1, FactorInvariant, PTL

-----------------------------------------------------------------------------
\* Backups.

active(r) == run[r].phase # "idle"

\* The run that has made the file of its day.
owns(r) == run[r].phase \in {"saved", "listed", "rotated", "copied", "listedSecond"}

\* No file is of a day to come, and what was never saved was never copied: only a
\* file that is two days old may have been rotated out of one directory.
FilesArePast ==
  \A d \in Days :
    /\ copies.main[d] # "none" \/ copies.second[d] # "none" => d <= stamp
    /\ copies.main[d] = "none" /\ stamp <= d + 1 => copies.second[d] = "none"

\* A run is of today or yesterday, and deletes nothing of these two days.
RunsAreRecent ==
  \A r \in Runs :
    /\ active(r) => run[r].day <= stamp /\ stamp <= run[r].day + 1
    /\ \A d \in run[r].excess : d + 2 <= stamp
    /\ run[r].rotate => run[r].clean
    /\ run[r].phase \in {"listed", "copied", "listedSecond"} => run[r].rotate

\* The file of a day has one run that made it, which is also the one to copy it.
FilesAreOwned ==
  \A r \in Runs :
    owns(r) =>
      /\ copies.main[run[r].day] # "none"
      /\ run[r].phase \in {"saved", "listed", "rotated"}
           => copies.second[run[r].day] = "none"
      /\ run[r].phase \in {"copied", "listedSecond"}
           => copies.second[run[r].day] = copies.main[run[r].day]
      /\ \A q \in Runs : owns(q) /\ run[q].day = run[r].day => q = r

BackupInv == BackupTypeOK /\ FilesArePast /\ RunsAreRecent /\ FilesAreOwned

\* What is more than KEEP files old is at least two days old.
LEMMA SurplusIsOld ==
  ASSUME BackupInv, NEW dir \in {"main", "second"}, NEW d \in surplus(dir)
  PROVE  d \in Days /\ d + 2 <= stamp
<1> DEFINE newer == {e \in daily(dir) : e > d}
<1>1. d \in Days /\ d \in Nat /\ stamp \in Nat /\ Cardinality(newer) >= KEEP
  BY BackupAssumption DEF surplus, daily, Days, BackupInv, BackupTypeOK
<1>2. \A e \in newer : e \in Nat /\ e > d /\ e <= stamp
  BY BackupAssumption DEF daily, Days, BackupInv, FilesArePast, BackupTypeOK
<1> HIDE DEF newer
<1>3. CASE stamp < d + 2
  <2>1. newer \subseteq {d + 1}
    BY <1>1, <1>2, <1>3
  <2>2. IsFiniteSet({d + 1}) /\ Cardinality({d + 1}) = 1
    BY FS_Singleton
  <2>3. Cardinality(newer) <= 1 /\ Cardinality(newer) \in Nat
    BY <2>1, <2>2, FS_Subset, FS_CardinalityType
  <2> QED
    BY <1>1, <2>3, BackupAssumption
<1> QED
  BY <1>1, <1>3

\* There is no file and no run at the start.
LEMMA InitBackupInv == BackupInit => BackupInv
<1> SUFFICES ASSUME BackupInit PROVE BackupInv
  OBVIOUS
<1>1. 1 \in Days
  BY BackupAssumption DEF Days
<1>2. BackupTypeOK
  BY <1>1 DEF BackupInit, BackupTypeOK, File, NotRunning
<1> QED
  BY <1>2
  DEF BackupInit, BackupInv, FilesArePast, RunsAreRecent, FilesAreOwned, owns, active,
      NotRunning

\* A run goes on, or ends, and touches no file.
LEMMA RunStep ==
  ASSUME BackupInv, NEW r \in Runs,
         NEW c \in [phase : {"idle", "begun", "checked", "saved", "listed",
                             "rotated", "copied", "listedSecond"},
                    day : Days, rotate : BOOLEAN, excess : SUBSET Days,
                    clean : BOOLEAN],
         run' = [run EXCEPT ![r] = c], UNCHANGED <<stamp, copies>>, sound' \in BOOLEAN,
         c.phase # "idle" => c.day <= stamp /\ stamp <= c.day + 1,
         \A d \in c.excess : d + 2 <= stamp,
         c.rotate => c.clean,
         c.phase \in {"listed", "copied", "listedSecond"} => c.rotate,
         c.phase \in {"saved", "listed", "rotated", "copied", "listedSecond"}
           => owns(r) /\ c.day = run[r].day,
         c.phase \in {"saved", "listed", "rotated"}
           => run[r].phase \in {"saved", "listed", "rotated"},
         c.phase \in {"copied", "listedSecond"} => run[r].phase \in {"copied", "listedSecond"}
  PROVE  BackupInv'
<1> USE DEF BackupInv
<1>1. BackupTypeOK'
  BY DEF BackupTypeOK
<1>2. run'[r] = c /\ \A q \in Runs \ {r} : run'[q] = run[q]
  BY DEF BackupTypeOK
<1>3. FilesArePast'
  BY DEF FilesArePast
<1>4. RunsAreRecent'
  <2> SUFFICES ASSUME NEW q \in Runs
               PROVE  /\ active(q)' => run'[q].day <= stamp /\ stamp <= run'[q].day + 1
                      /\ \A d \in run'[q].excess : d + 2 <= stamp
                      /\ run'[q].rotate => run'[q].clean
                      /\ run'[q].phase \in {"listed", "copied", "listedSecond"}
                           => run'[q].rotate
    BY DEF RunsAreRecent
  <2>1. CASE q = r
    BY <2>1, <1>2 DEF active
  <2>2. CASE q # r
    BY <2>2, <1>2 DEF RunsAreRecent, active
  <2> QED
    BY <2>1, <2>2
<1>5. \A q \in Runs : owns(q)' => owns(q) /\ run'[q].day = run[q].day
  BY <1>2 DEF owns
<1>6. FilesAreOwned'
  BY <1>2, <1>5 DEF FilesAreOwned, owns
<1> QED
  BY <1>1, <1>3, <1>4, <1>6

RunPhase == {"idle", "begun", "checked", "saved", "listed", "rotated", "copied",
             "listedSecond"}

RunRow == [phase : RunPhase, day : Days, rotate : BOOLEAN, excess : SUBSET Days,
           clean : BOOLEAN]

\* A run that ends, and one that goes on to a phase, are typed and have the rest of
\* their fields as before.
LEMMA NextRow ==
  ASSUME BackupInv, NEW r \in Runs
  PROVE  /\ run[r] \in RunRow
         /\ NotRunning \in RunRow
         /\ NotRunning.phase = "idle" /\ NotRunning.excess = {} /\ ~NotRunning.rotate
         /\ \A p \in RunPhase :
              LET c == [run[r] EXCEPT !.phase = p]
              IN /\ c \in RunRow
                 /\ c.phase = p /\ c.day = run[r].day /\ c.rotate = run[r].rotate
                 /\ c.excess = run[r].excess /\ c.clean = run[r].clean
<1>1. 1 \in Days
  BY BackupAssumption DEF Days
<1>2. run[r] \in RunRow
  BY DEF BackupInv, BackupTypeOK, RunRow, RunPhase
<1>3. NotRunning \in RunRow
  BY <1>1 DEF NotRunning, RunRow, RunPhase
<1> QED
  BY <1>2, <1>3 DEF NotRunning, RunRow

\* The end of a run.
LEMMA EndStep ==
  ASSUME BackupInv, NEW r \in Runs, returns(r), UNCHANGED <<stamp, sound, copies>>
  PROVE  BackupInv'
<1>1. run' = [run EXCEPT ![r] = NotRunning]
  BY DEF returns
<1>2. sound' \in BOOLEAN
  BY DEF BackupInv, BackupTypeOK
<1> QED
  BY <1>1, <1>2, NextRow, RunStep DEF RunRow, RunPhase

\* The steps of a run that write and delete no file.
LEMMA ReadingStep ==
  ASSUME BackupInv, NEW r \in Runs,
         \/ Begin(r) \/ quickCheck(r) \/ VacuumRefused(r) \/ SkipsRotation(r) \/ Breaks(r)
         \/ List(r, "main", "saved", "listed")
         \/ List(r, "second", "copied", "listedSecond")
  PROVE  BackupInv'
<1>1. /\ run[r] \in RunRow /\ stamp \in Days /\ stamp \in Nat /\ sound \in BOOLEAN
      /\ run[r].day \in Nat
      /\ active(r) => run[r].day <= stamp /\ stamp <= run[r].day + 1
      /\ \A d \in run[r].excess : d + 2 <= stamp
      /\ run[r].rotate => run[r].clean
  BY NextRow DEF BackupInv, BackupTypeOK, RunsAreRecent, Days, RunRow
<1>2. CASE Begin(r)
  <2> DEFINE c == [NotRunning EXCEPT !.phase = "begun", !.day = stamp]
  <2>1. /\ c \in RunRow /\ c.phase = "begun" /\ c.day = stamp /\ c.excess = {}
        /\ ~c.rotate
    <3>1. NotRunning \in RunRow
      BY NextRow
    <3>2. NotRunning.excess = {} /\ NotRunning.rotate = FALSE
      BY DEF NotRunning
    <3>3. c \in RunRow
      BY <1>1, <3>1 DEF RunRow, RunPhase
    <3> QED
      BY <1>1, <3>1, <3>2, <3>3 DEF RunRow
  <2>2. run' = [run EXCEPT ![r] = c] /\ UNCHANGED <<stamp, sound, copies>>
    BY <1>2 DEF Begin
  <2> HIDE DEF c
  <2>3. c.day <= stamp /\ stamp <= c.day + 1 /\ \A d \in c.excess : d + 2 <= stamp
    BY <1>1, <2>1
  <2>4. sound' \in BOOLEAN /\ (c.rotate => c.clean)
    BY <1>1, <2>1, <2>2
  <2>5. c \in [phase : {"idle", "begun", "checked", "saved", "listed",
                       "rotated", "copied", "listedSecond"},
              day : Days, rotate : BOOLEAN, excess : SUBSET Days, clean : BOOLEAN]
    BY <2>1 DEF RunRow, RunPhase
  <2>6. c.phase \notin {"saved", "listed", "rotated", "copied", "listedSecond"}
    BY <2>1
  <2> QED
    BY <2>2, <2>3, <2>4, <2>5, <2>6, RunStep
<1>3. CASE quickCheck(r)
  <2> DEFINE c == [run[r] EXCEPT !.phase = "checked", !.rotate = sound, !.clean = sound]
  <2>1. /\ c \in RunRow /\ c.phase = "checked" /\ c.day = run[r].day
        /\ c.excess = run[r].excess /\ c.rotate = c.clean
    BY <1>1 DEF RunRow, RunPhase
  <2>2. /\ run' = [run EXCEPT ![r] = c] /\ UNCHANGED <<stamp, sound, copies>>
        /\ active(r)
    BY <1>1, <1>3 DEF quickCheck, active, RunRow
  <2> HIDE DEF c
  <2> QED
    BY <1>1, <2>1, <2>2, RunStep DEF RunRow, RunPhase
<1>4. CASE VacuumRefused(r) \/ Breaks(r)
  BY <1>4, EndStep DEF VacuumRefused, Breaks
<1>5. CASE SkipsRotation(r)
  <2> DEFINE c == [run[r] EXCEPT !.phase = "rotated"]
  <2>1. /\ c \in RunRow /\ c.phase = "rotated" /\ c.day = run[r].day
        /\ c.excess = run[r].excess /\ c.rotate = run[r].rotate /\ c.clean = run[r].clean
    BY <1>1 DEF RunRow, RunPhase
  <2>2. /\ run' = [run EXCEPT ![r] = c] /\ UNCHANGED <<stamp, sound, copies>>
        /\ run[r].phase = "saved" /\ active(r) /\ owns(r)
    BY <1>1, <1>5 DEF SkipsRotation, goesTo, active, owns, RunRow
  <2> HIDE DEF c
  <2> QED
    BY <1>1, <2>1, <2>2, RunStep DEF RunRow, RunPhase
<1>6. ASSUME NEW dir \in {"main", "second"}, NEW before, NEW after,
             \/ before = "saved" /\ after = "listed"
             \/ before = "copied" /\ after = "listedSecond",
             List(r, dir, before, after)
      PROVE  BackupInv'
  <2> DEFINE c == [run[r] EXCEPT !.phase = after, !.excess = surplus(dir)]
  <2>1. surplus(dir) \in SUBSET Days /\ \A d \in surplus(dir) : d + 2 <= stamp
    BY <1>6, SurplusIsOld
  <2>2. /\ c \in RunRow /\ c.phase = after /\ c.day = run[r].day
        /\ c.excess = surplus(dir) /\ c.rotate = run[r].rotate /\ c.clean = run[r].clean
    BY <1>1, <1>6, <2>1 DEF RunRow, RunPhase
  <2>3. /\ run' = [run EXCEPT ![r] = c] /\ UNCHANGED <<stamp, sound, copies>>
        /\ run[r].phase = before /\ run[r].rotate
    BY <1>1, <1>6 DEF List, RunRow
  <2>4. active(r) /\ owns(r)
    BY <1>6, <2>3 DEF active, owns
  <2> HIDE DEF c
  <2> QED
    BY <1>1, <1>6, <2>1, <2>2, <2>3, <2>4, RunStep DEF RunRow, RunPhase
<1> QED
  BY <1>2, <1>3, <1>4, <1>5, <1>6

\* The copy of the database, completed or cut short: the day had none, in neither
\* directory.
LEMMA VacuumStep ==
  ASSUME BackupInv, NEW r \in Runs, VacuumInto(r) \/ VacuumBreaks(r)
  PROVE  BackupInv' /\ copies'.second = copies.second
         /\ \A d \in Days : copies.main[d] # "none" => copies'.main[d] = copies.main[d]
<1> DEFINE day == run[r].day
<1>1. /\ run[r] \in RunRow /\ stamp \in Nat /\ day \in Days /\ day \in Nat
      /\ run[r].phase = "checked" /\ copies.main[day] = "none"
      /\ copies \in [main : [Days -> File], second : [Days -> File]]
  BY NextRow DEF VacuumInto, VacuumBreaks, BackupInv, BackupTypeOK, RunRow, Days
<1>2. day <= stamp /\ stamp <= day + 1
  BY <1>1 DEF BackupInv, RunsAreRecent, active
<1>3. copies.second[day] = "none"
  BY <1>1, <1>2 DEF BackupInv, FilesArePast
<1>4. PICK f \in {"good", "bad"}, c \in RunRow :
        /\ copies' = [copies EXCEPT !.main[day] = f]
        /\ run' = [run EXCEPT ![r] = c]
        /\ \/ c = NotRunning
           \/ c = [run[r] EXCEPT !.phase = "saved"]
  <2>1. CASE VacuumInto(r)
    <3>1. [run[r] EXCEPT !.phase = "saved"] \in RunRow
      BY NextRow DEF RunPhase
    <3>2. run' = [run EXCEPT ![r] = [run[r] EXCEPT !.phase = "saved"]]
      BY <2>1 DEF VacuumInto, goesTo
    <3>3. copies' = [copies EXCEPT !.main[day] = IF sound THEN "good" ELSE "bad"]
      BY <2>1 DEF VacuumInto
    <3> QED
      BY <3>1, <3>2, <3>3
  <2>2. CASE VacuumBreaks(r)
    BY <2>2, NextRow DEF VacuumBreaks, returns
  <2> QED
    BY <2>1, <2>2
<1>5. /\ copies' \in [main : [Days -> File], second : [Days -> File]]
      /\ copies'.second = copies.second
      /\ copies'.main[day] = f
      /\ \A d \in Days \ {day} : copies'.main[d] = copies.main[d]
  BY <1>1, <1>4 DEF File
<1>6. /\ c.phase \in {"idle", "saved"}
      /\ c.phase = "saved" => c.day = day
      /\ c.excess \subseteq run[r].excess
      /\ c.rotate => c.clean
  <2>1. CASE c = NotRunning
    BY <2>1, NextRow
  <2>2. CASE c = [run[r] EXCEPT !.phase = "saved"]
    <3>1. /\ c.phase = "saved" /\ c.day = day /\ c.excess = run[r].excess
          /\ c.rotate = run[r].rotate /\ c.clean = run[r].clean
      BY <2>2, NextRow DEF RunPhase
    <3>2. run[r].rotate => run[r].clean
      BY DEF BackupInv, RunsAreRecent
    <3> QED
      BY <3>1, <3>2
  <2> QED
    BY <1>4, <2>1, <2>2
<1>7. run'[r] = c /\ \A q \in Runs \ {r} : run'[q] = run[q]
  BY <1>4 DEF BackupInv, BackupTypeOK
<1>8. UNCHANGED <<stamp, sound>>
  BY DEF VacuumInto, VacuumBreaks
<1> HIDE DEF day
<1>9. BackupTypeOK'
  BY <1>4, <1>5, <1>8 DEF BackupInv, BackupTypeOK, RunRow, RunPhase
<1>10. FilesArePast'
  BY <1>2, <1>3, <1>5, <1>8 DEF BackupInv, FilesArePast
<1>11. RunsAreRecent'
  <2> SUFFICES ASSUME NEW q \in Runs
               PROVE  /\ active(q)' => run'[q].day <= stamp /\ stamp <= run'[q].day + 1
                      /\ \A d \in run'[q].excess : d + 2 <= stamp
                      /\ run'[q].rotate => run'[q].clean
                      /\ run'[q].phase \in {"listed", "copied", "listedSecond"}
                           => run'[q].rotate
    BY <1>8 DEF RunsAreRecent
  <2>1. CASE q = r
    BY <2>1, <1>2, <1>6, <1>7 DEF BackupInv, RunsAreRecent, active
  <2>2. CASE q # r
    BY <2>2, <1>7 DEF BackupInv, RunsAreRecent, active
  <2> QED
    BY <2>1, <2>2
<1>12. \A q \in Runs \ {r} : owns(q)' => owns(q) /\ run[q].day # day /\ run[q].day \in Days
  BY <1>1, <1>7 DEF owns, BackupInv, FilesAreOwned, BackupTypeOK
<1>13. FilesAreOwned'
  <2> SUFFICES ASSUME NEW q \in Runs, owns(q)'
               PROVE  /\ copies'.main[run'[q].day] # "none"
                      /\ run'[q].phase \in {"saved", "listed", "rotated"}
                           => copies'.second[run'[q].day] = "none"
                      /\ run'[q].phase \in {"copied", "listedSecond"}
                           => copies'.second[run'[q].day] = copies'.main[run'[q].day]
                      /\ \A p \in Runs : owns(p)' /\ run'[p].day = run'[q].day => p = q
    BY DEF FilesAreOwned
  <2>1. CASE q = r
    <3>1. run'[q] = c /\ c.phase = "saved" /\ c.day = day
      BY <2>1, <1>6, <1>7 DEF owns
    <3>2. \A p \in Runs : owns(p)' /\ run'[p].day = day => p = r
      BY <1>7, <1>12
    <3> QED
      BY <2>1, <3>1, <3>2, <1>3, <1>5
  <2>2. CASE q # r
    <3>1. run'[q] = run[q] /\ owns(q) /\ run[q].day \in Days /\ run[q].day # day
      BY <2>2, <1>7, <1>12
    <3>2. \A p \in Runs : owns(p)' /\ run'[p].day = run[q].day => p = q
      <4> SUFFICES ASSUME NEW p \in Runs, owns(p)', run'[p].day = run[q].day
                   PROVE  p = q
        OBVIOUS
      <4>1. p # r
        BY <3>1, <1>6, <1>7 DEF owns
      <4> QED
        BY <3>1, <4>1, <1>7, <1>12 DEF BackupInv, FilesAreOwned
    <3> QED
      BY <3>1, <3>2, <1>5 DEF BackupInv, FilesAreOwned
  <2> QED
    BY <2>1, <2>2
<1>14. \A d \in Days : copies.main[d] # "none" => copies'.main[d] = copies.main[d]
  BY <1>1, <1>5 DEF day
<1> QED
  BY <1>5, <1>9, <1>10, <1>11, <1>13, <1>14 DEF BackupInv

\* Rotation in one directory deletes no file of a run that is under way.
LEMMA UnlinkStep ==
  ASSUME BackupInv, NEW r \in Runs, NEW dir \in {"main", "second"}, Unlink(r, dir),
         UNCHANGED <<stamp, sound>>,
         \/ returns(r)
         \/ run[r].phase = "listed" /\ goesTo(r, "rotated")
  PROVE  /\ BackupInv'
         /\ \A d \in Days : stamp <= d + 1
              => copies'.main[d] = copies.main[d] /\ copies'.second[d] = copies.second[d]
         /\ dir = "main" => copies'.second = copies.second
         /\ dir = "second" => copies'.main = copies.main
<1>1. /\ run[r] \in RunRow /\ stamp \in Nat
      /\ copies \in [main : [Days -> File], second : [Days -> File]]
      /\ copies[dir] \in [Days -> File]
      /\ \A d \in Days : d \in Nat
  BY NextRow DEF BackupInv, BackupTypeOK, Days
<1>2. \A d \in deletable(r, dir) : d \in Days /\ d + 2 <= stamp
  BY <1>1 DEF deletable, BackupInv, RunsAreRecent, RunRow
<1> DEFINE left == [d \in Days |-> IF d \in deletable(r, dir) THEN "none"
                                   ELSE copies[dir][d]]
<1>3. left \in [Days -> File]
  BY <1>1 DEF File
<1>4. copies' = [copies EXCEPT ![dir] = left]
  BY DEF Unlink
<1>5. \A d \in Days : /\ stamp <= d + 1 => left[d] = copies[dir][d]
                      /\ left[d] # "none" => left[d] = copies[dir][d]
  BY <1>1, <1>2
<1> HIDE DEF left
<1>6. /\ copies' \in [main : [Days -> File], second : [Days -> File]]
      /\ dir = "main" => copies'.main = left /\ copies'.second = copies.second
      /\ dir = "second" => copies'.second = left /\ copies'.main = copies.main
  <2>1. CASE dir = "main"
    BY <2>1, <1>1, <1>3, <1>4
  <2>2. CASE dir = "second"
    BY <2>2, <1>1, <1>3, <1>4
  <2> QED
    BY <2>1, <2>2
<1>7. /\ \A d \in Days : stamp <= d + 1
           => copies'.main[d] = copies.main[d] /\ copies'.second[d] = copies.second[d]
      /\ \A d \in Days : /\ copies'.main[d] # "none" => copies.main[d] # "none"
                         /\ copies'.second[d] # "none" => copies.second[d] # "none"
  BY <1>5, <1>6
<1>8. PICK c \in RunRow :
        /\ run' = [run EXCEPT ![r] = c]
        /\ c.phase # "idle"
             => /\ c.phase = "rotated" /\ run[r].phase = "listed"
                /\ c.day = run[r].day
        /\ c.phase \in {"idle", "rotated"}
        /\ \A d \in c.excess : d + 2 <= stamp
        /\ c.rotate => c.clean
  <2>1. CASE returns(r)
    BY <2>1, NextRow DEF returns
  <2>2. CASE run[r].phase = "listed" /\ goesTo(r, "rotated")
    <3> DEFINE c == [run[r] EXCEPT !.phase = "rotated"]
    <3>1. /\ c \in RunRow /\ c.phase = "rotated" /\ c.day = run[r].day
          /\ c.excess = run[r].excess /\ c.rotate = run[r].rotate
          /\ c.clean = run[r].clean
      BY NextRow DEF RunPhase
    <3>2. run' = [run EXCEPT ![r] = c]
      BY <2>2 DEF goesTo
    <3>3. (\A d \in run[r].excess : d + 2 <= stamp) /\ (run[r].rotate => run[r].clean)
      BY DEF BackupInv, RunsAreRecent
    <3> HIDE DEF c
    <3> QED
      BY <2>2, <3>1, <3>2, <3>3
  <2> QED
    BY <2>1, <2>2
<1>9. run'[r] = c /\ \A q \in Runs \ {r} : run'[q] = run[q]
  BY <1>8 DEF BackupInv, BackupTypeOK
<1>10. BackupTypeOK'
  BY <1>6, <1>8 DEF BackupInv, BackupTypeOK, RunRow, RunPhase
<1>11. FilesArePast'
  BY <1>1, <1>7 DEF BackupInv, FilesArePast
<1>12. \A q \in Runs : /\ active(q)' => active(q) /\ run'[q].day = run[q].day
                       /\ owns(q)' => owns(q) /\ active(q)
  BY <1>8, <1>9 DEF active, owns
<1>13. RunsAreRecent'
  <2> SUFFICES ASSUME NEW q \in Runs
               PROVE  /\ active(q)' => run'[q].day <= stamp /\ stamp <= run'[q].day + 1
                      /\ \A d \in run'[q].excess : d + 2 <= stamp
                      /\ run'[q].rotate => run'[q].clean
                      /\ run'[q].phase \in {"listed", "copied", "listedSecond"}
                           => run'[q].rotate
    BY DEF RunsAreRecent
  <2>1. active(q)' => run'[q].day <= stamp /\ stamp <= run'[q].day + 1
    BY <1>12 DEF BackupInv, RunsAreRecent
  <2>2. CASE q = r
    BY <2>1, <2>2, <1>8, <1>9
  <2>3. CASE q # r
    BY <2>1, <2>3, <1>9 DEF BackupInv, RunsAreRecent
  <2> QED
    BY <2>2, <2>3
<1>14. FilesAreOwned'
  <2> SUFFICES ASSUME NEW q \in Runs, owns(q)'
               PROVE  /\ copies'.main[run'[q].day] # "none"
                      /\ run'[q].phase \in {"saved", "listed", "rotated"}
                           => copies'.second[run'[q].day] = "none"
                      /\ run'[q].phase \in {"copied", "listedSecond"}
                           => copies'.second[run'[q].day] = copies'.main[run'[q].day]
                      /\ \A p \in Runs : owns(p)' /\ run'[p].day = run'[q].day => p = q
    BY DEF FilesAreOwned
  <2>1. /\ owns(q) /\ active(q) /\ run'[q].day = run[q].day /\ run[q].day \in Days
        /\ stamp <= run[q].day + 1
    BY <1>12 DEF active, owns, BackupInv, RunsAreRecent, BackupTypeOK
  <2>2. /\ copies'.main[run[q].day] = copies.main[run[q].day]
        /\ copies'.second[run[q].day] = copies.second[run[q].day]
    BY <2>1, <1>7
  <2>3. /\ run'[q].phase \in {"saved", "listed", "rotated"}
             => run[q].phase \in {"saved", "listed", "rotated"}
        /\ run'[q].phase \in {"copied", "listedSecond"}
             => run[q].phase \in {"copied", "listedSecond"}
    BY <1>8, <1>9
  <2>4. \A p \in Runs : owns(p)' => owns(p) /\ run'[p].day = run[p].day
    BY <1>12 DEF owns, active
  <2> QED
    BY <2>1, <2>2, <2>3, <2>4 DEF BackupInv, FilesAreOwned
<1> QED
  BY <1>6, <1>7, <1>10, <1>11, <1>13, <1>14 DEF BackupInv

\* The copy to the second directory, completed or cut short, replaces nothing.
LEMMA CopyStep ==
  ASSUME BackupInv, NEW r \in Runs, CopyFile(r) \/ CopyBreaks(r)
  PROVE  /\ BackupInv' /\ copies'.main = copies.main
         /\ \A d \in Days : copies.second[d] # "none"
              => copies'.second[d] = copies.second[d]
<1> DEFINE day == run[r].day
<1>1. /\ run[r] \in RunRow /\ stamp \in Nat /\ day \in Days
      /\ run[r].phase = "rotated" /\ owns(r) /\ active(r)
      /\ copies \in [main : [Days -> File], second : [Days -> File]]
  BY NextRow DEF CopyFile, CopyBreaks, BackupInv, BackupTypeOK, RunRow, Days, owns, active
<1>2. copies.main[day] # "none" /\ copies.second[day] = "none"
  BY <1>1 DEF BackupInv, FilesAreOwned
<1>3. /\ run[r].rotate => run[r].clean
      /\ day <= stamp /\ stamp <= day + 1
      /\ \A d \in run[r].excess : d + 2 <= stamp
  BY <1>1 DEF BackupInv, RunsAreRecent
<1>4. PICK f \in File, c \in RunRow :
        /\ copies' = [copies EXCEPT !.second[day] = f]
        /\ run' = [run EXCEPT ![r] = c]
        /\ c.phase \in {"idle", "copied"}
        /\ c.phase = "copied" => f = copies.main[day] /\ c.day = day /\ c.rotate
        /\ \A d \in c.excess : d + 2 <= stamp
        /\ c.rotate => c.clean
        /\ f # "none"
  <2>1. ASSUME returns(r) PROVE run' = [run EXCEPT ![r] = NotRunning]
    BY <2>1 DEF returns
  <2>2. CASE CopyFile(r)
    <3>1. copies' = [copies EXCEPT !.second[day] = copies.main[day]]
          /\ copies.main[day] \in File
      BY <2>2, <1>1 DEF CopyFile
    <3>2. CASE run[r].rotate
      <4> DEFINE c == [run[r] EXCEPT !.phase = "copied"]
      <4>1. /\ c \in RunRow /\ c.phase = "copied" /\ c.day = day
            /\ c.excess = run[r].excess /\ c.rotate = run[r].rotate
            /\ c.clean = run[r].clean
        BY NextRow DEF RunPhase
      <4>2. run' = [run EXCEPT ![r] = c]
        BY <2>2, <3>2 DEF CopyFile, goesTo
      <4> HIDE DEF c, day
      <4> QED
        BY <3>1, <3>2, <4>1, <4>2, <1>2, <1>3
    <3>3. CASE ~run[r].rotate
      <4>1. run' = [run EXCEPT ![r] = NotRunning]
        BY <2>1, <2>2, <3>3 DEF CopyFile
      <4> HIDE DEF day
      <4> QED
        BY <3>1, <4>1, <1>2, NextRow
    <3> QED
      BY <3>2, <3>3
  <2>3. CASE CopyBreaks(r)
    <3>1. copies' = [copies EXCEPT !.second[day] = "bad"] /\ "bad" \in File
      BY <2>3 DEF CopyBreaks, File
    <3>2. run' = [run EXCEPT ![r] = NotRunning]
      BY <2>1, <2>3 DEF CopyBreaks
    <3> HIDE DEF day
    <3> QED
      BY <3>1, <3>2, NextRow
  <2> QED
    BY <2>2, <2>3
<1>5. /\ copies' \in [main : [Days -> File], second : [Days -> File]]
      /\ copies'.main = copies.main
      /\ copies'.second[day] = f
      /\ \A d \in Days \ {day} : copies'.second[d] = copies.second[d]
  BY <1>1, <1>4
<1>6. run'[r] = c /\ \A q \in Runs \ {r} : run'[q] = run[q]
  BY <1>4 DEF BackupInv, BackupTypeOK
<1>7. UNCHANGED <<stamp, sound>>
  BY DEF CopyFile, CopyBreaks
<1> HIDE DEF day
<1>8. BackupTypeOK'
  BY <1>4, <1>5, <1>7 DEF BackupInv, BackupTypeOK, RunRow, RunPhase
<1>9. FilesArePast'
  BY <1>2, <1>3, <1>5, <1>7 DEF BackupInv, FilesArePast
<1>10. RunsAreRecent'
  <2> SUFFICES ASSUME NEW q \in Runs
               PROVE  /\ active(q)' => run'[q].day <= stamp /\ stamp <= run'[q].day + 1
                      /\ \A d \in run'[q].excess : d + 2 <= stamp
                      /\ run'[q].rotate => run'[q].clean
                      /\ run'[q].phase \in {"listed", "copied", "listedSecond"}
                           => run'[q].rotate
    BY <1>7 DEF RunsAreRecent
  <2>1. CASE q = r
    BY <2>1, <1>3, <1>4, <1>6 DEF active
  <2>2. CASE q # r
    BY <2>2, <1>6 DEF BackupInv, RunsAreRecent, active
  <2> QED
    BY <2>1, <2>2
<1>11. \A q \in Runs \ {r} : owns(q)' => owns(q) /\ run[q].day # day /\ run[q].day \in Days
  BY <1>1, <1>6 DEF owns, day, BackupInv, FilesAreOwned, BackupTypeOK
<1>12. FilesAreOwned'
  <2> SUFFICES ASSUME NEW q \in Runs, owns(q)'
               PROVE  /\ copies'.main[run'[q].day] # "none"
                      /\ run'[q].phase \in {"saved", "listed", "rotated"}
                           => copies'.second[run'[q].day] = "none"
                      /\ run'[q].phase \in {"copied", "listedSecond"}
                           => copies'.second[run'[q].day] = copies'.main[run'[q].day]
                      /\ \A p \in Runs : owns(p)' /\ run'[p].day = run'[q].day => p = q
    BY DEF FilesAreOwned
  <2>1. CASE q = r
    <3>1. run'[q] = c /\ c.phase = "copied" /\ c.day = day /\ f = copies.main[day]
      BY <2>1, <1>4, <1>6 DEF owns
    <3>2. \A p \in Runs : owns(p)' /\ run'[p].day = day => p = r
      BY <1>6, <1>11
    <3> QED
      BY <2>1, <3>1, <3>2, <1>2, <1>5
  <2>2. CASE q # r
    <3>1. run'[q] = run[q] /\ owns(q) /\ run[q].day \in Days /\ run[q].day # day
      BY <2>2, <1>6, <1>11
    <3>2. \A p \in Runs : owns(p)' /\ run'[p].day = run[q].day => p = q
      <4> SUFFICES ASSUME NEW p \in Runs, owns(p)', run'[p].day = run[q].day
                   PROVE  p = q
        OBVIOUS
      <4>1. p # r
        BY <3>1, <1>4, <1>6 DEF owns
      <4> QED
        BY <3>1, <4>1, <1>6, <1>11 DEF BackupInv, FilesAreOwned
    <3> QED
      BY <3>1, <3>2, <1>5 DEF BackupInv, FilesAreOwned
  <2> QED
    BY <2>1, <2>2
<1>13. \A d \in Days : copies.second[d] # "none" => copies'.second[d] = copies.second[d]
  BY <1>2, <1>5
<1> QED
  BY <1>5, <1>8, <1>9, <1>10, <1>12, <1>13 DEF BackupInv

\* The database and the calendar: a new day finds no run older than yesterday.
LEMMA WorldStep ==
  ASSUME BackupInv, Damage \/ Repair \/ StampTurns \/ UNCHANGED backupVars
  PROVE  BackupInv' /\ UNCHANGED copies
<1>1. CASE Damage \/ Repair \/ UNCHANGED backupVars
  <2>1. UNCHANGED <<stamp, copies, run>> /\ sound' \in BOOLEAN
    BY <1>1 DEF Damage, Repair, backupVars, BackupInv, BackupTypeOK
  <2> QED
    BY <2>1
    DEF BackupInv, BackupTypeOK, FilesArePast, RunsAreRecent, FilesAreOwned, owns, active
<1>2. CASE StampTurns
  <2>1. /\ stamp \in Nat /\ stamp' = stamp + 1 /\ stamp' \in Days
        /\ UNCHANGED <<sound, copies, run>>
        /\ \A r \in Runs : active(r) => run[r].day = stamp
        /\ \A d \in Days : d \in Nat
    BY <1>2, BackupAssumption
    DEF StampTurns, active, Days, BackupInv, BackupTypeOK
  <2>2. BackupTypeOK' /\ FilesAreOwned'
    BY <2>1 DEF BackupInv, BackupTypeOK, FilesAreOwned, owns
  <2>3. FilesArePast'
    <3> SUFFICES ASSUME NEW d \in Days
                 PROVE  /\ copies.main[d] # "none" \/ copies.second[d] # "none"
                             => d <= stamp + 1
                        /\ copies.main[d] = "none" /\ stamp + 1 <= d + 1
                             => copies.second[d] = "none"
      BY <2>1 DEF FilesArePast
    <3>1. /\ copies.main[d] # "none" \/ copies.second[d] # "none" => d <= stamp
          /\ copies.main[d] = "none" /\ stamp <= d + 1 => copies.second[d] = "none"
      BY DEF BackupInv, FilesArePast
    <3>2. d \in Nat /\ stamp \in Nat
      BY <2>1
    <3> QED
      BY <3>1, <3>2
  <2>4. RunsAreRecent'
    <3>1. \A r \in Runs : \A d \in run[r].excess : d \in Nat /\ d + 2 <= stamp
      BY <2>1 DEF BackupInv, BackupTypeOK, RunsAreRecent
    <3> QED
      BY <2>1, <3>1 DEF BackupInv, RunsAreRecent, active
  <2> QED
    BY <2>1, <2>2, <2>3, <2>4 DEF BackupInv
<1> QED
  BY <1>1, <1>2

\* Every step keeps the invariant, and the last good copy but for damage.
LEMMA BackupStep ==
  BackupInv /\ [BackupNext]_backupVars => BackupInv' /\ LostOnlyToDamage
<1> SUFFICES ASSUME BackupInv, [BackupNext]_backupVars
             PROVE  BackupInv' /\ LostOnlyToDamage
  OBVIOUS
<1>1. ASSUME NEW r \in Runs,
             \/ Begin(r) \/ quickCheck(r) \/ VacuumRefused(r) \/ SkipsRotation(r)
             \/ Breaks(r)
             \/ List(r, "main", "saved", "listed")
             \/ List(r, "second", "copied", "listedSecond")
      PROVE  BackupInv' /\ UNCHANGED copies
  BY <1>1, ReadingStep
  DEF Begin, quickCheck, VacuumRefused, SkipsRotation, Breaks, List
<1>2. ASSUME UNCHANGED copies PROVE LostOnlyToDamage
  BY <1>2 DEF LostOnlyToDamage, hasGood
<1>3. ASSUME NEW r \in Runs, VacuumInto(r) \/ VacuumBreaks(r)
      PROVE  BackupInv' /\ LostOnlyToDamage
  <2>1. \A d \in Days : /\ copies.main[d] = "good" => copies'.main[d] = "good"
                        /\ copies.second[d] = "good" => copies'.second[d] = "good"
    BY <1>3, VacuumStep
  <2> QED
    BY <1>3, <2>1, VacuumStep DEF LostOnlyToDamage, hasGood
<1>4. ASSUME NEW r \in Runs, CopyFile(r) \/ CopyBreaks(r)
      PROVE  BackupInv' /\ LostOnlyToDamage
  <2>1. \A d \in Days : /\ copies.main[d] = "good" => copies'.main[d] = "good"
                        /\ copies.second[d] = "good" => copies'.second[d] = "good"
    BY <1>4, CopyStep
  <2> QED
    BY <1>4, <2>1, CopyStep DEF LostOnlyToDamage, hasGood
<1>5. ASSUME NEW r \in Runs, RotateMain(r) \/ RotateSecond(r)
      PROVE  BackupInv' /\ LostOnlyToDamage
  <2> DEFINE day == run[r].day
  <2>1. /\ active(r) /\ owns(r) /\ run[r].clean /\ day \in Days /\ stamp <= day + 1
    BY <1>5 DEF RotateMain, RotateSecond, active, owns, BackupInv, RunsAreRecent,
                BackupTypeOK
  <2>2. /\ copies.main[day] \in {"good", "bad"}
        /\ RotateSecond(r) => copies.second[day] = copies.main[day]
    BY <1>5, <2>1 DEF RotateSecond, BackupInv, BackupTypeOK, FilesAreOwned, File
  <2>3. CASE RotateMain(r)
    <3>1. /\ BackupInv' /\ copies'.main[day] = copies.main[day]
          /\ copies'.second = copies.second
      BY <2>1, <2>3, UnlinkStep DEF RotateMain
    <3> QED
      BY <2>1, <2>2, <3>1 DEF LostOnlyToDamage, hasGood
  <2>4. CASE RotateSecond(r)
    <3>1. /\ BackupInv' /\ copies'.second[day] = copies.second[day]
          /\ copies'.main = copies.main
      BY <2>1, <2>4, UnlinkStep DEF RotateSecond
    <3> QED
      BY <2>1, <2>2, <2>4, <3>1 DEF LostOnlyToDamage, hasGood
  <2> QED
    BY <1>5, <2>3, <2>4
<1> QED
  BY <1>1, <1>2, <1>3, <1>4, <1>5, WorldStep DEF BackupNext

\* LastGoodCopyStays for every KEEP of two and more, any number of runs and days.
THEOREM GoodCopyStays == BackupSpec => LastGoodCopyStays
<1>1. BackupSpec => []BackupInv
  BY InitBackupInv, BackupStep, PTL DEF BackupSpec
<1> QED
  BY <1>1, BackupStep, PTL DEF BackupSpec, LastGoodCopyStays
=============================================================================
