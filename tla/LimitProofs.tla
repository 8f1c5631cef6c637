------------------------------ MODULE LimitProofs ------------------------------
(***************************************************************************)
(* What one client may ask for in a window, RateLimit, for every number of *)
(* requests at once, every set of limiters and every clock; and what may   *)
(* be sent in a day, SmsBudget, for every cap, every number of calls at    *)
(* once and any number of days.  At the end, all machines of MCLimits.     *)
(***************************************************************************)
EXTENDS MCLimits, OtpProofs, LoginProofs

-----------------------------------------------------------------------------
\* RateLimit.

\* The requests whose count is in the row.
counted == {r \in Requests : req[r].mine /\ req[r].phase \in {"counted", "serving"}}

\* A request is counted in the row only while it is decided or served, and a
\* client without a row has nothing counted.
MineIsCounted ==
  /\ \A r \in Requests : req[r].mine => req[r].phase \in {"counted", "serving"}
  /\ row = NoRow => /\ \A r \in Requests : ~req[r].mine
                    /\ spent = 0 /\ refused = 0 /\ strays = 0

\* Whoever was let through and did not give back is in the count, but for the
\* counts that were taken from the wrong row.
AdmittedAreCounted ==
  row # NoRow => Cardinality(counted) + spent <= row.count + strays

\* A request that was read for has the window_start an INSERT would store, and a
\* request that is served has that of the row it was counted in.
WindowsAreRight ==
  \A r \in Requests :
    /\ req[r].phase = "read" => req[r].window \in Nat
    /\ req[r].phase = "serving" /\ req[r].mine => req[r].window = row.window_start

RateInv ==
  RateTypeOK /\ MineIsCounted /\ WindowsAreRight /\ AdmittedAreCounted /\ SuccessIsFree

\* The requests in the row are finitely many.
LEMMA CountedIsFinite == IsFiniteSet(counted) /\ Cardinality(counted) \in Nat
<1>1. IsFiniteSet(counted)
  BY RateAssumption, FS_Subset DEF counted
<1> QED
  BY <1>1, FS_CardinalityType

\* Both ways to write the requests in the row name the same number.
LEMMA InFlightIsCounted == inFlight({"counted", "serving"}) = Cardinality(counted)
BY DEF inFlight, counted

\* An idle request is a request.
LEMMA IdleType ==
  /\ Idle \in [phase : Phase, lim : Limiters, window : Nat \cup {-1}, mine : BOOLEAN]
  /\ Idle.phase = "idle"
  /\ Idle.mine = FALSE
<1>1. (CHOOSE l \in Limiters : TRUE) \in Limiters
  BY RateAssumption
<1> QED
  BY <1>1 DEF Idle, Phase

\* A request that goes takes its count out of those in the row.
LEMMA LeavesTakesOne ==
  ASSUME RateTypeOK, MineIsCounted, NEW r \in Requests, req' = [req EXCEPT ![r] = Idle]
  PROVE  /\ req' \in [Requests -> [phase : Phase, lim : Limiters,
                                   window : Nat \cup {-1}, mine : BOOLEAN]]
         /\ \A q \in Requests : req'[q].mine => req[q].mine /\ req'[q] = req[q]
         /\ Cardinality(counted') \in Nat
         /\ Cardinality(counted') = IF req[r].mine THEN Cardinality(counted) - 1
                                    ELSE Cardinality(counted)
<1>1. req' \in [Requests -> [phase : Phase, lim : Limiters,
                             window : Nat \cup {-1}, mine : BOOLEAN]]
  BY IdleType DEF RateTypeOK
<1>2. \A q \in Requests : req'[q] = IF q = r THEN Idle ELSE req[q]
  BY DEF RateTypeOK
<1>3. \A q \in Requests : req'[q].mine => req[q].mine /\ req'[q] = req[q]
  BY <1>2, IdleType
<1>4. counted' = counted \ {r}
  BY <1>2, IdleType DEF counted
<1>5. r \in counted <=> req[r].mine
  BY DEF counted, MineIsCounted
<1>6. /\ IsFiniteSet(counted \ {r})
      /\ Cardinality(counted \ {r}) = IF r \in counted THEN Cardinality(counted) - 1
                                      ELSE Cardinality(counted)
  BY CountedIsFinite, FS_RemoveElement
<1>7. Cardinality(counted \ {r}) \in Nat
  BY <1>6, FS_CardinalityType
<1> QED
  BY <1>1, <1>3, <1>4, <1>5, <1>6, <1>7

\* At the start there is no row.
LEMMA InitRateInv == RateInit => RateInv
<1> SUFFICES ASSUME RateInit PROVE RateInv
  OBVIOUS
<1>1. row = NoRow /\ spent = 0 /\ refused = 0 /\ strays = 0 /\ now = 0
  BY DEF RateInit
<1>2. \A r \in Requests : req[r] = Idle
  BY DEF RateInit
<1>3. RateTypeOK
  BY <1>1, IdleType DEF RateInit, RateTypeOK
<1> QED
  BY <1>1, <1>2, <1>3, IdleType
     DEF RateInv, MineIsCounted, WindowsAreRight, AdmittedAreCounted, SuccessIsFree

\* The first read changes no count.
LEMMA ArriveKeepsInv ==
  ASSUME RateInv, NEW r \in Requests, NEW l \in Limiters, Arrive(r, l)
  PROVE  RateInv'
<1>1. RateTypeOK /\ MineIsCounted
  BY DEF RateInv
<1>2. /\ now' = now /\ row' = row /\ spent' = spent
      /\ refused' = refused /\ strays' = strays
      /\ req[r].phase = "idle"
  BY DEF Arrive
<1> DEFINE w == IF row = NoRow THEN now
                ELSE IF windowOver(l) THEN now ELSE row.window_start
           new == [phase |-> "read", lim |-> l, mine |-> FALSE, window |-> w]
<1>3. req' = [req EXCEPT ![r] = new]
  BY DEF Arrive
<1>4. w \in Nat
  BY <1>1 DEF RateTypeOK
<1>5. new \in [phase : Phase, lim : Limiters, window : Nat \cup {-1}, mine : BOOLEAN]
  BY <1>4 DEF Phase
<1>6. new.mine = FALSE /\ new.window \in Nat
  BY <1>4
<1> HIDE DEF w, new
<1>7. \A q \in Requests : req'[q] = IF q = r THEN new ELSE req[q]
  BY <1>1, <1>3 DEF RateTypeOK
<1>8. counted' = counted
  BY <1>2, <1>6, <1>7 DEF counted
<1>9. RateTypeOK'
  BY <1>1, <1>2, <1>3, <1>5 DEF RateTypeOK
<1>10. MineIsCounted'
  BY <1>1, <1>2, <1>6, <1>7 DEF MineIsCounted
<1>11. inFlight({"counted", "serving"})' = inFlight({"counted", "serving"})
  BY <1>8, InFlightIsCounted DEF inFlight, counted
<1>12. WindowsAreRight'
  BY <1>2, <1>6, <1>7 DEF RateInv, WindowsAreRight
<1> QED
  BY <1>2, <1>8, <1>9, <1>10, <1>11, <1>12 DEF RateInv, AdmittedAreCounted, SuccessIsFree

\* The upsert and the count of one more request go together.
LEMMA CountKeepsInv ==
  ASSUME RateInv, NEW r \in Requests, Count(r)
  PROVE  RateInv'
<1>1. RateTypeOK /\ MineIsCounted
  BY DEF RateInv
<1>2. /\ now' = now /\ spent' = spent
      /\ refused' = refused /\ strays' = strays
      /\ req[r].phase = "read"
      /\ stmtUpsert(req[r].window)
      /\ req' = [req EXCEPT ![r].phase = "counted", ![r].mine = TRUE]
  BY DEF Count
<1>3. req[r].mine = FALSE /\ req[r].window \in Nat \cup {-1}
  BY <1>1, <1>2 DEF RateTypeOK, MineIsCounted
<1>4. \A q \in Requests : q # r => req'[q] = req[q]
  BY <1>1, <1>2 DEF RateTypeOK
<1>5. req'[r].phase = "counted" /\ req'[r].mine = TRUE
  BY <1>1, <1>2 DEF RateTypeOK
<1>6. counted' = counted \cup {r} /\ r \notin counted
  BY <1>3, <1>4, <1>5 DEF counted
<1>7. Cardinality(counted') = Cardinality(counted) + 1
  BY <1>6, CountedIsFinite, FS_AddElement
<1>8. inFlight({"counted", "serving"})' = Cardinality(counted')
  BY DEF inFlight, counted
<1>9. /\ row' \in [count : Nat, window_start : Nat]
      /\ row'.count = IF row = NoRow THEN 1 ELSE row.count + 1
      /\ row # NoRow => row'.window_start = row.window_start
  <2>1. CASE row = NoRow
    <3>1. req[r].window \in Nat
      BY <1>2 DEF RateInv, WindowsAreRight
    <3> QED
      BY <1>2, <2>1, <3>1 DEF stmtUpsert
  <2>2. CASE row # NoRow
    BY <1>1, <1>2, <2>2 DEF stmtUpsert, RateTypeOK
  <2> QED
    BY <2>1, <2>2
<1>10. row' # NoRow /\ MineIsCounted' /\ WindowsAreRight'
  <2>1. row' # NoRow
    BY <1>9, RateAssumption
  <2> QED
    BY <1>1, <1>4, <1>5, <1>9, <2>1 DEF RateInv, MineIsCounted, WindowsAreRight
<1>11. RateTypeOK'
  BY <1>1, <1>2, <1>9, ZenonT(30) DEF RateTypeOK, Phase
<1>12. row = NoRow => Cardinality(counted) = 0 /\ spent = 0 /\ refused = 0 /\ strays = 0
  <2> SUFFICES ASSUME row = NoRow PROVE Cardinality(counted) = 0
    BY <1>1 DEF MineIsCounted
  <2>1. counted = {}
    BY <1>1 DEF MineIsCounted, counted
  <2> QED
    BY <2>1, FS_EmptySet
<1>13. AdmittedAreCounted' /\ SuccessIsFree'
  BY <1>1, <1>2, <1>7, <1>8, <1>9, <1>10, <1>12, CountedIsFinite, InFlightIsCounted
     DEF RateInv, RateTypeOK, AdmittedAreCounted, SuccessIsFree
<1> QED
  BY <1>10, <1>11, <1>13 DEF RateInv

\* Letting a request through moves it, not the count.
LEMMA AdmitKeepsInv ==
  ASSUME RateInv, NEW r \in Requests, Admit(r)
  PROVE  RateInv' /\ counted' = counted
<1>1. RateTypeOK /\ MineIsCounted
  BY DEF RateInv
<1> DEFINE w == IF row = NoRow THEN -1 ELSE row.window_start
<1>2. /\ now' = now /\ row' = row /\ spent' = spent
      /\ refused' = refused /\ strays' = strays
      /\ req[r].phase = "counted"
      /\ req' = [req EXCEPT ![r].phase = "serving", ![r].window = w]
  BY DEF Admit
<1>3. w \in Nat \cup {-1} /\ (row # NoRow => w = row.window_start)
  BY <1>1 DEF RateTypeOK
<1> HIDE DEF w
<1>4. /\ \A q \in Requests : q # r => req'[q] = req[q]
      /\ req'[r].phase = "serving" /\ req'[r].mine = req[r].mine /\ req'[r].window = w
  BY <1>1, <1>2 DEF RateTypeOK
<1>5. counted' = counted
  BY <1>2, <1>4 DEF counted
<1>6. RateTypeOK'
  BY <1>1, <1>2, <1>3, ZenonT(30) DEF RateTypeOK, Phase
<1>7. MineIsCounted' /\ WindowsAreRight'
  BY <1>1, <1>2, <1>3, <1>4 DEF RateInv, MineIsCounted, WindowsAreRight
<1>8. inFlight({"counted", "serving"})' = inFlight({"counted", "serving"})
  BY <1>5, InFlightIsCounted DEF inFlight, counted
<1> QED
  BY <1>2, <1>5, <1>6, <1>7, <1>8 DEF RateInv, AdmittedAreCounted, SuccessIsFree

\* A request that goes and leaves its count moves it to those that were refused
\* or that keep it.
LEMMA LeavingKeepsInv ==
  ASSUME RateInv, NEW r \in Requests, req' = [req EXCEPT ![r] = Idle],
         now' = now, row' = row, strays' = strays,
         \/ /\ refused' = (IF req[r].mine THEN refused + 1 ELSE refused)
            /\ spent' = spent
         \/ /\ spent' = (IF req[r].mine THEN spent + 1 ELSE spent)
            /\ refused' = refused
  PROVE  RateInv'
<1>1. RateTypeOK /\ MineIsCounted
  BY DEF RateInv
<1>2. /\ req' \in [Requests -> [phase : Phase, lim : Limiters,
                                 window : Nat \cup {-1}, mine : BOOLEAN]]
      /\ \A q \in Requests : req'[q].mine => req[q].mine /\ req'[q] = req[q]
      /\ Cardinality(counted') \in Nat
      /\ Cardinality(counted') = IF req[r].mine THEN Cardinality(counted) - 1
                                 ELSE Cardinality(counted)
  BY <1>1, LeavesTakesOne
<1>3. RateTypeOK'
  BY <1>1, <1>2 DEF RateTypeOK
<1>4. MineIsCounted'
  BY <1>1, <1>2 DEF MineIsCounted
<1>5. WindowsAreRight'
  BY <1>1, IdleType DEF RateInv, WindowsAreRight, RateTypeOK
<1>6. inFlight({"counted", "serving"})' = Cardinality(counted')
  BY DEF inFlight, counted
<1>7. AdmittedAreCounted' /\ SuccessIsFree'
  BY <1>1, <1>2, <1>6, CountedIsFinite, InFlightIsCounted
     DEF RateInv, RateTypeOK, AdmittedAreCounted, SuccessIsFree
<1> QED
  BY <1>3, <1>4, <1>5, <1>7 DEF RateInv

\* A success takes its count out of the row it was counted in, or is a stray.
LEMMA GiveBackKeepsInv ==
  ASSUME RateInv, NEW r \in Requests, GivesBack(r)
  PROVE  RateInv'
<1>1. RateTypeOK /\ MineIsCounted
  BY DEF RateInv
<1>2. /\ now' = now /\ spent' = spent /\ refused' = refused
      /\ req' = [req EXCEPT ![r] = Idle]
      /\ stmtGiveBack(req[r].window)
      /\ strays' = IF row' # row /\ ~req[r].mine THEN strays + 1 ELSE strays
  BY DEF GivesBack
<1>3. /\ req' \in [Requests -> [phase : Phase, lim : Limiters,
                                 window : Nat \cup {-1}, mine : BOOLEAN]]
      /\ \A q \in Requests : req'[q].mine => req[q].mine /\ req'[q] = req[q]
      /\ Cardinality(counted') \in Nat
      /\ Cardinality(counted') = IF req[r].mine THEN Cardinality(counted) - 1
                                 ELSE Cardinality(counted)
  BY <1>1, <1>2, LeavesTakesOne
<1>4. row # NoRow => row \in [count : Nat, window_start : Nat]
  BY <1>1 DEF RateTypeOK
<1>5. \/ row' = row
      \/ /\ row # NoRow /\ row.count > 0
         /\ row' = [row EXCEPT !.count = @ - 1]
  BY <1>2 DEF stmtGiveBack
<1>6. /\ row # NoRow => row' \in [count : Nat, window_start : Nat] /\ row' # NoRow
      /\ row # NoRow => row'.window_start = row.window_start
      /\ row = NoRow => row' = NoRow
  BY <1>4, <1>5, RateAssumption
<1>7. RateTypeOK'
  BY <1>1, <1>2, <1>3, <1>6 DEF RateTypeOK
<1>8. MineIsCounted'
  <2>1. row' = NoRow => row = NoRow /\ row' = row
    BY <1>5, <1>6
  <2> QED
    BY <1>1, <1>2, <1>3, <2>1 DEF MineIsCounted
<1>9. WindowsAreRight'
  <2> SUFFICES ASSUME NEW q \in Requests PROVE WindowsAreRight!(q)'
    BY DEF WindowsAreRight
  <2>1. CASE q = r
    BY <1>1, <1>2, <2>1, IdleType DEF RateTypeOK
  <2>2. CASE q # r
    <3>1. req'[q] = req[q]
      BY <1>1, <1>2, <2>2 DEF RateTypeOK
    <3>2. req[q].mine => row # NoRow
      BY <1>1 DEF MineIsCounted
    <3> QED
      BY <1>6, <3>1, <3>2 DEF RateInv, WindowsAreRight
  <2> QED
    BY <2>1, <2>2
<1>10. inFlight({"counted", "serving"})' = Cardinality(counted')
  BY DEF inFlight, counted
<1>11. AdmittedAreCounted' /\ SuccessIsFree'
  <2> SUFFICES ASSUME row # NoRow
               PROVE  /\ Cardinality(counted') + spent' <= row'.count + strays'
                      /\ row'.count <= Cardinality(counted') + spent' + refused'
    BY <1>6, <1>10 DEF AdmittedAreCounted, SuccessIsFree
  <2>1. /\ Cardinality(counted) + spent <= row.count + strays
        /\ row.count <= Cardinality(counted) + spent + refused
    BY InFlightIsCounted DEF RateInv, AdmittedAreCounted, SuccessIsFree
  <2>2. /\ row.count \in Nat /\ spent \in Nat /\ refused \in Nat /\ strays \in Nat
        /\ Cardinality(counted) \in Nat
    BY <1>1, <1>4, CountedIsFinite DEF RateTypeOK
  <2>3. CASE row' # row
    <3>1. row'.count = row.count - 1
      BY <1>4, <1>5, <2>3
    <3> QED
      BY <1>2, <1>3, <2>1, <2>2, <2>3, <3>1
  <2>4. CASE row' = row
    <3>1. req[r].mine => row.count = 0
      <4> SUFFICES ASSUME req[r].mine PROVE ~(row.count > 0)
        BY <2>2
      <4>1. row.window_start = req[r].window
        BY DEF GivesBack, RateInv, WindowsAreRight
      <4>2. row.count > 0 => row' = [row EXCEPT !.count = @ - 1]
        BY <1>2, <4>1 DEF stmtGiveBack
      <4> QED
        BY <1>4, <2>2, <2>4, <4>2
    <3> QED
      BY <1>2, <1>3, <2>1, <2>2, <2>4, <3>1
  <2> QED
    BY <2>3, <2>4
<1> QED
  BY <1>7, <1>8, <1>9, <1>11 DEF RateInv

\* With the row goes everything that was counted in it.
LEMMA CleanupKeepsInv ==
  ASSUME RateInv, NEW l \in Limiters, stmtCleanup(l)
  PROVE  RateInv'
<1>1. RateTypeOK
  BY DEF RateInv
<1>2. /\ now' = now /\ row' = NoRow /\ spent' = 0 /\ refused' = 0 /\ strays' = 0
      /\ req' = [r \in Requests |-> [req[r] EXCEPT !.mine = FALSE]]
  BY DEF stmtCleanup
<1>3. \A r \in Requests : /\ req'[r].mine = FALSE
                          /\ req'[r].phase = req[r].phase
                          /\ req'[r].window = req[r].window
  BY <1>1, <1>2 DEF RateTypeOK
<1>4. RateTypeOK'
  BY <1>1, <1>2 DEF RateTypeOK
<1>5. MineIsCounted' /\ WindowsAreRight'
  BY <1>2, <1>3 DEF RateInv, MineIsCounted, WindowsAreRight
<1> QED
  BY <1>2, <1>4, <1>5 DEF RateInv, AdmittedAreCounted, SuccessIsFree

\* Every step keeps the invariant.
LEMMA StepKeepsRateInv == RateInv /\ [RateNext]_rateVars => RateInv'
<1> SUFFICES ASSUME RateInv, [RateNext]_rateVars PROVE RateInv'
  OBVIOUS
<1>1. ASSUME NEW r \in Requests, NEW l \in Limiters, Arrive(r, l) PROVE RateInv'
  BY <1>1, ArriveKeepsInv
<1>2. ASSUME NEW r \in Requests, Count(r) PROVE RateInv'
  BY <1>2, CountKeepsInv
<1>3. ASSUME NEW r \in Requests, Admit(r) PROVE RateInv'
  BY <1>3, AdmitKeepsInv
<1>4. ASSUME NEW r \in Requests, Refuse(r) \/ Degrade(r) \/ KeepsCount(r) PROVE RateInv'
  <2>1. /\ req' = [req EXCEPT ![r] = Idle]
        /\ now' = now /\ row' = row /\ strays' = strays
        /\ \/ /\ refused' = (IF req[r].mine THEN refused + 1 ELSE refused)
              /\ spent' = spent
           \/ /\ spent' = (IF req[r].mine THEN spent + 1 ELSE spent)
              /\ refused' = refused
    BY <1>4 DEF Refuse, Degrade, KeepsCount
  <2> QED
    BY <2>1, LeavingKeepsInv
<1>5. ASSUME NEW r \in Requests, GivesBack(r) PROVE RateInv'
  BY <1>5, GiveBackKeepsInv
<1>6. ASSUME NEW l \in Limiters, stmtCleanup(l) PROVE RateInv'
  BY <1>6, CleanupKeepsInv
<1>7. CASE Tick
  <2>1. /\ now' = now + 1 /\ row' = row /\ req' = req /\ spent' = spent
        /\ refused' = refused /\ strays' = strays
    BY <1>7 DEF Tick
  <2> QED
    BY <2>1 DEF RateInv, RateTypeOK, MineIsCounted, WindowsAreRight,
                AdmittedAreCounted, SuccessIsFree, counted, inFlight
<1>8. CASE UNCHANGED rateVars
  BY <1>8 DEF rateVars, RateInv, RateTypeOK, MineIsCounted, WindowsAreRight,
              AdmittedAreCounted, SuccessIsFree, counted, inFlight
<1> QED
  BY <1>1, <1>2, <1>3, <1>4, <1>5, <1>6, <1>7, <1>8 DEF RateNext

\* The counter and the requests add up at all times.
THEOREM RateInvariant == RateSpec => []RateInv
BY InitRateInv, StepKeepsRateInv, PTL DEF RateSpec

\* Every count in the row belongs to a request under way, to one that kept it, or
\* to a refused one: with skipSuccess a success costs nothing.
THEOREM SuccessStaysFree == RateSpec => []SuccessIsFree
<1>1. RateInv => SuccessIsFree
  BY DEF RateInv
<1> QED
  BY <1>1, RateInvariant, PTL

\* A limiter never lets more requests through a row than its max, however many
\* workers count at once.
THEOREM NeverAdmitsTooMany == RateSpec => AdmitsWithinMax
<1> DEFINE Good == \A r \in Requests :
                     Admit(r) /\ req[r].mine
                       => inFlight({"serving"})' + spent <= max[req[r].lim] + strays
<1>1. RateInv /\ [RateNext]_rateVars => [Good]_rateVars
  <2> SUFFICES ASSUME RateInv, NEW r \in Requests, Admit(r), req[r].mine
               PROVE  inFlight({"serving"})' + spent <= max[req[r].lim] + strays
    OBVIOUS
  <2>1. RateTypeOK /\ row # NoRow
    BY DEF RateInv, MineIsCounted
  <2>2. row.count \in Nat /\ row.count <= max[req[r].lim] /\ max[req[r].lim] \in Nat
    BY <2>1, RateAssumption DEF Admit, seen, RateTypeOK
  <2>3. Cardinality(counted) + spent <= row.count + strays
    BY <2>1 DEF RateInv, AdmittedAreCounted
  <2> DEFINE served == {q \in Requests : req'[q].mine /\ req'[q].phase \in {"serving"}}
  <2>4. served \subseteq counted
    <3>1. served \subseteq counted'
      BY DEF counted
    <3> QED
      BY <3>1, AdmitKeepsInv
  <2>5. Cardinality(served) <= Cardinality(counted) /\ Cardinality(served) \in Nat
    BY <2>4, CountedIsFinite, FS_Subset, FS_CardinalityType
  <2>6. inFlight({"serving"})' = Cardinality(served)
    BY DEF inFlight
  <2> QED
    BY <2>1, <2>2, <2>3, <2>5, <2>6, CountedIsFinite DEF RateTypeOK
<1> QED
  BY <1>1, RateInvariant, PTL DEF RateSpec, AdmitsWithinMax

-----------------------------------------------------------------------------
\* SmsBudget.

\* The counter never passes the cap.
CounterWithinCap == getSmsCount <= SMS_DAILY_CAP

\* Every slot that was used or is in use is in the counter, but for the slots
\* that were given back by mistake.
SlotsAreCounted == charged + underWay <= getSmsCount + misjudged

SmsInv == SmsTypeOK /\ CounterWithinCap /\ SlotsAreCounted /\ FailuresAreFree

holders == {s \in Senders : sending[s] = today}

\* The number of calls that hold a slot of today is a number.
LEMMA UnderWayIsNat == IsFiniteSet(holders) /\ underWay \in Nat
<1>1. IsFiniteSet(holders)
  BY SmsAssumption, FS_Subset DEF holders
<1> QED
  BY <1>1, FS_CardinalityType DEF holders, underWay

\* The slots of today are a number.
LEMMA CountIsNat == ASSUME SmsTypeOK PROVE getSmsCount \in Nat
BY DEF SmsTypeOK, getSmsCount

\* A call that ends is no longer under way.
LEMMA EndsTakesOne ==
  ASSUME SmsTypeOK, NEW s \in Senders, NEW out \in BOOLEAN, ends(s, out), today' = today
  PROVE  /\ sending' \in [Senders -> 0..today']
         /\ charged' \in Nat
         /\ underWay' \in Nat
         /\ underWay' = IF sending[s] = today THEN underWay - 1 ELSE underWay
         /\ charged' = IF out /\ sending[s] = today THEN charged + 1 ELSE charged
<1>1. sending \in [Senders -> 0..today] /\ today \in Nat \ {0} /\ charged \in Nat
  BY DEF SmsTypeOK
<1>2. sending' = [sending EXCEPT ![s] = 0]
  BY DEF ends
<1>3. charged' = IF out /\ sending[s] = today THEN charged + 1 ELSE charged
  BY DEF ends
<1>4. holders' = holders \ {s}
  BY <1>1, <1>2 DEF holders
<1>5. Cardinality(holders \ {s}) =
        IF s \in holders THEN Cardinality(holders) - 1 ELSE Cardinality(holders)
  BY UnderWayIsNat, FS_RemoveElement
<1>6. s \in holders <=> sending[s] = today
  BY DEF holders
<1>7. underWay' = Cardinality(holders') /\ underWay = Cardinality(holders)
  BY DEF underWay, holders
<1>8. underWay' = IF sending[s] = today THEN underWay - 1 ELSE underWay
  BY <1>4, <1>5, <1>6, <1>7
<1>9. sending' \in [Senders -> 0..today'] /\ charged' \in Nat
  BY <1>1, <1>2, <1>3
<1>10. underWay' \in Nat
  BY <1>4, <1>7, UnderWayIsNat, FS_RemoveElement, FS_CardinalityType
<1> QED
  BY <1>3, <1>8, <1>9, <1>10

\* Nothing is counted and nothing under way at the start.
LEMMA InitSmsInv == SmsInit => SmsInv
<1> SUFFICES ASSUME SmsInit PROVE SmsInv
  OBVIOUS
<1>1. SmsTypeOK
  BY DEF SmsInit, SmsTypeOK
<1>2. getSmsCount = 0
  BY DEF SmsInit, getSmsCount
<1>3. underWay = 0
  <2>1. {s \in Senders : sending[s] = today} = {}
    BY DEF SmsInit
  <2> QED
    BY <2>1, FS_EmptySet DEF underWay
<1>4. charged = 0 /\ misjudged = 0 /\ lost = 0
  BY DEF SmsInit
<1> QED
  BY <1>1, <1>2, <1>3, <1>4, SmsAssumption
     DEF SmsInv, CounterWithinCap, SlotsAreCounted, FailuresAreFree

\* A reservation takes one slot for one more call.
LEMMA ReserveKeepsInv ==
  ASSUME SmsInv, NEW s \in Senders, sendOtpSms(s)
  PROVE  SmsInv'
<1>1. SmsTypeOK /\ getSmsCount \in Nat /\ underWay \in Nat
  BY CountIsNat, UnderWayIsNat DEF SmsInv
<1>2. /\ today' = today /\ charged' = charged
      /\ misjudged' = misjudged /\ lost' = lost
  BY DEF sendOtpSms
<1>3. /\ getSmsCount < SMS_DAILY_CAP
      /\ sms_counter' = [d |-> today, n |-> getSmsCount + 1]
  BY DEF sendOtpSms, reserveSmsSlot
<1>4. sending[s] = 0 /\ sending' = [sending EXCEPT ![s] = today]
  BY DEF sendOtpSms
<1>5. getSmsCount' = getSmsCount + 1
  <2>1. sms_counter'.d = today' /\ sms_counter'.n = getSmsCount + 1
    BY <1>2, <1>3
  <2> QED
    BY <2>1 DEF getSmsCount
<1>6. underWay' = underWay + 1
  <2>1. holders' = holders \cup {s} /\ s \notin holders
    BY <1>1, <1>2, <1>4 DEF holders, SmsTypeOK
  <2>2. Cardinality(holders \cup {s}) = Cardinality(holders) + 1
    BY <2>1, UnderWayIsNat, FS_AddElement
  <2> QED
    BY <2>1, <2>2 DEF underWay, holders
<1>7. SmsTypeOK'
  BY <1>1, <1>2, <1>3, <1>4 DEF SmsTypeOK
<1>8. CounterWithinCap' /\ SlotsAreCounted' /\ FailuresAreFree'
  BY <1>1, <1>2, <1>3, <1>5, <1>6, SmsAssumption
     DEF SmsInv, SmsTypeOK, CounterWithinCap, SlotsAreCounted, FailuresAreFree
<1> QED
  BY <1>7, <1>8 DEF SmsInv

\* A message that went out keeps its slot.
LEMMA SentKeepsInv ==
  ASSUME SmsInv, NEW s \in Senders, Sent(s)
  PROVE  SmsInv'
<1>1. SmsTypeOK /\ getSmsCount \in Nat /\ underWay \in Nat
  BY CountIsNat, UnderWayIsNat DEF SmsInv
<1>2. /\ today' = today /\ sms_counter' = sms_counter
      /\ misjudged' = misjudged /\ lost' = lost
      /\ ends(s, TRUE)
  BY DEF Sent
<1>3. /\ sending' \in [Senders -> 0..today'] /\ charged' \in Nat
      /\ underWay' \in Nat
      /\ underWay' = IF sending[s] = today THEN underWay - 1 ELSE underWay
      /\ charged' = IF sending[s] = today THEN charged + 1 ELSE charged
  BY <1>1, <1>2, EndsTakesOne
<1>4. getSmsCount' = getSmsCount
  BY <1>2 DEF getSmsCount
<1>5. SmsTypeOK'
  BY <1>1, <1>2, <1>3 DEF SmsTypeOK
<1>6. CounterWithinCap' /\ SlotsAreCounted' /\ FailuresAreFree'
  BY <1>1, <1>2, <1>3, <1>4, SmsAssumption
     DEF SmsInv, SmsTypeOK, CounterWithinCap, SlotsAreCounted, FailuresAreFree
<1> QED
  BY <1>5, <1>6 DEF SmsInv

\* A failure gives a slot of today back; if it was not the call's own or not
\* free, that is recorded.
LEMMA FailKeepsInv ==
  ASSUME SmsInv, NEW s \in Senders, NEW out \in BOOLEAN, SendFails(s, out)
  PROVE  SmsInv'
<1>1. SmsTypeOK /\ getSmsCount \in Nat /\ underWay \in Nat
  BY CountIsNat, UnderWayIsNat DEF SmsInv
<1>2. /\ today' = today /\ lost' = lost
      /\ ends(s, out) /\ releaseSmsSlot
      /\ misjudged' = IF getSmsCount > 0 /\ (out \/ sending[s] # today)
                      THEN misjudged + 1 ELSE misjudged
  BY DEF SendFails
<1>3. /\ sending' \in [Senders -> 0..today'] /\ charged' \in Nat
      /\ underWay' \in Nat
      /\ underWay' = IF sending[s] = today THEN underWay - 1 ELSE underWay
      /\ charged' = IF out /\ sending[s] = today THEN charged + 1 ELSE charged
  BY <1>1, <1>2, EndsTakesOne
<1>4. /\ sms_counter' \in [d : 0..today, n : Nat]
      /\ getSmsCount' = IF getSmsCount > 0 THEN getSmsCount - 1 ELSE getSmsCount
  <2>1. CASE getSmsCount > 0
    <3>1. sms_counter.d = today /\ sms_counter.n = getSmsCount
      BY <2>1 DEF getSmsCount
    <3>2. sms_counter' = [sms_counter EXCEPT !.n = @ - 1]
      BY <2>1, <1>2 DEF releaseSmsSlot
    <3> QED
      BY <1>1, <1>2, <2>1, <3>1, <3>2 DEF getSmsCount, SmsTypeOK
  <2>2. CASE ~(getSmsCount > 0)
    BY <1>1, <1>2, <2>2 DEF releaseSmsSlot, getSmsCount, SmsTypeOK
  <2> QED
    BY <2>1, <2>2
<1>5. SmsTypeOK'
  BY <1>1, <1>2, <1>3, <1>4 DEF SmsTypeOK
<1>6. CounterWithinCap' /\ SlotsAreCounted' /\ FailuresAreFree'
  BY <1>1, <1>2, <1>3, <1>4, SmsAssumption
     DEF SmsInv, SmsTypeOK, CounterWithinCap, SlotsAreCounted, FailuresAreFree
<1> QED
  BY <1>5, <1>6 DEF SmsInv

\* A call that dies with its worker keeps its slot.
LEMMA DeathKeepsInv ==
  ASSUME SmsInv, NEW s \in Senders, NEW out \in BOOLEAN, WorkerDies(s, out)
  PROVE  SmsInv'
<1>1. SmsTypeOK /\ getSmsCount \in Nat /\ underWay \in Nat
  BY CountIsNat, UnderWayIsNat DEF SmsInv
<1>2. /\ today' = today /\ sms_counter' = sms_counter
      /\ misjudged' = misjudged
      /\ lost' = IF ~out /\ sending[s] = today THEN lost + 1 ELSE lost
      /\ ends(s, out)
  BY DEF WorkerDies
<1>3. /\ sending' \in [Senders -> 0..today'] /\ charged' \in Nat
      /\ underWay' \in Nat
      /\ underWay' = IF sending[s] = today THEN underWay - 1 ELSE underWay
      /\ charged' = IF out /\ sending[s] = today THEN charged + 1 ELSE charged
  BY <1>1, <1>2, EndsTakesOne
<1>4. getSmsCount' = getSmsCount
  BY <1>2 DEF getSmsCount
<1>5. SmsTypeOK'
  BY <1>1, <1>2, <1>3 DEF SmsTypeOK
<1>6. CounterWithinCap' /\ SlotsAreCounted' /\ FailuresAreFree'
  BY <1>1, <1>2, <1>3, <1>4, SmsAssumption
     DEF SmsInv, SmsTypeOK, CounterWithinCap, SlotsAreCounted, FailuresAreFree
<1> QED
  BY <1>5, <1>6 DEF SmsInv

\* After midnight the counter and every call under way are of an earlier day.
LEMMA MidnightKeepsInv ==
  ASSUME SmsInv, Midnight
  PROVE  SmsInv'
<1>1. SmsTypeOK
  BY DEF SmsInv
<1>2. /\ today' = today + 1 /\ sms_counter' = sms_counter /\ sending' = sending
      /\ charged' = 0 /\ misjudged' = 0 /\ lost' = 0
  BY DEF Midnight
<1>3. SmsTypeOK'
  BY <1>1, <1>2 DEF SmsTypeOK
<1>4. getSmsCount' = 0
  BY <1>1, <1>2 DEF getSmsCount, SmsTypeOK
<1>5. underWay' = 0
  <2>1. {s \in Senders : sending'[s] = today'} = {}
    BY <1>1, <1>2 DEF SmsTypeOK
  <2> QED
    BY <2>1, FS_EmptySet DEF underWay
<1> QED
  BY <1>2, <1>3, <1>4, <1>5, SmsAssumption
     DEF SmsInv, CounterWithinCap, SlotsAreCounted, FailuresAreFree

\* Every step keeps the invariant.
LEMMA StepKeepsSmsInv == SmsInv /\ [SmsNext]_smsVars => SmsInv'
<1> SUFFICES ASSUME SmsInv, [SmsNext]_smsVars PROVE SmsInv'
  OBVIOUS
<1>1. ASSUME NEW s \in Senders, sendOtpSms(s) PROVE SmsInv'
  BY <1>1, ReserveKeepsInv
<1>2. ASSUME NEW s \in Senders, Sent(s) PROVE SmsInv'
  BY <1>2, SentKeepsInv
<1>3. ASSUME NEW s \in Senders, NEW out \in BOOLEAN, SendFails(s, out) PROVE SmsInv'
  BY <1>3, FailKeepsInv
<1>4. ASSUME NEW s \in Senders, NEW out \in BOOLEAN, WorkerDies(s, out) PROVE SmsInv'
  BY <1>4, DeathKeepsInv
<1>5. CASE Midnight
  BY <1>5, MidnightKeepsInv
<1>6. CASE UNCHANGED smsVars
  BY <1>6 DEF smsVars, SmsInv, SmsTypeOK, CounterWithinCap, SlotsAreCounted,
              FailuresAreFree, getSmsCount, underWay
<1> QED
  BY <1>1, <1>2, <1>3, <1>4, <1>5, <1>6 DEF SmsNext

\* The counter and the slots in use and in error always add up.
THEOREM SmsInvariant == SmsSpec => []SmsInv
BY InitSmsInv, StepKeepsSmsInv, PTL DEF SmsSpec

\* The bill of a day stays within the cap, but for slots given back by mistake
\* (a failure of yesterday's send, a timeout after delivery).
THEOREM BillStaysWithinCap == SmsSpec => []BillWithinCap
<1>1. SmsInv => BillWithinCap
  <2> SUFFICES ASSUME SmsInv PROVE BillWithinCap
    OBVIOUS
  <2>1. getSmsCount \in Nat /\ underWay \in Nat
    BY CountIsNat, UnderWayIsNat DEF SmsInv
  <2> QED
    BY <2>1, SmsAssumption
       DEF SmsInv, SmsTypeOK, CounterWithinCap, SlotsAreCounted, BillWithinCap
<1> QED
  BY <1>1, SmsInvariant, PTL

\* A failed send never uses up the day.
THEOREM FailuresStayFree == SmsSpec => []FailuresAreFree
<1>1. SmsInv => FailuresAreFree
  BY DEF SmsInv
<1> QED
  BY <1>1, SmsInvariant, PTL

-----------------------------------------------------------------------------
\* All of them side by side.

\* MCLimits moves one machine at a time: each of them behaves as it does alone.
THEOREM LimitsRunMachines ==
  LimitsSpec => /\ RateSpec /\ OtpSpec /\ SmsSpec /\ GuardSpec /\ FactorSpec /\ BackupSpec
<1>1. LimitsInit => /\ RateInit /\ OtpInit /\ SmsInit /\ GuardInit /\ FactorInit /\ BackupInit
  BY DEF LimitsInit
<1> DEFINE all == <<subject, rateVars, otpVars, smsVars, guardVars, factorVars, backupVars>>
<1>2. [LimitsNext]_all => /\ [RateNext]_rateVars /\ [OtpNext]_otpVars /\ [SmsNext]_smsVars
                          /\ [GuardNext]_guardVars /\ [FactorNext]_factorVars
                          /\ [BackupNext]_backupVars
  BY DEF LimitsNext
<1> QED
  BY <1>1, <1>2, PTL DEF LimitsSpec, RateSpec, OtpSpec, SmsSpec, GuardSpec, FactorSpec, BackupSpec

\* Side by side, every machine keeps the bounds that it keeps alone.
THEOREM LimitsAreSafe ==
  LimitsSpec => /\ []SuccessIsFree /\ []GuessesAreFew /\ []LoginsOfACode /\ []DayCountHolds
                /\ []BillWithinCap /\ []FailuresAreFree /\ []LockHolds /\ []CodeWorksOnce
                /\ AdmitsWithinMax /\ LastGoodCopyStays
  BY LimitsRunMachines, SuccessStaysFree, GuessesStayFew, LoginsStayFew, DayCountStaysBounded,
     BillStaysWithinCap, FailuresStayFree, LockStands, NoCodeTwice, NeverAdmitsTooMany,
     GoodCopyStays
=============================================================================
