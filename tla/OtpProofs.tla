------------------------------- MODULE OtpProofs -------------------------------
(***************************************************************************)
(* OtpCode for every number of workers, codes and attempts.                *)
(***************************************************************************)
EXTENDS OtpCode, FiniteSetTheorems, TLAPS

N == Cardinality(Workers)

\* The row holds the watched code.
currentRow == otp_codes # NoCode /\ otp_codes.code = Watched

\* The workers that may still compare the watched code, and those of them that
\* have counted their attempt.
live == {w \in Workers : /\ handler[w].at \in {"read", "counted"}
                         /\ handler[w].code = Watched
                         /\ withinAttempts(w)}
pend == {w \in live : handler[w].at = "counted"}

\* The workers that will send a code for the day d.
askers(d) == {w \in Workers : handler[w].at = "asked" /\ handler[w].date = d}

\* A code that was not sent is nowhere.
UnsentIsUnused ==
  Watched \notin issued
    => /\ compared = 0 /\ logins = 0 /\ ~currentRow
       /\ \A w \in Workers : handler[w].code # Watched

\* While the code is in the row nobody has logged in with it, and every
\* comparison was counted in the row before.
CountedBeforeCompared ==
  currentRow => logins = 0 /\ compared + Cardinality(pend) <= otp_codes.attempts

\* Those who may still compare are included in the bound.
GuessesToCome == compared + Cardinality(live) <= MAX_ATTEMPTS - 1 + N

LoginsToCome == logins + Cardinality(live) <= N

\* Those who will send on the row's day are included in the bound.
MessagesToCome ==
  otp_codes # NoCode
    => otp_codes.sent_today + Cardinality(askers(otp_codes.sent_day))
         <= MAX_SMS_PER_PHONE_PER_DAY - 1 + N

OtpInv ==
  /\ OtpTypeOK
  /\ UnsentIsUnused
  /\ CountedBeforeCompared
  /\ GuessesToCome
  /\ LoginsToCome
  /\ MessagesToCome

-----------------------------------------------------------------------------

\* A set of workers has at most as many members as there are workers; to take one
\* out or to put one in changes the number by at most one.
LEMMA WorkersAreCounted ==
  ASSUME NEW S \in SUBSET Workers
  PROVE  /\ N \in Nat
         /\ Cardinality(S) \in Nat
         /\ Cardinality(S) <= N
         /\ \A w : /\ Cardinality(S \ {w}) \in Nat
                   /\ Cardinality(S \ {w}) =
                        IF w \in S THEN Cardinality(S) - 1 ELSE Cardinality(S)
<1>1. IsFiniteSet(Workers)
  BY OtpAssumption
<1>2. IsFiniteSet(S) /\ Cardinality(S) <= N
  BY <1>1, FS_Subset DEF N
<1>3. N \in Nat /\ Cardinality(S) \in Nat
  BY <1>1, <1>2, FS_CardinalityType DEF N
<1>4. ASSUME NEW w
      PROVE  /\ Cardinality(S \ {w}) \in Nat
             /\ Cardinality(S \ {w}) =
                  IF w \in S THEN Cardinality(S) - 1 ELSE Cardinality(S)
  BY <1>2, FS_RemoveElement, FS_CardinalityType
<1> QED
  BY <1>2, <1>3, <1>4

\* A worker at rest is in a possible state.
LEMMA AtRestType == /\ AtRest \in Handler
                    /\ AtRest.at = "rest" /\ AtRest.code = NoCode
                    /\ AtRest.code # Watched
BY OtpAssumption DEF AtRest, Handler

\* A worker that is done takes itself out of all sets.
LEMMA DoneTakesOne ==
  ASSUME OtpTypeOK, NEW w \in Workers, handler' = [handler EXCEPT ![w] = AtRest]
  PROVE  /\ handler' \in [Workers -> Handler]
         /\ live' = live \ {w}
         /\ pend' = pend \ {w}
         /\ \A d : askers(d)' = askers(d) \ {w}
         /\ \A v \in Workers : handler'[v].code = Watched => handler[v].code = Watched
<1>1. handler' \in [Workers -> Handler]
  BY AtRestType DEF OtpTypeOK
<1>2. \A v \in Workers : handler'[v] = IF v = w THEN AtRest ELSE handler[v]
  BY DEF OtpTypeOK
<1>3. live' = live \ {w}
  BY <1>2, AtRestType DEF live, withinAttempts
<1>4. pend' = pend \ {w}
  BY <1>2, <1>3, AtRestType DEF pend
<1>5. \A d : askers(d)' = askers(d) \ {w}
  BY <1>2, AtRestType DEF askers
<1>6. \A v \in Workers : handler'[v].code = Watched => handler[v].code = Watched
  BY <1>2, AtRestType
<1> QED
  BY <1>1, <1>3, <1>4, <1>5, <1>6

\* Nothing was sent at the start.
LEMMA InitOtpInv == OtpInit => OtpInv
<1> SUFFICES ASSUME OtpInit PROVE OtpInv
  OBVIOUS
<1>1. \A w \in Workers : handler[w] = AtRest
  BY DEF OtpInit
<1>2. OtpTypeOK
  BY AtRestType DEF OtpInit, OtpTypeOK
<1>3. live = {} /\ Cardinality(live) = 0
  BY <1>1, AtRestType, FS_EmptySet DEF live
<1>4. otp_codes = NoCode /\ compared = 0 /\ logins = 0
  BY DEF OtpInit
<1>5. N \in Nat
  BY WorkersAreCounted
<1> QED
  BY <1>1, <1>2, <1>3, <1>4, <1>5, AtRestType, OtpAssumption
     DEF OtpInv, UnsentIsUnused, CountedBeforeCompared, GuessesToCome, LoginsToCome,
         MessagesToCome, currentRow

\* A handler that stops, or that ends by deleting the row, compares and sends
\* nothing more.
LEMMA EndKeepsInv ==
  ASSUME OtpInv, NEW w \in Workers,
         handler' = [handler EXCEPT ![w] = AtRest],
         otp_codes' = otp_codes \/ otp_codes' = NoCode,
         clock' = clock, day' = day, issued' = issued,
         compared' = compared, logins' = logins
  PROVE  OtpInv'
<1>1. OtpTypeOK
  BY DEF OtpInv
<1>2. /\ handler' \in [Workers -> Handler]
      /\ live' = live \ {w} /\ pend' = pend \ {w}
      /\ \A d : askers(d)' = askers(d) \ {w}
      /\ \A v \in Workers : handler'[v].code = Watched => handler[v].code = Watched
  BY <1>1, DoneTakesOne
<1>3. OtpTypeOK'
  BY <1>1, <1>2 DEF OtpTypeOK
<1>4. currentRow' => currentRow /\ otp_codes' = otp_codes
  BY DEF currentRow
<1>5. UnsentIsUnused'
  BY <1>2, <1>4 DEF OtpInv, UnsentIsUnused
<1>6. /\ live \in SUBSET Workers /\ pend \in SUBSET Workers
      /\ \A d : askers(d) \in SUBSET Workers
  BY DEF live, pend, askers
<1>7. CountedBeforeCompared'
  BY <1>1, <1>2, <1>4, <1>6, WorkersAreCounted
     DEF OtpInv, CountedBeforeCompared, OtpTypeOK, OtpRow, currentRow
<1>8. GuessesToCome' /\ LoginsToCome'
  BY <1>1, <1>2, <1>6, WorkersAreCounted, OtpAssumption
     DEF OtpInv, GuessesToCome, LoginsToCome, OtpTypeOK, N
<1>9. MessagesToCome'
  <2> SUFFICES ASSUME otp_codes' # NoCode
               PROVE  otp_codes.sent_today + Cardinality(askers(otp_codes.sent_day) \ {w})
                        <= MAX_SMS_PER_PHONE_PER_DAY - 1 + N
    BY <1>2, ZenonT(30) DEF MessagesToCome, N, askers
  <2>1. otp_codes \in OtpRow
    BY <1>1 DEF OtpTypeOK
  <2> DEFINE A == askers(otp_codes.sent_day)
  <2>2. otp_codes.sent_today + Cardinality(A) <= MAX_SMS_PER_PHONE_PER_DAY - 1 + N
    BY DEF OtpInv, MessagesToCome
  <2>3. A \in SUBSET Workers
    BY <1>6
  <2> HIDE DEF A
  <2>4. Cardinality(A \ {w}) <= Cardinality(A) /\ Cardinality(A) \in Nat
        /\ Cardinality(A \ {w}) \in Nat /\ N \in Nat
    BY <2>3, WorkersAreCounted
  <2>5. otp_codes.sent_today \in Nat
    BY <2>1 DEF OtpRow
  <2>6. otp_codes.sent_today + Cardinality(A \ {w}) <= MAX_SMS_PER_PHONE_PER_DAY - 1 + N
    BY <2>2, <2>4, <2>5, OtpAssumption
  <2> QED
    BY <2>6 DEF A
<1> QED
  BY <1>3, <1>5, <1>7, <1>8, <1>9 DEF OtpInv

\* A request is admitted only below the cap, and there are no more requests than
\* workers.
LEMMA AskKeepsInv ==
  ASSUME OtpInv, NEW w \in Workers, Ask(w)
  PROVE  OtpInv'
<1>1. OtpTypeOK /\ clock \in Nat /\ day \in Nat
  BY DEF OtpInv, OtpTypeOK
<1>2. /\ clock' = clock /\ day' = day /\ otp_codes' = otp_codes /\ issued' = issued
      /\ compared' = compared /\ logins' = logins
      /\ handler[w].at = "rest" /\ mayAsk
  BY DEF Ask
<1> DEFINE new == [AtRest EXCEPT !.at = "asked", !.time = clock, !.date = day]
<1>3. handler' = [handler EXCEPT ![w] = new]
  BY DEF Ask
<1>4. new \in Handler /\ new.at = "asked" /\ new.date = day /\ new.code = NoCode
  BY <1>1, AtRestType DEF AtRest, Handler
<1> HIDE DEF new
<1>5. \A v \in Workers : handler'[v] = IF v = w THEN new ELSE handler[v]
  BY <1>1, <1>3 DEF OtpTypeOK
<1>6. OtpTypeOK'
  BY <1>1, <1>2, <1>3, <1>4 DEF OtpTypeOK
<1>7. live' = live /\ pend' = pend
  <2>1. live' = live
    BY <1>2, <1>4, <1>5 DEF live, withinAttempts
  <2> QED
    BY <2>1, <1>2, <1>4, <1>5 DEF pend, live
<1>8. currentRow' = currentRow
  BY <1>2 DEF currentRow
<1>9. UnsentIsUnused'
  BY <1>2, <1>4, <1>5, <1>8, OtpAssumption DEF OtpInv, UnsentIsUnused
<1>10. CountedBeforeCompared' /\ GuessesToCome' /\ LoginsToCome'
  BY <1>2, <1>7, <1>8 DEF OtpInv, CountedBeforeCompared, GuessesToCome, LoginsToCome, N
<1>11. MessagesToCome'
  <2> SUFFICES ASSUME otp_codes # NoCode
               PROVE  otp_codes.sent_today + Cardinality(askers(otp_codes.sent_day)')
                        <= MAX_SMS_PER_PHONE_PER_DAY - 1 + N
    BY <1>2 DEF MessagesToCome, N, askers
  <2>1. otp_codes.sent_today \in Nat
    BY <1>1 DEF OtpTypeOK, OtpRow
  <2>2. CASE otp_codes.sent_day = day
    <3>1. otp_codes.sent_today <= MAX_SMS_PER_PHONE_PER_DAY - 1
      BY <1>2, <2>1, <2>2, OtpAssumption DEF mayAsk, withinDay
    <3>2. askers(otp_codes.sent_day)' \in SUBSET Workers
      BY DEF askers
    <3>3. /\ Cardinality(askers(otp_codes.sent_day)') <= N
          /\ Cardinality(askers(otp_codes.sent_day)') \in Nat /\ N \in Nat
      BY <3>2, WorkersAreCounted
    <3> QED
      BY <2>1, <3>1, <3>3, OtpAssumption
  <2>3. CASE otp_codes.sent_day # day
    <3>1. askers(otp_codes.sent_day)' = askers(otp_codes.sent_day)
      BY <1>2, <1>4, <1>5, <2>3 DEF askers
    <3> QED
      BY <3>1 DEF OtpInv, MessagesToCome
  <2> QED
    BY <2>2, <2>3
<1> QED
  BY <1>6, <1>9, <1>10, <1>11 DEF OtpInv

\* A message that was admitted is counted, and its code is new.
LEMMA UpsertKeepsInv ==
  ASSUME OtpInv, NEW w \in Workers, Upsert(w)
  PROVE  OtpInv'
<1>1. OtpTypeOK /\ handler[w] \in Handler /\ handler[w].at = "asked"
  BY DEF OtpInv, OtpTypeOK, Upsert
<1>2. /\ clock' = clock /\ day' = day /\ compared' = compared /\ logins' = logins
      /\ handler' = [handler EXCEPT ![w] = AtRest]
  BY DEF Upsert
<1>3. PICK d \in Nat : d = handler[w].date
  BY <1>1 DEF Handler
<1>4. sentToday(d) \in Nat \ {0}
  BY <1>1 DEF sentToday, OtpTypeOK, OtpRow
<1>5. PICK c \in Codes \ issued :
        /\ otp_codes' = [code |-> c, attempts |-> 0, last_sent_at |-> handler[w].time,
                         sent_day |-> d, sent_today |-> sentToday(d)]
        /\ issued' = issued \cup {c}
  BY <1>3 DEF Upsert
<1>6. /\ otp_codes' \in OtpRow /\ otp_codes' # NoCode
      /\ otp_codes'.code = c /\ otp_codes'.attempts = 0
      /\ otp_codes'.sent_day = d /\ otp_codes'.sent_today = sentToday(d)
  BY <1>1, <1>4, <1>5, OtpAssumption DEF OtpRow, Handler
<1>7. /\ handler' \in [Workers -> Handler]
      /\ live' = live \ {w} /\ pend' = pend \ {w}
      /\ \A e : askers(e)' = askers(e) \ {w}
      /\ \A v \in Workers : handler'[v].code = Watched => handler[v].code = Watched
  BY <1>1, <1>2, DoneTakesOne
<1>8. w \notin live /\ w \notin pend
  BY <1>1 DEF live, pend
<1>9. live' = live /\ pend' = pend
  BY <1>7, <1>8
<1>10. OtpTypeOK'
  BY <1>1, <1>2, <1>5, <1>6, <1>7 DEF OtpTypeOK
<1>11. UnsentIsUnused'
  BY <1>2, <1>5, <1>6, <1>7 DEF OtpInv, UnsentIsUnused, currentRow
<1>12. CountedBeforeCompared'
  <2> SUFFICES ASSUME c = Watched
               PROVE  logins' = 0 /\ compared' + Cardinality(pend') <= otp_codes'.attempts
    BY <1>6 DEF CountedBeforeCompared, currentRow
  <2>1. compared = 0 /\ logins = 0 /\ \A v \in Workers : handler[v].code # Watched
    BY DEF OtpInv, UnsentIsUnused
  <2>2. pend = {}
    BY <2>1 DEF pend, live
  <2> QED
    BY <1>2, <1>6, <1>9, <2>1, <2>2, FS_EmptySet
<1>13. GuessesToCome' /\ LoginsToCome'
  BY <1>2, <1>9 DEF OtpInv, GuessesToCome, LoginsToCome, N
<1>14. MessagesToCome'
  <2> DEFINE A == askers(d)
  <2>1. A \in SUBSET Workers /\ w \in A
    BY <1>1, <1>3 DEF askers
  <2>2. askers(d)' = A \ {w}
    BY <1>7
  <2> HIDE DEF A
  <2>3. /\ Cardinality(A \ {w}) = Cardinality(A) - 1
        /\ Cardinality(A) \in Nat /\ Cardinality(A) <= N /\ N \in Nat
    BY <2>1, WorkersAreCounted
  <2>4. sentToday(d) + Cardinality(A \ {w}) <= MAX_SMS_PER_PHONE_PER_DAY - 1 + N
    <3>1. CASE otp_codes # NoCode /\ otp_codes.sent_day = d
      <4>1. sentToday(d) = otp_codes.sent_today + 1 /\ otp_codes.sent_today \in Nat
        BY <1>1, <3>1 DEF sentToday, OtpTypeOK, OtpRow
      <4>2. otp_codes.sent_today + Cardinality(A) <= MAX_SMS_PER_PHONE_PER_DAY - 1 + N
        BY <3>1 DEF OtpInv, MessagesToCome, A
      <4> QED
        BY <2>3, <4>1, <4>2, OtpAssumption
    <3>2. CASE ~(otp_codes # NoCode /\ otp_codes.sent_day = d)
      <4>1. sentToday(d) = 1
        BY <3>2 DEF sentToday
      <4> QED
        BY <2>3, <4>1, OtpAssumption
    <3> QED
      BY <3>1, <3>2
  <2>5. askers(otp_codes.sent_day)' = askers(d)'
    BY <1>6 DEF askers
  <2>6. /\ otp_codes'.sent_today = sentToday(d)
        /\ askers(otp_codes.sent_day)' = A \ {w}
    BY <1>6, <2>2, <2>5
  <2> QED
    BY <2>4, <2>6 DEF MessagesToCome, N
<1> QED
  BY <1>10, <1>11, <1>12, <1>13, <1>14 DEF OtpInv

\* A worker that reads a row which is still good joins those who may compare; the
\* comparisons made till then were all counted in the row.
LEMMA ReadKeepsInv ==
  ASSUME OtpInv, NEW w \in Workers, Read(w)
  PROVE  OtpInv'
<1>1. OtpTypeOK /\ handler[w].at = "rest" /\ otp_codes \in OtpRow
  BY DEF OtpInv, OtpTypeOK, Read
<1>2. /\ clock' = clock /\ day' = day /\ otp_codes' = otp_codes /\ issued' = issued
      /\ compared' = compared /\ logins' = logins /\ otp_codes # NoCode
  BY DEF Read
<1> DEFINE new == [AtRest EXCEPT !.at = "read", !.code = otp_codes.code,
                                 !.attempts = otp_codes.attempts,
                                 !.time = otp_codes.last_sent_at]
<1>3. handler' = [handler EXCEPT ![w] = new]
  BY DEF Read
<1>4. /\ new \in Handler /\ new.at = "read"
      /\ new.code = otp_codes.code /\ new.attempts = otp_codes.attempts
  BY <1>1 DEF AtRest, Handler, OtpRow
<1> HIDE DEF new
<1>5. \A v \in Workers : handler'[v] = IF v = w THEN new ELSE handler[v]
  BY <1>1, <1>3 DEF OtpTypeOK
<1>6. OtpTypeOK'
  BY <1>1, <1>2, <1>3, <1>4 DEF OtpTypeOK
<1>7. pend' = pend
  BY <1>1, <1>4, <1>5 DEF pend, live, withinAttempts
<1>8. \A d : askers(d)' = askers(d)
  BY <1>1, <1>4, <1>5 DEF askers
<1>9. currentRow' = currentRow
  BY <1>2 DEF currentRow
<1>10. UnsentIsUnused'
  BY <1>2, <1>4, <1>5, <1>9 DEF OtpInv, UnsentIsUnused, currentRow
<1>11. CountedBeforeCompared'
  BY <1>2, <1>7, <1>9 DEF OtpInv, CountedBeforeCompared
<1>12. GuessesToCome' /\ LoginsToCome'
  <2>1. CASE currentRow /\ otp_codes.attempts + 1 <= MAX_ATTEMPTS
    <3>1. live' \in SUBSET Workers /\ pend \in SUBSET Workers
      BY DEF live, pend
    <3>2. Cardinality(live') <= N /\ Cardinality(live') \in Nat /\ N \in Nat
          /\ Cardinality(pend) \in Nat
      BY <3>1, WorkersAreCounted
    <3>3. logins = 0 /\ compared + Cardinality(pend) <= otp_codes.attempts
      BY <2>1 DEF OtpInv, CountedBeforeCompared
    <3>4. compared \in Nat /\ otp_codes.attempts \in Nat /\ MAX_ATTEMPTS \in Nat
      BY <1>1, OtpAssumption DEF OtpTypeOK, OtpRow
    <3>5. compared <= MAX_ATTEMPTS - 1
      BY <2>1, <3>2, <3>3, <3>4
    <3>6. /\ compared' + Cardinality(live') <= MAX_ATTEMPTS - 1 + N
          /\ logins' + Cardinality(live') <= N
      BY <1>2, <3>2, <3>3, <3>4, <3>5
    <3> QED
      BY <3>6 DEF GuessesToCome, LoginsToCome, N
  <2>2. CASE ~(currentRow /\ otp_codes.attempts + 1 <= MAX_ATTEMPTS)
    <3>1. live' = live
      BY <1>1, <1>2, <1>4, <1>5, <2>2 DEF live, withinAttempts, currentRow
    <3> QED
      BY <1>2, <3>1 DEF OtpInv, GuessesToCome, LoginsToCome, N
  <2> QED
    BY <2>1, <2>2
<1>13. MessagesToCome'
  <2>1. askers(otp_codes.sent_day)' = askers(otp_codes.sent_day)
    BY <1>2, <1>8 DEF askers
  <2> QED
    BY <1>2, <2>1 DEF OtpInv, MessagesToCome, N
<1> QED
  BY <1>6, <1>10, <1>11, <1>12, <1>13 DEF OtpInv

\* An attempt is counted in the row, whichever code the row holds by then.
LEMMA BumpKeepsInv ==
  ASSUME OtpInv, NEW w \in Workers, BumpAttempts(w)
  PROVE  OtpInv'
<1>1. OtpTypeOK /\ handler[w] \in Handler /\ handler[w].at = "read"
  BY DEF OtpInv, OtpTypeOK, BumpAttempts
<1>2. /\ clock' = clock /\ day' = day /\ issued' = issued
      /\ compared' = compared /\ logins' = logins
      /\ otp_codes' = IF otp_codes = NoCode THEN NoCode
                      ELSE [otp_codes EXCEPT !.attempts = @ + 1]
      /\ handler' = [handler EXCEPT ![w].at = "counted"]
  BY DEF BumpAttempts
<1>3. \A v \in Workers :
        /\ handler'[v].code = handler[v].code
        /\ handler'[v].attempts = handler[v].attempts
        /\ handler'[v].date = handler[v].date
        /\ handler'[v].at = IF v = w THEN "counted" ELSE handler[v].at
  BY <1>1, <1>2 DEF OtpTypeOK, Handler
<1>4. otp_codes # NoCode
        => /\ otp_codes \in OtpRow /\ otp_codes' \in OtpRow /\ otp_codes' # NoCode
           /\ otp_codes'.attempts = otp_codes.attempts + 1
           /\ otp_codes'.code = otp_codes.code
           /\ otp_codes'.sent_day = otp_codes.sent_day
           /\ otp_codes'.sent_today = otp_codes.sent_today
  BY <1>1, <1>2, OtpAssumption DEF OtpTypeOK, OtpRow
<1>5. OtpTypeOK'
  <2>1. handler' \in [Workers -> Handler]
    BY <1>1, <1>2 DEF OtpTypeOK, Handler
  <2> QED
    BY <1>1, <1>2, <1>4, <2>1 DEF OtpTypeOK
<1>6. currentRow' = currentRow
  BY <1>2, <1>4 DEF currentRow
<1>7. live' = live
  BY <1>1, <1>3 DEF live, withinAttempts
<1>8. pend' \ {w} = pend /\ pend' \in SUBSET Workers /\ pend \in SUBSET Workers
  BY <1>1, <1>3, <1>7 DEF pend, live
<1>9. \A d : askers(d)' = askers(d)
  BY <1>1, <1>3 DEF askers
<1>10. UnsentIsUnused'
  BY <1>2, <1>3, <1>6 DEF OtpInv, UnsentIsUnused
<1>11. CountedBeforeCompared'
  <2> SUFFICES ASSUME currentRow
               PROVE  logins = 0 /\ compared + Cardinality(pend') <= otp_codes'.attempts
    BY <1>2, <1>6 DEF CountedBeforeCompared
  <2>1. logins = 0 /\ compared + Cardinality(pend) <= otp_codes.attempts
    BY DEF OtpInv, CountedBeforeCompared
  <2>2. /\ Cardinality(pend') \in Nat /\ Cardinality(pend) \in Nat
        /\ Cardinality(pend') <= Cardinality(pend) + 1
    BY <1>8, WorkersAreCounted
  <2>3. compared \in Nat /\ otp_codes.attempts \in Nat
        /\ otp_codes'.attempts = otp_codes.attempts + 1
    BY <1>1, <1>4 DEF currentRow, OtpTypeOK, OtpRow
  <2> QED
    BY <2>1, <2>2, <2>3
<1>12. GuessesToCome' /\ LoginsToCome'
  BY <1>2, <1>7 DEF OtpInv, GuessesToCome, LoginsToCome, N
<1>13. MessagesToCome'
  <2> SUFFICES ASSUME otp_codes # NoCode
               PROVE  otp_codes'.sent_today + Cardinality(askers(otp_codes.sent_day)')
                        <= MAX_SMS_PER_PHONE_PER_DAY - 1 + N
    BY <1>2 DEF MessagesToCome, N
  <2>1. askers(otp_codes.sent_day)' = askers(otp_codes.sent_day)
    BY <1>4, <1>9 DEF askers
  <2> QED
    BY <1>4, <2>1 DEF OtpInv, MessagesToCome
<1> QED
  BY <1>5, <1>10, <1>11, <1>12, <1>13 DEF OtpInv

\* Who compares was counted before, and a login takes the row away.
LEMMA CompareKeepsInv ==
  ASSUME OtpInv, NEW w \in Workers, WrongCode(w) \/ RightCode(w)
  PROVE  OtpInv'
<1>1. OtpTypeOK /\ handler[w] \in Handler /\ handler[w].at = "counted"
      /\ withinAttempts(w)
  BY DEF OtpInv, OtpTypeOK, WrongCode, RightCode, compares
<1>2. /\ clock' = clock /\ day' = day /\ issued' = issued
      /\ compared' = compared + uses(w)
      /\ handler' = [handler EXCEPT ![w] = AtRest]
      /\ \/ otp_codes' = otp_codes /\ logins' = logins
         \/ otp_codes' = NoCode /\ logins' = logins + uses(w)
  BY DEF WrongCode, RightCode, compares, del
<1>3. /\ handler' \in [Workers -> Handler]
      /\ live' = live \ {w} /\ pend' = pend \ {w}
      /\ \A d : askers(d)' = askers(d) \ {w}
      /\ \A v \in Workers : handler'[v].code = Watched => handler[v].code = Watched
  BY <1>1, <1>2, DoneTakesOne
<1>4. /\ live \in SUBSET Workers /\ pend \in SUBSET Workers
      /\ uses(w) = IF w \in live THEN 1 ELSE 0
      /\ w \in live <=> w \in pend
      /\ \A d : w \notin askers(d)
  BY <1>1 DEF live, pend, uses, askers
<1>5. /\ Cardinality(live') + uses(w) = Cardinality(live)
      /\ Cardinality(pend') + uses(w) = Cardinality(pend)
      /\ Cardinality(live) \in Nat /\ Cardinality(live') \in Nat
      /\ Cardinality(pend) \in Nat /\ Cardinality(pend') \in Nat
      /\ N \in Nat
  BY <1>3, <1>4, WorkersAreCounted
<1>6. uses(w) \in {0, 1} /\ compared \in Nat /\ logins \in Nat
  BY <1>1 DEF uses, OtpTypeOK
<1>7. OtpTypeOK'
  BY <1>1, <1>2, <1>3, <1>6 DEF OtpTypeOK
<1>8. UnsentIsUnused'
  <2> SUFFICES ASSUME Watched \notin issued
               PROVE  /\ compared' = 0 /\ logins' = 0 /\ ~currentRow'
                      /\ \A v \in Workers : handler'[v].code # Watched
    BY <1>2 DEF UnsentIsUnused
  <2>1. /\ compared = 0 /\ logins = 0 /\ ~currentRow
        /\ \A v \in Workers : handler[v].code # Watched
    BY DEF OtpInv, UnsentIsUnused
  <2>2. uses(w) = 0
    BY <2>1 DEF uses
  <2> QED
    BY <1>2, <1>3, <2>1, <2>2 DEF currentRow
<1>9. CountedBeforeCompared'
  <2> SUFFICES ASSUME currentRow'
               PROVE  logins' = 0 /\ compared' + Cardinality(pend') <= otp_codes'.attempts
    BY DEF CountedBeforeCompared
  <2>1. currentRow /\ otp_codes' = otp_codes /\ logins' = logins
    BY <1>2 DEF currentRow
  <2>2. logins = 0 /\ compared + Cardinality(pend) <= otp_codes.attempts
    BY <2>1 DEF OtpInv, CountedBeforeCompared
  <2>3. otp_codes.attempts \in Nat
    BY <1>1, <2>1 DEF currentRow, OtpTypeOK, OtpRow
  <2> QED
    BY <1>2, <1>5, <1>6, <2>1, <2>2, <2>3
<1>10. GuessesToCome'
  <2>1. compared' + Cardinality(live') = compared + Cardinality(live)
    BY <1>2, <1>5, <1>6
  <2> QED
    BY <2>1 DEF OtpInv, GuessesToCome, N
<1>11. LoginsToCome'
  <2>1. logins' + Cardinality(live') <= logins + Cardinality(live)
    BY <1>2, <1>5, <1>6
  <2>2. logins + Cardinality(live) <= N
    BY DEF OtpInv, LoginsToCome
  <2>3. logins' + Cardinality(live') <= N
    BY <1>2, <1>5, <1>6, <2>1, <2>2
  <2> QED
    BY <2>3 DEF LoginsToCome, N
<1>12. MessagesToCome'
  <2> SUFFICES ASSUME otp_codes' # NoCode
               PROVE  otp_codes.sent_today + Cardinality(askers(otp_codes.sent_day)')
                        <= MAX_SMS_PER_PHONE_PER_DAY - 1 + N
    BY <1>2 DEF MessagesToCome, N, askers
  <2>1. askers(otp_codes.sent_day)' = askers(otp_codes.sent_day)
    BY <1>2, <1>3, <1>4 DEF askers
  <2> QED
    BY <1>2, <2>1 DEF OtpInv, MessagesToCome
<1> QED
  BY <1>7, <1>8, <1>9, <1>10, <1>11, <1>12 DEF OtpInv

\* Time takes a row away or leaves everything as it is.
LEMMA TimeKeepsInv ==
  ASSUME OtpInv, cleanupExpired \/ ClockTicks \/ DayEnds \/ UNCHANGED otpVars
  PROVE  OtpInv'
<1>1. /\ handler' = handler /\ issued' = issued
      /\ compared' = compared /\ logins' = logins
      /\ otp_codes' = otp_codes \/ otp_codes' = NoCode
      /\ clock' \in Nat /\ day' \in Nat
  BY DEF OtpInv, OtpTypeOK, cleanupExpired, ClockTicks, DayEnds, otpVars, del
<1>2. live' = live /\ pend' = pend /\ \A d : askers(d)' = askers(d)
  BY <1>1 DEF live, pend, askers, withinAttempts
<1>3. currentRow' => currentRow /\ otp_codes' = otp_codes
  BY <1>1 DEF currentRow
<1>4. OtpTypeOK' /\ UnsentIsUnused'
  BY <1>1, <1>3 DEF OtpInv, OtpTypeOK, UnsentIsUnused
<1>5. CountedBeforeCompared' /\ GuessesToCome' /\ LoginsToCome'
  BY <1>1, <1>2, <1>3 DEF OtpInv, CountedBeforeCompared, GuessesToCome, LoginsToCome, N
<1>6. MessagesToCome'
  <2> SUFFICES ASSUME otp_codes' # NoCode
               PROVE  otp_codes.sent_today + Cardinality(askers(otp_codes.sent_day)')
                        <= MAX_SMS_PER_PHONE_PER_DAY - 1 + N
    BY <1>1 DEF MessagesToCome, N, askers
  <2>1. askers(otp_codes.sent_day)' = askers(otp_codes.sent_day)
    BY <1>1, <1>2 DEF askers
  <2> QED
    BY <1>1, <2>1 DEF OtpInv, MessagesToCome
<1> QED
  BY <1>4, <1>5, <1>6 DEF OtpInv

\* Every step keeps the invariant.
LEMMA StepKeepsOtpInv == OtpInv /\ [OtpNext]_otpVars => OtpInv'
<1> SUFFICES ASSUME OtpInv, [OtpNext]_otpVars PROVE OtpInv'
  OBVIOUS
<1>1. ASSUME NEW w \in Workers, Expire(w) \/ Burn(w) \/ Stops(w) PROVE OtpInv'
  <2>1. /\ handler' = [handler EXCEPT ![w] = AtRest]
        /\ otp_codes' = otp_codes \/ otp_codes' = NoCode
        /\ clock' = clock /\ day' = day /\ issued' = issued
        /\ compared' = compared /\ logins' = logins
    BY <1>1 DEF Expire, Burn, Stops, del
  <2> QED
    BY <2>1, EndKeepsInv
<1>2. ASSUME NEW w \in Workers, Ask(w) PROVE OtpInv'
  BY <1>2, AskKeepsInv
<1>3. ASSUME NEW w \in Workers, Upsert(w) PROVE OtpInv'
  BY <1>3, UpsertKeepsInv
<1>4. ASSUME NEW w \in Workers, Read(w) PROVE OtpInv'
  BY <1>4, ReadKeepsInv
<1>5. ASSUME NEW w \in Workers, BumpAttempts(w) PROVE OtpInv'
  BY <1>5, BumpKeepsInv
<1>6. ASSUME NEW w \in Workers, WrongCode(w) \/ RightCode(w) PROVE OtpInv'
  BY <1>6, CompareKeepsInv
<1>7. CASE cleanupExpired \/ ClockTicks \/ DayEnds \/ UNCHANGED otpVars
  BY <1>7, TimeKeepsInv
<1> QED
  BY <1>1, <1>2, <1>3, <1>4, <1>5, <1>6, <1>7 DEF OtpNext

-----------------------------------------------------------------------------

\* The inductive invariant of the login code holds in every state.
THEOREM OtpInvariant == OtpSpec => []OtpInv
<1>1. OtpInit => OtpInv
  BY InitOtpInv
<1>2. OtpInv /\ [OtpNext]_otpVars => OtpInv'
  BY StepKeepsOtpInv
<1> QED
  BY <1>1, <1>2, PTL DEF OtpSpec

\* The state of the login code keeps its shape.
THEOREM OtpTypeCorrect == OtpSpec => []OtpTypeOK
<1>1. OtpInv => OtpTypeOK
  BY DEF OtpInv
<1> QED
  BY <1>1, OtpInvariant, PTL

\* For any number of workers a code is compared MAX_ATTEMPTS times and once more for
\* each other worker (routes/auth.js counts before it compares).
THEOREM GuessesStayFew == OtpSpec => []GuessesAreFew
<1>1. OtpInv => GuessesAreFew
  <2> SUFFICES ASSUME OtpInv PROVE GuessesAreFew
    OBVIOUS
  <2>1. live \in SUBSET Workers
    BY DEF live
  <2>2. Cardinality(live) \in Nat /\ N \in Nat
    BY <2>1, WorkersAreCounted
  <2> QED
    BY <2>2, OtpAssumption DEF OtpInv, OtpTypeOK, GuessesToCome, GuessesAreFew, N
<1> QED
  BY <1>1, OtpInvariant, PTL

\* For any number of workers a code logs in at most once for each of them, and
\* never after its row is gone.
THEOREM LoginsStayFew == OtpSpec => []LoginsOfACode
<1>1. OtpInv => LoginsOfACode
  <2> SUFFICES ASSUME OtpInv PROVE LoginsOfACode
    OBVIOUS
  <2>1. live \in SUBSET Workers
    BY DEF live
  <2>2. Cardinality(live) \in Nat /\ N \in Nat
    BY <2>1, WorkersAreCounted
  <2> QED
    BY <2>2 DEF OtpInv, OtpTypeOK, LoginsToCome, LoginsOfACode, N
<1> QED
  BY <1>1, OtpInvariant, PTL

\* A row never counts more messages of its day than the cap and one more for each
\* other worker.
THEOREM DayCountStaysBounded == OtpSpec => []DayCountHolds
<1>1. OtpInv => DayCountHolds
  <2> SUFFICES ASSUME OtpInv, otp_codes # NoCode
               PROVE  otp_codes.sent_today
                        <= MAX_SMS_PER_PHONE_PER_DAY + Cardinality(Workers) - 1
    BY DEF DayCountHolds
  <2>1. otp_codes.sent_today \in Nat
    BY DEF OtpInv, OtpTypeOK, OtpRow
  <2>2. askers(otp_codes.sent_day) \in SUBSET Workers
    BY DEF askers
  <2>3. Cardinality(askers(otp_codes.sent_day)) \in Nat /\ N \in Nat
    BY <2>2, WorkersAreCounted
  <2> QED
    BY <2>1, <2>3, OtpAssumption DEF OtpInv, MessagesToCome, N
<1> QED
  BY <1>1, OtpInvariant, PTL
=============================================================================
