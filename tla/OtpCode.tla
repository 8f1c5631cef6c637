-------------------------------- MODULE OtpCode --------------------------------
(***************************************************************************)
(* The login code of one phone number: POST /otp/request and /otp/verify   *)
(* of backend/routes/auth.js on the table otp_codes, which all workers     *)
(* share.  A handler's statements run without an await between them, so a  *)
(* worker is inside one handler at a time, but every other worker may come *)
(* in between two statements.                                              *)
(***************************************************************************)
EXTENDS Integers, FiniteSets

CONSTANTS
  Workers,                    \* the processes of the cluster
  Codes,                      \* bound: codes that are ever sent, each a new one
  Watched,                    \* any one of them, whose uses are counted
  MAX_ATTEMPTS,               \* comparisons a code is good for
  MAX_SMS_PER_PHONE_PER_DAY,  \* codes sent to the number in a day
  OTP_TTL_MS,                 \* life of a code, in units of the model's clock
  RESEND_COOLDOWN_MS,         \* least time between two codes
  CLEANUP_MS,                 \* time after its end at which a row is swept
  NoCode,                     \* the number has no row
  MaxAttempts,                \* bound: of the attempts in the row
  MaxClock,                   \* bound: of the clock
  MaxDay                      \* bound: of the days

\* A row of otp_codes; its expires_at is last_sent_at plus OTP_TTL_MS.
OtpRow == [code : Codes, attempts : Nat, last_sent_at : Nat,
           sent_day : Nat, sent_today : Nat \ {0}]

ASSUME OtpAssumption ==
  /\ IsFiniteSet(Workers) /\ Workers # {}
  /\ Watched \in Codes /\ NoCode \notin Codes /\ NoCode \notin OtpRow
  /\ MAX_ATTEMPTS \in Nat \ {0}
  /\ MAX_SMS_PER_PHONE_PER_DAY \in Nat \ {0}
  /\ OTP_TTL_MS \in Nat
  /\ RESEND_COOLDOWN_MS \in Nat
  /\ CLEANUP_MS \in Nat
  /\ MaxAttempts \in Nat
  /\ MaxClock \in Nat
  /\ MaxDay \in Nat

VARIABLES
  clock,      \* Date.now()
  day,        \* todayStr(); it may change at any moment of the clock
  otp_codes,  \* the row of the number
  handler,    \* what each worker is inside of
  issued,     \* history: the codes that were sent
  compared,   \* history: comparisons with the code Watched
  logins      \* history: logins with the code Watched

otpVars == <<clock, day, otp_codes, handler, issued, compared, logins>>

\* `code' and `attempts' are what a verification has read, and `time' that row's
\* last_sent_at; `time' and `date' are also the moment at which a request read
\* the clock.
Handler == [at : {"rest", "asked", "read", "counted"}, code : Codes \cup {NoCode},
            attempts : Nat, time : Nat, date : Nat]

AtRest == [at |-> "rest", code |-> NoCode, attempts |-> 0, time |-> 0, date |-> 0]

OtpInit ==
  /\ clock = 0
  /\ day = 1
  /\ otp_codes = NoCode
  /\ handler = [w \in Workers |-> AtRest]
  /\ issued = {}
  /\ compared = 0
  /\ logins = 0

-----------------------------------------------------------------------------
\* POST /otp/request.

\* Faulty: the comparison lets one message too many through.
withinDay_offByOne ==
  ~(otp_codes.sent_day = day /\ otp_codes.sent_today > MAX_SMS_PER_PHONE_PER_DAY)

withinDay ==
  ~(otp_codes.sent_day = day /\ otp_codes.sent_today >= MAX_SMS_PER_PHONE_PER_DAY)

mayAsk ==
  otp_codes # NoCode
    => /\ clock - otp_codes.last_sent_at >= RESEND_COOLDOWN_MS
       /\ withinDay

Ask(w) ==
  /\ handler[w].at = "rest"
  /\ mayAsk
  /\ handler' = [handler EXCEPT ![w] =
       [AtRest EXCEPT !.at = "asked", !.time = clock, !.date = day]]
  /\ UNCHANGED <<clock, day, otp_codes, issued, compared, logins>>

sentToday(date) ==
  IF otp_codes = NoCode THEN 1
  ELSE IF otp_codes.sent_day = date THEN otp_codes.sent_today + 1 ELSE 1

\* otp.upsert, after which the message goes out.
Upsert(w) ==
  /\ handler[w].at = "asked"
  /\ \E c \in Codes \ issued :
       /\ otp_codes' = [code |-> c,
                        attempts |-> 0,
                        last_sent_at |-> handler[w].time,
                        sent_day |-> handler[w].date,
                        sent_today |-> sentToday(handler[w].date)]
       /\ issued' = issued \cup {c}
  /\ handler' = [handler EXCEPT ![w] = AtRest]
  /\ UNCHANGED <<clock, day, compared, logins>>

-----------------------------------------------------------------------------
\* POST /otp/verify.

Read(w) ==
  /\ handler[w].at = "rest"
  /\ otp_codes # NoCode
  /\ handler' = [handler EXCEPT ![w] =
       [AtRest EXCEPT !.at = "read", !.code = otp_codes.code,
                      !.attempts = otp_codes.attempts, !.time = otp_codes.last_sent_at]]
  /\ UNCHANGED <<clock, day, otp_codes, issued, compared, logins>>

\* otp.del takes the number's row, be it the one that was read or a newer one.
del == otp_codes' = NoCode

Expire(w) ==
  /\ handler[w].at = "read"
  /\ clock > handler[w].time + OTP_TTL_MS
  /\ del
  /\ handler' = [handler EXCEPT ![w] = AtRest]
  /\ UNCHANGED <<clock, day, issued, compared, logins>>

\* Counted before it is compared.
BumpAttempts(w) ==
  /\ handler[w].at = "read"
  /\ clock <= handler[w].time + OTP_TTL_MS
  /\ otp_codes # NoCode => otp_codes.attempts < MaxAttempts
  /\ otp_codes' = IF otp_codes = NoCode THEN NoCode
                  ELSE [otp_codes EXCEPT !.attempts = @ + 1]
  /\ handler' = [handler EXCEPT ![w].at = "counted"]
  /\ UNCHANGED <<clock, day, issued, compared, logins>>

\* Faulty: one comparison too many.
withinAttempts_offByOne(w) == handler[w].attempts + 1 <= MAX_ATTEMPTS + 1

\* attemptsUsed is the number that was read, plus one.
withinAttempts(w) == handler[w].attempts + 1 <= MAX_ATTEMPTS

Burn(w) ==
  /\ handler[w].at = "counted"
  /\ ~withinAttempts(w)
  /\ del
  /\ handler' = [handler EXCEPT ![w] = AtRest]
  /\ UNCHANGED <<clock, day, issued, compared, logins>>

uses(w) == IF handler[w].code = Watched THEN 1 ELSE 0

\* The comparison with the code that was read.
compares(w) ==
  /\ handler[w].at = "counted"
  /\ withinAttempts(w)
  /\ compared' = compared + uses(w)
  /\ handler' = [handler EXCEPT ![w] = AtRest]
  /\ UNCHANGED <<clock, day, issued>>

WrongCode(w) ==
  /\ compares(w)
  /\ UNCHANGED <<otp_codes, logins>>

\* Faulty: the code stays good after a login.
RightCode_kept(w) ==
  /\ compares(w)
  /\ UNCHANGED otp_codes
  /\ logins' = logins + uses(w)

\* The code goes before the session is made.
RightCode(w) ==
  /\ compares(w)
  /\ del
  /\ logins' = logins + uses(w)

-----------------------------------------------------------------------------

\* The request is refused for its IP's count, or the worker dies.
Stops(w) ==
  /\ handler[w].at # "rest"
  /\ handler' = [handler EXCEPT ![w] = AtRest]
  /\ UNCHANGED <<clock, day, otp_codes, issued, compared, logins>>

\* cleanupExpired, every five minutes in every worker.
cleanupExpired ==
  /\ otp_codes # NoCode
  /\ otp_codes.last_sent_at + OTP_TTL_MS < clock - CLEANUP_MS
  /\ del
  /\ UNCHANGED <<clock, day, handler, issued, compared, logins>>

ClockTicks ==
  /\ clock < MaxClock
  /\ clock' = clock + 1
  /\ UNCHANGED <<day, otp_codes, handler, issued, compared, logins>>

DayEnds ==
  /\ day < MaxDay
  /\ day' = day + 1
  /\ UNCHANGED <<clock, otp_codes, handler, issued, compared, logins>>

OtpNext ==
  \/ \E w \in Workers :
       \/ Ask(w)
       \/ Upsert(w)
       \/ Read(w)
       \/ Expire(w)
       \/ BumpAttempts(w)
       \/ Burn(w)
       \/ WrongCode(w)
       \/ RightCode(w)
       \/ Stops(w)
  \/ cleanupExpired
  \/ ClockTicks
  \/ DayEnds

OtpSpec == OtpInit /\ [][OtpNext]_otpVars

-----------------------------------------------------------------------------
\* Properties.

OtpTypeOK ==
  /\ clock \in Nat
  /\ day \in Nat
  /\ otp_codes \in OtpRow \cup {NoCode}
  /\ handler \in [Workers -> Handler]
  /\ issued \subseteq Codes
  /\ compared \in Nat
  /\ logins \in Nat

\* A code is compared MAX_ATTEMPTS times, plus once for each other worker that
\* had read the count before it was full; crashes and new codes add nothing.
GuessesAreFew ==
  compared <= MAX_ATTEMPTS + Cardinality(Workers) - 1

\* A code logs in once, plus once for each other worker that had read it before
\* it was used: not again afterwards.
LoginsOfACode ==
  logins <= Cardinality(Workers)

\* A row counts no more messages of a day than allowed, plus one for each other
\* worker that had read the count before it was full.
DayCountHolds ==
  otp_codes # NoCode
    => otp_codes.sent_today <= MAX_SMS_PER_PHONE_PER_DAY + Cardinality(Workers) - 1

\* auth.js:202: a number gets no more codes in a day than the cap.  (Stated of the
\* first day, with a single worker.)
PhoneDailyCap ==
  day = 1 /\ Cardinality(Workers) = 1
    => Cardinality(issued) <= MAX_SMS_PER_PHONE_PER_DAY
=============================================================================
