------------------------------- MODULE SmsBudget -------------------------------
(***************************************************************************)
(* The daily cap on login messages: sendOtpSms of backend/lib/sms.js and   *)
(* the counter it keeps through reserveSmsSlot and releaseSmsSlot of       *)
(* backend/lib/db.js.  A slot is reserved before the provider is called    *)
(* and given back when the call throws.  The counter is one row that all   *)
(* workers share; it holds a day and the slots taken on that day.          *)
(*                                                                         *)
(* Between reservation and outcome a send waits for the provider for up to *)
(* ten seconds: midnight, other sends and the death of the worker come in. *)
(***************************************************************************)
EXTENDS Integers, FiniteSets

CONSTANTS
  Senders,        \* calls of sendOtpSms that may be under way, in all workers
  SMS_DAILY_CAP,  \* messages a day
  LastDay,        \* bound: days the model looks at
  MaxTimeouts     \* bound: messages of a day that go out without an answer

ASSUME SmsAssumption ==
  /\ IsFiniteSet(Senders)
  /\ SMS_DAILY_CAP \in Nat \ {0}
  /\ LastDay \in Nat \ {0}
  /\ MaxTimeouts \in Nat

VARIABLES
  today,        \* date('now','localtime'), from 1 on
  sms_counter,  \* settings.sms_counter: the day `d' and its slots `n'
  sending,      \* the day on which a call under way reserved its slot, 0 = none
  charged,      \* history, of today: slots of today whose message went out
  misjudged,    \* history, of today: slots given back that were not free
  lost          \* history, of today: slots of calls that died with their worker

smsVars == <<today, sms_counter, sending, charged, misjudged, lost>>

\* The slots taken today; a counter of another day stands for none.
getSmsCount == IF sms_counter.d = today THEN sms_counter.n ELSE 0

\* A missing row and the row of an earlier day are alike: no slot of today.
SmsInit ==
  /\ today = 1
  /\ sms_counter = [d |-> 0, n |-> 0]
  /\ sending = [s \in Senders |-> 0]
  /\ charged = 0
  /\ misjudged = 0
  /\ lost = 0

-----------------------------------------------------------------------------

\* Faulty: the comparison lets one message too many through.
reserveSmsSlot_offByOne ==
  /\ getSmsCount <= SMS_DAILY_CAP
  /\ sms_counter' = [d |-> today, n |-> getSmsCount + 1]

\* One statement: the condition is part of the write.
reserveSmsSlot ==
  /\ getSmsCount < SMS_DAILY_CAP
  /\ sms_counter' = [d |-> today, n |-> getSmsCount + 1]

\* Faulty: the slot of a failed send is kept.
releaseSmsSlot_missing == UNCHANGED sms_counter

\* It does not know on which day the slot was reserved.
releaseSmsSlot ==
  sms_counter' = IF getSmsCount > 0
                 THEN [sms_counter EXCEPT !.n = @ - 1]
                 ELSE sms_counter

\* The call is over; `out' tells whether its message went out.
ends(s, out) ==
  /\ sending[s] # 0
  /\ sending' = [sending EXCEPT ![s] = 0]
  /\ charged' = IF out /\ sending[s] = today THEN charged + 1 ELSE charged

\* sendOtpSms up to the call of the provider; a full day ends it at once.
sendOtpSms(s) ==
  /\ sending[s] = 0
  /\ reserveSmsSlot
  /\ sending' = [sending EXCEPT ![s] = today]
  /\ UNCHANGED <<today, charged, misjudged, lost>>

Sent(s) ==
  /\ ends(s, TRUE)
  /\ UNCHANGED <<today, sms_counter, misjudged, lost>>

\* The provider refuses, is out of reach, or does not answer in TIMEOUT_MS, in
\* which case the message may have gone out all the same.
SendFails(s, out) ==
  /\ out => misjudged < MaxTimeouts
  /\ ends(s, out)
  /\ releaseSmsSlot
  /\ misjudged' = IF getSmsCount > 0 /\ (out \/ sending[s] # today)
                  THEN misjudged + 1 ELSE misjudged
  /\ UNCHANGED <<today, lost>>

WorkerDies(s, out) ==
  /\ ends(s, out)
  /\ lost' = IF ~out /\ sending[s] = today THEN lost + 1 ELSE lost
  /\ UNCHANGED <<today, sms_counter, misjudged>>

Midnight ==
  /\ today < LastDay
  /\ today' = today + 1
  /\ charged' = 0
  /\ misjudged' = 0
  /\ lost' = 0
  /\ UNCHANGED <<sms_counter, sending>>

SmsNext ==
  \/ \E s \in Senders :
       \/ sendOtpSms(s)
       \/ Sent(s)
       \/ \E out \in BOOLEAN : SendFails(s, out) \/ WorkerDies(s, out)
  \/ Midnight

SmsSpec == SmsInit /\ [][SmsNext]_smsVars

-----------------------------------------------------------------------------
\* Properties.

SmsTypeOK ==
  /\ today \in Nat \ {0}
  /\ sms_counter \in [d : 0..today, n : Nat]
  /\ sending \in [Senders -> 0..today]
  /\ charged \in Nat
  /\ misjudged \in Nat
  /\ lost \in Nat

\* Calls under way that hold a slot of today.
underWay == Cardinality({s \in Senders : sending[s] = today})

\* The bill of a day stays within the cap, except for slots that were given back
\* although they were used: a send of yesterday that fails after midnight, or
\* one that timed out after its message had gone out (sms.js:128).  No number
\* of workers at once, of failures and of deaths adds anything to that.
BillWithinCap == charged + underWay <= SMS_DAILY_CAP + misjudged

\* A message that failed does not use up the day (sms.js:117): every slot that
\* is taken was used, is in use, or was held by a call that died.
FailuresAreFree == getSmsCount <= charged + underWay + lost
=============================================================================
