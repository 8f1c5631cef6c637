------------------------------- MODULE MCLimits -------------------------------
(***************************************************************************)
(* Small instances of what bounds the attempts of one client, one phone    *)
(* number, one account and one day, and the copies that are kept, in one   *)
(* run.  The machines share no state and every property is about one of    *)
(* them, so it is enough that in each behaviour one of them moves: the     *)
(* subject, chosen at the start.                                           *)
(***************************************************************************)
EXTENDS RateLimit, OtpCode, SmsBudget, LoginGuard, SecondFactor,
        Backups, TLC

CONSTANT Subjects  \* the machines that a run looks at

VARIABLE subject

\* Every limiter of the server with its window, here in units of a minute or
\* more: `api' stands for those of one minute, `login' for the longer ones.
McLimiters == {"api", "login"}
McWindowMs == [l \in McLimiters |-> IF l = "api" THEN 1 ELSE 4]
McMax == [l \in McLimiters |-> IF l = "api" THEN 3 ELSE 2]
McSkipSuccess == [l \in McLimiters |-> l = "login"]

McLockSteps == [i \in 0..1 |-> i + 1]

LimitsInit ==
  /\ subject \in Subjects
  /\ RateInit
  /\ OtpInit
  /\ SmsInit
  /\ GuardInit
  /\ FactorInit
  /\ BackupInit

LimitsNext ==
  /\ UNCHANGED subject
  /\ IF subject = "rate" THEN RateNext ELSE UNCHANGED rateVars
  /\ IF subject = "otp" THEN OtpNext ELSE UNCHANGED otpVars
  /\ IF subject = "sms" THEN SmsNext ELSE UNCHANGED smsVars
  /\ IF subject = "guard" THEN GuardNext ELSE UNCHANGED guardVars
  /\ IF subject = "factor" THEN FactorNext ELSE UNCHANGED factorVars
  /\ IF subject = "backup" THEN BackupNext ELSE UNCHANGED backupVars

LimitsSpec ==
  LimitsInit /\ [][LimitsNext]_<<subject, rateVars, otpVars, smsVars, guardVars, factorVars, backupVars>>

Symmetry == Permutations(Requests) \cup Permutations(Runs)
=============================================================================
