----------------------------- MODULE SecondFactor -----------------------------
(***************************************************************************)
(* The second step of a panel login: POST /totp/verify of                  *)
(* backend/routes/auth.js with verifyCode of backend/lib/mfa.js, verify of *)
(* backend/lib/totp.js and the recovery codes of backend/lib/db.js, for    *)
(* one account.  A code of the app belongs to a step of thirty seconds and *)
(* is good for WINDOW steps before and after; which step was accepted last *)
(* stands in the shared store and is forgotten after STEP_TTL steps.       *)
(*                                                                         *)
(* Matching and accepting are two steps of a worker: others come between.  *)
(***************************************************************************)
EXTENDS Integers, FiniteSets

CONSTANTS
  Verifiers,     \* requests that may be under way, in all workers
  WINDOW,        \* steps on either side in which a code matches
  STEP_TTL,      \* ttlMs of `usedSteps', in steps
  MaxDelay,      \* steps that may pass between a match and its mutate
  RecoveryCodes, \* the hashes configured for the account
  NoStep,        \* nothing in the store
  MaxStep        \* bound: of the clock

\* mutate waits busy_timeout (5 s) for the lock: less than a step, so the clock
\* turns at most once; five minutes are ten steps.
ASSUME FactorAssumption ==
  /\ WINDOW \in Nat
  /\ MaxDelay \in Nat
  /\ STEP_TTL \in Nat
  /\ STEP_TTL > 2 * WINDOW + MaxDelay
  /\ NoStep \notin [step : Int, expires_at : Nat]
  /\ MaxStep \in Nat

VARIABLES
  current,           \* floor(now / 30 s)
  usedSteps,         \* the row of the account in the shared store
  verifier,          \* a request that has matched a code, and when
  recovery_code_use, \* recovery codes used up
  accepted,          \* history: steps accepted
  reaccepted         \* history: codes accepted though they had been before

factorVars == <<current, usedSteps, verifier, recovery_code_use, accepted, reaccepted>>

Resting == [phase |-> "idle", step |-> 0, at |-> 0]

FactorInit ==
  /\ current = 0
  /\ usedSteps = NoStep
  /\ verifier = [v \in Verifiers |-> Resting]
  /\ recovery_code_use = {}
  /\ accepted = {}
  /\ reaccepted = FALSE

-----------------------------------------------------------------------------

\* totp.verify: the code of step `s' matches.
Matches(v, s) ==
  /\ verifier[v].phase = "idle"
  /\ s \in (current - WINDOW)..(current + WINDOW)
  /\ s >= 0
  /\ verifier' = [verifier EXCEPT ![v] = [phase |-> "matched", step |-> s, at |-> current]]
  /\ UNCHANGED <<current, usedSteps, recovery_code_use, accepted, reaccepted>>

\* Faulty: only the very last step is told apart.
isReplay_equal(s) == usedSteps # NoStep /\ usedSteps.expires_at > current /\ s = usedSteps.step

isReplay(s) == usedSteps # NoStep /\ usedSteps.expires_at > current /\ s <= usedSteps.step

stored(s) == [step |-> s, expires_at |-> current + STEP_TTL]

\* usedSteps.mutate takes a later step and logs in.
Accept(v) ==
  /\ verifier[v].phase = "matched"
  /\ ~isReplay(verifier[v].step)
  /\ usedSteps' = stored(verifier[v].step)
  /\ accepted' = accepted \cup {verifier[v].step}
  /\ reaccepted' = (reaccepted \/ verifier[v].step \in accepted)
  /\ verifier' = [verifier EXCEPT ![v] = Resting]
  /\ UNCHANGED <<current, recovery_code_use>>

\* mutate returns the old step, which is stored again for its full time.
Replay(v) ==
  /\ verifier[v].phase = "matched"
  /\ isReplay(verifier[v].step)
  /\ usedSteps' = stored(usedSteps.step)
  /\ verifier' = [verifier EXCEPT ![v] = Resting]
  /\ UNCHANGED <<current, recovery_code_use, accepted, reaccepted>>

\* The worker dies.
Vanishes(v) ==
  /\ verifier[v].phase = "matched"
  /\ verifier' = [verifier EXCEPT ![v] = Resting]
  /\ UNCHANGED <<current, usedSteps, recovery_code_use, accepted, reaccepted>>

\* consumeRecoveryCode: INSERT OR IGNORE, and a code that was there is refused.
consumeRecoveryCode(c) ==
  /\ c \notin recovery_code_use
  /\ recovery_code_use' = recovery_code_use \cup {c}
  /\ UNCHANGED <<current, usedSteps, verifier, accepted, reaccepted>>

\* The sweep of the store.
SweepSteps ==
  /\ usedSteps # NoStep
  /\ usedSteps.expires_at <= current
  /\ usedSteps' = NoStep
  /\ UNCHANGED <<current, verifier, recovery_code_use, accepted, reaccepted>>

StepPasses ==
  /\ current < MaxStep
  /\ \A v \in Verifiers :
       verifier[v].phase = "matched" => current < verifier[v].at + MaxDelay
  /\ current' = current + 1
  /\ UNCHANGED <<usedSteps, verifier, recovery_code_use, accepted, reaccepted>>

FactorNext ==
  \/ \E v \in Verifiers :
       \/ \E s \in 0..(MaxStep + WINDOW) : Matches(v, s)
       \/ Accept(v)
       \/ Replay(v)
       \/ Vanishes(v)
  \/ \E c \in RecoveryCodes : consumeRecoveryCode(c)
  \/ SweepSteps
  \/ StepPasses

FactorSpec == FactorInit /\ [][FactorNext]_factorVars

-----------------------------------------------------------------------------
\* Properties.

FactorTypeOK ==
  /\ current \in Nat
  /\ usedSteps \in [step : Nat, expires_at : Nat] \cup {NoStep}
  /\ verifier \in [Verifiers -> [phase : {"idle", "matched"}, step : Nat, at : Nat]]
  /\ recovery_code_use \subseteq RecoveryCodes
  /\ accepted \subseteq Nat
  /\ reaccepted \in BOOLEAN

\* A code of the app logs in once, whichever workers see it how often and in
\* whatever order: not a second time after a later one was used, nor when the
\* store has forgotten the step.
CodeWorksOnce == ~reaccepted
=============================================================================
