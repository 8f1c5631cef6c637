------------------------------ MODULE ResultPage ------------------------------
(***************************************************************************)
(* The page that waits for the outcome of a payment: OrderSuccessContent   *)
(* asks the server again and again, at deadlines that are counted from the *)
(* moment the order was first looked at.  That moment is kept in           *)
(* localStorage, so that a reload goes on where the page was.  A hidden    *)
(* tab does not ask; when the customer returns it asks at once.            *)
(***************************************************************************)
EXTENDS Integers, SequencesExt

CONSTANTS
  POLL_CHECKS_FAST,
  POLL_CHECKS_TOTAL,
  POLL_MS_FAST,
  POLL_MS_SLOW,
  Unset,      \* no timer, no start of a window
  MaxNow,     \* bound: of the clock
  MaxReturns, \* bound: of the returns to the tab
  MaxMounts   \* bound: of the times the page is loaded

ASSUME ResultAssumption ==
  /\ POLL_CHECKS_FAST \in Nat /\ POLL_CHECKS_TOTAL \in Nat
  /\ POLL_CHECKS_FAST <= POLL_CHECKS_TOTAL
  /\ POLL_MS_FAST \in Nat \ {0} /\ POLL_MS_SLOW \in Nat \ {0}
  /\ POLL_MS_FAST <= POLL_MS_SLOW
  /\ Unset \notin Nat
  /\ MaxNow \in Nat /\ MaxReturns \in Nat /\ MaxMounts \in Nat

VARIABLES
  dateNow,    \* Date.now()
  windowStart, \* localStorage: the start of the order's window
  view,       \* "closed", "polls", "gaveUp", or "decided" once the answer is in
  startedAt,  \* the effect's copy of the start
  checks,
  timer,      \* when the timer that the effect can still clear fires
  orphans,    \* the timers it has lost sight of
  asking,     \* who holds inFlightRef: nobody, the loop, or somebody else
  hidden,
  asked,      \* history: questions
  returns,    \* history: returns to the tab
  mounts,     \* history: times the page was loaded or its button pressed
  earlier     \* history: questions due in the windows before this one

resultVars == <<dateNow, windowStart, view, startedAt, checks, timer, orphans, asking,
                hidden, asked, returns, mounts, earlier>>

-----------------------------------------------------------------------------
\* The deadlines.

checkTimeMs(n) ==
  IF n <= POLL_CHECKS_FAST THEN n * POLL_MS_FAST
  ELSE POLL_CHECKS_FAST * POLL_MS_FAST + (n - POLL_CHECKS_FAST) * POLL_MS_SLOW

least(a, b) == IF a < b THEN a ELSE b
greatest(a, b) == IF a > b THEN a ELSE b

checksDue(elapsed) ==
  IF elapsed <= POLL_CHECKS_FAST * POLL_MS_FAST
  THEN elapsed \div POLL_MS_FAST
  ELSE least(POLL_CHECKS_TOTAL,
             POLL_CHECKS_FAST
               + (elapsed - POLL_CHECKS_FAST * POLL_MS_FAST) \div POLL_MS_SLOW)

\* The time of the next deadline; it fires at once if that has passed.
nextAt(n, start) == greatest(dateNow, start + checkTimeMs(n + 1))

ResultInit ==
  /\ dateNow = 0
  /\ windowStart = Unset
  /\ view = "closed"
  /\ startedAt = 0
  /\ checks = 0
  /\ timer = Unset
  /\ orphans = <<>>
  /\ asking = "nobody"
  /\ hidden = FALSE
  /\ asked = 0
  /\ returns = 0
  /\ mounts = 0
  /\ earlier = 0

-----------------------------------------------------------------------------
\* The effect starts: on loading the page, or when the button ends `gaveUp'.

\* Faulty: the window starts with the page.
readWindowStart_fresh == dateNow

readWindowStart == IF windowStart = Unset THEN dateNow ELSE windowStart

effectStarts(start) ==
  LET n == checksDue(dateNow - start)
  IN /\ windowStart' = start
     /\ startedAt' = start
     /\ checks' = n
     /\ orphans' = <<>>
     /\ IF n >= POLL_CHECKS_TOTAL
        THEN view' = "gaveUp" /\ timer' = Unset
        ELSE view' = "polls" /\ timer' = nextAt(n, start)

\* `load' asks once and finds the order pending.
LoadResult ==
  /\ view = "closed"
  /\ mounts < MaxMounts
  /\ effectStarts(readWindowStart)
  /\ asking' = "nobody"
  /\ hidden' = FALSE
  /\ asked' = asked + 1
  /\ mounts' = mounts + 1
  /\ UNCHANGED <<dateNow, returns, earlier>>

LeaveResult ==
  /\ view \in {"polls", "gaveUp"}
  /\ view' = "closed"
  /\ timer' = Unset
  /\ orphans' = <<>>
  /\ asking' = "nobody"
  /\ UNCHANGED <<dateNow, windowStart, startedAt, checks, hidden, asked, returns, mounts,
                 earlier>>

\* `check again': a window of the customer's own wish.  A question that is under
\* way is not repeated.  While the page still polls, its loop goes on from the old
\* start, askew to the new window: one more question may fall into that.
CheckAgain ==
  /\ view \in {"polls", "gaveUp"}
  /\ mounts < MaxMounts
  /\ IF view = "gaveUp"
     THEN effectStarts(dateNow)
     ELSE windowStart' = dateNow /\ UNCHANGED <<view, startedAt, checks, timer, orphans>>
  /\ asking' = IF view = "polls" /\ asking = "loop" THEN "loop" ELSE "else"
  /\ asked' = IF asking = "nobody" THEN asked + 1 ELSE asked
  /\ mounts' = mounts + 1
  /\ earlier' = earlier + checksDue(dateNow - windowStart) + 1
  /\ UNCHANGED <<dateNow, hidden, returns>>

-----------------------------------------------------------------------------
\* The loop.

givesUp(n) ==
  /\ view' = "gaveUp"
  /\ checks' = n
  /\ timer' = Unset
  /\ orphans' = <<>>
  /\ UNCHANGED <<asking, asked>>

\* The timer that is still set stays set when another takes its place.
setTimers == IF timer = Unset THEN orphans ELSE Append(orphans, timer)

\* run() in a tab that is seen, with the timers that are left when it starts.
\* A question that is under way swallows this one, and the loop goes on at once.
proceed(t, rest) ==
  LET n == greatest(checks, checksDue(dateNow - startedAt) - 1)
  IN IF n >= POLL_CHECKS_TOTAL THEN givesUp(n)
     ELSE IF asking = "nobody"
     THEN /\ checks' = n + 1
          /\ asking' = "loop"
          /\ asked' = asked + 1
          /\ timer' = t /\ orphans' = rest
          /\ UNCHANGED view
     ELSE IF n + 1 >= POLL_CHECKS_TOTAL THEN givesUp(n + 1)
     ELSE /\ checks' = n + 1
          /\ timer' = nextAt(n + 1, startedAt)
          /\ orphans' = IF t = Unset THEN rest ELSE Append(rest, t)
          /\ UNCHANGED <<view, asking, asked>>

\* A hidden tab parks: the timer is spent.
run(t, rest) ==
  IF hidden
  THEN timer' = t /\ orphans' = rest /\ UNCHANGED <<view, checks, asking, asked>>
  ELSE proceed(t, rest)

due(t) == t # Unset /\ t <= dateNow

TimerRuns ==
  /\ view = "polls"
  /\ due(timer)
  /\ run(Unset, orphans)
  /\ UNCHANGED <<dateNow, windowStart, startedAt, hidden, returns, mounts, earlier>>

OrphanRuns(i) ==
  /\ view = "polls"
  /\ due(orphans[i])
  /\ run(timer, RemoveAt(orphans, i))
  /\ UNCHANGED <<dateNow, windowStart, startedAt, hidden, returns, mounts, earlier>>

Hide ==
  /\ ~hidden
  /\ view = "polls"
  /\ hidden' = TRUE
  /\ UNCHANGED <<dateNow, windowStart, view, startedAt, checks, timer, orphans, asking,
                 asked, returns, mounts, earlier>>

\* onVisible clears the timer and runs.
Show ==
  /\ hidden
  /\ returns < MaxReturns
  /\ hidden' = FALSE
  /\ returns' = returns + 1
  /\ IF view = "polls" THEN proceed(Unset, orphans)
     ELSE UNCHANGED <<view, checks, timer, orphans, asking, asked>>
  /\ UNCHANGED <<dateNow, windowStart, startedAt, mounts, earlier>>

\* The answer: still pending, or the question failed.
StillPending ==
  /\ asking # "nobody"
  /\ asking' = "nobody"
  /\ IF asking = "else" \/ view # "polls"
     THEN UNCHANGED <<view, checks, timer, orphans>>
     ELSE IF checks >= POLL_CHECKS_TOTAL
     THEN /\ view' = "gaveUp" /\ timer' = Unset /\ orphans' = <<>>
          /\ UNCHANGED checks
     ELSE /\ orphans' = setTimers
          /\ timer' = nextAt(checks, startedAt)
          /\ UNCHANGED <<view, checks>>
  /\ UNCHANGED <<dateNow, windowStart, startedAt, hidden, asked, returns, mounts, earlier>>

\* The order is decided: the window is forgotten.
Decided ==
  /\ asking # "nobody"
  /\ asking' = "nobody"
  /\ view' = "decided"
  /\ windowStart' = Unset
  /\ timer' = Unset
  /\ orphans' = <<>>
  /\ UNCHANGED <<dateNow, startedAt, checks, hidden, asked, returns, mounts,
                 earlier>>

TimePasses ==
  /\ dateNow < MaxNow
  /\ dateNow' = dateNow + 1
  /\ UNCHANGED <<windowStart, view, startedAt, checks, timer, orphans, asking, hidden,
                 asked, returns, mounts, earlier>>

ResultNext ==
  \/ LoadResult
  \/ LeaveResult
  \/ CheckAgain
  \/ TimerRuns
  \/ \E i \in DOMAIN orphans : OrphanRuns(i)
  \/ Hide
  \/ Show
  \/ StillPending
  \/ Decided
  \/ TimePasses

ResultSpec == ResultInit /\ [][ResultNext]_resultVars

-----------------------------------------------------------------------------
\* Properties.

ResultTypeOK ==
  /\ dateNow \in Nat
  /\ windowStart \in Nat \cup {Unset}
  /\ view \in {"closed", "polls", "gaveUp", "decided"}
  /\ startedAt \in Nat
  /\ checks \in 0..POLL_CHECKS_TOTAL
  /\ timer \in Nat \cup {Unset}
  /\ orphans \in Seq(Nat)
  /\ asking \in {"nobody", "loop", "else"}
  /\ hidden \in BOOLEAN
  /\ asked \in Nat /\ returns \in Nat /\ mounts \in Nat /\ earlier \in Nat

\* Reloads, hidden tabs, slow answers and timers that were lost sight of do not
\* make the page ask more often than its deadlines allow, but for one question
\* for each loading of the page and each return to it; and it gives up no
\* earlier than its window ends, but for the deadlines that returns have used up.
AsksOnSchedule ==
  /\ windowStart # Unset =>
       asked <= earlier + checksDue(dateNow - windowStart) + returns + mounts
  /\ view = "gaveUp" =>
       POLL_CHECKS_TOTAL <= checksDue(dateNow - startedAt) + 2 * returns
=============================================================================
