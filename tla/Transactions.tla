----------------------------- MODULE Transactions -----------------------------
(***************************************************************************)
(* transaction() of backend/lib/db.js in one process: BEGIN and COMMIT for *)
(* the outermost call, a savepoint for each call inside it, and the undo   *)
(* of whichever of them fails.  No caller in the code catches an error     *)
(* inside a transaction, so an error unwinds every call.  SQLite may, on a *)
(* full disk or an I/O error, undo the whole transaction by itself.        *)
(***************************************************************************)
EXTENDS Integers, Sequences

CONSTANT MaxNesting  \* bound: of the calls inside each other

ASSUME NestingAssumption == MaxNesting \in Nat \ {0}

VARIABLES
  txDepth,
  levels,   \* what SQLite has open: BEGIN counts for one, a savepoint each
  calls,    \* the calls under way, outermost first, each with its `level'
  thrown,   \* an error is on its way through the calls
  wrote,    \* history: the outermost call has written
  durable,  \* history: what it has written is in the database for good
  outcome   \* history: how the last outermost call ended

txVars == <<txDepth, levels, calls, thrown, wrote, durable, outcome>>

TxInit ==
  /\ txDepth = 0
  /\ levels = 0
  /\ calls = <<>>
  /\ thrown = FALSE
  /\ wrote = FALSE
  /\ durable = FALSE
  /\ outcome = "none"

-----------------------------------------------------------------------------

\* The `level' of the innermost call.
innermost == calls[Len(calls)]

\* The error leaves the call; whoever is outermost sees it.
leave(threw) ==
  /\ calls' = SubSeq(calls, 1, Len(calls) - 1)
  /\ thrown' = (threw /\ Len(calls) > 1)
  /\ outcome' = IF Len(calls) > 1 THEN "none" ELSE IF threw THEN "threw" ELSE "returned"

\* ROLLBACK, or ROLLBACK TO and RELEASE; their own errors are swallowed.
undo(level, n) == IF level = 0 THEN 0 ELSE IF n > level THEN level ELSE n

\* SQLite reports an error and may have rolled back on its own.
afterError == {levels, 0}

Begin ==
  /\ ~thrown
  /\ Len(calls) < MaxNesting
  /\ txDepth = 0 => levels = 0
  /\ levels' = levels + 1
  /\ txDepth' = txDepth + 1
  /\ calls' = Append(calls, txDepth)
  /\ wrote' = (wrote /\ calls # <<>>)
  /\ durable' = (durable /\ calls # <<>>)
  /\ outcome' = "none"
  /\ UNCHANGED thrown

\* The database is locked, or there is a transaction already.
BeginFails ==
  /\ ~thrown
  /\ Len(calls) < MaxNesting
  /\ thrown' = (calls # <<>>)
  /\ UNCHANGED <<txDepth, levels, calls, wrote, durable, outcome>>

\* A statement that finds no transaction open commits itself.
Write ==
  /\ ~thrown
  /\ calls # <<>>
  /\ wrote' = TRUE
  /\ durable' = (durable \/ levels = 0)
  /\ UNCHANGED <<txDepth, levels, calls, thrown, outcome>>

FnThrows ==
  /\ ~thrown
  /\ calls # <<>>
  /\ levels' \in afterError
  /\ thrown' = TRUE
  /\ UNCHANGED <<txDepth, calls, wrote, durable, outcome>>

\* The catch around fn.
Unwind ==
  /\ thrown
  /\ txDepth' = txDepth - 1
  /\ levels' = undo(innermost, levels)
  /\ leave(TRUE)
  /\ UNCHANGED <<wrote, durable>>

Commit ==
  /\ ~thrown
  /\ calls # <<>>
  /\ levels > innermost
  /\ txDepth' = txDepth - 1
  /\ levels' = innermost
  /\ durable' = (durable \/ (innermost = 0 /\ wrote))
  /\ leave(FALSE)
  /\ UNCHANGED wrote

\* Faulty: a COMMIT that fails is only reported.
CommitFails_keepsOpen ==
  /\ ~thrown
  /\ calls # <<>>
  /\ txDepth' = txDepth - 1
  /\ levels' \in afterError
  /\ leave(TRUE)
  /\ UNCHANGED <<wrote, durable>>

CommitFails ==
  /\ ~thrown
  /\ calls # <<>>
  /\ txDepth' = txDepth - 1
  /\ \E n \in afterError : levels' = undo(innermost, n)
  /\ leave(TRUE)
  /\ UNCHANGED <<wrote, durable>>

TxNext ==
  \/ Begin
  \/ BeginFails
  \/ Write
  \/ FnThrows
  \/ Unwind
  \/ Commit
  \/ CommitFails

TxSpec == TxInit /\ [][TxNext]_txVars

-----------------------------------------------------------------------------
\* Properties.

TxTypeOK ==
  /\ txDepth \in Nat
  /\ levels \in Nat
  /\ calls \in Seq(Nat)
  /\ thrown \in BOOLEAN
  /\ wrote \in BOOLEAN
  /\ durable \in BOOLEAN
  /\ outcome \in {"none", "returned", "threw"}

\* When no call is under way nothing is left open, so the next BEGIN can
\* succeed; and the last transaction's writes are in the database exactly if it
\* returned, whichever of its statements, savepoints or its COMMIT failed.
AllOrNothing ==
  calls = <<>> =>
    /\ txDepth = 0 /\ levels = 0
    /\ durable <=> (outcome = "returned" /\ wrote)
=============================================================================
