------------------------------- MODULE Backups --------------------------------
(***************************************************************************)
(* The daily copies of the database: backupNow of backend/lib/db.js, which *)
(* every worker calls when it starts and every six hours (server.js), and  *)
(* the panel on request (routes/admin.js).  A run works without an await,  *)
(* but the other workers, the end of the day, damage to the file and the   *)
(* end of the process may come between any two of its calls.               *)
(***************************************************************************)
EXTENDS Integers, FiniteSets

CONSTANTS
  Runs,   \* calls of backupNow that may be under way, in all workers
  KEEP,   \* the newest daily files that a rotation leaves
  LastCopyDay \* bound: of the calendar

\* A run may see one midnight (StampTurns): the file it has just written is then the
\* newest but one.
ASSUME BackupAssumption ==
  /\ KEEP \in Nat /\ KEEP >= 2
  /\ LastCopyDay \in Nat \ {0}

VARIABLES
  stamp,  \* toISOString().slice(0, 10)
  sound,  \* what quick_check would say of the database
  copies, \* the daily files in BACKUP_DIR (main) and BACKUP_DIR2 (second)
  run     \* the calls

backupVars == <<stamp, sound, copies, run>>

Days == 1..LastCopyDay

\* `bad' is a copy of a damaged database, or one that was not completed.
File == {"none", "good", "bad"}

\* `clean' is history: the database was sound when the run looked at it.
NotRunning == [phase |-> "idle", day |-> 1, rotate |-> FALSE, excess |-> {},
               clean |-> FALSE]

BackupInit ==
  /\ stamp = 1
  /\ sound = TRUE
  /\ copies = [main |-> [d \in Days |-> "none"], second |-> [d \in Days |-> "none"]]
  /\ run = [r \in Runs |-> NotRunning]

-----------------------------------------------------------------------------

daily(dir) == {d \in Days : copies[dir][d] # "none"}

\* sort, and shift while more than KEEP are left: all but the newest.
surplus(dir) == {d \in daily(dir) : Cardinality({e \in daily(dir) : e > d}) >= KEEP}

\* A call that ends by returning or by throwing.
returns(r) == run' = [run EXCEPT ![r] = NotRunning]

goesTo(r, phase) == run' = [run EXCEPT ![r].phase = phase]

\* There is no file of today yet; with one the call returns at once.
Begin(r) ==
  /\ run[r].phase = "idle"
  /\ copies.main[stamp] = "none"
  /\ run' = [run EXCEPT ![r] = [NotRunning EXCEPT !.phase = "begun", !.day = stamp]]
  /\ UNCHANGED <<stamp, sound, copies>>

\* Faulty: rotates whatever the check says.
quickCheck_ignored(r) ==
  /\ run[r].phase = "begun"
  /\ run' = [run EXCEPT ![r].phase = "checked", ![r].rotate = TRUE,
                         ![r].clean = sound]
  /\ UNCHANGED <<stamp, sound, copies>>

quickCheck(r) ==
  /\ run[r].phase = "begun"
  /\ run' = [run EXCEPT ![r].phase = "checked", ![r].rotate = sound,
                         ![r].clean = sound]
  /\ UNCHANGED <<stamp, sound, copies>>

\* VACUUM INTO copies what the database is by now.
VacuumInto(r) ==
  /\ run[r].phase = "checked"
  /\ copies.main[run[r].day] = "none"
  /\ copies' = [copies EXCEPT !.main[run[r].day] = IF sound THEN "good" ELSE "bad"]
  /\ goesTo(r, "saved")
  /\ UNCHANGED <<stamp, sound>>

\* Another worker has written the file: VACUUM INTO refuses to overwrite it.
VacuumRefused(r) ==
  /\ run[r].phase = "checked"
  /\ copies.main[run[r].day] # "none"
  /\ returns(r)
  /\ UNCHANGED <<stamp, sound, copies>>

\* The disk is full, the database cannot be read, or the process ends: what was
\* written so far stays behind, and is the file of its day.
VacuumBreaks(r) ==
  /\ run[r].phase = "checked"
  /\ copies.main[run[r].day] = "none"
  /\ copies' = [copies EXCEPT !.main[run[r].day] = "bad"]
  /\ returns(r)
  /\ UNCHANGED <<stamp, sound>>

-----------------------------------------------------------------------------
\* Rotation, in BACKUP_DIR after `saved' and in BACKUP_DIR2 after `copied'.

\* readdirSync.
List(r, dir, before, after) ==
  /\ run[r].phase = before
  /\ run[r].rotate
  /\ run' = [run EXCEPT ![r].phase = after, ![r].excess = surplus(dir)]
  /\ UNCHANGED <<stamp, sound, copies>>

\* unlinkSync, oldest first, up to a file that another worker has taken.
deletable(r, dir) ==
  {d \in run[r].excess : \A e \in run[r].excess : e <= d => e \in daily(dir)}

Unlink(r, dir) ==
  copies' = [copies EXCEPT ![dir] =
              [d \in Days |-> IF d \in deletable(r, dir) THEN "none" ELSE @[d]]]

RotateMain(r) ==
  /\ run[r].phase = "listed"
  /\ Unlink(r, "main")
  /\ IF deletable(r, "main") = run[r].excess THEN goesTo(r, "rotated") ELSE returns(r)
  /\ UNCHANGED <<stamp, sound>>

\* Without a clean check nothing is rotated.
SkipsRotation(r) ==
  /\ run[r].phase = "saved"
  /\ ~run[r].rotate
  /\ goesTo(r, "rotated")
  /\ UNCHANGED <<stamp, sound, copies>>

\* copyFileSync to BACKUP_DIR2.
CopyFile(r) ==
  /\ run[r].phase = "rotated"
  /\ copies.main[run[r].day] # "none"
  /\ copies' = [copies EXCEPT !.second[run[r].day] = copies.main[run[r].day]]
  /\ IF run[r].rotate THEN goesTo(r, "copied") ELSE returns(r)
  /\ UNCHANGED <<stamp, sound>>

\* The second disk is full or away, or the process ends while it copies.
CopyBreaks(r) ==
  /\ run[r].phase = "rotated"
  /\ copies' = [copies EXCEPT !.second[run[r].day] = "bad"]
  /\ returns(r)
  /\ UNCHANGED <<stamp, sound>>

RotateSecond(r) ==
  /\ run[r].phase = "listedSecond"
  /\ Unlink(r, "second")
  /\ returns(r)
  /\ UNCHANGED <<stamp, sound>>

\* No BACKUP_DIR2, a call that throws, or the end of the process.
Breaks(r) ==
  /\ run[r].phase # "idle"
  /\ returns(r)
  /\ UNCHANGED <<stamp, sound, copies>>

-----------------------------------------------------------------------------
\* What happens around the runs.

Damage ==
  /\ sound
  /\ sound' = FALSE
  /\ UNCHANGED <<stamp, copies, run>>

\* Somebody repairs the database or puts a copy in its place.
Repair ==
  /\ ~sound
  /\ sound' = TRUE
  /\ UNCHANGED <<stamp, copies, run>>

StampTurns ==
  /\ stamp < LastCopyDay
  /\ \A r \in Runs : run[r].phase # "idle" => run[r].day = stamp
  /\ stamp' = stamp + 1
  /\ UNCHANGED <<sound, copies, run>>

BackupNext ==
  \/ \E r \in Runs :
       \/ Begin(r)
       \/ quickCheck(r)
       \/ VacuumInto(r)
       \/ VacuumRefused(r)
       \/ VacuumBreaks(r)
       \/ List(r, "main", "saved", "listed")
       \/ RotateMain(r)
       \/ SkipsRotation(r)
       \/ CopyFile(r)
       \/ CopyBreaks(r)
       \/ List(r, "second", "copied", "listedSecond")
       \/ RotateSecond(r)
       \/ Breaks(r)
  \/ Damage
  \/ Repair
  \/ StampTurns

BackupSpec == BackupInit /\ [][BackupNext]_backupVars

-----------------------------------------------------------------------------
\* Properties.

BackupTypeOK ==
  /\ stamp \in Days
  /\ sound \in BOOLEAN
  /\ copies \in [main : [Days -> File], second : [Days -> File]]
  /\ run \in [Runs -> [phase : {"idle", "begun", "checked", "saved", "listed",
                                "rotated", "copied", "listedSecond"},
                       day : Days, rotate : BOOLEAN, excess : SUBSET Days,
                       clean : BOOLEAN]]

hasGood(dir) == \E d \in Days : copies[dir][d] = "good"

\* The last good copy of a directory goes in this step, and a run is about whose
\* check was clean and whose copy was not.
LostOnlyToDamage ==
  \A dir \in {"main", "second"} :
    hasGood(dir) /\ ~hasGood(dir)'
      => \E r \in Runs : run[r].clean /\ copies.main[run[r].day] = "bad"

\* The last good copy in a directory goes only where the database was damaged in
\* the moments between a run's clean check and its copy: not by days of damage,
\* unfinished files, runs of other workers or a run that lasts past midnight.
LastGoodCopyStays == [][LostOnlyToDamage]_backupVars
=============================================================================
