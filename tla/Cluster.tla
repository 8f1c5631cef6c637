-------------------------------- MODULE Cluster --------------------------------
(***************************************************************************)
(* The cluster master of backend/lib/cluster.js: it keeps a fixed number   *)
(* of server processes running, restarts the ones that die, gives up when  *)
(* too many die young, and stops them all on SIGINT or SIGTERM.            *)
(*                                                                         *)
(* The master is one Node process, so each event it handles (a worker's    *)
(* exit, a restart timer, a signal) is one action.  Its restart timers are *)
(* unref'd: they do not keep the master's event loop alive.                *)
(***************************************************************************)
EXTENDS Integers, FiniteSets

CONSTANTS
  Ids,        \* worker ids; the id of a dead worker may be used again
  WORKERS,    \* how many workers the master keeps running
  MaxDeaths   \* bound: deaths of workers that nobody asked for

ASSUME ClusterAssumption ==
  /\ IsFiniteSet(Ids)
  /\ WORKERS \in Nat \ {0}
  /\ WORKERS <= Cardinality(Ids)
  /\ MaxDeaths \in Nat

VARIABLES
  young,            \* workers forked less than YOUNG_CRASH_MS ago
  old,              \* the other workers
  timers,           \* restarts that wait for their setTimeout
  crashingWorkers,  \* the count of young deaths
  shuttingDown,     \* a signal was handled
  master,           \* "running", or how it ended: "aborted", "left", "stopped"
  deaths            \* bound: deaths so far

vars == <<young, old, timers, crashingWorkers, shuttingDown, master, deaths>>

workers == young \cup old

Init ==
  /\ young \in SUBSET Ids /\ Cardinality(young) = WORKERS
  /\ old = {}
  /\ timers = 0
  /\ crashingWorkers = 0
  /\ shuttingDown = FALSE
  /\ master = "running"
  /\ deaths = 0

-----------------------------------------------------------------------------

\* `alive' are the workers that are left when the new one is forked.
forkWorker(alive) == \E w \in Ids \ alive : young' = (young \cap alive) \cup {w}

\* YOUNG_CRASH_MS go by in the life of a worker.
GrowsOld(w) ==
  /\ w \in young
  /\ young' = young \ {w}
  /\ old' = old \cup {w}
  /\ UNCHANGED <<timers, crashingWorkers, shuttingDown, master, deaths>>

\* A worker dies; while the master runs this is its `exit' handler.

OldDies(w) ==
  /\ w \in old /\ ~shuttingDown /\ master = "running"
  /\ deaths < MaxDeaths /\ deaths' = deaths + 1
  /\ crashingWorkers' = 0
  /\ old' = old \ {w}
  /\ forkWorker(workers \ {w})
  /\ UNCHANGED <<timers, shuttingDown, master>>

\* Faulty: a young death is counted and not made good.
YoungDies_forgotten(w) ==
  /\ w \in young /\ ~shuttingDown /\ master = "running"
  /\ deaths < MaxDeaths /\ deaths' = deaths + 1
  /\ crashingWorkers' = crashingWorkers + 1
  /\ young' = young \ {w}
  /\ IF crashingWorkers + 1 >= WORKERS THEN master' = "aborted" ELSE UNCHANGED master
  /\ UNCHANGED <<old, timers, shuttingDown>>

\* The WORKERS-th young death ends the master; otherwise a timer is set.
YoungDies(w) ==
  /\ w \in young /\ ~shuttingDown /\ master = "running"
  /\ deaths < MaxDeaths /\ deaths' = deaths + 1
  /\ crashingWorkers' = crashingWorkers + 1
  /\ young' = young \ {w}
  /\ IF crashingWorkers + 1 >= WORKERS
     THEN master' = "aborted" /\ UNCHANGED timers
     ELSE timers' = timers + 1 /\ UNCHANGED master
  /\ UNCHANGED <<old, shuttingDown>>

\* A worker that was sent SIGTERM ends (server.js, shutdown), or a worker whose
\* master is gone; nobody restarts it.  Any other death during shutdown is the same.
WorkerEnds(w) ==
  /\ w \in workers
  /\ shuttingDown \/ master # "running"
  /\ young' = young \ {w}
  /\ old' = old \ {w}
  /\ UNCHANGED <<timers, crashingWorkers, shuttingDown, master, deaths>>

\* Faulty: the timer does not look at shuttingDown.
TimerFires_always ==
  /\ timers > 0 /\ master = "running"
  /\ timers' = timers - 1
  /\ forkWorker(workers)
  /\ UNCHANGED <<old, crashingWorkers, shuttingDown, master, deaths>>

TimerFires ==
  /\ timers > 0 /\ master = "running"
  /\ timers' = timers - 1
  /\ IF shuttingDown THEN UNCHANGED young ELSE forkWorker(workers)
  /\ UNCHANGED <<old, crashingWorkers, shuttingDown, master, deaths>>

\* SIGINT or SIGTERM; a second signal changes nothing.
shutdownAll ==
  /\ ~shuttingDown /\ master = "running"
  /\ shuttingDown' = TRUE
  /\ UNCHANGED <<young, old, timers, crashingWorkers, master, deaths>>

\* Faulty: the walk over cluster.workers throws and takes the master with it.
GraceEnds_throws ==
  /\ shuttingDown /\ master = "running"
  /\ master' = "aborted"
  /\ UNCHANGED <<young, old, timers, crashingWorkers, shuttingDown, deaths>>

\* SHUTDOWN_GRACE_MS after the signal: SIGKILL to all that are left, exit(0).
GraceEnds ==
  /\ shuttingDown /\ master = "running"
  /\ young' = {} /\ old' = {}
  /\ master' = "stopped"
  /\ UNCHANGED <<timers, crashingWorkers, shuttingDown, deaths>>

\* Without a worker nothing keeps the event loop alive: the master ends with
\* code 0, restart timers or not.
LoopEmpties ==
  /\ workers = {} /\ master = "running"
  /\ master' = IF shuttingDown THEN "stopped" ELSE "left"
  /\ UNCHANGED <<young, old, timers, crashingWorkers, shuttingDown, deaths>>

-----------------------------------------------------------------------------

WorkerStep == \E w \in Ids : GrowsOld(w) \/ OldDies(w) \/ YoungDies(w) \/ WorkerEnds(w)

Next == WorkerStep \/ TimerFires \/ shutdownAll \/ GraceEnds \/ LoopEmpties

Spec == Init /\ [][Next]_vars

\* Timers fire, workers end when they are told to, an empty loop ends the process.
Fairness ==
  /\ \A w \in Ids : WF_vars(WorkerEnds(w))
  /\ WF_vars(TimerFires)
  /\ WF_vars(GraceEnds)
  /\ WF_vars(LoopEmpties)

FairSpec == Spec /\ Fairness

-----------------------------------------------------------------------------
\* Properties.

\* The types; a worker is either young or old.
TypeOK ==
  /\ young \in SUBSET Ids
  /\ old \in SUBSET Ids
  /\ young \cap old = {}
  /\ timers \in Nat
  /\ crashingWorkers \in Nat
  /\ shuttingDown \in BOOLEAN
  /\ master \in {"running", "aborted", "left", "stopped"}
  /\ deaths \in 0..MaxDeaths

\* No death is forgotten and none is made good twice: while nobody asked the
\* master to stop, the workers and the restarts under way add up to WORKERS
\* (the dead worker that stayed dead "for ever", cluster.js:76-79).
CapacityKept ==
  master = "running" /\ ~shuttingDown => Cardinality(workers) + timers = WORKERS

\* After the signal no worker is born, also by a timer that was set before it.
NoBirthInShutdown == [][shuttingDown => workers' \subseteq workers]_vars

\* Once workers stop dying, all of them run again, unless the master ended.
Recovers ==
  <>[](Cardinality(workers) = WORKERS \/ shuttingDown \/ master # "running")

\* A signal ends master and workers, whatever crashes in the meantime.
StopsWhenAsked == shuttingDown ~> master = "stopped" /\ workers = {}

\* cluster.js:79-80: "now a young crash is restarted as well, after a delay".  The
\* master does not end with such a restart still to come.
YoungDeathsAreMadeGood == master = "left" => timers = 0
=============================================================================
