----------------------------- MODULE ClusterProofs -----------------------------
(***************************************************************************)
(* Cluster for every number of workers, ids and deaths.                    *)
(***************************************************************************)
EXTENDS Cluster, FiniteSetTheorems, TLAPS

\* CapacityKept needs the types, and that an id is not counted as young and old.
ClusterInv == TypeOK /\ CapacityKept

\* The workers that are young after a fork, with the old ones that are left, are
\* one more than the workers before.
LEMMA ForkAddsOne ==
  ASSUME TypeOK, NEW alive \in SUBSET workers, forkWorker(alive), old' = old \cap alive
  PROVE  /\ young' \in SUBSET Ids
         /\ young' \cap old' = {}
         /\ Cardinality(workers') = Cardinality(alive) + 1
<1>1. PICK w \in Ids \ alive : young' = (young \cap alive) \cup {w}
  BY DEF forkWorker
<1>2. workers' = alive \cup {w}
  BY <1>1 DEF workers
<1>3. IsFiniteSet(alive)
  BY ClusterAssumption, FS_Subset DEF TypeOK, workers
<1>4. Cardinality(alive \cup {w}) = Cardinality(alive) + 1
  BY <1>1, <1>3, FS_AddElement
<1> QED
  BY <1>1, <1>2, <1>4 DEF TypeOK, workers

\* A worker that is taken away is one less.
LEMMA DeathTakesOne ==
  ASSUME TypeOK, NEW w \in workers
  PROVE  /\ Cardinality(workers \ {w}) = Cardinality(workers) - 1
         /\ Cardinality(workers) \in Nat
<1>1. IsFiniteSet(workers)
  BY ClusterAssumption, FS_Subset DEF TypeOK, workers
<1> QED
  BY <1>1, FS_RemoveElement, FS_CardinalityType

\* The invariant holds when the master has forked its workers.
LEMMA InitClusterInv == Init => ClusterInv
<1> SUFFICES ASSUME Init PROVE ClusterInv
  OBVIOUS
<1>1. TypeOK
  <2>1. MaxDeaths \in Nat
    BY ClusterAssumption
  <2>2. young \in SUBSET Ids /\ old = {} /\ timers = 0 /\ crashingWorkers = 0
    BY DEF Init
  <2>3. shuttingDown \in BOOLEAN /\ master = "running" /\ deaths = 0
    BY DEF Init
  <2> QED
    BY <2>1, <2>2, <2>3 DEF TypeOK
<1>2. workers = young
  BY DEF Init, workers
<1>3. CapacityKept
  <2>1. Cardinality(workers) = WORKERS /\ timers = 0
    BY <1>2 DEF Init
  <2> QED
    BY <2>1, ClusterAssumption DEF CapacityKept
<1> QED
  BY <1>1, <1>3 DEF ClusterInv

\* Every step keeps it.
LEMMA NextClusterInv == ClusterInv /\ [Next]_vars => ClusterInv'
<1> SUFFICES ASSUME ClusterInv, [Next]_vars PROVE ClusterInv'
  OBVIOUS
<1> USE DEF ClusterInv
<1>1. ASSUME NEW w \in Ids, GrowsOld(w) PROVE ClusterInv'
  <2>1. workers' = workers
    BY <1>1 DEF GrowsOld, workers
  <2> QED
    BY <1>1, <2>1 DEF GrowsOld, TypeOK, CapacityKept
<1>2. ASSUME NEW w \in Ids, OldDies(w) PROVE ClusterInv'
  <2>1. old' = old \cap (workers \ {w}) /\ forkWorker(workers \ {w}) /\ w \in workers
    BY <1>2 DEF OldDies, workers
  <2>2. /\ young' \in SUBSET Ids
        /\ young' \cap old' = {}
        /\ Cardinality(workers') = Cardinality(workers \ {w}) + 1
    BY <2>1, ForkAddsOne
  <2>3. /\ Cardinality(workers \ {w}) = Cardinality(workers) - 1
        /\ Cardinality(workers) \in Nat
    BY <2>1, DeathTakesOne
  <2>4. Cardinality(workers') = Cardinality(workers)
    BY <2>2, <2>3
  <2>5. TypeOK'
    BY <1>2, <2>2, ClusterAssumption DEF OldDies, TypeOK
  <2> QED
    BY <1>2, <2>4, <2>5 DEF OldDies, CapacityKept
<1>3. ASSUME NEW w \in Ids, YoungDies(w) PROVE ClusterInv'
  <2>1. workers' = workers \ {w} /\ w \in workers
    BY <1>3 DEF YoungDies, workers, TypeOK
  <2>2. /\ Cardinality(workers \ {w}) = Cardinality(workers) - 1
        /\ Cardinality(workers) \in Nat
    BY <2>1, DeathTakesOne
  <2>3. TypeOK'
    BY <1>3, ClusterAssumption DEF YoungDies, TypeOK
  <2>4. CapacityKept'
    BY <1>3, <2>1, <2>2 DEF YoungDies, TypeOK, CapacityKept
  <2> QED
    BY <2>3, <2>4
<1>4. ASSUME NEW w \in Ids, WorkerEnds(w) PROVE ClusterInv'
  BY <1>4 DEF WorkerEnds, TypeOK, CapacityKept
<1>5. CASE TimerFires
  <2>1. CASE shuttingDown
    BY <1>5, <2>1 DEF TimerFires, TypeOK, CapacityKept
  <2>2. CASE ~shuttingDown
    <3>1. forkWorker(workers) /\ old' = old \cap workers
      BY <1>5, <2>2 DEF TimerFires, workers
    <3>2. /\ young' \in SUBSET Ids
          /\ young' \cap old' = {}
          /\ Cardinality(workers') = Cardinality(workers) + 1
      BY <3>1, ForkAddsOne
    <3>3. Cardinality(workers) \in Nat
      BY ClusterAssumption, FS_Subset, FS_CardinalityType DEF TypeOK, workers
    <3> QED
      BY <1>5, <2>2, <3>2, <3>3 DEF TimerFires, TypeOK, CapacityKept
  <2> QED
    BY <2>1, <2>2 DEF TypeOK
<1>6. CASE shutdownAll
  BY <1>6 DEF shutdownAll, TypeOK, CapacityKept
<1>7. CASE GraceEnds
  BY <1>7 DEF GraceEnds, TypeOK, CapacityKept
<1>8. CASE LoopEmpties
  BY <1>8 DEF LoopEmpties, TypeOK, CapacityKept
<1>9. CASE UNCHANGED vars
  BY <1>9 DEF vars, TypeOK, CapacityKept, workers
<1> QED
  BY <1>1, <1>2, <1>3, <1>4, <1>5, <1>6, <1>7, <1>8, <1>9 DEF Next, WorkerStep

\* The invariant holds in every reachable state.
THEOREM ClusterInvariance == Spec => []ClusterInv
<1> QED
  BY InitClusterInv, NextClusterInv, PTL DEF Spec

\* The master accounts for every death, for any number of workers: those that
\* run and those that wait for their timer are WORKERS together.
THEOREM CapacityIsKept == Spec => []CapacityKept
<1>1. ClusterInv => CapacityKept
  BY DEF ClusterInv
<1> QED
  BY <1>1, ClusterInvariance, PTL

\* Nobody is born after the signal.
THEOREM NoBirthAfterSignal == Spec => NoBirthInShutdown
<1> DEFINE Fewer == shuttingDown => workers' \subseteq workers
<1>1. ClusterInv /\ [Next]_vars => [Fewer]_vars
  BY DEF ClusterInv, Next, WorkerStep, GrowsOld, OldDies, YoungDies, WorkerEnds, TimerFires,
         shutdownAll, GraceEnds, LoopEmpties, workers
<1> QED
  BY <1>1, ClusterInvariance, PTL DEF Spec, NoBirthInShutdown
=============================================================================
