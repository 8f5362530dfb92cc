---------------------------- MODULE MCNodeProofs ----------------------------
(***************************************************************************)
(* Proofs about the reader-writer lock, the monitor of endless loops, the  *)
(* threads of a node and shared objects, and what the proofs about all     *)
(* parts of a node say of the instances that TLC checks.  The parts do not *)
(* disturb each other: a behaviour of AllSpec takes steps of one part,     *)
(* whose invariant holds by the theorem about it.                          *)
(***************************************************************************)
EXTENDS MCNode, FiniteSetTheorems, TLAPS

-----------------------------------------------------------------------------
(* The reader-writer lock, which MCNode extends: mutual exclusion for      *)
(* every finite set of threads.                                            *)

\* The set of counted readers is finite, so its size is a number that is zero
\* only when nobody is counted.
LEMMA CountedFinite ==
  ASSUME NEW S \in SUBSET Threads
  PROVE  /\ IsFiniteSet(S)
         /\ Cardinality(S) \in Nat
         /\ Cardinality(S) = 0 <=> S = {}
BY ThreadsFinite, FS_Subset, FS_CardinalityType, FS_EmptySet

\* IInv holds at the start.
LEMMA InitIInv == Init => IInv
<1> SUFFICES ASSUME Init PROVE IInv
  OBVIOUS
<1>1. Counted = {} /\ Owners = {}
  BY DEF Init, Counted, Owners
<1>2. Cardinality(Counted) = 0
  BY <1>1, FS_EmptySet
<1> QED
  BY <1>1, <1>2 DEF Init, IInv, TypeOK, Labels, Counted, Owners

\* A thread that joins the counted readers adds one to their number.
LEMMA Joins ==
  ASSUME TypeOK, NEW t \in Threads, pc[t] = "add",
         pc' = [pc EXCEPT ![t] = "check"]
  PROVE  Cardinality(Counted') = Cardinality(Counted) + 1
<1>1. Counted' = Counted \cup {t} /\ t \notin Counted
  BY DEF TypeOK, Counted
<1>2. IsFiniteSet(Counted)
  BY CountedFinite DEF Counted
<1> QED
  BY <1>1, <1>2, FS_AddElement

\* A counted reader that leaves takes one off.
LEMMA Leaves ==
  ASSUME TypeOK, NEW t \in Threads, pc[t] \in {"undo", "reading"},
         pc' = [pc EXCEPT ![t] = "out"]
  PROVE  /\ Cardinality(Counted') = Cardinality(Counted) - 1
         /\ Cardinality(Counted) \in Nat \ {0}
<1>1. Counted' = Counted \ {t} /\ t \in Counted
  BY DEF TypeOK, Counted
<1>2. IsFiniteSet(Counted) /\ Cardinality(Counted) \in Nat \ {0}
  BY <1>1, CountedFinite DEF Counted
<1> QED
  BY <1>1, <1>2, FS_RemoveElement

\* Every step preserves the inductive invariant.
LEMMA StepIInv == IInv /\ [Next]_vars => IInv'
<1> SUFFICES ASSUME IInv, [Next]_vars PROVE IInv'
  OBVIOUS
<1> USE DEF Goto
<1>0. TypeOK
  BY DEF IInv
<1>1. CASE UNCHANGED vars
  BY <1>1 DEF IInv, TypeOK, Counted, Owners, vars
<1>2. ASSUME NEW t \in Threads, RSpin(t) PROVE IInv'
  <2>1. Counted' = Counted /\ Owners' = Owners
    BY <1>2, <1>0 DEF RSpin, TypeOK, Counted, Owners
  <2> QED
    BY <1>2, <2>1 DEF RSpin, IInv, TypeOK, Labels, Owners
<1>3. ASSUME NEW t \in Threads, RAdd(t) PROVE IInv'
  <2>1. Cardinality(Counted') = Cardinality(Counted) + 1
    BY <1>0, <1>3, Joins DEF RAdd
  <2> QED
    BY <1>3, <2>1 DEF RAdd, IInv, TypeOK, Labels, Owners
<1>4. ASSUME NEW t \in Threads, RBackOff(t) PROVE IInv'
  <2>1. Counted' = Counted /\ Owners' = Owners
    BY <1>4, <1>0 DEF RBackOff, TypeOK, Counted, Owners
  <2> QED
    BY <1>4, <2>1 DEF RBackOff, IInv, TypeOK, Labels, Owners
<1>5. ASSUME NEW t \in Threads, REnter(t) PROVE IInv'
  <2>1. Counted' = Counted /\ Owners' = Owners
    BY <1>5, <1>0 DEF REnter, TypeOK, Counted, Owners
  \* lock->write was 0, so nobody writes.
  <2>2. \A u \in Threads : pc[u] # "writing" /\ pc'[u] # "writing"
    BY <1>5 DEF REnter, IInv, TypeOK, Owners
  <2> QED
    BY <1>5, <2>1, <2>2 DEF REnter, IInv, TypeOK, Labels, Owners
<1>6. ASSUME NEW t \in Threads, RUndo(t) \/ RUnlock(t) PROVE IInv'
  <2>1. /\ Cardinality(Counted') = Cardinality(Counted) - 1
        /\ Cardinality(Counted) \in Nat \ {0}
    BY <1>0, <1>6, Leaves DEF RUndo, RUnlock
  <2>2. read' \in Nat /\ read' = Cardinality(Counted')
    BY <1>6, <2>1 DEF RUndo, RUnlock, IInv
  <2> QED
    BY <1>6, <2>2 DEF RUndo, RUnlock, IInv, TypeOK, Labels, Owners
<1>7. ASSUME NEW t \in Threads, WAcquire(t) PROVE IInv'
  <2>1. Counted' = Counted
    BY <1>7, <1>0 DEF WAcquire, TypeOK, Counted
  \* lock->write was 0, so there was no owner before.
  <2>2. Owners = {} /\ Owners' = {t}
    BY <1>7 DEF WAcquire, IInv, TypeOK, Owners
  <2> QED
    BY <1>7, <2>1, <2>2 DEF WAcquire, IInv, TypeOK, Labels
<1>8. ASSUME NEW t \in Threads, WEnter(t) PROVE IInv'
  <2>1. Counted' = Counted /\ Owners' = Owners
    BY <1>8, <1>0 DEF WEnter, TypeOK, Counted, Owners
  \* lock->read is 0: no reader is counted, so none is reading.
  <2>2. \A u \in Threads : pc[u] # "reading" /\ pc'[u] # "reading"
    <3>1. Counted = {}
      BY <1>8, CountedFinite DEF WEnter, IInv, Counted
    <3> QED
      BY <1>8, <1>0, <3>1 DEF WEnter, TypeOK, Counted
  <2> QED
    BY <1>8, <2>1, <2>2 DEF WEnter, IInv, TypeOK, Labels, Owners
<1>9. ASSUME NEW t \in Threads, WUnlock(t) PROVE IInv'
  <2>1. Counted' = Counted
    BY <1>9, <1>0 DEF WUnlock, TypeOK, Counted
  <2>2. Owners' = {}
    BY <1>9 DEF WUnlock, IInv, TypeOK, Owners
  <2> QED
    BY <1>9, <2>1, <2>2 DEF WUnlock, IInv, TypeOK, Labels
<1> QED
  BY <1>1, <1>2, <1>3, <1>4, <1>5, <1>6, <1>7, <1>8, <1>9 DEF Next, Lock, Finish

\* IInv gives mutual exclusion.
LEMMA Exclusion == IInv => MutualExclusion
BY DEF IInv, MutualExclusion, Owners

\* rwlock_wlock and rwlock_rlock exclude each other as the handle storage
\* needs it, for any number of threads.
THEOREM RwLockSafe == Spec => []MutualExclusion
<1>1. Spec => []IInv
  BY InitIInv, StepIInv, PTL DEF Spec
<1> QED
  BY <1>1, Exclusion, PTL

-----------------------------------------------------------------------------
(* The monitor of endless loops, for any number of workers and services    *)
(* and any width of sm->version.                                           *)

\* The version wraps within its width.
LEMMA BumpInRange ==
  ASSUME Mon!MonitorConstants, NEW v \in 0..(MonVersionMod - 1)
  PROVE  Mon!Bump(v) \in 0..(MonVersionMod - 1)
BY DEF Mon!MonitorConstants, Mon!Bump

\* IInv holds at the start.
LEMMA MonitorInit == ASSUME Mon!MonitorConstants PROVE Mon!Init => Mon!IInv
BY DEF Mon!MonitorConstants, Mon!Init, Mon!IInv, Mon!TypeOK, Mon!HandsRight, Mon!ChecksRight,
       Mon!StuckIsFlagged, Mon!Checks, Mon!None

\* skynet_monitor_trigger, before and after a callback.  The version changes only
\* outside a callback.
LEMMA TriggerStep ==
  ASSUME Mon!MonitorConstants, Mon!IInv, NEW w \in MonWorkers,
         \/ (\E d \in MonServices : Mon!Take(w, d)) \/ Mon!StoreDestination(w)
         \/ Mon!IncVersion(w) \/ Mon!Return(w)
  PROVE  Mon!IInv'
<1> USE DEF Mon!IInv, Mon!HandsRight, Mon!ChecksRight, Mon!StuckIsFlagged, Mon!Checks
<1>1. ASSUME NEW d \in MonServices, Mon!Take(w, d) PROVE Mon!IInv'
  BY <1>1 DEF Mon!Take, Mon!monVars, Mon!TypeOK, Mon!MonitorConstants
<1>2. CASE Mon!StoreDestination(w)
  BY <1>2 DEF Mon!StoreDestination, Mon!monVars, Mon!TypeOK, Mon!MonitorConstants
<1>3. CASE Mon!IncVersion(w)
  <2>1. Mon!Bump(version[w]) \in 0..(MonVersionMod - 1)
    BY BumpInRange DEF Mon!TypeOK
  <2> QED
    BY <1>3, <2>1 DEF Mon!IncVersion, Mon!monVars, Mon!TypeOK, Mon!MonitorConstants
<1>4. CASE Mon!Return(w)
  BY <1>4 DEF Mon!Return, Mon!monVars, Mon!TypeOK, Mon!MonitorConstants
<1> QED
  BY <1>1, <1>2, <1>3, <1>4

\* cmd_endless clears the flag of the worker's own service, which no other worker has.
LEMMA FlagStep ==
  ASSUME Mon!MonitorConstants, Mon!IInv, NEW w \in MonWorkers, Mon!StatEndless(w)
  PROVE  Mon!IInv'
BY DEF Mon!StatEndless, Mon!IInv, Mon!HandsRight, Mon!ChecksRight, Mon!StuckIsFlagged,
       Mon!Checks, Mon!TypeOK, Mon!MonitorConstants

\* A service that retires changes nothing a monitor looks at.
LEMMA RetireStep ==
  ASSUME Mon!MonitorConstants, Mon!IInv, NEW d \in MonServices, Mon!Retire(d)
  PROVE  Mon!IInv'
BY DEF Mon!Retire, Mon!IInv, Mon!HandsRight, Mon!ChecksRight, Mon!StuckIsFlagged, Mon!Checks,
       Mon!TypeOK

\* skynet_monitor_check, load by load.
LEMMA CheckSteps ==
  ASSUME Mon!MonitorConstants, Mon!IInv, Mon!CheckStep \/ \E w \in MonWorkers : Mon!CheckBegin(w)
  PROVE  Mon!IInv'
<1> USE DEF Mon!IInv, Mon!HandsRight, Mon!ChecksRight, Mon!StuckIsFlagged, Mon!Checks
<1>1. ASSUME NEW w \in MonWorkers, Mon!CheckBegin(w) PROVE Mon!IInv'
  BY <1>1 DEF Mon!CheckBegin, Mon!TypeOK, Mon!MonitorConstants
<1>2. CASE Mon!CheckVersion
  BY <1>2 DEF Mon!CheckVersion, Mon!TypeOK
<1>3. CASE Mon!CheckDestination
  BY <1>3 DEF Mon!CheckDestination, Mon!CheckEnd, Mon!TypeOK, Mon!MonitorConstants
<1>4. CASE Mon!CheckFlag
  BY <1>4 DEF Mon!CheckFlag, Mon!CheckEnd, Mon!ContextEndless, Mon!TypeOK, Mon!MonitorConstants
<1>5. CASE Mon!CheckCopy
  BY <1>5 DEF Mon!CheckCopy, Mon!CheckEnd, Mon!TypeOK, Mon!MonitorConstants
<1> QED
  BY <1>1, <1>2, <1>3, <1>4, <1>5 DEF Mon!CheckStep

\* Every step keeps IInv.
LEMMA MonitorStep ==
  ASSUME Mon!MonitorConstants PROVE Mon!IInv /\ [Mon!Next]_(Mon!vars) => Mon!IInv'
<1> SUFFICES ASSUME Mon!IInv, [Mon!Next]_(Mon!vars) PROVE Mon!IInv'
  OBVIOUS
<1>1. CASE Mon!Next
  BY <1>1, TriggerStep, FlagStep, RetireStep, CheckSteps DEF Mon!Next
<1>2. CASE UNCHANGED Mon!vars
  BY <1>2 DEF Mon!vars, Mon!IInv, Mon!TypeOK, Mon!HandsRight, Mon!ChecksRight,
              Mon!StuckIsFlagged, Mon!Checks
<1> QED
  BY <1>1, <1>2

\* skynet_monitor_check flags a service whose callback outlasts two whole checks of its
\* worker, and accuses only what that worker had in hand during the check: for any
\* interleaving of the unlocked loads and stores, and any wrap of the version.
THEOREM MonitorSound == ASSUME Mon!MonitorConstants PROVE Mon!Spec => []Mon!MonitorRight
<1>1. Mon!Spec => []Mon!IInv
  BY MonitorInit, MonitorStep, PTL DEF Mon!Spec
<1>2. Mon!IInv => Mon!MonitorRight
  BY DEF Mon!IInv, Mon!HandsRight, Mon!MonitorRight, Mon!AccusedWasInHand, Mon!TypeOK
<1> QED
  BY <1>1, <1>2, PTL

-----------------------------------------------------------------------------
(* The threads of a node, for any number of workers: no thread ends while *)
(* a service is left.                                                      *)

\* The operators of FiniteSets are the same in the instance of ThreadPool.
LEMMA PoolFinite == /\ \A S : Pool!Cardinality(S) = Cardinality(S)
                    /\ \A S : Pool!IsFiniteSet(S) <=> IsFiniteSet(S)
BY Zenon DEF Pool!Cardinality, Cardinality, Pool!IsFiniteSet, IsFiniteSet

\* The places of a worker in thread_worker.
PoolLabels == {"loop", "dispatch", "busy", "lock", "check", "wait", "woken", "done"}
At(L)  == {w \in PoolWorkers : ppc[w] \in L}

\* Both counts are of workers, of whom there are finitely many.
LEMMA AtFinite ==
  ASSUME IsFiniteSet(PoolWorkers), NEW L
  PROVE  IsFiniteSet(At(L)) /\ Cardinality(At(L)) \in 0..Pool!count
<1>1. At(L) \in SUBSET PoolWorkers
  BY DEF At
<1>2. IsFiniteSet(At(L)) /\ Cardinality(At(L)) <= Cardinality(PoolWorkers)
  BY <1>1, FS_Subset
<1> QED
  BY <1>2, FS_CardinalityType, PoolFinite DEF Pool!count

\* A worker that goes to label l joins or leaves the set of those at the labels L.
LEMMA AtMoves ==
  ASSUME IsFiniteSet(PoolWorkers), ppc \in [PoolWorkers -> PoolLabels],
         NEW w \in PoolWorkers, NEW l, Pool!Set(w, l), NEW L
  PROVE  Cardinality(At(L)') =
           IF ppc[w] \in L
           THEN IF l \in L THEN Cardinality(At(L)) ELSE Cardinality(At(L)) - 1
           ELSE IF l \in L THEN Cardinality(At(L)) + 1 ELSE Cardinality(At(L))
<1>1. IsFiniteSet(At(L)) /\ Cardinality(At(L)) \in Nat
  BY AtFinite
<1>2. w \in At(L) <=> ppc[w] \in L
  BY DEF At
<1>3. CASE l \in L
  <2>1. At(L)' = At(L) \cup {w}
    BY <1>3 DEF At, Pool!Set
  <2>2. Cardinality(At(L) \cup {w}) = IF w \in At(L) THEN Cardinality(At(L)) ELSE Cardinality(At(L)) + 1
    BY <1>1, FS_AddElement
  <2> QED
    BY <1>1, <1>2, <1>3, <2>1, <2>2
<1>4. CASE l \notin L
  <2>1. At(L)' = At(L) \ {w}
    BY <1>4 DEF At, Pool!Set
  <2>2. Cardinality(At(L) \ {w}) = IF w \in At(L) THEN Cardinality(At(L)) - 1 ELSE Cardinality(At(L))
    BY <1>1, FS_RemoveElement
  <2> QED
    BY <1>1, <1>2, <1>4, <2>1, <2>2
<1> QED
  BY <1>3, <1>4

\* The same for the busy and for the sleeping workers.
Sleepy == {"check", "wait", "woken"}
\* What a step of one worker changes in the two counts.
LEMMA CountsMove ==
  ASSUME Pool!PoolConstants, Pool!TypeOK, NEW w \in PoolWorkers, NEW k \in PoolLabels, NEW l \in PoolLabels,
         ppc[w] = k, Pool!Set(w, l)
  PROVE  /\ ppc' \in [PoolWorkers -> PoolLabels]
         /\ Cardinality(Pool!Busy) \in Nat /\ Cardinality(Pool!Asleep) \in 0..Pool!count
         /\ Cardinality(Pool!Asleep') \in 0..Pool!count
         /\ k = "busy" => Cardinality(Pool!Busy) > 0
         /\ k # "busy" /\ l # "busy" => Cardinality(Pool!Busy') = Cardinality(Pool!Busy)
         /\ k # "busy" /\ l = "busy" => Cardinality(Pool!Busy') = Cardinality(Pool!Busy) + 1
         /\ k = "busy" /\ l # "busy" => Cardinality(Pool!Busy') = Cardinality(Pool!Busy) - 1
         /\ (k \in Sleepy <=> l \in Sleepy) => Cardinality(Pool!Asleep') = Cardinality(Pool!Asleep)
         /\ k \notin Sleepy /\ l \in Sleepy => Cardinality(Pool!Asleep') = Cardinality(Pool!Asleep) + 1
         /\ k \in Sleepy /\ l \notin Sleepy => Cardinality(Pool!Asleep') = Cardinality(Pool!Asleep) - 1
         /\ \A v \in PoolWorkers : ppc'[v] = "done" => ppc[v] = "done" \/ l = "done"
<1>1. ppc \in [PoolWorkers -> PoolLabels] /\ IsFiniteSet(PoolWorkers)
  BY PoolFinite DEF Pool!TypeOK, PoolLabels, Pool!PoolConstants
<1>2. ppc' \in [PoolWorkers -> PoolLabels]
  BY <1>1 DEF Pool!Set
<1>3. Pool!Busy = At({"busy"}) /\ Pool!Asleep = At(Sleepy) /\ Pool!Busy' = At({"busy"})' /\ Pool!Asleep' = At(Sleepy)'
  BY DEF Pool!Busy, Pool!Asleep, At, Sleepy
<1>4. /\ IsFiniteSet(Pool!Busy) /\ Cardinality(Pool!Busy) \in Nat /\ Cardinality(Pool!Asleep) \in 0..Pool!count
  BY <1>1, <1>3, AtFinite
<1>5. Cardinality(Pool!Asleep') \in 0..Pool!count
  <2>1. Pool!Asleep' \in SUBSET PoolWorkers
    BY DEF Pool!Asleep
  <2> QED
    BY <1>1, <2>1, FS_Subset, FS_CardinalityType, PoolFinite DEF Pool!count
<1>6. k = "busy" => Cardinality(Pool!Busy) > 0
  <2>1. k = "busy" => w \in Pool!Busy
    BY DEF Pool!Busy
  <2> QED
    BY <1>4, <2>1, FS_EmptySet
<1>7. Cardinality(At({"busy"})') =
        IF k = "busy"
        THEN IF l = "busy" THEN Cardinality(Pool!Busy) ELSE Cardinality(Pool!Busy) - 1
        ELSE IF l = "busy" THEN Cardinality(Pool!Busy) + 1 ELSE Cardinality(Pool!Busy)
  <2>1. k \in {"busy"} <=> k = "busy"
    OBVIOUS
  <2>2. l \in {"busy"} <=> l = "busy"
    OBVIOUS
  <2>3. Cardinality(At({"busy"})') =
          IF k \in {"busy"}
          THEN IF l \in {"busy"} THEN Cardinality(Pool!Busy) ELSE Cardinality(Pool!Busy) - 1
          ELSE IF l \in {"busy"} THEN Cardinality(Pool!Busy) + 1 ELSE Cardinality(Pool!Busy)
    BY <1>1, <1>3, AtMoves, Zenon
  <2> QED
    BY <2>1, <2>2, <2>3
<1>8. Cardinality(At(Sleepy)') =
        IF k \in Sleepy
        THEN IF l \in Sleepy THEN Cardinality(Pool!Asleep) ELSE Cardinality(Pool!Asleep) - 1
        ELSE IF l \in Sleepy THEN Cardinality(Pool!Asleep) + 1 ELSE Cardinality(Pool!Asleep)
  BY <1>1, <1>3, AtMoves, Zenon
<1>9. \A v \in PoolWorkers : ppc'[v] = "done" => ppc[v] = "done" \/ l = "done"
  BY <1>1 DEF Pool!Set
<1> QED
  BY <1>2, <1>3, <1>4, <1>5, <1>6, <1>7, <1>8, <1>9

\* pthread_cond_signal and a step that moves no worker leave the counts alone.
LEMMA CountsStay ==
  ASSUME Pool!PoolConstants, Pool!TypeOK, Pool!Signal \/ UNCHANGED ppc
  PROVE  /\ ppc' \in [PoolWorkers -> PoolLabels]
         /\ Pool!Busy' = Pool!Busy /\ Pool!Asleep' = Pool!Asleep
         /\ \A w \in PoolWorkers : ppc'[w] = "done" <=> ppc[w] = "done"
         /\ Cardinality(Pool!Busy) \in Nat /\ Cardinality(Pool!Asleep) \in 0..Pool!count
<1>1. ppc \in [PoolWorkers -> PoolLabels] /\ IsFiniteSet(PoolWorkers)
  BY PoolFinite DEF Pool!TypeOK, PoolLabels, Pool!PoolConstants
<1>2. Pool!Busy = At({"busy"}) /\ Pool!Asleep = At({"check", "wait", "woken"})
  BY DEF Pool!Busy, Pool!Asleep, At
<1>3. Cardinality(Pool!Busy) \in Nat /\ Cardinality(Pool!Asleep) \in 0..Pool!count
  BY <1>1, <1>2, AtFinite
<1>4. CASE UNCHANGED ppc
  BY <1>1, <1>3, <1>4 DEF Pool!Busy, Pool!Asleep
<1>5. CASE Pool!Signal /\ ~UNCHANGED ppc
  <2>1. PICK w \in Pool!Waiting : ppc' = [ppc EXCEPT ![w] = "woken"]
    BY <1>5 DEF Pool!Signal, Pool!Set
  <2>2. w \in PoolWorkers /\ ppc[w] = "wait"
    BY <2>1 DEF Pool!Waiting
  <2> QED
    BY <1>1, <1>3, <2>1, <2>2 DEF Pool!Busy, Pool!Asleep, PoolLabels
<1> QED
  BY <1>4, <1>5

-----------------------------------------------------------------------------
\* IInv holds at the start.
LEMMA PoolInit == ASSUME Pool!PoolConstants PROVE Pool!Init => Pool!IInv
<1> SUFFICES ASSUME Pool!Init PROVE Pool!IInv
  OBVIOUS
<1>1. Pool!Busy = {} /\ Pool!Asleep = {}
  BY DEF Pool!Init, Pool!Busy, Pool!Asleep
<1>2. Cardinality({}) = 0 /\ Pool!count \in Nat
  BY FS_EmptySet, FS_CardinalityType, PoolFinite DEF Pool!PoolConstants, Pool!count
<1>3. sleep \in 0..Pool!count
  BY <1>2 DEF Pool!Init
<1>4. Pool!TypeOK
  <2>1. total \in Nat /\ ready \in Nat /\ drops \in Nat /\ events \in 0..PoolEvents
    BY DEF Pool!Init, Pool!PoolConstants
  <2>2. ppc \in [PoolWorkers -> PoolLabels] /\ quit \in BOOLEAN /\ mutex \in BOOLEAN /\ closing \in BOOLEAN
    BY DEF Pool!Init, PoolLabels
  <2> QED
    BY <1>3, <2>1, <2>2 DEF Pool!Init, Pool!TypeOK, PoolLabels
<1>5. Pool!CountsRight
  <2>1. Cardinality(Pool!Busy) = 0 /\ Cardinality(Pool!Asleep) = 0
    BY <1>1, <1>2
  <2> QED
    BY <2>1, PoolFinite DEF Pool!Init, Pool!CountsRight, Pool!PoolConstants
<1>6. Pool!QuitInSteps
  BY DEF Pool!Init, Pool!QuitInSteps
<1> QED
  BY <1>4, <1>5, <1>6 DEF Pool!IInv

\* A step of a worker between two callbacks.
LEMMA PoolWorkerStep ==
  ASSUME Pool!PoolConstants, Pool!IInv, NEW w \in PoolWorkers, Pool!Worker(w) \/ Pool!Spurious(w)
  PROVE  Pool!IInv'
<1> USE DEF Pool!IInv, Pool!CountsRight, Pool!QuitInSteps
<1> DEFINE Moves(k, l) == ppc[w] = k /\ Pool!Set(w, l) /\ k \in PoolLabels /\ l \in PoolLabels
<1>1. CASE Pool!LoopTest(w)
  <2> DEFINE l == IF quit THEN "done" ELSE "dispatch"
  <2>1. Moves("loop", l)
    BY <1>1 DEF Pool!LoopTest, PoolLabels, Pool!TypeOK
  <2> QED
    BY <1>1, <2>1, CountsMove, PoolFinite DEF Pool!LoopTest, Pool!TypeOK, Pool!loadVars,
       Pool!poolVars, PoolLabels, Sleepy
<1>2. CASE Pool!DispatchLive(w)
  <2> DEFINE l == "busy"
  <2>1. Moves("dispatch", l)
    BY <1>2 DEF Pool!DispatchLive, PoolLabels, Pool!TypeOK
  <2> QED
    BY <1>2, <2>1, CountsMove, PoolFinite DEF Pool!DispatchLive, Pool!TypeOK, Pool!poolVars,
       PoolLabels, Sleepy
<1>3. CASE Pool!DispatchDrop(w)
  <2> DEFINE l == "loop"
  <2>1. Moves("dispatch", l)
    BY <1>3 DEF Pool!DispatchDrop, PoolLabels, Pool!TypeOK
  <2> QED
    BY <1>3, <2>1, CountsMove, PoolFinite DEF Pool!DispatchDrop, Pool!TypeOK, Pool!poolVars,
       PoolLabels, Sleepy
<1>4. CASE Pool!DispatchNone(w)
  <2> DEFINE l == "lock"
  <2>1. Moves("dispatch", l)
    BY <1>4 DEF Pool!DispatchNone, PoolLabels, Pool!TypeOK
  <2> QED
    BY <1>4, <2>1, CountsMove, PoolFinite DEF Pool!DispatchNone, Pool!TypeOK, Pool!loadVars,
       Pool!poolVars, PoolLabels, Sleepy
<1>5. CASE Pool!SleepBegin(w)
  <2> DEFINE l == "check"
  <2>1. Moves("lock", l)
    BY <1>5 DEF Pool!SleepBegin, PoolLabels, Pool!TypeOK
  <2> QED
    BY <1>5, <2>1, CountsMove, PoolFinite DEF Pool!SleepBegin, Pool!TypeOK, Pool!loadVars,
       PoolLabels, Sleepy
<1>6. CASE Pool!CondWait(w)
  <2> DEFINE l == IF quit THEN "loop" ELSE "wait"
  <2>1. Moves("check", l)
    BY <1>6 DEF Pool!CondWait, PoolLabels, Pool!TypeOK
  <2> QED
    BY <1>6, <2>1, CountsMove, PoolFinite DEF Pool!CondWait, Pool!TypeOK, Pool!loadVars,
       PoolLabels, Sleepy
<1>7. CASE Pool!SleepEnd(w)
  <2> DEFINE l == "loop"
  <2>1. Moves("woken", l)
    BY <1>7 DEF Pool!SleepEnd, PoolLabels, Pool!TypeOK
  <2> QED
    BY <1>7, <2>1, CountsMove, PoolFinite DEF Pool!SleepEnd, Pool!TypeOK, Pool!loadVars,
       PoolLabels, Sleepy
<1>8. CASE Pool!Spurious(w)
  <2> DEFINE l == "woken"
  <2>1. Moves("wait", l)
    BY <1>8 DEF Pool!Spurious, PoolLabels, Pool!TypeOK
  <2> QED
    BY <1>8, <2>1, CountsMove, PoolFinite DEF Pool!Spurious, Pool!TypeOK, Pool!loadVars,
       Pool!poolVars, PoolLabels, Sleepy
<1> QED
  BY <1>1, <1>2, <1>3, <1>4, <1>5, <1>6, <1>7, <1>8 DEF Pool!Worker

\* What a callback does, and its end.  A busy worker's own service lives.
LEMMA PoolCallbackStep ==
  ASSUME Pool!PoolConstants, Pool!IInv, NEW w \in PoolWorkers, Pool!Callback(w) \/ Pool!CallbackDone(w)
  PROVE  Pool!IInv'
<1> USE DEF Pool!IInv, Pool!CountsRight, Pool!QuitInSteps
<1>1. ppc[w] = "busy" => Cardinality(Pool!Busy) \in Nat /\ Cardinality(Pool!Busy) > 0
  <2>1. IsFiniteSet(At({"busy"})) /\ Cardinality(At({"busy"})) \in Nat
    BY AtFinite, PoolFinite DEF Pool!PoolConstants
  <2>2. Pool!Busy = At({"busy"}) /\ (ppc[w] = "busy" => w \in Pool!Busy)
    BY DEF Pool!Busy, At
  <2> QED
    BY <2>1, <2>2, FS_EmptySet
<1>2. CASE Pool!CallbackSend(w)
  BY <1>1, <1>2, CountsStay, PoolFinite DEF Pool!CallbackSend, Pool!Push, Pool!CanPush,
     Pool!TypeOK, Pool!poolVars, PoolLabels, Pool!PoolConstants
<1>3. CASE Pool!CallbackLaunch(w)
  BY <1>1, <1>3, CountsStay, PoolFinite DEF Pool!CallbackLaunch, Pool!TypeOK, Pool!poolVars,
     PoolLabels, Pool!PoolConstants
<1>4. CASE Pool!CallbackKill(w)
  BY <1>1, <1>4, CountsStay, PoolFinite DEF Pool!CallbackKill, Pool!TypeOK, Pool!poolVars,
     PoolLabels
<1>5. CASE Pool!CallbackDone(w)
  <2>1. ppc[w] = "busy" /\ Pool!Set(w, "loop") /\ "busy" \in PoolLabels /\ "loop" \in PoolLabels
    BY <1>5 DEF Pool!CallbackDone, PoolLabels
  <2> QED
    BY <1>1, <1>5, <2>1, CountsMove, PoolFinite
    DEF Pool!CallbackDone, Pool!TypeOK, Pool!loadVars, Pool!poolVars, PoolLabels, Sleepy,
    Pool!PoolConstants
<1> QED
  BY <1>2, <1>3, <1>4, <1>5 DEF Pool!Callback

\* Only the timer thread calls skynet_socket_exit and sets m->quit.
LEMMA PoolTimerStep == ASSUME Pool!PoolConstants, Pool!IInv, Pool!Timer PROVE Pool!IInv'
<1> USE DEF Pool!IInv, Pool!CountsRight, Pool!QuitInSteps
<1>1. CASE Pool!TimerUpdate
  BY <1>1, CountsStay, PoolFinite DEF Pool!TimerUpdate, Pool!Push, Pool!CanPush, Pool!TypeOK,
     Pool!poolVars, PoolLabels, Pool!PoolConstants
<1>2. CASE Pool!TimerCheck
  BY <1>2, CountsStay DEF Pool!TimerCheck, Pool!TypeOK, Pool!loadVars, Pool!poolVars, PoolLabels
<1>3. CASE Pool!TimerWakeup
  BY <1>3, CountsStay DEF Pool!TimerWakeup, Pool!Wakeup, Pool!TypeOK, Pool!loadVars,
     Pool!poolVars, PoolLabels
<1>4. CASE Pool!TimerExit
  BY <1>4, CountsStay DEF Pool!TimerExit, Pool!TypeOK, Pool!loadVars, Pool!poolVars, PoolLabels
<1>5. CASE Pool!TimerQuit
  <2>1. Pool!Busy' = Pool!Busy /\ Pool!Asleep' = Pool!Asleep /\ ppc' \in [PoolWorkers -> PoolLabels]
    BY <1>5 DEF Pool!TimerQuit, Pool!Busy, Pool!Asleep, Pool!TypeOK, PoolLabels
  <2> QED
    BY <1>5, <2>1 DEF Pool!TimerQuit, Pool!TypeOK, Pool!loadVars, PoolLabels
<1> QED
  BY <1>1, <1>2, <1>3, <1>4, <1>5 DEF Pool!Timer

\* The socket thread, which wakes a worker when all of them may sleep.
LEMMA PoolSocketStep == ASSUME Pool!PoolConstants, Pool!IInv, Pool!Socket \/ Pool!Poll PROVE Pool!IInv'
<1> USE DEF Pool!IInv, Pool!CountsRight, Pool!QuitInSteps
<1>1. CASE Pool!SocketCheck
  BY <1>1, CountsStay DEF Pool!SocketCheck, Pool!TypeOK, Pool!loadVars, Pool!poolVars, PoolLabels
<1>2. CASE Pool!SocketWakeup
  BY <1>2, CountsStay DEF Pool!SocketWakeup, Pool!Wakeup, Pool!TypeOK, Pool!loadVars,
     Pool!poolVars, PoolLabels
<1>3. CASE Pool!SocketExit
  BY <1>3, CountsStay DEF Pool!SocketExit, Pool!TypeOK, Pool!loadVars, Pool!poolVars, PoolLabels
<1>4. CASE Pool!SocketPoll
  BY <1>4, CountsStay, PoolFinite DEF Pool!SocketPoll, Pool!Push, Pool!CanPush, Pool!TypeOK,
     Pool!poolVars, PoolLabels, Pool!PoolConstants
<1>5. CASE Pool!SocketMore
  BY <1>5, CountsStay, PoolFinite DEF Pool!SocketMore, Pool!Push, Pool!CanPush, Pool!TypeOK,
     Pool!poolVars, PoolLabels, Pool!PoolConstants
<1> QED
  BY <1>1, <1>2, <1>3, <1>4, <1>5 DEF Pool!Socket, Pool!Poll

\* Every step keeps IInv.
LEMMA PoolStep == ASSUME Pool!PoolConstants PROVE Pool!IInv /\ [Pool!Next]_(Pool!vars) => Pool!IInv'
<1> SUFFICES ASSUME Pool!IInv, [Pool!Next]_(Pool!vars) PROVE Pool!IInv'
  OBVIOUS
<1>1. CASE Pool!Next
  BY <1>1, PoolWorkerStep, PoolCallbackStep, PoolTimerStep, PoolSocketStep DEF Pool!Next
<1>2. CASE UNCHANGED Pool!vars
  BY <1>2 DEF Pool!vars, Pool!loadVars, Pool!poolVars, Pool!IInv, Pool!TypeOK, Pool!CountsRight,
     Pool!QuitInSteps, Pool!Busy, Pool!Asleep
<1> QED
  BY <1>1, <1>2

\* A busy worker has a service, so there is none when the number of services is 0.
LEMMA QuitMeansEmpty == ASSUME Pool!PoolConstants PROVE Pool!IInv => Pool!QuitOnlyWhenEmpty
<1> SUFFICES ASSUME Pool!IInv, quit \/ closing \/ socket = "done" \/ (\E w \in PoolWorkers : ppc[w] = "done")
             PROVE  total = 0 /\ Pool!Busy = {}
  BY DEF Pool!QuitOnlyWhenEmpty
<1>1. total = 0
  BY DEF Pool!IInv, Pool!QuitInSteps
<1>2. IsFiniteSet(Pool!Busy) /\ Cardinality(Pool!Busy) \in Nat
  <2>1. Pool!Busy = At({"busy"})
    BY DEF Pool!Busy, At
  <2> QED
    BY <2>1, AtFinite, PoolFinite DEF Pool!PoolConstants
<1> QED
  BY <1>1, <1>2, FS_EmptySet, PoolFinite DEF Pool!IInv, Pool!CountsRight, Pool!TypeOK

\* skynet_start.c: m->quit, the end of the socket server and of any thread come only
\* after the last context was deleted, for any number of workers and of events.
THEOREM NoEarlyShutdown == ASSUME Pool!PoolConstants PROVE Pool!Spec => []Pool!PoolRight
<1>1. Pool!Spec => []Pool!IInv
  BY PoolInit, PoolStep, PTL DEF Pool!Spec
<1>2. Pool!IInv => Pool!PoolRight
  BY QuitMeansEmpty DEF Pool!PoolRight, Pool!IInv
<1> QED
  BY <1>1, <1>2, PTL

-----------------------------------------------------------------------------
(* The shared objects of lua-stm.c, for any finite number of readers, any  *)
(* number of versions and references: a copy is freed exactly when the     *)
(* object, the writer and the readers have let it go, the object when the  *)
(* last of them has, the asserts hold, and nobody touches it later, except *)
(* for the unlock that LastReader finds.                                   *)

\* The operators of FiniteSets are the same in the instance of Stm.
LEMMA ObjFinite == /\ \A S : Obj!Cardinality(S) = Cardinality(S)
                   /\ \A S : Obj!IsFiniteSet(S) <=> IsFiniteSet(S)
BY Zenon DEF Obj!Cardinality, Cardinality, Obj!IsFiniteSet, IsFiniteSet

\* The readers with some property are counted by a natural number.
LEMMA ReadersCounted ==
  ASSUME Obj!StmConstants, NEW S \in SUBSET ObjReaders
  PROVE  /\ Obj!IsFiniteSet(S) /\ Obj!Cardinality(S) \in Nat
         /\ Obj!Cardinality(S) <= Obj!Cardinality(ObjReaders) /\ Obj!Cardinality(ObjReaders) \in Nat
         /\ \A r \in S : Obj!Cardinality(S) > 0
<1>1. Obj!IsFiniteSet(ObjReaders) /\ Obj!Cardinality(ObjReaders) \in Nat
  BY ObjFinite, FS_CardinalityType DEF Obj!StmConstants
<1>2. Obj!IsFiniteSet(S) /\ Obj!Cardinality(S) \in Nat /\ Obj!Cardinality(S) <= Obj!Cardinality(ObjReaders)
  BY <1>1, ObjFinite, FS_Subset, FS_CardinalityType
<1>3. ASSUME NEW r \in S PROVE Obj!Cardinality(S) # 0
  BY <1>2, ObjFinite, FS_EmptySet
<1> QED
  BY <1>1, <1>2, <1>3

\* What the count of a set becomes when one reader enters or leaves it.
LEMMA ReaderMoves ==
  ASSUME Obj!StmConstants, NEW S \in SUBSET ObjReaders, NEW T \in SUBSET ObjReaders, NEW r,
         S \ {r} = T \ {r}
  PROVE  Obj!Cardinality(T) = Obj!Cardinality(S) + (IF r \in T THEN 1 ELSE 0)
                                         - (IF r \in S THEN 1 ELSE 0)
<1>1. /\ Obj!IsFiniteSet(S) /\ Obj!Cardinality(S) \in Nat
      /\ Obj!IsFiniteSet(T) /\ Obj!Cardinality(T) \in Nat
  BY ReadersCounted
<1>2. Obj!Cardinality(S \ {r}) = IF r \in S THEN Obj!Cardinality(S) - 1 ELSE Obj!Cardinality(S)
  BY <1>1, ObjFinite, FS_RemoveElement
<1>3. Obj!Cardinality(T \ {r}) = IF r \in T THEN Obj!Cardinality(T) - 1 ELSE Obj!Cardinality(T)
  BY <1>1, ObjFinite, FS_RemoveElement
<1> QED
  BY <1>1, <1>2, <1>3

\* As long as the writer or a reader refers to the object, it is there.
LEMMA ObjectLive ==
  ASSUME Obj!StmConstants, Obj!IInv
  PROVE  /\ writer # "none" => reference > 0 /\ ~freed
         /\ \A r \in ObjReaders : rpc[r] \notin {"none", "drop_unlock", "close"} =>
               reference > 0 /\ ~freed
         /\ Obj!Cardinality(Obj!Opened) \in Nat
<1>1. Obj!Opened \in SUBSET ObjReaders
  BY DEF Obj!Opened
<1>2. Obj!Cardinality(Obj!Opened) \in Nat /\ \A r \in Obj!Opened : Obj!Cardinality(Obj!Opened) > 0
  BY <1>1, ReadersCounted
<1>3. reference = (IF writer = "none" THEN 0 ELSE 1) + sent + Obj!Cardinality(Obj!Opened)
  BY DEF Obj!IInv, Obj!StmRight, Obj!ObjectCounted
<1>4. sent \in Nat /\ (freed <=> reference = 0)
  BY DEF Obj!IInv, Obj!StmRight, Obj!ObjectCounted, Obj!TypeOK, Obj!StmConstants
<1>5. \A r \in ObjReaders : rpc[r] \notin {"none", "drop_unlock", "close"} => r \in Obj!Opened
  BY DEF Obj!Opened
<1> QED
  BY <1>2, <1>3, <1>4, <1>5

\* TypeOK without the two counts, whose bounds come from what they count.
ObjTypes ==
  /\ copy \in 0..ObjMaxCopy /\ freed \in BOOLEAN
  /\ stmWrite \in {0, 1} /\ stmRead \subseteq ObjReaders \cup {0}
  /\ gone \subseteq 1..ObjMaxCopy
  /\ old \in 0..ObjMaxCopy /\ made \in 1..ObjMaxCopy /\ grabs \in 0..ObjMaxGrab
  /\ rpc \in [ObjReaders -> Obj!Pcs] /\ tmp \in [ObjReaders -> 0..ObjMaxCopy] /\ last \in [ObjReaders -> 0..ObjMaxCopy]

\* Only copies that were made are freed.
LEMMA GoneStays ==
  ASSUME Obj!StmConstants, Obj!IInv, NEW c \in 0..made, Obj!ReleaseCopy(c)
  PROVE  gone' \subseteq 1..made
<1>1. gone \subseteq 1..made /\ made \in Nat
  BY DEF Obj!IInv, Obj!StmRight, Obj!TypeOK, Obj!CopiesKnown, Obj!StmConstants
<1>2. CASE c = 0
  BY <1>1, <1>2 DEF Obj!ReleaseCopy
<1>3. CASE c # 0
  <2>1. c \in 1..made
    BY <1>1, <1>3
  <2>2. gone' = gone \/ gone' = gone \cup {c}
    BY <1>3 DEF Obj!ReleaseCopy
  <2> QED
    BY <1>1, <2>1, <2>2
<1> QED
  BY <1>2, <1>3

\* Every variable but the counts keeps its type.
LEMMA ObjTypesNext ==
  ASSUME Obj!StmConstants, Obj!IInv, Obj!Next
  PROVE  ObjTypes'
<1>0. ObjTypes /\ sent \in Nat /\ Obj!LockRight /\ Obj!CopiesKnown /\ Obj!GrabsCounted
  BY DEF Obj!IInv, Obj!StmRight, Obj!TypeOK, ObjTypes, Obj!StmConstants
<1> USE DEF Obj!StmConstants
<1>1. CASE Obj!GrabLock
  BY <1>0, <1>1 DEF Obj!GrabLock, Obj!W, Obj!Touch, Obj!readerVars, ObjTypes, Obj!Pcs,
     Obj!CopiesKnown, Obj!GrabsCounted
<1>2. CASE Obj!Grab
  BY <1>0, <1>2 DEF Obj!Grab, Obj!W, Obj!Touch, Obj!readerVars, ObjTypes, Obj!Pcs, Obj!CopiesKnown,
     Obj!GrabsCounted
<1>3. CASE Obj!UpdateLock
  BY <1>0, <1>3 DEF Obj!UpdateLock, Obj!WLock, Obj!W, Obj!Touch, Obj!objVars, Obj!readerVars,
     ObjTypes, Obj!Pcs, Obj!CopiesKnown, Obj!GrabsCounted
<1>4. CASE Obj!Update
  BY <1>0, <1>4 DEF Obj!Update, Obj!W, Obj!Touch, Obj!readerVars, ObjTypes, Obj!Pcs,
     Obj!CopiesKnown,
     Obj!GrabsCounted
<1>5. CASE Obj!UpdateUnlock
  BY <1>0, <1>5 DEF Obj!UpdateUnlock, Obj!W, Obj!Touch, Obj!readerVars, ObjTypes, Obj!Pcs,
     Obj!CopiesKnown, Obj!GrabsCounted
<1>6. CASE Obj!UpdateRelease
  <2>1. old \in 0..made /\ Obj!ReleaseCopy(old)
    BY <1>0, <1>6 DEF Obj!UpdateRelease, ObjTypes, Obj!CopiesKnown
  <2>2. gone' \subseteq 1..made
    BY <2>1, GoneStays
  <2> QED
    BY <1>0, <1>6, <2>2 DEF Obj!UpdateRelease, Obj!W, Obj!objVars, Obj!readerVars, ObjTypes,
       Obj!Pcs, Obj!CopiesKnown, Obj!GrabsCounted
<1>7. CASE Obj!DeleteLock
  BY <1>0, <1>7 DEF Obj!DeleteLock, Obj!WLock, Obj!W, Obj!Touch, Obj!objVars, Obj!readerVars,
     ObjTypes, Obj!Pcs, Obj!CopiesKnown, Obj!GrabsCounted
<1>8. CASE Obj!DeleteCopy
  <2>1. copy \in 0..made /\ Obj!ReleaseCopy(copy)
    BY <1>0, <1>8 DEF Obj!DeleteCopy, ObjTypes, Obj!CopiesKnown
  <2>2. gone' \subseteq 1..made
    BY <2>1, GoneStays
  <2> QED
    BY <1>0, <1>8, <2>2 DEF Obj!DeleteCopy, Obj!W, Obj!Touch, Obj!readerVars, ObjTypes, Obj!Pcs,
       Obj!CopiesKnown, Obj!GrabsCounted
<1>9. CASE Obj!DeleteRef
  BY <1>0, <1>9 DEF Obj!DeleteRef, Obj!W, Obj!Touch, Obj!readerVars, ObjTypes, Obj!Pcs,
     Obj!CopiesKnown, Obj!GrabsCounted
<1>10. ASSUME NEW r \in ObjReaders, Obj!Open(r) PROVE ObjTypes'
  BY <1>0, <1>10 DEF Obj!Open, Obj!R, Obj!objVars, Obj!writerVars, ObjTypes, Obj!Pcs,
     Obj!CopiesKnown,
     Obj!GrabsCounted
<1>11. ASSUME NEW r \in ObjReaders, Obj!ReadLock(r) PROVE ObjTypes'
  BY <1>0, <1>11 DEF Obj!ReadLock, Obj!RLock, Obj!R, Obj!Touch, Obj!objVars, Obj!writerVars,
     ObjTypes,
     Obj!Pcs, Obj!CopiesKnown, Obj!GrabsCounted
<1>12. ASSUME NEW r \in ObjReaders, Obj!Load(r) PROVE ObjTypes'
  BY <1>0, <1>12 DEF Obj!Load, Obj!R, Obj!Touch, Obj!objVars, Obj!writerVars, ObjTypes, Obj!Pcs,
     Obj!CopiesKnown, Obj!GrabsCounted
<1>13. ASSUME NEW r \in ObjReaders, Obj!Hold(r) PROVE ObjTypes'
  BY <1>0, <1>13 DEF Obj!Hold, Obj!R, Obj!objVars, Obj!writerVars, ObjTypes, Obj!Pcs,
     Obj!CopiesKnown,
     Obj!GrabsCounted
<1>14. ASSUME NEW r \in ObjReaders, Obj!ReadUnlock(r) PROVE ObjTypes'
  BY <1>0, <1>14 DEF Obj!ReadUnlock, Obj!RUnlock, Obj!R, Obj!Touch, Obj!objVars, Obj!writerVars,
     ObjTypes, Obj!Pcs, Obj!CopiesKnown, Obj!GrabsCounted
<1>15. ASSUME NEW r \in ObjReaders, Obj!Compare(r) PROVE ObjTypes'
  <2>1. last[r] \in 0..made /\ Obj!ReleaseCopy(last[r])
    BY <1>0, <1>15 DEF Obj!Compare, ObjTypes, Obj!CopiesKnown
  <2>2. gone' \subseteq 1..made
    BY <2>1, GoneStays
  <2> QED
    BY <1>0, <1>15, <2>2 DEF Obj!Compare, Obj!R, Obj!objVars, Obj!writerVars, ObjTypes, Obj!Pcs,
       Obj!CopiesKnown, Obj!GrabsCounted
<1>16. ASSUME NEW r \in ObjReaders, Obj!CloseLock(r) PROVE ObjTypes'
  BY <1>0, <1>16 DEF Obj!CloseLock, Obj!RLock, Obj!R, Obj!Touch, Obj!objVars, Obj!writerVars,
     ObjTypes, Obj!Pcs, Obj!CopiesKnown, Obj!GrabsCounted
<1>17. ASSUME NEW r \in ObjReaders, Obj!Drop(r) PROVE ObjTypes'
  BY <1>0, <1>17 DEF Obj!Drop, Obj!R, Obj!Touch, Obj!writerVars, ObjTypes, Obj!Pcs, Obj!CopiesKnown,
     Obj!GrabsCounted
<1>18. ASSUME NEW r \in ObjReaders, Obj!DropUnlock(r) PROVE ObjTypes'
  BY <1>0, <1>18 DEF Obj!DropUnlock, Obj!RUnlock, Obj!R, Obj!Touch, Obj!objVars, Obj!writerVars,
     ObjTypes, Obj!Pcs, Obj!CopiesKnown, Obj!GrabsCounted
<1>19. ASSUME NEW r \in ObjReaders, Obj!Close(r) PROVE ObjTypes'
  <2>1. last[r] \in 0..made /\ Obj!ReleaseCopy(last[r])
    BY <1>0, <1>19 DEF Obj!Close, ObjTypes, Obj!CopiesKnown
  <2>2. gone' \subseteq 1..made
    BY <2>1, GoneStays
  <2> QED
    BY <1>0, <1>19, <2>2 DEF Obj!Close, Obj!R, Obj!objVars, Obj!writerVars, ObjTypes, Obj!Pcs,
       Obj!CopiesKnown, Obj!GrabsCounted
<1> QED
  BY <1>1, <1>2, <1>3, <1>4, <1>5, <1>6, <1>7, <1>8, <1>9, <1>10, <1>11, <1>12,
     <1>13, <1>14, <1>15, <1>16, <1>17, <1>18, <1>19 DEF Obj!Next, Obj!Writer, Obj!Reader

\* The lock.
LEMMA ObjLockNext ==
  ASSUME Obj!StmConstants, Obj!IInv, Obj!Next
  PROVE  Obj!LockRight'
<1>0. /\ ObjTypes /\ Obj!LockRight /\ ObjReaders \subseteq Nat \ {0}
      /\ writer # "none" => ~freed
      /\ \A r \in ObjReaders : rpc[r] \notin {"none", "drop_unlock", "close"} => ~freed
  BY ObjectLive DEF Obj!IInv, Obj!StmRight, Obj!TypeOK, ObjTypes, Obj!StmConstants
<1>1. CASE Obj!GrabLock
  BY <1>0, <1>1 DEF Obj!GrabLock, Obj!W, Obj!Touch, Obj!readerVars, ObjTypes, Obj!LockRight,
     Obj!Reading
<1>2. CASE Obj!Grab
  BY <1>0, <1>2 DEF Obj!Grab, Obj!W, Obj!Touch, Obj!readerVars, ObjTypes, Obj!LockRight, Obj!Reading
<1>3. CASE Obj!UpdateLock
  BY <1>0, <1>3 DEF Obj!UpdateLock, Obj!WLock, Obj!W, Obj!Touch, Obj!objVars, Obj!readerVars,
     ObjTypes, Obj!LockRight, Obj!Reading
<1>4. CASE Obj!Update
  BY <1>0, <1>4 DEF Obj!Update, Obj!W, Obj!Touch, Obj!readerVars, ObjTypes, Obj!LockRight,
     Obj!Reading
<1>5. CASE Obj!UpdateUnlock
  BY <1>0, <1>5 DEF Obj!UpdateUnlock, Obj!W, Obj!Touch, Obj!readerVars, ObjTypes, Obj!LockRight,
     Obj!Reading
<1>6. CASE Obj!UpdateRelease
  BY <1>0, <1>6 DEF Obj!UpdateRelease, Obj!W, Obj!objVars, Obj!readerVars, ObjTypes,
     Obj!LockRight, Obj!Reading
<1>7. CASE Obj!DeleteLock
  BY <1>0, <1>7 DEF Obj!DeleteLock, Obj!WLock, Obj!W, Obj!Touch, Obj!objVars, Obj!readerVars,
     ObjTypes, Obj!LockRight, Obj!Reading
<1>8. CASE Obj!DeleteCopy
  BY <1>0, <1>8 DEF Obj!DeleteCopy, Obj!W, Obj!Touch, Obj!readerVars, ObjTypes, Obj!LockRight,
     Obj!Reading
<1>9. CASE Obj!DeleteRef
  BY <1>0, <1>9 DEF Obj!DeleteRef, Obj!W, Obj!Touch, Obj!readerVars, ObjTypes, Obj!LockRight,
     Obj!Reading
<1>10. ASSUME NEW r \in ObjReaders, Obj!Open(r) PROVE Obj!LockRight'
  BY <1>0, <1>10 DEF Obj!Open, Obj!R, Obj!objVars, Obj!writerVars, ObjTypes, Obj!LockRight,
     Obj!Reading
<1>11. ASSUME NEW r \in ObjReaders, Obj!ReadLock(r) PROVE Obj!LockRight'
  BY <1>0, <1>11 DEF Obj!ReadLock, Obj!RLock, Obj!R, Obj!Touch, Obj!objVars, Obj!writerVars,
     ObjTypes,
     Obj!LockRight, Obj!Reading
<1>12. ASSUME NEW r \in ObjReaders, Obj!Load(r) PROVE Obj!LockRight'
  BY <1>0, <1>12 DEF Obj!Load, Obj!R, Obj!Touch, Obj!objVars, Obj!writerVars, ObjTypes,
     Obj!LockRight,
     Obj!Reading
<1>13. ASSUME NEW r \in ObjReaders, Obj!Hold(r) PROVE Obj!LockRight'
  BY <1>0, <1>13 DEF Obj!Hold, Obj!R, Obj!objVars, Obj!writerVars, ObjTypes, Obj!LockRight,
     Obj!Reading
<1>14. ASSUME NEW r \in ObjReaders, Obj!ReadUnlock(r) PROVE Obj!LockRight'
  BY <1>0, <1>14 DEF Obj!ReadUnlock, Obj!RUnlock, Obj!R, Obj!Touch, Obj!objVars, Obj!writerVars,
     ObjTypes, Obj!LockRight, Obj!Reading
<1>15. ASSUME NEW r \in ObjReaders, Obj!Compare(r) PROVE Obj!LockRight'
  BY <1>0, <1>15 DEF Obj!Compare, Obj!R, Obj!objVars, Obj!writerVars, ObjTypes, Obj!LockRight,
     Obj!Reading
<1>16. ASSUME NEW r \in ObjReaders, Obj!CloseLock(r) PROVE Obj!LockRight'
  BY <1>0, <1>16 DEF Obj!CloseLock, Obj!RLock, Obj!R, Obj!Touch, Obj!objVars, Obj!writerVars,
     ObjTypes, Obj!LockRight, Obj!Reading
<1>17. ASSUME NEW r \in ObjReaders, Obj!Drop(r) PROVE Obj!LockRight'
  BY <1>0, <1>17 DEF Obj!Drop, Obj!R, Obj!Touch, Obj!writerVars, ObjTypes, Obj!LockRight,
     Obj!Reading
<1>18. ASSUME NEW r \in ObjReaders, Obj!DropUnlock(r) PROVE Obj!LockRight'
  BY <1>0, <1>18 DEF Obj!DropUnlock, Obj!RUnlock, Obj!R, Obj!Touch, Obj!objVars, Obj!writerVars,
     ObjTypes, Obj!LockRight, Obj!Reading
<1>19. ASSUME NEW r \in ObjReaders, Obj!Close(r) PROVE Obj!LockRight'
  BY <1>0, <1>19 DEF Obj!Close, Obj!R, Obj!objVars, Obj!writerVars, ObjTypes, Obj!LockRight,
     Obj!Reading
<1> QED
  BY <1>1, <1>2, <1>3, <1>4, <1>5, <1>6, <1>7, <1>8, <1>9, <1>10, <1>11, <1>12,
     <1>13, <1>14, <1>15, <1>16, <1>17, <1>18, <1>19 DEF Obj!Next, Obj!Writer, Obj!Reader

\* Which copies the object, the writer and the readers refer to.
LEMMA CopiesKnownNext ==
  ASSUME Obj!StmConstants, Obj!IInv, Obj!Next
  PROVE  Obj!CopiesKnown'
<1>0. /\ ObjTypes /\ Obj!LockRight /\ Obj!CopiesKnown /\ ObjMaxCopy \in Nat
  BY DEF Obj!IInv, Obj!StmRight, Obj!TypeOK, ObjTypes, Obj!StmConstants
<1>1. CASE Obj!GrabLock
  BY <1>0, <1>1 DEF Obj!GrabLock, Obj!W, Obj!Touch, Obj!readerVars, ObjTypes, Obj!LockRight,
     Obj!CopiesKnown, Obj!Reading
<1>2. CASE Obj!Grab
  BY <1>0, <1>2 DEF Obj!Grab, Obj!W, Obj!Touch, Obj!readerVars, ObjTypes, Obj!LockRight,
     Obj!CopiesKnown, Obj!Reading
<1>3. CASE Obj!UpdateLock
  BY <1>0, <1>3 DEF Obj!UpdateLock, Obj!WLock, Obj!W, Obj!Touch, Obj!objVars, Obj!readerVars,
     ObjTypes, Obj!LockRight, Obj!CopiesKnown, Obj!Reading
<1>4. CASE Obj!Update
  BY <1>0, <1>4 DEF Obj!Update, Obj!W, Obj!Touch, Obj!readerVars, ObjTypes, Obj!LockRight,
     Obj!CopiesKnown, Obj!Reading
<1>5. CASE Obj!UpdateUnlock
  BY <1>0, <1>5 DEF Obj!UpdateUnlock, Obj!W, Obj!Touch, Obj!readerVars, ObjTypes, Obj!LockRight,
     Obj!CopiesKnown, Obj!Reading
<1>6. CASE Obj!UpdateRelease
  <2>1. old \in 0..made /\ Obj!ReleaseCopy(old)
    BY <1>0, <1>6 DEF Obj!UpdateRelease, ObjTypes, Obj!CopiesKnown
  <2>2. gone' \subseteq 1..made
    BY <2>1, GoneStays
  <2> QED
    BY <1>0, <1>6, <2>2 DEF Obj!UpdateRelease, Obj!W, Obj!objVars, Obj!readerVars, ObjTypes,
       Obj!LockRight, Obj!CopiesKnown, Obj!Reading
<1>7. CASE Obj!DeleteLock
  BY <1>0, <1>7 DEF Obj!DeleteLock, Obj!WLock, Obj!W, Obj!Touch, Obj!objVars, Obj!readerVars,
     ObjTypes, Obj!LockRight, Obj!CopiesKnown, Obj!Reading
<1>8. CASE Obj!DeleteCopy
  <2>1. copy \in 0..made /\ Obj!ReleaseCopy(copy)
    BY <1>0, <1>8 DEF Obj!DeleteCopy, ObjTypes, Obj!CopiesKnown
  <2>2. gone' \subseteq 1..made
    BY <2>1, GoneStays
  <2> QED
    BY <1>0, <1>8, <2>2 DEF Obj!DeleteCopy, Obj!W, Obj!Touch, Obj!readerVars, ObjTypes,
       Obj!LockRight, Obj!CopiesKnown, Obj!Reading
<1>9. CASE Obj!DeleteRef
  BY <1>0, <1>9 DEF Obj!DeleteRef, Obj!W, Obj!Touch, Obj!readerVars, ObjTypes, Obj!LockRight,
     Obj!CopiesKnown, Obj!Reading
<1>10. ASSUME NEW r \in ObjReaders, Obj!Open(r) PROVE Obj!CopiesKnown'
  BY <1>0, <1>10 DEF Obj!Open, Obj!R, Obj!objVars, Obj!writerVars, ObjTypes, Obj!LockRight,
     Obj!CopiesKnown, Obj!Reading
<1>11. ASSUME NEW r \in ObjReaders, Obj!ReadLock(r) PROVE Obj!CopiesKnown'
  BY <1>0, <1>11 DEF Obj!ReadLock, Obj!RLock, Obj!R, Obj!Touch, Obj!objVars, Obj!writerVars,
     ObjTypes,
     Obj!LockRight, Obj!CopiesKnown, Obj!Reading
<1>12. ASSUME NEW r \in ObjReaders, Obj!Load(r) PROVE Obj!CopiesKnown'
  BY <1>0, <1>12 DEF Obj!Load, Obj!R, Obj!Touch, Obj!objVars, Obj!writerVars, ObjTypes,
     Obj!LockRight,
     Obj!CopiesKnown, Obj!Reading
<1>13. ASSUME NEW r \in ObjReaders, Obj!Hold(r) PROVE Obj!CopiesKnown'
  BY <1>0, <1>13 DEF Obj!Hold, Obj!R, Obj!objVars, Obj!writerVars, ObjTypes, Obj!LockRight,
     Obj!CopiesKnown, Obj!Reading
<1>14. ASSUME NEW r \in ObjReaders, Obj!ReadUnlock(r) PROVE Obj!CopiesKnown'
  BY <1>0, <1>14 DEF Obj!ReadUnlock, Obj!RUnlock, Obj!R, Obj!Touch, Obj!objVars, Obj!writerVars,
     ObjTypes, Obj!LockRight, Obj!CopiesKnown, Obj!Reading
<1>15. ASSUME NEW r \in ObjReaders, Obj!Compare(r) PROVE Obj!CopiesKnown'
  <2>1. last[r] \in 0..made /\ Obj!ReleaseCopy(last[r])
    BY <1>0, <1>15 DEF Obj!Compare, ObjTypes, Obj!CopiesKnown
  <2>2. gone' \subseteq 1..made
    BY <2>1, GoneStays
  <2> QED
    BY <1>0, <1>15, <2>2 DEF Obj!Compare, Obj!R, Obj!objVars, Obj!writerVars, ObjTypes,
       Obj!LockRight, Obj!CopiesKnown, Obj!Reading
<1>16. ASSUME NEW r \in ObjReaders, Obj!CloseLock(r) PROVE Obj!CopiesKnown'
  BY <1>0, <1>16 DEF Obj!CloseLock, Obj!RLock, Obj!R, Obj!Touch, Obj!objVars, Obj!writerVars,
     ObjTypes, Obj!LockRight, Obj!CopiesKnown, Obj!Reading
<1>17. ASSUME NEW r \in ObjReaders, Obj!Drop(r) PROVE Obj!CopiesKnown'
  BY <1>0, <1>17 DEF Obj!Drop, Obj!R, Obj!Touch, Obj!writerVars, ObjTypes, Obj!LockRight,
     Obj!CopiesKnown, Obj!Reading
<1>18. ASSUME NEW r \in ObjReaders, Obj!DropUnlock(r) PROVE Obj!CopiesKnown'
  BY <1>0, <1>18 DEF Obj!DropUnlock, Obj!RUnlock, Obj!R, Obj!Touch, Obj!objVars, Obj!writerVars,
     ObjTypes, Obj!LockRight, Obj!CopiesKnown, Obj!Reading
<1>19. ASSUME NEW r \in ObjReaders, Obj!Close(r) PROVE Obj!CopiesKnown'
  <2>1. last[r] \in 0..made /\ Obj!ReleaseCopy(last[r])
    BY <1>0, <1>19 DEF Obj!Close, ObjTypes, Obj!CopiesKnown
  <2>2. gone' \subseteq 1..made
    BY <2>1, GoneStays
  <2> QED
    BY <1>0, <1>19, <2>2 DEF Obj!Close, Obj!R, Obj!objVars, Obj!writerVars, ObjTypes,
       Obj!LockRight, Obj!CopiesKnown, Obj!Reading
<1> QED
  BY <1>1, <1>2, <1>3, <1>4, <1>5, <1>6, <1>7, <1>8, <1>9, <1>10, <1>11, <1>12,
     <1>13, <1>14, <1>15, <1>16, <1>17, <1>18, <1>19 DEF Obj!Next, Obj!Writer, Obj!Reader

\* What neither opens nor drops a reference to the object.
NoReference ==
  /\ UNCHANGED <<reference, freed, sent, grabs>> /\ Obj!Opened' = Obj!Opened
  /\ writer' = "none" <=> writer = "none"
  /\ writer' = "grab" => grabs < ObjMaxGrab

\* The object's count is the number of references to it.
LEMMA ObjectNext ==
  ASSUME Obj!StmConstants, Obj!IInv, Obj!Next
  PROVE  /\ Obj!ObjectCounted' /\ Obj!GrabsCounted'
         /\ reference' \in 0..(1 + ObjMaxGrab) /\ sent' \in 0..ObjMaxGrab
<1>0. /\ ObjTypes /\ reference \in Nat /\ sent \in Nat /\ ObjMaxGrab \in Nat /\ grabs \in Nat
      /\ Obj!ObjectCounted /\ Obj!GrabsCounted /\ Obj!Cardinality(Obj!Opened) \in Nat
  BY ObjectLive DEF Obj!IInv, Obj!StmRight, Obj!TypeOK, ObjTypes, Obj!StmConstants
<1>1. ASSUME Obj!ObjectCounted', Obj!GrabsCounted', sent' \in Nat, grabs' \in 0..ObjMaxGrab
      PROVE  reference' \in 0..(1 + ObjMaxGrab) /\ sent' \in 0..ObjMaxGrab
  <2>1. Obj!Opened' \in SUBSET ObjReaders
    BY DEF Obj!Opened
  <2>2. Obj!Cardinality(Obj!Opened)' \in Nat
    BY <2>1, ReadersCounted
  <2>3. /\ reference' = (IF writer' = "none" THEN 0 ELSE 1) + sent' + Obj!Cardinality(Obj!Opened)'
        /\ sent' + Obj!Cardinality(Obj!Opened)' <= grabs'
    BY <1>1 DEF Obj!ObjectCounted, Obj!GrabsCounted
  <2> QED
    BY <1>0, <1>1, <2>2, <2>3
<1>2. ASSUME NoReference PROVE Obj!ObjectCounted' /\ Obj!GrabsCounted' /\ sent' \in Nat
  BY <1>0, <1>2 DEF NoReference, Obj!ObjectCounted, Obj!GrabsCounted
<1>3. ASSUME \/ Obj!GrabLock \/ Obj!UpdateLock \/ Obj!Update \/ Obj!UpdateUnlock \/ Obj!UpdateRelease
             \/ Obj!DeleteLock \/ Obj!DeleteCopy
      PROVE  Obj!ObjectCounted' /\ Obj!GrabsCounted' /\ sent' \in Nat
  <2>1. /\ UNCHANGED <<reference, freed, sent, grabs, rpc>> /\ writer # "none" /\ writer' # "none"
        /\ writer' = "grab" => grabs < ObjMaxGrab
    BY <1>3 DEF Obj!GrabLock, Obj!UpdateLock, Obj!Update, Obj!UpdateUnlock, Obj!UpdateRelease,
       Obj!DeleteLock,
       Obj!DeleteCopy, Obj!WLock, Obj!W, Obj!objVars, Obj!readerVars
  <2>2. NoReference
    BY <2>1 DEF NoReference, Obj!Opened
  <2> QED
    BY <1>2, <2>2
<1>4. ASSUME Obj!Grab PROVE Obj!ObjectCounted' /\ Obj!GrabsCounted' /\ sent' \in Nat
  <2>1. Obj!Opened' = Obj!Opened
    BY <1>4 DEF Obj!Grab, Obj!readerVars, Obj!Opened
  <2> QED
    BY <1>0, <1>4, <2>1, ObjectLive DEF Obj!Grab, Obj!W, Obj!ObjectCounted, Obj!GrabsCounted
<1>5. ASSUME Obj!DeleteRef PROVE Obj!ObjectCounted' /\ Obj!GrabsCounted' /\ sent' \in Nat
  <2>1. Obj!Opened' = Obj!Opened
    BY <1>5 DEF Obj!DeleteRef, Obj!readerVars, Obj!Opened
  <2>2. /\ reference' = reference - 1 /\ writer = "deleted" /\ writer' = "none"
        /\ UNCHANGED <<sent, grabs>> /\ reference > 0 /\ ~freed
        /\ IF reference > 1 THEN UNCHANGED freed ELSE freed' = TRUE
    BY <1>5, ObjectLive DEF Obj!DeleteRef, Obj!W
  <2>3. /\ reference' = (IF writer' = "none" THEN 0 ELSE 1) + sent' + Obj!Cardinality(Obj!Opened')
        /\ reference' = 0 <=> ~(reference > 1)
    BY <1>0, <2>1, <2>2 DEF Obj!ObjectCounted
  <2>4. freed' <=> reference' = 0
    BY <2>2, <2>3
  <2> QED
    BY <1>0, <2>1, <2>2, <2>3, <2>4 DEF Obj!ObjectCounted, Obj!GrabsCounted
<1>6. ASSUME NEW r \in ObjReaders,
             \/ Obj!ReadLock(r) \/ Obj!Load(r) \/ Obj!Hold(r) \/ Obj!ReadUnlock(r) \/ Obj!Compare(r)
             \/ Obj!CloseLock(r) \/ Obj!DropUnlock(r) \/ Obj!Close(r)
      PROVE  Obj!ObjectCounted' /\ Obj!GrabsCounted' /\ sent' \in Nat
  <2>1. UNCHANGED <<reference, freed, sent, grabs, writer>>
    BY <1>6 DEF Obj!ReadLock, Obj!Load, Obj!Hold, Obj!ReadUnlock, Obj!Compare, Obj!CloseLock,
       Obj!DropUnlock, Obj!Close,
       Obj!RLock, Obj!RUnlock, Obj!objVars, Obj!writerVars
  <2>2. PICK from \in Obj!Pcs, to \in Obj!Pcs :
          /\ rpc[r] = from /\ rpc' = [rpc EXCEPT ![r] = to]
          /\ from \in {"none", "drop_unlock", "close"} <=> to \in {"none", "drop_unlock", "close"}
    BY <1>0, <1>6 DEF Obj!ReadLock, Obj!Load, Obj!Hold, Obj!ReadUnlock, Obj!Compare,
       Obj!CloseLock, Obj!DropUnlock, Obj!Close,
       Obj!RLock, Obj!RUnlock, Obj!R, Obj!Pcs
  <2>3. Obj!Opened' = Obj!Opened
    BY <1>0, <2>2 DEF Obj!Opened, ObjTypes
  <2>4. NoReference
    BY <1>0, <2>1, <2>3 DEF NoReference, Obj!GrabsCounted
  <2> QED
    BY <1>2, <2>4
<1>7. ASSUME NEW r \in ObjReaders, Obj!Open(r) \/ Obj!Drop(r)
      PROVE  Obj!ObjectCounted' /\ Obj!GrabsCounted' /\ sent' \in Nat
  <2>1. /\ Obj!Opened \in SUBSET ObjReaders /\ Obj!Opened' \in SUBSET ObjReaders
        /\ Obj!Opened \ {r} = Obj!Opened' \ {r}
        /\ r \in Obj!Opened <=> Obj!Drop(r)
        /\ r \in Obj!Opened' <=> Obj!Open(r)
    BY <1>0, <1>7 DEF Obj!Open, Obj!Drop, Obj!R, Obj!Opened, ObjTypes
  <2>2. Obj!Cardinality(Obj!Opened') = Obj!Cardinality(Obj!Opened) + (IF r \in Obj!Opened' THEN 1 ELSE 0)
                                 - (IF r \in Obj!Opened THEN 1 ELSE 0)
    BY <2>1, ReaderMoves
  <2>3. CASE Obj!Open(r)
    <3>1. ~Obj!Drop(r) /\ reference' = reference /\ freed' = freed /\ sent' = sent - 1
          /\ sent > 0 /\ UNCHANGED <<writer, grabs>>
      BY <2>3 DEF Obj!Open, Obj!Drop, Obj!R, Obj!objVars, Obj!writerVars
    <3> QED
      BY <1>0, <2>1, <2>2, <2>3, <3>1 DEF Obj!ObjectCounted, Obj!GrabsCounted
  <2>4. CASE Obj!Drop(r)
    <3>1. ~Obj!Open(r) /\ UNCHANGED <<writer, grabs, sent>> /\ rpc[r] = "drop"
          /\ reference' = reference - 1 /\ freed' = (freed \/ reference = 1)
      BY <2>4 DEF Obj!Open, Obj!Drop, Obj!R, Obj!objVars, Obj!writerVars
    <3>2. reference > 0 /\ ~freed
      BY <3>1, ObjectLive
    <3>3. /\ reference' = (IF writer' = "none" THEN 0 ELSE 1) + sent' + Obj!Cardinality(Obj!Opened')
          /\ reference' = 0 <=> reference = 1
      BY <1>0, <2>1, <2>2, <2>4, <3>1, <3>2 DEF Obj!ObjectCounted
    <3>4. freed' <=> reference' = 0
      BY <3>1, <3>2, <3>3
    <3> QED
      BY <1>0, <2>1, <2>2, <2>4, <3>1, <3>3, <3>4 DEF Obj!ObjectCounted, Obj!GrabsCounted
  <2> QED
    BY <1>7, <2>3, <2>4
<1>8. Obj!ObjectCounted' /\ Obj!GrabsCounted' /\ sent' \in Nat
  BY <1>3, <1>4, <1>5, <1>6, <1>7, <1>2 DEF Obj!Next, Obj!Writer, Obj!Reader
<1>9. grabs' \in 0..ObjMaxGrab
  BY ObjTypesNext DEF ObjTypes
<1> QED
  BY <1>1, <1>8, <1>9

\* A copy has at least no holder, and not more than all who could hold it.
LEMMA HoldersTypes ==
  ASSUME Obj!StmConstants, NEW k
  PROVE  /\ Obj!Holders(k) \in 0..(2 + 2 * Obj!Cardinality(ObjReaders))
         /\ Obj!Holders(k)' \in 0..(2 + 2 * Obj!Cardinality(ObjReaders))
<1>1. /\ Obj!Keeping(k) \in SUBSET ObjReaders /\ Obj!Getting(k) \in SUBSET ObjReaders
      /\ Obj!Keeping(k)' \in SUBSET ObjReaders /\ Obj!Getting(k)' \in SUBSET ObjReaders
  BY DEF Obj!Keeping, Obj!Getting
<1>2. \A x : Obj!Is(x, k) \in {0, 1}
  BY DEF Obj!Is
<1>3. \A S \in SUBSET ObjReaders : /\ Obj!Cardinality(S) \in Nat
                                   /\ Obj!Cardinality(S) <= Obj!Cardinality(ObjReaders)
  BY ReadersCounted
<1>4. Obj!Cardinality(ObjReaders) \in Nat
  BY ObjFinite, FS_CardinalityType DEF Obj!StmConstants
<1> DEFINE C == Obj!Cardinality(ObjReaders)
<1>5. ASSUME NEW a \in {0, 1}, NEW b \in {0, 1}, NEW K \in Nat, NEW G \in Nat, K <= C, G <= C
      PROVE  a + b + K + G \in 0..(2 + 2 * C)
  <2> HIDE DEF C
  <2>1. C \in Nat
    BY <1>4 DEF C
  <2> QED
    BY <1>5, <2>1
<1>6. Obj!Holders(k) = Obj!Is(copy, k) + Obj!Is(old, k) +
                       Obj!Cardinality(Obj!Keeping(k)) + Obj!Cardinality(Obj!Getting(k))
  BY DEF Obj!Holders
<1>7. Obj!Holders(k)' = Obj!Is(copy', k) + Obj!Is(old', k) +
                        Obj!Cardinality(Obj!Keeping(k)') + Obj!Cardinality(Obj!Getting(k)')
  BY DEF Obj!Holders, Obj!Is
<1>8. Obj!Holders(k) \in 0..(2 + 2 * C)
  <2>1. /\ Obj!Cardinality(Obj!Keeping(k)) \in Nat /\ Obj!Cardinality(Obj!Keeping(k)) <= C
        /\ Obj!Cardinality(Obj!Getting(k)) \in Nat /\ Obj!Cardinality(Obj!Getting(k)) <= C
    BY <1>1, <1>3
  <2> QED
    BY <1>2, <1>5, <1>6, <2>1
<1>9. Obj!Holders(k)' \in 0..(2 + 2 * C)
  <2>1. /\ Obj!Cardinality(Obj!Keeping(k)') \in Nat /\ Obj!Cardinality(Obj!Keeping(k)') <= C
        /\ Obj!Cardinality(Obj!Getting(k)') \in Nat /\ Obj!Cardinality(Obj!Getting(k)') <= C
    BY <1>1, <1>3
  <2> QED
    BY <1>2, <1>5, <1>7, <2>1
<1> QED
  BY <1>8, <1>9

CopyCounts == cref \in [1..ObjMaxCopy -> 0..(2 + 2 * Obj!Cardinality(ObjReaders))] /\ Obj!CopiesCounted

\* Whoever lets a copy go releases it, and the last one frees it.
LEMMA LetGo ==
  ASSUME Obj!StmConstants, Obj!IInv, NEW c \in 0..made, Obj!ReleaseCopy(c), made' = made,
         \A k \in 1..made : Obj!Holders(k)' = Obj!Holders(k) - Obj!Is(c, k)
  PROVE  CopyCounts'
<1> DEFINE B == 2 + 2 * Obj!Cardinality(ObjReaders)
<1>0. /\ cref \in [1..ObjMaxCopy -> 0..B] /\ gone \subseteq 1..made /\ Obj!CopiesCounted
      /\ made \in 1..ObjMaxCopy /\ ObjMaxCopy \in Nat /\ B \in Int
  BY HoldersTypes, ObjFinite, FS_CardinalityType
     DEF Obj!IInv, Obj!StmRight, Obj!TypeOK, Obj!CopiesKnown, Obj!StmConstants
<1>1. \A k \in 1..made : Obj!Holders(k)' \in 0..B
  BY HoldersTypes
<1> HIDE DEF B
<1>2. \A k \in 1..made : cref[k] = Obj!Holders(k) /\ (k \in gone <=> cref[k] = 0)
  BY <1>0 DEF Obj!CopiesCounted
<1>3. CASE c = 0
  <2>1. cref' = cref /\ gone' = gone
    BY <1>3 DEF Obj!ReleaseCopy
  <2>2. \A k \in 1..made : Obj!Holders(k)' = Obj!Holders(k)
    BY <1>0, <1>2, <1>3 DEF Obj!Is
  <2>3. Obj!CopiesCounted'
    BY <1>2, <2>1, <2>2 DEF Obj!CopiesCounted
  <2> QED
    BY <1>0, <2>1, <2>3 DEF CopyCounts, B
<1>4. CASE c # 0
  <2>1. /\ c \in 1..made /\ c \in 1..ObjMaxCopy
        /\ cref' = [cref EXCEPT ![c] = cref[c] - 1]
        /\ gone' = IF cref[c] = 1 THEN gone \cup {c} ELSE gone
    BY <1>0, <1>4 DEF Obj!ReleaseCopy
  <2>2. cref[c] - 1 = Obj!Holders(c)' /\ cref[c] \in Int
    BY <1>0, <1>2, <2>1 DEF Obj!Is
  <2>3. cref[c] - 1 \in 0..B /\ cref[c] >= 1
    BY <1>0, <1>1, <2>1, <2>2
  <2>4. cref' \in [1..ObjMaxCopy -> 0..B]
    BY <1>0, <2>1, <2>3
  <2>5. \A k \in 1..made : k # c => cref'[k] = cref[k] /\ Obj!Holders(k)' = Obj!Holders(k)
    BY <1>0, <1>2, <2>1 DEF Obj!Is
  <2>6. cref'[c] = cref[c] - 1
    BY <1>0, <2>1
  <2>7. \A k \in 1..made : k # c => (k \in gone' <=> k \in gone)
    BY <2>1
  <2>8. c \in gone' <=> cref'[c] = 0
    <3>1. c \notin gone
      BY <1>2, <2>1, <2>3
    <3> QED
      BY <2>1, <2>2, <2>6, <3>1
  <2>9. Obj!CopiesCounted'
    BY <1>2, <2>2, <2>5, <2>6, <2>7, <2>8 DEF Obj!CopiesCounted
  <2> QED
    BY <2>4, <2>9 DEF CopyCounts, B
<1> QED
  BY <1>3, <1>4

\* What neither takes nor lets go a copy.
SameHolders ==
  /\ UNCHANGED <<cref, gone, made, copy, old, last>>
  /\ \A k \in 1..made : Obj!Getting(k)' = Obj!Getting(k)

\* Every copy's count is the number of its holders, and it is freed with the last.
LEMMA CopiesNext ==
  ASSUME Obj!StmConstants, Obj!IInv, Obj!Next
  PROVE  CopyCounts'
<1>0. /\ ObjTypes /\ Obj!LockRight /\ Obj!CopiesKnown /\ CopyCounts /\ ObjMaxCopy \in Nat
      /\ ObjTypes'
  BY ObjTypesNext
     DEF Obj!IInv, Obj!StmRight, Obj!TypeOK, ObjTypes, CopyCounts, Obj!StmConstants
<1>1. \A k : Obj!Holders(k) \in Int /\ Obj!Holders(k)' \in Int
  BY HoldersTypes, ObjFinite, FS_CardinalityType DEF Obj!StmConstants
<1>2. \A k : /\ Obj!Holders(k) = Obj!Is(copy, k) + Obj!Is(old, k) + Obj!Cardinality(Obj!Keeping(k))
                               + Obj!Cardinality(Obj!Getting(k))
             /\ Obj!Holders(k)' = Obj!Is(copy', k) + Obj!Is(old', k) + Obj!Cardinality(Obj!Keeping(k)')
                                + Obj!Cardinality(Obj!Getting(k)')
             /\ Obj!Is(copy, k) \in Int /\ Obj!Is(old, k) \in Int /\ Obj!Is(copy', k) \in Int
             /\ Obj!Is(old', k) \in Int /\ Obj!Is(0, 0) = 1 /\ \A j \in 1..ObjMaxCopy : Obj!Is(0, j) = 0
  BY DEF Obj!Holders, Obj!Is
<1>3. \A k : /\ Obj!Keeping(k) \in SUBSET ObjReaders /\ Obj!Keeping(k)' \in SUBSET ObjReaders
             /\ Obj!Getting(k) \in SUBSET ObjReaders /\ Obj!Getting(k)' \in SUBSET ObjReaders
  BY DEF Obj!Keeping, Obj!Getting
<1>4. \A k : /\ Obj!Cardinality(Obj!Keeping(k)) \in Nat /\ Obj!Cardinality(Obj!Keeping(k)') \in Nat
             /\ Obj!Cardinality(Obj!Getting(k)) \in Nat /\ Obj!Cardinality(Obj!Getting(k)') \in Nat
  BY <1>3, ReadersCounted
<1>5. ASSUME SameHolders PROVE CopyCounts'
  <2>1. 0 \in 0..made /\ Obj!ReleaseCopy(0) /\ made' = made
    BY <1>0, <1>5 DEF SameHolders, Obj!ReleaseCopy, ObjTypes
  <2>2. \A k \in 1..made : Obj!Holders(k)' = Obj!Holders(k)
    BY <1>5 DEF SameHolders, Obj!Holders, Obj!Keeping
  <2>3. \A k \in 1..made : Obj!Is(0, k) = 0
    BY <1>0 DEF Obj!Is, ObjTypes
  <2>4. \A k \in 1..made : Obj!Holders(k)' = Obj!Holders(k) - Obj!Is(0, k)
    BY <1>1, <2>2, <2>3
  <2> QED
    BY <2>1, <2>4, LetGo
<1>6. CASE Obj!GrabLock \/ Obj!Grab \/ Obj!UpdateLock \/ Obj!UpdateUnlock \/ Obj!DeleteLock \/ Obj!DeleteRef
  <2>1. UNCHANGED <<cref, gone, made, copy, old, last, tmp, rpc>>
    BY <1>6 DEF Obj!GrabLock, Obj!Grab, Obj!UpdateLock, Obj!UpdateUnlock, Obj!DeleteLock,
       Obj!DeleteRef, Obj!WLock,
       Obj!readerVars
  <2> QED
    BY <1>5, <2>1 DEF SameHolders, Obj!Getting
<1>7. ASSUME NEW r \in ObjReaders,
             Obj!Open(r) \/ Obj!ReadLock(r) \/ Obj!CloseLock(r) \/ Obj!Drop(r) \/ Obj!DropUnlock(r) \/ Obj!ReadUnlock(r)
      PROVE  CopyCounts'
  <2>1. UNCHANGED <<cref, gone, made, copy, old, last, tmp>>
    BY <1>7 DEF Obj!Open, Obj!ReadLock, Obj!CloseLock, Obj!Drop, Obj!DropUnlock, Obj!ReadUnlock,
       Obj!RLock, Obj!RUnlock,
       Obj!objVars, Obj!writerVars
  <2>2. PICK from \in Obj!Pcs, to \in Obj!Pcs :
          /\ rpc[r] = from /\ rpc' = [rpc EXCEPT ![r] = to]
          /\ from \in {"unlock", "compare"} <=> to \in {"unlock", "compare"}
    BY <1>0, <1>7 DEF Obj!Open, Obj!ReadLock, Obj!CloseLock, Obj!Drop, Obj!DropUnlock,
       Obj!ReadUnlock, Obj!RLock,
       Obj!RUnlock, Obj!R, Obj!Pcs
  <2>3. \A k \in 1..made : Obj!Getting(k)' = Obj!Getting(k)
    BY <1>0, <2>1, <2>2 DEF Obj!Getting, ObjTypes
  <2> QED
    BY <1>5, <2>1, <2>3 DEF SameHolders
<1>8. ASSUME NEW r \in ObjReaders, Obj!Load(r) PROVE CopyCounts'
  <2>1. UNCHANGED <<cref, gone, made, copy, old, last>>
    BY <1>8 DEF Obj!Load, Obj!objVars, Obj!writerVars
  <2>2. \A k \in 1..made : Obj!Getting(k)' = Obj!Getting(k)
    BY <1>0, <1>8 DEF Obj!Load, Obj!R, Obj!Getting, ObjTypes
  <2> QED
    BY <1>5, <2>1, <2>2 DEF SameHolders
<1>9. CASE Obj!UpdateRelease
  <2>1. /\ Obj!ReleaseCopy(old) /\ old \in 0..made /\ made' = made
        /\ old' = 0 /\ UNCHANGED <<copy, last, tmp, rpc>>
    BY <1>0, <1>9 DEF Obj!UpdateRelease, Obj!W, Obj!objVars, Obj!readerVars, ObjTypes,
       Obj!CopiesKnown
  <2>2. \A k \in 1..made : Obj!Holders(k)' = Obj!Holders(k) - Obj!Is(old, k)
    <3>1. \A k \in 1..made : /\ Obj!Keeping(k)' = Obj!Keeping(k) /\ Obj!Getting(k)' = Obj!Getting(k)
                             /\ Obj!Is(old', k) = 0 /\ copy' = copy
      BY <1>0, <2>1 DEF Obj!Keeping, Obj!Getting, Obj!Is, ObjTypes
    <3> QED
      BY <1>2, <1>4, <3>1
  <2> QED
    BY <2>1, <2>2, LetGo
<1>10. CASE Obj!DeleteCopy
  <2>1. /\ Obj!ReleaseCopy(copy) /\ copy \in 0..made /\ made' = made
        /\ copy' = 0 /\ UNCHANGED <<old, last, tmp, rpc>>
    BY <1>0, <1>10 DEF Obj!DeleteCopy, Obj!W, Obj!readerVars, ObjTypes, Obj!CopiesKnown
  <2>2. \A k \in 1..made : Obj!Holders(k)' = Obj!Holders(k) - Obj!Is(copy, k)
    <3>1. \A k \in 1..made : /\ Obj!Keeping(k)' = Obj!Keeping(k) /\ Obj!Getting(k)' = Obj!Getting(k)
                             /\ Obj!Is(copy', k) = 0 /\ old' = old
      BY <1>0, <2>1 DEF Obj!Keeping, Obj!Getting, Obj!Is, ObjTypes
    <3> QED
      BY <1>2, <1>4, <3>1
  <2> QED
    BY <2>1, <2>2, LetGo
<1>11. ASSUME NEW r \in ObjReaders, Obj!Compare(r) PROVE CopyCounts'
  <2>1. /\ Obj!ReleaseCopy(last[r]) /\ last[r] \in 0..made /\ made' = made
        /\ UNCHANGED <<copy, old>>
        /\ last' = [last EXCEPT ![r] = tmp[r]] /\ tmp' = [tmp EXCEPT ![r] = 0]
        /\ rpc[r] = "compare" /\ rpc' = [rpc EXCEPT ![r] = "idle"]
    BY <1>0, <1>11 DEF Obj!Compare, Obj!R, Obj!objVars, Obj!writerVars, ObjTypes, Obj!CopiesKnown
  <2>2. ASSUME NEW k \in 1..made PROVE Obj!Holders(k)' = Obj!Holders(k) - Obj!Is(last[r], k)
    <3>1. /\ Obj!Keeping(k) \ {r} = Obj!Keeping(k)' \ {r}
          /\ r \in Obj!Keeping(k) <=> last[r] = k
          /\ r \in Obj!Keeping(k)' <=> tmp[r] = k
      BY <1>0, <2>1 DEF Obj!Keeping, ObjTypes
    <3>2. /\ Obj!Getting(k) \ {r} = Obj!Getting(k)' \ {r}
          /\ r \in Obj!Getting(k) <=> tmp[r] = k
          /\ r \notin Obj!Getting(k)'
      BY <1>0, <2>1 DEF Obj!Getting, ObjTypes
    <3>3. Obj!Cardinality(Obj!Keeping(k)') = Obj!Cardinality(Obj!Keeping(k)) + (IF tmp[r] = k THEN 1 ELSE 0)
                                       - (IF last[r] = k THEN 1 ELSE 0)
      BY <1>3, <3>1, ReaderMoves
    <3>4. Obj!Cardinality(Obj!Getting(k)') = Obj!Cardinality(Obj!Getting(k)) - (IF tmp[r] = k THEN 1 ELSE 0)
      <4>1. Obj!Cardinality(Obj!Getting(k)') = Obj!Cardinality(Obj!Getting(k))
              + (IF r \in Obj!Getting(k)' THEN 1 ELSE 0) - (IF r \in Obj!Getting(k) THEN 1 ELSE 0)
        BY <1>3, <3>2, ReaderMoves
      <4> QED
        BY <1>4, <3>2, <4>1
    <3>5. Obj!Is(last[r], k) = IF last[r] = k THEN 1 ELSE 0
      BY DEF Obj!Is
    <3> QED
      BY <1>2, <1>4, <2>1, <3>3, <3>4, <3>5
  <2> QED
    BY <2>1, <2>2, LetGo
<1>12. ASSUME NEW r \in ObjReaders, Obj!Close(r) PROVE CopyCounts'
  <2>1. /\ Obj!ReleaseCopy(last[r]) /\ last[r] \in 0..made /\ made' = made
        /\ UNCHANGED <<copy, old, tmp>> /\ last' = [last EXCEPT ![r] = 0]
        /\ rpc[r] = "close" /\ rpc' = [rpc EXCEPT ![r] = "none"]
    BY <1>0, <1>12 DEF Obj!Close, Obj!R, Obj!objVars, Obj!writerVars, ObjTypes, Obj!CopiesKnown
  <2>2. ASSUME NEW k \in 1..made PROVE Obj!Holders(k)' = Obj!Holders(k) - Obj!Is(last[r], k)
    <3>1. /\ Obj!Keeping(k) \ {r} = Obj!Keeping(k)' \ {r}
          /\ r \in Obj!Keeping(k) <=> last[r] = k
          /\ r \notin Obj!Keeping(k)'
      BY <1>0, <2>1 DEF Obj!Keeping, ObjTypes
    <3>2. Obj!Getting(k)' = Obj!Getting(k)
      BY <1>0, <2>1 DEF Obj!Getting, ObjTypes
    <3>3. Obj!Cardinality(Obj!Keeping(k)') = Obj!Cardinality(Obj!Keeping(k))
            + (IF r \in Obj!Keeping(k)' THEN 1 ELSE 0) - (IF r \in Obj!Keeping(k) THEN 1 ELSE 0)
      BY <1>3, <3>1, ReaderMoves
    <3>4. Obj!Is(last[r], k) = IF r \in Obj!Keeping(k) THEN 1 ELSE 0
      BY <3>1 DEF Obj!Is
    <3> QED
      BY <1>2, <1>4, <2>1, <3>1, <3>2, <3>3, <3>4
  <2> QED
    BY <2>1, <2>2, LetGo
<1>13. CASE Obj!Update
  <2> DEFINE B == 2 + 2 * Obj!Cardinality(ObjReaders)
  <2>0. made \in Nat
    BY <1>0 DEF ObjTypes
  <2> PICK c \in Nat : c = made + 1
    BY <2>0
  <2>1. /\ made' = c /\ cref' = [cref EXCEPT ![c] = 1] /\ gone' = gone
        /\ copy' = c /\ old' = copy /\ UNCHANGED <<last, tmp, rpc>>
        /\ c \in 1..ObjMaxCopy /\ made \in Nat /\ old = 0
    BY <1>0, <1>13 DEF Obj!Update, Obj!W, Obj!readerVars, ObjTypes, Obj!CopiesKnown
  <2>2. B \in Nat /\ cref \in [1..ObjMaxCopy -> 0..B] /\ 1 \in 0..B
    BY <1>0, ObjFinite, FS_CardinalityType DEF CopyCounts, Obj!StmConstants
  <2>3. cref' \in [1..ObjMaxCopy -> 0..B]
    <3> HIDE DEF B
    <3> QED
      BY <2>1, <2>2
  <2>4. \A k \in 1..c : Obj!Keeping(k)' = Obj!Keeping(k) /\ Obj!Getting(k)' = Obj!Getting(k)
    BY <2>1 DEF Obj!Keeping, Obj!Getting
  <2>5. \A k \in 1..made : Obj!Holders(k)' = Obj!Holders(k)
    <3>1. \A k \in 1..made : Obj!Is(c, k) = 0 /\ Obj!Is(0, k) = 0 /\ k \in 1..c
      BY <2>1 DEF Obj!Is
    <3> QED
      BY <1>2, <1>4, <2>1, <2>4, <3>1
  <2>6. Obj!Holders(c)' = 1
    <3>1. Obj!Keeping(c) = {} /\ Obj!Getting(c) = {}
      BY <1>0, <2>1 DEF Obj!Keeping, Obj!Getting, Obj!CopiesKnown, ObjTypes
    <3>2. Obj!Is(c, c) = 1 /\ Obj!Is(copy, c) = 0
      BY <1>0, <2>1 DEF Obj!Is, Obj!CopiesKnown, ObjTypes
    <3>3. c \in 1..c
      BY <2>1
    <3>4. Obj!Keeping(c)' = {} /\ Obj!Getting(c)' = {}
      BY <2>4, <3>1, <3>3
    <3>5. Obj!Cardinality(Obj!Keeping(c)') = 0 /\ Obj!Cardinality(Obj!Getting(c)') = 0
      BY <3>4, ObjFinite, FS_EmptySet
    <3>6. Obj!Holders(c)' = Obj!Is(copy', c) + Obj!Is(old', c) + Obj!Cardinality(Obj!Keeping(c)')
                          + Obj!Cardinality(Obj!Getting(c)')
      BY <1>2
    <3>7. Obj!Is(copy', c) = 1 /\ Obj!Is(old', c) = 0
      BY <2>1, <3>2
    <3> QED
      BY <3>5, <3>6, <3>7
  <2>7. \A k \in 1..made : cref'[k] = cref[k]
    BY <2>1, <2>2
  <2>8. cref'[c] = 1 /\ c \notin gone
    BY <1>0, <2>1, <2>2 DEF Obj!CopiesKnown
  <2>9. \A k \in 1..made : cref[k] = Obj!Holders(k) /\ (k \in gone <=> cref[k] = 0)
    BY <1>0 DEF CopyCounts, Obj!CopiesCounted
  <2>10. \A k \in 1..c : k \in 1..made \/ k = c
    BY <2>1
  <2>11. ASSUME NEW k \in 1..c PROVE cref'[k] = Obj!Holders(k)' /\ (k \in gone' <=> cref'[k] = 0)
    <3>1. CASE k = c
      <4>1. cref'[c] = Obj!Holders(c)' /\ cref'[c] # 0 /\ c \notin gone'
        BY <2>1, <2>6, <2>8
      <4> QED
        BY <3>1, <4>1
    <3>2. CASE k \in 1..made
      BY <2>1, <2>5, <2>7, <2>9, <3>2
    <3> QED
      BY <2>10, <3>1, <3>2
  <2>12. Obj!CopiesCounted'
    BY <2>1, <2>11 DEF Obj!CopiesCounted
  <2> QED
    BY <2>3, <2>12 DEF CopyCounts
<1>14. ASSUME NEW r \in ObjReaders, Obj!Hold(r) PROVE CopyCounts'
  <2> DEFINE B == 2 + 2 * Obj!Cardinality(ObjReaders)
  <2>1. /\ UNCHANGED <<gone, made, copy, old, tmp, last>> /\ tmp[r] = copy
        /\ cref' = IF copy = 0 THEN cref ELSE [cref EXCEPT ![copy] = @ + 1]
        /\ rpc[r] = "hold" /\ rpc' = [rpc EXCEPT ![r] = "unlock"] /\ copy \in 0..made
    <3>1. tmp[r] = copy /\ rpc[r] = "hold" /\ copy \in 0..made
      BY <1>0, <1>14 DEF Obj!Hold, Obj!R, ObjTypes, Obj!CopiesKnown
    <3>2. cref' = IF tmp[r] = 0 THEN cref ELSE [cref EXCEPT ![tmp[r]] = @ + 1]
      BY <1>14 DEF Obj!Hold
    <3>3. /\ UNCHANGED <<gone, made, copy, old, tmp, last>>
          /\ rpc' = [rpc EXCEPT ![r] = "unlock"]
      BY <1>14 DEF Obj!Hold, Obj!R, Obj!objVars, Obj!writerVars
    <3> QED
      BY <3>1, <3>2, <3>3
  <2>2. cref \in [1..ObjMaxCopy -> 0..B] /\ made \in 1..ObjMaxCopy
        /\ \A k \in 1..made : cref[k] = Obj!Holders(k) /\ (k \in gone <=> cref[k] = 0)
    BY <1>0 DEF CopyCounts, Obj!CopiesCounted, ObjTypes
  <2>3. ASSUME NEW k \in 1..made PROVE Obj!Holders(k)' = Obj!Holders(k) + Obj!Is(copy, k)
    <3>1. /\ Obj!Getting(k) \ {r} = Obj!Getting(k)' \ {r}
          /\ r \notin Obj!Getting(k)
          /\ r \in Obj!Getting(k)' <=> copy = k
      BY <1>0, <2>1 DEF Obj!Getting, ObjTypes
    <3>2. Obj!Keeping(k)' = Obj!Keeping(k)
      BY <2>1 DEF Obj!Keeping
    <3>3. Obj!Cardinality(Obj!Getting(k)') = Obj!Cardinality(Obj!Getting(k))
            + (IF r \in Obj!Getting(k)' THEN 1 ELSE 0) - (IF r \in Obj!Getting(k) THEN 1 ELSE 0)
      BY <1>3, <3>1, ReaderMoves
    <3>4. Obj!Is(copy, k) = IF r \in Obj!Getting(k)' THEN 1 ELSE 0
      BY <3>1 DEF Obj!Is
    <3> QED
      BY <1>2, <1>4, <2>1, <3>1, <3>2, <3>3, <3>4
  <2>4. CASE copy = 0
    <3>1. cref' = cref /\ \A k \in 1..made : Obj!Is(copy, k) = 0
      BY <1>0, <2>1, <2>2, <2>4 DEF Obj!Is
    <3>2. Obj!CopiesCounted'
      BY <1>1, <2>1, <2>2, <2>3, <3>1 DEF Obj!CopiesCounted
    <3> QED
      BY <1>0, <3>1, <3>2 DEF CopyCounts
  <2>5. CASE copy # 0
    <3>0. copy \in 1..made
      BY <1>0, <2>1, <2>2, <2>5
    <3> PICK c \in 1..made : c = copy
      BY <3>0
    <3>1. c \in 1..ObjMaxCopy /\ cref' = [cref EXCEPT ![c] = cref[c] + 1]
      BY <1>0, <2>1, <2>2, <2>5
    <3>2. \A k \in 1..made : Obj!Is(copy, k) = IF k = c THEN 1 ELSE 0
      BY DEF Obj!Is
    <3>3. cref[c] + 1 = Obj!Holders(c)' /\ Obj!Holders(c)' \in 0..B
      <4>1. Obj!Holders(c)' = Obj!Holders(c) + 1 /\ cref[c] = Obj!Holders(c)
        BY <2>2, <2>3, <3>2
      <4>2. Obj!Holders(c)' \in 0..B
        BY HoldersTypes
      <4> QED
        BY <4>1, <4>2
    <3>4. cref' \in [1..ObjMaxCopy -> 0..B]
      <4> HIDE DEF B
      <4> QED
        BY <2>2, <3>1, <3>3
    <3>5. \A k \in 1..made : k # c => cref'[k] = cref[k] /\ Obj!Holders(k)' = Obj!Holders(k)
      BY <1>1, <2>2, <2>3, <3>1, <3>2
    <3>6. cref'[c] = Obj!Holders(c)'
      BY <2>2, <3>1, <3>3
    <3>7. c \notin gone /\ cref'[c] # 0
      <4>1. Obj!Is(copy, c) = 1 /\ Obj!Is(old, c) \in {0, 1}
        BY DEF Obj!Is
      <4>2. Obj!Holders(c) >= 1
        BY <1>2, <1>4, <4>1
      <4>3. cref[c] >= 1 /\ cref[c] \in Int
        BY <1>1, <2>2, <4>2
      <4> QED
        BY <2>2, <3>3, <3>6, <4>3
    <3>8. Obj!CopiesCounted'
      BY <2>1, <2>2, <3>5, <3>6, <3>7 DEF Obj!CopiesCounted
    <3> QED
      BY <3>4, <3>8 DEF CopyCounts
  <2> QED
    BY <2>4, <2>5
<1> QED
  BY <1>6, <1>7, <1>8, <1>9, <1>10, <1>11, <1>12, <1>13, <1>14 DEF Obj!Next, Obj!Writer, Obj!Reader

\* The asserts follow from the counts.
LEMMA AssertsNext ==
  ASSUME Obj!StmConstants, Obj!IInv, Obj!Next
  PROVE  Obj!AssertsHold'
<1>0. /\ ObjTypes' /\ Obj!LockRight' /\ Obj!CopiesKnown' /\ CopyCounts'
      /\ Obj!ObjectCounted' /\ sent' \in Nat
  BY ObjTypesNext, ObjLockNext, CopiesKnownNext, CopiesNext, ObjectNext DEF Obj!StmConstants
<1>1. writer' = "grab" => reference' > 0
  <2>1. Obj!Opened' \in SUBSET ObjReaders
    BY DEF Obj!Opened
  <2>2. Obj!Cardinality(Obj!Opened)' \in Nat
    BY <2>1, ReadersCounted
  <2> QED
    BY <1>0, <2>2 DEF Obj!ObjectCounted
<1>2. ASSUME NEW r \in ObjReaders, rpc'[r] = "hold", tmp'[r] # 0
      PROVE  cref'[tmp'[r]] > 0
  <2>1. tmp'[r] = copy' /\ copy' \in 1..made'
    BY <1>0, <1>2 DEF Obj!CopiesKnown, ObjTypes, Obj!StmConstants
  <2> PICK c \in 1..made' : c = copy'
    BY <2>1
  <2>2. cref'[c] = Obj!Holders(c)'
    BY <1>0 DEF CopyCounts, Obj!CopiesCounted
  <2>3. /\ Obj!Keeping(c)' \in SUBSET ObjReaders /\ Obj!Getting(c)' \in SUBSET ObjReaders
        /\ Obj!Is(c, c) = 1 /\ Obj!Is(old', c) \in {0, 1}
    BY DEF Obj!Keeping, Obj!Getting, Obj!Is
  <2>4. Obj!Cardinality(Obj!Keeping(c)') \in Nat /\ Obj!Cardinality(Obj!Getting(c)') \in Nat
    BY <2>3, ReadersCounted
  <2>5. Obj!Holders(c)' = Obj!Is(c, c) + Obj!Is(old', c) + Obj!Cardinality(Obj!Keeping(c)')
                        + Obj!Cardinality(Obj!Getting(c)')
    BY DEF Obj!Holders, Obj!Is
  <2>6. Obj!Holders(c)' > 0
    BY <2>3, <2>4, <2>5
  <2> QED
    BY <2>1, <2>2, <2>6
<1>3. (writer' = "delete" => copy' # 0) /\ (writer' = "none" => copy' = 0)
  BY <1>0 DEF Obj!CopiesKnown
<1> QED
  BY <1>1, <1>2, <1>3 DEF Obj!AssertsHold

\* Whoever touches the object has a reference to it, except for a reader that is
\* about to unlock after it has dropped its own.
LEMMA UsedNext ==
  ASSUME Obj!StmConstants, Obj!IInv, Obj!Next
  PROVE  Obj!UsedWhileLive'
<1>0. Obj!UsedWhileLive
  BY DEF Obj!IInv, Obj!StmRight
<1>1. \A what : Obj!Touch(what) /\ (freed => what = "drop_unlock") => Obj!UsedWhileLive'
  BY <1>0 DEF Obj!Touch, Obj!UsedWhileLive
<1>2. ASSUME late' = late PROVE Obj!UsedWhileLive'
  BY <1>0, <1>2 DEF Obj!UsedWhileLive
<1>3. CASE Obj!Writer
  <2>1. writer # "none" /\ (late' = late \/ \E what : Obj!Touch(what))
    BY <1>3 DEF Obj!Writer, Obj!GrabLock, Obj!Grab, Obj!UpdateLock, Obj!Update, Obj!UpdateUnlock,
       Obj!UpdateRelease,
       Obj!DeleteLock, Obj!DeleteCopy, Obj!DeleteRef, Obj!WLock, Obj!W
  <2>2. ~freed
    BY <2>1, ObjectLive
  <2> QED
    BY <1>1, <1>2, <2>1, <2>2
<1>4. ASSUME NEW r \in ObjReaders, Obj!Reader(r) PROVE Obj!UsedWhileLive'
  <2>1. CASE Obj!Open(r) \/ Obj!Hold(r) \/ Obj!Compare(r) \/ Obj!Close(r)
    BY <1>2, <2>1 DEF Obj!Open, Obj!Hold, Obj!Compare, Obj!Close
  <2>2. CASE Obj!DropUnlock(r)
    BY <1>1, <2>2 DEF Obj!DropUnlock, Obj!RUnlock
  <2>3. CASE Obj!ReadLock(r) \/ Obj!Load(r) \/ Obj!ReadUnlock(r) \/ Obj!CloseLock(r) \/ Obj!Drop(r)
    <3>1. rpc[r] \in {"idle", "load", "unlock", "drop"} /\ \E what : Obj!Touch(what)
      BY <2>3 DEF Obj!ReadLock, Obj!Load, Obj!ReadUnlock, Obj!CloseLock, Obj!Drop, Obj!RLock,
         Obj!RUnlock, Obj!R
    <3>2. ~freed
      BY <3>1, ObjectLive
    <3> QED
      BY <1>1, <3>1, <3>2
  <2> QED
    BY <1>4, <2>1, <2>2, <2>3 DEF Obj!Reader
<1> QED
  BY <1>3, <1>4 DEF Obj!Next

\* IInv holds at the start.
LEMMA ObjInit ==
  ASSUME Obj!StmConstants, Obj!Init
  PROVE  Obj!IInv
<1>1. /\ ObjMaxCopy \in Nat \ {0} /\ ObjMaxGrab \in Nat /\ 1 \in 1..ObjMaxCopy
      /\ Obj!Cardinality(ObjReaders) \in Nat
  BY ObjFinite, FS_CardinalityType DEF Obj!StmConstants
<1>2. ObjTypes
  <2>1. /\ copy \in 0..ObjMaxCopy /\ gone \subseteq 1..ObjMaxCopy
        /\ old \in 0..ObjMaxCopy /\ made \in 1..ObjMaxCopy /\ grabs \in 0..ObjMaxGrab
    BY <1>1 DEF Obj!Init
  <2>2. freed \in BOOLEAN /\ stmWrite \in {0, 1} /\ stmRead \subseteq ObjReaders \cup {0}
    BY DEF Obj!Init
  <2>3. 0 \in 0..ObjMaxCopy /\ "none" \in Obj!Pcs
    BY <1>1 DEF Obj!Pcs
  <2>4. /\ rpc \in [ObjReaders -> Obj!Pcs] /\ tmp \in [ObjReaders -> 0..ObjMaxCopy]
        /\ last \in [ObjReaders -> 0..ObjMaxCopy]
    BY <2>3 DEF Obj!Init
  <2> QED
    BY <2>1, <2>2, <2>4 DEF ObjTypes
<1>3. reference \in 0..(1 + ObjMaxGrab) /\ sent \in 0..ObjMaxGrab
  BY <1>1 DEF Obj!Init
<1>4. Obj!Opened = {}
  BY DEF Obj!Init, Obj!Opened
<1>5. Obj!Cardinality(Obj!Opened) = 0
  BY <1>4, ObjFinite, FS_EmptySet
<1>6. Obj!ObjectCounted /\ Obj!GrabsCounted
  BY <1>1, <1>5 DEF Obj!Init, Obj!ObjectCounted, Obj!GrabsCounted
<1>7. Obj!LockRight /\ Obj!CopiesKnown
  <2>1. Obj!LockRight
    BY DEF Obj!Init, Obj!LockRight, Obj!Reading, Obj!StmConstants
  <2>2. Obj!CopiesKnown
    BY <1>1 DEF Obj!Init, Obj!CopiesKnown
  <2> QED
    BY <2>1, <2>2
<1>8. CopyCounts
  <2>1. cref = [c \in 1..ObjMaxCopy |-> IF c = 1 THEN 1 ELSE 0]
    BY DEF Obj!Init
  <2>2. cref \in [1..ObjMaxCopy -> 0..(2 + 2 * Obj!Cardinality(ObjReaders))]
    <3>1. 0 \in 0..(2 + 2 * Obj!Cardinality(ObjReaders)) /\ 1 \in 0..(2 + 2 * Obj!Cardinality(ObjReaders))
      BY <1>1
    <3> QED
      BY <2>1, <3>1
  <2>3. Obj!Keeping(1) = {} /\ Obj!Getting(1) = {}
    BY DEF Obj!Init, Obj!Keeping, Obj!Getting
  <2>4. Obj!Cardinality(Obj!Keeping(1)) = 0 /\ Obj!Cardinality(Obj!Getting(1)) = 0
    BY <2>3, ObjFinite, FS_EmptySet
  <2>5. Obj!Holders(1) = 1
    BY <2>4 DEF Obj!Init, Obj!Holders, Obj!Is
  <2>6. made = 1 /\ gone = {} /\ cref[1] = 1
    BY <1>1, <2>1 DEF Obj!Init
  <2>7. Obj!CopiesCounted
    BY <2>5, <2>6 DEF Obj!CopiesCounted
  <2> QED
    BY <2>2, <2>7 DEF CopyCounts
<1>9. Obj!AssertsHold /\ Obj!UsedWhileLive
  BY DEF Obj!Init, Obj!AssertsHold, Obj!UsedWhileLive
<1> QED
  BY <1>2, <1>3, <1>6, <1>7, <1>8, <1>9
     DEF Obj!IInv, Obj!StmRight, Obj!TypeOK, ObjTypes, CopyCounts

\* Every action keeps IInv.
LEMMA ObjNext ==
  ASSUME Obj!StmConstants, Obj!IInv, Obj!Next
  PROVE  Obj!IInv'
<1>1. ObjTypes' /\ Obj!LockRight' /\ Obj!CopiesKnown'
  BY ObjTypesNext, ObjLockNext, CopiesKnownNext
<1>2. /\ Obj!ObjectCounted' /\ Obj!GrabsCounted'
      /\ reference' \in 0..(1 + ObjMaxGrab) /\ sent' \in 0..ObjMaxGrab
  BY ObjectNext
<1>3. CopyCounts' /\ Obj!UsedWhileLive'
  BY CopiesNext, UsedNext
<1>4. Obj!TypeOK'
  BY <1>1, <1>2, <1>3 DEF ObjTypes, CopyCounts, Obj!TypeOK
<1>5. Obj!AssertsHold'
  BY AssertsNext
<1> QED
  BY <1>1, <1>2, <1>3, <1>4, <1>5 DEF Obj!IInv, Obj!StmRight, CopyCounts

\* Every step keeps IInv.
LEMMA ObjStep == ASSUME Obj!StmConstants PROVE Obj!IInv /\ [Obj!Next]_(Obj!vars) => Obj!IInv'
<1>1. ASSUME Obj!IInv, UNCHANGED Obj!vars PROVE Obj!IInv'
  <2>1. /\ UNCHANGED <<reference, copy, freed, stmWrite, stmRead, cref, gone, writer, old>>
        /\ UNCHANGED <<made, grabs, sent, rpc, tmp, last, late>>
    BY <1>1 DEF Obj!vars
  <2>2. /\ \A k : Obj!Keeping(k)' = Obj!Keeping(k) /\ Obj!Getting(k)' = Obj!Getting(k)
        /\ Obj!Opened' = Obj!Opened
    BY <2>1 DEF Obj!Keeping, Obj!Getting, Obj!Opened
  <2>3. \A k : Obj!Holders(k)' = Obj!Holders(k)
    BY <2>1, <2>2 DEF Obj!Holders, Obj!Is
  <2>4. Obj!CopiesCounted'
    BY <1>1, <2>1, <2>3 DEF Obj!IInv, Obj!StmRight, Obj!CopiesCounted
  <2>5. Obj!TypeOK' /\ Obj!UsedWhileLive'
    BY <1>1, <2>1 DEF Obj!IInv, Obj!StmRight, Obj!TypeOK, Obj!UsedWhileLive
  <2>6. Obj!ObjectCounted' /\ Obj!GrabsCounted'
    BY <1>1, <2>1, <2>2 DEF Obj!IInv, Obj!StmRight, Obj!ObjectCounted, Obj!GrabsCounted
  <2>7. Obj!AssertsHold' /\ Obj!LockRight' /\ Obj!CopiesKnown'
    BY <1>1, <2>1 DEF Obj!IInv, Obj!StmRight, Obj!AssertsHold, Obj!LockRight, Obj!CopiesKnown
  <2> QED
    BY <2>4, <2>5, <2>6, <2>7 DEF Obj!IInv, Obj!StmRight
<1> QED
  BY <1>1, ObjNext

\* Every copy and the object itself is freed by whoever lets it go last, never
\* earlier: stm_grab, stm_update, stm_release, lnewreader, lread, ldeletereader.
THEOREM SharedObjects ==
  ASSUME Obj!StmConstants
  PROVE  Obj!Spec => []Obj!StmRight
<1>1. Obj!Init => Obj!IInv
  BY ObjInit
<1>2. Obj!IInv => Obj!StmRight
  BY DEF Obj!IInv
<1> QED
  BY <1>1, <1>2, ObjStep, PTL DEF Obj!Spec

-----------------------------------------------------------------------------
(* All parts, on the instances of the run.                                 *)

\* A behaviour stays with the part it has chosen.
LEMMA SamePart == [AllNext]_allVars => comp' = comp
<1>1. CASE AllNext
  BY <1>1, Zenon DEF AllNext
<1>2. CASE UNCHANGED allVars
  BY <1>2 DEF allVars
<1> QED
  BY <1>1, <1>2

\* skynet_start.c: of the node's three workers, timer and socket thread none ends, and quit
\* is not set, before the last context was deleted.
THEOREM PoolRightInNode == AllSpec => []PoolRight
<1>1. Pool!PoolConstants
  BY NodeConstants
<1>2. ASSUME comp = "pool", [AllNext]_allVars PROVE [Pool!Next]_(Pool!vars)
  <2>1. CASE AllNext
    BY <1>2, <2>1 DEF AllNext
  <2>2. CASE UNCHANGED allVars
    BY <2>2 DEF allVars, Pool!vars, Pool!loadVars, Pool!poolVars, poolVars
  <2> QED
    BY <1>2, <2>1, <2>2
<1>3. AllInit => (comp = "pool" => Pool!IInv)
  <2>1. AllInit /\ comp = "pool" => Pool!Init
    BY DEF AllInit
  <2> QED
    BY <1>1, <2>1, PoolInit
<1>4. (comp = "pool" => Pool!IInv) /\ [AllNext]_allVars => (comp = "pool" => Pool!IInv)'
  BY <1>1, <1>2, PoolStep, SamePart
<1>5. (comp = "pool" => Pool!IInv) => PoolRight
  BY <1>1, QuitMeansEmpty DEF Pool!IInv, Pool!PoolRight, PoolRight
<1> QED
  BY <1>3, <1>4, <1>5, PTL DEF AllSpec

\* skynet_monitor_check on two workers: a stuck callback is flagged, nobody else accused.
THEOREM MonitorRightInNode == AllSpec => []MonitorRight
<1>1. Mon!MonitorConstants
  BY NodeConstants
<1>2. ASSUME comp = "monitor", [AllNext]_allVars PROVE [Mon!Next]_(Mon!vars)
  <2>1. CASE AllNext
    BY <1>2, <2>1 DEF AllNext
  <2>2. CASE UNCHANGED allVars
    BY <2>2 DEF allVars, Mon!vars, monVars
  <2> QED
    BY <1>2, <2>1, <2>2
<1>3. AllInit => (comp = "monitor" => Mon!IInv)
  <2>1. AllInit /\ comp = "monitor" => Mon!Init
    BY DEF AllInit
  <2> QED
    BY <1>1, <2>1, MonitorInit
<1>4. (comp = "monitor" => Mon!IInv) /\ [AllNext]_allVars => (comp = "monitor" => Mon!IInv)'
  BY <1>1, <1>2, MonitorStep, SamePart
<1>5. (comp = "monitor" => Mon!IInv) => MonitorRight
  BY <1>1 DEF MonitorRight, Mon!IInv, Mon!HandsRight, Mon!MonitorRight, Mon!AccusedWasInHand,
              Mon!TypeOK
<1> QED
  BY <1>3, <1>4, <1>5, PTL DEF AllSpec

\* The other parts leave the handle storage in its first state.
LEMMA TableInit == AllInit => Tab!IInv
BY NodeConstants, Tab!InitIInv DEF AllInit

\* Their steps, and its own, keep its invariant.
LEMMA TableStep == Tab!IInv /\ [AllNext]_allVars => Tab!IInv'
<1> SUFFICES ASSUME Tab!IInv, [AllNext]_allVars PROVE Tab!IInv'
  OBVIOUS
<1>1. [Tab!Next]_(Tab!vars)
  <2>1. UNCHANGED tabVars => UNCHANGED Tab!vars
    BY DEF tabVars, Tab!vars, Tab!tabVars
  <2>2. AllNext => Tab!Next \/ UNCHANGED tabVars
    BY DEF AllNext
  <2>3. UNCHANGED allVars => UNCHANGED tabVars
    BY DEF allVars
  <2> QED
    BY <2>1, <2>2, <2>3
<1> QED
  BY <1>1, NodeConstants, Tab!StepIInv

\* skynet_handle.c with one creator, two slots that grow to four and handles that go round:
\* live services are found, no handle is given out twice on the first lap, names are found.
THEOREM HandlesRightInNode == AllSpec => []HandlesRight
<1>1. AllInit => Tab!IInv
  BY TableInit
<1>2. Tab!IInv /\ [AllNext]_allVars => Tab!IInv'
  BY TableStep
<1>3. Tab!IInv => HandlesRight
  BY NodeConstants, Tab!IInvRight DEF HandlesRight
<1> QED
  BY <1>1, <1>2, <1>3, PTL DEF AllSpec

\* skynet_handle_retireall there: nobody of its last pass is left when it returns.
THEOREM NobodyMissedInNode == AllSpec => AbortRetiresAll
<1>1. AllInit => Tab!IInv
  BY TableInit
<1>2. Tab!IInv /\ [AllNext]_allVars => Tab!IInv'
  BY TableStep
<1>3. Tab!IInv /\ [AllNext]_allVars
        => [\A t \in Tab!Callers : Tab!ScanReturn(t) => todo[t] \cap Tab!Present' = {}]_(Tab!vars)
  BY NodeConstants, Tab!IInvAbort
<1> QED
  BY <1>1, <1>2, <1>3, PTL DEF AllSpec, AbortRetiresAll, Tab!AbortRetiresAll

\* skynet_timer.c with a clock of five bits: no timeout is lost, early or late, and those
\* of one tick fire in the order they were asked for.
THEOREM TimerRightInNode == AllSpec => []TimerRight
<1>1. Tim!TimerConstants
  BY NodeConstants
<1>2. [AllNext]_allVars => [Tim!Next]_(Tim!vars)
  <2>1. ASSUME AllNext PROVE Tim!Next \/ UNCHANGED timeVars
    BY <2>1 DEF AllNext
  <2>2. UNCHANGED timeVars => UNCHANGED Tim!vars
    BY DEF timeVars, Tim!vars
  <2>3. UNCHANGED allVars => UNCHANGED timeVars
    BY DEF allVars
  <2> QED
    BY <2>1, <2>2, <2>3
<1>3. AllInit => Tim!IInv
  BY <1>1, Tim!InitIInv DEF AllInit
<1>4. Tim!IInv /\ [AllNext]_allVars => Tim!IInv'
  BY <1>1, <1>2, Tim!StepIInv
<1>5. Tim!IInv => TimerRight
  BY <1>1, Tim!IInvRight DEF TimerRight, Tim!TimerRight
<1> QED
  BY <1>3, <1>4, <1>5, PTL DEF AllSpec

\* lua-stm.c with two readers: every copy and the object are freed by whoever lets them go
\* last.
THEOREM StmRightInNode == AllSpec => []StmRight
<1>1. Obj!StmConstants
  BY NodeConstants
<1>2. ASSUME comp = "shared", [AllNext]_allVars PROVE [Obj!Next]_(Obj!vars)
  <2>1. CASE AllNext
    BY <1>2, <2>1 DEF AllNext
  <2>2. CASE UNCHANGED allVars
    BY <2>2 DEF allVars, Obj!vars, stmVars
  <2> QED
    BY <1>2, <2>1, <2>2
<1>3. AllInit => (comp = "shared" => Obj!IInv)
  <2>1. AllInit /\ comp = "shared" => Obj!Init
    BY DEF AllInit
  <2> QED
    BY <1>1, <2>1, ObjInit
<1>4. (comp = "shared" => Obj!IInv) /\ [AllNext]_allVars => (comp = "shared" => Obj!IInv)'
  BY <1>1, <1>2, ObjStep, SamePart
<1>5. (comp = "shared" => Obj!IInv) => StmRight
  BY <1>1 DEF StmRight, Obj!IInv
<1> QED
  BY <1>3, <1>4, <1>5, PTL DEF AllSpec

\* cache_util.lua with two readers, two writers and two workers, in both ways: an old row
\* stays in redis only by the race, and nobody else gets one that is too old.
THEOREM CacheRightInNode == AllSpec => []CacheRight
<1>1. Row!CacheConstants /\ RowQ!CacheConstants
  BY NodeConstants
<1> DEFINE Inv == /\ comp = "cachekey" => Row!IInv
                  /\ comp = "queryrd" => RowQ!IInv
<1>2. ASSUME comp = "cachekey", [AllNext]_allVars PROVE [Row!Next]_(Row!vars)
  <2>1. CASE AllNext
    BY <1>2, <2>1 DEF AllNext
  <2>2. CASE UNCHANGED allVars
    BY <2>2 DEF allVars, Row!vars, cacVars
  <2> QED
    BY <1>2, <2>1, <2>2
<1>3. ASSUME comp = "queryrd", [AllNext]_allVars PROVE [RowQ!Next]_(RowQ!vars)
  <2>1. CASE AllNext
    BY <1>3, <2>1 DEF AllNext
  <2>2. CASE UNCHANGED allVars
    BY <2>2 DEF allVars, RowQ!vars, cacVars
  <2> QED
    BY <1>3, <2>1, <2>2
<1>4. AllInit => Inv
  <2>1. AllInit => Row!Init
    BY DEF AllInit
  <2>2. Row!Init => RowQ!Init
    BY DEF Row!Init, RowQ!Init, Row!Empty, RowQ!Empty, Row!Services, RowQ!Services,
           Row!NoValue, RowQ!NoValue
  <2> QED
    BY <1>1, <2>1, <2>2, Row!InitIInv, RowQ!InitIInv
<1>5. Inv /\ [AllNext]_allVars => Inv'
  <2> SUFFICES ASSUME Inv, [AllNext]_allVars PROVE Inv'
    OBVIOUS
  <2>1. comp = "cachekey" => Row!IInv'
    BY <1>1, <1>2, Row!StepIInv
  <2>2. comp = "queryrd" => RowQ!IInv'
    BY <1>1, <1>3, RowQ!StepIInv
  <2> QED
    BY <2>1, <2>2, SamePart
<1>6. Inv => CacheRight
  BY Row!IInvStale, RowQ!IInvStale DEF CacheRight
<1> QED
  BY <1>4, <1>5, <1>6, PTL DEF AllSpec

\* multicastd.lua with one service on the owner's node and two on the other: subscribers and
\* packages are counted right, and all see the messages in one order.
THEOREM MulticastRightInNode == AllSpec => []MulticastRight
<1>1. Chan!MulticastConstants
  BY NodeConstants
<1>2. ASSUME comp = "multicast", [AllNext]_allVars PROVE [Chan!Next]_(Chan!vars)
  <2>1. CASE AllNext
    BY <1>2, <2>1 DEF AllNext
  <2>2. CASE UNCHANGED allVars
    BY <2>2 DEF allVars, Chan!vars, mcVars
  <2> QED
    BY <1>2, <2>1, <2>2
<1>3. AllInit => (comp = "multicast" => Chan!IInv)
  <2>1. AllInit => Chan!Init
    BY DEF AllInit
  <2> QED
    BY <1>1, <2>1, Chan!InitIInv
<1>4. (comp = "multicast" => Chan!IInv) /\ [AllNext]_allVars => (comp = "multicast" => Chan!IInv)'
  BY <1>1, <1>2, Chan!NextIInv, SamePart
<1>5. (comp = "multicast" => Chan!IInv) => MulticastRight
  BY Chan!Promises DEF Chan!IInv, Chan!MulticastRight, MulticastRight
<1> QED
  BY <1>3, <1>4, <1>5, PTL DEF AllSpec
=============================================================================
