------------------------------- MODULE RwLock -------------------------------
(***************************************************************************)
(* The spinning reader-writer lock of rwlock.h, which guards the handle   *)
(* storage.  One step per access to lock->read or lock->write; a spinning *)
(* thread whose test fails again takes no step.  The __sync builtins are  *)
(* full barriers, so the interleaving of these accesses is what counts.   *)
(***************************************************************************)
EXTENDS Integers, FiniteSets

CONSTANT Threads
ASSUME ThreadsFinite == IsFiniteSet(Threads)

VARIABLES
  write, read,    \* lock->write, lock->read
  pc              \* where each thread is

vars == <<write, read, pc>>

Goto(t, from, to) == pc[t] = from /\ pc' = [pc EXCEPT ![t] = to]

-----------------------------------------------------------------------------
(* rwlock_rlock and rwlock_runlock.                                        *)

\* while (lock->write) has ended.
RSpin(t) == /\ Goto(t, "out", "add")
            /\ write = 0
            /\ UNCHANGED <<write, read>>

\* __sync_add_and_fetch(&lock->read, 1).
RAdd(t) == /\ Goto(t, "add", "check")
           /\ read' = read + 1
           /\ UNCHANGED write

\* if (lock->write): a writer came in between, back off; else the lock is held.
RBackOff(t) == /\ Goto(t, "check", "undo")
               /\ write = 1
               /\ UNCHANGED <<write, read>>
BadREnter(t) == /\ Goto(t, "check", "reading")
                /\ UNCHANGED <<write, read>>
REnter(t) == /\ Goto(t, "check", "reading")
             /\ write = 0
             /\ UNCHANGED <<write, read>>

\* __sync_sub_and_fetch of the back-off, then round the loop again.
BadRUndo(t) == /\ Goto(t, "undo", "out")
               /\ UNCHANGED <<write, read>>
RUndo(t) == /\ Goto(t, "undo", "out")
            /\ read' = read - 1
            /\ UNCHANGED write

RUnlock(t) == /\ Goto(t, "reading", "out")
              /\ read' = read - 1
              /\ UNCHANGED write

-----------------------------------------------------------------------------
(* rwlock_wlock and rwlock_wunlock.                                        *)

\* __sync_lock_test_and_set(&lock->write, 1) has returned 0.
WAcquire(t) == /\ Goto(t, "out", "drain")
               /\ write = 0
               /\ write' = 1
               /\ UNCHANGED read

\* while (lock->read) has ended.
WEnter(t) == /\ Goto(t, "drain", "writing")
             /\ read = 0
             /\ UNCHANGED <<write, read>>

WUnlock(t) == /\ Goto(t, "writing", "out")
              /\ write' = 0
              /\ UNCHANGED read

-----------------------------------------------------------------------------
Init == /\ write = 0 /\ read = 0
        /\ pc = [t \in Threads |-> "out"]

Lock(t)   == RSpin(t) \/ WAcquire(t)
Finish(t) == RAdd(t) \/ RBackOff(t) \/ REnter(t) \/ RUndo(t) \/ RUnlock(t)
               \/ WEnter(t) \/ WUnlock(t)
Next == \E t \in Threads : Lock(t) \/ Finish(t)

Spec == Init /\ [][Next]_vars

\* A thread may stay out of the lock for ever, but one that has started goes
\* on: no caller of the handle storage blocks while it holds the lock.
Fairness == \A t \in Threads : WF_vars(Finish(t))
FairSpec == Spec /\ Fairness

-----------------------------------------------------------------------------
(* Properties.                                                             *)

Labels == {"out", "add", "check", "undo", "reading", "drain", "writing"}
TypeOK == write \in {0, 1} /\ read \in Nat /\ pc \in [Threads -> Labels]

\* A writer of the handle storage is alone: no reader has passed its second
\* look at lock->write, and there is no other writer.
MutualExclusion ==
  \A t, u \in Threads : t # u /\ pc[t] = "writing" => pc[u] \notin {"writing", "reading"}

\* A writer that has set lock->write gets in: the readers that come late
\* back off, the others leave.  (It leaves "drain" only for "writing".)
WriterGetsIn == \A t \in Threads : []<>(pc[t] # "drain")

-----------------------------------------------------------------------------
(* The inductive invariant.                                                *)

\* Threads counted in lock->read, and threads that have set lock->write.
Counted == {t \in Threads : pc[t] \in {"check", "undo", "reading"}}
Owners  == {t \in Threads : pc[t] \in {"drain", "writing"}}

\* lock->read counts the readers that are in or about to look again, a back-off
\* included; lock->write is set exactly while some thread is or wants to be
\* writing, and that thread is the only one; behind a writer nobody reads.
IInv ==
  /\ TypeOK
  /\ read = Cardinality(Counted)
  /\ \A t \in Owners : write = 1 /\ \A u \in Owners : t = u
  /\ \A t, u \in Threads : pc[t] = "writing" => pc[u] # "reading"
=============================================================================
