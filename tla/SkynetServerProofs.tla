------------------------- MODULE SkynetServerProofs -------------------------
(***************************************************************************)
(* Proofs that the scheduling core keeps its safety invariants, for any   *)
(* number of services, worker threads and other threads.  IInv of module  *)
(* SkynetServer is inductive: the lemmas named ...Next show, conjunct by  *)
(* conjunct, that a step of one thread keeps it, the theorems at the end  *)
(* draw the properties from it.                                            *)
(***************************************************************************)
EXTENDS SkynetServer, FiniteSetTheorems, SequenceTheorems, TLAPS

-----------------------------------------------------------------------------
(* Sequences and counts.                                                   *)

\* skynet_globalmq_push adds one mailbox to the global queue.
LEMMA OccursAppend ==
  ASSUME NEW S, NEW s \in Seq(S), NEW x \in S
  PROVE  /\ \A y : Occurs(Append(s, x), y) <=> Occurs(s, y) \/ y = x
         /\ Distinct(s) /\ ~Occurs(s, x) => Distinct(Append(s, x))
<1>1. /\ Len(Append(s, x)) = Len(s) + 1 /\ Len(s) \in Nat
      /\ DOMAIN Append(s, x) = 1..(Len(s) + 1) /\ DOMAIN s = 1..Len(s)
      /\ \A i \in 1..Len(s) : Append(s, x)[i] = s[i]
      /\ Append(s, x)[Len(s) + 1] = x
  OBVIOUS
<1>2. ASSUME NEW y PROVE Occurs(Append(s, x), y) <=> Occurs(s, y) \/ y = x
  BY <1>1 DEF Occurs
<1>3. Distinct(s) /\ ~Occurs(s, x) => Distinct(Append(s, x))
  BY <1>1 DEF Distinct, Occurs
<1> QED
  BY <1>2, <1>3

\* skynet_globalmq_pop takes the first mailbox from the global queue.
LEMMA OccursTail ==
  ASSUME NEW S, NEW s \in Seq(S), s # << >>, Distinct(s)
  PROVE  /\ \A y : Occurs(Tail(s), y) <=> Occurs(s, y) /\ y # Head(s)
         /\ Distinct(Tail(s))
         /\ Occurs(s, Head(s))
<1>1. /\ Len(Tail(s)) = Len(s) - 1 /\ Len(s) \in Nat \ {0} /\ Head(s) = s[1]
      /\ DOMAIN Tail(s) = 1..(Len(s) - 1) /\ DOMAIN s = 1..Len(s)
      /\ \A i \in 1..(Len(s) - 1) : Tail(s)[i] = s[i + 1]
  BY HeadTailProperties, LenProperties, EmptySeq
<1>2. ASSUME NEW y PROVE Occurs(Tail(s), y) <=> Occurs(s, y) /\ y # Head(s)
  <2>1. ASSUME Occurs(Tail(s), y) PROVE Occurs(s, y) /\ y # Head(s)
    <3>1. PICK i \in 1..(Len(s) - 1) : s[i + 1] = y
      BY <1>1, <2>1 DEF Occurs
    <3>2. i + 1 \in DOMAIN s /\ 1 \in DOMAIN s /\ i + 1 # 1
      BY <1>1
    <3> QED
      BY <1>1, <3>1, <3>2 DEF Occurs, Distinct
  <2>2. ASSUME Occurs(s, y), y # Head(s) PROVE Occurs(Tail(s), y)
    <3>1. PICK i \in 1..Len(s) : s[i] = y
      BY <1>1, <2>2 DEF Occurs
    <3>2. i # 1 /\ i - 1 \in DOMAIN Tail(s) /\ Tail(s)[i - 1] = s[i]
      BY <1>1, <2>2, <3>1
    <3> QED
      BY <3>1, <3>2 DEF Occurs
  <2> QED
    BY <2>1, <2>2
<1>3. Distinct(Tail(s))
  <2> SUFFICES ASSUME NEW i \in DOMAIN Tail(s), NEW j \in DOMAIN Tail(s), Tail(s)[i] = Tail(s)[j]
               PROVE  i = j
    BY DEF Distinct
  <2>1. i + 1 \in DOMAIN s /\ j + 1 \in DOMAIN s /\ s[i + 1] = s[j + 1]
    BY <1>1
  <2>2. i + 1 = j + 1
    BY <2>1 DEF Distinct
  <2> QED
    BY <1>1, <2>2
<1>4. Occurs(s, Head(s))
  BY <1>1 DEF Occurs
<1> QED
  BY <1>2, <1>3, <1>4

\* There are finitely many threads (start of skynet_start.c creates them).
LEMMA ThreadsFinite == IsFiniteSet(Threads)
BY ConstAssumption, FS_Union DEF Threads

\* Counting the threads that hold a reference to a context.
LEMMA HeldCount ==
  ASSUME NEW f, NEW h
  PROVE  /\ Cardinality(HeldIn(f, h)) \in Nat
         /\ IsFiniteSet(HeldIn(f, h))
         /\ Cardinality(HeldIn(f, h)) = 0 <=> \A t \in Threads : f[t] # h
<1>1. HeldIn(f, h) \in SUBSET Threads
  BY DEF HeldIn
<1>2. IsFiniteSet(HeldIn(f, h))
  BY <1>1, ThreadsFinite, FS_Subset
<1> QED
  BY <1>2, FS_CardinalityType, FS_EmptySet DEF HeldIn

\* One for a reference to h, one for h in the slot.
Is(x, h) == IF x = h THEN 1 ELSE 0
In(h, S) == IF h \in S THEN 1 ELSE 0

\* g differs from f in the entry of thread t at most.
Differs(f, g, t) == \A u \in Threads : u # t => g[u] = f[u]

\* What the count becomes when one thread takes or drops a reference.
LEMMA HeldUpdate ==
  ASSUME NEW f, NEW g, NEW t \in Threads, NEW h, Differs(f, g, t)
  PROVE  Cardinality(HeldIn(g, h))
           = Cardinality(HeldIn(f, h)) - Is(f[t], h) + Is(g[t], h)
<1>1. IsFiniteSet(HeldIn(f, h)) /\ Cardinality(HeldIn(f, h)) \in Nat
  BY HeldCount
<1>2. CASE f[t] = h /\ g[t] = h
  <2>1. HeldIn(g, h) = HeldIn(f, h)
    BY <1>2 DEF HeldIn, Differs
  <2> QED
    BY <1>1, <1>2, <2>1 DEF Is
<1>3. CASE f[t] = h /\ g[t] # h
  <2>1. HeldIn(g, h) = HeldIn(f, h) \ {t} /\ t \in HeldIn(f, h)
    BY <1>3 DEF HeldIn, Differs
  <2>2. Cardinality(HeldIn(g, h)) = Cardinality(HeldIn(f, h)) - 1
    BY <1>1, <2>1, FS_RemoveElement
  <2> QED
    BY <1>1, <1>3, <2>2 DEF Is
<1>4. CASE f[t] # h /\ g[t] = h
  <2>1. HeldIn(g, h) = HeldIn(f, h) \cup {t} /\ t \notin HeldIn(f, h)
    BY <1>4 DEF HeldIn, Differs
  <2>2. Cardinality(HeldIn(g, h)) = Cardinality(HeldIn(f, h)) + 1
    BY <1>1, <2>1, FS_AddElement
  <2> QED
    BY <1>1, <1>4, <2>2 DEF Is
<1>5. CASE f[t] # h /\ g[t] # h
  <2>1. HeldIn(g, h) = HeldIn(f, h)
    BY <1>5 DEF HeldIn, Differs
  <2> QED
    BY <1>1, <1>5, <2>1 DEF Is
<1> QED
  BY <1>2, <1>3, <1>4, <1>5

\* The messages the code builds, and their sources, have their types.
LEMMA MsgTypes ==
  /\ NoMsg \in Msg
  /\ \A h \in Refs, s \in 0..MaxSession :
        [type |-> "lua", source |-> h, session |-> s] \in Msg
  /\ \A h \in Refs : /\ [type |-> "error", source |-> h, session |-> 0] \in Msg
                     /\ [type |-> "client", source |-> h, session |-> 0] \in Msg
  /\ \A m \in Msg : m.source \in Refs
BY ConstAssumption DEF Msg, NoMsg, Refs

\* What is taken from or put into a mailbox or the global queue has its type.
LEMMA QueueTypes ==
  ASSUME MqType
  PROVE  /\ Q # << >> => Head(Q) \in Handles /\ Tail(Q) \in Seq(Handles)
         /\ \A h \in Handles : Append(Q, h) \in Seq(Handles)
         /\ \A h \in Handles : Len(queue[h]) \in Nat
         /\ \A h \in Handles : queue[h] # << >> =>
               Head(queue[h]) \in Msg /\ Tail(queue[h]) \in Seq(Msg)
         /\ \A h \in Handles, m \in Msg : Append(queue[h], m) \in Seq(Msg)
BY DEF MqType

\* len >> weight is a natural number.
LEMMA ShrNat == ASSUME NEW len \in Nat, NEW w PROVE Shr(len, w) \in Nat
<1> DEFINE S == {k \in 1..len : k * 2 ^ w <= len}
<1>1. IsFiniteSet(1..len)
  BY FS_Interval
<1>2. S \in SUBSET (1..len)
  OBVIOUS
<1> QED
  BY <1>1, <1>2, FS_Subset, FS_CardinalityType DEF Shr

\* The local variables an action uses hold handles.
LEMMA RegsInUse ==
  ASSUME ThreadType, NEW t \in Threads, RegOK(t)
  PROVE  /\ pc[t] \in {"grab", "pop", "length", "callback", "yield", "pushback"}
              => q[t] \in Handles
         /\ pc[t] \in {"pop", "length", "callback", "yield", "pushback"}
              => d[t] = q[t] /\ d[t] \in Handles
         /\ pc[t] \in {"idle", "ext", "grab"} => d[t] = Nil
         /\ pc[t] = "pushback" => nq[t] \in Handles
         /\ pc[t] \in {"push_mq", "release"} => r[t] \in Handles
         /\ pc[t] = "push_mq" => arg[t] = r[t]
         /\ pc[t] = "push_grab" => arg[t] \in Handles
         /\ pc[t] \notin {"push_mq", "release"} => r[t] = Nil
         /\ pc[t] = "delete" => del[t] \in Handles
         /\ pc[t] # "delete" => del[t] = Nil
         /\ pc[t] \in {"mq_release", "drop"} => dq[t] \in Handles
         /\ pc[t] = "retire" => victim[t] \in Handles
         /\ pc[t] \in {"new_queue", "new_init", "new_ok", "new_push", "new_ret",
                       "new_fail"} => new[t] \in Handles
         /\ pc[t] \in {"new_queue", "new_init"} => n[t] = new[t]
         /\ pc[t] \in {"idle", "ext", "grab", "pop", "length", "callback",
                       "yield", "pushback", "retire", "mq_release", "drop",
                       "new_ok", "new_push", "new_ret", "new_fail"} => n[t] = Nil
         /\ pc[t] \in {"new_init", "new_ok", "new_push", "new_fail"}
              => cq[t] = new[t]
         /\ pc[t] \in {"idle", "ext", "grab", "pop", "length", "callback",
                       "yield", "pushback", "retire", "mq_release", "drop",
                       "new_queue", "new_ret"} => cq[t] = Nil
         /\ pc[t] \in {"idle", "ext"} => q[t] = Nil
         /\ pc[t] \in {"yield", "idle", "ext", "grab", "pop", "callback",
                       "new_fail", "mq_release", "drop"} => nq[t] = Nil
         /\ pc[t] \in {"idle", "ext", "grab", "pop", "length", "callback", "yield",
                       "pushback", "new_init", "new_fail", "new_push"}
              => dq[t] = Nil
BY DEF ThreadType, RegOK, Caller, Routines, Refs, Labels

\* Every step keeps the types of the local variables.
LEMMA ThreadTypeNext ==
  ASSUME IInv, NEW t \in Threads, Step(t) \/ Command(t)
  PROVE  ThreadType'
<1>0. /\ ThreadType /\ MqType /\ CtxType /\ RegOK(t)
      /\ Nil \in Refs /\ Handles \subseteq Refs
  BY DEF IInv, TypeOK, Refs
<1> USE <1>0
<1>1. CASE GlobalPop(t)
  BY <1>0, RegsInUse, QueueTypes, <1>1 DEF GlobalPop, ThreadType, Labels,
     Goto, Set
<1>2. CASE GrabFound(t)
  BY <1>0, RegsInUse, <1>2 DEF GrabFound, ThreadType, Labels, Goto, Set
<1>3. CASE GrabNull(t)
  BY <1>0, RegsInUse, <1>3 DEF GrabNull, ThreadType, Labels, Goto, Set
<1>4. CASE PopMessage(t)
  <2> DEFINE v == IF left[t] = -1 THEN 0 ELSE left[t]
  <2>1. v \in Int /\ left \in [Threads -> Int]
    BY <1>0 DEF ThreadType
  <2>2. \/ UNCHANGED left /\ Goto(t, "length")
        \/ left' = [left EXCEPT ![t] = v] /\ Goto(t, "callback")
    BY <1>4 DEF PopMessage, Set <2> HIDE DEF v
  <2>3. left' \in [Threads -> Int]
    BY <2>1, <2>2
  <2>4. pc' \in [Threads -> Labels]
    BY <1>0, <2>2 DEF ThreadType, Labels, Goto
  <2> QED
    BY <1>0, <1>4, <2>3, <2>4 DEF PopMessage, ThreadType
<1>5. CASE PopEmpty(t)
  BY <1>5 DEF PopEmpty, ThreadType, Labels, Goto, Return, Set, CallRelease
<1>6. CASE MqLength(t)
  <2>1. Shr(Len(queue[q[t]]), Weight[t]) \in Nat
    BY <1>0, <1>6, RegsInUse, QueueTypes, ShrNat DEF MqLength
  <2> QED
    BY <1>0, <1>6, <2>1 DEF MqLength, ThreadType, Labels, Goto, Set
<1>7. CASE CallbackDone(t)
  BY <1>7 DEF CallbackDone, ThreadType, Labels, Goto, Set
<1>8. CASE YieldKeep(t)
  BY <1>8 DEF YieldKeep, ThreadType, Labels, Goto, Return, Set, CallRelease
<1>9. CASE YieldNext(t)
  BY <1>0, RegsInUse, QueueTypes, <1>9 DEF YieldNext, ThreadType, Labels,
     Goto, Set
<1>10. CASE PushBack(t)
  BY <1>10 DEF PushBack, ThreadType, Labels, Goto, Return, Set, CallRelease
<1>11. CASE PushGrab(t)
  BY <1>11 DEF PushGrab, ThreadType, Labels, Goto, Set
<1>12. CASE PushFail(t)
  BY <1>0, RegsInUse, MsgTypes, <1>12 DEF PushFail, ThreadType, Labels, Goto,
     Set
<1>13. CASE PushMq(t)
  BY <1>0, RegsInUse, MsgTypes, <1>13 DEF PushMq, ThreadType, Labels, Goto,
     Set
<1>14. CASE Release(t)
  BY <1>14 DEF Release, ThreadType, Labels, Goto, Set
<1>15. CASE Delete(t)
  BY <1>15 DEF Delete, ThreadType, Labels, Goto, Set
<1>16. CASE MqReleaseLater(t)
  BY <1>16 DEF MqReleaseLater, ThreadType, Labels, Goto, Set, AfterMqRelease
<1>17. CASE MqReleaseDrop(t)
  BY <1>17 DEF MqReleaseDrop, ThreadType, Labels, regVars, Goto
<1>18. CASE DropMessage(t)
  <2> DEFINE m == Head(queue[dq[t]])
             e == [type |-> "error", source |-> dq[t], session |-> 0]
  <2>1. m.source \in Refs /\ e \in Msg
    BY <1>0, <1>18, RegsInUse, QueueTypes, MsgTypes DEF DropMessage
  <2>2. CASE m.source # Nil
    BY <1>0, <1>18, <2>1, <2>2 DEF DropMessage, ThreadType, Labels, Goto,
       Return, Set, CallPush
  <2>3. CASE m.source = Nil
    BY <1>0, <1>18, <2>3 DEF DropMessage, ThreadType
  <2> QED
    BY <2>2, <2>3
<1>19. CASE DropDone(t)
  BY <1>19 DEF DropDone, ThreadType, Labels, Goto, Set, AfterMqRelease
<1>20. CASE Retire(t)
  BY <1>20 DEF Retire, ThreadType, Labels, Goto, Return, Set, CallRelease
<1>21. CASE NewQueue(t)
  BY <1>21 DEF NewQueue, ThreadType, Labels, Goto, Set
<1>22. CASE InitOk(t)
  BY <1>22 DEF InitOk, ThreadType, Labels, Goto, Return, Set, CallRelease,
     InitDone
<1>23. CASE InitFail(t)
  BY <1>23 DEF InitFail, ThreadType, Labels, Goto, Return, Set, CallRelease,
     InitDone
<1>24. CASE NewOk(t)
  BY <1>24 DEF NewOk, ThreadType, Labels, regVars, Goto
<1>25. CASE NewPush(t)
  BY <1>25 DEF NewPush, ThreadType, Labels, Goto, Set
<1>26. CASE NewRet(t)
  BY <1>26 DEF NewRet, ThreadType, Labels, Goto, Set
<1>27. CASE NewFail(t)
  BY <1>27 DEF NewFail, ThreadType, Labels, Goto, Return, Set, CallRelease
<1>28. ASSUME NEW h \in Handles, Send(t, h) PROVE ThreadType'
  <2>1. Running(t) \in Handles
    BY <1>0, <1>28, RegsInUse DEF Send, Running
  <2>2. NewSession(Running(t)) \in 0..MaxSession
    BY <1>0, <1>28, <2>1, ConstAssumption DEF Send, NewSession, CtxType
  <2>3. [type |-> "lua", source |-> Running(t), session |-> NewSession(Running(t))]
          \in Msg
    BY <1>0, <2>1, <2>2, MsgTypes
  <2> QED
    BY <1>0, <1>28, <2>3 DEF Send, ThreadType, Labels, Goto, Return, Set,
       CallPush
<1>29. ASSUME NEW h \in Handles, Kill(t, h) PROVE ThreadType'
  <2>1. [type |-> "client", source |-> h, session |-> 0] \in Msg
    BY <1>0, MsgTypes
  <2>2. CASE Monitor \in Known
    BY <1>0, <1>29, <2>1, <2>2 DEF Kill, Known, ThreadType, Labels, Goto,
       Return, Set, CallPush
  <2>3. CASE Monitor \notin Known
    BY <1>0, <1>29, <2>3 DEF Kill, ThreadType, Labels, Goto, Set
  <2> QED
    BY <2>2, <2>3
<1>30. ASSUME NEW h \in Handles, NewRegister(t, h) PROVE ThreadType'
  BY <1>30 DEF NewRegister, ThreadType, Labels, Goto, Set
<1>31. ASSUME NEW h \in Handles, GrabUse(t, h) PROVE ThreadType'
  BY <1>31 DEF GrabUse, ThreadType, Labels, Goto, Return, Set, CallRelease
<1>32. ASSUME NEW h \in Handles, ExtPush(t, h) PROVE ThreadType'
  BY <1>0, RegsInUse, MsgTypes, <1>32 DEF ExtPush, ThreadType, Labels, Goto,
     Return, Set, CallPush
<1> QED
  BY <1>1, <1>2, <1>3, <1>4, <1>5, <1>6, <1>7, <1>8, <1>9, <1>10, <1>11,
     <1>12, <1>13, <1>14, <1>15, <1>16, <1>17, <1>18, <1>19, <1>20, <1>21,
     <1>22, <1>23, <1>24, <1>25, <1>26, <1>27, <1>28, <1>29, <1>30, <1>31,
     <1>32 DEF Step, Command

\* Every step keeps the types of the contexts and of the handle storage.
LEMMA CtxTypeNext ==
  ASSUME IInv, NEW t \in Threads, Step(t) \/ Command(t)
  PROVE  CtxType'
<1>0. /\ ThreadType /\ MqType /\ CtxType /\ RegOK(t)
      /\ Nil \in Refs /\ Handles \subseteq Refs
  BY DEF IInv, TypeOK, Refs
<1> USE <1>0
<1>1. CASE GlobalPop(t) \/ GrabFound(t) \/ GrabNull(t) \/ PopMessage(t)
           \/ PopEmpty(t) \/ MqLength(t) \/ CallbackDone(t) \/ YieldKeep(t)
           \/ YieldNext(t) \/ PushBack(t) \/ PushGrab(t) \/ PushFail(t)
           \/ PushMq(t) \/ Release(t) \/ MqReleaseLater(t) \/ MqReleaseDrop(t)
           \/ DropMessage(t) \/ DropDone(t) \/ NewQueue(t) \/ InitOk(t)
           \/ InitFail(t) \/ NewPush(t) \/ NewRet(t)
  BY <1>1 DEF GlobalPop, GrabFound, GrabNull, PopMessage, PopEmpty, MqLength,
     CallbackDone, YieldKeep, YieldNext, PushBack, PushGrab, PushFail, PushMq,
     Release, MqReleaseLater, MqReleaseDrop, DropMessage, DropDone, NewQueue,
     InitOk, InitFail, NewPush, NewRet, CtxType, ctxVars, regVars, InitDone
<1>2. CASE Delete(t)
  BY <1>0, RegsInUse, <1>2 DEF Delete, CtxType
<1>3. CASE Retire(t)
  BY <1>0, <1>3 DEF Retire, CtxType, SlotHolds
<1>4. CASE NewOk(t)
  BY <1>0, RegsInUse, <1>4 DEF NewOk, CtxType
<1>5. CASE NewFail(t)
  BY <1>0, <1>5 DEF NewFail, CtxType, SlotHolds
<1>6. ASSUME NEW h \in Handles, Send(t, h) PROVE CtxType'
  <2>1. Running(t) \in Handles
    BY <1>0, <1>6, RegsInUse DEF Send, Running
  <2>2. NewSession(Running(t)) \in 0..MaxSession
    BY <1>0, <1>6, <2>1, ConstAssumption DEF Send, NewSession, CtxType
  <2> QED
    BY <1>0, <1>6, <2>1, <2>2 DEF Send, CtxType
<1>7. ASSUME NEW h \in Handles, Kill(t, h) PROVE CtxType'
  BY <1>0, ConstAssumption, <1>7 DEF Kill, CtxType, ctxVars
<1>8. ASSUME NEW h \in Handles, NewRegister(t, h) PROVE CtxType'
  BY <1>0, <1>8 DEF NewRegister, CtxType
<1>9. ASSUME NEW h \in Handles, GrabUse(t, h) PROVE CtxType'
  BY <1>0, ConstAssumption, <1>9 DEF GrabUse, CtxType
<1>10. ASSUME NEW h \in Handles, ExtPush(t, h) PROVE CtxType'
  BY <1>0, ConstAssumption, <1>10 DEF ExtPush, CtxType, ctxVars
<1> QED
  BY <1>1, <1>2, <1>3, <1>4, <1>5, <1>6, <1>7, <1>8, <1>9, <1>10 DEF Step,
     Command

\* Every step keeps the types of the mailboxes and of the global queue.
LEMMA MqTypeNext ==
  ASSUME IInv, NEW t \in Threads, Step(t) \/ Command(t)
  PROVE  MqType'
<1>0. /\ ThreadType /\ MqType /\ CtxType /\ RegOK(t)
      /\ Nil \in Refs /\ Handles \subseteq Refs
  BY DEF IInv, TypeOK, Refs
<1> USE <1>0
<1>1. CASE GrabFound(t) \/ GrabNull(t) \/ MqLength(t) \/ CallbackDone(t)
           \/ YieldKeep(t) \/ PushGrab(t) \/ PushFail(t) \/ Release(t)
           \/ MqReleaseDrop(t) \/ Retire(t) \/ InitOk(t) \/ InitFail(t)
           \/ NewOk(t) \/ NewRet(t) \/ NewFail(t)
  BY <1>1 DEF GrabFound, GrabNull, MqLength, CallbackDone, YieldKeep,
     PushGrab, PushFail, Release, MqReleaseDrop, Retire, InitOk, InitFail,
     NewOk, NewRet, NewFail, MqType, mqVars, regVars, InitDone
<1>2. ASSUME NEW h \in Handles,
             Send(t, h) \/ Kill(t, h) \/ NewRegister(t, h) \/ GrabUse(t, h)
             \/ ExtPush(t, h)
      PROVE  MqType'
  BY <1>2 DEF Send, Kill, NewRegister, GrabUse, ExtPush, MqType, mqVars
<1>3. CASE GlobalPop(t)
  BY <1>0, RegsInUse, QueueTypes, <1>3 DEF GlobalPop, MqType, mqVars
<1>4. CASE PopMessage(t)
  BY <1>0, RegsInUse, QueueTypes, <1>4 DEF PopMessage, MqType
<1>5. CASE PopEmpty(t)
  BY <1>0, RegsInUse, QueueTypes, <1>5 DEF PopEmpty, MqPopEmpty, MqType
<1>6. CASE YieldNext(t)
  BY <1>0, RegsInUse, QueueTypes, <1>6 DEF YieldNext, MqType, mqVars
<1>7. CASE PushBack(t)
  BY <1>0, RegsInUse, QueueTypes, <1>7 DEF PushBack, MqType, mqVars
<1>8. CASE PushMq(t)
  <2>1. r[t] \in Handles /\ pm[t] \in Msg
    BY <1>0, <1>8, RegsInUse DEF PushMq, ThreadType
  <2>2. Append(queue[r[t]], pm[t]) \in Seq(Msg) /\ Append(Q, r[t]) \in Seq(Handles)
    BY <1>0, <2>1, QueueTypes
  <2> QED
    BY <1>0, <1>8, <2>1, <2>2 DEF PushMq, MqPush, MqType
<1>9. CASE Delete(t)
  BY <1>0, RegsInUse, QueueTypes, <1>9 DEF Delete, MarkRelease, MqType
<1>10. CASE MqReleaseLater(t)
  BY <1>0, RegsInUse, QueueTypes, <1>10 DEF MqReleaseLater, AfterMqRelease,
     Marked, MqType, mqVars
<1>11. CASE DropMessage(t)
  BY <1>0, RegsInUse, QueueTypes, <1>11 DEF DropMessage, MqType
<1>12. CASE DropDone(t)
  BY <1>0, RegsInUse, QueueTypes, <1>12 DEF DropDone, MqPopEmpty,
     AfterMqRelease, MqType
<1>13. CASE NewQueue(t)
  BY <1>0, RegsInUse, QueueTypes, <1>13 DEF NewQueue, MqCreate, MqType
<1>14. CASE NewPush(t)
  BY <1>0, RegsInUse, QueueTypes, <1>14 DEF NewPush, MqType, mqVars
<1> QED
  BY <1>1, <1>2, <1>3, <1>4, <1>5, <1>6, <1>7, <1>8, <1>9, <1>10, <1>11,
     <1>12, <1>13, <1>14 DEF Step, Command

\* The local variables of thread u do not change.
Same(u) ==
  /\ pc'[u] = pc[u] /\ ret'[u] = ret[u] /\ left'[u] = left[u] /\ q'[u] = q[u]
  /\ nq'[u] = nq[u] /\ dq'[u] = dq[u] /\ cq'[u] = cq[u] /\ d'[u] = d[u]
  /\ r'[u] = r[u] /\ n'[u] = n[u] /\ del'[u] = del[u] /\ arg'[u] = arg[u]
  /\ victim'[u] = victim[u] /\ new'[u] = new[u] /\ got'[u] = got[u] /\ pm'[u] = pm[u]

\* A step of thread t changes the local variables of no other thread.
LEMMA LocalNext ==
  ASSUME IInv, NEW t \in Threads, Step(t) \/ Command(t)
  PROVE  \A u \in Threads : u # t => Same(u)
<1>0. /\ ThreadType /\ MqType /\ CtxType /\ RegOK(t)
      /\ Nil \in Refs /\ Handles \subseteq Refs
  BY DEF IInv, TypeOK, Refs
<1> USE <1>0
<1>1. CASE GlobalPop(t)
  BY <1>1 DEF GlobalPop, Same, ThreadType, Goto, Set
<1>2. CASE GrabFound(t)
  BY <1>2 DEF GrabFound, Same, ThreadType, Goto, Set
<1>3. CASE GrabNull(t)
  BY <1>3 DEF GrabNull, Same, ThreadType, Goto, Set
<1>4. CASE PopMessage(t)
  BY <1>4 DEF PopMessage, Same, ThreadType, Goto, Set
<1>5. CASE PopEmpty(t)
  BY <1>5 DEF PopEmpty, Same, ThreadType, Goto, Return, Set, CallRelease
<1>6. CASE MqLength(t)
  BY <1>6 DEF MqLength, Same, ThreadType, Goto, Set
<1>7. CASE CallbackDone(t)
  BY <1>7 DEF CallbackDone, Same, ThreadType, Goto, Set
<1>8. CASE YieldKeep(t)
  BY <1>8 DEF YieldKeep, Same, ThreadType, Goto, Return, Set, CallRelease
<1>9. CASE YieldNext(t)
  BY <1>9 DEF YieldNext, Same, ThreadType, Goto, Set
<1>10. CASE PushBack(t)
  BY <1>10 DEF PushBack, Same, ThreadType, Goto, Return, Set, CallRelease
<1>11. CASE PushGrab(t)
  BY <1>11 DEF PushGrab, Same, ThreadType, Goto, Set
<1>12. CASE PushFail(t)
  BY <1>12 DEF PushFail, Same, ThreadType, Goto, Set
<1>13. CASE PushMq(t)
  BY <1>13 DEF PushMq, Same, ThreadType, Goto, Set
<1>14. CASE Release(t)
  BY <1>14 DEF Release, Same, ThreadType, Goto, Set
<1>15. CASE Delete(t)
  BY <1>15 DEF Delete, Same, ThreadType, Goto, Set
<1>16. CASE MqReleaseLater(t)
  BY <1>16 DEF MqReleaseLater, Same, ThreadType, Goto, Set
<1>17. CASE MqReleaseDrop(t)
  BY <1>17 DEF MqReleaseDrop, Same, ThreadType, regVars, Goto
<1>18. CASE DropMessage(t)
  BY <1>18 DEF DropMessage, Same, ThreadType, Goto, Return, Set, CallPush
<1>19. CASE DropDone(t)
  BY <1>19 DEF DropDone, Same, ThreadType, Goto, Set
<1>20. CASE Retire(t)
  BY <1>20 DEF Retire, Same, ThreadType, Goto, Return, Set, CallRelease
<1>21. CASE NewQueue(t)
  BY <1>21 DEF NewQueue, Same, ThreadType, Goto, Set
<1>22. CASE InitOk(t)
  BY <1>22 DEF InitOk, Same, ThreadType, Goto, Return, Set, CallRelease,
     InitDone
<1>23. CASE InitFail(t)
  BY <1>23 DEF InitFail, Same, ThreadType, Goto, Return, Set, CallRelease,
     InitDone
<1>24. CASE NewOk(t)
  BY <1>24 DEF NewOk, Same, ThreadType, regVars, Goto
<1>25. CASE NewPush(t)
  BY <1>25 DEF NewPush, Same, ThreadType, Goto, Set
<1>26. CASE NewRet(t)
  BY <1>26 DEF NewRet, Same, ThreadType, Goto, Set
<1>27. CASE NewFail(t)
  BY <1>27 DEF NewFail, Same, ThreadType, Goto, Return, Set, CallRelease
<1>28. ASSUME NEW h \in Handles, Send(t, h)
      PROVE  \A u \in Threads : u # t => Same(u)
  BY <1>28 DEF Send, Same, ThreadType, Goto, Return, Set, CallPush
<1>29. ASSUME NEW h \in Handles, Kill(t, h)
      PROVE  \A u \in Threads : u # t => Same(u)
  BY <1>29 DEF Kill, Same, ThreadType, Goto, Return, Set, CallPush
<1>30. ASSUME NEW h \in Handles, NewRegister(t, h)
      PROVE  \A u \in Threads : u # t => Same(u)
  BY <1>30 DEF NewRegister, Same, ThreadType, Goto, Set
<1>31. ASSUME NEW h \in Handles, GrabUse(t, h)
      PROVE  \A u \in Threads : u # t => Same(u)
  BY <1>31 DEF GrabUse, Same, ThreadType, Goto, Return, Set, CallRelease
<1>32. ASSUME NEW h \in Handles, ExtPush(t, h)
      PROVE  \A u \in Threads : u # t => Same(u)
  BY <1>32 DEF ExtPush, Same, ThreadType, Goto, Return, Set, CallPush
<1> QED
  BY <1>1, <1>2, <1>3, <1>4, <1>5, <1>6, <1>7, <1>8, <1>9, <1>10, <1>11,
     <1>12, <1>13, <1>14, <1>15, <1>16, <1>17, <1>18, <1>19, <1>20, <1>21,
     <1>22, <1>23, <1>24, <1>25, <1>26, <1>27, <1>28, <1>29, <1>30, <1>31,
     <1>32 DEF Step, Command

\* The control discipline of the thread that takes the step.
LEMMA RegNext ==
  ASSUME IInv, NEW t \in Threads, Step(t) \/ Command(t)
  PROVE  RegOK(t)'
<1>0. /\ ThreadType /\ MqType /\ CtxType /\ RegOK(t)
      /\ Nil \in Refs /\ Handles \subseteq Refs
  BY DEF IInv, TypeOK, Refs
<1> USE <1>0
<1>1. CASE GlobalPop(t)
  BY <1>0, ConstAssumption, QueueTypes, <1>1 DEF RegOK, Caller, Routines,
     GlobalPop, ThreadType, Goto, Set
<1>2. CASE GrabFound(t)
  BY <1>0, ConstAssumption, <1>2 DEF RegOK, Caller, Routines, GrabFound,
     ThreadType, Goto, Set
<1>3. CASE GrabNull(t)
  BY <1>0, ConstAssumption, <1>3 DEF RegOK, Caller, Routines, GrabNull,
     ThreadType, Goto, Set
<1>4. CASE PopMessage(t)
  BY <1>0, ConstAssumption, <1>4 DEF RegOK, Caller, Routines, PopMessage,
     ThreadType, Goto, Set
<1>5. CASE PopEmpty(t)
  BY <1>0, ConstAssumption, <1>5 DEF RegOK, Caller, Routines, PopEmpty,
     ThreadType, Goto, Return, Set, CallRelease
<1>6. CASE MqLength(t)
  BY <1>0, ConstAssumption, <1>6 DEF RegOK, Caller, Routines, MqLength,
     ThreadType, Goto, Set
<1>7. CASE CallbackDone(t)
  BY <1>0, ConstAssumption, <1>7 DEF RegOK, Caller, Routines, CallbackDone,
     ThreadType, Goto, Set
<1>8. CASE YieldKeep(t)
  BY <1>0, ConstAssumption, <1>8 DEF RegOK, Caller, Routines, YieldKeep,
     ThreadType, Goto, Return, Set, CallRelease
<1>9. CASE YieldNext(t)
  BY <1>0, ConstAssumption, QueueTypes, <1>9 DEF RegOK, Caller, Routines,
     YieldNext, ThreadType, Goto, Set
<1>10. CASE PushBack(t)
  BY <1>0, ConstAssumption, <1>10 DEF RegOK, Caller, Routines, PushBack,
     ThreadType, Goto, Return, Set, CallRelease
<1>11. CASE PushGrab(t)
  BY <1>0, ConstAssumption, <1>11 DEF RegOK, Caller, Routines, PushGrab,
     ThreadType, Goto, Set
<1>12. CASE PushFail(t)
  BY <1>0, ConstAssumption, <1>12 DEF RegOK, Caller, Routines, PushFail,
     ThreadType, Goto, Set
<1>13. CASE PushMq(t)
  BY <1>0, ConstAssumption, <1>13 DEF RegOK, Caller, Routines, PushMq,
     ThreadType, Goto, Set
<1>14. CASE Release(t)
  BY <1>0, ConstAssumption, <1>14 DEF RegOK, Caller, Routines, Release,
     ThreadType, Goto, Set
<1>15. CASE Delete(t)
  BY <1>0, ConstAssumption, <1>15 DEF RegOK, Caller, Routines, Delete,
     ThreadType, Goto, Set
<1>16. CASE MqReleaseLater(t)
  BY <1>0, ConstAssumption, <1>16 DEF RegOK, Caller, Routines, MqReleaseLater,
     ThreadType, Goto, Set, AfterMqRelease
<1>17. CASE MqReleaseDrop(t)
  BY <1>0, ConstAssumption, <1>17 DEF RegOK, Caller, Routines, MqReleaseDrop,
     ThreadType, regVars, Goto
<1>18. CASE DropMessage(t)
  BY <1>0, ConstAssumption, QueueTypes, MsgTypes, <1>18 DEF RegOK, Caller,
     Routines, DropMessage, ThreadType, Goto, Return, Set, CallPush
<1>19. CASE DropDone(t)
  BY <1>0, ConstAssumption, <1>19 DEF RegOK, Caller, Routines, DropDone,
     ThreadType, Goto, Set, AfterMqRelease
<1>20. CASE Retire(t)
  BY <1>0, ConstAssumption, <1>20 DEF RegOK, Caller, Routines, Retire,
     ThreadType, Goto, Return, Set, CallRelease, SlotHolds
<1>21. CASE NewQueue(t)
  BY <1>0, ConstAssumption, <1>21 DEF RegOK, Caller, Routines, NewQueue,
     ThreadType, Goto, Set
<1>22. CASE InitOk(t)
  BY <1>0, ConstAssumption, <1>22 DEF RegOK, Caller, Routines, InitOk,
     ThreadType, Goto, Return, Set, CallRelease, InitDone
<1>23. CASE InitFail(t)
  BY <1>0, ConstAssumption, <1>23 DEF RegOK, Caller, Routines, InitFail,
     ThreadType, Goto, Return, Set, CallRelease, InitDone
<1>24. CASE NewOk(t)
  BY <1>0, ConstAssumption, <1>24 DEF RegOK, Caller, Routines, NewOk,
     ThreadType, regVars, Goto
<1>25. CASE NewPush(t)
  BY <1>0, ConstAssumption, <1>25 DEF RegOK, Caller, Routines, NewPush,
     ThreadType, Goto, Set
<1>26. CASE NewRet(t)
  BY <1>0, ConstAssumption, <1>26 DEF RegOK, Caller, Routines, NewRet,
     ThreadType, Goto, Set
<1>27. CASE NewFail(t)
  BY <1>0, ConstAssumption, <1>27 DEF RegOK, Caller, Routines, NewFail,
     ThreadType, Goto, Return, Set, CallRelease, SlotHolds
<1>28. ASSUME NEW h \in Handles, Send(t, h) PROVE RegOK(t)'
  BY <1>0, ConstAssumption, <1>28 DEF RegOK, Caller, Routines, Send,
     ThreadType, Goto, Return, Set, CallPush, Known
<1>29. ASSUME NEW h \in Handles, Kill(t, h) PROVE RegOK(t)'
  BY <1>0, ConstAssumption, <1>29 DEF RegOK, Caller, Routines, Kill,
     ThreadType, Goto, Return, Set, CallPush, Known
<1>30. ASSUME NEW h \in Handles, NewRegister(t, h) PROVE RegOK(t)'
  BY <1>0, ConstAssumption, <1>30 DEF RegOK, Caller, Routines, NewRegister,
     ThreadType, Goto, Set
<1>31. ASSUME NEW h \in Handles, GrabUse(t, h) PROVE RegOK(t)'
  BY <1>0, ConstAssumption, <1>31 DEF RegOK, Caller, Routines, GrabUse,
     ThreadType, Goto, Return, Set, CallRelease
<1>32. ASSUME NEW h \in Handles, ExtPush(t, h) PROVE RegOK(t)'
  BY <1>0, ConstAssumption, <1>32 DEF RegOK, Caller, Routines, ExtPush,
     ThreadType, Goto, Return, Set, CallPush, Known
<1> QED
  BY <1>1, <1>2, <1>3, <1>4, <1>5, <1>6, <1>7, <1>8, <1>9, <1>10, <1>11,
     <1>12, <1>13, <1>14, <1>15, <1>16, <1>17, <1>18, <1>19, <1>20, <1>21,
     <1>22, <1>23, <1>24, <1>25, <1>26, <1>27, <1>28, <1>29, <1>30, <1>31,
     <1>32 DEF Step, Command

\* A context in the slot or held by a thread has a positive count.
LEMMA RefPos ==
  ASSUME IInv, NEW h \in Handles,
         h \in slot \/ \E t \in Threads : d[t] = h \/ r[t] = h \/ n[t] = h
  PROVE  ref[h] \in Nat /\ ref[h] > 0 /\ ctxmem[h] = "alloc"
<1> DEFINE D == Cardinality(HeldIn(d, h))
           R == Cardinality(HeldIn(r, h))
           N == Cardinality(HeldIn(n, h))
<1>1. D \in Nat /\ R \in Nat /\ N \in Nat
  BY HeldCount
<1>2. \A t \in Threads : /\ d[t] = h => D # 0
                         /\ r[t] = h => R # 0
                         /\ n[t] = h => N # 0
  BY HeldCount
<1>3. ref[h] = (IF h \in slot THEN 1 ELSE 0) + D + R + N
  BY DEF IInv, RefCountExact
<1> HIDE DEF D, R, N
<1>4. ref[h] \in Nat /\ ref[h] > 0
  BY <1>1, <1>2, <1>3
<1> QED
  BY <1>4 DEF IInv, AliveOK

\* What a step of thread t does to the count of a context is what it does to
\* the slot and to the references of t.
Balance(t) ==
  \A h \in Handles :
    ref'[h] = ref[h] + In(h, slot') - In(h, slot)
                     + Is(d'[t], h) - Is(d[t], h)
                     + Is(r'[t], h) - Is(r[t], h)
                     + Is(n'[t], h) - Is(n[t], h)

\* Every step balances the count of every context.
LEMMA BalanceNext ==
  ASSUME IInv, NEW t \in Threads, Step(t) \/ Command(t)
  PROVE  Balance(t)
<1>0. /\ ThreadType /\ MqType /\ CtxType /\ RegOK(t)
      /\ Nil \in Refs /\ Handles \subseteq Refs
  BY DEF IInv, TypeOK, Refs
<1>0a. ref \in [Handles -> Nat] /\ Nil \notin Handles
  BY ConstAssumption DEF IInv, TypeOK
<1> USE <1>0, <1>0a
<1>1. CASE GlobalPop(t) \/ GrabNull(t) \/ PopMessage(t) \/ MqLength(t)
           \/ CallbackDone(t) \/ YieldNext(t) \/ PushFail(t) \/ PushMq(t)
           \/ Delete(t) \/ MqReleaseLater(t) \/ MqReleaseDrop(t)
           \/ DropMessage(t) \/ DropDone(t) \/ NewQueue(t) \/ NewOk(t)
           \/ NewPush(t) \/ NewRet(t)
  BY <1>1 DEF GlobalPop, GrabNull, PopMessage, MqLength, CallbackDone,
     YieldNext, PushFail, PushMq, Delete, MqReleaseLater, MqReleaseDrop,
     DropMessage, DropDone, NewQueue, NewOk, NewPush, NewRet, MqPush,
     MarkRelease, AfterMqRelease, Marked, MqPopEmpty, MqCreate, Balance, Is,
     In, ctxVars, regVars, ThreadType, Goto, Return, Set, CallPush
<1>2. ASSUME NEW h \in Handles,
             Send(t, h) \/ Kill(t, h) \/ ExtPush(t, h)
      PROVE  Balance(t)
  BY <1>2 DEF Send, Kill, ExtPush, Running, NewSession, Balance, Is, In,
     ctxVars, ThreadType, Goto, Return, Set, CallPush
<1>3. CASE GrabFound(t)
  BY <1>0, <1>0a, RegsInUse, <1>3 DEF GrabFound, ContextGrab, Balance, Is, In,
     ThreadType, Goto, Set
<1>4. CASE PopEmpty(t)
  <2>1. d[t] \in Handles /\ r[t] = Nil
    BY <1>0, RegsInUse, <1>4 DEF PopEmpty
  <2>2. /\ d'[t] = Nil /\ r'[t] = d[t] /\ n'[t] = n[t]
        /\ ref' = ref /\ slot' = slot
    BY <1>0, <1>4 DEF PopEmpty, ThreadType, CallRelease, Set, ctxVars
  <2> QED
    BY <1>0a, <2>1, <2>2 DEF Balance, Is, In
<1>5. CASE YieldKeep(t)
  <2>1. d[t] \in Handles /\ r[t] = Nil
    BY <1>0, RegsInUse, <1>5 DEF YieldKeep
  <2>2. /\ d'[t] = Nil /\ r'[t] = d[t] /\ n'[t] = n[t]
        /\ ref' = ref /\ slot' = slot
    BY <1>0, <1>5 DEF YieldKeep, ThreadType, CallRelease, Set, ctxVars
  <2> QED
    BY <1>0a, <2>1, <2>2 DEF Balance, Is, In
<1>6. CASE PushBack(t)
  <2>1. d[t] \in Handles /\ r[t] = Nil
    BY <1>0, RegsInUse, <1>6 DEF PushBack
  <2>2. /\ d'[t] = Nil /\ r'[t] = d[t] /\ n'[t] = n[t]
        /\ ref' = ref /\ slot' = slot
    BY <1>0, <1>6 DEF PushBack, ThreadType, CallRelease, Set, ctxVars
  <2> QED
    BY <1>0a, <2>1, <2>2 DEF Balance, Is, In
<1>7. CASE PushGrab(t)
  BY <1>0, <1>0a, RegsInUse, <1>7 DEF PushGrab, ContextGrab, Balance, Is, In,
     ThreadType, Goto, Set
<1>8. CASE Release(t)
  BY <1>0, <1>0a, RegsInUse, <1>8 DEF Release, LastRef, Balance, Is, In,
     ThreadType, Goto, Set
<1>9. CASE Retire(t)
  <2>1. victim[t] \in Handles /\ r[t] = Nil
    BY <1>0, RegsInUse, <1>9 DEF Retire
  <2>2. CASE victim[t] \in slot
    BY <1>0, <1>0a, <2>1, <2>2, <1>9 DEF Retire, SlotHolds, Balance, Is, In,
       ThreadType, CallRelease, Set
  <2>3. CASE victim[t] \notin slot
    BY <1>0, <1>0a, <2>1, <2>3, <1>9 DEF Retire, SlotHolds, Balance, Is, In
  <2> QED
    BY <2>2, <2>3
<1>10. CASE InitOk(t)
  BY <1>0, <1>0a, RegsInUse, <1>10 DEF InitOk, InitDone, Balance, Is, In,
     ctxVars, ThreadType, Goto, Return, Set, CallRelease
<1>11. CASE InitFail(t)
  BY <1>0, <1>0a, RegsInUse, <1>11 DEF InitFail, InitDone, Balance, Is, In,
     ctxVars, ThreadType, Goto, Return, Set, CallRelease
<1>12. CASE NewFail(t)
  <2>1. new[t] \in Handles /\ r[t] = Nil
    BY <1>0, RegsInUse, <1>12 DEF NewFail
  <2>2. CASE new[t] \in slot
    BY <1>0, <1>0a, <2>1, <2>2, <1>12 DEF NewFail, SlotHolds, Balance, Is, In,
       ThreadType, CallRelease, Set
  <2>3. CASE new[t] \notin slot
    BY <1>0, <1>0a, <2>1, <2>3, <1>12 DEF NewFail, SlotHolds, Balance, Is, In
  <2> QED
    BY <2>2, <2>3
<1>13. ASSUME NEW h \in Handles, NewRegister(t, h) PROVE Balance(t)
  <2>1. h \notin slot /\ ref[h] = 0
    BY <1>0a, <1>13, RefPos DEF NewRegister, IInv, AliveOK
  <2> QED
    BY <1>0, <1>0a, <2>1, RegsInUse, <1>13 DEF NewRegister, Balance, Is, In,
       ThreadType, CtxType, Goto, Set
<1>14. ASSUME NEW h \in Handles, GrabUse(t, h) PROVE Balance(t)
  BY <1>0, <1>0a, RegsInUse, <1>14 DEF GrabUse, ContextGrab, Balance, Is, In,
     ThreadType, Goto, Return, Set, CallRelease
<1> QED
  BY <1>1, <1>2, <1>3, <1>4, <1>5, <1>6, <1>7, <1>8, <1>9, <1>10, <1>11,
     <1>12, <1>13, <1>14 DEF Step, Command

\* No count becomes negative.
LEMMA RefTypeNext ==
  ASSUME IInv, NEW t \in Threads, Step(t) \/ Command(t)
  PROVE  ref' \in [Handles -> Nat]
<1>0. /\ ThreadType /\ MqType /\ CtxType /\ RegOK(t)
      /\ Nil \in Refs /\ Handles \subseteq Refs
  BY DEF IInv, TypeOK, Refs
<1>0a. ref \in [Handles -> Nat] /\ Nil \notin Handles
  BY ConstAssumption DEF IInv, TypeOK
<1> USE <1>0, <1>0a
<1>1. CASE GlobalPop(t) \/ GrabNull(t) \/ PopMessage(t) \/ PopEmpty(t)
           \/ MqLength(t) \/ CallbackDone(t) \/ YieldKeep(t) \/ YieldNext(t)
           \/ PushBack(t) \/ PushFail(t) \/ PushMq(t) \/ Delete(t)
           \/ MqReleaseLater(t) \/ MqReleaseDrop(t) \/ DropMessage(t)
           \/ DropDone(t) \/ Retire(t) \/ NewQueue(t) \/ InitOk(t)
           \/ InitFail(t) \/ NewOk(t) \/ NewPush(t) \/ NewRet(t) \/ NewFail(t)
  BY <1>1 DEF GlobalPop, GrabNull, PopMessage, PopEmpty, MqLength,
     CallbackDone, YieldKeep, YieldNext, PushBack, PushFail, PushMq, Delete,
     MqReleaseLater, MqReleaseDrop, DropMessage, DropDone, Retire, NewQueue,
     InitOk, InitFail, NewOk, NewPush, NewRet, NewFail, ctxVars, regVars,
     InitDone
<1>2. ASSUME NEW h \in Handles,
             Send(t, h) \/ Kill(t, h) \/ ExtPush(t, h)
      PROVE  ref' \in [Handles -> Nat]
  BY <1>2 DEF Send, Kill, ExtPush, ctxVars
<1>3. CASE GrabFound(t)
  BY <1>0, <1>0a, RegsInUse, <1>3 DEF GrabFound, ContextGrab
<1>4. CASE PushGrab(t)
  BY <1>0, <1>0a, RegsInUse, <1>4 DEF PushGrab, ContextGrab
<1>5. CASE Release(t)
  <2>1. ref[r[t]] \in Nat /\ ref[r[t]] > 0
    BY <1>0, <1>5, RegsInUse, RefPos DEF Release
  <2>2. ref' = [ref EXCEPT ![r[t]] = ref[r[t]] - 1]
    BY <1>5 DEF Release
  <2>3. ref[r[t]] - 1 \in Nat
    BY <2>1
  <2> QED
    BY <1>0a, <2>2, <2>3
<1>6. ASSUME NEW h \in Handles, NewRegister(t, h) PROVE ref' \in [Handles -> Nat]
  BY <1>0, <1>0a, RegsInUse, <1>6 DEF NewRegister
<1>7. ASSUME NEW h \in Handles, GrabUse(t, h) PROVE ref' \in [Handles -> Nat]
  BY <1>0, <1>0a, RegsInUse, <1>7 DEF GrabUse, ContextGrab
<1> QED
  BY <1>1, <1>2, <1>3, <1>4, <1>5, <1>6, <1>7 DEF Step, Command

\* Every step keeps the counts exact.
LEMMA RefCountNext ==
  ASSUME IInv, NEW t \in Threads, Step(t) \/ Command(t)
  PROVE  RefCountExact'
<1>1. /\ ThreadType /\ ThreadType' /\ \A u \in Threads : u # t => Same(u)
      /\ Balance(t) /\ ref \in [Handles -> Nat] /\ ref' \in [Handles -> Nat]
  BY ThreadTypeNext, LocalNext, BalanceNext, RefTypeNext DEF IInv, TypeOK
<1>2. Differs(d, d', t) /\ Differs(r, r', t) /\ Differs(n, n', t)
  BY <1>1 DEF Same, Differs
<1> SUFFICES ASSUME NEW h \in Handles
             PROVE  ref'[h] = (IF h \in slot' THEN 1 ELSE 0)
                       + Cardinality(HeldIn(d', h)) + Cardinality(HeldIn(r', h))
                       + Cardinality(HeldIn(n', h))
  BY DEF RefCountExact, HeldIn
<1> DEFINE D == Cardinality(HeldIn(d, h))
           R == Cardinality(HeldIn(r, h))
           N == Cardinality(HeldIn(n, h))
           D1 == Cardinality(HeldIn(d', h))
           R1 == Cardinality(HeldIn(r', h))
           N1 == Cardinality(HeldIn(n', h))
<1>3. /\ D1 = D - Is(d[t], h) + Is(d'[t], h)
      /\ R1 = R - Is(r[t], h) + Is(r'[t], h)
      /\ N1 = N - Is(n[t], h) + Is(n'[t], h)
  <2>2. D1 = D - Is(d[t], h) + Is(d'[t], h)
    BY <1>2, HeldUpdate
  <2>3. R1 = R - Is(r[t], h) + Is(r'[t], h)
    BY <1>2, HeldUpdate
  <2>4. N1 = N - Is(n[t], h) + Is(n'[t], h)
    BY <1>2, HeldUpdate
  <2> QED
    BY <2>2, <2>3, <2>4
<1>4. D \in Nat /\ R \in Nat /\ N \in Nat
  BY HeldCount
<1>5. ref[h] = In(h, slot) + D + R + N
  BY DEF IInv, RefCountExact, Is, In
<1>6. ref'[h] = ref[h] + In(h, slot') - In(h, slot)
                + Is(d'[t], h) - Is(d[t], h)
                + Is(r'[t], h) - Is(r[t], h)
                + Is(n'[t], h) - Is(n[t], h)
  BY <1>1 DEF Balance
<1> HIDE DEF D, R, N, D1, R1, N1
<1>7. \A x, y : Is(x, y) \in Nat /\ In(x, y) \in Nat
  BY DEF Is, In
<1>8. ref'[h] = In(h, slot') + D1 + R1 + N1
  BY <1>3, <1>4, <1>5, <1>6, <1>7
<1> QED
  BY <1>8 DEF Is, In, D1, R1, N1

\* A context is deleted once, by the thread that dropped its last reference,
\* and nobody refers to it from then on.
LEMMA AliveNext ==
  ASSUME IInv, NEW t \in Threads, Step(t) \/ Command(t)
  PROVE  AliveOK'
<1>0. /\ ThreadType /\ MqType /\ CtxType /\ RegOK(t)
      /\ Nil \in Refs /\ Handles \subseteq Refs
  BY DEF IInv, TypeOK, Refs
<1>0a. /\ ref \in [Handles -> Nat] /\ Nil \notin Handles /\ AliveOK
  BY ConstAssumption DEF IInv, TypeOK
<1> USE <1>0, <1>0a
<1>1. CASE GlobalPop(t) \/ GrabNull(t) \/ PopMessage(t) \/ PopEmpty(t)
           \/ MqLength(t) \/ CallbackDone(t) \/ YieldKeep(t) \/ YieldNext(t)
           \/ PushBack(t) \/ PushFail(t) \/ PushMq(t) \/ MqReleaseLater(t)
           \/ MqReleaseDrop(t) \/ DropMessage(t) \/ DropDone(t) \/ Retire(t)
           \/ NewQueue(t) \/ InitOk(t) \/ InitFail(t) \/ NewOk(t)
           \/ NewPush(t) \/ NewRet(t) \/ NewFail(t)
  BY <1>1 DEF GlobalPop, GrabNull, PopMessage, PopEmpty, MqLength,
     CallbackDone, YieldKeep, YieldNext, PushBack, PushFail, PushMq,
     MqReleaseLater, MqReleaseDrop, DropMessage, DropDone, Retire, NewQueue,
     InitOk, InitFail, NewOk, NewPush, NewRet, NewFail, AliveOK, ctxVars,
     mqVars, regVars, InitDone
<1>2. ASSUME NEW h \in Handles,
             Send(t, h) \/ Kill(t, h) \/ ExtPush(t, h)
      PROVE  AliveOK'
  BY <1>2 DEF Send, Kill, ExtPush, AliveOK, ctxVars, mqVars
<1>3. CASE GrabFound(t)
  <2>1. q[t] \in slot /\ q[t] \in Handles
    BY <1>0, <1>3 DEF GrabFound, CtxType
  <2>2. ref[q[t]] \in Nat /\ ref[q[t]] > 0 /\ ctxmem[q[t]] = "alloc"
    BY <2>1, RefPos
  <2>3. /\ ref' = [ref EXCEPT ![q[t]] = ref[q[t]] + 1]
        /\ UNCHANGED <<ctxmem, release, del>>
    BY <1>3 DEF GrabFound, ContextGrab, mqVars
  <2> QED
    BY <1>0, <1>0a, <2>1, <2>2, <2>3 DEF AliveOK, ThreadType, Refs
<1>4. CASE PushGrab(t)
  <2>1. arg[t] \in slot /\ arg[t] \in Handles
    BY <1>0, <1>4 DEF PushGrab, CtxType
  <2>2. ref[arg[t]] \in Nat /\ ref[arg[t]] > 0 /\ ctxmem[arg[t]] = "alloc"
    BY <2>1, RefPos
  <2>3. /\ ref' = [ref EXCEPT ![arg[t]] = ref[arg[t]] + 1]
        /\ UNCHANGED <<ctxmem, release, del>>
    BY <1>4 DEF PushGrab, ContextGrab, mqVars
  <2> QED
    BY <1>0, <1>0a, <2>1, <2>2, <2>3 DEF AliveOK, ThreadType, Refs
<1>5. CASE Release(t)
  <2>1. r[t] \in Handles /\ del[t] = Nil
    BY <1>0, <1>5, RegsInUse DEF Release
  <2>2. ref[r[t]] \in Nat /\ ref[r[t]] > 0 /\ ctxmem[r[t]] = "alloc"
    BY <2>1, RefPos
  <2>3. ref' = [ref EXCEPT ![r[t]] = ref[r[t]] - 1] /\ UNCHANGED <<ctxmem, release>>
    BY <1>5 DEF Release, mqVars
  <2>4. CASE ref[r[t]] = 1
    <3>1. del' = [del EXCEPT ![t] = r[t]]
      BY <1>5, <2>4 DEF Release, LastRef, Set
    <3>2. \A u \in Threads : del[u] # r[t]
      BY <1>0, <1>0a, <2>1, <2>4 DEF AliveOK
    <3> QED
      BY <1>0, <1>0a, <2>1, <2>2, <2>3, <2>4, <3>1, <3>2 DEF AliveOK,
         ThreadType, Refs
  <2>5. CASE ref[r[t]] # 1
    <3>1. UNCHANGED del
      BY <1>5, <2>5 DEF Release, LastRef
    <3> QED
      BY <1>0, <1>0a, <2>1, <2>2, <2>3, <2>5, <3>1 DEF AliveOK, ThreadType, Refs
  <2> QED
    BY <2>4, <2>5
<1>6. CASE Delete(t)
  <2>1. del[t] \in Handles
    BY <1>0, <1>6, RegsInUse DEF Delete
  <2>2. /\ ref' = ref /\ ctxmem' = [ctxmem EXCEPT ![del[t]] = "freed"]
        /\ release' = [release EXCEPT ![del[t]] = 1]
        /\ del' = [del EXCEPT ![t] = Nil]
    BY <1>6 DEF Delete, MarkRelease, Set
  <2>3. /\ ref[del[t]] = 0 /\ ctxmem[del[t]] = "alloc"
        /\ \A u \in Threads : u # t => del[u] # del[t]
    BY <1>0a, <2>1 DEF AliveOK
  <2>4. \A k \in Handles : /\ ref'[k] > 0 => ctxmem'[k] = "alloc"
                           /\ ctxmem'[k] # "freed" => release'[k] = 0
    BY <1>0, <1>0a, <2>1, <2>2, <2>3 DEF AliveOK, CtxType, MqType
  <2>5. \A u \in Threads : del'[u] # Nil => u # t /\ del'[u] = del[u]
    BY <1>0, <2>2 DEF ThreadType
  <2>6. ASSUME NEW u \in Threads, del'[u] # Nil
        PROVE  /\ ctxmem'[del'[u]] = "alloc" /\ ref'[del'[u]] = 0
               /\ \A v \in Threads : del'[v] = del'[u] => v = u
    BY <1>0, <1>0a, <2>2, <2>3, <2>5, <2>6 DEF AliveOK, CtxType
  <2> QED
    BY <2>4, <2>6 DEF AliveOK
<1>7. ASSUME NEW h \in Handles, NewRegister(t, h) PROVE AliveOK'
  <2>1. /\ ref' = [ref EXCEPT ![h] = 2] /\ ctxmem[h] = "none"
        /\ ctxmem' = [ctxmem EXCEPT ![h] = "alloc"]
        /\ UNCHANGED <<release, del>>
    BY <1>7 DEF NewRegister, mqVars
  <2> QED
    BY <1>0, <1>0a, <2>1 DEF AliveOK, ThreadType, Refs, CtxType, MqType
<1>8. ASSUME NEW h \in Handles, GrabUse(t, h) PROVE AliveOK'
  <2>1. h \in slot /\ h \in Handles
    BY <1>0, <1>8 DEF GrabUse, CtxType
  <2>2. ref[h] \in Nat /\ ref[h] > 0 /\ ctxmem[h] = "alloc"
    BY <2>1, RefPos
  <2>3. /\ ref' = [ref EXCEPT ![h] = ref[h] + 1]
        /\ UNCHANGED <<ctxmem, release, del>>
    BY <1>8 DEF GrabUse, ContextGrab, mqVars
  <2> QED
    BY <1>0, <1>0a, <2>1, <2>2, <2>3 DEF AliveOK, ThreadType, Refs
<1> QED
  BY <1>1, <1>2, <1>3, <1>4, <1>5, <1>6, <1>7, <1>8 DEF Step, Command

\* A mailbox that exists, or existed, is never unknown again.
LEMMA QmemNext ==
  ASSUME IInv, NEW t \in Threads, Step(t) \/ Command(t)
  PROVE  \A k \in Handles : qmem[k] # "none" => qmem'[k] # "none"
<1>0. /\ ThreadType /\ MqType /\ CtxType /\ RegOK(t)
      /\ Nil \in Refs /\ Handles \subseteq Refs
  BY DEF IInv, TypeOK, Refs
<1> USE <1>0
<1>1. CASE GlobalPop(t) \/ GrabFound(t) \/ GrabNull(t) \/ PopMessage(t)
           \/ PopEmpty(t) \/ MqLength(t) \/ CallbackDone(t) \/ YieldKeep(t)
           \/ YieldNext(t) \/ PushBack(t) \/ PushGrab(t) \/ PushFail(t)
           \/ PushMq(t) \/ Release(t) \/ Delete(t) \/ MqReleaseLater(t)
           \/ MqReleaseDrop(t) \/ DropMessage(t) \/ Retire(t) \/ InitOk(t)
           \/ InitFail(t) \/ NewOk(t) \/ NewPush(t) \/ NewRet(t) \/ NewFail(t)
  BY <1>1 DEF GlobalPop, GrabFound, GrabNull, PopMessage, PopEmpty, MqLength,
     CallbackDone, YieldKeep, YieldNext, PushBack, PushGrab, PushFail, PushMq,
     Release, Delete, MqReleaseLater, MqReleaseDrop, DropMessage, Retire,
     InitOk, InitFail, NewOk, NewPush, NewRet, NewFail, mqVars, regVars,
     InitDone
<1>2. ASSUME NEW h \in Handles,
             Send(t, h) \/ Kill(t, h) \/ NewRegister(t, h) \/ GrabUse(t, h)
             \/ ExtPush(t, h)
      PROVE  \A k \in Handles : qmem[k] # "none" => qmem'[k] # "none"
  BY <1>2 DEF Send, Kill, NewRegister, GrabUse, ExtPush, mqVars
<1>3. CASE DropDone(t)
  BY <1>0, RegsInUse, <1>3 DEF DropDone, MqType
<1>4. CASE NewQueue(t)
  BY <1>0, RegsInUse, <1>4 DEF NewQueue, MqCreate, MqType
<1> QED
  BY <1>1, <1>2, <1>3, <1>4 DEF Step, Command

\* Only skynet_handle_register makes a thread the creator of a context, and a
\* thread drops only a mailbox whose mark it has seen (skynet_mq_release).
CreatorKept(t) ==
  /\ n'[t] \in {n[t], Nil}
  /\ Caller(t)' = "new_queue" => Caller(t) = "new_queue" /\ new'[t] = new[t]
  /\ Caller(t)' = "drop" => \/ Caller(t) = "drop" /\ dq'[t] = dq[t]
                            \/ pc[t] = "mq_release" /\ Marked(dq[t]) /\ dq'[t] = dq[t]

\* How a step changes what its thread creates or drops.
LEMMA CreatorNext ==
  ASSUME IInv, NEW t \in Threads, Step(t) \/ Command(t)
  PROVE  CreatorKept(t) \/ \E k \in Handles : NewRegister(t, k)
<1>0. /\ ThreadType /\ MqType /\ CtxType /\ RegOK(t)
      /\ Nil \in Refs /\ Handles \subseteq Refs
  BY DEF IInv, TypeOK, Refs
<1> USE <1>0
<1>1. CASE GlobalPop(t)
  BY <1>1 DEF GlobalPop, CreatorKept, Caller, Routines, RegOK, ThreadType,
     Goto, Set
<1>2. CASE GrabFound(t)
  BY <1>2 DEF GrabFound, CreatorKept, Caller, Routines, RegOK, ThreadType,
     Goto, Set
<1>3. CASE GrabNull(t)
  BY <1>3 DEF GrabNull, CreatorKept, Caller, Routines, RegOK, ThreadType,
     Goto, Set
<1>4. CASE PopMessage(t)
  BY <1>4 DEF PopMessage, CreatorKept, Caller, Routines, RegOK, ThreadType,
     Goto, Set
<1>5. CASE PopEmpty(t)
  BY <1>5 DEF PopEmpty, CreatorKept, Caller, Routines, RegOK, ThreadType,
     Goto, Return, Set, CallRelease
<1>6. CASE MqLength(t)
  BY <1>6 DEF MqLength, CreatorKept, Caller, Routines, RegOK, ThreadType,
     Goto, Set
<1>7. CASE CallbackDone(t)
  BY <1>7 DEF CallbackDone, CreatorKept, Caller, Routines, RegOK, ThreadType,
     Goto, Set
<1>8. CASE YieldKeep(t)
  BY <1>8 DEF YieldKeep, CreatorKept, Caller, Routines, RegOK, ThreadType,
     Goto, Return, Set, CallRelease
<1>9. CASE YieldNext(t)
  BY <1>9 DEF YieldNext, CreatorKept, Caller, Routines, RegOK, ThreadType,
     Goto, Set
<1>10. CASE PushBack(t)
  BY <1>10 DEF PushBack, CreatorKept, Caller, Routines, RegOK, ThreadType,
     Goto, Return, Set, CallRelease
<1>11. CASE PushGrab(t)
  BY <1>11 DEF PushGrab, CreatorKept, Caller, Routines, RegOK, ThreadType,
     Goto, Set
<1>12. CASE PushFail(t)
  BY <1>12 DEF PushFail, CreatorKept, Caller, Routines, RegOK, ThreadType,
     Goto, Set
<1>13. CASE PushMq(t)
  BY <1>13 DEF PushMq, CreatorKept, Caller, Routines, RegOK, ThreadType, Goto,
     Set
<1>14. CASE Release(t)
  BY <1>14 DEF Release, CreatorKept, Caller, Routines, RegOK, ThreadType,
     Goto, Set
<1>15. CASE Delete(t)
  BY <1>15 DEF Delete, CreatorKept, Caller, Routines, RegOK, ThreadType, Goto,
     Set
<1>16. CASE MqReleaseLater(t)
  BY <1>16 DEF MqReleaseLater, CreatorKept, Caller, Routines, RegOK,
     ThreadType, Goto, Set, AfterMqRelease
<1>17. CASE MqReleaseDrop(t)
  BY <1>17 DEF MqReleaseDrop, CreatorKept, Caller, Routines, RegOK,
     ThreadType, regVars, Goto
<1>18. CASE DropMessage(t)
  BY <1>18 DEF DropMessage, CreatorKept, Caller, Routines, RegOK, ThreadType,
     Goto, Return, Set, CallPush
<1>19. CASE DropDone(t)
  BY <1>19 DEF DropDone, CreatorKept, Caller, Routines, RegOK, ThreadType,
     Goto, Set, AfterMqRelease
<1>20. CASE Retire(t)
  BY <1>20 DEF Retire, CreatorKept, Caller, Routines, RegOK, ThreadType, Goto,
     Return, Set, CallRelease
<1>21. CASE NewQueue(t)
  BY <1>21 DEF NewQueue, CreatorKept, Caller, Routines, RegOK, ThreadType,
     Goto, Set
<1>22. CASE InitOk(t)
  BY <1>22 DEF InitOk, CreatorKept, Caller, Routines, RegOK, ThreadType, Goto,
     Return, Set, CallRelease, InitDone
<1>23. CASE InitFail(t)
  BY <1>23 DEF InitFail, CreatorKept, Caller, Routines, RegOK, ThreadType,
     Goto, Return, Set, CallRelease, InitDone
<1>24. CASE NewOk(t)
  BY <1>24 DEF NewOk, CreatorKept, Caller, Routines, RegOK, ThreadType,
     regVars, Goto
<1>25. CASE NewPush(t)
  BY <1>25 DEF NewPush, CreatorKept, Caller, Routines, RegOK, ThreadType,
     Goto, Set
<1>26. CASE NewRet(t)
  BY <1>26 DEF NewRet, CreatorKept, Caller, Routines, RegOK, ThreadType, Goto,
     Set
<1>27. CASE NewFail(t)
  BY <1>27 DEF NewFail, CreatorKept, Caller, Routines, RegOK, ThreadType,
     Goto, Return, Set, CallRelease
<1>28. ASSUME NEW h \in Handles, Send(t, h)
      PROVE  CreatorKept(t) \/ \E k \in Handles : NewRegister(t, k)
  BY <1>28 DEF Send, CreatorKept, Caller, Routines, RegOK, ThreadType, Goto,
     Return, Set, CallPush
<1>29. ASSUME NEW h \in Handles, Kill(t, h)
      PROVE  CreatorKept(t) \/ \E k \in Handles : NewRegister(t, k)
  BY <1>29 DEF Kill, CreatorKept, Caller, Routines, RegOK, ThreadType, Goto,
     Return, Set, CallPush
<1>30. ASSUME NEW h \in Handles, NewRegister(t, h)
      PROVE  CreatorKept(t) \/ \E k \in Handles : NewRegister(t, k)
  BY <1>30
<1>31. ASSUME NEW h \in Handles, GrabUse(t, h)
      PROVE  CreatorKept(t) \/ \E k \in Handles : NewRegister(t, k)
  BY <1>31 DEF GrabUse, CreatorKept, Caller, Routines, RegOK, ThreadType,
     Goto, Return, Set, CallRelease
<1>32. ASSUME NEW h \in Handles, ExtPush(t, h)
      PROVE  CreatorKept(t) \/ \E k \in Handles : NewRegister(t, k)
  BY <1>32 DEF ExtPush, CreatorKept, Caller, Routines, RegOK, ThreadType,
     Goto, Return, Set, CallPush
<1> QED
  BY <1>1, <1>2, <1>3, <1>4, <1>5, <1>6, <1>7, <1>8, <1>9, <1>10, <1>11,
     <1>12, <1>13, <1>14, <1>15, <1>16, <1>17, <1>18, <1>19, <1>20, <1>21,
     <1>22, <1>23, <1>24, <1>25, <1>26, <1>27, <1>28, <1>29, <1>30, <1>31,
     <1>32 DEF Step, Command

\* Only skynet_mq_create and _release change whether a mailbox exists.
LEMMA QmemSame ==
  ASSUME IInv, NEW t \in Threads, Step(t) \/ Command(t)
  PROVE  NewQueue(t) \/ DropDone(t) \/ qmem' = qmem
<1>0. /\ ThreadType /\ MqType /\ CtxType /\ RegOK(t)
      /\ Nil \in Refs /\ Handles \subseteq Refs
  BY DEF IInv, TypeOK, Refs
<1>1. CASE GlobalPop(t) \/ GrabFound(t) \/ GrabNull(t) \/ PopMessage(t)
           \/ PopEmpty(t) \/ MqLength(t) \/ CallbackDone(t) \/ YieldKeep(t)
           \/ YieldNext(t) \/ PushBack(t) \/ PushGrab(t) \/ PushFail(t)
           \/ PushMq(t) \/ Release(t) \/ Delete(t) \/ MqReleaseLater(t)
           \/ MqReleaseDrop(t) \/ DropMessage(t) \/ Retire(t) \/ InitOk(t)
           \/ InitFail(t) \/ NewOk(t) \/ NewPush(t) \/ NewRet(t) \/ NewFail(t)
  BY <1>1 DEF GlobalPop, GrabFound, GrabNull, PopMessage, PopEmpty, MqLength,
     CallbackDone, YieldKeep, YieldNext, PushBack, PushGrab, PushFail, PushMq,
     Release, Delete, MqReleaseLater, MqReleaseDrop, DropMessage, Retire,
     InitOk, InitFail, NewOk, NewPush, NewRet, NewFail, mqVars, regVars,
     InitDone
<1>2. ASSUME NEW h \in Handles,
             Send(t, h) \/ Kill(t, h) \/ NewRegister(t, h) \/ GrabUse(t, h)
             \/ ExtPush(t, h)
      PROVE  NewQueue(t) \/ DropDone(t) \/ qmem' = qmem
  BY <1>2 DEF Send, Kill, NewRegister, GrabUse, ExtPush, mqVars
<1>3. CASE DropDone(t)
  BY <1>3
<1>4. CASE NewQueue(t)
  BY <1>4
<1> QED
  BY <1>1, <1>2, <1>3, <1>4 DEF Step, Command

\* A context never becomes unallocated again.
LEMMA CtxmemNext ==
  ASSUME IInv, NEW t \in Threads, Step(t) \/ Command(t)
  PROVE  \A k \in Handles : ctxmem'[k] = "none" => ctxmem[k] = "none"
<1>0. /\ ThreadType /\ MqType /\ CtxType /\ RegOK(t)
      /\ Nil \in Refs /\ Handles \subseteq Refs
  BY DEF IInv, TypeOK, Refs
<1> USE <1>0
<1>1. CASE GlobalPop(t) \/ GrabFound(t) \/ GrabNull(t) \/ PopMessage(t)
           \/ PopEmpty(t) \/ MqLength(t) \/ CallbackDone(t) \/ YieldKeep(t)
           \/ YieldNext(t) \/ PushBack(t) \/ PushGrab(t) \/ PushFail(t)
           \/ PushMq(t) \/ Release(t) \/ MqReleaseLater(t) \/ MqReleaseDrop(t)
           \/ DropMessage(t) \/ DropDone(t) \/ Retire(t) \/ NewQueue(t)
           \/ InitOk(t) \/ InitFail(t) \/ NewOk(t) \/ NewPush(t) \/ NewRet(t)
           \/ NewFail(t)
  BY <1>1 DEF GlobalPop, GrabFound, GrabNull, PopMessage, PopEmpty, MqLength,
     CallbackDone, YieldKeep, YieldNext, PushBack, PushGrab, PushFail, PushMq,
     Release, MqReleaseLater, MqReleaseDrop, DropMessage, DropDone, Retire,
     NewQueue, InitOk, InitFail, NewOk, NewPush, NewRet, NewFail, ctxVars,
     regVars, InitDone
<1>2. ASSUME NEW h \in Handles,
             Send(t, h) \/ Kill(t, h) \/ GrabUse(t, h) \/ ExtPush(t, h)
      PROVE  \A k \in Handles : ctxmem'[k] = "none" => ctxmem[k] = "none"
  BY <1>2 DEF Send, Kill, GrabUse, ExtPush, ctxVars
<1>3. CASE Delete(t)
  BY <1>0, RegsInUse, <1>3 DEF Delete, CtxType
<1>4. ASSUME NEW h \in Handles, NewRegister(t, h)
      PROVE  \A k \in Handles : ctxmem'[k] = "none" => ctxmem[k] = "none"
  BY <1>0, <1>4 DEF NewRegister, CtxType
<1> QED
  BY <1>1, <1>2, <1>3, <1>4 DEF Step, Command

\* A context is registered once, by one creator, and gets its mailbox once.
LEMMA NewNext ==
  ASSUME IInv, NEW t \in Threads, Step(t) \/ Command(t)
  PROVE  NewOK'
<1>0. /\ ThreadType /\ MqType /\ CtxType /\ RegOK(t)
      /\ Nil \in Refs /\ Handles \subseteq Refs
  BY DEF IInv, TypeOK, Refs
<1>0a. NewOK /\ FlagOK /\ AliveOK /\ \A u \in Threads : RegOK(u)
  BY DEF IInv
<1>1. \A u \in Threads : u # t => Same(u)
  BY LocalNext
<1>2. \A u \in Threads : u # t => Caller(u)' = Caller(u)
  BY <1>1 DEF Same, Caller
<1>3. ASSUME NEW h \in Handles, NewRegister(t, h) PROVE NewOK'
  <2>1. /\ ctxmem[h] = "none" /\ ctxmem' = [ctxmem EXCEPT ![h] = "alloc"]
        /\ qmem' = qmem
        /\ new' = [new EXCEPT ![t] = h] /\ n' = [n EXCEPT ![t] = h]
        /\ pc' = [pc EXCEPT ![t] = "new_queue"]
    BY <1>3 DEF NewRegister, mqVars, Goto, Set
  <2>2. \A u \in Threads : n[u] # h
    BY <2>1, RefPos
  <2>3. qmem[h] = "none"
    BY <1>0a, <2>1 DEF NewOK
  <2>4. \A k \in Handles : ctxmem'[k] = "none" => qmem'[k] = "none"
    BY <1>0, <1>0a, <2>1 DEF NewOK, CtxType
  <2>5. \A u \in Threads : Caller(u)' = "new_queue" => qmem'[new'[u]] = "none"
    BY <1>0, <1>0a, <1>2, <2>1, <2>3 DEF NewOK, ThreadType
  <2>6. \A u, v \in Threads : n'[u] # Nil /\ n'[u] = n'[v] => u = v
    BY <1>0, <1>0a, <2>1, <2>2 DEF NewOK, ThreadType
  <2> QED
    BY <2>4, <2>5, <2>6 DEF NewOK
<1>4. ASSUME CreatorKept(t) PROVE NewOK'
  <2>1. \A u, v \in Threads : n'[u] # Nil /\ n'[u] = n'[v] => u = v
    BY <1>0a, <1>1, <1>4 DEF NewOK, Same, CreatorKept
  <2>2. CASE NewQueue(t)
    <3>1. /\ new[t] \in Handles /\ n[t] = new[t] /\ pc' = [pc EXCEPT ![t] = "new_init"]
          /\ qmem' = [qmem EXCEPT ![new[t]] = "alloc"]
          /\ ctxmem' = ctxmem /\ new' = new
      BY <1>0, <2>2, RegsInUse DEF NewQueue, MqCreate, ctxVars, Goto
    <3>2. ctxmem[new[t]] = "alloc"
      BY <3>1, RefPos
    <3>3. \A k \in Handles : ctxmem'[k] = "none" => qmem'[k] = "none"
      BY <1>0, <1>0a, <3>1, <3>2 DEF NewOK, MqType
    <3>4. Caller(t)' # "new_queue"
      BY <1>0, <3>1 DEF Caller, Routines, ThreadType
    <3>5. ASSUME NEW u \in Threads, u # t, Caller(u) = "new_queue"
          PROVE  qmem'[new'[u]] = "none"
      <4>1. n[u] = new[u] /\ new[u] # Nil
        BY <1>0a, <3>5 DEF RegOK
      <4>2. new[u] # new[t]
        BY <1>0a, <3>1, <3>5, <4>1 DEF NewOK
      <4> QED
        BY <1>0, <1>0a, <3>1, <3>5, <4>2 DEF NewOK, MqType
    <3>6. \A u \in Threads : Caller(u)' = "new_queue" => qmem'[new'[u]] = "none"
      BY <1>2, <3>4, <3>5
    <3> QED
      BY <2>1, <3>3, <3>6 DEF NewOK
  <2>3. CASE DropDone(t)
    <3>1. /\ dq[t] \in Handles /\ qmem' = [qmem EXCEPT ![dq[t]] = "freed"]
          /\ ctxmem' = ctxmem /\ new' = new
      BY <1>0, <2>3, RegsInUse DEF DropDone, ctxVars
    <3>2. qmem[dq[t]] = "alloc"
      BY <1>0a, <3>1, ConstAssumption DEF FlagOK, Owned, HeldBy
    <3>3. \A k \in Handles : ctxmem'[k] = "none" => qmem'[k] = "none"
      BY <1>0, <1>0a, <3>1, <3>2 DEF NewOK, MqType
    <3>4. \A u \in Threads : Caller(u)' = "new_queue" => Caller(u) = "new_queue"
      BY <1>2, <1>4 DEF CreatorKept
    <3>5. \A u \in Threads : Caller(u)' = "new_queue" => qmem'[new'[u]] = "none"
      BY <1>0, <1>0a, <3>1, <3>2, <3>4 DEF NewOK, MqType
    <3> QED
      BY <2>1, <3>3, <3>5 DEF NewOK
  <2>4. CASE ~NewQueue(t) /\ ~DropDone(t)
    <3>1. qmem' = qmem
      BY <2>4, QmemSame
    <3>2. \A k \in Handles : ctxmem'[k] = "none" => ctxmem[k] = "none"
      BY CtxmemNext
    <3>3. \A u \in Threads : Caller(u)' = "new_queue" =>
             Caller(u) = "new_queue" /\ new'[u] = new[u]
      BY <1>1, <1>2, <1>4 DEF CreatorKept, Same
    <3> QED
      BY <1>0a, <2>1, <3>1, <3>2, <3>3 DEF NewOK
  <2> QED
    BY <2>2, <2>3, <2>4
<1> QED
  BY <1>3, <1>4, CreatorNext

\* Whatever a thread holds, or dispatches, has a mailbox.
LEMMA HeldKnown ==
  ASSUME IInv, NEW t \in Threads, NEW h \in Handles, h \in {q[t], nq[t], dq[t], cq[t]}
  PROVE  qmem[h] = "alloc" /\ Named(h) /\ Owned(h)
<1>1. h \in HeldBy(t)
  BY ConstAssumption DEF HeldBy
<1>2. Owned(h)
  BY <1>1 DEF Owned
<1>3. qmem[h] = "alloc"
  BY <1>2 DEF IInv, FlagOK
<1> QED
  BY <1>2, <1>3 DEF Named, Known

\* The first message of a mailbox, and the others, have sources that exist.
LEMMA QueueNames ==
  ASSUME IInv, NEW h \in Handles
  PROVE  /\ queue[h] # << >> => Named(Head(queue[h]).source)
         /\ queue[h] # << >> => \A i \in DOMAIN Tail(queue[h]) :
               Named(Tail(queue[h])[i].source)
         /\ \A m \in Msg : Named(m.source) => \A i \in DOMAIN Append(queue[h], m) :
               Named(Append(queue[h], m)[i].source)
<1>1. queue[h] \in Seq(Msg) /\ \A i \in DOMAIN queue[h] : Named(queue[h][i].source)
  BY DEF IInv, TypeOK, MqType, NamesOK
<1> DEFINE s == queue[h]
<1> HIDE DEF s
<1>2. s \in Seq(Msg) /\ \A i \in DOMAIN s : Named(s[i].source)
  BY <1>1 DEF s
<1>3. ASSUME s # << >>
      PROVE  Named(Head(s).source) /\ \A i \in DOMAIN Tail(s) : Named(Tail(s)[i].source)
  <2>1. /\ Len(s) \in Nat \ {0} /\ Head(s) = s[1] /\ DOMAIN s = 1..Len(s)
        /\ DOMAIN Tail(s) = 1..(Len(s) - 1)
        /\ \A i \in 1..(Len(s) - 1) : Tail(s)[i] = s[i + 1]
    BY <1>2, <1>3, HeadTailProperties, LenProperties, EmptySeq
  <2>2. 1 \in DOMAIN s /\ \A i \in 1..(Len(s) - 1) : i + 1 \in DOMAIN s
    BY <2>1
  <2> QED
    BY <1>2, <2>1, <2>2
<1>4. ASSUME NEW m \in Msg, Named(m.source), NEW i \in DOMAIN Append(s, m)
      PROVE  Named(Append(s, m)[i].source)
  <2>1. /\ DOMAIN Append(s, m) = 1..(Len(s) + 1) /\ DOMAIN s = 1..Len(s)
        /\ Len(s) \in Nat
        /\ \A j \in 1..Len(s) : Append(s, m)[j] = s[j]
        /\ Append(s, m)[Len(s) + 1] = m
    BY <1>2
  <2> QED
    BY <1>2, <1>4, <2>1
<1> QED
  BY <1>3, <1>4 DEF s

\* The names in the local variables of thread t after its step.
LocalNames(t) ==
  /\ Named(pm'[t].source) /\ Named(arg'[t]) /\ Named(victim'[t])
  /\ Named(r'[t]) /\ Named(del'[t])

\* The names a thread learns are names of services that have a mailbox.
LEMMA LocalNamesNext ==
  ASSUME IInv, NEW t \in Threads, Step(t) \/ Command(t)
  PROVE  LocalNames(t)
<1>0. /\ ThreadType /\ MqType /\ CtxType /\ RegOK(t)
      /\ Nil \in Refs /\ Handles \subseteq Refs
  BY DEF IInv, TypeOK, Refs
<1>0a. /\ Named(pm[t].source) /\ Named(arg[t]) /\ Named(victim[t])
       /\ Named(r[t]) /\ Named(del[t]) /\ Named(Nil) /\ Named(NoMsg.source)
  BY DEF IInv, NamesOK, Named, NoMsg
<1> USE <1>0, <1>0a
<1>1. CASE GlobalPop(t) \/ GrabFound(t) \/ GrabNull(t) \/ PopMessage(t)
           \/ MqLength(t) \/ CallbackDone(t) \/ YieldNext(t)
           \/ MqReleaseLater(t) \/ MqReleaseDrop(t) \/ DropDone(t)
           \/ NewQueue(t) \/ NewOk(t) \/ NewPush(t) \/ NewRet(t)
  BY <1>1 DEF GlobalPop, GrabFound, GrabNull, PopMessage, MqLength,
     CallbackDone, YieldNext, MqReleaseLater, MqReleaseDrop, DropDone,
     NewQueue, NewOk, NewPush, NewRet, LocalNames, regVars
<1>2. ASSUME NEW h \in Handles,
             NewRegister(t, h)
      PROVE  LocalNames(t)
  BY <1>2 DEF NewRegister, LocalNames
<1>3. CASE PopEmpty(t)
  <2>1. d[t] = q[t] /\ q[t] \in Handles
    BY <1>0, <1>3, RegsInUse DEF PopEmpty
  <2>2. Named(d[t])
    BY <2>1, HeldKnown
  <2> QED
    BY <1>0, <1>0a, <1>3, <2>2 DEF PopEmpty, LocalNames, ThreadType,
       CallRelease, Set
<1>4. CASE YieldKeep(t)
  <2>1. d[t] = q[t] /\ q[t] \in Handles
    BY <1>0, <1>4, RegsInUse DEF YieldKeep
  <2>2. Named(d[t])
    BY <2>1, HeldKnown
  <2> QED
    BY <1>0, <1>0a, <1>4, <2>2 DEF YieldKeep, LocalNames, ThreadType,
       CallRelease, Set
<1>5. CASE PushBack(t)
  <2>1. d[t] = q[t] /\ q[t] \in Handles
    BY <1>0, <1>5, RegsInUse DEF PushBack
  <2>2. Named(d[t])
    BY <2>1, HeldKnown
  <2> QED
    BY <1>0, <1>0a, <1>5, <2>2 DEF PushBack, LocalNames, ThreadType,
       CallRelease, Set
<1>6. CASE PushGrab(t)
  BY <1>0, <1>0a, <1>6 DEF PushGrab, LocalNames, ThreadType, Set
<1>7. CASE PushFail(t)
  BY <1>0, <1>0a, <1>7 DEF PushFail, LocalNames, ThreadType, Set
<1>8. CASE PushMq(t)
  BY <1>0, <1>0a, <1>8 DEF PushMq, LocalNames, ThreadType, Set
<1>9. CASE Release(t)
  BY <1>0, <1>0a, <1>9 DEF Release, LocalNames, ThreadType, Set
<1>10. CASE Delete(t)
  BY <1>0, <1>0a, <1>10 DEF Delete, LocalNames, ThreadType, Set
<1>11. CASE DropMessage(t)
  <2> DEFINE m == Head(queue[dq[t]])
             e == [type |-> "error", source |-> dq[t], session |-> 0]
  <2>1. dq[t] \in Handles /\ queue[dq[t]] # << >>
    BY <1>0, <1>11, RegsInUse DEF DropMessage
  <2>2. Named(m.source) /\ Named(e.source)
    BY <2>1, HeldKnown, QueueNames
  <2>3. CASE m.source # Nil
    BY <1>0, <1>0a, <1>11, <2>2, <2>3 DEF DropMessage, LocalNames, ThreadType,
       CallPush, Set
  <2>4. CASE m.source = Nil
    BY <1>0, <1>0a, <1>11, <2>4 DEF DropMessage, LocalNames
  <2> QED
    BY <2>3, <2>4
<1>12. CASE Retire(t)
  BY <1>0, <1>0a, <1>12 DEF Retire, LocalNames, ThreadType, CallRelease, Set
<1>13. CASE InitOk(t)
  <2>1. n[t] = cq[t] /\ cq[t] \in Handles
    BY <1>0, <1>13, RegsInUse DEF InitOk, InitDone
  <2>2. Named(n[t])
    BY <2>1, HeldKnown
  <2> QED
    BY <1>0, <1>0a, <1>13, <2>2 DEF InitOk, InitDone, LocalNames, ThreadType,
       CallRelease, Set
<1>14. CASE InitFail(t)
  <2>1. n[t] = cq[t] /\ cq[t] \in Handles
    BY <1>0, <1>14, RegsInUse DEF InitFail, InitDone
  <2>2. Named(n[t])
    BY <2>1, HeldKnown
  <2> QED
    BY <1>0, <1>0a, <1>14, <2>2 DEF InitFail, InitDone, LocalNames, ThreadType,
       CallRelease, Set
<1>15. CASE NewFail(t)
  <2>1. new[t] = cq[t] /\ cq[t] \in Handles
    BY <1>0, <1>15, RegsInUse DEF NewFail
  <2>2. Named(new[t])
    BY <2>1, HeldKnown
  <2> QED
    BY <1>0, <1>0a, <1>15, <2>2 DEF NewFail, LocalNames, ThreadType,
       CallRelease, Set
<1>16. ASSUME NEW h \in Handles, Send(t, h) PROVE LocalNames(t)
  <2> DEFINE k == Running(t)
             e == [type |-> "lua", source |-> k, session |-> NewSession(k)]
  <2>1. k \in Handles /\ k \in {q[t], cq[t]}
    BY <1>0, <1>16, RegsInUse DEF Send, Running
  <2>2. Named(k) /\ Named(h)
    BY <1>16, <2>1, HeldKnown DEF Send, Named
  <2>3. Named(e.source)
    BY <2>2
  <2>4. /\ arg' = [arg EXCEPT ![t] = h] /\ pm' = [pm EXCEPT ![t] = e]
        /\ UNCHANGED <<r, del, victim>>
    BY <1>16 DEF Send, CallPush, Set <2> HIDE DEF e, k
  <2> QED
    BY <1>0, <1>0a, <2>2, <2>3, <2>4 DEF LocalNames, ThreadType
<1>17. ASSUME NEW h \in Handles, Kill(t, h) PROVE LocalNames(t)
  <2> DEFINE e == [type |-> "client", source |-> h, session |-> 0]
  <2>1. Named(h) /\ Named(e.source)
    BY <1>17 DEF Kill, Named
  <2>2. CASE Monitor \in Known
    <3>1. Named(Monitor)
      BY <2>2 DEF Named
    <3> QED
      BY <1>0, <1>0a, <1>17, <2>1, <2>2, <3>1 DEF Kill, LocalNames, ThreadType,
         CallPush, Set
  <2>3. CASE Monitor \notin Known
    BY <1>0, <1>0a, <1>17, <2>1, <2>3 DEF Kill, LocalNames, ThreadType, Set
  <2> QED
    BY <2>2, <2>3
<1>18. ASSUME NEW h \in Handles, GrabUse(t, h) PROVE LocalNames(t)
  <2>1. Named(h)
    BY <1>18 DEF GrabUse, Named
  <2> QED
    BY <1>0, <1>0a, <1>18, <2>1 DEF GrabUse, LocalNames, ThreadType,
       CallRelease, Set
<1>19. ASSUME NEW h \in Handles, ExtPush(t, h) PROVE LocalNames(t)
  <2>1. Named(h)
    BY <1>19 DEF ExtPush, Named
  <2> QED
    BY <1>0, <1>0a, <1>19, <2>1 DEF ExtPush, LocalNames, ThreadType, CallPush,
       Set
<1> QED
  BY <1>1, <1>2, <1>3, <1>4, <1>5, <1>6, <1>7, <1>8, <1>9, <1>10, <1>11,
     <1>12, <1>13, <1>14, <1>15, <1>16, <1>17, <1>18, <1>19 DEF Step, Command

\* The messages in the mailboxes come from services that have a mailbox.
LEMMA MailNamesNext ==
  ASSUME IInv, NEW t \in Threads, Step(t) \/ Command(t)
  PROVE  \A k \in Handles : \A i \in DOMAIN queue'[k] : Named(queue'[k][i].source)
<1>0. /\ ThreadType /\ MqType /\ CtxType /\ RegOK(t)
      /\ Nil \in Refs /\ Handles \subseteq Refs
  BY DEF IInv, TypeOK, Refs
<1>1. CASE GlobalPop(t) \/ GrabFound(t) \/ GrabNull(t) \/ PopEmpty(t)
           \/ MqLength(t) \/ CallbackDone(t) \/ YieldKeep(t) \/ YieldNext(t)
           \/ PushBack(t) \/ PushGrab(t) \/ PushFail(t) \/ Release(t)
           \/ Delete(t) \/ MqReleaseLater(t) \/ MqReleaseDrop(t)
           \/ DropDone(t) \/ Retire(t) \/ NewQueue(t) \/ InitOk(t)
           \/ InitFail(t) \/ NewOk(t) \/ NewPush(t) \/ NewRet(t) \/ NewFail(t)
  BY <1>1 DEF GlobalPop, GrabFound, GrabNull, PopEmpty, MqLength,
     CallbackDone, YieldKeep, YieldNext, PushBack, PushGrab, PushFail,
     Release, Delete, MqReleaseLater, MqReleaseDrop, DropDone, Retire,
     NewQueue, InitOk, InitFail, NewOk, NewPush, NewRet, NewFail, IInv,
     NamesOK, mqVars, regVars, InitDone
<1>2. ASSUME NEW h \in Handles,
             Send(t, h) \/ Kill(t, h) \/ NewRegister(t, h) \/ GrabUse(t, h)
             \/ ExtPush(t, h)
      PROVE  \A k \in Handles : \A i \in DOMAIN queue'[k] : Named(queue'[k][i].source)
  BY <1>2 DEF Send, Kill, NewRegister, GrabUse, ExtPush, IInv, NamesOK, mqVars
<1>3. CASE PopMessage(t)
  <2>1. q[t] \in Handles /\ queue[q[t]] # << >>
    BY <1>0, <1>3, RegsInUse DEF PopMessage
  <2>2. queue' = [queue EXCEPT ![q[t]] = Tail(queue[q[t]])]
    BY <1>3 DEF PopMessage
  <2>3. \A k \in Handles : k # q[t] => queue'[k] = queue[k]
    BY <1>0, <2>2 DEF MqType
  <2>4. queue'[q[t]] = Tail(queue[q[t]])
    BY <1>0, <2>1, <2>2 DEF MqType
  <2> QED
    BY <2>1, <2>3, <2>4, QueueNames DEF IInv, NamesOK
<1>4. CASE PushMq(t)
  <2>1. r[t] \in Handles /\ pm[t] \in Msg /\ Named(pm[t].source)
    BY <1>0, <1>4, RegsInUse DEF PushMq, ThreadType, IInv, NamesOK
  <2>2. queue' = [queue EXCEPT ![r[t]] = Append(queue[r[t]], pm[t])]
    BY <1>4 DEF PushMq, MqPush
  <2>3. \A k \in Handles : k # r[t] => queue'[k] = queue[k]
    BY <1>0, <2>2 DEF MqType
  <2>4. queue'[r[t]] = Append(queue[r[t]], pm[t])
    BY <1>0, <2>1, <2>2 DEF MqType
  <2> QED
    BY <2>1, <2>3, <2>4, QueueNames DEF IInv, NamesOK
<1>5. CASE DropMessage(t)
  <2>1. dq[t] \in Handles /\ queue[dq[t]] # << >>
    BY <1>0, <1>5, RegsInUse DEF DropMessage
  <2>2. queue' = [queue EXCEPT ![dq[t]] = Tail(queue[dq[t]])]
    BY <1>5 DEF DropMessage
  <2>3. \A k \in Handles : k # dq[t] => queue'[k] = queue[k]
    BY <1>0, <2>2 DEF MqType
  <2>4. queue'[dq[t]] = Tail(queue[dq[t]])
    BY <1>0, <2>1, <2>2 DEF MqType
  <2> QED
    BY <2>1, <2>3, <2>4, QueueNames DEF IInv, NamesOK
<1> QED
  BY <1>1, <1>2, <1>3, <1>4, <1>5 DEF Step, Command

\* Every name stays the name of a service that has, or had, a mailbox.
LEMMA NamesNext ==
  ASSUME IInv, NEW t \in Threads, Step(t) \/ Command(t)
  PROVE  NamesOK'
<1>0. \A k \in Handles : qmem[k] # "none" => qmem'[k] # "none"
  BY QmemNext
<1>1. \A k : Named(k) => Named(k)'
  <2> SUFFICES ASSUME NEW k, Named(k) PROVE k = Nil \/ (k \in Handles /\ qmem'[k] # "none")
    BY DEF Named, Known
  <2> QED
    BY <1>0 DEF Named, Known
<1>2. \A k \in Handles : \A i \in DOMAIN queue'[k] : Named(queue'[k][i].source)
  BY MailNamesNext
<1>3. LocalNames(t) /\ \A u \in Threads : u # t => Same(u)
  BY LocalNamesNext, LocalNext
<1>4. \A u \in Threads : /\ Named(pm'[u].source) /\ Named(arg'[u])
                         /\ Named(victim'[u]) /\ Named(r'[u]) /\ Named(del'[u])
  BY <1>3 DEF LocalNames, Same, IInv, NamesOK
<1> QED
  BY <1>1, <1>2, <1>4 DEF NamesOK

\* The mailboxes in the global queue or in the hands of t, and how a step of t
\* that makes the mailboxes A owned and those of D free changes them.
Hands(t)   == {q[t], nq[t], dq[t], cq[t]}
Mine(t, h) == Occurs(Q, h) \/ h \in Hands(t)
Apart(t)   == /\ q[t] # Nil => q[t] \notin {nq[t], dq[t], cq[t]}
              /\ nq[t] # Nil => nq[t] \notin {dq[t], cq[t]}
              /\ dq[t] # Nil => dq[t] # cq[t]
Move(t, A, D) ==
  /\ Distinct(Q')
  /\ \A h \in Handles : Occurs(Q', h) => h \notin {q'[t], nq'[t], dq'[t], cq'[t]}
  /\ \A h \in Handles :
        Occurs(Q', h) \/ h \in {q'[t], nq'[t], dq'[t], cq'[t]}
          <=> (Mine(t, h) /\ h \notin D) \/ h \in A
  /\ q'[t] # Nil => q'[t] \notin {nq'[t], dq'[t], cq'[t]}
  /\ nq'[t] # Nil => nq'[t] \notin {dq'[t], cq'[t]}
  /\ dq'[t] # Nil => dq'[t] # cq'[t]

\* What the invariant says of the mailboxes of one thread.
LEMMA HandsApart ==
  ASSUME IInv, NEW t \in Threads
  PROVE  /\ Q \in Seq(Handles) /\ Distinct(Q) /\ Nil \notin Handles /\ Apart(t)
         /\ q[t] \in Refs /\ nq[t] \in Refs /\ dq[t] \in Refs /\ cq[t] \in Refs
         /\ \A h \in Handles : Occurs(Q, h) => h \notin Hands(t)
         /\ \A h \in Handles : Mine(t, h) => Owned(h)
BY ConstAssumption DEF IInv, TypeOK, MqType, ThreadType, MailboxInOnePlace,
   HeldBy, Hands, InQ, Mine, Owned, Apart

\* Moving mailboxes between the global queue and one thread, and taking only
\* mailboxes that nobody owns, keeps every mailbox in one place.
LEMMA MoveOwns ==
  ASSUME IInv, NEW t \in Threads, \A u \in Threads : u # t => Same(u), ThreadType',
         NEW A, NEW D, Move(t, A, D),
         \A h \in Handles : h \in A => ~Owned(h), D \subseteq Hands(t)
  PROVE  /\ MailboxInOnePlace'
         /\ \A h \in Handles : Owned(h)' <=> (Owned(h) /\ h \notin D) \/ h \in A
<1>0. /\ MailboxInOnePlace /\ ThreadType /\ Nil \notin Handles
  BY ConstAssumption DEF IInv, TypeOK
<1> DEFINE Hold(u) == {q[u], nq[u], dq[u], cq[u]}
           Hold1(u) == {q'[u], nq'[u], dq'[u], cq'[u]}
<1>1. \A u \in Threads : u # t => Hold1(u) = Hold(u)
  BY DEF Same
<1>2. \A u \in Threads : Hold(u) \subseteq Refs /\ Hold1(u) \subseteq Refs
  BY <1>0 DEF ThreadType
<1>3. \A h \in Handles : /\ Owned(h) <=> Occurs(Q, h) \/ \E u \in Threads : h \in Hold(u)
                         /\ Owned(h)' <=> Occurs(Q', h) \/ \E u \in Threads : h \in Hold1(u)
  BY <1>0 DEF Owned, InQ, HeldBy, Occurs
<1>4. /\ \A u \in Threads : \A h \in Handles : h \in Hold(u) => ~Occurs(Q, h)
      /\ \A u, v \in Threads : \A h \in Handles :
            u # v => ~(h \in Hold(u) /\ h \in Hold(v))
  BY <1>0 DEF MailboxInOnePlace, HeldBy, InQ
<1>5. /\ \A h \in Handles : Occurs(Q', h) => h \notin Hold1(t)
      /\ \A h \in Handles : Occurs(Q', h) \/ h \in Hold1(t) =>
            Occurs(Q, h) \/ h \in Hold(t) \/ ~Owned(h)
      /\ \A h \in Handles : Occurs(Q', h) \/ h \in Hold1(t)
            <=> ((Occurs(Q, h) \/ h \in Hold(t)) /\ h \notin D) \/ h \in A
      /\ D \subseteq Hold(t)
  BY DEF Move, Mine, Hands
<1> HIDE DEF Hold, Hold1
<1>6. /\ \A u \in Threads : \A h \in Handles : h \in Hold1(u) => ~Occurs(Q', h)
      /\ \A u, v \in Threads : \A h \in Handles :
            u # v => ~(h \in Hold1(u) /\ h \in Hold1(v))
  <2>1. ASSUME NEW u \in Threads, NEW h \in Handles, u # t, h \in Hold1(u)
        PROVE  ~Occurs(Q', h) /\ h \notin Hold1(t)
    BY <1>1, <1>3, <1>4, <1>5, <2>1
  <2>2. ASSUME NEW u \in Threads, NEW v \in Threads, u # v, NEW h \in Handles,
               h \in Hold1(u), h \in Hold1(v)
        PROVE  FALSE
    BY <1>1, <1>4, <2>1, <2>2
  <2> QED
    BY <1>5, <2>1, <2>2
<1>7. \A h \in Handles : Owned(h)' <=> (Owned(h) /\ h \notin D) \/ h \in A
  <2> SUFFICES ASSUME NEW h \in Handles
               PROVE  Owned(h)' <=> (Owned(h) /\ h \notin D) \/ h \in A
    OBVIOUS
  <2>1. (\E u \in Threads : u # t /\ h \in Hold1(u))
          <=> \E u \in Threads : u # t /\ h \in Hold(u)
    BY <1>1
  <2>2. Owned(h)' <=> (Occurs(Q', h) \/ h \in Hold1(t))
                      \/ \E u \in Threads : u # t /\ h \in Hold1(u)
    BY <1>3
  <2>3. Owned(h) <=> (Occurs(Q, h) \/ h \in Hold(t))
                      \/ \E u \in Threads : u # t /\ h \in Hold(u)
    BY <1>3
  <2>4. h \in D => ~\E u \in Threads : u # t /\ h \in Hold(u)
    BY <1>4, <1>5
  <2> QED
    BY <1>5, <2>1, <2>2, <2>3, <2>4
<1>8. \A u \in Threads : /\ q'[u] # Nil => q'[u] \notin {nq'[u], dq'[u], cq'[u]}
                         /\ nq'[u] # Nil => nq'[u] \notin {dq'[u], cq'[u]}
                         /\ dq'[u] # Nil => dq'[u] # cq'[u]
  BY <1>0 DEF Move, Same, MailboxInOnePlace
<1>9. \A u \in Threads : HeldBy(u)' = Hold1(u) \ {Nil} /\ Hold1(u) \ {Nil} \subseteq Handles
  BY <1>2 DEF HeldBy, Hold1, Refs
<1>10. Distinct(Q)'
  BY DEF Move, Distinct
<1>11. \A h : InQ(h)' <=> Occurs(Q', h)
  BY DEF InQ, Occurs
<1>12. MailboxInOnePlace'
  <2>1. \A u \in Threads : \A h \in HeldBy(u)' : ~InQ(h)'
    BY <1>6, <1>9, <1>11
  <2>2. \A u, v \in Threads : u # v => HeldBy(u)' \cap HeldBy(v)' = {}
    BY <1>6, <1>9
  <2> QED
    BY <1>8, <1>10, <2>1, <2>2 DEF MailboxInOnePlace
<1> QED
  BY <1>7, <1>12

\* Five steps make a mailbox owned or free; the others only move it.
LEMMA MoveNext ==
  ASSUME IInv, NEW t \in Threads, Step(t) \/ Command(t)
  PROVE  \/ Move(t, {}, {}) \/ PopEmpty(t) \/ PushMq(t) \/ Delete(t)
         \/ DropDone(t) \/ NewQueue(t)
<1>0. /\ ThreadType /\ MqType /\ CtxType /\ RegOK(t)
      /\ Nil \in Refs /\ Handles \subseteq Refs
  BY DEF IInv, TypeOK, Refs
<1>0a. /\ Q \in Seq(Handles) /\ Distinct(Q) /\ Nil \notin Handles /\ Apart(t)
       /\ q[t] \in Refs /\ nq[t] \in Refs /\ dq[t] \in Refs /\ cq[t] \in Refs
       /\ \A h \in Handles : Occurs(Q, h) => h \notin Hands(t)
  BY HandsApart
<1> USE <1>0a
<1>1. CASE GrabFound(t) \/ PopMessage(t) \/ MqLength(t) \/ CallbackDone(t)
           \/ YieldKeep(t) \/ PushGrab(t) \/ PushFail(t) \/ Release(t)
           \/ MqReleaseDrop(t) \/ DropMessage(t) \/ Retire(t) \/ InitOk(t)
           \/ InitFail(t) \/ NewOk(t) \/ NewRet(t)
  BY <1>1 DEF GrabFound, PopMessage, MqLength, CallbackDone, YieldKeep,
     PushGrab, PushFail, Release, MqReleaseDrop, DropMessage, Retire, InitOk,
     InitFail, NewOk, NewRet, Move, Mine, Hands, Apart, regVars, InitDone
<1>2. ASSUME NEW h \in Handles,
             Send(t, h) \/ Kill(t, h) \/ NewRegister(t, h) \/ GrabUse(t, h)
             \/ ExtPush(t, h)
      PROVE  \/ Move(t, {}, {}) \/ PopEmpty(t) \/ PushMq(t) \/ Delete(t)
         \/ DropDone(t) \/ NewQueue(t)
  BY <1>2 DEF Send, Kill, NewRegister, GrabUse, ExtPush, Move, Mine, Hands,
     Apart
<1>3. CASE GlobalPop(t)
  <2>1. Q # << >> /\ Q' = Tail(Q) /\ q' = [q EXCEPT ![t] = Head(Q)]
        /\ UNCHANGED <<nq, dq, cq>> /\ q[t] = Nil
    BY <1>0, RegsInUse, <1>3 DEF GlobalPop, Set
  <2>2. Head(Q) \in Handles /\ q'[t] = Head(Q)
    BY <1>0, <2>1, QueueTypes DEF ThreadType
  <2>3. /\ \A h : Occurs(Tail(Q), h) <=> Occurs(Q, h) /\ h # Head(Q)
        /\ Distinct(Tail(Q)) /\ Occurs(Q, Head(Q))
    BY <1>0a, <2>1, OccursTail
  <2> QED
    BY <1>0a, <2>1, <2>2, <2>3 DEF Move, Mine, Hands, Apart, Refs
<1>4. CASE GrabNull(t)
  <2>1. /\ dq[t] = Nil /\ Q' = Q /\ UNCHANGED <<nq, cq>>
        /\ q' = [q EXCEPT ![t] = Nil] /\ dq' = [dq EXCEPT ![t] = q[t]]
    BY <1>0, RegsInUse, <1>4 DEF GrabNull, Set
  <2>2. q'[t] = Nil /\ dq'[t] = q[t]
    BY <1>0, <2>1 DEF ThreadType
  <2> QED
    BY <1>0a, <2>1, <2>2 DEF Move, Mine, Hands, Apart, Refs
<1>5. CASE PopEmpty(t)
  BY <1>5
<1>6. CASE YieldNext(t)
  <2>1. Q # << >> /\ Q' = Tail(Q) /\ nq' = [nq EXCEPT ![t] = Head(Q)]
        /\ UNCHANGED <<q, dq, cq>> /\ nq[t] = Nil
    BY <1>0, RegsInUse, <1>6 DEF YieldNext, Set
  <2>2. Head(Q) \in Handles /\ nq'[t] = Head(Q)
    BY <1>0, <2>1, QueueTypes DEF ThreadType
  <2>3. /\ \A h : Occurs(Tail(Q), h) <=> Occurs(Q, h) /\ h # Head(Q)
        /\ Distinct(Tail(Q)) /\ Occurs(Q, Head(Q))
    BY <1>0a, <2>1, OccursTail
  <2> QED
    BY <1>0a, <2>1, <2>2, <2>3 DEF Move, Mine, Hands, Apart, Refs
<1>7. CASE PushBack(t)
  <2>1. /\ q[t] \in Handles /\ nq[t] \in Handles /\ Q' = Append(Q, q[t])
        /\ q' = [q EXCEPT ![t] = nq[t]] /\ nq' = [nq EXCEPT ![t] = Nil]
        /\ UNCHANGED <<dq, cq>>
    BY <1>0, RegsInUse, <1>7 DEF PushBack, Set
  <2>2. q'[t] = nq[t] /\ nq'[t] = Nil
    BY <1>0, <2>1 DEF ThreadType
  <2>3. /\ \A h : Occurs(Q', h) <=> Occurs(Q, h) \/ h = q[t]
        /\ Distinct(Q')
    BY <1>0a, <2>1, OccursAppend DEF Hands
  <2> QED
    BY <1>0a, <2>1, <2>2, <2>3 DEF Move, Mine, Hands, Apart, Refs
<1>8. CASE PushMq(t)
  BY <1>8
<1>9. CASE Delete(t)
  BY <1>9
<1>10. CASE MqReleaseLater(t)
  <2>1. dq[t] \in Handles /\ Q' = Append(Q, dq[t]) /\ dq' = [dq EXCEPT ![t] = Nil]
        /\ UNCHANGED <<q, nq, cq>>
    BY <1>0, RegsInUse, <1>10 DEF MqReleaseLater, Set
  <2>2. dq'[t] = Nil
    BY <1>0, <2>1 DEF ThreadType
  <2>3. /\ \A h : Occurs(Q', h) <=> Occurs(Q, h) \/ h = dq[t]
        /\ Distinct(Q')
    BY <1>0a, <2>1, OccursAppend DEF Hands
  <2> QED
    BY <1>0a, <2>1, <2>2, <2>3 DEF Move, Mine, Hands, Apart, Refs
<1>11. CASE DropDone(t)
  BY <1>11
<1>12. CASE NewQueue(t)
  BY <1>12
<1>13. CASE NewPush(t)
  <2>1. cq[t] \in Handles /\ Q' = Append(Q, cq[t]) /\ cq' = [cq EXCEPT ![t] = Nil]
        /\ UNCHANGED <<q, nq, dq>>
    BY <1>0, RegsInUse, <1>13 DEF NewPush, Set
  <2>2. cq'[t] = Nil
    BY <1>0, <2>1 DEF ThreadType
  <2>3. /\ \A h : Occurs(Q', h) <=> Occurs(Q, h) \/ h = cq[t]
        /\ Distinct(Q')
    BY <1>0a, <2>1, OccursAppend DEF Hands
  <2> QED
    BY <1>0a, <2>1, <2>2, <2>3 DEF Move, Mine, Hands, Apart, Refs
<1>14. CASE NewFail(t)
  <2>1. /\ dq[t] = Nil /\ Q' = Q /\ UNCHANGED <<q, nq>>
        /\ cq' = [cq EXCEPT ![t] = Nil] /\ dq' = [dq EXCEPT ![t] = cq[t]]
    BY <1>0, RegsInUse, <1>14 DEF NewFail, Set
  <2>2. cq'[t] = Nil /\ dq'[t] = cq[t]
    BY <1>0, <2>1 DEF ThreadType
  <2> QED
    BY <1>0a, <2>1, <2>2 DEF Move, Mine, Hands, Apart, Refs
<1> QED
  BY <1>1, <1>2, <1>3, <1>4, <1>5, <1>6, <1>7, <1>8, <1>9, <1>10, <1>11,
     <1>12, <1>13, <1>14 DEF Step, Command

\* The steps that only move mailboxes change the contents of owned ones.
LEMMA MailNext ==
  ASSUME IInv, NEW t \in Threads, Step(t) \/ Command(t)
  PROVE  \/ /\ UNCHANGED <<qmem, in_global, release>>
            /\ \A k \in Handles : queue'[k] = queue[k] \/ Owned(k)
         \/ PopEmpty(t) \/ PushMq(t) \/ Delete(t) \/ DropDone(t) \/ NewQueue(t)
<1>0. /\ ThreadType /\ MqType /\ CtxType /\ RegOK(t)
      /\ Nil \in Refs /\ Handles \subseteq Refs
  BY DEF IInv, TypeOK, Refs
<1>1. CASE GlobalPop(t) \/ GrabFound(t) \/ GrabNull(t) \/ MqLength(t)
           \/ CallbackDone(t) \/ YieldKeep(t) \/ YieldNext(t) \/ PushBack(t)
           \/ PushGrab(t) \/ PushFail(t) \/ Release(t) \/ MqReleaseLater(t)
           \/ MqReleaseDrop(t) \/ Retire(t) \/ InitOk(t) \/ InitFail(t)
           \/ NewOk(t) \/ NewPush(t) \/ NewRet(t) \/ NewFail(t)
  BY <1>1 DEF GlobalPop, GrabFound, GrabNull, MqLength, CallbackDone,
     YieldKeep, YieldNext, PushBack, PushGrab, PushFail, Release,
     MqReleaseLater, MqReleaseDrop, Retire, InitOk, InitFail, NewOk, NewPush,
     NewRet, NewFail, mqVars, regVars, InitDone
<1>2. ASSUME NEW h \in Handles,
             Send(t, h) \/ Kill(t, h) \/ NewRegister(t, h) \/ GrabUse(t, h)
             \/ ExtPush(t, h)
      PROVE  \/ /\ UNCHANGED <<qmem, in_global, release>>
            /\ \A k \in Handles : queue'[k] = queue[k] \/ Owned(k)
         \/ PopEmpty(t) \/ PushMq(t) \/ Delete(t) \/ DropDone(t) \/ NewQueue(t)
  BY <1>2 DEF Send, Kill, NewRegister, GrabUse, ExtPush, mqVars
<1>3. CASE PopMessage(t)
  <2>1. /\ q[t] \in Handles /\ UNCHANGED <<qmem, in_global, release>>
        /\ queue' = [queue EXCEPT ![q[t]] = Tail(queue[q[t]])]
    BY <1>0, RegsInUse, <1>3 DEF PopMessage
  <2>2. Owned(q[t])
    BY <2>1, HeldKnown
  <2> QED
    BY <1>0, <2>1, <2>2 DEF MqType
<1>4. CASE PopEmpty(t)
  BY <1>4
<1>5. CASE PushMq(t)
  BY <1>5
<1>6. CASE Delete(t)
  BY <1>6
<1>7. CASE DropMessage(t)
  <2>1. /\ dq[t] \in Handles /\ UNCHANGED <<qmem, in_global, release>>
        /\ queue' = [queue EXCEPT ![dq[t]] = Tail(queue[dq[t]])]
    BY <1>0, RegsInUse, <1>7 DEF DropMessage
  <2>2. Owned(dq[t])
    BY <2>1, HeldKnown
  <2> QED
    BY <1>0, <2>1, <2>2 DEF MqType
<1>8. CASE DropDone(t)
  BY <1>8
<1>9. CASE NewQueue(t)
  BY <1>9
<1> QED
  BY <1>1, <1>2, <1>3, <1>4, <1>5, <1>6, <1>7, <1>8, <1>9 DEF Step, Command

\* A mark is never taken back.
LEMMA ReleaseNext ==
  ASSUME IInv, NEW t \in Threads, Step(t) \/ Command(t)
  PROVE  \A k \in Handles : release[k] = 1 => release'[k] = 1
<1>0. /\ ThreadType /\ MqType /\ CtxType /\ RegOK(t)
      /\ Nil \in Refs /\ Handles \subseteq Refs
  BY DEF IInv, TypeOK, Refs
<1>1. CASE GlobalPop(t) \/ GrabFound(t) \/ GrabNull(t) \/ PopMessage(t)
           \/ PopEmpty(t) \/ MqLength(t) \/ CallbackDone(t) \/ YieldKeep(t)
           \/ YieldNext(t) \/ PushBack(t) \/ PushGrab(t) \/ PushFail(t)
           \/ PushMq(t) \/ Release(t) \/ MqReleaseLater(t) \/ MqReleaseDrop(t)
           \/ DropMessage(t) \/ DropDone(t) \/ Retire(t) \/ NewQueue(t)
           \/ InitOk(t) \/ InitFail(t) \/ NewOk(t) \/ NewPush(t) \/ NewRet(t)
           \/ NewFail(t)
  BY <1>1 DEF GlobalPop, GrabFound, GrabNull, PopMessage, PopEmpty, MqLength,
     CallbackDone, YieldKeep, YieldNext, PushBack, PushGrab, PushFail, PushMq,
     Release, MqReleaseLater, MqReleaseDrop, DropMessage, DropDone, Retire,
     NewQueue, InitOk, InitFail, NewOk, NewPush, NewRet, NewFail, mqVars,
     regVars, InitDone
<1>2. ASSUME NEW h \in Handles,
             Send(t, h) \/ Kill(t, h) \/ NewRegister(t, h) \/ GrabUse(t, h)
             \/ ExtPush(t, h)
      PROVE  \A k \in Handles : release[k] = 1 => release'[k] = 1
  BY <1>2 DEF Send, Kill, NewRegister, GrabUse, ExtPush, mqVars
<1>3. CASE Delete(t)
  BY <1>0, <1>3 DEF Delete, MarkRelease, MqType
<1> QED
  BY <1>1, <1>2, <1>3 DEF Step, Command

\* While its context is not deleted, in_global says whether a mailbox is owned.
LEMMA Unmarked ==
  ASSUME IInv, NEW h \in Handles, Named(h), release[h] = 0
  PROVE  qmem[h] = "alloc" /\ (Owned(h) <=> in_global[h] = 1)
<1>1. qmem[h] = "alloc"
  BY ConstAssumption DEF IInv, TypeOK, MqType, Named, Known, FlagOK
<1> QED
  BY <1>1 DEF IInv, FlagOK, NothingStranded

\* A mailbox that is dropped was marked.
LEMMA DropNext ==
  ASSUME IInv, NEW t \in Threads, Step(t) \/ Command(t)
  PROVE  \A u \in Threads : Caller(u)' = "drop" => release'[dq'[u]] = 1
<1>0. /\ ThreadType /\ MqType /\ CtxType /\ RegOK(t)
      /\ Nil \in Refs /\ Handles \subseteq Refs
  BY DEF IInv, TypeOK, Refs
<1>1. \A u \in Threads : u # t => Same(u) /\ Caller(u)' = Caller(u)
  BY LocalNext DEF Same, Caller
<1>2. Caller(t)' = "drop" => \/ Caller(t) = "drop" /\ dq'[t] = dq[t]
                             \/ pc[t] = "mq_release" /\ Marked(dq[t]) /\ dq'[t] = dq[t]
  <2>1. ASSUME NEW h \in Handles, NewRegister(t, h) PROVE Caller(t)' # "drop"
    BY <1>0, <2>1 DEF NewRegister, Goto, Caller, Routines, ThreadType
  <2> QED
    BY <2>1, CreatorNext DEF CreatorKept
<1>3. ASSUME NEW u \in Threads, Caller(u)' = "drop"
      PROVE  dq'[u] = dq[u] /\ dq[u] \in Handles /\ release[dq[u]] = 1
  <2>1. /\ dq'[u] = dq[u]
        /\ \/ Caller(u) = "drop"
           \/ pc[u] = "mq_release" /\ Marked(dq[u])
    BY <1>1, <1>2, <1>3 DEF Same
  <2>2. RegOK(u) /\ dq[u] \in Refs
    BY <1>0 DEF IInv, ThreadType
  <2>3. dq[u] \in Handles
    BY <2>1, <2>2 DEF RegOK, Caller, Routines, Refs
  <2> QED
    BY <2>1, <2>3 DEF Marked, IInv, FlagOK
<1> QED
  BY <1>3, ReleaseNext

\* The part of FlagOK and NothingStranded that concerns the mailbox h.
MailOK(h) ==
  /\ Owned(h) => qmem[h] = "alloc" /\ (in_global[h] = 1 \/ release[h] = 1)
  /\ qmem[h] = "freed" => release[h] = 1
  /\ qmem[h] = "alloc" /\ ~Owned(h) =>
        queue[h] = << >> /\ release[h] = 0 /\ in_global[h] = 0

\* A mailbox stays in one place; when it is free it is empty and the next push
\* publishes it; when it is owned it is never freed.
LEMMA MailboxNext ==
  ASSUME IInv, NEW t \in Threads, Step(t) \/ Command(t)
  PROVE  MailboxInOnePlace' /\ \A h \in Handles : MailOK(h)'
<1>0. /\ ThreadType /\ MqType /\ CtxType /\ RegOK(t)
      /\ Nil \in Refs /\ Handles \subseteq Refs
  BY DEF IInv, TypeOK, Refs
<1>1. \A h \in Handles : MailOK(h)
  BY DEF IInv, FlagOK, NothingStranded, MailOK
<1>2. (\A u \in Threads : u # t => Same(u)) /\ ThreadType'
  BY LocalNext, ThreadTypeNext
<1>3. /\ Q \in Seq(Handles) /\ Distinct(Q) /\ Nil \notin Handles /\ Apart(t)
      /\ q[t] \in Refs /\ nq[t] \in Refs /\ dq[t] \in Refs /\ cq[t] \in Refs
      /\ \A h \in Handles : Occurs(Q, h) => h \notin Hands(t)
      /\ \A h \in Handles : Mine(t, h) => Owned(h)
  BY HandsApart
<1> DEFINE Owns(A, D) ==
      /\ MailboxInOnePlace'
      /\ \A h \in Handles : Owned(h)' <=> (Owned(h) /\ h \notin D) \/ h \in A
<1>4. ASSUME NEW A, NEW D, Move(t, A, D), \A h \in Handles : h \in A => ~Owned(h),
             D \subseteq Hands(t)
      PROVE  Owns(A, D)
  BY <1>2, <1>4, MoveOwns
<1>5. CASE PopEmpty(t)
  <2>1. /\ q[t] \in Handles /\ queue[q[t]] = << >> /\ UNCHANGED <<queue, release, qmem>>
        /\ in_global' = [in_global EXCEPT ![q[t]] = 0]
        /\ q' = [q EXCEPT ![t] = Nil] /\ UNCHANGED <<Q, nq, dq, cq>>
    BY <1>0, RegsInUse, <1>5 DEF PopEmpty, MqPopEmpty, Set
  <2>2. q'[t] = Nil
    BY <1>0, <2>1 DEF ThreadType
  <2>3. Move(t, {}, {q[t]})
    BY <1>3, <2>1, <2>2 DEF Move, Mine, Hands, Apart, Refs
  <2>4. Owns({}, {q[t]})
    BY <1>4, <2>3 DEF Hands
  <2>5. release[q[t]] = 0
    <3>1. d[t] = q[t]
      BY <1>0, RegsInUse, <1>5 DEF PopEmpty
    <3>2. ctxmem[q[t]] = "alloc"
      BY <2>1, <3>1, RefPos
    <3> QED
      BY <2>1, <3>2 DEF IInv, AliveOK
  <2>6. \A h \in Handles : MailOK(h)'
    BY <1>0, <1>1, <2>1, <2>4, <2>5 DEF MailOK, MqType
  <2> QED
    BY <2>4, <2>6
<1>6. CASE DropDone(t)
  <2>1. /\ dq[t] \in Handles /\ queue[dq[t]] = << >> /\ UNCHANGED <<queue, release>>
        /\ in_global' = [in_global EXCEPT ![dq[t]] = 0]
        /\ dq' = [dq EXCEPT ![t] = Nil] /\ UNCHANGED <<Q, q, nq, cq>>
    BY <1>0, RegsInUse, <1>6 DEF DropDone, MqPopEmpty, Set
  <2>2. dq'[t] = Nil
    BY <1>0, <2>1 DEF ThreadType
  <2>3. Move(t, {}, {dq[t]})
    BY <1>3, <2>1, <2>2 DEF Move, Mine, Hands, Apart, Refs
  <2>4. Owns({}, {dq[t]})
    BY <1>4, <2>3 DEF Hands
  <2>5. release[dq[t]] = 1 /\ qmem' = [qmem EXCEPT ![dq[t]] = "freed"]
    BY <1>6 DEF DropDone, IInv, FlagOK, Caller, Routines
  <2>6. \A h \in Handles : MailOK(h)'
    BY <1>0, <1>1, <2>1, <2>4, <2>5 DEF MailOK, MqType
  <2> QED
    BY <2>4, <2>6
<1>7. CASE PushMq(t)
  <2>1. /\ r[t] \in Handles /\ UNCHANGED <<qmem, release, q, nq, dq, cq>>
        /\ queue' = [queue EXCEPT ![r[t]] = Append(queue[r[t]], pm[t])]
        /\ in_global' = [in_global EXCEPT ![r[t]] = 1]
        /\ Q' = IF in_global[r[t]] = 0 THEN Append(Q, r[t]) ELSE Q
    BY <1>0, RegsInUse, <1>7 DEF PushMq, MqPush
  <2>2. release[r[t]] = 0
    BY <2>1, RefPos DEF IInv, AliveOK
  <2>3. qmem[r[t]] = "alloc" /\ (Owned(r[t]) <=> in_global[r[t]] = 1)
    BY <2>1, <2>2, Unmarked DEF IInv, NamesOK
  <2> DEFINE A == IF in_global[r[t]] = 0 THEN {r[t]} ELSE {}
  <2>4. Move(t, A, {})
    <3>1. CASE in_global[r[t]] = 0
      <4>1. /\ \A h : Occurs(Q', h) <=> Occurs(Q, h) \/ h = r[t]
            /\ Distinct(Q')
        BY <1>3, <2>1, <2>3, <3>1, OccursAppend DEF Mine
      <4> QED
        BY <1>3, <2>1, <2>3, <3>1, <4>1 DEF Move, Mine, Hands, Apart, Refs
    <3>2. CASE in_global[r[t]] # 0
      BY <1>3, <2>1, <3>2 DEF Move, Mine, Hands, Apart
    <3> QED
      BY <3>1, <3>2
  <2>5. Owns(A, {})
    BY <1>4, <2>3, <2>4
  <2>6. \A h \in Handles : h # r[t] => (Owned(h)' <=> Owned(h))
    BY <2>5
  <2>7. \A h \in Handles : h = r[t] => Owned(h)'
    BY <1>0, <2>1, <2>3, <2>5 DEF MqType
  <2>8. ASSUME NEW h \in Handles PROVE MailOK(h)'
    <3>1. CASE h = r[t]
      BY <1>0, <2>1, <2>3, <2>7, <3>1 DEF MailOK, MqType
    <3>2. CASE h # r[t]
      BY <1>0, <1>1, <2>1, <2>6, <3>2 DEF MailOK, MqType
    <3> QED
      BY <3>1, <3>2
  <2> QED
    BY <2>5, <2>8
<1>8. CASE Delete(t)
  <2>1. /\ del[t] \in Handles /\ UNCHANGED <<qmem, queue, in_global, q, nq, dq, cq>>
        /\ release' = [release EXCEPT ![del[t]] = 1]
        /\ Q' = IF in_global[del[t]] # 1 THEN Append(Q, del[t]) ELSE Q
    BY <1>0, RegsInUse, <1>8 DEF Delete, MarkRelease
  <2>2. release[del[t]] = 0
    BY <1>3, <2>1 DEF IInv, AliveOK
  <2>3. qmem[del[t]] = "alloc" /\ (Owned(del[t]) <=> in_global[del[t]] = 1)
    BY <2>1, <2>2, Unmarked DEF IInv, NamesOK
  <2> DEFINE A == IF in_global[del[t]] # 1 THEN {del[t]} ELSE {}
  <2>4. Move(t, A, {})
    <3>1. CASE in_global[del[t]] # 1
      <4>1. /\ \A h : Occurs(Q', h) <=> Occurs(Q, h) \/ h = del[t]
            /\ Distinct(Q')
        BY <1>3, <2>1, <2>3, <3>1, OccursAppend DEF Mine
      <4> QED
        BY <1>3, <2>1, <2>3, <3>1, <4>1 DEF Move, Mine, Hands, Apart, Refs
    <3>2. CASE in_global[del[t]] = 1
      BY <1>3, <2>1, <3>2 DEF Move, Mine, Hands, Apart
    <3> QED
      BY <3>1, <3>2
  <2>5. Owns(A, {})
    BY <1>4, <2>3, <2>4
  <2>6. \A h \in Handles : h # del[t] => (Owned(h)' <=> Owned(h))
    BY <2>5
  <2>7. \A h \in Handles : h = del[t] => Owned(h)'
    BY <2>1, <2>3, <2>5
  <2>8. ASSUME NEW h \in Handles PROVE MailOK(h)'
    <3>1. CASE h = del[t]
      BY <1>0, <2>1, <2>3, <2>7, <3>1 DEF MailOK, MqType
    <3>2. CASE h # del[t]
      BY <1>0, <1>1, <2>1, <2>6, <3>2 DEF MailOK, MqType
    <3> QED
      BY <3>1, <3>2
  <2> QED
    BY <2>5, <2>8
<1>9. CASE NewQueue(t)
  <2>1. /\ new[t] \in Handles /\ cq[t] = Nil /\ UNCHANGED <<Q, q, nq, dq, queue, release>>
        /\ qmem' = [qmem EXCEPT ![new[t]] = "alloc"]
        /\ in_global' = [in_global EXCEPT ![new[t]] = 1]
        /\ cq' = [cq EXCEPT ![t] = new[t]] /\ pc[t] = "new_queue"
    BY <1>0, RegsInUse, <1>9 DEF NewQueue, MqCreate, Set
  <2>2. qmem[new[t]] = "none" /\ cq'[t] = new[t]
    BY <1>0, <2>1 DEF IInv, NewOK, Caller, Routines, ThreadType
  <2>3. ~Owned(new[t])
    BY <1>1, <2>1, <2>2 DEF MailOK
  <2>4. Move(t, {new[t]}, {})
    BY <1>3, <2>1, <2>2, <2>3 DEF Move, Mine, Hands, Apart, Refs
  <2>5. Owns({new[t]}, {})
    BY <1>4, <2>3, <2>4
  <2>6. \A h \in Handles : MailOK(h)'
    BY <1>0, <1>1, <2>1, <2>5 DEF MailOK, MqType
  <2> QED
    BY <2>5, <2>6
<1>10. CASE /\ Move(t, {}, {})
            /\ UNCHANGED <<qmem, in_global, release>>
            /\ \A k \in Handles : queue'[k] = queue[k] \/ Owned(k)
  <2>1. Owns({}, {})
    BY <1>4, <1>10
  <2>2. \A h \in Handles : Owned(h)' <=> Owned(h)
    BY <2>1
  <2>3. \A h \in Handles : MailOK(h)'
    BY <1>1, <1>10, <2>2 DEF MailOK
  <2> QED
    BY <2>1, <2>3
<1> QED
  BY <1>5, <1>6, <1>7, <1>8, <1>9, <1>10, MoveNext, MailNext

\* A service is dispatched by one thread at a time, and not while it is initialised.
LEMMA Exclusive ==
  ASSUME IInv
  PROVE  ServiceExclusive
<1>1. /\ ThreadType /\ MailboxInOnePlace /\ NewOK /\ Nil \notin Handles
      /\ \A t \in Threads : RegOK(t)
  BY ConstAssumption DEF IInv, TypeOK
<1>2. ASSUME NEW t \in Threads, NEW u \in Threads, t # u
      PROVE  /\ d[t] # Nil => d[t] # d[u]
             /\ d[t] # Nil => d[t] # n[u]
             /\ n[t] # Nil => n[t] # n[u]
  <2>1. d[t] # Nil => d[t] = q[t]
    BY <1>1 DEF RegOK
  <2>2. d[u] # Nil => d[u] = q[u]
    BY <1>1 DEF RegOK
  <2>3. HeldBy(t) \cap HeldBy(u) = {}
    BY <1>1, <1>2 DEF MailboxInOnePlace
  <2>4. n[u] # Nil => n[u] = new[u] /\ (cq[u] = n[u] \/ Caller(u) = "new_queue")
    BY <1>1 DEF RegOK
  <2>5. d[t] # Nil => d[t] # d[u]
    BY <2>1, <2>2, <2>3 DEF HeldBy
  <2>6. n[t] # Nil => n[t] # n[u]
    BY <1>1, <1>2 DEF NewOK
  <2>7. ASSUME d[t] # Nil, d[t] = n[u] PROVE FALSE
    <3>1. CASE cq[u] = n[u]
      BY <2>1, <2>3, <2>7, <3>1 DEF HeldBy
    <3>2. CASE Caller(u) = "new_queue"
      <4>1. qmem[n[u]] = "none"
        BY <1>1, <2>4, <2>7, <3>2 DEF NewOK
      <4>2. d[t] \in Handles /\ d[t] = q[t]
        BY <1>1, <2>1, <2>7 DEF ThreadType, Refs
      <4>3. qmem[d[t]] = "alloc"
        BY <4>2, HeldKnown
      <4> QED
        BY <2>7, <4>1, <4>3
    <3> QED
      BY <2>4, <2>7, <3>1, <3>2
  <2> QED
    BY <2>5, <2>6, <2>7
<1> QED
  BY <1>2 DEF ServiceExclusive

\* What a step of thread t does to the initialisation of services.
InitEffect(t) ==
  /\ \A h \in Handles : init[h] => init'[h]
  /\ \A h \in Handles : h \in slot' => h \in slot \/ ctxmem[h] = "none"
  /\ d'[t] # Nil => d'[t] = d[t] \/ GrabFound(t)
  /\ \A h : Creator(t, h) => NewOk(t) \/ NewFail(t) \/ Creator(t, h)'
  /\ Caller(t)' = "new_ok" => \/ InitOk(t)
                              \/ Release(t) /\ ret[t] = "new_ok"
                              \/ Delete(t) /\ ret[t] = "new_ok"

\* Every step has these effects only.
LEMMA InitEffects ==
  ASSUME IInv, NEW t \in Threads, Step(t) \/ Command(t)
  PROVE  InitEffect(t)
<1>0. /\ ThreadType /\ MqType /\ CtxType /\ RegOK(t)
      /\ Nil \in Refs /\ Handles \subseteq Refs
      /\ Caller(t) = "new_ok" => pc[t] \notin {"push_grab", "push_mq"}
  BY DEF IInv, TypeOK, Refs, InitOK
<1>1. CASE GlobalPop(t)
  BY <1>0, <1>1, RegsInUse DEF InitEffect, GlobalPop, Goto, Set, mqVars,
     ctxVars, Creator, Caller, Routines, ThreadType, CtxType
<1>2. CASE GrabFound(t)
  BY <1>0, <1>2, RegsInUse DEF InitEffect, GrabFound, Goto, Set, ContextGrab,
     mqVars, Creator, Caller, Routines, ThreadType, CtxType
<1>3. CASE GrabNull(t)
  BY <1>0, <1>3, RegsInUse DEF InitEffect, GrabNull, Goto, Set, mqVars,
     ctxVars, Creator, Caller, Routines, ThreadType, CtxType
<1>4. CASE PopMessage(t)
  BY <1>0, <1>4, RegsInUse DEF InitEffect, PopMessage, Goto, Set, ctxVars,
     Creator, Caller, Routines, ThreadType, CtxType
<1>5. CASE PopEmpty(t)
  BY <1>0, <1>5, RegsInUse DEF InitEffect, PopEmpty, Goto, Return, Set,
     CallRelease, MqPopEmpty, ctxVars, Creator, Caller, Routines, ThreadType,
     CtxType
<1>6. CASE MqLength(t)
  BY <1>0, <1>6, RegsInUse DEF InitEffect, MqLength, Goto, Set, mqVars,
     ctxVars, Creator, Caller, Routines, ThreadType, CtxType
<1>7. CASE CallbackDone(t)
  BY <1>0, <1>7, RegsInUse DEF InitEffect, CallbackDone, Goto, Set, mqVars,
     ctxVars, Creator, Caller, Routines, ThreadType, CtxType
<1>8. CASE YieldKeep(t)
  BY <1>0, <1>8, RegsInUse DEF InitEffect, YieldKeep, Goto, Return, Set,
     CallRelease, mqVars, ctxVars, Creator, Caller, Routines, ThreadType,
     CtxType
<1>9. CASE YieldNext(t)
  BY <1>0, <1>9, RegsInUse DEF InitEffect, YieldNext, Goto, Set, mqVars,
     ctxVars, Creator, Caller, Routines, ThreadType, CtxType
<1>10. CASE PushBack(t)
  BY <1>0, <1>10, RegsInUse DEF InitEffect, PushBack, Goto, Return, Set,
     CallRelease, mqVars, ctxVars, Creator, Caller, Routines, ThreadType,
     CtxType
<1>11. CASE PushGrab(t)
  BY <1>0, <1>11, RegsInUse DEF InitEffect, PushGrab, Goto, Set, ContextGrab,
     mqVars, Creator, Caller, Routines, ThreadType, CtxType
<1>12. CASE PushFail(t)
  BY <1>0, <1>12, RegsInUse DEF InitEffect, PushFail, Goto, Set, mqVars,
     ctxVars, Creator, Caller, Routines, ThreadType, CtxType
<1>13. CASE PushMq(t)
  BY <1>0, <1>13, RegsInUse DEF InitEffect, PushMq, Goto, Set, MqPush,
     ctxVars, Creator, Caller, Routines, ThreadType, CtxType
<1>14. CASE Release(t)
  BY <1>0, <1>14, RegsInUse DEF InitEffect, Release, Goto, Set, LastRef,
     mqVars, Creator, Caller, Routines, ThreadType, CtxType
<1>15. CASE Delete(t)
  BY <1>0, <1>15, RegsInUse DEF InitEffect, Delete, Goto, Set, MarkRelease,
     Creator, Caller, Routines, ThreadType, CtxType
<1>16. CASE MqReleaseLater(t)
  BY <1>0, <1>16, RegsInUse DEF InitEffect, MqReleaseLater, Goto, Set, mqVars,
     ctxVars, AfterMqRelease, Creator, Caller, Routines, ThreadType, CtxType
<1>17. CASE MqReleaseDrop(t)
  BY <1>0, <1>17, RegsInUse DEF InitEffect, MqReleaseDrop, Goto, regVars,
     mqVars, ctxVars, Creator, Caller, Routines, ThreadType, CtxType
<1>18. CASE DropMessage(t)
  BY <1>0, <1>18, RegsInUse DEF InitEffect, DropMessage, Goto, Return, Set,
     CallPush, ctxVars, Creator, Caller, Routines, ThreadType, CtxType
<1>19. CASE DropDone(t)
  BY <1>0, <1>19, RegsInUse DEF InitEffect, DropDone, Goto, Set, MqPopEmpty,
     ctxVars, AfterMqRelease, Creator, Caller, Routines, ThreadType, CtxType
<1>20. CASE Retire(t)
  BY <1>0, <1>20, RegsInUse DEF InitEffect, Retire, Goto, Return, Set,
     CallRelease, SlotHolds, mqVars, Creator, Caller, Routines, ThreadType,
     CtxType
<1>21. CASE NewQueue(t)
  BY <1>0, <1>21, RegsInUse DEF InitEffect, NewQueue, Goto, Set, MqCreate,
     ctxVars, Creator, Caller, Routines, ThreadType, CtxType
<1>22. CASE InitOk(t)
  BY <1>0, <1>22, RegsInUse DEF InitEffect, InitOk, InitDone, Goto, Return,
     Set, CallRelease, mqVars, ctxVars, Creator, Caller, Routines, ThreadType,
     CtxType
<1>23. CASE InitFail(t)
  BY <1>0, <1>23, RegsInUse DEF InitEffect, InitFail, InitDone, Goto, Return,
     Set, CallRelease, mqVars, ctxVars, Creator, Caller, Routines, ThreadType,
     CtxType
<1>24. CASE NewOk(t)
  BY <1>0, <1>24, RegsInUse DEF InitEffect, NewOk, Goto, regVars, mqVars,
     Creator, Caller, Routines, ThreadType, CtxType
<1>25. CASE NewPush(t)
  BY <1>0, <1>25, RegsInUse DEF InitEffect, NewPush, Goto, Set, mqVars,
     ctxVars, Creator, Caller, Routines, ThreadType, CtxType
<1>26. CASE NewRet(t)
  BY <1>0, <1>26, RegsInUse DEF InitEffect, NewRet, Goto, Set, mqVars,
     ctxVars, Creator, Caller, Routines, ThreadType, CtxType
<1>27. CASE NewFail(t)
  BY <1>0, <1>27, RegsInUse DEF InitEffect, NewFail, Goto, Return, Set,
     CallRelease, SlotHolds, mqVars, Creator, Caller, Routines, ThreadType,
     CtxType
<1>28. ASSUME NEW h \in Handles, Send(t, h) PROVE InitEffect(t)
  BY <1>0, <1>28, RegsInUse DEF InitEffect, Send, Goto, Return, Set, CallPush,
     mqVars, NewSession, Running, Creator, Caller, Routines, ThreadType,
     CtxType
<1>29. ASSUME NEW h \in Handles, Kill(t, h) PROVE InitEffect(t)
  BY <1>0, <1>29, RegsInUse DEF InitEffect, Kill, Goto, Return, Set, CallPush,
     mqVars, ctxVars, Creator, Caller, Routines, ThreadType, CtxType
<1>30. ASSUME NEW h \in Handles, NewRegister(t, h) PROVE InitEffect(t)
  BY <1>0, <1>30, RegsInUse DEF InitEffect, NewRegister, Goto, Set, mqVars,
     Creator, Caller, Routines, ThreadType, CtxType
<1>31. ASSUME NEW h \in Handles, GrabUse(t, h) PROVE InitEffect(t)
  BY <1>0, <1>31, RegsInUse DEF InitEffect, GrabUse, Goto, Return, Set,
     CallRelease, ContextGrab, mqVars, Creator, Caller, Routines, ThreadType,
     CtxType
<1>32. ASSUME NEW h \in Handles, ExtPush(t, h) PROVE InitEffect(t)
  BY <1>0, <1>32, RegsInUse DEF InitEffect, ExtPush, Goto, Return, Set,
     CallPush, mqVars, ctxVars, Creator, Caller, Routines, ThreadType, CtxType
<1> QED
  BY <1>1, <1>2, <1>3, <1>4, <1>5, <1>6, <1>7, <1>8, <1>9, <1>10, <1>11,
     <1>12, <1>13, <1>14, <1>15, <1>16, <1>17, <1>18, <1>19, <1>20, <1>21,
     <1>22, <1>23, <1>24, <1>25, <1>26, <1>27, <1>28, <1>29, <1>30, <1>31,
     <1>32 DEF Step, Command

\* A service becomes visible to dispatch only when it is initialised.
LEMMA InitNext ==
  ASSUME IInv, NEW t \in Threads, Step(t) \/ Command(t)
  PROVE  InitOK'
<1>0. /\ ThreadType /\ MqType /\ CtxType /\ InitOK /\ Nil \notin Handles
      /\ Nil \in Refs /\ Handles \subseteq Refs /\ \A u \in Threads : RegOK(u)
  BY ConstAssumption DEF IInv, TypeOK, Refs
<1>1. InitEffect(t) /\ \A u \in Threads : u # t => Same(u)
  BY InitEffects, LocalNext
<1>2. \A u \in Threads : u # t =>
        Caller(u)' = Caller(u) /\ \A h : Creator(u, h)' <=> Creator(u, h)
  BY <1>1 DEF Same, Caller, Creator
<1>3. \A u \in Threads, h \in Handles : Creator(u, h) =>
        cq[u] = h /\ h \in Known /\ ctxmem[h] # "none"
  <2> SUFFICES ASSUME NEW u \in Threads, NEW h \in Handles, Creator(u, h)
               PROVE  cq[u] = h /\ h \in Known /\ ctxmem[h] # "none"
    OBVIOUS
  <2>1. cq[u] = h
    BY <1>0 DEF Creator, RegOK
  <2>2. qmem[h] = "alloc"
    BY <2>1, HeldKnown
  <2> QED
    BY <2>1, <2>2 DEF Known, IInv, NewOK
<1>4. ASSUME NEW h \in slot', h \in Known'
      PROVE  init'[h] \/ \E u \in Threads : Creator(u, h)'
  <2>1. h \in Handles /\ qmem'[h] # "none"
    BY <1>4 DEF Known
  <2>2. CASE NewQueue(t) /\ h = new[t]
    <3>1. pc'[t] = "new_init" /\ new'[t] = h
      BY <1>0, <2>2 DEF NewQueue, Goto, ThreadType
    <3> QED
      BY <3>1 DEF Creator, Caller, Routines
  <2>3. CASE qmem[h] # "none"
    <3>1. h \in Known /\ h \in slot
      BY <1>1, <1>4, <2>1, <2>3 DEF InitEffect, Known, IInv, NewOK
    <3>2. CASE init[h]
      BY <1>1, <2>1, <3>2 DEF InitEffect
    <3>3. ASSUME NEW u \in Threads, Creator(u, h), ~ \E v \in Threads : Creator(v, h)'
          PROVE  init'[h]
      <4>1. u = t /\ (NewOk(t) \/ NewFail(t)) /\ new[t] = h
        BY <1>1, <1>2, <3>3 DEF InitEffect, Creator
      <4>2. CASE NewOk(t)
        <5>1. got[t] /\ init' = [init EXCEPT ![h] = TRUE]
          BY <1>0, <3>1, <4>1, <4>2 DEF NewOk, InitOK, Caller, Routines
        <5> QED
          BY <1>0, <2>1, <5>1 DEF CtxType
      <4>3. CASE NewFail(t)
        BY <1>4, <4>1, <4>3 DEF NewFail, SlotHolds
      <4> QED
        BY <4>1, <4>2, <4>3
    <3> QED
      BY <1>0, <3>1, <3>2, <3>3 DEF InitOK
  <2>4. qmem[h] # "none" \/ (NewQueue(t) /\ h = new[t])
    <3>1. CASE NewQueue(t)
      BY <1>0, <2>1, <3>1 DEF NewQueue, MqCreate, MqType
    <3>2. CASE DropDone(t)
      <4>1. dq[t] \in Handles
        BY <1>0, <3>2, RegsInUse DEF DropDone
      <4>2. qmem[dq[t]] = "alloc"
        BY <4>1, HeldKnown
      <4> QED
        BY <1>0, <2>1, <3>2, <4>2 DEF DropDone, MqType
    <3>3. CASE qmem' = qmem
      BY <2>1, <3>3
    <3> QED
      BY <3>1, <3>2, <3>3, QmemSame
  <2> QED
    BY <2>2, <2>3, <2>4
<1>5. ASSUME NEW u \in Threads, d'[u] # Nil PROVE init'[d'[u]]
  <2>0. \A v \in Threads : d[v] # Nil => d[v] \in Handles
    BY <1>0 DEF ThreadType, Refs
  <2>1. CASE d'[u] = d[u]
    BY <1>0, <1>1, <1>5, <2>0, <2>1 DEF InitOK, InitEffect
  <2>2. CASE u = t /\ GrabFound(t)
    <3>1. /\ q[t] \in Handles /\ q[t] \in slot /\ pc[t] = "grab"
          /\ d'[t] = q[t] /\ init' = init
      BY <1>0, <2>2, RegsInUse DEF GrabFound, Set, ThreadType
    <3>2. q[t] \in Known
      BY <3>1, HeldKnown DEF Known
    <3>3. ASSUME NEW v \in Threads, Creator(v, q[t]) PROVE FALSE
      <4>1. cq[v] = q[t]
        BY <1>3, <3>1, <3>3
      <4>2. CASE v = t
        BY <3>1, <3>3, <4>2 DEF Creator, Caller, Routines
      <4>3. CASE v # t
        BY <1>0, <3>1, <4>1, <4>3 DEF IInv, MailboxInOnePlace, HeldBy
      <4> QED
        BY <4>2, <4>3
    <3> QED
      BY <1>0, <2>2, <3>1, <3>2, <3>3 DEF InitOK
  <2> QED
    BY <1>1, <1>5, <2>1, <2>2 DEF InitEffect, Same
<1>6. ASSUME NEW u \in Threads, Caller(u)' = "new_ok"
      PROVE  /\ pc'[u] \notin {"push_grab", "push_mq"}
             /\ IF pc'[u] = "release" THEN r'[u] = new'[u]
                ELSE got'[u] \/ new'[u] \notin slot'
  <2>1. CASE u # t
    <3>1. Caller(u) = "new_ok" /\ Same(u)
      BY <1>1, <1>2, <1>6, <2>1
    <3>2. new[u] \in Handles /\ Creator(u, new[u])
      BY <1>0, <3>1 DEF Creator, RegOK, ThreadType, Refs
    <3>3. new[u] \notin slot => new[u] \notin slot'
      BY <1>1, <1>3, <3>2 DEF InitEffect
    <3> QED
      BY <1>0, <3>1, <3>3 DEF InitOK, Same
  <2>2. CASE u = t /\ InitOk(t)
    <3>1. n[t] = new[t] /\ pc'[t] = "release" /\ r'[t] = n[t] /\ new' = new
      BY <1>0, <2>2, RegsInUse DEF InitOk, InitDone, CallRelease, Goto, Set, ThreadType
    <3> QED
      BY <2>2, <3>1
  <2>3. CASE u = t /\ Release(t) /\ ret[t] = "new_ok"
    <3>1. /\ pc[t] = "release" /\ r[t] \in Handles /\ r[t] = new[t]
          /\ new' = new /\ slot' = slot
      BY <1>0, <2>3, RegsInUse DEF Release, InitOK, Caller, Routines
    <3>2. pc'[t] = IF LastRef(r[t]) THEN "delete" ELSE "new_ok"
      BY <1>0, <2>3 DEF Release, Goto, ThreadType
    <3>3. got'[t] <=> ~LastRef(r[t])
      BY <1>0, <2>3 DEF Release, Set, ThreadType
    <3>4. LastRef(r[t]) => r[t] \notin slot
      <4> DEFINE D == Cardinality(HeldIn(d, r[t]))
                 R == Cardinality(HeldIn(r, r[t]))
                 N == Cardinality(HeldIn(n, r[t]))
      <4>1. D \in Nat /\ R \in Nat /\ N \in Nat /\ R # 0
        BY <3>1, HeldCount
      <4>2. ref[r[t]] = (IF r[t] \in slot THEN 1 ELSE 0) + D + R + N
        BY <3>1 DEF IInv, RefCountExact
      <4> HIDE DEF D, R, N
      <4> QED
        BY <4>1, <4>2 DEF LastRef
    <3> QED
      BY <2>3, <3>1, <3>2, <3>3, <3>4
  <2>4. CASE u = t /\ Delete(t) /\ ret[t] = "new_ok"
    <3>1. /\ pc[t] = "delete" /\ pc'[t] = "new_ok"
          /\ new' = new /\ slot' = slot /\ got' = got
      BY <1>0, <2>4 DEF Delete, Goto, ThreadType
    <3> QED
      BY <1>0, <2>4, <3>1 DEF InitOK, Caller, Routines
  <2> QED
    BY <1>1, <1>6, <2>1, <2>2, <2>3, <2>4 DEF InitEffect
<1> QED
  BY <1>4, <1>5, <1>6 DEF InitOK

\* What a step of thread t does to the mailboxes, the sessions and the message t is
\* sending.
Taken(h) == queue[h] # << >> /\ queue'[h] = Tail(queue[h])
Put(t, h) == /\ PushMq(t) /\ pc[t] = "push_mq" /\ h = r[t]
             /\ queue'[h] = Append(queue[h], pm[t])
Sending(t, h) ==
  /\ pc[t] = Caller(t)' /\ pc[t] \in {"callback", "new_init"} /\ pc'[t] = "push_grab"
  /\ h = Sender(t) /\ Sender(t)' = h
  /\ queue' = queue
  /\ session_id'[h] = session_id[h] + 1
  /\ pm'[t] = [type |-> "lua", source |-> h, session |-> session_id'[h]]
OrderEffect(t) ==
  /\ \A h \in Handles : queue'[h] = queue[h] \/ Taken(h) \/ Put(t, h)
  /\ \A h \in Handles : session_id'[h] = session_id[h] \/ Sending(t, h)
  /\ Lua(pm'[t]) =>
       \/ \E h \in Handles : Sending(t, h)
       \/ /\ Lua(pm[t]) /\ pm'[t] = pm[t] /\ Caller(t)' = Caller(t)
          /\ pc'[t] = "push_mq" /\ Sender(t)' = Sender(t) /\ queue' = queue
          /\ session_id' = session_id
  /\ Lua(pm'[t]) \/ ~Lua(pm[t]) \/ PushMq(t) \/ PushFail(t)

\* Every step has these effects only.
LEMMA OrderEffects ==
  ASSUME IInv, NEW t \in Threads, Step(t) \/ Command(t)
  PROVE  OrderEffect(t)
<1>0. /\ ThreadType /\ MqType /\ CtxType /\ RegOK(t)
      /\ Nil \in Refs /\ Handles \subseteq Refs
      /\ Lua(pm[t]) => pc[t] \in {"push_grab", "push_mq"}
  BY DEF IInv, TypeOK, Refs, OrderOK
<1>1. CASE GlobalPop(t)
  BY <1>0, <1>1, RegsInUse DEF OrderEffect, GlobalPop, Goto, Set, mqVars,
     ctxVars, Taken, Put, Sending, Sender, Lua, Caller, Routines, NoMsg,
     ThreadType, CtxType, MqType
<1>2. CASE GrabFound(t)
  BY <1>0, <1>2, RegsInUse DEF OrderEffect, GrabFound, Goto, Set, ContextGrab,
     mqVars, Taken, Put, Sending, Sender, Lua, Caller, Routines, NoMsg,
     ThreadType, CtxType, MqType
<1>3. CASE GrabNull(t)
  BY <1>0, <1>3, RegsInUse DEF OrderEffect, GrabNull, Goto, Set, mqVars,
     ctxVars, Taken, Put, Sending, Sender, Lua, Caller, Routines, NoMsg,
     ThreadType, CtxType, MqType
<1>4. CASE PopMessage(t)
  BY <1>0, <1>4, RegsInUse DEF OrderEffect, PopMessage, Goto, Set, ctxVars,
     Taken, Put, Sending, Sender, Lua, Caller, Routines, NoMsg, ThreadType,
     CtxType, MqType
<1>5. CASE PopEmpty(t)
  BY <1>0, <1>5, RegsInUse DEF OrderEffect, PopEmpty, Goto, Return, Set,
     CallRelease, MqPopEmpty, ctxVars, Taken, Put, Sending, Sender, Lua,
     Caller, Routines, NoMsg, ThreadType, CtxType, MqType
<1>6. CASE MqLength(t)
  BY <1>0, <1>6, RegsInUse DEF OrderEffect, MqLength, Goto, Set, mqVars,
     ctxVars, Taken, Put, Sending, Sender, Lua, Caller, Routines, NoMsg,
     ThreadType, CtxType, MqType
<1>7. CASE CallbackDone(t)
  BY <1>0, <1>7, RegsInUse DEF OrderEffect, CallbackDone, Goto, Set, mqVars,
     ctxVars, Taken, Put, Sending, Sender, Lua, Caller, Routines, NoMsg,
     ThreadType, CtxType, MqType
<1>8. CASE YieldKeep(t)
  BY <1>0, <1>8, RegsInUse DEF OrderEffect, YieldKeep, Goto, Return, Set,
     CallRelease, mqVars, ctxVars, Taken, Put, Sending, Sender, Lua, Caller,
     Routines, NoMsg, ThreadType, CtxType, MqType
<1>9. CASE YieldNext(t)
  BY <1>0, <1>9, RegsInUse DEF OrderEffect, YieldNext, Goto, Set, mqVars,
     ctxVars, Taken, Put, Sending, Sender, Lua, Caller, Routines, NoMsg,
     ThreadType, CtxType, MqType
<1>10. CASE PushBack(t)
  BY <1>0, <1>10, RegsInUse DEF OrderEffect, PushBack, Goto, Return, Set,
     CallRelease, mqVars, ctxVars, Taken, Put, Sending, Sender, Lua, Caller,
     Routines, NoMsg, ThreadType, CtxType, MqType
<1>11. CASE PushGrab(t)
  BY <1>0, <1>11, RegsInUse DEF OrderEffect, PushGrab, Goto, Set, ContextGrab,
     mqVars, Taken, Put, Sending, Sender, Lua, Caller, Routines, NoMsg,
     ThreadType, CtxType, MqType
<1>12. CASE PushFail(t)
  BY <1>0, <1>12, RegsInUse DEF OrderEffect, PushFail, Goto, Set, mqVars,
     ctxVars, Taken, Put, Sending, Sender, Lua, Caller, Routines, NoMsg,
     ThreadType, CtxType, MqType
<1>13. CASE PushMq(t)
  BY <1>0, <1>13, RegsInUse DEF OrderEffect, PushMq, Goto, Set, MqPush,
     ctxVars, Taken, Put, Sending, Sender, Lua, Caller, Routines, NoMsg,
     ThreadType, CtxType, MqType
<1>14. CASE Release(t)
  BY <1>0, <1>14, RegsInUse DEF OrderEffect, Release, Goto, Set, LastRef,
     mqVars, Taken, Put, Sending, Sender, Lua, Caller, Routines, NoMsg,
     ThreadType, CtxType, MqType
<1>15. CASE Delete(t)
  BY <1>0, <1>15, RegsInUse DEF OrderEffect, Delete, Goto, Set, MarkRelease,
     Taken, Put, Sending, Sender, Lua, Caller, Routines, NoMsg, ThreadType,
     CtxType, MqType
<1>16. CASE MqReleaseLater(t)
  BY <1>0, <1>16, RegsInUse DEF OrderEffect, MqReleaseLater, Goto, Set,
     mqVars, ctxVars, AfterMqRelease, Taken, Put, Sending, Sender, Lua,
     Caller, Routines, NoMsg, ThreadType, CtxType, MqType
<1>17. CASE MqReleaseDrop(t)
  BY <1>0, <1>17, RegsInUse DEF OrderEffect, MqReleaseDrop, Goto, regVars,
     mqVars, ctxVars, Taken, Put, Sending, Sender, Lua, Caller, Routines,
     NoMsg, ThreadType, CtxType, MqType
<1>18. CASE DropMessage(t)
  BY <1>0, <1>18, RegsInUse DEF OrderEffect, DropMessage, Goto, Return, Set,
     CallPush, ctxVars, Taken, Put, Sending, Sender, Lua, Caller, Routines,
     NoMsg, ThreadType, CtxType, MqType
<1>19. CASE DropDone(t)
  BY <1>0, <1>19, RegsInUse DEF OrderEffect, DropDone, Goto, Set, MqPopEmpty,
     ctxVars, AfterMqRelease, Taken, Put, Sending, Sender, Lua, Caller,
     Routines, NoMsg, ThreadType, CtxType, MqType
<1>20. CASE Retire(t)
  BY <1>0, <1>20, RegsInUse DEF OrderEffect, Retire, Goto, Return, Set,
     CallRelease, SlotHolds, mqVars, Taken, Put, Sending, Sender, Lua, Caller,
     Routines, NoMsg, ThreadType, CtxType, MqType
<1>21. CASE NewQueue(t)
  BY <1>0, <1>21, RegsInUse DEF OrderEffect, NewQueue, Goto, Set, MqCreate,
     ctxVars, Taken, Put, Sending, Sender, Lua, Caller, Routines, NoMsg,
     ThreadType, CtxType, MqType
<1>22. CASE InitOk(t)
  BY <1>0, <1>22, RegsInUse DEF OrderEffect, InitOk, InitDone, Goto, Return,
     Set, CallRelease, mqVars, ctxVars, Taken, Put, Sending, Sender, Lua,
     Caller, Routines, NoMsg, ThreadType, CtxType, MqType
<1>23. CASE InitFail(t)
  BY <1>0, <1>23, RegsInUse DEF OrderEffect, InitFail, InitDone, Goto, Return,
     Set, CallRelease, mqVars, ctxVars, Taken, Put, Sending, Sender, Lua,
     Caller, Routines, NoMsg, ThreadType, CtxType, MqType
<1>24. CASE NewOk(t)
  BY <1>0, <1>24, RegsInUse DEF OrderEffect, NewOk, Goto, regVars, mqVars,
     Taken, Put, Sending, Sender, Lua, Caller, Routines, NoMsg, ThreadType,
     CtxType, MqType
<1>25. CASE NewPush(t)
  BY <1>0, <1>25, RegsInUse DEF OrderEffect, NewPush, Goto, Set, mqVars,
     ctxVars, Taken, Put, Sending, Sender, Lua, Caller, Routines, NoMsg,
     ThreadType, CtxType, MqType
<1>26. CASE NewRet(t)
  BY <1>0, <1>26, RegsInUse DEF OrderEffect, NewRet, Goto, Set, mqVars,
     ctxVars, Taken, Put, Sending, Sender, Lua, Caller, Routines, NoMsg,
     ThreadType, CtxType, MqType
<1>27. CASE NewFail(t)
  BY <1>0, <1>27, RegsInUse DEF OrderEffect, NewFail, Goto, Return, Set,
     CallRelease, SlotHolds, mqVars, Taken, Put, Sending, Sender, Lua, Caller,
     Routines, NoMsg, ThreadType, CtxType, MqType
<1>28. ASSUME NEW h \in Handles, Send(t, h) PROVE OrderEffect(t)
  BY <1>0, <1>28, RegsInUse DEF OrderEffect, Send, Goto, Return, Set,
     CallPush, mqVars, NewSession, Running, Taken, Put, Sending, Sender, Lua,
     Caller, Routines, NoMsg, ThreadType, CtxType, MqType
<1>29. ASSUME NEW h \in Handles, Kill(t, h) PROVE OrderEffect(t)
  BY <1>0, <1>29, RegsInUse DEF OrderEffect, Kill, Goto, Return, Set,
     CallPush, mqVars, ctxVars, Taken, Put, Sending, Sender, Lua, Caller,
     Routines, NoMsg, ThreadType, CtxType, MqType
<1>30. ASSUME NEW h \in Handles, NewRegister(t, h) PROVE OrderEffect(t)
  BY <1>0, <1>30, RegsInUse DEF OrderEffect, NewRegister, Goto, Set, mqVars,
     Taken, Put, Sending, Sender, Lua, Caller, Routines, NoMsg, ThreadType,
     CtxType, MqType
<1>31. ASSUME NEW h \in Handles, GrabUse(t, h) PROVE OrderEffect(t)
  BY <1>0, <1>31, RegsInUse DEF OrderEffect, GrabUse, Goto, Return, Set,
     CallRelease, ContextGrab, mqVars, Taken, Put, Sending, Sender, Lua,
     Caller, Routines, NoMsg, ThreadType, CtxType, MqType
<1>32. ASSUME NEW h \in Handles, ExtPush(t, h) PROVE OrderEffect(t)
  BY <1>0, <1>32, RegsInUse DEF OrderEffect, ExtPush, Goto, Return, Set,
     CallPush, mqVars, ctxVars, Taken, Put, Sending, Sender, Lua, Caller,
     Routines, NoMsg, ThreadType, CtxType, MqType
<1> QED
  BY <1>1, <1>2, <1>3, <1>4, <1>5, <1>6, <1>7, <1>8, <1>9, <1>10, <1>11,
     <1>12, <1>13, <1>14, <1>15, <1>16, <1>17, <1>18, <1>19, <1>20, <1>21,
     <1>22, <1>23, <1>24, <1>25, <1>26, <1>27, <1>28, <1>29, <1>30, <1>31,
     <1>32 DEF Step, Command

\* Taking the first message and adding one at the end keep the others in their order.
LEMMA InOrder ==
  ASSUME NEW S, NEW s \in Seq(S), NEW m, NEW z,
         z = s \/ (s # << >> /\ z = Tail(s)) \/ z = Append(s, m)
  PROVE  /\ \A i \in DOMAIN z : \/ \E k \in DOMAIN s : z[i] = s[k]
                                \/ z = Append(s, m) /\ z[i] = m
         /\ \A i, j \in DOMAIN z : i < j =>
              \/ \E k, l \in DOMAIN s : k < l /\ z[i] = s[k] /\ z[j] = s[l]
              \/ z = Append(s, m) /\ z[j] = m /\ \E k \in DOMAIN s : z[i] = s[k]
<1>1. PICK N \in Nat : N = Len(s) /\ DOMAIN s = 1..N
  OBVIOUS
<1>2. CASE z = s
  BY <1>2
<1>3. CASE s # << >> /\ z = Tail(s)
  <2>1. /\ DOMAIN z = 1..(N - 1)
        /\ \A i \in 1..(N - 1) : z[i] = s[i + 1]
    BY <1>1, <1>3, HeadTailProperties, LenProperties, EmptySeq
  <2>2. \A i \in DOMAIN z : i \in Int /\ i + 1 \in DOMAIN s /\ z[i] = s[i + 1]
    BY <1>1, <2>1
  <2>3. \A i, j \in DOMAIN z : i < j => i + 1 < j + 1
    BY <2>2
  <2> QED
    BY <2>2, <2>3
<1>4. CASE z = Append(s, m)
  <2>1. /\ DOMAIN z = 1..(N + 1) /\ z[N + 1] = m
        /\ \A i \in 1..N : z[i] = s[i]
    BY <1>1, <1>4
  <2>2. ASSUME NEW i \in DOMAIN z
        PROVE  (i \in DOMAIN s /\ z[i] = s[i]) \/ (i = N + 1 /\ z[i] = m)
    <3>1. i \in 1..N \/ i = N + 1
      BY <2>1
    <3> QED
      BY <1>1, <2>1, <3>1
  <2>3. \A i, j \in DOMAIN z : i < j => i \in DOMAIN s
    BY <1>1, <2>1
  <2> QED
    BY <1>4, <2>2, <2>3
<1> QED
  BY <1>2, <1>3, <1>4

\* The messages of a mailbox after a step are those it had, in the same order, perhaps
\* followed by the one the thread was sending.
LEMMA MessagesKept ==
  ASSUME IInv, NEW t \in Threads, Step(t) \/ Command(t), NEW h \in Handles
  PROVE  /\ \A i \in DOMAIN queue'[h] :
              \/ \E k \in DOMAIN queue[h] : queue'[h][i] = queue[h][k]
              \/ Put(t, h) /\ queue'[h][i] = pm[t]
         /\ \A i, j \in DOMAIN queue'[h] : i < j =>
              \/ \E k, l \in DOMAIN queue[h] :
                    k < l /\ queue'[h][i] = queue[h][k] /\ queue'[h][j] = queue[h][l]
              \/ /\ Put(t, h) /\ queue'[h][j] = pm[t]
                 /\ \E k \in DOMAIN queue[h] : queue'[h][i] = queue[h][k]
<1> DEFINE s == queue[h]
           z == queue'[h]
<1>1. s \in Seq(Msg)
  BY DEF IInv, TypeOK, MqType
<1>2. CASE z = s
  BY <1>2
<1>3. CASE s # << >> /\ z = Tail(s)
  <2>1. /\ \A i \in DOMAIN z : \E k \in DOMAIN s : z[i] = s[k]
        /\ \A i, j \in DOMAIN z : i < j =>
              \E k, l \in DOMAIN s : k < l /\ z[i] = s[k] /\ z[j] = s[l]
    <3>1. Len(Tail(s)) # Len(Append(s, Nil))
      BY <1>1, <1>3, HeadTailProperties, LenProperties, EmptySeq
    <3>2. z # Append(s, Nil)
      BY <1>3, <3>1
    <3> HIDE DEF s, z
    <3> QED
      BY <1>1, <1>3, <3>2, InOrder
  <2> QED
    BY <2>1
<1>4. CASE Put(t, h)
  <2>1. z = Append(s, pm[t])
    BY <1>4 DEF Put
  <2>2. /\ \A i \in DOMAIN z : (\E k \in DOMAIN s : z[i] = s[k]) \/ z[i] = pm[t]
        /\ \A i, j \in DOMAIN z : i < j =>
              \/ \E k, l \in DOMAIN s : k < l /\ z[i] = s[k] /\ z[j] = s[l]
              \/ z[j] = pm[t] /\ \E k \in DOMAIN s : z[i] = s[k]
    <3> HIDE DEF s, z
    <3> QED
      BY <1>1, <2>1, InOrder
  <2> QED
    BY <1>4, <2>2
<1>5. z = s \/ (s # << >> /\ z = Tail(s)) \/ Put(t, h)
  BY OrderEffects DEF OrderEffect, Taken
<1> QED
  BY <1>2, <1>3, <1>4, <1>5

\* The service a thread runs, when it is sending or may begin to.
LEMMA Senders ==
  ASSUME IInv, NEW t \in Threads, Caller(t) \in {"callback", "new_init"}
  PROVE  /\ Sender(t) \in Handles
         /\ \A u \in Threads : u # t /\ Caller(u) \in {"callback", "new_init"} =>
               Sender(u) # Sender(t)
<1>0. /\ ThreadType /\ ServiceExclusive /\ \A u \in Threads : RegOK(u)
  BY Exclusive DEF IInv, TypeOK
<1>1. ASSUME NEW u \in Threads, Caller(u) \in {"callback", "new_init"}
      PROVE  /\ Sender(u) \in Handles
             /\ \/ Sender(u) = n[u] /\ Caller(u) = "new_init"
                \/ Sender(u) = d[u] /\ Caller(u) = "callback"
  <2>1. CASE Caller(u) = "new_init"
    <3>1. n[u] = new[u] /\ new[u] # Nil
      BY <1>0, <2>1 DEF RegOK
    <3> QED
      BY <1>0, <2>1, <3>1 DEF ThreadType, Refs, Sender
  <2>2. CASE Caller(u) = "callback"
    <3>1. d[u] = q[u] /\ q[u] # Nil
      BY <1>0, <2>2 DEF RegOK
    <3> QED
      BY <1>0, <2>2, <3>1 DEF ThreadType, Refs, Sender
  <2> QED
    BY <1>1, <2>1, <2>2
<1>2. Nil \notin Handles
  BY ConstAssumption
<1>3. ASSUME NEW u \in Threads, u # t, Caller(u) \in {"callback", "new_init"}
      PROVE  Sender(u) # Sender(t)
  BY <1>0, <1>1, <1>2, <1>3 DEF ServiceExclusive
<1> QED
  BY <1>1, <1>3

\* Sessions of one source increase along every mailbox, and the message being sent has
\* the last of them.
LEMMA OrderNext ==
  ASSUME IInv, NEW t \in Threads, Step(t) \/ Command(t)
  PROVE  OrderOK'
<1>0. /\ ThreadType /\ MqType /\ CtxType /\ OrderOK
      /\ \A u \in Threads : RegOK(u)
  BY DEF IInv, TypeOK
<1>1. OrderEffect(t) /\ \A u \in Threads : u # t => Same(u)
  BY OrderEffects, LocalNext
<1>2. \A u \in Threads : u # t => Caller(u)' = Caller(u) /\ Sender(u)' = Sender(u)
  BY <1>1 DEF Same, Caller, Sender
<1>3. \A h \in Handles : /\ session_id[h] \in Int /\ session_id'[h] \in Int
                         /\ session_id[h] <= session_id'[h]
  <2>1. \A h \in Handles : session_id[h] \in Int
    BY <1>0, ConstAssumption DEF CtxType
  <2>2. \A h \in Handles : session_id'[h] \in {session_id[h], session_id[h] + 1}
    BY <1>1 DEF OrderEffect, Sending
  <2> QED
    BY <2>1, <2>2
<1>4. \A h \in Handles : Put(t, h) /\ Lua(pm[t]) =>
        /\ Caller(t) \in {"callback", "new_init"}
        /\ pm[t].source = Sender(t) /\ pm[t].session = session_id[Sender(t)]
        /\ \A i \in DOMAIN queue[h] : Older(queue[h][i], Sender(t), pm[t].session)
  BY <1>0 DEF OrderOK
<1>5. ASSUME NEW h \in Handles, NEW i \in DOMAIN queue'[h], Lua(queue'[h][i])
      PROVE  /\ queue'[h][i].source \in Handles
             /\ queue'[h][i].session <= session_id'[queue'[h][i].source]
  <2>1. CASE \E k \in DOMAIN queue[h] : queue'[h][i] = queue[h][k]
    <3>1. PICK k \in DOMAIN queue[h] : queue'[h][i] = queue[h][k]
      BY <2>1
    <3> DEFINE m == queue[h][k]
    <3>2. m \in Msg
      BY <1>0 DEF MqType
    <3>3. m.session \in Int
      BY <3>2, ConstAssumption DEF Msg
    <3>4. m.source \in Handles /\ m.session <= session_id[m.source]
      BY <1>0, <1>5, <3>1 DEF OrderOK
    <3> HIDE DEF m
    <3>5. m.session <= session_id'[m.source]
      BY <1>3, <3>3, <3>4
    <3> QED
      BY <3>1, <3>4, <3>5 DEF m
  <2>2. CASE Put(t, h) /\ queue'[h][i] = pm[t]
    <3>1. /\ Caller(t) \in {"callback", "new_init"}
          /\ pm[t].source = Sender(t) /\ pm[t].session = session_id[Sender(t)]
      BY <1>4, <1>5, <2>2
    <3>2. Sender(t) \in Handles
      BY <3>1, Senders
    <3> QED
      BY <1>3, <2>2, <3>1, <3>2
  <2> QED
    BY <2>1, <2>2, MessagesKept
<1>6. ASSUME NEW u \in Threads, Lua(pm'[u])
      PROVE  /\ pc'[u] \in {"push_grab", "push_mq"}
             /\ Caller(u)' \in {"callback", "new_init"}
             /\ pm'[u].source = Sender(u)' /\ pm'[u].session = session_id'[Sender(u)']
             /\ \A h \in Handles : \A i \in DOMAIN queue'[h] :
                   Older(queue'[h][i], Sender(u)', pm'[u].session)
  <2>1. CASE u # t
    <3>1. Same(u) /\ Lua(pm[u]) /\ Sender(u)' = Sender(u) /\ Caller(u)' = Caller(u)
      BY <1>1, <1>2, <1>6, <2>1 DEF Same
    <3>2. /\ pc[u] \in {"push_grab", "push_mq"} /\ Caller(u) \in {"callback", "new_init"}
          /\ pm[u].source = Sender(u) /\ pm[u].session = session_id[Sender(u)]
          /\ \A h \in Handles : \A i \in DOMAIN queue[h] :
                Older(queue[h][i], Sender(u), pm[u].session)
      BY <1>0, <3>1 DEF OrderOK
    <3>3. /\ Sender(u) \in Handles
          /\ Caller(t) \in {"callback", "new_init"} => Sender(t) # Sender(u)
      BY <2>1, <3>2, Senders
    <3>4. session_id'[Sender(u)] = session_id[Sender(u)]
      <4>1. ASSUME Sending(t, Sender(u)) PROVE FALSE
        BY <3>3, <4>1 DEF Sending, Caller, Routines
      <4> QED
        BY <1>1, <3>3, <4>1 DEF OrderEffect
    <3>5. ASSUME NEW h \in Handles, NEW i \in DOMAIN queue'[h]
          PROVE  Older(queue'[h][i], Sender(u), pm[u].session)
      <4>1. CASE \E k \in DOMAIN queue[h] : queue'[h][i] = queue[h][k]
        BY <3>2, <4>1
      <4>2. CASE Put(t, h) /\ queue'[h][i] = pm[t]
        BY <1>4, <3>3, <4>2 DEF Older
      <4> QED
        BY <4>1, <4>2, MessagesKept
    <3> QED
      BY <3>1, <3>2, <3>4, <3>5 DEF Same
  <2>2. CASE u = t /\ \E h \in Handles : Sending(t, h)
    <3>1. PICK h \in Handles : Sending(t, h)
      BY <2>2
    <3>2. /\ pc'[t] = "push_grab" /\ Caller(t)' \in {"callback", "new_init"}
          /\ Sender(t)' = h /\ queue' = queue /\ session_id'[h] = session_id[h] + 1
          /\ pm'[t].source = h /\ pm'[t].session = session_id'[h]
      BY <3>1 DEF Sending
    <3>3. ASSUME NEW k \in Handles, NEW i \in DOMAIN queue[k],
                 Lua(queue[k][i]), queue[k][i].source = h
          PROVE  queue[k][i].session < session_id'[h]
      <4>1. queue[k][i].session <= session_id[h]
        BY <1>0, <3>3 DEF OrderOK
      <4>2. queue[k][i] \in Msg
        BY <1>0 DEF MqType
      <4>3. queue[k][i].session \in Int
        BY <4>2, ConstAssumption DEF Msg
      <4> QED
        BY <1>3, <3>2, <4>1, <4>3
    <3> QED
      BY <2>2, <3>2, <3>3 DEF Older
  <2>3. CASE /\ u = t /\ Lua(pm[t]) /\ pm'[t] = pm[t] /\ Caller(t)' = Caller(t)
             /\ pc'[t] = "push_mq" /\ Sender(t)' = Sender(t) /\ queue' = queue
             /\ session_id' = session_id
    BY <1>0, <2>3 DEF OrderOK
  <2> QED
    BY <1>1, <1>6, <2>1, <2>2, <2>3 DEF OrderEffect
<1>7. SendOrder'
  <2> SUFFICES ASSUME NEW h \in Handles, NEW i \in DOMAIN queue'[h], NEW j \in DOMAIN queue'[h],
                      i < j, Lua(queue'[h][i]), Lua(queue'[h][j]),
                      queue'[h][i].source = queue'[h][j].source
               PROVE  queue'[h][i].session < queue'[h][j].session
    BY DEF SendOrder, Lua
  <2>1. CASE \E k, l \in DOMAIN queue[h] :
                k < l /\ queue'[h][i] = queue[h][k] /\ queue'[h][j] = queue[h][l]
    BY <1>0, <2>1 DEF OrderOK, SendOrder, Lua
  <2>2. CASE /\ Put(t, h) /\ queue'[h][j] = pm[t]
             /\ \E k \in DOMAIN queue[h] : queue'[h][i] = queue[h][k]
    BY <1>4, <2>2 DEF Older
  <2> QED
    BY <2>1, <2>2, MessagesKept
<1> QED
  BY <1>5, <1>6, <1>7 DEF OrderOK

\* One step of any thread keeps the inductive invariant.
LEMMA StepKeeps ==
  ASSUME IInv, NEW t \in Threads, Step(t) \/ Command(t)
  PROVE  IInv'
<1>1. TypeOK'
  BY RefTypeNext, CtxTypeNext, MqTypeNext, ThreadTypeNext DEF TypeOK
<1>2. \A u \in Threads : RegOK(u)'
  <2>1. \A u \in Threads : u # t => Same(u)
    BY LocalNext
  <2>2. ASSUME NEW u \in Threads, u # t PROVE RegOK(u)'
    <3>1. RegOK(u) /\ Same(u)
      BY <2>1, <2>2 DEF IInv
    <3> QED
      BY <3>1 DEF Same, RegOK, Caller
  <2>3. RegOK(t)'
    BY RegNext
  <2> QED
    BY <2>2, <2>3
<1>3. MailboxInOnePlace' /\ \A h \in Handles : MailOK(h)'
  BY MailboxNext
<1>4. FlagOK'
  <2>1. \A h \in Handles :
          /\ Owned(h)' => qmem'[h] = "alloc" /\ (in_global'[h] = 1 \/ release'[h] = 1)
          /\ qmem'[h] = "freed" => release'[h] = 1
    BY <1>3 DEF MailOK
  <2>2. \A u \in Threads : Caller(u)' = "drop" => release'[dq'[u]] = 1
    BY DropNext
  <2> QED
    BY <2>1, <2>2 DEF FlagOK
<1>5. NothingStranded'
  BY <1>3 DEF MailOK, NothingStranded
<1>6. NamesOK' /\ AliveOK' /\ NewOK' /\ RefCountExact'
  BY NamesNext, AliveNext, NewNext, RefCountNext
<1>7. InitOK' /\ OrderOK'
  BY InitNext, OrderNext
<1> QED
  BY <1>1, <1>2, <1>3, <1>4, <1>5, <1>6, <1>7 DEF IInv

\* After bootstrap, before the threads start, the invariant holds.
LEMMA InitIInv == Init => IInv
<1> SUFFICES ASSUME Init PROVE IInv
  OBVIOUS
<1>0. ConstAssumption /\ Boot \in Handles /\ Nil \notin Handles
  BY ConstAssumption
<1>1. \A t \in Threads : /\ q[t] = Nil /\ nq[t] = Nil /\ dq[t] = Nil /\ cq[t] = Nil
                         /\ d[t] = Nil /\ r[t] = Nil /\ n[t] = Nil /\ del[t] = Nil
                         /\ arg[t] = Nil /\ victim[t] = Nil /\ new[t] = Nil
                         /\ pm[t] = NoMsg /\ ret[t] = pc[t]
                         /\ pc[t] = IF t \in Workers THEN "idle" ELSE "ext"
  BY DEF Init
<1> DEFINE boot == [type |-> "lua", source |-> Boot, session |-> 0]
<1>2. TypeOK
  <2>1. boot \in Msg /\ NoMsg \in Msg
    BY MsgTypes, <1>0 DEF Refs
  <2>2. ref \in [Handles -> Nat] /\ CtxType
    BY <1>0 DEF Init, CtxType
  <2>3. ThreadType
    BY <2>1 DEF Init, ThreadType, Labels, Refs
  <2>4. MqType
    <3>1. <<boot>> \in Seq(Msg) /\ << >> \in Seq(Msg) /\ <<Boot>> \in Seq(Handles)
      BY <1>0, <2>1 <3> HIDE DEF boot
    <3>2. queue = [h \in Handles |-> IF h = Boot THEN <<boot>> ELSE << >>]
      BY DEF Init, boot
    <3> QED
      BY <3>1, <3>2 DEF Init, MqType
  <2> QED
    BY <2>2, <2>3, <2>4 DEF TypeOK
<1>3. \A t \in Threads : RegOK(t)
  BY <1>0, <1>1 DEF RegOK, Caller, Routines, Threads
<1>4. Named(Boot) /\ Named(Nil)
  BY <1>0 DEF Init, Named, Known
<1>5. NamesOK
  <2>1. \A h \in Handles : \A i \in DOMAIN queue[h] : queue[h][i].source = Boot
    <3>1. \A h \in Handles : queue[h] = IF h = Boot THEN <<boot>> ELSE << >>
      BY DEF Init
    <3> QED
      BY <3>1
  <2> QED
    BY <1>1, <1>4, <2>1 DEF NamesOK, NoMsg
<1>6. AliveOK /\ NewOK
  BY <1>0, <1>1 DEF Init, AliveOK, NewOK, Caller, Routines
<1>7. \A h : Occurs(Q, h) <=> h = Boot
  BY DEF Init, Occurs
<1>8. \A t \in Threads : HeldBy(t) = {}
  BY <1>1 DEF HeldBy
<1>9. \A h \in Handles : Owned(h) <=> h = Boot
  BY <1>7, <1>8 DEF Owned, InQ
<1>10. FlagOK /\ NothingStranded
  BY <1>0, <1>1, <1>9 DEF Init, FlagOK, NothingStranded, Caller, Routines
<1>11. MailboxInOnePlace
  <2>1. Distinct(Q)
    BY DEF Init, Distinct
  <2> QED
    BY <1>1, <1>8, <2>1 DEF MailboxInOnePlace
<1>12. RefCountExact
  <2> SUFFICES ASSUME NEW h \in Handles
               PROVE  ref[h] = (IF h \in slot THEN 1 ELSE 0) + Cardinality(HeldIn(d, h))
                         + Cardinality(HeldIn(r, h)) + Cardinality(HeldIn(n, h))
    BY DEF RefCountExact
  <2>1. /\ Cardinality(HeldIn(d, h)) = 0 /\ Cardinality(HeldIn(r, h)) = 0
        /\ Cardinality(HeldIn(n, h)) = 0
    BY <1>0, <1>1, HeldCount
  <2> QED
    BY <2>1 DEF Init
<1>13. InitOK
  BY <1>0, <1>1 DEF Init, InitOK, Caller, Routines
<1>14. OrderOK
  <2>1. \A h \in Handles : \A i \in DOMAIN queue[h] : i = 1 /\ queue[h][i] = boot
    <3>1. \A h \in Handles : queue[h] = IF h = Boot THEN <<boot>> ELSE << >>
      BY DEF Init
    <3> HIDE DEF boot
    <3> QED
      BY <3>1
  <2>2. boot.source \in Handles /\ boot.session <= session_id[boot.source]
    BY <1>0 DEF Init
  <2>3. SendOrder
    BY <2>1 DEF SendOrder
  <2> QED
    BY <1>1, <2>1, <2>2, <2>3 DEF OrderOK, Lua, NoMsg
<1> QED
  BY <1>2, <1>3, <1>5, <1>6, <1>10, <1>11, <1>12, <1>13, <1>14 DEF IInv

\* Nothing in the invariant depends on anything but the variables.
LEMMA StutterIInv == IInv /\ UNCHANGED vars => IInv'
<1> SUFFICES ASSUME IInv, UNCHANGED vars PROVE IInv'
  OBVIOUS
<1> USE DEF vars, ctxVars, mqVars, regVars
<1>1. TypeOK'
  BY DEF IInv, TypeOK, CtxType, MqType, ThreadType
<1>2. \A t \in Threads : RegOK(t)'
  BY DEF IInv, RegOK, Caller
<1>3. NamesOK' /\ AliveOK' /\ NewOK'
  BY DEF IInv, NamesOK, Named, Known, AliveOK, NewOK, Caller
<1>4. FlagOK' /\ MailboxInOnePlace' /\ NothingStranded'
  BY DEF IInv, FlagOK, MailboxInOnePlace, NothingStranded, Owned, InQ, HeldBy,
     Caller
<1>5. RefCountExact'
  BY DEF IInv, RefCountExact
<1>6. InitOK' /\ OrderOK'
  BY DEF IInv, InitOK, OrderOK, Known, Creator, Caller, Lua, Sender, Older, SendOrder
<1> QED
  BY <1>1, <1>2, <1>3, <1>4, <1>5, <1>6 DEF IInv

\* A marked mailbox receives no message and is not marked again.
LEMMA ShrinkNext ==
  ASSUME IInv, NEW t \in Threads, Step(t) \/ Command(t)
  PROVE  \A k \in Handles : release[k] = 1 =>
            Len(queue'[k]) <= Len(queue[k]) /\ \A u \in Threads : del'[u] # k
<1>0. /\ ThreadType /\ MqType /\ CtxType /\ RegOK(t)
      /\ Nil \in Refs /\ Handles \subseteq Refs
  BY DEF IInv, TypeOK, Refs
<1>0a. /\ Nil \notin Handles
       /\ \A u \in Threads : \A k \in Handles : release[k] = 1 => del[u] # k
       /\ \A k \in Handles : Len(queue[k]) \in Nat
  <2>1. /\ Nil \notin Handles /\ \A k \in Handles : Len(queue[k]) \in Nat
    BY <1>0, ConstAssumption, QueueTypes
  <2>2. ASSUME NEW u \in Threads, NEW k \in Handles, release[k] = 1 PROVE del[u] # k
    BY <2>1, <2>2 DEF IInv, AliveOK
  <2> QED
    BY <2>1, <2>2
<1> USE <1>0a
<1>1. CASE GlobalPop(t) \/ GrabFound(t) \/ GrabNull(t) \/ PopEmpty(t)
           \/ MqLength(t) \/ CallbackDone(t) \/ YieldKeep(t) \/ YieldNext(t)
           \/ PushBack(t) \/ PushGrab(t) \/ PushFail(t) \/ MqReleaseLater(t)
           \/ MqReleaseDrop(t) \/ DropDone(t) \/ Retire(t) \/ NewQueue(t)
           \/ InitOk(t) \/ InitFail(t) \/ NewOk(t) \/ NewPush(t) \/ NewRet(t)
           \/ NewFail(t)
  <2>1. UNCHANGED <<queue, del>>
    BY <1>1 DEF GlobalPop, GrabFound, GrabNull, PopEmpty, MqLength,
       CallbackDone, YieldKeep, YieldNext, PushBack, PushGrab, PushFail,
       MqReleaseLater, MqReleaseDrop, DropDone, Retire, NewQueue, InitOk,
       InitFail, NewOk, NewPush, NewRet, NewFail, mqVars, regVars, InitDone
  <2> QED
    BY <1>0a, <2>1
<1>2. ASSUME NEW h \in Handles,
             Send(t, h) \/ Kill(t, h) \/ NewRegister(t, h) \/ GrabUse(t, h)
             \/ ExtPush(t, h)
      PROVE  \A k \in Handles : release[k] = 1 =>
            Len(queue'[k]) <= Len(queue[k]) /\ \A u \in Threads : del'[u] # k
  <2>1. UNCHANGED <<queue, del>>
    BY <1>2 DEF Send, Kill, NewRegister, GrabUse, ExtPush, mqVars, regVars
  <2> QED
    BY <1>0a, <2>1
<1>3. CASE PopMessage(t)
  <2>1. /\ q[t] \in Handles /\ queue[q[t]] # << >> /\ UNCHANGED del
        /\ queue' = [queue EXCEPT ![q[t]] = Tail(queue[q[t]])]
    BY <1>0, <1>3, RegsInUse DEF PopMessage
  <2>2. Len(Tail(queue[q[t]])) <= Len(queue[q[t]])
    <3>1. queue[q[t]] \in Seq(Msg)
      BY <1>0, <2>1 DEF MqType
    <3>2. Len(Tail(queue[q[t]])) = Len(queue[q[t]]) - 1
      BY <2>1, <3>1, HeadTailProperties
    <3> QED
      BY <1>0a, <2>1, <3>2
  <2> QED
    BY <1>0, <1>0a, <2>1, <2>2 DEF MqType
<1>4. CASE PushMq(t)
  <2>1. /\ r[t] \in Handles /\ UNCHANGED del
        /\ queue' = [queue EXCEPT ![r[t]] = Append(queue[r[t]], pm[t])]
    BY <1>0, <1>4, RegsInUse DEF PushMq, MqPush
  <2>2. release[r[t]] = 0
    BY <2>1, RefPos DEF IInv, AliveOK
  <2> QED
    BY <1>0, <1>0a, <2>1, <2>2 DEF MqType
<1>5. CASE Release(t)
  <2>1. r[t] \in Handles /\ UNCHANGED queue
        /\ (UNCHANGED del \/ del' = [del EXCEPT ![t] = r[t]])
    BY <1>0, <1>5, RegsInUse DEF Release, Set, mqVars
  <2>2. release[r[t]] = 0
    BY <2>1, RefPos DEF IInv, AliveOK
  <2>3. \A u \in Threads : del'[u] = del[u] \/ del'[u] = r[t]
    BY <1>0, <2>1 DEF ThreadType
  <2> QED
    BY <1>0a, <2>1, <2>2, <2>3
<1>6. CASE Delete(t)
  BY <1>0, <1>0a, <1>6 DEF Delete, Set, ThreadType
<1>7. CASE DropMessage(t)
  <2>1. /\ dq[t] \in Handles /\ queue[dq[t]] # << >> /\ UNCHANGED del
        /\ queue' = [queue EXCEPT ![dq[t]] = Tail(queue[dq[t]])]
    BY <1>0, <1>7, RegsInUse DEF DropMessage
  <2>2. Len(Tail(queue[dq[t]])) <= Len(queue[dq[t]])
    <3>1. queue[dq[t]] \in Seq(Msg)
      BY <1>0, <2>1 DEF MqType
    <3>2. Len(Tail(queue[dq[t]])) = Len(queue[dq[t]]) - 1
      BY <2>1, <3>1, HeadTailProperties
    <3> QED
      BY <1>0a, <2>1, <3>2
  <2> QED
    BY <1>0, <1>0a, <2>1, <2>2 DEF MqType
<1> QED
  BY <1>1, <1>2, <1>3, <1>4, <1>5, <1>6, <1>7 DEF Step, Command

\* The inductive invariant holds in every reachable state.
THEOREM Invariance == Spec => []IInv
<1>1. IInv /\ [Next]_vars => IInv'
  BY StepKeeps, StutterIInv DEF Next
<1> QED
  BY <1>1, InitIInv, PTL DEF Spec

\* Every variable of the scheduling core keeps its type; in particular no
\* reference count becomes negative (ATOM_DEC in skynet_context_release).
THEOREM TypesKept == Spec => []TypeOK
<1>1. IInv => TypeOK
  BY DEF IInv
<1> QED
  BY <1>1, Invariance, PTL

\* in_global, release and the push / pop / mark_release / release protocol of
\* skynet_mq.c keep every mailbox in one place, for any number of threads and
\* services: never twice in the global queue, never there while a thread has
\* it, never in the hands of two threads.
THEOREM MailboxPlacement == Spec => []MailboxInOnePlace
<1>1. IInv => MailboxInOnePlace
  BY DEF IInv
<1> QED
  BY <1>1, Invariance, PTL

\* No mailbox is forgotten: one that is in no queue and in no hands is empty,
\* unmarked, and published again by the next skynet_mq_push.
THEOREM NoLostMailbox == Spec => []NothingStranded
<1>1. IInv => NothingStranded
  BY DEF IInv
<1> QED
  BY <1>1, Invariance, PTL

\* ctx->ref always counts the slot of the handle storage and the pointers the
\* threads hold, so skynet_context_release frees a context exactly when the
\* last of them is dropped.
THEOREM ReferenceCounting == Spec => []RefCountExact
<1>1. IInv => RefCountExact
  BY DEF IInv
<1> QED
  BY <1>1, Invariance, PTL

\* The callback of a service runs in one thread at a time, and not while its
\* init function runs: what CHECKCALLING_BEGIN asserts.
THEOREM ExclusiveCallback == Spec => []ServiceExclusive
<1>1. IInv => ServiceExclusive
  BY Exclusive
<1> QED
  BY <1>1, Invariance, PTL

\* No thread touches a context or a mailbox that was freed, in any
\* interleaving of dispatch, push, release, retire and _drop_queue, but for the creator
\* of a service that was retired before skynet_context_new is done with it.
THEOREM MemorySafety == Spec => []FreedUsedOnlyByCreator
<1>1. ASSUME IInv PROVE FreedUsedOnlyByCreator
  <2>1. /\ ThreadType /\ CtxType /\ AliveOK /\ NamesOK /\ FlagOK /\ Nil \notin Handles
        /\ \A t \in Threads : RegOK(t)
    BY <1>1, ConstAssumption DEF IInv, TypeOK
  <2>2. \A h \in slot : ctxmem[h] = "alloc"
    BY <1>1, <2>1, RefPos DEF CtxType
  <2>3. \A t \in Threads : \A h \in {d[t], r[t], n[t], del[t]} \ {Nil} : h \in Handles
    BY <2>1 DEF ThreadType, Refs
  <2>4. \A t \in Threads : \A h \in {d[t], r[t], n[t], del[t]} \ {Nil} :
           ctxmem[h] = "alloc"
    <3> SUFFICES ASSUME NEW t \in Threads,
                        NEW h \in {d[t], r[t], n[t], del[t]} \ {Nil}
                 PROVE  ctxmem[h] = "alloc"
      OBVIOUS
    <3>1. CASE h = del[t]
      BY <2>1, <3>1 DEF AliveOK
    <3>2. CASE h # del[t]
      BY <1>1, <2>3, <3>2, RefPos
    <3> QED
      BY <3>1, <3>2
  <2>5. \A h \in Handles : Owned(h) => qmem[h] = "alloc"
    BY <2>1 DEF FlagOK
  <2>6. ASSUME NEW t \in Threads, NEW h \in {r[t], del[t]} \ {Nil}
        PROVE  qmem[h] = "alloc"
    <3>1. h \in Handles /\ ctxmem[h] = "alloc"
      BY <2>3, <2>4, <2>6
    <3>2. release[h] = 0 /\ Named(h)
      BY <2>1, <2>6, <3>1 DEF AliveOK, NamesOK
    <3> QED
      BY <1>1, <3>1, <3>2, Unmarked
  <2>7. \A t \in Threads : /\ pc[t] = "push_mq" => qmem[r[t]] = "alloc"
                           /\ pc[t] = "delete" => qmem[del[t]] = "alloc"
    BY <2>1, <2>6 DEF RegOK
  <2>8. ASSUME NEW t \in Threads, NEW h \in Uses(t)
        PROVE  ctxmem[h] = "alloc" \/ (WithoutRef(t) /\ h = new[t] /\ h \notin slot)
    <3>1. CASE h \in {d[t], r[t], n[t], del[t]} \ {Nil}
      BY <2>4, <3>1
    <3>2. CASE WithoutRef(t) /\ h = new[t]
      BY <2>2, <3>2
    <3> QED
      BY <2>8, <3>1, <3>2 DEF Uses
  <2> QED
    BY <2>2, <2>5, <2>7, <2>8 DEF FreedUsedOnlyByCreator
<1> QED
  BY <1>1, Invariance, PTL

\* Once delete_context has marked a mailbox no message is added to it, so
\* _drop_queue answers every message the service did not handle, and
\* skynet_mq_mark_release is never called twice for it (its assert).
THEOREM MarkedMailbox == Spec => ReleasedMailboxShrinks
<1> DEFINE Shrinks == \A h \in Handles : release[h] = 1 =>
                 /\ Len(queue'[h]) <= Len(queue[h])
                 /\ \A t \in Threads : del'[t] # h
<1>1. ASSUME IInv, [Next]_vars PROVE [Shrinks]_vars
  <2>1. CASE UNCHANGED vars
    BY <2>1
  <2>2. CASE Next
    <3>1. Shrinks
      BY <1>1, <2>2, ShrinkNext DEF Next
    <3> QED
      BY <3>1
  <2> QED
    BY <1>1, <2>1, <2>2
<1> QED
  BY <1>1, Invariance, PTL DEF Spec, ReleasedMailboxShrinks

\* assert(ctx->init) of dispatch_message never fails: no worker finds the mailbox of a
\* service before skynet_context_new has set init, even though the handle is registered
\* earlier and others may already push messages to it.
THEOREM InitialisedFirst == Spec => []InitBeforeDispatch
<1>1. ASSUME IInv PROVE InitBeforeDispatch
  <2> SUFFICES ASSUME NEW t \in Threads, pc[t] = "callback" PROVE init[d[t]]
    BY DEF InitBeforeDispatch
  <2>1. ThreadType /\ RegOK(t) /\ InitOK /\ Nil \notin Handles
    BY <1>1, ConstAssumption DEF IInv, TypeOK
  <2>2. d[t] # Nil
    BY <2>1, RegsInUse
  <2> QED
    BY <2>1, <2>2 DEF InitOK
<1> QED
  BY <1>1, Invariance, PTL

\* Messages of one service to another are received in the order in which they were sent,
\* whatever the threads do between skynet_context_newsession and skynet_mq_push: no other
\* thread allocates a session for a service while it is sending.
THEOREM SessionOrder == Spec => []SendOrder
<1>1. IInv => SendOrder
  BY DEF IInv, OrderOK
<1> QED
  BY <1>1, Invariance, PTL

=============================================================================
