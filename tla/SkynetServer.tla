---------------------------- MODULE SkynetServer ----------------------------
(***************************************************************************)
(* The scheduling core of a skynet node: service contexts with their      *)
(* reference counts (skynet_server.c), the mailbox of each service and    *)
(* the global queue of mailboxes (skynet_mq.c), and the grab / retire     *)
(* side of the handle storage (skynet_handle.c), as executed by the       *)
(* worker threads and by the timer and socket threads.                    *)
(*                                                                         *)
(* Granularity: one step per critical section (SPIN_LOCK of a mailbox or  *)
(* of the global queue, rwlock of the handle storage) or atomic           *)
(* reference-count operation.  skynet_globalmq_push is called with the    *)
(* mailbox lock held wherever the code does so, and belongs to that step. *)
(*                                                                         *)
(* A handle names one context and its mailbox for the whole behaviour:    *)
(* reuse of handles is the subject of module HandleStorage.  Logging      *)
(* (skynet_error) and the content of messages are left out.               *)
(***************************************************************************)
EXTENDS Integers, Sequences, FiniteSets

CONSTANTS
  Handles,      \* handles of the services that may ever exist
  Workers,      \* worker threads (thread_worker)
  Others,       \* timer, socket and monitor threads
  Boot,         \* the service started before the threads (bootstrap)
  Monitor,      \* G_NODE.monitor_exit, or Nil
  Weight,       \* [Workers -> Int]: the weight of start()
  MaxSession,   \* bound: sessions a service may allocate
  MaxOps,       \* bound: kills, exits, grabs and messages of Others
  Nil

Threads == Workers \cup Others

ASSUME ConstAssumption ==
  /\ IsFiniteSet(Workers) /\ IsFiniteSet(Others)
  /\ Workers \cap Others = {}
  /\ Boot \in Handles /\ Nil \notin Handles
  /\ Monitor \in Handles \cup {Nil}
  /\ Weight \in [Workers -> Int]
  /\ MaxSession \in Nat /\ MaxOps \in Nat

VARIABLES
  slot,         \* handles whose context is in H->slot
  ref,          \* ctx->ref
  ctxmem,       \* the context: "none", "alloc" or "freed"
  init,         \* ctx->init
  session_id,   \* ctx->session_id
  qmem,         \* the mailbox: "none", "alloc" or "freed"
  queue,        \* the messages of the mailbox, oldest first
  in_global,    \* mq->in_global
  release,      \* mq->release
  Q,            \* the global queue, as the handles of its mailboxes
  ops,          \* commands issued so far (bounded by MaxOps)
  \* the local state of each thread:
  pc, ret,      \* control point, and where the called routine returns to
  q, nq,        \* skynet_context_message_dispatch: q and nq
  dq,           \* the mailbox handed to skynet_mq_release
  cq,           \* the mailbox skynet_context_new has not published yet
  left,         \* messages still to dispatch in this turn, -1 before the first
  d, r, n,      \* references held: by dispatch, by a routine, by context_new
  del,          \* the context delete_context is running on
  arg, pm,      \* destination and message of skynet_context_push
  victim,       \* the handle handle_exit is about to retire
  new, got      \* skynet_context_new: the handle; did release return it

ctxVars == <<slot, ref, ctxmem, init, session_id>>
mqVars  == <<qmem, queue, in_global, release>>
regVars == <<q, nq, dq, cq, left, d, r, n, del, arg, pm, victim, new, got>>
vars    == <<ctxVars, mqVars, Q, ops, pc, ret, regVars>>

Refs == Handles \cup {Nil}

\* A message keeps its type, its source and its session.
Msg == [type : {"lua", "error", "client", "socket"}, source : Refs,
        session : 0..MaxSession]
NoMsg == [type |-> "socket", source |-> Nil, session |-> 0]

Labels == {"idle", "grab", "pop", "length", "callback", "yield", "pushback",
           "push_grab", "push_mq", "release", "delete", "retire",
           "new_queue", "new_init", "new_ok", "new_push", "new_ret",
           "new_fail", "mq_release", "drop", "ext"}

\* Handles somebody may know: from skynet_module_instance_init on, the
\* service has its own handle and can pass it on.
Known == {h \in Handles : qmem[h] # "none"}

Goto(t, l)    == pc' = [pc EXCEPT ![t] = l]
Return(t, l)  == ret' = [ret EXCEPT ![t] = l]
Set(f, t, v)  == [f EXCEPT ![t] = v]

\* skynet_context_release(h), returning to l; the caller's reference moves
\* to register r.
CallRelease(t, h, l) == /\ Goto(t, "release")
                        /\ Return(t, l)
                        /\ r' = Set(r, t, h)

\* skynet_context_push(dst, m), returning to l.
CallPush(t, dst, m, l) == /\ Goto(t, "push_grab")
                          /\ Return(t, l)
                          /\ arg' = Set(arg, t, dst)
                          /\ pm' = Set(pm, t, m)

-----------------------------------------------------------------------------
(* What the routines of skynet_mq.c and skynet_server.c do to the shared   *)
(* state inside one critical section.  An operator named Bad... is a       *)
(* plausible error in the one that follows it.                             *)

\* skynet_context_grab, called with the handle storage locked.
BadContextGrab(h) == UNCHANGED ref
ContextGrab(h)    == ref' = [ref EXCEPT ![h] = @ + 1]

\* ATOM_DEC(&ctx->ref) == 0 of skynet_context_release.
BadLastRef(h) == ref[h] \in {1, 2}
LastRef(h)    == ref[h] = 1

\* The test of skynet_handle_retire: the slot still holds this handle.
BadSlotHolds(h) == h \in Handles
SlotHolds(h)    == h \in slot

\* skynet_mq_create: in_global is set although the mailbox is in no queue, so
\* that nobody publishes it before skynet_context_new does.
BadMqCreate(h) == /\ qmem' = [qmem EXCEPT ![h] = "alloc"]
                  /\ in_global' = [in_global EXCEPT ![h] = 0]
MqCreate(h)    == /\ qmem' = [qmem EXCEPT ![h] = "alloc"]
                  /\ in_global' = [in_global EXCEPT ![h] = 1]

\* skynet_mq_push, with the skynet_globalmq_push inside its lock.
BadMqPush(h, m) == /\ queue' = [queue EXCEPT ![h] = Append(@, m)]
                   /\ in_global' = [in_global EXCEPT ![h] = 1]
                   /\ Q' = Append(Q, h)
MqPush(h, m)    == /\ queue' = [queue EXCEPT ![h] = Append(@, m)]
                   /\ in_global' = [in_global EXCEPT ![h] = 1]
                   /\ Q' = IF in_global[h] = 0 THEN Append(Q, h) ELSE Q

\* skynet_mq_pop on an empty mailbox clears in_global under the lock.
BadMqPopEmpty(h) == UNCHANGED in_global
MqPopEmpty(h)    == in_global' = [in_global EXCEPT ![h] = 0]

\* skynet_mq_mark_release, which pushes without setting in_global.
BadMarkRelease(h) == /\ release' = [release EXCEPT ![h] = 1]
                     /\ UNCHANGED Q
MarkRelease(h)    == /\ release' = [release EXCEPT ![h] = 1]
                     /\ Q' = IF in_global[h] # 1 THEN Append(Q, h) ELSE Q

\* The test of skynet_mq_release.
BadMarked(h) == release[h] \in {0, 1}
Marked(h)    == release[h] = 1

\* skynet_context_newsession, below the wrap.
BadNewSession(h) == IF session_id[h] = 0 THEN 1 ELSE session_id[h]
NewSession(h)    == session_id[h] + 1

-----------------------------------------------------------------------------
(* skynet_context_message_dispatch, first half: find a mailbox and its     *)
(* context.                                                                *)

\* skynet_globalmq_pop when the thread has no mailbox.
GlobalPop(t) ==
  /\ pc[t] = "idle" /\ Q # << >>
  /\ q' = Set(q, t, Head(Q))
  /\ Q' = Tail(Q)
  /\ Goto(t, "grab")
  /\ UNCHANGED <<ctxVars, mqVars, ops, ret, nq, dq, cq, left, d, r, n, del,
                 arg, pm, victim, new, got>>

\* skynet_handle_grab(handle): found, the turn starts with message i = 0.
GrabFound(t) ==
  /\ pc[t] = "grab" /\ q[t] \in slot
  /\ ContextGrab(q[t])
  /\ d' = Set(d, t, q[t])
  /\ left' = Set(left, t, -1)
  /\ Goto(t, "pop")
  /\ UNCHANGED <<slot, ctxmem, init, session_id, mqVars, Q, ops, ret, q, nq,
                 dq, cq, r, n, del, arg, pm, victim, new, got>>

\* skynet_handle_grab(handle) == NULL: the mailbox goes to skynet_mq_release.
GrabNull(t) ==
  /\ pc[t] = "grab" /\ q[t] \notin slot
  /\ dq' = Set(dq, t, q[t])
  /\ q' = Set(q, t, Nil)
  /\ Goto(t, "mq_release")
  /\ UNCHANGED <<ctxVars, mqVars, Q, ops, ret, nq, cq, left, d, r, n, del,
                 arg, pm, victim, new, got>>

-----------------------------------------------------------------------------
(* The loop of skynet_context_message_dispatch.                            *)

\* skynet_mq_pop finds a message; on the first one the turn's length is
\* computed next if the worker's weight is not negative.
PopMessage(t) ==
  /\ pc[t] = "pop" /\ queue[q[t]] # << >>
  /\ queue' = [queue EXCEPT ![q[t]] = Tail(@)]
  /\ IF left[t] = -1 /\ Weight[t] >= 0
     THEN Goto(t, "length") /\ UNCHANGED left
     ELSE /\ Goto(t, "callback")
          /\ left' = Set(left, t, IF left[t] = -1 THEN 0 ELSE left[t])
  /\ UNCHANGED <<ctxVars, qmem, in_global, release, Q, ops, ret, q, nq, dq, cq,
                 d, r, n, del, arg, pm, victim, new, got>>

\* skynet_mq_pop finds the mailbox empty; the worker forgets the mailbox and
\* releases the context.
PopEmpty(t) ==
  /\ pc[t] = "pop" /\ queue[q[t]] = << >>
  /\ MqPopEmpty(q[t])
  /\ q' = Set(q, t, Nil)
  /\ d' = Set(d, t, Nil)
  /\ CallRelease(t, d[t], "idle")
  /\ UNCHANGED <<ctxVars, qmem, queue, release, Q, ops, nq, dq, cq, left, n,
                 del, arg, pm, victim, new, got>>

\* len >> weight.
Shr(len, weight) == Cardinality({k \in 1..len : k * 2 ^ weight <= len})

\* n = skynet_mq_length(q) >> weight, under a lock of its own.
MqLength(t) ==
  /\ pc[t] = "length"
  /\ LET len == Shr(Len(queue[q[t]]), Weight[t])
     IN  left' = Set(left, t, IF len > 1 THEN len - 1 ELSE 0)
  /\ Goto(t, "callback")
  /\ UNCHANGED <<ctxVars, mqVars, Q, ops, ret, q, nq, dq, cq, d, r, n, del,
                 arg, pm, victim, new, got>>

\* The callback returns: the next message of the turn, or the end of the turn.
CallbackDone(t) ==
  /\ pc[t] = "callback"
  /\ IF left[t] > 0
     THEN Goto(t, "pop") /\ left' = Set(left, t, left[t] - 1)
     ELSE Goto(t, "yield") /\ UNCHANGED left
  /\ UNCHANGED <<ctxVars, mqVars, Q, ops, ret, q, nq, dq, cq, d, r, n, del,
                 arg, pm, victim, new, got>>

\* nq = skynet_globalmq_pop(): nothing else to do, keep the mailbox.
YieldKeep(t) ==
  /\ pc[t] = "yield" /\ Q = << >>
  /\ d' = Set(d, t, Nil)
  /\ CallRelease(t, d[t], "grab")
  /\ UNCHANGED <<ctxVars, mqVars, Q, ops, q, nq, dq, cq, left, n, del, arg, pm,
                 victim, new, got>>

\* nq = skynet_globalmq_pop(): another mailbox is waiting.
YieldNext(t) ==
  /\ pc[t] = "yield" /\ Q # << >>
  /\ nq' = Set(nq, t, Head(Q))
  /\ Q' = Tail(Q)
  /\ Goto(t, "pushback")
  /\ UNCHANGED <<ctxVars, mqVars, ops, ret, q, dq, cq, left, d, r, n, del, arg,
                 pm, victim, new, got>>

\* skynet_globalmq_push(q); q = nq.
PushBack(t) ==
  /\ pc[t] = "pushback"
  /\ Q' = Append(Q, q[t])
  /\ q' = Set(q, t, nq[t])
  /\ nq' = Set(nq, t, Nil)
  /\ d' = Set(d, t, Nil)
  /\ CallRelease(t, d[t], "grab")
  /\ UNCHANGED <<ctxVars, mqVars, ops, dq, cq, left, n, del, arg, pm, victim,
                 new, got>>

-----------------------------------------------------------------------------
(* skynet_context_push.                                                    *)

PushGrab(t) ==
  /\ pc[t] = "push_grab" /\ arg[t] \in slot
  /\ ContextGrab(arg[t])
  /\ r' = Set(r, t, arg[t])
  /\ Goto(t, "push_mq")
  /\ UNCHANGED <<slot, ctxmem, init, session_id, mqVars, Q, ops, ret, q, nq, dq,
                 cq, left, d, n, del, arg, pm, victim, new, got>>

\* No such service: the caller frees the message and gets -1.
PushFail(t) ==
  /\ pc[t] = "push_grab" /\ arg[t] \notin slot
  /\ Goto(t, ret[t])
  /\ arg' = Set(arg, t, Nil)
  /\ pm' = Set(pm, t, NoMsg)
  /\ UNCHANGED <<ctxVars, mqVars, Q, ops, ret, q, nq, dq, cq, left, d, r, n, del,
                 victim, new, got>>

\* skynet_mq_push on the mailbox of the grabbed context.
PushMq(t) ==
  /\ pc[t] = "push_mq"
  /\ MqPush(r[t], pm[t])
  /\ arg' = Set(arg, t, Nil)
  /\ pm' = Set(pm, t, NoMsg)
  /\ Goto(t, "release")
  /\ UNCHANGED <<ctxVars, qmem, release, ops, ret, q, nq, dq, cq, left, d, r, n,
                 del, victim, new, got>>

-----------------------------------------------------------------------------
(* skynet_context_release and delete_context.                              *)

\* ATOM_DEC(&ctx->ref); the last reference runs delete_context.
Release(t) ==
  /\ pc[t] = "release"
  /\ ref' = [ref EXCEPT ![r[t]] = @ - 1]
  /\ r' = Set(r, t, Nil)
  /\ IF LastRef(r[t])
     THEN Goto(t, "delete") /\ del' = Set(del, t, r[t])
     ELSE Goto(t, ret[t]) /\ UNCHANGED del
  /\ got' = Set(got, t, ret[t] = "new_ok" /\ ~LastRef(r[t]))
  /\ UNCHANGED <<slot, ctxmem, init, session_id, mqVars, Q, ops, ret, q, nq, dq,
                 cq, left, d, n, arg, pm, victim, new>>

\* delete_context.
Delete(t) ==
  /\ pc[t] = "delete"
  /\ MarkRelease(del[t])
  /\ ctxmem' = [ctxmem EXCEPT ![del[t]] = "freed"]
  /\ del' = Set(del, t, Nil)
  /\ Goto(t, ret[t])
  /\ UNCHANGED <<slot, ref, init, session_id, qmem, queue, in_global, ops, ret,
                 q, nq, dq, cq, left, d, r, n, arg, pm, victim, new, got>>

-----------------------------------------------------------------------------
(* skynet_mq_release and _drop_queue.                                      *)

\* The thread goes on with the callback that called skynet_context_new, or
\* for a new mailbox when it came from dispatch.
AfterMqRelease(t) == IF q[t] = Nil THEN "idle" ELSE "callback"

\* Not marked yet: somebody still holds the context; back to the global queue.
MqReleaseLater(t) ==
  /\ pc[t] = "mq_release" /\ ~Marked(dq[t])
  /\ Q' = Append(Q, dq[t])
  /\ dq' = Set(dq, t, Nil)
  /\ Goto(t, AfterMqRelease(t))
  /\ UNCHANGED <<ctxVars, mqVars, ops, ret, q, nq, cq, left, d, r, n, del, arg,
                 pm, victim, new, got>>

MqReleaseDrop(t) ==
  /\ pc[t] = "mq_release" /\ Marked(dq[t])
  /\ Goto(t, "drop")
  /\ UNCHANGED <<ctxVars, mqVars, Q, ops, ret, regVars>>

\* drop_message: an error to the source of the message, unless it has none.
DropMessage(t) ==
  /\ pc[t] = "drop" /\ queue[dq[t]] # << >>
  /\ queue' = [queue EXCEPT ![dq[t]] = Tail(@)]
  /\ LET m == Head(queue[dq[t]])
     IN  IF m.source # Nil
         THEN CallPush(t, m.source,
                [type |-> "error", source |-> dq[t], session |-> 0], "drop")
         ELSE UNCHANGED <<pc, ret, arg, pm>>
  /\ UNCHANGED <<ctxVars, qmem, in_global, release, Q, ops, q, nq, dq, cq, left,
                 d, r, n, del, victim, new, got>>

\* The last skynet_mq_pop clears in_global; _release frees the mailbox.
DropDone(t) ==
  /\ pc[t] = "drop" /\ queue[dq[t]] = << >>
  /\ MqPopEmpty(dq[t])
  /\ qmem' = [qmem EXCEPT ![dq[t]] = "freed"]
  /\ dq' = Set(dq, t, Nil)
  /\ Goto(t, AfterMqRelease(t))
  /\ UNCHANGED <<ctxVars, queue, release, Q, ops, ret, q, nq, cq, left, d, r, n,
                 del, arg, pm, victim, new, got>>

-----------------------------------------------------------------------------
(* What a callback may ask of the core: skynet_send, KILL and EXIT.        *)

\* The service whose code thread t runs: the one being initialised by
\* skynet_context_new, else the one whose message is dispatched.
Running(t) == IF pc[t] = "new_init" THEN new[t] ELSE d[t]

\* skynet_send to a local service, with a fresh session (_filter_args,
\* skynet_context_newsession), from a callback or from an init function.
Send(t, dst) ==
  LET h == Running(t)
      s == NewSession(h)
  IN  /\ pc[t] \in {"callback", "new_init"}
      /\ session_id[h] < MaxSession
      /\ dst \in Known
      /\ session_id' = [session_id EXCEPT ![h] = s]
      /\ CallPush(t, dst, [type |-> "lua", source |-> h, session |-> s], pc[t])
      /\ UNCHANGED <<slot, ref, ctxmem, init, mqVars, Q, ops, q, nq, dq, cq,
                     left, d, r, n, del, victim, new, got>>

\* handle_exit: cmd_exit on itself, cmd_kill on any handle.  The monitor
\* service, once there is one (cmd_monitor), is told first.
Kill(t, h) ==
  /\ pc[t] = "callback" /\ ops < MaxOps
  /\ h \in Known
  /\ ops' = ops + 1
  /\ victim' = Set(victim, t, h)
  /\ IF Monitor \in Known
     THEN CallPush(t, Monitor,
            [type |-> "client", source |-> h, session |-> 0], "retire")
     ELSE Goto(t, "retire") /\ UNCHANGED <<ret, arg, pm>>
  /\ UNCHANGED <<ctxVars, mqVars, Q, q, nq, dq, cq, left, d, r, n, del, new, got>>

\* skynet_handle_retire: the slot's reference passes to this thread.
Retire(t) ==
  /\ pc[t] = "retire"
  /\ IF SlotHolds(victim[t])
     THEN /\ slot' = slot \ {victim[t]}
          /\ CallRelease(t, victim[t], "callback")
     ELSE Goto(t, "callback") /\ UNCHANGED <<slot, ret, r>>
  /\ victim' = Set(victim, t, Nil)
  /\ UNCHANGED <<ref, ctxmem, init, session_id, mqVars, Q, ops, q, nq, dq, cq,
                 left, d, n, del, arg, pm, new, got>>

\* skynet_handle_grab(h), a use of the context, skynet_context_release: what
\* LOGON, LOGOFF and SIGNAL do from a callback and skynet_context_endless from
\* the monitor thread.  Without a context they return at once.
GrabUse(t, h) ==
  /\ pc[t] \in {"callback", "ext"} /\ ops < MaxOps
  /\ h \in slot \cap Known
  /\ ops' = ops + 1
  /\ ContextGrab(h)
  /\ CallRelease(t, h, pc[t])
  /\ UNCHANGED <<slot, ctxmem, init, session_id, mqVars, Q, q, nq, dq, cq, left,
                 d, n, del, arg, pm, victim, new, got>>

-----------------------------------------------------------------------------
(* skynet_context_new, called by cmd_launch.                               *)

\* Allocation and skynet_handle_register: one reference for the slot, one for
\* this function.
NewRegister(t, h) ==
  /\ pc[t] = "callback" /\ ctxmem[h] = "none"
  /\ ctxmem' = [ctxmem EXCEPT ![h] = "alloc"]
  /\ ref' = [ref EXCEPT ![h] = 2]
  /\ slot' = slot \cup {h}
  /\ new' = Set(new, t, h)
  /\ n' = Set(n, t, h)
  /\ Goto(t, "new_queue")
  /\ UNCHANGED <<init, session_id, mqVars, Q, ops, ret, q, nq, dq, cq, left, d,
                 r, del, arg, pm, victim, got>>

NewQueue(t) ==
  /\ pc[t] = "new_queue"
  /\ MqCreate(new[t])
  /\ cq' = Set(cq, t, new[t])
  /\ Goto(t, "new_init")
  /\ UNCHANGED <<ctxVars, queue, release, Q, ops, ret, q, nq, dq, left, d, r, n,
                 del, arg, pm, victim, new, got>>

\* skynet_module_instance_init returns 0 or an error; either way the
\* function's own reference is released.
InitDone(t, next) ==
  /\ pc[t] = "new_init"
  /\ n' = Set(n, t, Nil)
  /\ CallRelease(t, n[t], next)
  /\ UNCHANGED <<ctxVars, mqVars, Q, ops, q, nq, dq, cq, left, d, del, arg, pm,
                 victim, new, got>>

InitOk(t)   == InitDone(t, "new_ok")
InitFail(t) == InitDone(t, "new_fail")

\* ctx->init = true, if the release did not delete the context.  The creator has no
\* reference left: if the context was retired meanwhile this writes to freed memory
\* (FreedUsedOnlyByCreator), which the model notes and does not follow further.
BadNewOk(t) ==
  /\ pc[t] = "new_ok"
  /\ Goto(t, "new_push")
  /\ UNCHANGED <<ctxVars, mqVars, Q, ops, ret, regVars>>
NewOk(t) ==
  /\ pc[t] = "new_ok"
  /\ init' = IF got[t] THEN [init EXCEPT ![new[t]] = TRUE] ELSE init
  /\ Goto(t, "new_push")
  /\ UNCHANGED <<slot, ref, ctxmem, session_id, mqVars, Q, ops, ret, regVars>>

\* skynet_globalmq_push(queue): from now on workers see the mailbox.
NewPush(t) ==
  /\ pc[t] = "new_push"
  /\ Q' = Append(Q, cq[t])
  /\ cq' = Set(cq, t, Nil)
  /\ Goto(t, "new_ret")
  /\ UNCHANGED <<ctxVars, mqVars, ops, ret, q, nq, dq, left, d, r, n, del, arg,
                 pm, victim, new, got>>

\* The LAUNCH log line and cmd_launch read ret->handle, without a reference; back to
\* the callback.
NewRet(t) ==
  /\ pc[t] = "new_ret"
  /\ new' = Set(new, t, Nil)
  /\ got' = Set(got, t, FALSE)
  /\ Goto(t, "callback")
  /\ UNCHANGED <<ctxVars, mqVars, Q, ops, ret, q, nq, dq, cq, left, d, r, n, del,
                 arg, pm, victim>>

\* The init function failed: retire the handle, then skynet_mq_release.
NewFail(t) ==
  /\ pc[t] = "new_fail"
  /\ IF SlotHolds(new[t])
     THEN /\ slot' = slot \ {new[t]}
          /\ CallRelease(t, new[t], "mq_release")
     ELSE Goto(t, "mq_release") /\ UNCHANGED <<slot, ret, r>>
  /\ dq' = Set(dq, t, cq[t])
  /\ cq' = Set(cq, t, Nil)
  /\ new' = Set(new, t, Nil)
  /\ UNCHANGED <<ref, ctxmem, init, session_id, mqVars, Q, ops, q, nq, left, d, n,
                 del, arg, pm, victim, got>>

-----------------------------------------------------------------------------
(* The timer thread (dispatch_list) and the socket thread                  *)
(* (forward_message) push messages without a source.                       *)

ExtPush(t, dst) ==
  /\ pc[t] = "ext" /\ ops < MaxOps
  /\ dst \in Known
  /\ ops' = ops + 1
  /\ CallPush(t, dst, NoMsg, "ext")
  /\ UNCHANGED <<ctxVars, mqVars, Q, q, nq, dq, cq, left, d, r, n, del, victim,
                 new, got>>

-----------------------------------------------------------------------------
\* After bootstrap: one service, whose init function has posted the message
\* that starts it (snlua_init), and no thread running yet.
Init ==
  /\ slot = {Boot}
  /\ ref = [h \in Handles |-> IF h = Boot THEN 1 ELSE 0]
  /\ ctxmem = [h \in Handles |-> IF h = Boot THEN "alloc" ELSE "none"]
  /\ init = [h \in Handles |-> h = Boot]
  /\ session_id = [h \in Handles |-> 0]
  /\ qmem = [h \in Handles |-> IF h = Boot THEN "alloc" ELSE "none"]
  /\ queue = [h \in Handles |->
                IF h = Boot
                THEN <<[type |-> "lua", source |-> Boot, session |-> 0]>>
                ELSE << >>]
  /\ in_global = [h \in Handles |-> IF h = Boot THEN 1 ELSE 0]
  /\ release = [h \in Handles |-> 0]
  /\ Q = <<Boot>>
  /\ ops = 0
  /\ pc = [t \in Threads |-> IF t \in Workers THEN "idle" ELSE "ext"]
  /\ ret = pc
  /\ left = [t \in Threads |-> 0]
  /\ q = [t \in Threads |-> Nil]
  /\ nq = q /\ dq = q /\ cq = q
  /\ d = q /\ r = q /\ n = q /\ del = q
  /\ arg = q /\ victim = q /\ new = q
  /\ pm = [t \in Threads |-> NoMsg]
  /\ got = [t \in Threads |-> FALSE]

\* The steps a thread takes on its own.
Step(t) ==
  \/ GlobalPop(t) \/ GrabFound(t) \/ GrabNull(t)
  \/ PopMessage(t) \/ PopEmpty(t) \/ MqLength(t) \/ CallbackDone(t)
  \/ YieldKeep(t) \/ YieldNext(t) \/ PushBack(t)
  \/ PushGrab(t) \/ PushFail(t) \/ PushMq(t)
  \/ Release(t) \/ Delete(t)
  \/ MqReleaseLater(t) \/ MqReleaseDrop(t) \/ DropMessage(t) \/ DropDone(t)
  \/ Retire(t)
  \/ NewQueue(t) \/ InitOk(t) \/ InitFail(t)
  \/ NewOk(t) \/ NewPush(t) \/ NewRet(t) \/ NewFail(t)

\* What the code of a service, or the outside world, decides to do.
Command(t) ==
  \/ \E h \in Handles : Send(t, h) \/ Kill(t, h) \/ NewRegister(t, h)
  \/ \E h \in Handles : GrabUse(t, h) \/ ExtPush(t, h)

Next == \E t \in Threads : Step(t) \/ Command(t)

Spec == Init /\ [][Next]_vars

\* Every thread keeps running and every callback and init function returns.
FairSpec == Spec /\ \A t \in Threads : WF_vars(Step(t))

-----------------------------------------------------------------------------
(* Properties.                                                             *)

CtxType ==
  /\ slot \subseteq Handles
  /\ ctxmem \in [Handles -> {"none", "alloc", "freed"}]
  /\ init \in [Handles -> BOOLEAN]
  /\ session_id \in [Handles -> 0..MaxSession]
  /\ ops \in 0..MaxOps
MqType ==
  /\ qmem \in [Handles -> {"none", "alloc", "freed"}]
  /\ queue \in [Handles -> Seq(Msg)]
  /\ in_global \in [Handles -> {0, 1}]
  /\ release \in [Handles -> {0, 1}]
  /\ Q \in Seq(Handles)
ThreadType ==
  /\ pc \in [Threads -> Labels] /\ ret \in [Threads -> Labels]
  /\ left \in [Threads -> Int]
  /\ q \in [Threads -> Refs] /\ nq \in [Threads -> Refs]
  /\ dq \in [Threads -> Refs] /\ cq \in [Threads -> Refs]
  /\ d \in [Threads -> Refs] /\ r \in [Threads -> Refs]
  /\ n \in [Threads -> Refs] /\ del \in [Threads -> Refs]
  /\ arg \in [Threads -> Refs] /\ victim \in [Threads -> Refs]
  /\ new \in [Threads -> Refs] /\ got \in [Threads -> BOOLEAN]
  /\ pm \in [Threads -> Msg]
TypeOK == ref \in [Handles -> Nat] /\ CtxType /\ MqType /\ ThreadType

\* The mailboxes thread t keeps out of the global queue.
HeldBy(t) == {q[t], nq[t], dq[t], cq[t]} \ {Nil}

\* A mailbox is in the global queue or in the hands of some thread.
Occurs(s, x) == \E i \in DOMAIN s : s[i] = x
Distinct(s)  == \A i, j \in DOMAIN s : s[i] = s[j] => i = j
InQ(h)   == Occurs(Q, h)
Owned(h) == InQ(h) \/ \E t \in Threads : h \in HeldBy(t)

\* A mailbox is never twice in the global queue, never there while a thread
\* works on it, and never in the hands of two threads: in_global and the
\* protocol of push, pop, mark_release and release (skynet_mq.c) keep it in
\* one place.  The assert on queue->next only detects part of this.
MailboxInOnePlace ==
  /\ Distinct(Q)
  /\ \A t \in Threads : \A h \in HeldBy(t) : ~InQ(h)
  /\ \A t, u \in Threads : t # u => HeldBy(t) \cap HeldBy(u) = {}
  /\ \A t \in Threads : /\ q[t] # Nil => q[t] \notin {nq[t], dq[t], cq[t]}
                        /\ nq[t] # Nil => nq[t] \notin {dq[t], cq[t]}
                        /\ dq[t] # Nil => dq[t] # cq[t]

\* No mailbox is forgotten: one that nobody will look at again is empty, is
\* not waiting to be released, and the next push will put it in the global
\* queue (in_global = 0).
NothingStranded ==
  \A h \in Handles :
     qmem[h] = "alloc" /\ ~Owned(h) =>
        queue[h] = << >> /\ release[h] = 0 /\ in_global[h] = 0

\* The messages of a service are never handled by two threads at once, and
\* not while its init function runs (CHECKCALLING_BEGIN in dispatch_message
\* and skynet_context_new).
ServiceExclusive ==
  \A t, u \in Threads : t # u =>
     /\ d[t] # Nil => d[t] # d[u]
     /\ d[t] # Nil => d[t] # n[u]
     /\ n[t] # Nil => n[t] # n[u]

\* Threads whose local variable f refers to the context of h.
HeldIn(f, h) == {t \in Threads : f[t] = h}

\* ctx->ref counts exactly the slot and the pointers that threads hold.
RefCountExact ==
  \A h \in Handles :
     ref[h] = (IF h \in slot THEN 1 ELSE 0) + Cardinality(HeldIn(d, h))
                + Cardinality(HeldIn(r, h)) + Cardinality(HeldIn(n, h))

\* A creator that has given back its own reference and still uses the context:
\* skynet_context_new writes ctx->init and logs LAUNCH, cmd_launch reads the handle.
WithoutRef(t) == pc[t] \in {"new_ok", "new_ret"} /\ got[t]

\* The contexts a thread uses.
Uses(t) == ({d[t], r[t], n[t], del[t]} \ {Nil})
             \cup IF WithoutRef(t) THEN {new[t]} ELSE {}

\* A freed context or mailbox is used by nobody, neither by dispatch, push, retire and
\* release of contexts, nor by the global queue and the threads that hold
\* mailboxes, with one exception: skynet_context_new (skynet_server.c:153-161) uses
\* the context without a reference, and another thread may have retired it.
FreedUsedOnlyByCreator ==
  /\ \A h \in slot : ctxmem[h] = "alloc"
  /\ \A t \in Threads : \A h \in Uses(t) :
        \/ ctxmem[h] = "alloc"
        \/ WithoutRef(t) /\ h = new[t] /\ h \notin slot
  /\ \A h \in Handles : Owned(h) => qmem[h] = "alloc"
  /\ \A t \in Threads : pc[t] = "push_mq" => qmem[r[t]] = "alloc"
  /\ \A t \in Threads : pc[t] = "delete" => qmem[del[t]] = "alloc"

\* assert(ctx->init) of dispatch_message: no message is dispatched before
\* skynet_context_new has finished the initialisation.
InitBeforeDispatch ==
  \A t \in Threads : pc[t] = "callback" => init[d[t]]

\* Two messages of one service to the same service are received in the order
\* they were sent: sessions of one source increase along a mailbox.
SendOrder ==
  \A h \in Handles : \A i, j \in DOMAIN queue[h] :
     /\ i < j
     /\ queue[h][i].type = "lua" /\ queue[h][j].type = "lua"
     /\ queue[h][i].source = queue[h][j].source
     => queue[h][i].session < queue[h][j].session

\* Once its context is deleted (skynet_mq_mark_release) a mailbox only
\* shrinks, and it is never marked twice (assert in skynet_mq_mark_release).
ReleasedMailboxShrinks ==
  [][\A h \in Handles : release[h] = 1 =>
        /\ Len(queue'[h]) <= Len(queue[h])
        /\ \A t \in Threads : del'[t] # h]_vars

\* Every mailbox with messages is drained: no wakeup of a service is lost.
Delivered == \A h \in Handles : (queue[h] # << >>) ~> (queue[h] = << >>)

\* A retired service is reclaimed, context and mailbox, whoever still held it
\* when it was retired.
Reclaimed ==
  \A h \in Handles : (ctxmem[h] = "alloc" /\ h \notin slot)
                       ~> (ctxmem[h] = "freed" /\ qmem[h] = "freed")

-----------------------------------------------------------------------------
(* The inductive invariant behind the safety properties.                   *)

\* Routines that may be called from several places, and the control point
\* they are called from.
Routines == {"push_grab", "push_mq", "release", "delete"}
Caller(t) == IF pc[t] \in Routines THEN ret[t] ELSE pc[t]

\* Which local variables of a thread are in use at each control point.
RegOK(t) ==
  /\ Caller(t) \notin Routines
  /\ t \in Others <=> Caller(t) = "ext"
  /\ r[t] # Nil <=> pc[t] \in {"push_mq", "release"}
  /\ del[t] # Nil <=> pc[t] = "delete"
  /\ arg[t] # Nil <=> pc[t] \in {"push_grab", "push_mq"}
  /\ pc[t] = "push_mq" => r[t] = arg[t]
  /\ q[t] = Nil => Caller(t) \in {"idle", "ext", "mq_release", "drop"}
  /\ Caller(t) \in {"idle", "ext"} => q[t] = Nil
  /\ d[t] = IF Caller(t) = "grab" THEN Nil ELSE q[t]
  /\ nq[t] # Nil <=> Caller(t) = "pushback"
  /\ dq[t] # Nil <=> Caller(t) \in {"mq_release", "drop"}
  /\ victim[t] # Nil <=> Caller(t) = "retire"
  /\ new[t] # Nil <=> Caller(t) \in {"new_queue", "new_init", "new_ok",
                                     "new_push", "new_ret", "new_fail"}
  /\ n[t] = IF Caller(t) \in {"new_queue", "new_init"} THEN new[t] ELSE Nil
  /\ cq[t] = IF Caller(t) \in {"new_init", "new_ok", "new_push", "new_fail"}
             THEN new[t] ELSE Nil

\* Whoever is named by a message, or known to a thread, has a mailbox.
Named(h) == h = Nil \/ h \in Known
NamesOK ==
  /\ \A h \in Handles : \A i \in DOMAIN queue[h] : Named(queue[h][i].source)
  /\ \A t \in Threads : /\ Named(pm[t].source) /\ Named(arg[t])
                        /\ Named(victim[t]) /\ Named(r[t]) /\ Named(del[t])

\* A context that somebody refers to is alive and its mailbox not marked; the
\* one being deleted has no reference left.
AliveOK ==
  /\ \A h \in Handles : ref[h] > 0 => ctxmem[h] = "alloc"
  /\ \A h \in Handles : ctxmem[h] # "freed" => release[h] = 0
  /\ \A t \in Threads : del[t] # Nil =>
        /\ ctxmem[del[t]] = "alloc" /\ ref[del[t]] = 0
        /\ \A u \in Threads : del[u] = del[t] => u = t

\* A context just registered has no mailbox yet, and one creator.
NewOK ==
  /\ \A h \in Handles : ctxmem[h] = "none" => qmem[h] = "none"
  /\ \A t \in Threads : Caller(t) = "new_queue" => qmem[new[t]] = "none"
  /\ \A t, u \in Threads : n[t] # Nil /\ n[t] = n[u] => t = u

\* A mailbox that is queued or held exists, and says so or is marked; one that
\* is being dropped or was freed was marked.
FlagOK ==
  /\ \A h \in Handles :
       /\ Owned(h) => qmem[h] = "alloc" /\ (in_global[h] = 1 \/ release[h] = 1)
       /\ qmem[h] = "freed" => release[h] = 1
  /\ \A t \in Threads : Caller(t) = "drop" => release[dq[t]] = 1

\* A service that is in the handle storage and has a mailbox is initialised, or
\* skynet_context_new still keeps its mailbox; a service that is dispatched is initialised;
\* and what skynet_context_new goes on with (got) is still there.
Creator(t, h) == new[t] = h /\ Caller(t) \in {"new_init", "new_ok", "new_fail"}
InitOK ==
  /\ \A h \in slot : h \in Known => init[h] \/ \E t \in Threads : Creator(t, h)
  /\ \A t \in Threads : d[t] # Nil => init[d[t]]
  /\ \A t \in Threads : Caller(t) = "new_ok" =>
        /\ pc[t] \notin {"push_grab", "push_mq"}
        /\ IF pc[t] = "release" THEN r[t] = new[t] ELSE got[t] \/ new[t] \notin slot

\* The messages that services sent have sessions their sources have allocated; the one a
\* thread is sending has the last session of the service it runs, and no mailbox has it yet.
Lua(m)    == m.type = "lua"
Sender(t) == IF Caller(t) = "new_init" THEN n[t] ELSE d[t]
Older(m, source, session) == Lua(m) /\ m.source = source => m.session < session
OrderOK ==
  /\ \A h \in Handles : \A i \in DOMAIN queue[h] : Lua(queue[h][i]) =>
        /\ queue[h][i].source \in Handles
        /\ queue[h][i].session <= session_id[queue[h][i].source]
  /\ \A t \in Threads : Lua(pm[t]) =>
        /\ pc[t] \in {"push_grab", "push_mq"} /\ Caller(t) \in {"callback", "new_init"}
        /\ pm[t].source = Sender(t) /\ pm[t].session = session_id[Sender(t)]
        /\ \A h \in Handles : \A i \in DOMAIN queue[h] :
              Older(queue[h][i], Sender(t), pm[t].session)
  /\ SendOrder

IInv ==
  /\ TypeOK /\ \A t \in Threads : RegOK(t)
  /\ NamesOK /\ AliveOK /\ NewOK /\ FlagOK
  /\ MailboxInOnePlace /\ NothingStranded /\ RefCountExact
  /\ InitOK /\ OrderOK

=============================================================================
