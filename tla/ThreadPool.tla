----------------------------- MODULE ThreadPool -----------------------------
(***************************************************************************)
(* The threads of a node (skynet_start.c): workers that sleep on a        *)
(* condition variable when the global queue is empty, the timer and       *)
(* socket threads that wake them, and the shutdown of all of them once    *)
(* the last service is gone.                                              *)
(*                                                                         *)
(* Of the services only numbers are kept: how many there are              *)
(* (skynet_context_total), how many of their mailboxes wait in the global *)
(* queue, and how many mailboxes of deleted services wait there to be     *)
(* released.  A service being dispatched cannot be deleted by another     *)
(* thread (module SkynetServer).                                          *)
(***************************************************************************)
EXTENDS Integers, FiniteSets

CONSTANTS
  Workers,     \* worker threads; m->count of them
  Stuck,       \* workers whose callbacks need not return (an endless loop)
  InitTotal,   \* services after bootstrap
  MaxEvents    \* bound: messages and launches

VARIABLES
  total,          \* G_NODE.total
  ready,          \* mailboxes of live services in the global queue
  drops,          \* mailboxes of deleted services in the global queue
  events,         \* messages and launches so far
  sleep, quit,    \* m->sleep, m->quit
  mutex,          \* m->mutex is held
  pc,             \* the worker threads
  timer, socket,  \* the timer and socket threads
  closing         \* skynet_socket_exit was called

poolVars == <<sleep, quit, mutex>>
loadVars == <<total, ready, drops, events>>
vars == <<loadVars, poolVars, pc, timer, socket, closing>>

count == Cardinality(Workers)
Busy  == {w \in Workers : pc[w] = "busy"}
Set(w, l) == pc' = [pc EXCEPT ![w] = l]

\* Somebody sends to a service: its mailbox becomes ready, unless it is ready
\* already or its service is being dispatched.
CanPush == events < MaxEvents /\ ready + Cardinality(Busy) < total
Push == CanPush /\ events' = events + 1 /\ ready' = ready + 1

\* pthread_cond_signal wakes one of the waiting threads, if any.
Waiting == {w \in Workers : pc[w] = "wait"}
Signal  == IF Waiting = {} THEN UNCHANGED pc ELSE \E w \in Waiting : Set(w, "woken")

\* wakeup(m, busy) reads m->sleep and signals without the mutex.
BadWakeup(busy) == IF sleep >= count + 1 - busy THEN Signal ELSE UNCHANGED pc
Wakeup(busy)    == IF sleep >= count - busy THEN Signal ELSE UNCHANGED pc

-----------------------------------------------------------------------------
(* thread_worker.                                                          *)

\* while (!m->quit).
LoopTest(w) ==
  /\ pc[w] = "loop"
  /\ Set(w, IF quit THEN "done" ELSE "dispatch")
  /\ UNCHANGED <<loadVars, poolVars, timer, socket, closing>>

\* skynet_context_message_dispatch takes the mailbox of a live service,
DispatchLive(w) ==
  /\ pc[w] = "dispatch" /\ ready > 0
  /\ ready' = ready - 1
  /\ Set(w, "busy")
  /\ UNCHANGED <<total, drops, events, poolVars, timer, socket, closing>>

\* or one that it releases,
DispatchDrop(w) ==
  /\ pc[w] = "dispatch" /\ drops > 0
  /\ drops' = drops - 1
  /\ Set(w, "loop")
  /\ UNCHANGED <<total, ready, events, poolVars, timer, socket, closing>>

\* or finds nothing and returns NULL.
DispatchNone(w) ==
  /\ pc[w] = "dispatch" /\ ready = 0 /\ drops = 0
  /\ Set(w, "lock")
  /\ UNCHANGED <<loadVars, poolVars, timer, socket, closing>>

\* A callback sends to another service or launches one.
CallbackSend(w) ==
  /\ pc[w] = "busy"
  /\ Push
  /\ UNCHANGED <<total, drops, poolVars, pc, timer, socket, closing>>

CallbackLaunch(w) ==
  /\ pc[w] = "busy" /\ events < MaxEvents
  /\ events' = events + 1
  /\ total' = total + 1 /\ ready' = ready + 1
  /\ UNCHANGED <<drops, poolVars, pc, timer, socket, closing>>

\* A callback kills a service that waits in the queue, or an idle one, whose
\* mailbox skynet_mq_mark_release puts there.
CallbackKill(w) ==
  /\ pc[w] = "busy"
  /\ \/ ready > 0 /\ ready' = ready - 1
     \/ ready + Cardinality(Busy) < total /\ UNCHANGED ready
  /\ total' = total - 1 /\ drops' = drops + 1
  /\ UNCHANGED <<events, poolVars, pc, timer, socket, closing>>

\* The callback returns: the mailbox is empty, has got a message meanwhile and
\* is ready again, or the service has exited.
CallbackDone(w) ==
  /\ pc[w] = "busy"
  /\ \/ UNCHANGED loadVars
     \/ /\ events < MaxEvents /\ events' = events + 1
        /\ ready' = ready + 1 /\ UNCHANGED <<total, drops>>
     \/ total' = total - 1 /\ drops' = drops + 1 /\ UNCHANGED <<ready, events>>
  /\ Set(w, "loop")
  /\ UNCHANGED <<poolVars, timer, socket, closing>>

\* pthread_mutex_lock; ++ m->sleep.
SleepBegin(w) ==
  /\ pc[w] = "lock" /\ ~mutex
  /\ mutex' = TRUE /\ sleep' = sleep + 1
  /\ Set(w, "check")
  /\ UNCHANGED <<loadVars, quit, timer, socket, closing>>

\* if (!m->quit) pthread_cond_wait: gives up the mutex.
BadCondWait(w) ==
  /\ pc[w] = "check"
  /\ mutex' = FALSE /\ Set(w, "wait") /\ UNCHANGED sleep
  /\ UNCHANGED <<loadVars, quit, timer, socket, closing>>
CondWait(w) ==
  /\ pc[w] = "check"
  /\ IF quit
     THEN mutex' = FALSE /\ sleep' = sleep - 1 /\ Set(w, "loop")
     ELSE mutex' = FALSE /\ Set(w, "wait") /\ UNCHANGED sleep
  /\ UNCHANGED <<loadVars, quit, timer, socket, closing>>

\* "spurious wakeup" is harmless.
Spurious(w) ==
  /\ pc[w] = "wait"
  /\ Set(w, "woken")
  /\ UNCHANGED <<loadVars, poolVars, timer, socket, closing>>

\* pthread_cond_wait returns with the mutex; -- m->sleep; unlock.
SleepEnd(w) ==
  /\ pc[w] = "woken" /\ ~mutex
  /\ sleep' = sleep - 1
  /\ Set(w, "loop")
  /\ UNCHANGED <<loadVars, quit, mutex, timer, socket, closing>>

-----------------------------------------------------------------------------
(* thread_timer.                                                           *)

\* skynet_updatetime may push the message of an expired timeout.
TimerUpdate ==
  /\ timer = "update"
  /\ timer' = "check"
  /\ \/ UNCHANGED <<ready, events>>
     \/ Push
  /\ UNCHANGED <<total, drops, poolVars, pc, socket, closing>>

\* CHECK_ABORT.
BadTimerCheck ==
  /\ timer = "check"
  /\ timer' = IF total <= 1 THEN "exit" ELSE "wakeup"
  /\ UNCHANGED <<loadVars, poolVars, pc, socket, closing>>
TimerCheck ==
  /\ timer = "check"
  /\ timer' = IF total = 0 THEN "exit" ELSE "wakeup"
  /\ UNCHANGED <<loadVars, poolVars, pc, socket, closing>>

\* wakeup(m, m->count - 1), then usleep(2500).
TimerWakeup ==
  /\ timer = "wakeup"
  /\ timer' = "update"
  /\ Wakeup(count - 1)
  /\ UNCHANGED <<loadVars, poolVars, socket, closing>>

\* skynet_socket_exit().
TimerExit ==
  /\ timer = "exit"
  /\ timer' = "quit" /\ closing' = TRUE
  /\ UNCHANGED <<loadVars, poolVars, pc, socket>>

\* m->quit = 1 and pthread_cond_broadcast, with the mutex.
TimerQuit ==
  /\ timer = "quit" /\ ~mutex
  /\ timer' = "done" /\ quit' = TRUE
  /\ pc' = [w \in Workers |-> IF pc[w] = "wait" THEN "woken" ELSE pc[w]]
  /\ UNCHANGED <<loadVars, sleep, mutex, socket, closing>>

-----------------------------------------------------------------------------
(* thread_socket.                                                          *)

\* skynet_socket_poll has forwarded the last event of this round: returns 1.
SocketPoll ==
  /\ socket = "poll" /\ ~closing
  /\ Push
  /\ socket' = "wakeup"
  /\ UNCHANGED <<total, drops, poolVars, pc, timer, closing>>

\* More events follow: returns -1, CHECK_ABORT and no wakeup.
SocketMore ==
  /\ socket = "poll" /\ ~closing
  /\ Push
  /\ socket' = "more"
  /\ UNCHANGED <<total, drops, poolVars, pc, timer, closing>>

SocketCheck ==
  /\ socket = "more"
  /\ socket' = IF total = 0 THEN "done" ELSE "poll"
  /\ UNCHANGED <<loadVars, poolVars, pc, timer, closing>>

SocketWakeup ==
  /\ socket = "wakeup"
  /\ socket' = "poll"
  /\ Wakeup(0)
  /\ UNCHANGED <<loadVars, poolVars, timer, closing>>

\* SOCKET_EXIT: returns 0.
SocketExit ==
  /\ socket = "poll" /\ closing
  /\ socket' = "done"
  /\ UNCHANGED <<loadVars, poolVars, pc, timer, closing>>

-----------------------------------------------------------------------------
Init ==
  /\ total = InitTotal /\ ready = InitTotal /\ drops = 0 /\ events = 0
  /\ sleep = 0 /\ quit = FALSE /\ mutex = FALSE
  /\ pc = [w \in Workers |-> "loop"]
  /\ timer = "update" /\ socket = "poll" /\ closing = FALSE

\* The thread's own steps; the callback's choices come on top.
Worker(w) ==
  \/ LoopTest(w) \/ DispatchLive(w) \/ DispatchDrop(w) \/ DispatchNone(w)
  \/ SleepBegin(w) \/ CondWait(w) \/ SleepEnd(w)
Callback(w) == CallbackSend(w) \/ CallbackLaunch(w) \/ CallbackKill(w)
Timer  == TimerUpdate \/ TimerCheck \/ TimerWakeup \/ TimerExit \/ TimerQuit
Socket == SocketCheck \/ SocketWakeup \/ SocketExit
Poll   == SocketPoll \/ SocketMore

Next == \/ \E w \in Workers : Worker(w) \/ Callback(w) \/ CallbackDone(w) \/ Spurious(w)
        \/ Timer \/ Socket \/ Poll

Spec == Init /\ [][Next]_vars

\* Every thread is scheduled; a thread that competes for the mutex again and
\* again gets it; callbacks return, except those of the stuck workers.  Socket
\* events and spurious wakeups need not happen.
Fairness ==
  /\ \A w \in Workers : /\ WF_vars(Worker(w))
                        /\ SF_vars(SleepBegin(w)) /\ SF_vars(SleepEnd(w))
  /\ \A w \in Workers \ Stuck : WF_vars(CallbackDone(w))
  /\ WF_vars(Timer) /\ SF_vars(TimerQuit) /\ WF_vars(Socket)
FairSpec == Spec /\ Fairness

-----------------------------------------------------------------------------
(* Properties.                                                             *)

\* What is assumed of the constants.
PoolConstants == IsFiniteSet(Workers) /\ InitTotal \in Nat /\ MaxEvents \in Nat

TypeOK ==
  /\ total \in Nat /\ ready \in Nat /\ drops \in Nat /\ events \in 0..MaxEvents
  /\ sleep \in 0..count /\ quit \in BOOLEAN /\ mutex \in BOOLEAN
  /\ pc \in [Workers -> {"loop", "dispatch", "busy", "lock", "check", "wait",
                         "woken", "done"}]
  /\ timer \in {"update", "check", "wakeup", "exit", "quit", "done"}
  /\ socket \in {"poll", "more", "wakeup", "done"} /\ closing \in BOOLEAN

\* The node never shuts down over a live service: m->quit, and the end of any
\* thread, come only after the last context was deleted, and none is created
\* after that (CHECK_ABORT reads the total without a lock).
QuitOnlyWhenEmpty ==
  quit \/ closing \/ socket = "done" \/ (\E w \in Workers : pc[w] = "done")
    => total = 0 /\ Busy = {}

PoolRight == TypeOK /\ QuitOnlyWhenEmpty

-----------------------------------------------------------------------------
(* The inductive invariant behind QuitOnlyWhenEmpty.                       *)

\* Between ++ m->sleep and -- m->sleep.
Asleep == {w \in Workers : pc[w] \in {"check", "wait", "woken"}}

\* m->sleep counts the sleepers, and every mailbox in the global queue and every busy
\* worker has a service of its own.
CountsRight == /\ sleep = Cardinality(Asleep)
               /\ ready + Cardinality(Busy) <= total

\* The way from the last service to m->quit; only the timer thread goes it.
QuitInSteps ==
  /\ timer \in {"exit", "quit", "done"} \/ socket = "done" => total = 0
  /\ closing => timer \in {"quit", "done"}
  /\ quit => timer = "done"
  /\ \A w \in Workers : pc[w] = "done" => quit

IInv == TypeOK /\ CountsRight /\ QuitInSteps

-----------------------------------------------------------------------------
\* A ready mailbox is picked up although the socket thread signals only when
\* every worker seems to sleep, workers signal nobody, a signal can fall
\* between ++m->sleep and the wait, and one worker never comes back.
ReadyIsServed == []<>(ready = 0)

\* When the last service has gone, for good, every thread ends.
AllDone  == (\A w \in Workers : pc[w] = "done") /\ timer = "done" /\ socket = "done"
Shutdown == []<>(total > 0 \/ AllDone)
=============================================================================
