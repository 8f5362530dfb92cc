---------------------------- MODULE LuaScheduler ----------------------------
(***************************************************************************)
(* One Lua service (lualib/skynet.lua): its coroutines, the tables that    *)
(* say which of them waits for what, and the order in which answers,       *)
(* errors and wakeups resume them; and one lock of skynet/queue.lua.       *)
(*                                                                         *)
(* Everything runs on the thread that dispatches the service's messages.   *)
(* A step is what happens from one choice of a coroutine to the next.      *)
(* What coroutines do is left open; peers answer, fail and exit as they    *)
(* like.  A request is the number of its message; its source and whether   *)
(* it has a session (that is, is a call) are drawn when it is sent.        *)
(***************************************************************************)
EXTENDS Integers, Sequences, FiniteSets, SequencesExt

CONSTANTS
  Peers,       \* other services
  MaxCo,       \* bound: coroutines
  MaxSession,  \* bound: sessions of this service
  MaxReq,      \* bound: requests of the peers
  MaxDepth,    \* bound: nested sections of one coroutine
  OpSets,      \* bound: the sets of operations tried together, subsets of AllOps
  Raises       \* bound: uncaught errors

AllOps == {"call", "sleep", "wait", "timeout", "wakeup", "ret", "response", "fork", "queue", "exit"}
Cos      == 1..MaxCo
Sessions == 1..MaxSession
None     == 0
Break    == -1   \* "BREAK"

\* What the code assumes of the constants.
LuaConstants ==
  /\ "timer" \notin Peers /\ "none" \notin Peers /\ OpSets \subseteq SUBSET AllOps
  /\ MaxCo \in Nat \ {0} /\ MaxSession \in Nat /\ MaxReq \in Nat /\ MaxDepth \in Nat
  /\ Raises \in Nat

VARIABLES
  mbox,       \* messages of this service
  session_id_coroutine, sleep_session, wakeup_session,
  watching_session, watching_service, dead_service, error_queue, fork_queue,
  request,    \* session_coroutine_id and _address: the request a coroutine handles
  responded,  \* session_response
  unresponse, \* requests whose response function was not called yet
  co, waits,  \* a coroutine's state, and the session it waits for
  mode, cur,  \* where the dispatcher is, and the coroutine that runs
  current_thread, ref, thread_queue,  \* the lock of skynet.queue
  sid, nreq,  \* sessions and requests so far
  source, called,  \* of a request: its source, and whether it has a session
  asked,      \* session -> who will answer it, "timer" or a peer
  alive,      \* peers
  depth,      \* history: nested sections a coroutine is in
  replies, errors,  \* history: answers of each kind to a request
  raised,     \* uncaught errors so far
  stale,      \* history: one of them left something to do behind
  early,      \* history: a wakeup that was left behind resumed a coroutine before its
              \* turn to have the lock
  ops,        \* what the coroutines of this service do
  forgotten   \* history: requests whose coroutine ended without an answer

schedVars == <<session_id_coroutine, sleep_session, wakeup_session>>
watchVars == <<watching_session, watching_service, dead_service>>
reqVars   == <<request, responded, unresponse>>
coVars    == <<co, waits>>
queueVars == <<current_thread, ref, thread_queue, depth, early>>
envVars   == <<nreq, source, called, alive, ops>>
ansVars   == <<replies, errors, forgotten>>
vars == <<mbox, schedVars, watchVars, error_queue, fork_queue, reqVars, coVars, mode, cur,
          queueVars, envVars, ansVars, sid, asked, raised, stale>>

\* A message; of a response and of a request the sender does not matter here.
Msg(type, n, from) == [type |-> type, n |-> n, from |-> from]

Init ==
  /\ mbox = <<>> /\ session_id_coroutine = [s \in Sessions |-> None]
  /\ sleep_session = [c \in Cos |-> None] /\ wakeup_session = {}
  /\ watching_session = [s \in Sessions |-> "none"] /\ watching_service = [p \in Peers |-> 0]
  /\ dead_service = {} /\ error_queue = <<>> /\ fork_queue = {}
  /\ request = [c \in Cos |-> None] /\ responded = {} /\ unresponse = {}
  /\ co = [c \in Cos |-> "pool"] /\ waits = [c \in Cos |-> None]
  /\ mode = "idle" /\ cur = 1
  /\ current_thread = None /\ ref = 0 /\ thread_queue = <<>> /\ depth = [c \in Cos |-> 0]
  /\ early = FALSE /\ sid = 0 /\ nreq = 0 /\ source = <<>> /\ called = <<>>
  /\ asked = [s \in {} |-> "timer"] /\ alive = Peers
  /\ replies = [r \in 1..MaxReq |-> 0] /\ errors = [r \in 1..MaxReq |-> 0]
  /\ raised = 0 /\ stale = FALSE /\ forgotten = {} /\ ops \in OpSets

-----------------------------------------------------------------------------
(* The dispatcher.  Every part of it sets schedVars, watchVars, error_queue,
   coVars, mode, cur, and the lock.                                        *)

\* release_watching
Release(p) == watching_service' = [watching_service EXCEPT ![p] = IF @ > 0 THEN @ - 1 ELSE 0]

\* coroutine_resume of a coroutine that waits, with what skynet.sleep, wait,
\* yield_call and skynet.queue do before its code goes on.  `sic' is
\* session_id_coroutine so far.  An operator named Bad... is a plausible error in
\* the one after it.
Runs(c, m) == /\ co' = [co EXCEPT ![c] = "run"] /\ waits' = [waits EXCEPT ![c] = None]
              /\ mode' = m /\ cur' = c
TakesLock(c) ==
  /\ IF co[c] = "queue" THEN /\ early' = (early \/ ref # 0 \/ current_thread # c)
                             /\ UNCHANGED thread_queue
                        ELSE UNCHANGED <<early, thread_queue>>
  /\ IF co[c] = "queue" /\ ref = 0
     THEN current_thread' = c /\ ref' = 1 /\ depth' = [depth EXCEPT ![c] = 1]
     ELSE UNCHANGED <<current_thread, ref, depth>>
BadCleared(c, sic) == sic
Cleared(c, sic)    == IF co[c] \in {"wait", "queue"} THEN [sic EXCEPT ![waits[c]] = None] ELSE sic
Resume(c, sic) ==
  /\ Runs(c, IF co[c] = "queue" /\ ref # 0 THEN "assert" ELSE "run")
  /\ session_id_coroutine' = Cleared(c, sic)
  /\ sleep_session' = [sleep_session EXCEPT ![c] = None]
  /\ watching_session' = IF co[c] = "call" THEN [watching_session EXCEPT ![waits[c]] = "none"]
                                           ELSE watching_session
  /\ TakesLock(c)

NoResume == UNCHANGED <<schedVars, watching_session, coVars, cur, queueVars>>
Take(m)  == mode = "idle" /\ mbox # <<>> /\ Head(mbox) = m /\ mbox' = Tail(mbox)

\* raw_dispatch_message, prototype 1.  The two other cases end in the loop of
\* dispatch_message, the second with an error.
DispatchResponse(s) ==
  /\ Take(Msg("RESPONSE", s, "none"))
  /\ LET c == session_id_coroutine[s]
     IN  IF c \in Cos
         THEN /\ Resume(c, [session_id_coroutine EXCEPT ![s] = None])
              /\ UNCHANGED wakeup_session
         ELSE /\ session_id_coroutine' = [session_id_coroutine EXCEPT ![s] = None]
              /\ mode' = "fork"
              /\ UNCHANGED <<sleep_session, wakeup_session, watching_session, coVars, cur, queueVars>>
  /\ UNCHANGED <<watching_service, dead_service, error_queue, fork_queue, reqVars, envVars, ansVars,
                 sid, asked, raised, stale>>

\* co_create: a coroutine of the pool or a new one.
Free(c) == co[c] = "pool" /\ \A d \in Cos : co[d] = "pool" => c <= d

DispatchRequest(r) ==
  /\ Take(Msg("REQUEST", r, "none"))
  /\ \E c \in Cos :
       /\ Free(c) /\ Runs(c, "run")
       /\ request' = [request EXCEPT ![c] = r]
  /\ watching_service' = [watching_service EXCEPT ![source[r]] = @ + 1]
  /\ UNCHANGED <<schedVars, watching_session, dead_service, error_queue, fork_queue, responded,
                 unresponse, queueVars, envVars, ansVars, sid, asked, raised, stale>>

\* The services known to be gone after an error for session s of p.
Dead(p, s)    == IF s = 0 THEN dead_service \cup {p} ELSE dead_service

\* suspend goes on to dispatch_wakeup and dispatch_error_queue.
Suspended    == "wake"

\* _error_dispatch, in a coroutine that ends at once.  watching_service counts that
\* coroutine, so a service that reports its own end is always taken for watched.
DispatchError(p, s) ==
  /\ Take(Msg("ERROR", s, p))
  /\ IF s = 0
     THEN \E l \in SetToSeqs({x \in Sessions : watching_session[x] = p}) :
            error_queue' = error_queue \o l
     ELSE error_queue' = IF watching_session[s] # "none" THEN Append(error_queue, s)
                                                         ELSE error_queue
  /\ dead_service' = Dead(p, s)
  /\ mode' = Suspended
  /\ NoResume
  /\ UNCHANGED <<watching_service, fork_queue, reqVars, envVars, ansVars, sid, asked, raised, stale>>

\* dispatch_wakeup, at the end of suspend.
DispatchWakeup ==
  /\ mode = "wake"
  /\ \/ wakeup_session = {} /\ mode' = "error" /\ NoResume
     \/ \E c \in wakeup_session :
          /\ wakeup_session' = wakeup_session \ {c}
          /\ IF sleep_session[c] # None
             THEN Resume(c, [session_id_coroutine EXCEPT ![sleep_session[c]] = Break])
             ELSE /\ mode' = "error"
                  /\ UNCHANGED <<session_id_coroutine, sleep_session, watching_session, coVars,
                                 cur, queueVars>>
  /\ UNCHANGED <<mbox, watching_service, dead_service, error_queue, fork_queue, reqVars, envVars,
                 ansVars, sid, asked, raised, stale>>

\* dispatch_error_queue.  The session may have been answered while it was in the
\* queue; then coroutine_resume(nil) raises an error.
DispatchErrorQueue ==
  /\ mode = "error"
  /\ IF error_queue = <<>> THEN mode' = "fork" /\ NoResume /\ UNCHANGED error_queue
     ELSE LET s == Head(error_queue)
              c == session_id_coroutine[s]
          IN  /\ error_queue' = Tail(error_queue)
              /\ IF c \in Cos
                 THEN /\ Resume(c, [session_id_coroutine EXCEPT ![s] = None])
                      /\ UNCHANGED wakeup_session
                 ELSE mode' = "fork" /\ NoResume
  /\ UNCHANGED <<mbox, watching_service, dead_service, fork_queue, reqVars, envVars, ansVars,
                 sid, asked, raised, stale>>

\* The loop of dispatch_message over fork_queue, and its end.
DispatchFork ==
  /\ mode = "fork"
  /\ IF fork_queue = {}
     THEN /\ mode' = "idle" /\ UNCHANGED <<cur, coVars, fork_queue>>
          /\ stale' = (stale /\ (error_queue # <<>> \/ wakeup_session # {}))
     ELSE /\ \E c \in fork_queue : Runs(c, "run") /\ fork_queue' = fork_queue \ {c}
          /\ UNCHANGED stale
  /\ UNCHANGED <<mbox, schedVars, watchVars, error_queue, reqVars, queueVars, envVars,
                 ansVars, sid, asked, raised>>

-----------------------------------------------------------------------------
(* What the running coroutine does.                                        *)

Does(op) == mode = "run" /\ op \in ops

\* coroutine_yield "CALL" or "SLEEP" and suspend, for a new session.
Yields(c, kind) ==
  /\ sid < MaxSession /\ sid' = sid + 1
  /\ session_id_coroutine' = [session_id_coroutine EXCEPT ![sid'] = c]
  /\ co' = [co EXCEPT ![c] = kind] /\ waits' = [waits EXCEPT ![c] = sid']
  /\ sleep_session' = IF kind = "call" THEN sleep_session
                                       ELSE [sleep_session EXCEPT ![c] = sid']
  /\ mode' = Suspended
  /\ UNCHANGED <<mbox, wakeup_session, watching_service, dead_service, error_queue, fork_queue,
                 reqVars, cur, envVars, ansVars, raised, stale>>

Asks(s, who) == asked' = [x \in DOMAIN asked \cup {s} |-> IF x = s THEN who ELSE asked[x]]

BadWatches(s, p) == UNCHANGED watching_session
Watches(s, p)    == watching_session' = [watching_session EXCEPT ![s] = p]
Call(p) ==
  /\ Does("call") /\ p \in alive
  /\ Yields(cur, "call")
  /\ Watches(sid', p)
  /\ Asks(sid', p) /\ UNCHANGED queueVars

Sleep == Does("sleep") /\ Yields(cur, "sleep") /\ Asks(sid', "timer")
           /\ UNCHANGED <<watching_session, queueVars>>
Wait  == Does("wait") /\ Yields(cur, "wait") /\ UNCHANGED <<asked, watching_session, queueVars>>

\* The operations that do not yield, or are resumed at once.
Stays == UNCHANGED <<mbox, session_id_coroutine, sleep_session, watching_session, dead_service,
                     error_queue, mode, cur, envVars, raised, stale>>

Timeout ==
  /\ Does("timeout") /\ sid < MaxSession /\ sid' = sid + 1
  /\ \E c \in Cos : /\ Free(c)
                    /\ co' = [co EXCEPT ![c] = "timeout"] /\ waits' = [waits EXCEPT ![c] = sid']
                    /\ session_id_coroutine' = [session_id_coroutine EXCEPT ![sid'] = c]
  /\ Asks(sid', "timer")
  /\ UNCHANGED <<mbox, sleep_session, wakeup_session, watchVars, error_queue, fork_queue, reqVars,
                 mode, cur, queueVars, envVars, ansVars, raised, stale>>

Fork ==
  /\ Does("fork")
  /\ \E c \in Cos : Free(c) /\ co' = [co EXCEPT ![c] = "fork"] /\ fork_queue' = fork_queue \cup {c}
  /\ Stays /\ UNCHANGED <<wakeup_session, watching_service, reqVars, waits, queueVars, ansVars, sid, asked>>

\* skynet.wakeup
BadWoken(c) == wakeup_session
Woken(c)    == IF sleep_session[c] # None THEN wakeup_session \cup {c} ELSE wakeup_session
Wakeup(c) ==
  /\ Does("wakeup") /\ c # cur /\ co[c] # "queue"   \* it wakes those it knows to sleep
  /\ wakeup_session' = Woken(c)
  /\ Stays /\ UNCHANGED <<watching_service, fork_queue, reqVars, coVars, queueVars, ansVars, sid, asked>>

\* An answer to request r: a response, or an error if it is too large.
Reply(r)  == \/ replies' = [replies EXCEPT ![r] = @ + 1] /\ UNCHANGED <<errors, forgotten>>
             \/ errors' = [errors EXCEPT ![r] = @ + 1] /\ UNCHANGED <<replies, forgotten>>
Refuse(r) == errors' = [errors EXCEPT ![r] = @ + 1] /\ UNCHANGED <<replies, forgotten>>

\* skynet.ret, or response before a second answer: suspend raises an error and never
\* resumes the coroutine.
Second    == cur \in responded
Ret ==
  /\ Does("ret") /\ request[cur] # None /\ ~Second
  /\ responded' = responded \cup {cur}
  /\ IF source[request[cur]] \in dead_service THEN UNCHANGED ansVars ELSE Reply(request[cur])
  /\ Stays
  /\ UNCHANGED <<wakeup_session, watching_service, fork_queue, request, unresponse, coVars,
                 queueVars, sid, asked>>
AnswerTwice ==
  /\ Does("ret") /\ request[cur] # None /\ Second
  /\ raised < Raises /\ raised' = raised + 1 /\ stale' = TRUE
  /\ co' = [co EXCEPT ![cur] = "lost"] /\ mode' = "fork"
  /\ UNCHANGED <<mbox, schedVars, watchVars, error_queue, fork_queue, reqVars, waits, cur,
                 queueVars, envVars, ansVars, sid, asked>>

\* skynet.response, and a call of the function it returns: by any coroutine, with
\* "TEST" or with the answer.  Users drop a function that has answered FALSE.
Response ==
  /\ Does("response") /\ request[cur] # None /\ ~Second
  /\ responded' = responded \cup {cur}
  /\ unresponse' = unresponse \cup {request[cur]}
  /\ watching_service' = [watching_service EXCEPT ![source[request[cur]]] = @ + 1]
  /\ Stays
  /\ UNCHANGED <<wakeup_session, fork_queue, request, coVars, queueVars, ansVars, sid, asked>>

Respond(r) ==
  /\ Does("response") /\ r \in unresponse
  /\ unresponse' = unresponse \ {r}
  /\ Release(source[r])
  /\ IF source[r] \in dead_service THEN UNCHANGED ansVars ELSE Reply(r) \/ Refuse(r)
  /\ Stays
  /\ UNCHANGED <<wakeup_session, fork_queue, request, responded, coVars, queueVars, sid, asked>>

\* skynet.queue: enter, and leave by xpcall_ret.
Enter ==
  /\ Does("queue") /\ depth[cur] < MaxDepth
  /\ IF current_thread # None /\ current_thread # cur
     THEN /\ thread_queue' = Append(thread_queue, cur)
          /\ Yields(cur, "queue")
          /\ UNCHANGED <<asked, watching_session, current_thread, ref, depth, early>>
     ELSE /\ current_thread' = cur /\ ref' = ref + 1 /\ depth' = [depth EXCEPT ![cur] = @ + 1]
          /\ Stays
          /\ UNCHANGED <<thread_queue, early, wakeup_session, watching_service, fork_queue, reqVars,
                         coVars, ansVars, sid, asked>>

\* k levels of the lock end.
GiveUp(k) ==
  /\ ref' = ref - k /\ depth' = [depth EXCEPT ![cur] = @ - k]
  /\ IF ref' = 0 /\ thread_queue # <<>>
     THEN /\ current_thread' = Head(thread_queue) /\ thread_queue' = Tail(thread_queue)
          /\ wakeup_session' = Woken(current_thread')
     ELSE /\ current_thread' = IF ref' = 0 THEN None ELSE current_thread
          /\ UNCHANGED <<thread_queue, wakeup_session>>
  /\ UNCHANGED early
Leave ==
  /\ mode = "run" /\ depth[cur] > 0
  /\ GiveUp(1)
  /\ Stays /\ UNCHANGED <<watching_service, fork_queue, reqVars, coVars, ansVars, sid, asked>>

\* "EXIT": the coroutine goes back to the pool.
CoExit ==
  /\ mode = "run" /\ depth[cur] = 0
  /\ IF request[cur] # None THEN Release(source[request[cur]]) ELSE UNCHANGED watching_service
  /\ request' = [request EXCEPT ![cur] = None] /\ responded' = responded \ {cur}
  /\ co' = [co EXCEPT ![cur] = "pool"] /\ mode' = Suspended
  /\ forgotten' = IF cur \in responded \/ request[cur] = None THEN forgotten
                  ELSE forgotten \cup {request[cur]}
  /\ UNCHANGED <<mbox, schedVars, watching_session, dead_service, error_queue, fork_queue,
                 unresponse, waits, cur, queueVars, envVars, replies, errors, sid, asked, raised,
                 stale>>

\* An error that nobody catches (a failed call, say), on its way out of the lock and
\* of suspend: what dispatch_wakeup and dispatch_error_queue had to do stays undone.
Uncaught ==
  /\ raised' = raised + 1 /\ stale' = TRUE
  /\ IF depth[cur] > 0 THEN GiveUp(depth[cur]) ELSE UNCHANGED <<queueVars, wakeup_session>>
  /\ IF request[cur] # None /\ called[request[cur]] THEN Refuse(request[cur])
                                                     ELSE UNCHANGED ansVars
  /\ request' = [request EXCEPT ![cur] = None]
  /\ co' = [co EXCEPT ![cur] = "dead"] /\ mode' = "fork"
  /\ UNCHANGED <<mbox, session_id_coroutine, sleep_session, watchVars, error_queue, fork_queue,
                 responded, unresponse, waits, cur, envVars, sid, asked>>
Raise == mode = "run" /\ raised < Raises /\ Uncaught
\* assert(ref == 0) of skynet.queue.
AssertFails == mode = "assert" /\ Uncaught

\* skynet.exit: an error for every call whose coroutine has not ended, then one for
\* every response that was not given.
Notified    == {request[c] : c \in Cos} \ {None}
Exit ==
  /\ Does("exit")
  /\ errors' = [r \in 1..MaxReq |->
                  errors[r] + (IF r \in Notified /\ called[r] THEN 1 ELSE 0)
                            + (IF r \in unresponse /\ source[r] \notin dead_service THEN 1 ELSE 0)]
  /\ fork_queue' = {} /\ unresponse' = {} /\ mode' = "exited"
  /\ UNCHANGED <<mbox, schedVars, watchVars, error_queue, request, responded, coVars, cur,
                 queueVars, envVars, replies, forgotten, sid, asked, raised, stale>>

-----------------------------------------------------------------------------
(* Other services and the timer.                                           *)
EnvStep == UNCHANGED <<schedVars, watchVars, error_queue, fork_queue, reqVars, coVars, mode, cur,
                       queueVars, ansVars, sid, raised, stale>>
Sends(ms) == mode # "exited" /\ mbox' = mbox \o ms
Forget(ss) == asked' = [s \in DOMAIN asked \ ss |-> asked[s]]

Ask(p, isCall) ==
  /\ p \in alive /\ nreq < MaxReq /\ nreq' = nreq + 1
  /\ source' = Append(source, p) /\ called' = Append(called, isCall)
  /\ Sends(<<Msg("REQUEST", nreq', "none")>>)
  /\ EnvStep /\ UNCHANGED <<asked, alive, ops>>

Answer(s) ==
  /\ s \in DOMAIN asked
  /\ \/ Sends(<<Msg("RESPONSE", s, "none")>>)
     \/ asked[s] # "timer" /\ Sends(<<Msg("ERROR", s, asked[s])>>)
  /\ Forget({s})
  /\ EnvStep /\ UNCHANGED <<nreq, source, called, alive, ops>>

\* A peer exits: errors for the calls it has not answered, in any order, and error 0
\* if it waits for a call of its own; those from its mailbox come after that.
Die(p) ==
  /\ p \in alive /\ alive' = alive \ {p}
  /\ LET mine == {s \in DOMAIN asked : asked[s] = p}
         err(l) == [i \in 1..Len(l) |-> Msg("ERROR", l[i], p)]
         zero == IF \E r \in 1..nreq : source[r] = p /\ called[r] /\ replies[r] + errors[r] = 0
                 THEN <<Msg("ERROR", 0, p)>> ELSE <<>>
     IN  /\ \E l \in SetToSeqs(mine), k \in 0..Cardinality(mine) :
              Sends(err(SubSeq(l, 1, k)) \o zero \o err(SubSeq(l, k + 1, Len(l))))
         /\ Forget(mine)
  /\ EnvStep /\ UNCHANGED <<nreq, source, called, ops>>

Dispatcher ==
  \/ \E s \in Sessions : DispatchResponse(s)
  \/ \E r \in 1..MaxReq : DispatchRequest(r)
  \/ \E p \in Peers, s \in Sessions \cup {0} : DispatchError(p, s)
  \/ DispatchWakeup \/ DispatchErrorQueue \/ DispatchFork \/ AssertFails
Chooses ==
  \/ \E p \in Peers : Call(p)
  \/ Sleep \/ Wait \/ Timeout \/ Fork \/ Ret \/ AnswerTwice \/ Response \/ Enter \/ Raise \/ Exit
  \/ \E c \in Cos : Wakeup(c)
  \/ \E r \in unresponse : Respond(r)
Ends == Leave \/ CoExit
Peer ==
  \/ \E p \in Peers : Die(p) \/ \E b \in BOOLEAN : Ask(p, b)
  \/ \E s \in Sessions : Answer(s)
Next == Dispatcher \/ Chooses \/ Ends \/ Peer
Spec == Init /\ [][Next]_vars

\* Messages are dispatched, coroutines end, timers fire and peers answer.
Fairness == /\ WF_vars(Dispatcher) /\ WF_vars(Leave) /\ SF_vars(CoExit)
            /\ \A s \in Sessions : WF_vars(Answer(s))
LiveSpec == Spec /\ Fairness

-----------------------------------------------------------------------------
Waiting == {"call", "sleep", "wait", "queue", "timeout"}
TypeOK ==
  /\ session_id_coroutine \in [Sessions -> Cos \cup {None, Break}]
  /\ sleep_session \in [Cos -> Sessions \cup {None}] /\ wakeup_session \subseteq Cos
  /\ watching_session \in [Sessions -> Peers \cup {"none"}]
  /\ watching_service \in [Peers -> Nat] /\ dead_service \subseteq Peers \ alive
  /\ fork_queue = {c \in Cos : co[c] = "fork"} \/ mode = "exited"
  /\ request \in [Cos -> 0..MaxReq] /\ unresponse \subseteq 1..MaxReq
  /\ co \in [Cos -> Waiting \cup {"pool", "run", "fork", "dead", "lost"}]
  /\ mode \in {"idle", "run", "wake", "error", "fork", "assert", "exited"} /\ ref \in Nat

\* session_id_coroutine and sleep_session name exactly the coroutines that wait, each
\* under its session: no answer resumes a coroutine that does not wait for it, and
\* none that waits is lost, whatever wakeups, timers and errors did before.  The mark
\* of a wakeup stays only as long as the timer's answer is on its way.
WaitersMatch ==
  /\ \A s \in Sessions, c \in Cos :
       session_id_coroutine[s] = c <=> co[c] \in Waiting /\ waits[c] = s
  /\ \A c \in Cos : sleep_session[c] = IF co[c] \in {"sleep", "wait", "queue"} THEN waits[c] ELSE None
  /\ \A s \in Sessions :
       session_id_coroutine[s] = Break =>
         s \in DOMAIN asked \/ Msg("RESPONSE", s, "none") \in ToSet(mbox)

\* suspend leaves nothing to do: between two messages no wakeup and no error waits,
\* except what an uncaught error left there.
NothingLeft == mode = "idle" /\ ~stale => error_queue = <<>> /\ wakeup_session = {}

\* watching_service counts the coroutines and the response functions that owe a peer
\* an answer; only an uncaught error makes it too large, and nothing too small (then
\* skynet.response would do arithmetic on nil).
Owes(p) == Cardinality({c \in Cos : request[c] # None /\ source[request[c]] = p})
             + Cardinality({r \in unresponse : source[r] = p})
WatchCounts ==
  mode # "exited" =>
    \A p \in Peers : /\ watching_service[p] >= Owes(p)
                     /\ raised = 0 => watching_service[p] = Owes(p)

\* skynet.ret and skynet.response together answer a request once.
OneReply == \A r \in 1..MaxReq : replies[r] <= 1

\* skynet.exit leaves no caller waiting: a call it has taken and not forgotten has
\* been answered, or the caller is known to be dead.
CallersAnswered ==
  mode = "exited" =>
    \A r \in 1..nreq :
      called[r] /\ Msg("REQUEST", r, "none") \notin ToSet(mbox) =>
        replies[r] + errors[r] > 0 \/ r \in forgotten \/ source[r] \in dead_service

\* The lock of skynet.queue: one coroutine is inside, it is current_thread and ref is
\* its depth; when the lock changes hands the next one is woken; and nobody is resumed
\* before its turn, unless an uncaught error has left a wakeup behind.
LockHeld ==
  /\ \A c \in Cos : depth[c] > 0 => current_thread = c /\ ref = depth[c]
  /\ ~early /\ current_thread # None /\ ref = 0 => current_thread \in wakeup_session
  /\ raised = 0 => ~early

\* All of it, of lualib/skynet.lua and skynet/queue.lua: whoever waits is known by its
\* session, nothing is left undone between messages, what is owed to a peer is counted,
\* a request is answered once, skynet.exit leaves no caller waiting, and of those that
\* take a lock one is inside and the next one is woken.
SchedulerRight ==
  TypeOK /\ WaitersMatch /\ NothingLeft /\ WatchCounts /\ OneReply /\ CallersAnswered /\ LockHeld

\* Every call returns, although its peer may answer with an error or exit, and several
\* calls may fail at once; as long as their errors are caught.
CallReturns == \A c \in Cos : []<>(co[c] # "call" \/ mode = "exited")

\* Whoever waits for the lock gets it.
LockComes == \A c \in Cos : []<>(co[c] # "queue" \/ mode = "exited")
-----------------------------------------------------------------------------
(* The inductive invariant behind SchedulerRight.                          *)

Distinct(q) == \A i, j \in 1..Len(q) : q[i] = q[j] => i = j

Messages == [type : {"RESPONSE", "REQUEST", "ERROR"}, n : Nat, from : Peers \cup {"none"}]
OtherTypes ==
  /\ mbox \in Seq(Messages) /\ error_queue \in Seq(Sessions) /\ thread_queue \in Seq(Cos)
  /\ waits \in [Cos -> 0..MaxSession] /\ cur \in Cos /\ responded \subseteq Cos
  /\ current_thread \in Cos \cup {None} /\ depth \in [Cos -> Nat] /\ early \in BOOLEAN
  /\ sid \in 0..MaxSession /\ nreq \in 0..MaxReq /\ raised \in Nat /\ stale \in BOOLEAN
  /\ source \in [1..nreq -> Peers] /\ called \in [1..nreq -> BOOLEAN]
  /\ DOMAIN asked \subseteq 1..sid /\ \A s \in DOMAIN asked : asked[s] \in Peers \cup {"timer"}
  /\ alive \subseteq Peers /\ forgotten \subseteq 1..MaxReq
  /\ replies \in [1..MaxReq -> Nat] /\ errors \in [1..MaxReq -> Nat]

\* At most one coroutine runs; those that wait do so under a session.
RunsAlone ==
  /\ \A c \in Cos : co[c] = "run" => c = cur /\ mode \in {"run", "assert", "exited"}
  /\ mode \in {"run", "assert", "exited"} => co[cur] = "run"
  /\ \A c \in Cos : IF co[c] \in Waiting THEN waits[c] \in 1..sid ELSE waits[c] = None

\* Sessions are used once.  The timer's answer to a sleep is on its way, nobody answers
\* the session under which a coroutine waits for the lock, and only calls are watched.
Answered(s) == Msg("RESPONSE", s, "none") \in ToSet(mbox)
Timed(s)    == (s \in DOMAIN asked /\ asked[s] = "timer") \/ Answered(s)
Calls(s)    == \E c \in Cos : co[c] = "call" /\ waits[c] = s
Ended(p)    == Msg("ERROR", 0, p) \in ToSet(mbox)
SessionsRight ==
  /\ \A s \in Sessions : s > sid => session_id_coroutine[s] = None
  /\ \A s : Answered(s) => s \in 1..sid
  /\ \A s \in Sessions : session_id_coroutine[s] = Break => Timed(s)
  /\ \A c \in Cos : co[c] = "sleep" => Timed(waits[c])
  /\ \A c \in Cos : co[c] = "queue" => waits[c] \notin DOMAIN asked /\ ~Answered(waits[c])
  /\ \A s \in Sessions : watching_session[s] # "none" => Calls(s)
  /\ \A s \in ToSet(error_queue) : s <= sid /\ (session_id_coroutine[s] # None => Calls(s))
  /\ \A p \in Peers : Ended(p) => p \notin alive

\* What suspend has still to do, unless an uncaught error has left it behind.
SuspendRight ==
  ~stale =>
    /\ mode \in {"idle", "fork"} => error_queue = <<>> /\ wakeup_session = {}
    /\ mode = "error" => wakeup_session = {}
    /\ \A c \in wakeup_session : sleep_session[c] # None
    /\ Distinct(error_queue) /\ \A s \in ToSet(error_queue) : Calls(s)

\* A request is in the mailbox, in the hands of a coroutine or of a response function.
Arrived(r) == Msg("REQUEST", r, "none") \in ToSet(mbox)
Once(q)    == \A i, j \in 1..Len(q) : q[i] = q[j] /\ q[i].type = "REQUEST" => i = j
RequestsRight ==
  /\ Once(mbox)
  /\ \A r : Arrived(r) => /\ r \in 1..nreq /\ r \notin unresponse /\ replies[r] = 0
                          /\ \A c \in Cos : request[c] # r
  /\ \A c \in Cos : request[c] # None =>
        /\ request[c] \in 1..nreq /\ co[c] \notin {"pool", "fork", "timeout", "dead"}
        /\ c \notin responded => request[c] \notin unresponse /\ replies[request[c]] = 0
        /\ \A d \in Cos : request[d] = request[c] => d = c
  /\ \A c \in responded : co[c] # "pool"
  /\ unresponse \subseteq 1..nreq /\ \A r \in unresponse : replies[r] = 0
  /\ \A r \in 1..MaxReq : r > nreq => replies[r] = 0

\* A call that was taken is in somebody's hands, answered, forgotten, or of a dead peer.
Settled(r) == replies[r] + errors[r] > 0 \/ r \in forgotten \/ source[r] \in dead_service
Accounted ==
  mode # "exited" =>
    /\ \A r \in 1..nreq :
         ~called[r] \/ Arrived(r) \/ (\E c \in Cos : request[c] = r) \/ r \in unresponse \/ Settled(r)
    /\ \A c \in responded : request[c] # None => request[c] \in unresponse \/ Settled(request[c])

\* Who waits for the lock, as long as nobody was resumed before its turn.
LockRight ==
  /\ \A c \in Cos : depth[c] = IF c = current_thread THEN ref ELSE 0
  /\ current_thread = None => ref = 0
  /\ ~early =>
       /\ Distinct(thread_queue)
       /\ \A c \in ToSet(thread_queue) : co[c] = "queue" /\ c # current_thread
       /\ current_thread # None /\ ref = 0 =>
             current_thread \in wakeup_session /\ co[current_thread] = "queue"
  /\ raised = 0 =>
       /\ ~stale /\ ~early
       /\ \A c \in wakeup_session : co[c] = "queue" => current_thread = c /\ ref = 0

IInv == /\ SchedulerRight /\ OtherTypes /\ RunsAlone /\ SessionsRight /\ SuspendRight
        /\ RequestsRight /\ Accounted /\ LockRight
=============================================================================
