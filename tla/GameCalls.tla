------------------------------ MODULE GameCalls ------------------------------
(***************************************************************************)
(* Two places where coroutines of a game service wait to be woken by one   *)
(* another: lkcluster's rawcall (services/physical/cluster_mgr/            *)
(* lkcluster.lua), a call to another node that gives up after ten seconds, *)
(* and query_sharedata (services/common/query_sharedata.lua), where the    *)
(* first that asks for a name asks for all.                                *)
(***************************************************************************)
EXTENDS Integers, FiniteSets

CONSTANTS
  Coroutines,    \* of one service
  MaxCall        \* bound: calls

VARIABLES
  pc,          \* "idle", in skynet.wait of a "rawcall" or of "query_sharedata", "asking" in
               \* sharedata.query, or "raised" out of it
  call,        \* the call a coroutine is in
  self_co,     \* the calls whose self_co is set
  r,           \* the calls whose r is set
  fork, timer, \* the calls whose skynet.call is under way, and whose timeout is
  woken,       \* the coroutines the wakeup queue holds, with the call that woke each
  answers,     \* what each call returned: "answer" or "timeout"
  first,       \* what came first, the answer or the time
  pool,        \* data_pool[name] is set
  querying,    \* query_queue[name] is set
  waiters,     \* its coroutines
  calls

vars == <<pc, call, self_co, r, fork, timer, woken, answers, first, pool, querying, waiters, calls>>
rawVars   == <<call, self_co, r, fork, timer, answers, first, calls>>
queryVars == <<pool, querying, waiters>>

Calls == 1..MaxCall

Init ==
  /\ pc = [c \in Coroutines |-> "idle"] /\ call = [c \in Coroutines |-> 0]
  /\ self_co = {} /\ r = {} /\ fork = {} /\ timer = {} /\ woken = {}
  /\ answers = [n \in Calls |-> "none"] /\ first = [n \in Calls |-> "none"]
  /\ pool = FALSE /\ querying = FALSE /\ waiters = {} /\ calls = 0

To(c, p) == pc' = [pc EXCEPT ![c] = p]
CoOf(n) == CHOOSE c \in Coroutines : call[c] = n
Quiet == woken = {}          \* wakeups come before the next message

-----------------------------------------------------------------------------
\* rawcall, up to its skynet.wait: one call forked, one timeout.
Rawcall(c) ==
  /\ Quiet /\ pc[c] = "idle" /\ calls < MaxCall /\ calls' = calls + 1 /\ To(c, "rawcall")
  /\ LET n == calls + 1 IN
     /\ call' = [call EXCEPT ![c] = n] /\ self_co' = self_co \cup {n}
     /\ fork' = fork \cup {n} /\ timer' = timer \cup {n}
  /\ UNCHANGED <<r, woken, answers, first, queryVars>>

Wakeup(n) ==
  IF n \in self_co
  THEN /\ self_co' = self_co \ {n} /\ woken' = woken \cup {<<CoOf(n), n>>}
  ELSE UNCHANGED <<self_co, woken>>
\* Not so: does not test self_co.
\* The call returns, or raises, in the forked coroutine.
Answered(n) ==
  /\ Quiet /\ n \in fork /\ fork' = fork \ {n} /\ r' = r \cup {n} /\ Wakeup(n)
  /\ first' = [first EXCEPT ![n] = IF @ = "none" THEN "answer" ELSE @]
  /\ UNCHANGED <<pc, call, timer, answers, queryVars, calls>>
TimedOut(n) ==
  /\ Quiet /\ n \in timer /\ timer' = timer \ {n} /\ Wakeup(n)
  /\ first' = [first EXCEPT ![n] = IF @ = "none" THEN "timeout" ELSE @]
  /\ UNCHANGED <<pc, call, r, fork, answers, queryVars, calls>>
\* The caller goes on: cluster.call tells an answer from a timeout by r.
Resume(c) ==
  /\ \E n \in Calls : <<c, n>> \in woken /\ woken' = woken \ {<<c, n>>}
  /\ pc[c] = "rawcall" /\ To(c, "idle")
  /\ answers' = [answers EXCEPT ![call[c]] = IF call[c] \in r THEN "answer" ELSE "timeout"]
  /\ UNCHANGED <<call, self_co, r, fork, timer, first, queryVars, calls>>

-----------------------------------------------------------------------------
\* query_sharedata
Query(c) ==
  /\ Quiet /\ pc[c] = "idle" /\ ~pool
  /\ \/ ~querying /\ querying' = TRUE /\ To(c, "asking") /\ UNCHANGED waiters
     \/ querying /\ waiters' = waiters \cup {c} /\ To(c, "query") /\ UNCHANGED querying
  /\ UNCHANGED <<rawVars, woken, pool>>
\* sharedata.query returns: all that wait are woken.
Found(c) ==
  /\ Quiet /\ pc[c] = "asking" /\ To(c, "idle")
  /\ pool' = TRUE /\ querying' = FALSE /\ waiters' = {}
  /\ woken' = {<<d, 0>> : d \in waiters}
  /\ UNCHANGED rawVars
\* It raises: query_queue[name] stays, and with it all that ask wait for ever.
NotFound(c) ==
  /\ Quiet /\ pc[c] = "asking" /\ To(c, "raised")
  /\ UNCHANGED <<rawVars, woken, queryVars>>
ResumeQuery(c) ==
  /\ <<c, 0>> \in woken /\ woken' = woken \ {<<c, 0>>} /\ pc[c] = "query" /\ To(c, "idle")
  /\ UNCHANGED <<rawVars, queryVars>>

Next ==
  \/ \E c \in Coroutines : \/ Rawcall(c) \/ Resume(c)
                           \/ Query(c) \/ Found(c) \/ NotFound(c) \/ ResumeQuery(c)
  \/ \E n \in Calls : Answered(n) \/ TimedOut(n)

Spec == Init /\ [][Next]_vars

-----------------------------------------------------------------------------
TypeOK ==
  /\ \A c \in Coroutines : call[c] \in 0..MaxCall
  /\ self_co \subseteq Calls /\ waiters \subseteq Coroutines

\* A coroutine is woken out of the wait that the wakeup is for, never out of a later one:
\* the answer that comes after the time, or the time after the answer, wakes nobody.
WokenOnce ==
  \A w \in woken : IF w[2] = 0 THEN pc[w[1]] = "query"
                   ELSE pc[w[1]] = "rawcall" /\ call[w[1]] = w[2]

\* A call gives up only if the time was up before its answer came, and none is lost: as
\* long as it waits its answer or its time is still to come.
TimeoutIsTrue == \A n \in Calls : answers[n] # "none" => answers[n] = first[n]
WaitsForSomething ==
  \A c \in Coroutines : pc[c] = "rawcall" =>
    call[c] \in fork \cup timer \/ \E n \in Calls : <<c, n>> \in woken

\* Whoever waits for a name waits for the one that asks for it, unless that one raised.
QueryAnswered ==
  /\ \A c \in Coroutines : pc[c] = "query" =>
       \/ <<c, 0>> \in woken
       \/ c \in waiters /\ \E d \in Coroutines : pc[d] \in {"asking", "raised"}
  /\ Cardinality({c \in Coroutines : pc[c] \in {"asking", "raised"}}) <= 1
=============================================================================
