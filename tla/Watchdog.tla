------------------------------ MODULE Watchdog ------------------------------
(***************************************************************************)
(* Clients of a game server: the gate (service/gate.lua over               *)
(* lualib/snax/gateserver.lua), the watchdog (servers/gameserver/          *)
(* watchdog.lua) and one agent per client (services/agent/agent.lua).      *)
(* Each service has a mailbox; a handler that calls another service waits  *)
(* for the answer while later messages are handled.  A socket id is used   *)
(* once.                                                                   *)
(***************************************************************************)
EXTENDS Integers, Sequences, FiniteSets, SequencesExt

CONSTANTS
  Fds,        \* the connections
  MaxClient,      \* conf.maxclient, of the gate and of the watchdog
  Kinds,      \* the messages a client sends, out of those of Kind
  MaxSent,    \* bound: messages of a client
  MaxKick     \* bound: kicks by command

\* A heartbeat, a request without a session, one that wants a response.
Kind == {"heartbeat", "tell", "ask"}

VARIABLES
  sock,        \* the socket server: "idle", "held" until start_socket, "started", "ended"
  closing,     \* sockets the gate has closed, to be reported
  connection,  \* gateserver's connection[fd]: "nil", "true", "false"
  number,      \* gateserver's client_number
  forwarded,   \* gate's connection[fd]: "nil", "plain", or "agent" with c.agent
  gateQ, dogQ, agentQ,   \* mailboxes
  opening,     \* SOCKET.open of the watchdog: "no", "launch" in newservice, "start" in its call
  agent,       \* the watchdog's agent[fd] is set
  clients,     \* the watchdog's client_number
  stage,       \* an agent: "none", "new", "forward" in its call to the gate, "ready", "failed"
  loop,        \* the coroutine of startqueue: "none", "wait" with thread_id, "busy", "dead"
  queue,       \* message_queue, with cur_message in front while the loop is busy or dead
  sent, done,  \* what each client sent; how many of them were dispatched
  early,       \* whose close the watchdog handled before it knew the agent
  kicks

vars == <<sock, closing, connection, number, forwarded, gateQ, dogQ, agentQ, opening, agent,
          clients, stage, loop, queue, sent, done, early, kicks>>
sockVars  == <<sock, closing>>
gateVars  == <<connection, number, forwarded>>
dogVars   == <<opening, agent, clients, early, kicks>>
agentVars == <<stage, loop, queue, done>>

Init ==
  /\ sock = [fd \in Fds |-> "idle"] /\ closing = {}
  /\ connection = [fd \in Fds |-> "nil"] /\ number = 0 /\ forwarded = [fd \in Fds |-> "nil"]
  /\ gateQ = <<>> /\ dogQ = <<>> /\ agentQ = [fd \in Fds |-> <<>>]
  /\ opening = [fd \in Fds |-> "no"] /\ agent = [fd \in Fds |-> FALSE] /\ clients = 0
  /\ stage = [fd \in Fds |-> "none"] /\ loop = [fd \in Fds |-> "none"]
  /\ queue = [fd \in Fds |-> <<>>] /\ sent = [fd \in Fds |-> <<>>] /\ done = [fd \in Fds |-> 0]
  /\ early = {} /\ kicks = 0

-----------------------------------------------------------------------------
(* The socket server, as the gate sees it: an accepted socket is not       *)
(* polled before it is started, and one that the gate closes is reported   *)
(* closed, a second time when its peer was faster.                         *)
ToGate(m) == gateQ' = Append(gateQ, m)

Connect(fd) ==
  /\ sock[fd] = "idle" /\ sock' = [sock EXCEPT ![fd] = "held"] /\ ToGate(<<"open", fd>>)
  /\ UNCHANGED <<closing, gateVars, dogQ, agentQ, dogVars, agentVars, sent>>
Say(fd, k) ==
  /\ sock[fd] = "started" /\ Len(sent[fd]) < MaxSent
  /\ sent' = [sent EXCEPT ![fd] = Append(@, k)] /\ ToGate(<<"data", fd, k>>)
  /\ UNCHANGED <<sockVars, gateVars, dogQ, agentQ, dogVars, agentVars>>
Hangup(fd, event) ==
  /\ sock[fd] = "started" /\ sock' = [sock EXCEPT ![fd] = "ended"] /\ ToGate(<<event, fd>>)
  /\ UNCHANGED <<closing, gateVars, dogQ, agentQ, dogVars, agentVars, sent>>
Closed(fd) ==
  /\ fd \in closing /\ closing' = closing \ {fd}
  /\ sock' = [sock EXCEPT ![fd] = "ended"] /\ ToGate(<<"close", fd>>)
  /\ UNCHANGED <<gateVars, dogQ, agentQ, dogVars, agentVars, sent>>

-----------------------------------------------------------------------------
(* The gate.                                                               *)
ToDog(m) == dogQ' = Append(dogQ, m)
ToAgent(fd, m) == agentQ' = [agentQ EXCEPT ![fd] = Append(@, m)]
GateGets(m) == gateQ # <<>> /\ Head(gateQ) = m /\ gateQ' = Tail(gateQ)

\* MSG.open and handler.connect: one too many is closed, and known to nobody.
MsgOpen(fd) ==
  /\ GateGets(<<"open", fd>>)
  /\ \/ /\ number >= MaxClient /\ closing' = closing \cup {fd}
        /\ UNCHANGED <<gateVars, dogQ>>
     \/ /\ number < MaxClient /\ number' = number + 1
        /\ connection' = [connection EXCEPT ![fd] = "true"]
        /\ forwarded' = [forwarded EXCEPT ![fd] = "plain"] /\ ToDog(<<"open", fd>>)
        /\ UNCHANGED closing
  /\ UNCHANGED <<sock, agentQ, dogVars, agentVars, sent>>

\* MSG.data or MSG.more and handler.message
MsgData(fd, k) ==
  /\ GateGets(<<"data", fd, k>>)
  /\ IF connection[fd] = "true" /\ forwarded[fd] = "agent"
     THEN ToAgent(fd, <<"client", k>>) ELSE UNCHANGED agentQ
  /\ UNCHANGED <<sockVars, gateVars, dogQ, dogVars, agentVars, sent>>

CloseFd(fd) ==
  /\ connection' = [connection EXCEPT ![fd] = "nil"]
  /\ number' = IF connection[fd] # "nil" THEN number - 1 ELSE number
\* MSG.close, MSG.error with handler.disconnect, handler.error
MsgClose(fd, event) ==
  /\ GateGets(<<event, fd>>) /\ CloseFd(fd)
  /\ forwarded' = [forwarded EXCEPT ![fd] = "nil"] /\ ToDog(<<event, fd>>)
  /\ UNCHANGED <<sockVars, agentQ, dogVars, agentVars, sent>>

\* CMD.forward and gateserver.openclient: an error if the connection is gone.
Forward(fd) ==
  /\ GateGets(<<"forward", fd>>)
  /\ \/ /\ forwarded[fd] # "nil" /\ forwarded' = [forwarded EXCEPT ![fd] = "agent"]
        /\ sock' = IF connection[fd] = "true" /\ sock[fd] = "held"
                   THEN [sock EXCEPT ![fd] = "started"] ELSE sock
        /\ ToAgent(fd, <<"forwarded">>)
     \/ /\ forwarded[fd] = "nil" /\ ToAgent(fd, <<"error">>)
        /\ UNCHANGED <<forwarded, sock>>
  /\ UNCHANGED <<closing, connection, number, dogQ, dogVars, agentVars, sent>>

\* CMD.kick and gateserver.closeclient
Kick(fd) ==
  /\ GateGets(<<"kick", fd>>)
  /\ IF connection[fd] = "nil" THEN UNCHANGED <<connection, closing>>
     ELSE connection' = [connection EXCEPT ![fd] = "false"] /\ closing' = closing \cup {fd}
  /\ UNCHANGED <<sock, number, forwarded, dogQ, agentQ, dogVars, agentVars, sent>>

-----------------------------------------------------------------------------
(* The watchdog.                                                           *)
DogGets(m) == dogQ # <<>> /\ Head(dogQ) = m /\ dogQ' = Tail(dogQ)

\* SOCKET.open: launches an agent, or has the gate kick the client.
SocketOpen(fd) ==
  /\ DogGets(<<"open", fd>>)
  /\ \/ /\ clients + 1 < MaxClient /\ opening' = [opening EXCEPT ![fd] = "launch"] /\ UNCHANGED gateQ
     \/ /\ ~(clients + 1 < MaxClient) /\ ToGate(<<"kick", fd>>) /\ UNCHANGED opening
  /\ UNCHANGED <<sockVars, gateVars, agentQ, agent, clients, early, kicks, agentVars, sent>>
\* newservice has returned: the agent is entered and called.
Launched(fd) ==
  /\ opening[fd] = "launch" /\ opening' = [opening EXCEPT ![fd] = "start"]
  /\ agent' = [agent EXCEPT ![fd] = TRUE] /\ stage' = [stage EXCEPT ![fd] = "new"]
  /\ ToAgent(fd, <<"start">>)
  /\ UNCHANGED <<sockVars, gateVars, gateQ, dogQ, clients, early, kicks, loop, queue, done, sent>>
\* The call has returned, with an error of the agent too (skynet_util.lua_docmd).
Counted(fd) ==
  /\ opening[fd] = "start" /\ DogGets(<<"started", fd>>)
  /\ opening' = [opening EXCEPT ![fd] = "no"] /\ clients' = clients + 1
  /\ UNCHANGED <<sockVars, gateVars, gateQ, agentQ, agent, early, kicks, agentVars, sent>>

\* SOCKET.close, SOCKET.error: the agent, if it is known, is told and forgotten.
SocketClose(fd, event) ==
  /\ DogGets(<<event, fd>>) /\ agent' = [agent EXCEPT ![fd] = FALSE]
  /\ \/ agent[fd] /\ clients' = clients - 1 /\ ToAgent(fd, <<"on_socket_close">>)
     \/ ~agent[fd] /\ UNCHANGED <<clients, agentQ>>
  /\ early' = IF opening[fd] = "launch" THEN early \cup {fd} ELSE early
  /\ UNCHANGED <<sockVars, gateVars, gateQ, opening, kicks, agentVars, sent>>

\* CMD.kick, CMD.shutdown_socket: what kick asks of the agent, "kick" and "exit", are
\* commands the agent does not have, so that close_agent changes nothing.
CommandKick(fd) ==
  /\ kicks < MaxKick /\ kicks' = kicks + 1 /\ ToGate(<<"kick", fd>>)
  /\ UNCHANGED <<sockVars, gateVars, dogQ, agentQ, opening, agent, clients, early, agentVars,
                 sent>>

-----------------------------------------------------------------------------
(* The agents.                                                             *)
AgentGets(fd, m) ==
  agentQ[fd] # <<>> /\ Head(agentQ[fd]) = m /\ agentQ' = [agentQ EXCEPT ![fd] = Tail(@)]

\* CMD.start, up to its call to the gate
Start(fd) ==
  /\ AgentGets(fd, <<"start">>) /\ stage' = [stage EXCEPT ![fd] = "forward"]
  /\ ToGate(<<"forward", fd>>)
  /\ UNCHANGED <<sockVars, gateVars, dogQ, dogVars, loop, queue, done, sent>>

\* Heartbeats are dispatched without a pause; anything else waits for the database.
RECURSIVE Beats(_)
Beats(q) == IF q # <<>> /\ Head(q) = "heartbeat" THEN 1 + Beats(Tail(q)) ELSE 0
\* The loop of startqueue from its head to where it yields.
Run(fd, q) ==
  LET n == Beats(q)
      rest == SubSeq(q, n + 1, Len(q))
  IN  /\ queue' = [queue EXCEPT ![fd] = rest] /\ done' = [done EXCEPT ![fd] = @ + n]
      /\ loop' = [loop EXCEPT ![fd] = IF rest = <<>> THEN "wait" ELSE "busy"]

\* CMD.start, from the gate's answer on: the codecs are loaded, the loop is forked and
\* the watchdog answered; or the error ends it.
Started(fd) ==
  /\ \/ /\ AgentGets(fd, <<"forwarded">>) /\ stage' = [stage EXCEPT ![fd] = "ready"]
        /\ Run(fd, <<>>)
     \/ /\ AgentGets(fd, <<"error">>) /\ stage' = [stage EXCEPT ![fd] = "failed"]
        /\ UNCHANGED <<loop, queue, done>>
  /\ ToDog(<<"started", fd>>)
  /\ UNCHANGED <<sockVars, gateVars, gateQ, dogVars, sent>>

\* Not so: one that comes while the loop is busy does not stay in the queue.
BadPostQueue(fd, k) ==
  IF loop[fd] = "wait" THEN Run(fd, Append(queue[fd], k)) ELSE UNCHANGED <<queue, done, loop>>
\* post_queue: wakes the loop if it waits.
PostQueue(fd, k) ==
  IF loop[fd] = "wait" THEN Run(fd, Append(queue[fd], k))
  ELSE queue' = [queue EXCEPT ![fd] = Append(@, k)] /\ UNCHANGED <<done, loop>>
\* A client's message; unpacking it needs the host that CMD.start loads.
ClientMessage(fd, k) ==
  /\ AgentGets(fd, <<"client", k>>)
  /\ IF stage[fd] = "ready" THEN PostQueue(fd, k) ELSE UNCHANGED <<queue, done, loop>>
  /\ UNCHANGED <<sockVars, gateVars, gateQ, dogQ, dogVars, stage, sent>>
\* An unknown command.
OnSocketClose(fd) ==
  /\ AgentGets(fd, <<"on_socket_close">>)
  /\ UNCHANGED <<sockVars, gateVars, gateQ, dogQ, dogVars, agentVars, sent>>

\* The database has answered, or raised an error: the loop goes on, unless there is a
\* response to send, for send_package is not defined above startqueue.
Dispatched(fd, ok) ==
  /\ loop[fd] = "busy"
  /\ \/ /\ ok /\ Head(queue[fd]) = "ask" /\ loop' = [loop EXCEPT ![fd] = "dead"]
        /\ done' = [done EXCEPT ![fd] = @ + 1] /\ UNCHANGED queue
     \/ /\ ~(ok /\ Head(queue[fd]) = "ask")
        /\ LET q == Tail(queue[fd]) IN
           /\ queue' = [queue EXCEPT ![fd] = SubSeq(q, Beats(q) + 1, Len(q))]
           /\ done' = [done EXCEPT ![fd] = @ + 1 + Beats(q)]
           /\ loop' = [loop EXCEPT ![fd] = IF Beats(q) = Len(q) THEN "wait" ELSE "busy"]
  /\ UNCHANGED <<sockVars, gateVars, gateQ, dogQ, agentQ, dogVars, stage, sent>>

Next ==
  \E fd \in Fds :
    \/ Connect(fd) \/ Closed(fd) \/ MsgOpen(fd) \/ Forward(fd) \/ Kick(fd)
    \/ SocketOpen(fd) \/ Launched(fd) \/ Counted(fd) \/ CommandKick(fd)
    \/ Start(fd) \/ Started(fd) \/ OnSocketClose(fd)
    \/ \E k \in Kinds : Say(fd, k) \/ MsgData(fd, k) \/ ClientMessage(fd, k)
    \/ \E e \in {"close", "error"} : Hangup(fd, e) \/ MsgClose(fd, e) \/ SocketClose(fd, e)
    \/ \E ok \in BOOLEAN : Dispatched(fd, ok)

Spec == Init /\ [][Next]_vars

-----------------------------------------------------------------------------
TypeOK ==
  /\ Kinds \subseteq Kind /\ number \in Nat /\ clients \in Int
  /\ \A fd \in Fds : /\ connection[fd] \in {"nil", "true", "false"}
                     /\ forwarded[fd] \in {"nil", "plain", "agent"}
                     /\ Range(queue[fd]) \subseteq Kinds

\* gateserver's client_number is the number of its connections, though a socket may be
\* reported closed twice, and one that was refused is reported closed too.
GateCounts ==
  /\ number = Cardinality({fd \in Fds : connection[fd] # "nil"}) /\ number <= MaxClient
  /\ \A fd \in Fds : connection[fd] = "nil" <=> forwarded[fd] = "nil"

\* The watchdog's client_number is the number of its agents, but for those whose start
\* has not returned: those are counted late, and closed early they count -1 meanwhile.
ClientsCounted ==
  clients = Cardinality({fd \in Fds : agent[fd]}) - Cardinality({fd \in Fds : opening[fd] = "start"})

\* The watchdog forgets an agent with its connection: a close is on its way.  Only one
\* that was kicked while its agent was being launched stays for ever, and is counted.
Pending(q, fd) == \E i \in 1..Len(q) : q[i] \in {<<"close", fd>>, <<"error", fd>>}
AgentsForgotten ==
  \A fd \in Fds : agent[fd] /\ connection[fd] = "nil" => fd \in early \/ Pending(dogQ, fd)

\* A client's message finds its agent started: gate, watchdog and agent answer each
\* other in this order, and the socket is read only then.
HostLoaded ==
  \A fd \in Fds : (agentQ[fd] # <<>> /\ Head(agentQ[fd])[1] = "client") => stage[fd] = "ready"

\* post_queue and the loop of startqueue: messages are dispatched one at a time in the
\* order they were sent, and the loop never waits with a message in the queue.
Received(fd) ==
  LET q == SelectSeq(agentQ[fd], LAMBDA m : m[1] = "client")
  IN  SubSeq(sent[fd], 1, done[fd]) \o (IF loop[fd] = "dead" THEN Tail(queue[fd]) ELSE queue[fd])
        \o [i \in 1..Len(q) |-> q[i][2]]
InOrder == \A fd \in Fds : IsPrefix(Received(fd), sent[fd])
LoopAwake == \A fd \in Fds : stage[fd] = "ready" => (loop[fd] = "wait" <=> queue[fd] = <<>>)
=============================================================================
