---------------------------- MODULE SocketChannel ----------------------------
(***************************************************************************)
(* lualib/socketchannel.lua: the coroutines of a service share one         *)
(* connection to a server, which is opened again when it is lost.  Answers *)
(* name their request (the cluster, mongo) or come in order (redis).  The  *)
(* part of lualib/socket.lua it uses is here too, so that a coroutine may  *)
(* close the socket another one reads.  One coroutine runs at a time, from *)
(* where it was woken to where it waits; a step is a part of that.         *)
(***************************************************************************)
EXTENDS Integers, Sequences, FiniteSets, SequencesExt

CONSTANTS
  Callers,     \* coroutines that request, numbers from 1 on
  BySession,   \* whether the channel has __response
  Ops,         \* what others do to the channel: a set of "close", "connect", "changehost"
  MaxCall, MaxSock, MaxOps, MaxFail   \* bounds: requests, connections, Ops, lost connections

None    == 0
Other   == -1                            \* the coroutine of Ops
SocketError == -1                        \* socket_error, a result
Socks   == 1..MaxSock
Thread(i) == 100 + i                     \* the coroutine forked with connection i
Threads == {Thread(i) : i \in Socks}
Cos     == Callers \cup Threads \cup {Other}
Tags    == 1..MaxCall                    \* the requests

VARIABLES
  \* the channel
  sock, closed, connecting, dispatch_thread, connecting_thread,
  thread,      \* waiting for an answer: what of each request, in the order they were sent
  wait_response, result,
  \* sockets, of socket.lua and of the socket server
  conn,        \* "none", "open", "lost" until the service is told, "gone"
  pooled, reading, reader, closer,   \* socket_pool[id], s.read_required, s.co, s.closing
  buffer, server,                    \* answers to be read; requests the server has
  \* coroutines
  cur, woken, forked, pc, back,      \* back: where close_channel_socket returns to
  on,          \* the socket it reads or closes
  tag,         \* a caller's request; the one whose answer a thread waits for, in order
  outcome,     \* of a caller's last request: the answer it got, None for an error
  usable,      \* history: requests that failed although their connection was open
  sent,        \* history: the connection of each request
  nsock, calls, ops, fails

chanVars == <<sock, closed, connecting, dispatch_thread, connecting_thread>>
waitVars == <<thread, wait_response, result>>
poolVars == <<pooled, reading, reader, closer>>
netVars  == <<conn, buffer, server>>
coVars   == <<pc, back, on, tag>>
runVars  == <<cur, woken, forked>>
logVars  == <<outcome, usable, sent>>
counts   == <<nsock, calls, ops, fails>>
vars == <<chanVars, waitVars, poolVars, netVars, coVars, runVars, logVars, counts>>

Init ==
  /\ sock = None /\ closed = FALSE /\ connecting = <<>> /\ dispatch_thread = None
  /\ connecting_thread = None /\ thread = <<>> /\ wait_response = None
  /\ result = [c \in Callers |-> None]
  /\ conn = [i \in Socks |-> "none"] /\ pooled = {} /\ reading = {}
  /\ reader = [i \in Socks |-> None] /\ closer = [i \in Socks |-> None]
  /\ buffer = [i \in Socks |-> <<>>] /\ server = [i \in Socks |-> <<>>]
  /\ cur = None /\ woken = {} /\ forked = {}
  /\ pc = [c \in Cos |-> "idle"] /\ back = [c \in Cos |-> "idle"]
  /\ on = [c \in Cos |-> None] /\ tag = [c \in Cos |-> None]
  /\ outcome = [c \in Callers |-> None] /\ usable = {}
  /\ sent = [t \in Tags |-> None] /\ nsock = 0 /\ calls = 0 /\ ops = 0 /\ fails = 0

-----------------------------------------------------------------------------
(* Coroutines.                                                             *)
Go(c, p) == pc' = [pc EXCEPT ![c] = p]
Waiting(c) == pc[c] \in {"connwait", "opening", "wait", "closewait", "reading", "popwait", "threadwait"}
\* skynet.wakeup: only one that waits.
Woken(cs) == woken \cup {c \in cs \cap Cos : Waiting(c)}
Yield(cs) == cur' = None /\ woken' = Woken(cs)
Keep(cs)  == cur' = cur /\ woken' = Woken(cs)

\* The woken first, in any order, then what was forked.
Run(c) ==
  /\ cur = None /\ cur' = c
  /\ \/ c \in woken /\ woken' = woken \ {c} /\ UNCHANGED forked
     \/ woken = {} /\ c \in forked /\ forked' = forked \ {c} /\ UNCHANGED woken
  /\ UNCHANGED <<chanVars, waitVars, poolVars, netVars, coVars, logVars, counts>>
Quiet == cur = None /\ woken = {} /\ forked = {}
At(c, p) == cur = c /\ pc[c] = p

-----------------------------------------------------------------------------
(* block_connect, in a request and in channel:connect.                     *)
Begin(c) ==
  /\ Quiet /\ pc[c] = "idle" /\ calls < MaxCall /\ calls' = calls + 1
  /\ tag' = [tag EXCEPT ![c] = calls + 1] /\ Go(c, "block") /\ cur' = c
  /\ outcome' = [outcome EXCEPT ![c] = None]
  /\ UNCHANGED <<chanVars, waitVars, poolVars, netVars, back, on, woken, forked, usable, sent,
                 nsock, ops, fails>>

Connected(c) == IF c = Other THEN "idle" ELSE "send"
Raised(c) == IF c = Other THEN "idle" ELSE "raised"
Block(c) ==
  /\ At(c, "block")
  /\ \/ sock # None /\ Go(c, Connected(c)) /\ Keep({}) /\ UNCHANGED <<connecting, counts>>
     \/ sock = None /\ closed /\ Go(c, Raised(c)) /\ Keep({}) /\ UNCHANGED <<connecting, counts>>
     \/ /\ sock = None /\ ~closed /\ connecting # <<>>
        /\ connecting' = Append(connecting, c) /\ Go(c, "connwait") /\ Yield({})
        /\ UNCHANGED counts
     \/ /\ sock = None /\ ~closed /\ connecting = <<>> /\ nsock < MaxSock
        /\ nsock' = nsock + 1 /\ connecting' = <<None>> /\ Go(c, "opening") /\ Yield({})
        /\ UNCHANGED <<calls, ops, fails>>
  /\ UNCHANGED <<sock, closed, dispatch_thread, connecting_thread, waitVars, poolVars, netVars, back,
                 on, tag, forked, logVars>>

\* connect_once, when socket.open returns: the thread that reads the answers is forked.
Opened(c) ==
  /\ Quiet /\ pc[c] = "opening" /\ cur' = c /\ Go(c, "connected")
  /\ \/ /\ sock' = nsock /\ conn' = [conn EXCEPT ![nsock] = "open"] /\ pooled' = pooled \cup {nsock}
        /\ dispatch_thread' = Thread(nsock) /\ forked' = {Thread(nsock)}
        /\ UNCHANGED fails
     \/ /\ fails < MaxFail /\ fails' = fails + 1
        /\ UNCHANGED <<sock, conn, pooled, dispatch_thread, forked>>
  /\ UNCHANGED <<closed, connecting, connecting_thread, waitVars, reading, reader, closer, buffer,
                 server, back, on, tag, woken, logVars, nsock, calls, ops>>
\* The end of block_connect: the others that connect are woken, and look again.
Blocked(c) ==
  /\ \/ /\ At(c, "connected") /\ Keep({connecting[k] : k \in 2..Len(connecting)})
        /\ connecting' = <<>>
     \/ At(c, "connwait") /\ Keep({}) /\ UNCHANGED connecting
  /\ Go(c, IF sock # None THEN Connected(c) ELSE Raised(c))
  /\ UNCHANGED <<sock, closed, dispatch_thread, connecting_thread, waitVars, poolVars, netVars, back,
                 on, tag, forked, logVars, counts>>

\* channel:request and push_response; a multi part request (socket.lwrite) does not look
\* whether it could be written.
Send(c) ==
  /\ At(c, "send")
  /\ \/ /\ conn[sock] = "open" \/ BySession
        /\ server' = IF conn[sock] # "open" THEN server
                     ELSE [server EXCEPT ![sock] = Append(@, tag[c])]
        /\ sent' = [sent EXCEPT ![tag[c]] = sock]
        /\ thread' = Append(thread, [tag |-> tag[c], co |-> c])
        /\ Go(c, "wait") /\ Yield({wait_response}) /\ wait_response' = None
        /\ UNCHANGED back
     \/ /\ conn[sock] # "open" /\ Go(c, "close") /\ back' = [back EXCEPT ![c] = "failed"]
        /\ Keep({}) /\ UNCHANGED <<server, sent, thread, wait_response>>
  /\ UNCHANGED <<chanVars, result, poolVars, conn, buffer, on, tag, forked, outcome, usable,
                 counts>>

\* The end of wait_for_response
Answered(c) ==
  /\ At(c, "wait") /\ Go(c, "idle") /\ Yield({})
  /\ outcome' = [outcome EXCEPT ![c] = IF result[c] # SocketError THEN result[c] ELSE None]
  /\ result' = [result EXCEPT ![c] = None]
  /\ UNCHANGED <<chanVars, thread, wait_response, poolVars, netVars, back, on, tag, forked, usable,
                 sent, counts>>
RaisedError(c) ==
  /\ At(c, "raised") /\ Go(c, "idle") /\ Yield({})
  /\ UNCHANGED <<chanVars, waitVars, poolVars, netVars, back, on, tag, forked, logVars, counts>>

-----------------------------------------------------------------------------
(* close_channel_socket, with socket.close and the asserts of socket.lua,  *)
(* which the pcall hides.                                                  *)
CloseSocket(c) ==
  /\ At(c, "close") /\ sock' = None /\ on' = [on EXCEPT ![c] = sock]
  /\ \/ /\ sock \in pooled => conn[sock] # "gone" /\ reader[sock] # None /\ closer[sock] # None
        /\ Go(c, back[c]) /\ Keep({}) /\ UNCHANGED <<pooled, reader, closer, buffer>>
     \/ /\ sock \in pooled /\ conn[sock] = "gone"
        /\ pooled' = pooled \ {sock} /\ buffer' = [buffer EXCEPT ![sock] = <<>>]
        /\ Go(c, back[c]) /\ Keep({}) /\ UNCHANGED <<reader, closer>>
     \/ /\ sock \in pooled /\ conn[sock] # "gone"
        /\ \/ reader[sock] = None /\ reader' = [reader EXCEPT ![sock] = c] /\ UNCHANGED closer
           \/ /\ reader[sock] # None /\ closer[sock] = None
              /\ closer' = [closer EXCEPT ![sock] = c] /\ UNCHANGED reader
        /\ Go(c, "closewait") /\ Yield({}) /\ UNCHANGED <<pooled, buffer>>
  /\ UNCHANGED <<closed, connecting, dispatch_thread, connecting_thread, waitVars, reading, conn, server,
                 back, tag, forked, logVars, counts>>
CloseDone(c) ==
  /\ At(c, "closewait") /\ Go(c, back[c])
  /\ Keep(IF closer[on[c]] \notin {c, None} THEN {closer[on[c]]} ELSE {})
  /\ conn' = [conn EXCEPT ![on[c]] = "gone"] /\ pooled' = pooled \ {on[c]}
  /\ buffer' = [buffer EXCEPT ![on[c]] = <<>>]
  /\ UNCHANGED <<chanVars, waitVars, reading, reader, closer, server, back, on, tag, forked, logVars,
                 counts>>

\* wakeup_all; `extra' is the one whose request was taken off the list before.
Failing(extra) == {t \in Tags : t = extra \/ \E k \in 1..Len(thread) : thread[k].tag = t}
CallerOf(t) == CHOOSE c \in Callers : tag[c] = t
WakeAll(extra) ==
  LET cs == {CallerOf(t) : t \in Failing(extra)} IN
  /\ result' = [c \in Callers |-> IF c \in cs THEN SocketError ELSE result[c]]
  /\ usable' = usable \cup {t \in Failing(extra) : conn[sent[t]] = "open"}
  /\ thread' = <<>> /\ woken' = Woken(cs)

\* request: what could not be written fails, and all that wait with it.
Failed(c) ==
  /\ At(c, "failed") /\ WakeAll(None) /\ cur' = cur /\ Go(c, "raised")
  /\ UNCHANGED <<chanVars, wait_response, poolVars, netVars, back, on, tag, forked, outcome, sent,
                 counts>>

-----------------------------------------------------------------------------
(* The dispatch threads.                                                   *)
\* `while self.__sock', and pop_response if answers come in order.
Loop(t) ==
  /\ At(t, "idle") \/ At(t, "popwait")
  /\ \/ /\ pc[t] = "idle" /\ sock = None /\ Go(t, "exit") /\ Keep({})
        /\ UNCHANGED <<thread, wait_response, tag>>
     \/ /\ pc[t] = "idle" => sock # None
        /\ \/ /\ BySession /\ Go(t, "read") /\ Keep({}) /\ UNCHANGED <<thread, wait_response, tag>>
           \/ /\ ~BySession /\ thread = <<>> /\ wait_response' = t /\ Go(t, "popwait") /\ Yield({})
              /\ UNCHANGED <<thread, tag>>
           \/ /\ ~BySession /\ thread # <<>> /\ thread' = Tail(thread)
              /\ tag' = [tag EXCEPT ![t] = Head(thread).tag]
              /\ Go(t, IF Head(thread).co = None THEN "closing" ELSE "read") /\ Keep({})
              /\ UNCHANGED wait_response
  /\ UNCHANGED <<chanVars, result, poolVars, netVars, back, on, forked, logVars, counts>>
\* The close signal
Closing(t) ==
  /\ At(t, "closing") /\ WakeAll(None) /\ cur' = cur /\ Go(t, "exit")
  /\ UNCHANGED <<chanVars, wait_response, poolVars, netVars, back, on, tag, forked, outcome, sent,
                 counts>>

\* socket.read of the socket that is the channel's now; an error, also of an assert or of
\* a channel without a socket, closes it.
Read(t) ==
  /\ At(t, "read") /\ on' = [on EXCEPT ![t] = sock]
  /\ \/ /\ sock \in pooled /\ buffer[sock] = <<>> /\ conn[sock] # "gone"
        /\ sock \notin reading /\ reading' = reading \cup {sock}
        /\ \/ reader[sock] = None /\ reader' = [reader EXCEPT ![sock] = t]
              /\ Go(t, "reading") /\ Yield({}) /\ UNCHANGED back
           \/ reader[sock] # None /\ Go(t, "close") /\ back' = [back EXCEPT ![t] = "error"]
              /\ Keep({}) /\ UNCHANGED reader
     \/ /\ sock \in pooled /\ buffer[sock] # <<>> /\ Go(t, "got") /\ Keep({})
        /\ UNCHANGED <<reading, reader, back>>
     \/ /\ sock \in pooled => buffer[sock] = <<>> /\ (conn[sock] = "gone" \/ sock \in reading)
        /\ Go(t, "close") /\ back' = [back EXCEPT ![t] = "error"] /\ Keep({})
        /\ UNCHANGED <<reading, reader>>
  /\ UNCHANGED <<chanVars, waitVars, pooled, closer, netVars, tag, forked, logVars, counts>>
\* The end of suspend: whoever closes this socket is woken.
ReadDone(t) ==
  /\ At(t, "reading") /\ Keep({closer[on[t]]})
  /\ IF buffer[on[t]] # <<>> THEN Go(t, "got") /\ UNCHANGED back
     ELSE Go(t, "close") /\ back' = [back EXCEPT ![t] = "error"]
  /\ UNCHANGED <<chanVars, waitVars, poolVars, netVars, on, tag, forked, logVars, counts>>

\* Not so: gives the answer to the first that waits.
BadGotFor(t, a) == IF thread = <<>> THEN {} ELSE {Head(thread).tag}
\* Who gets answer a: the request it names, if that still waits, or the one it is the
\* turn of.
GotFor(t, a) ==
  IF ~BySession THEN {tag[t]} ELSE {r \in {a} : \E k \in 1..Len(thread) : thread[k].tag = r}
Got(t) ==
  /\ At(t, "got") /\ Go(t, "idle")
  /\ LET a == Head(buffer[on[t]])
         cs == {CallerOf(r) : r \in GotFor(t, a)}
     IN  /\ buffer' = [buffer EXCEPT ![on[t]] = Tail(@)]
         /\ result' = [c \in Callers |-> IF c \in cs THEN a ELSE result[c]]
         /\ thread' = SelectSeq(thread, LAMBDA r : r.tag \notin GotFor(t, a))
         /\ Keep(cs)
  /\ UNCHANGED <<chanVars, wait_response, poolVars, conn, server, back, on, tag, forked, logVars, counts>>
\* After close_channel_socket
Error(t) ==
  /\ At(t, "error") /\ WakeAll(IF BySession THEN None ELSE tag[t]) /\ cur' = cur /\ Go(t, "idle")
  /\ UNCHANGED <<chanVars, wait_response, poolVars, netVars, back, on, tag, forked, outcome, sent,
                 counts>>
\* exit_thread
Exit(t) ==
  /\ At(t, "exit") /\ Go(t, "dead")
  /\ dispatch_thread' = IF dispatch_thread = t THEN None ELSE dispatch_thread
  /\ Yield(IF dispatch_thread = t THEN {connecting_thread} ELSE {})
  /\ UNCHANGED <<sock, closed, connecting, connecting_thread, waitVars, poolVars, netVars, back, on, tag,
                 forked, logVars, counts>>

-----------------------------------------------------------------------------
(* channel:close, channel:connect(true) and channel:changehost.            *)
Op(o) ==
  /\ Quiet /\ pc[Other] = "idle" /\ o \in Ops /\ ops < MaxOps /\ ops' = ops + 1
  /\ \/ /\ o = "close" /\ ~closed /\ closed' = TRUE /\ Go(Other, "close") /\ cur' = Other
        /\ back' = [back EXCEPT ![Other] = "signal"] /\ tag' = [tag EXCEPT ![Other] = dispatch_thread]
        /\ UNCHANGED <<connecting_thread, woken>>
     \/ /\ o = "changehost" /\ ~closed /\ Go(Other, "close") /\ cur' = Other
        /\ back' = [back EXCEPT ![Other] = "done"] /\ UNCHANGED <<closed, connecting_thread, tag, woken>>
     \/ /\ o = "connect" /\ closed /\ dispatch_thread # None /\ connecting_thread' = Other
        /\ Go(Other, "threadwait") /\ Yield({}) /\ UNCHANGED <<closed, back, tag>>
     \/ /\ o = "connect" /\ (~closed \/ dispatch_thread = None) /\ closed' = FALSE
        /\ Go(Other, "block") /\ cur' = Other /\ UNCHANGED <<connecting_thread, back, tag, woken>>
  /\ UNCHANGED <<sock, connecting, dispatch_thread, waitVars, poolVars, netVars, on, forked,
                 logVars, nsock, calls, fails>>
\* The end of channel:close: the thread that waits for requests gets the close signal.
Signal ==
  /\ At(Other, "signal") /\ Go(Other, "idle")
  /\ IF ~BySession /\ dispatch_thread = tag[Other] /\ dispatch_thread # None
     THEN /\ thread' = Append(thread, [tag |-> None, co |-> None])
          /\ Yield({wait_response}) /\ wait_response' = None
     ELSE Yield({}) /\ UNCHANGED <<thread, wait_response>>
  /\ UNCHANGED <<chanVars, result, poolVars, netVars, back, on, tag, forked, logVars, counts>>
Done ==
  /\ \/ /\ At(Other, "threadwait") /\ connecting_thread' = None /\ closed' = FALSE
        /\ Go(Other, "block") /\ Keep({})
     \/ (At(Other, "done") \/ At(Other, "idle")) /\ Go(Other, "idle") /\ Yield({})
        /\ UNCHANGED <<closed, connecting_thread>>
  /\ UNCHANGED <<sock, connecting, dispatch_thread, waitVars, poolVars, netVars, back, on, tag, forked,
                 logVars, counts>>

-----------------------------------------------------------------------------
(* The server and the socket server.                                       *)
Answer(i) ==
  /\ Quiet /\ conn[i] = "open" /\ server[i] # <<>>
  /\ \E k \in 1..Len(server[i]) :
       /\ k = 1 \/ BySession
       /\ server' = [server EXCEPT ![i] = RemoveAt(@, k)]
       /\ buffer' = IF i \in pooled THEN [buffer EXCEPT ![i] = Append(@, server[i][k])] ELSE buffer
  /\ IF i \in reading THEN reading' = reading \ {i} /\ reader' = [reader EXCEPT ![i] = None]
                           /\ woken' = Woken({reader[i]})
                      ELSE UNCHANGED <<reading, reader, woken>>
  /\ UNCHANGED <<chanVars, waitVars, pooled, closer, conn, coVars, cur, forked, logVars, counts>>
\* The peer closes, or driver.close is carried out.
Lost(i) ==
  /\ conn[i] = "open" /\ conn' = [conn EXCEPT ![i] = "lost"]
  /\ IF i = sock THEN fails < MaxFail /\ fails' = fails + 1 ELSE UNCHANGED fails
  /\ UNCHANGED <<chanVars, waitVars, poolVars, buffer, server, coVars, runVars, outcome, usable, sent,
                 nsock, calls, ops>>
CloseEvent(i) ==
  /\ Quiet /\ conn[i] = "lost" /\ conn' = [conn EXCEPT ![i] = "gone"]
  /\ IF i \in pooled THEN woken' = Woken({reader[i]}) /\ reader' = [reader EXCEPT ![i] = None]
                     ELSE UNCHANGED <<woken, reader>>
  /\ UNCHANGED <<chanVars, waitVars, pooled, reading, closer, buffer, server, coVars, cur, forked, logVars,
                 counts>>

Next ==
  \/ \E c \in Cos : Run(c) \/ CloseSocket(c) \/ CloseDone(c)
  \/ \E c \in Callers : Begin(c) \/ Send(c) \/ Answered(c) \/ RaisedError(c) \/ Failed(c)
  \/ \E c \in Callers \cup {Other} : Block(c) \/ Opened(c) \/ Blocked(c)
  \/ \E t \in Threads : \/ Loop(t) \/ Closing(t) \/ Read(t) \/ ReadDone(t) \/ Got(t)
                        \/ Error(t) \/ Exit(t)
  \/ \E o \in Ops : Op(o)
  \/ Signal \/ Done
  \/ \E i \in Socks : Answer(i) \/ Lost(i) \/ CloseEvent(i)

Spec == Init /\ [][Next]_vars

-----------------------------------------------------------------------------
TypeOK ==
  /\ sock \in 0..MaxSock /\ pooled \subseteq Socks /\ woken \subseteq Cos /\ cur \in Cos \cup {None}
  /\ \A k \in 1..Len(thread) : thread[k].tag \in Tags \cup {None}

\* A caller gets the answer to its own request, or an error.  Not so if answers come in
\* order and others close the channel or change its host: requests that wait through
\* that are given answers of the next connection.
AnswerIsOwn == \A c \in Callers : outcome[c] \in {None, tag[c]}

\* One that waits is registered, and a thread waits for its connection: no answer, and no
\* loss of the connection, goes by unnoticed.  Not so if others close the channel or change
\* its host: those that still wait when the dispatch thread ends are never woken.
Served ==
  Quiet => \A c \in Callers : pc[c] = "wait" =>
    LET i == sent[tag[c]] IN
    /\ conn[i] \in {"open", "lost"} /\ reader[i] \in Callers \cup Threads
    /\ \/ \E k \in 1..Len(thread) : thread[k].tag = tag[c]
       \/ ~BySession /\ \E t \in Threads : tag[t] = tag[c] /\ pc[t] \in {"reading", "closewait"}

\* A request fails only with its connection.  Not so if answers name their request: one
\* that could not write waits until the lost socket is closed, and then fails all that
\* wait, also those of the connection another one has opened meanwhile.
ErrorIsTrue == usable = {}
=============================================================================
