---------------------------- MODULE SocketServer ----------------------------
(***************************************************************************)
(* The socket server of a node (socket_server.c, skynet_socket.c,          *)
(* socket_epoll.h): worker threads reserve an id and write requests into a *)
(* pipe, the socket thread serves the requests and the events of epoll.    *)
(*                                                                         *)
(* A slot's type and id are read and written by all threads without a      *)
(* lock, so each store of them that another thread can see is a step.  The *)
(* bytes and the owner (opaque) of a socket are left out: the lists of     *)
(* write buffers are the numbers of packets in them, and SocketIO models   *)
(* what is written.  A failing assert ends the process: `aborted'.         *)
(***************************************************************************)
EXTENDS Integers, Sequences, FiniteSets, FiniteSetsExt, SequencesExt

CONSTANTS
  Threads,    \* worker threads
  MaxSocket,  \* MAX_SOCKET (2^16 in the code)
  IdMod,      \* ids are 0..IdMod-1 (2^31)
  StartId,    \* alloc_id when the model starts: earlier sockets are closed
  MaxFd,      \* file descriptors of the process
  MaxPipe,    \* requests the pipe holds before write() blocks
  MaxEvent,   \* MAX_EVENT (64)
  MaxWb,      \* bound: packets queued on a socket
  MaxAlloc,   \* bound: ids taken from alloc_id
  Ops         \* requests that workers make, letters of struct request_package

VARIABLES
  slot,      \* ss->slot
  allocId,   \* ss->alloc_id; IdMod and above stand for the negative numbers
  pipe,      \* requests written and not yet read
  fds,       \* open file descriptors
  epoll,     \* fd -> [s, w]: its slot and whether writability is asked for
  ev,        \* ss->ev from event_index on
  checkctrl, \* ss->checkctrl
  spc,       \* the socket thread: "poll", "failed", "clear", "exit", "released"
  result,    \* the message it is about to forward, or forwarded last
  aborted,   \* the assert that failed, or "no"
  wpc, wreq, \* a worker: its place in reserve_id, and the request it builds
  known,     \* ids that services were told
  allocs,    \* history: ids taken from alloc_id
  ended,     \* history: ids whose socket was closed or never came to be
  raced      \* history: slots on which one of the races below was met

kernVars == <<fds, epoll>>
workVars == <<wpc, wreq, allocId, allocs>>
vars == <<slot, allocId, pipe, fds, epoll, ev, checkctrl, spc, result, aborted,
          wpc, wreq, known, allocs, ended, raced>>

Slots == 0..(MaxSocket - 1)
Fd    == 1..MaxFd
NoFd  == -1
UserFd == MaxFd + 1   \* a descriptor of the process itself, stdin, given to bind
None  == [type |-> "none", id |-> -1]

\* HASH_ID
Hash(id) == id % MaxSocket

NoReq == [cmd |-> "none", id |-> 0, fd |-> NoFd]

Init ==
  /\ slot = [s \in Slots |-> [type |-> "INVALID", id |-> -1, fd |-> NoFd,
                              proto |-> "tcp", high |-> 0, low |-> 0]]
  /\ allocId = StartId /\ pipe = <<>> /\ fds = {} /\ epoll = [f \in {} |-> 0]
  /\ ev = <<>> /\ checkctrl = TRUE /\ spc = "poll" /\ result = None /\ aborted = "no"
  /\ wpc = [t \in Threads |-> "idle"] /\ wreq = [t \in Threads |-> NoReq]
  /\ known = {} /\ allocs = 0 /\ ended = {} /\ raced = {}

-----------------------------------------------------------------------------
(* Worker threads.                                                         *)

FreeFds == Fd \ (fds \cup {wreq[t].fd : t \in Threads} \cup {pipe[i].fd : i \in 1..Len(pipe)})

\* send_request: a write into a full pipe blocks.
PipeHasRoom  == Len(pipe) < MaxPipe
SendRequest(r) == PipeHasRoom /\ pipe' = Append(pipe, r)

\* The descriptor in a request: of a new listening or datagram socket, or the caller's.
RequestFd(cmd) == CASE cmd = "O" -> NoFd [] cmd = "B" -> UserFd [] OTHER -> Min(FreeFds)

\* socket_server_connect, _listen, _bind and _udp up to reserve_id.  do_bind has
\* made the descriptor of "L" and "U" (its failures return -1 and change nothing);
\* the one of "B" is the caller's.
Begin(t, cmd) ==
  /\ wpc[t] = "idle" /\ cmd \in Ops \cap {"O", "L", "B", "U"}
  /\ LET f == RequestFd(cmd)
     IN  /\ cmd \in {"L", "U"} => FreeFds # {}
         /\ wreq' = [wreq EXCEPT ![t] = [cmd |-> cmd, id |-> 0, fd |-> f, tries |-> 0]]
         /\ fds' = IF cmd \in {"O", "B"} THEN fds ELSE fds \cup {f}
  /\ wpc' = [wpc EXCEPT ![t] = "alloc"]
  /\ UNCHANGED <<slot, allocId, pipe, epoll, ev, checkctrl, spc, result, aborted, known, allocs, ended, raced>>

\* reserve_id: ATOM_INC(&ss->alloc_id)
Alloc(t) ==
  /\ wpc[t] = "alloc" /\ allocs < MaxAlloc
  /\ allocId' = allocId + 1 /\ allocs' = allocs + 1
  /\ wreq' = [wreq EXCEPT ![t].id = allocId + 1, ![t].tries = @ + 1]
  /\ wpc' = [wpc EXCEPT ![t] = IF allocId + 1 >= IdMod THEN "wrap" ELSE "cas"]
  /\ UNCHANGED <<slot, pipe, ev, checkctrl, spc, result, aborted, known, ended, raced>> /\ UNCHANGED kernVars

\* reserve_id: a negative id; ATOM_AND(&ss->alloc_id, 0x7fffffff)
AllocWrap(t) ==
  /\ wpc[t] = "wrap"
  /\ allocId' = allocId % IdMod
  /\ wreq' = [wreq EXCEPT ![t].id = allocId % IdMod]
  /\ wpc' = [wpc EXCEPT ![t] = "cas"]
  /\ UNCHANGED <<slot, pipe, ev, checkctrl, spc, result, aborted, known, allocs, ended, raced>>
  /\ UNCHANGED kernVars

\* An operator named Bad... is a plausible error in the one after it.

\* Three races that the code does not exclude.  A worker reserves a slot between
\* the two stores that give it up after a failed sp_add; or before
\* clear_closed_event has dropped the event of the socket that was there; and a
\* request for an old id meets a slot reserved again, whose id is not stored yet.
ReservedTwice(s) == spc = "failed" /\ Hash(result.id) = s
ReservedStale(s) == spc \in {"failed", "clear"} /\ \E i \in 1..Len(ev) : ev[i].s = s
ServedReserved(r) == slot[Hash(r.id)].type = "RESERVE" /\ slot[Hash(r.id)].id = r.id

\* reserve_id: the test and the ATOM_CAS of s->type.  After MAX_SOCKET tries the
\* caller closes its descriptor and returns -1.
Cas(t) ==
  LET s == Hash(wreq[t].id)
      free == slot[s].type = "INVALID"
      giveUp == ~free /\ wreq[t].tries = MaxSocket
  IN  /\ wpc[t] = "cas"
      /\ slot' = IF free THEN [slot EXCEPT ![s].type = "RESERVE"] ELSE slot
      /\ wpc' = [wpc EXCEPT ![t] = CASE free -> "store" [] giveUp -> "idle" [] OTHER -> "alloc"]
      /\ wreq' = IF giveUp THEN [wreq EXCEPT ![t] = NoReq] ELSE wreq
      /\ fds' = IF giveUp THEN fds \ {wreq[t].fd} ELSE fds
      /\ raced' = IF free /\ (ReservedTwice(s) \/ ReservedStale(s)) THEN raced \cup {s} ELSE raced
      /\ UNCHANGED <<allocId, pipe, epoll, ev, checkctrl, spc, result, aborted, known, allocs, ended>>

\* reserve_id: s->id = id; s->fd = -1
StoreId(t) ==
  /\ wpc[t] = "store"
  /\ slot' = [slot EXCEPT ![Hash(wreq[t].id)].id = wreq[t].id, ![Hash(wreq[t].id)].fd = NoFd]
  /\ wpc' = [wpc EXCEPT ![t] = "send"]
  /\ UNCHANGED <<allocId, pipe, ev, checkctrl, spc, result, aborted, wreq, known, allocs, ended, raced>>
  /\ UNCHANGED kernVars

\* send_request 'O', 'L', 'B' or 'U'; the id is returned to the service.
SendReserved(t) ==
  /\ wpc[t] = "send"
  /\ SendRequest([cmd |-> wreq[t].cmd, id |-> wreq[t].id, fd |-> wreq[t].fd])
  /\ known' = known \cup {wreq[t].id}
  /\ wpc' = [wpc EXCEPT ![t] = "idle"] /\ wreq' = [wreq EXCEPT ![t] = NoReq]
  /\ UNCHANGED <<slot, allocId, ev, checkctrl, spc, result, aborted, allocs, ended, raced>>
  /\ UNCHANGED kernVars

\* The calls that only write a request: socket_server_start, _close, _shutdown
\* ("W"), _nodelay, _udp_connect.
Plain == Ops \cap {"S", "K", "W", "T", "C"}
Request(cmd, id) ==
  /\ cmd \in Plain /\ id \in known
  /\ SendRequest([cmd |-> cmd, id |-> id, fd |-> NoFd])
  /\ UNCHANGED <<slot, ev, checkctrl, spc, result, aborted, known, ended>>
  /\ UNCHANGED kernVars /\ UNCHANGED <<workVars, raced>>

\* Bound: a packet is sent only while fewer than MaxWb are on their way.
Queued(id) == slot[Hash(id)].high + slot[Hash(id)].low
              + Cardinality({i \in 1..Len(pipe) : pipe[i].cmd \in {"D", "P"}})

\* socket_server_send, _send_lowpriority and _udp_send: a request only if the slot
\* looks alive now; else the buffer is freed.
Send(cmd, id) ==
  /\ cmd \in Ops \cap {"D", "P"} /\ id \in known /\ Queued(id) < MaxWb
  /\ slot[Hash(id)].id = id /\ slot[Hash(id)].type # "INVALID"
  /\ SendRequest([cmd |-> cmd, id |-> id, fd |-> NoFd])
  /\ UNCHANGED <<slot, ev, checkctrl, spc, result, aborted, known, ended>>
  /\ UNCHANGED kernVars /\ UNCHANGED <<workVars, raced>>

\* socket_server_exit
Exit ==
  /\ "X" \in Ops /\ SendRequest([cmd |-> "X", id |-> 0, fd |-> NoFd])
  /\ \A i \in 1..Len(pipe) : pipe[i].cmd # "X"
  /\ UNCHANGED <<slot, ev, checkctrl, spc, result, aborted, known, ended>>
  /\ UNCHANGED kernVars /\ UNCHANGED <<workVars, raced>>

-----------------------------------------------------------------------------
(* The socket thread: pieces of its handlers.                              *)

Msg(type, id) == [type |-> type, id |-> id]

NotInPoll == {"PACCEPT", "PLISTEN"}  \* types whose fd is not in epoll yet

\* sp_write
SpWrite(f, on)    == [epoll EXCEPT ![f].w = on]

\* force_close, with the message it leaves in *result.
BadForceCloseLeak(s, msg) ==
  /\ slot' = [slot EXCEPT ![s].type = "INVALID", ![s].high = 0, ![s].low = 0]
  /\ epoll' = [f \in DOMAIN epoll \ {slot[s].fd} |-> epoll[f]]
  /\ ended' = ended \cup {slot[s].id} /\ result' = msg /\ UNCHANGED <<fds, aborted>>
ForceClose(s, msg) ==
  IF slot[s].type = "RESERVE"
  THEN /\ aborted' = "force_close" /\ result' = msg
       /\ UNCHANGED <<slot, fds, epoll, ended>>
  ELSE /\ slot' = [slot EXCEPT ![s].type = "INVALID", ![s].high = 0, ![s].low = 0]
       /\ epoll' = IF slot[s].type \in NotInPoll THEN epoll
                   ELSE [f \in DOMAIN epoll \ {slot[s].fd} |-> epoll[f]]
       /\ fds' = fds \ {slot[s].fd}
       /\ ended' = ended \cup {slot[s].id} /\ result' = msg
       /\ UNCHANGED aborted

\* new_fd, when its asserts hold; type is stored by the caller.
NewFd(r, fd, proto, type) ==
  slot' = [slot EXCEPT ![Hash(r.id)] =
             [type |-> type, id |-> r.id, fd |-> fd, proto |-> proto, high |-> 0, low |-> 0]]
\* The asserts of new_fd: the slot is reserved, its lists are empty.
NewFdAsserts(r) ==
  CASE slot[Hash(r.id)].type # "RESERVE" -> "new_fd"
    [] slot[Hash(r.id)].high + slot[Hash(r.id)].low > 0 -> "wb_list"
    [] OTHER -> "no"
SpAdd(fd, s, w) == epoll' = [f \in DOMAIN epoll \cup {fd} |->
                               IF f = fd THEN [s |-> s, w |-> w] ELSE epoll[f]]

\* send_buffer: what it may leave in the two lists.  Step 1 writes some of the high
\* list; steps 2 and 3, if that is empty now, some of the low list, whose head
\* moves to the high list if it was written in part; step 4: nothing is left.
Sent(s) ==
  LET h == slot[s].high  l == slot[s].low  tcp == slot[s].proto = "tcp"
  IN  IF slot[s].fd \notin fds \cup {UserFd} THEN {[st |-> "failed", h |-> h, l |-> l]} ELSE
      {[st |-> "failed", h |-> h, l |-> l] : x \in {1 : y \in IF tcp /\ h + l > 0 THEN {1} ELSE {}}}
      \cup {[st |-> "more", h |-> x, l |-> l] : x \in 1..h}
      \cup {[st |-> "more", h |-> 0, l |-> x] : x \in IF l > 0 THEN 0..l ELSE {}}
      \cup {[st |-> "more", h |-> 1, l |-> x] : x \in IF l > 0 /\ tcp THEN 0..(l - 1) ELSE {}}
      \cup {[st |-> "idle", h |-> 0, l |-> 0] : x \in IF l = 0 THEN {1} ELSE {}}

BadEnds(s, o) == o.st = "failed"
\* send_buffer returns SOCKET_CLOSE
Ends(s, o) == o.st = "failed" \/ (o.st = "idle" /\ slot[s].type = "HALFCLOSE")

-----------------------------------------------------------------------------
(* The socket thread: ctrl_cmd.                                            *)

Valid(r) == slot[Hash(r.id)].type # "INVALID" /\ slot[Hash(r.id)].id = r.id

\* socket_server_poll reads a request; what its handler returns is forwarded
\* after clear_closed_event, nothing if it returns -1.
Cmd(cmds) ==
  /\ spc = "poll" /\ checkctrl /\ pipe # <<>> /\ pipe[1].cmd \in cmds
  /\ pipe' = Tail(pipe)
  /\ raced' = IF pipe[1].cmd \in {"S", "K", "W", "D", "P", "T", "C"} /\ ServedReserved(pipe[1])
              THEN raced \cup {Hash(pipe[1].id)} ELSE raced
  /\ UNCHANGED <<ev, checkctrl, known>> /\ UNCHANGED workVars
Silent == spc' = "poll" /\ result' = None
Forward(msg) == spc' = "clear" /\ result' = msg

\* start_socket
StartSocket ==
  LET r == pipe[1]  s == Hash(r.id)  ty == slot[s].type
  IN  /\ Cmd({"S"})
      /\ \/ /\ ~Valid(r) /\ Forward(Msg("ERROR", r.id))
            /\ UNCHANGED <<slot, ended, aborted>> /\ UNCHANGED kernVars
         \/ /\ Valid(r) /\ ty \in NotInPoll   \* sp_add fails
            /\ ForceClose(s, Msg("ERROR", r.id)) /\ spc' = "clear"
         \/ /\ Valid(r) /\ ty \in NotInPoll
            /\ SpAdd(slot[s].fd, s, FALSE) /\ UNCHANGED fds
            /\ slot' = [slot EXCEPT ![s].type = IF ty = "PACCEPT" THEN "CONNECTED" ELSE "LISTEN"]
            /\ Forward(Msg("OPEN", r.id)) /\ UNCHANGED <<ended, aborted>>
         \/ /\ Valid(r) /\ ty = "CONNECTED" /\ Forward(Msg("OPEN", r.id))
            /\ UNCHANGED <<slot, ended, aborted>> /\ UNCHANGED kernVars
         \/ /\ Valid(r) /\ ty \notin NotInPoll \cup {"CONNECTED"} /\ Silent
            /\ UNCHANGED <<slot, ended, aborted>> /\ UNCHANGED kernVars

Abort(r) == /\ NewFdAsserts(r) # "no" /\ aborted' = NewFdAsserts(r)
            /\ UNCHANGED <<slot, ended, spc, result>> /\ UNCHANGED kernVars

\* sp_add fails in new_fd: the slot is given up.  open_socket and add_udp_socket
\* give it up a second time, in the step AddFailed.
SpAddFails(r, fd) ==
  /\ NewFdAsserts(r) = "no"
  /\ slot' = [slot EXCEPT ![Hash(r.id)].type = "INVALID"]
  /\ fds' = fds \ {fd} /\ ended' = ended \cup {r.id} /\ UNCHANGED <<epoll, aborted>>

\* bind_socket and listen_socket; a descriptor given to bind_socket is never closed
BindSocket ==
  LET r == pipe[1]
  IN  /\ Cmd({"B"})
      /\ \/ Abort(r)
         \/ SpAddFails(r, NoFd) /\ Forward(Msg("ERROR", r.id))
         \/ /\ NewFdAsserts(r) = "no" /\ r.fd \notin DOMAIN epoll
            /\ NewFd(r, r.fd, "tcp", "BIND") /\ SpAdd(r.fd, Hash(r.id), FALSE) /\ UNCHANGED <<fds, ended, aborted>>
            /\ Forward(Msg("OPEN", r.id))

ListenSocket ==
  LET r == pipe[1]
  IN  /\ Cmd({"L"})
      /\ \/ Abort(r)
         \/ /\ NewFdAsserts(r) = "no" /\ NewFd(r, r.fd, "tcp", "PLISTEN") /\ Silent
            /\ UNCHANGED <<ended, aborted>> /\ UNCHANGED kernVars

\* open_socket: no address or no connection; the asserts; sp_add fails; the
\* connection is made at once; the connection is in progress.
OpenSocket ==
  LET r == pipe[1]  s == Hash(r.id)
  IN  /\ Cmd({"O"})
      /\ \/ /\ slot' = [slot EXCEPT ![s].type = "INVALID"] /\ ended' = ended \cup {r.id}
            /\ Forward(Msg("ERROR", r.id)) /\ UNCHANGED aborted /\ UNCHANGED kernVars
         \/ FreeFds # {} /\ Abort(r)
         \/ FreeFds # {} /\ SpAddFails(r, NoFd) /\ spc' = "failed" /\ result' = Msg("ERROR", r.id)
         \/ /\ FreeFds # {} /\ NewFdAsserts(r) = "no"
            /\ fds' = fds \cup {Min(FreeFds)} /\ UNCHANGED <<ended, aborted>>
            /\ \/ /\ NewFd(r, Min(FreeFds), "tcp", "CONNECTED") /\ SpAdd(Min(FreeFds), s, FALSE)
                  /\ Forward(Msg("OPEN", r.id))
               \/ /\ NewFd(r, Min(FreeFds), "tcp", "CONNECTING") /\ SpAdd(Min(FreeFds), s, TRUE)
                  /\ Silent

\* add_udp_socket
AddUdpSocket ==
  LET r == pipe[1]
  IN  /\ Cmd({"U"})
      /\ \/ Abort(r)
         \/ SpAddFails(r, r.fd) /\ spc' = "failed" /\ result' = Msg("none", r.id)
         \/ /\ NewFdAsserts(r) = "no" /\ NewFd(r, r.fd, "udp", "CONNECTED")
            /\ SpAdd(r.fd, Hash(r.id), FALSE) /\ Silent /\ UNCHANGED <<fds, ended, aborted>>

\* The second ss->slot[HASH_ID(id)].type = SOCKET_TYPE_INVALID
AddFailed ==
  /\ spc = "failed"
  /\ slot' = [slot EXCEPT ![Hash(result.id)].type = "INVALID"]
  /\ spc' = IF result.type = "none" THEN "poll" ELSE "clear"
  /\ UNCHANGED <<pipe, ev, checkctrl, result, aborted, known, ended>>
  /\ UNCHANGED kernVars /\ UNCHANGED <<workVars, raced>>

\* close_socket, 'K' with and without request->shutdown ("W", "K")
ToHalf(o, r) == r.cmd = "K" /\ o.h + o.l > 0
CloseSocket ==
  LET r == pipe[1]  s == Hash(r.id)
  IN  /\ Cmd({"K", "W"})
      /\ \/ /\ ~Valid(r) /\ Forward(Msg("CLOSE", r.id))
            /\ UNCHANGED <<slot, ended, aborted>> /\ UNCHANGED kernVars
         \/ /\ Valid(r)
            /\ \E o \in IF slot[s].high + slot[s].low = 0 THEN {[st |-> "none", h |-> 0, l |-> 0]}
                        ELSE Sent(s) :
                 IF ~Ends(s, o) /\ ToHalf(o, r)
                 THEN /\ slot' = [slot EXCEPT ![s].high = o.h, ![s].low = o.l, ![s].type = "HALFCLOSE"]
                      /\ Silent /\ UNCHANGED <<ended, aborted>> /\ UNCHANGED kernVars
                 ELSE ForceClose(s, Msg("CLOSE", r.id)) /\ spc' = "clear"

\* send_socket: refused; written directly, in whole or in part, or the write fails;
\* queued.  An error of sendto counts as nothing written.
SendSocket ==
  LET r == pipe[1]  s == Hash(r.id)  so == slot[s]
      refused == ~Valid(r) \/ so.type \in {"HALFCLOSE", "PACCEPT", "PLISTEN", "LISTEN"}
      direct == so.high + so.low = 0 /\ so.type = "CONNECTED"
      toHigh == r.cmd = "D" \/ (direct /\ so.proto = "tcp")
  IN  /\ Cmd({"D", "P"})
      /\ \/ /\ refused \/ direct
            /\ Silent /\ UNCHANGED <<slot, ended, aborted>> /\ UNCHANGED kernVars
         \/ /\ ~refused /\ direct /\ so.proto = "tcp"
            /\ ForceClose(s, Msg("CLOSE", r.id)) /\ spc' = "clear"
         \/ /\ ~refused
            /\ slot' = [slot EXCEPT ![s].high = IF toHigh THEN @ + 1 ELSE @,
                                    ![s].low = IF toHigh THEN @ ELSE @ + 1]
            /\ epoll' = IF direct THEN SpWrite(so.fd, TRUE) ELSE epoll
            /\ Silent /\ UNCHANGED <<fds, ended, aborted>>

\* setopt_socket sets an option of the descriptor; set_udp_address answers an
\* address of the wrong kind with an error.
SetOpt ==
  LET r == pipe[1]
  IN  /\ Cmd({"T", "C"})
      /\ \/ Silent
         \/ r.cmd = "C" /\ Valid(r) /\ Forward(Msg("ERROR", r.id))
      /\ UNCHANGED <<slot, ended, aborted>> /\ UNCHANGED kernVars

\* ctrl_cmd 'X': skynet_socket_poll returns 0 and the thread ends
ExitCmd ==
  /\ Cmd({"X"}) /\ spc' = "exit" /\ result' = None
  /\ UNCHANGED <<slot, ended, aborted>> /\ UNCHANGED kernVars

\* clear_closed_event, before the message of a request is forwarded
BadStaleEvents == {}
StaleEvents ==
  IF result.type \in {"CLOSE", "ERROR"}
  THEN {i \in 1..Len(ev) : /\ ev[i].s \in Slots /\ slot[ev[i].s].type = "INVALID"
                           /\ slot[ev[i].s].id = result.id}
  ELSE {}
ClearClosedEvent ==
  /\ spc = "clear" /\ spc' = "poll" /\ result' = None
  /\ ev' = IF StaleEvents = {} THEN ev ELSE [ev EXCEPT ![Min(StaleEvents)].s = -1]
  /\ UNCHANGED <<slot, pipe, checkctrl, aborted, known, ended>>
  /\ UNCHANGED kernVars /\ UNCHANGED <<workVars, raced>>

-----------------------------------------------------------------------------
(* The socket thread: events.                                              *)

\* has_cmd finds the pipe empty.
NoCmd ==
  /\ spc = "poll" /\ checkctrl /\ pipe = <<>> /\ checkctrl' = FALSE
  /\ UNCHANGED <<slot, pipe, ev, spc, result, aborted, known, ended>>
  /\ UNCHANGED kernVars /\ UNCHANGED <<workVars, raced>>

\* sp_wait: some of the registered descriptors, in any order; those of a socket
\* asked about writing may be writable.  An event of the pipe itself has s = NULL.
SpWait ==
  /\ spc = "poll" /\ ~checkctrl /\ ev = <<>> /\ checkctrl' = TRUE
  /\ \E n \in 0..Min({MaxEvent, Cardinality(DOMAIN epoll)}) :
     \E q \in [1..n -> DOMAIN epoll], rw \in [1..n -> {"r", "w", "rw"}] :
       /\ \A i, j \in 1..n : i # j => q[i] # q[j]
       /\ \A i \in 1..n : rw[i] # "r" => epoll[q[i]].w
       /\ ev' = [i \in 1..n |-> [s |-> epoll[q[i]].s, r |-> rw[i] # "w", w |-> rw[i] # "r"]]
  /\ UNCHANGED <<slot, pipe, spc, result, aborted, known, ended>>
  /\ UNCHANGED kernVars /\ UNCHANGED <<workVars, raced>>

\* The next event is for slot s, whose type is in ty.  It is consumed, or kept
\* with read cleared or for another read.
Event(s, ty, keep) ==
  /\ spc = "poll" /\ ~checkctrl /\ ev # <<>> /\ ev[1].s = s /\ slot[s].type \in ty
  /\ ev' = keep \o Tail(ev)
  /\ UNCHANGED <<pipe, checkctrl, spc, known>> /\ UNCHANGED <<workVars, raced>>

NoChange == UNCHANGED <<slot, ended, aborted>> /\ UNCHANGED kernVars

\* Nothing to do: a cleared event, or one of a slot that is free now.
SkipEvent ==
  /\ spc = "poll" /\ ~checkctrl /\ ev # <<>>
  /\ ev[1].s \in Slots => slot[ev[1].s].type = "INVALID"
  /\ ev' = Tail(ev) /\ result' = None
  /\ UNCHANGED <<pipe, checkctrl, spc, known>> /\ UNCHANGED <<workVars, raced>> /\ NoChange

\* report_connect
ReportConnect(s) ==
  /\ Event(s, {"CONNECTING"}, <<>>)
  /\ \/ ForceClose(s, Msg("ERROR", slot[s].id))
     \/ /\ slot' = [slot EXCEPT ![s].type = "CONNECTED"] /\ result' = Msg("OPEN", slot[s].id)
        /\ epoll' = IF slot[s].high + slot[s].low = 0 THEN SpWrite(slot[s].fd, FALSE) ELSE epoll
        /\ UNCHANGED <<fds, ended, aborted>>

\* report_accept: accept fails, or there is no descriptor (an error of the
\* listening socket, which stays), or no slot; else the client waits in a slot of
\* its own until it is started.  The socket thread runs reserve_id here.
AcceptFails(s) ==
  /\ Event(s, {"LISTEN"}, <<>>) /\ result' \in {None, Msg("ERROR", slot[s].id)} /\ NoChange
Tries == {n \in 1..MaxSocket : slot[Hash(allocId + n)].type = "INVALID"}
ReportAccept(s) ==
  LET n == Min(Tries)  id == (allocId + n) % IdMod
  IN  /\ spc = "poll" /\ ~checkctrl /\ ev # <<>> /\ ev[1].s = s /\ slot[s].type = "LISTEN"
      /\ ev' = Tail(ev) /\ FreeFds # {} /\ Tries # {} /\ allocs + n <= MaxAlloc
      /\ allocId' = id /\ allocs' = allocs + n
      /\ NewFd([id |-> id], Min(FreeFds), "tcp", "PACCEPT") /\ fds' = fds \cup {Min(FreeFds)}
      /\ result' = Msg("ACCEPT", slot[s].id) /\ known' = known \cup {id}
      /\ UNCHANGED <<epoll, pipe, checkctrl, spc, aborted, ended, wpc, wreq, raced>>

Default == {"RESERVE", "PLISTEN", "CONNECTED", "HALFCLOSE", "PACCEPT", "BIND"}

\* forward_message_tcp and _udp: interrupted; end of file or an error (to read from
\* a closed descriptor is one); data, which a half-closed socket discards.
ReadAgain(s) ==
  /\ ev # <<>> /\ ev[1].r /\ slot[s].fd \in fds \cup {UserFd}
  /\ Event(s, Default, IF ev[1].w THEN <<[ev[1] EXCEPT !.r = FALSE]>> ELSE <<>>)
  /\ result' = None /\ NoChange
ReadEnd(s) ==
  /\ ev # <<>> /\ ev[1].r
  /\ Event(s, Default, <<>>)
  /\ \E ty \in IF slot[s].proto = "tcp" THEN {"CLOSE", "ERROR"} ELSE {"ERROR"} :
       ForceClose(s, Msg(ty, slot[s].id))
ReadData(s) ==
  /\ ev # <<>> /\ ev[1].r /\ slot[s].fd \in fds \cup {UserFd}
  /\ Event(s, Default, CASE slot[s].proto = "udp" -> <<ev[1]>>
                         [] slot[s].proto = "tcp" /\ ev[1].w -> <<[ev[1] EXCEPT !.r = FALSE]>>
                         [] OTHER -> <<>>)
  /\ result' = CASE slot[s].proto = "udp" -> Msg("UDP", slot[s].id)
                 [] slot[s].type = "HALFCLOSE" -> None
                 [] OTHER -> Msg("DATA", slot[s].id)
  /\ NoChange

\* A write event: send_buffer.
WriteEvent(s) ==
  /\ ev # <<>> /\ ~ev[1].r /\ Event(s, Default, <<>>)
  /\ \E o \in Sent(s) :
       IF Ends(s, o) THEN ForceClose(s, Msg("CLOSE", slot[s].id))
       ELSE /\ slot' = [slot EXCEPT ![s].high = o.h, ![s].low = o.l]
            /\ epoll' = IF o.st = "idle" THEN SpWrite(slot[s].fd, FALSE) ELSE epoll
            /\ result' = None /\ UNCHANGED <<fds, ended, aborted>>

\* socket_server_release, once the threads are joined
Release ==
  /\ spc = "exit" /\ spc' = "released" /\ \A t \in Threads : wpc[t] = "idle"
  /\ LET gone == {s \in Slots : slot[s].type \notin {"RESERVE", "INVALID"}}
     IN  /\ slot' = [s \in Slots |-> IF s \in gone THEN [slot[s] EXCEPT !.type = "INVALID", !.high = 0, !.low = 0]
                                     ELSE slot[s]]
         /\ ended' = ended \cup {slot[s].id : s \in gone}
         /\ fds' = fds \ {slot[s].fd : s \in gone}
  /\ epoll' = [f \in {} |-> 0]
  /\ UNCHANGED <<pipe, ev, checkctrl, result, aborted, known>> /\ UNCHANGED <<workVars, raced>>

Serve ==
  \/ StartSocket \/ BindSocket \/ ListenSocket \/ OpenSocket \/ AddUdpSocket \/ AddFailed
  \/ CloseSocket \/ SendSocket \/ SetOpt \/ ExitCmd \/ ClearClosedEvent \/ NoCmd \/ SpWait
  \/ SkipEvent
  \/ \E s \in Slots : \/ ReportConnect(s) \/ AcceptFails(s) \/ ReportAccept(s) \/ ReadAgain(s)
                      \/ ReadEnd(s) \/ ReadData(s) \/ WriteEvent(s)

Work ==
  \/ \E t \in Threads : \/ \E cmd \in Ops : Begin(t, cmd)
                        \/ Alloc(t) \/ AllocWrap(t) \/ Cas(t) \/ StoreId(t) \/ SendReserved(t)
  \/ \E cmd \in Ops, id \in known : Request(cmd, id) \/ Send(cmd, id)
  \/ Exit

Next == aborted = "no" /\ ((spc # "released" /\ Work) \/ Serve \/ Release)
Spec == Init /\ [][Next]_vars

\* The socket thread runs, it notices an empty pipe, and the peer of a socket with
\* queued packets keeps reading: again and again epoll reports the sockets it
\* watches for writing, and a write takes all there is.
AllWritable == SpWait /\ \A f \in DOMAIN epoll : epoll[f].w =>
                            \E i \in 1..Len(ev') : ev'[i].s = epoll[f].s /\ ev'[i].w
Drain(s)    == WriteEvent(s) /\ slot'[s].high + slot'[s].low = 0
Fairness == /\ WF_vars(aborted = "no" /\ Serve)
            /\ SF_vars(aborted = "no" /\ NoCmd) /\ SF_vars(aborted = "no" /\ AllWritable)
            /\ \A s \in Slots : SF_vars(aborted = "no" /\ Drain(s))
LiveSpec == Spec /\ Fairness

-----------------------------------------------------------------------------
Types == {"INVALID", "RESERVE", "PLISTEN", "LISTEN", "CONNECTING", "CONNECTED",
          "HALFCLOSE", "PACCEPT", "BIND"}
TypeOK ==
  /\ \A s \in Slots : /\ slot[s].type \in Types /\ slot[s].fd \in Fd \cup {NoFd, UserFd}
                      /\ slot[s].high + slot[s].low <= MaxWb + 1
  /\ allocId \in Nat /\ (allocId >= IdMod => \E t \in Threads : wpc[t] = "wrap") /\ Len(pipe) <= MaxPipe /\ fds \subseteq Fd
  /\ DOMAIN epoll \subseteq Fd \cup {UserFd} /\ Len(ev) <= MaxEvent /\ checkctrl \in BOOLEAN
  /\ spc \in {"poll", "failed", "clear", "exit", "released"}
  /\ aborted \in {"no", "new_fd", "wb_list", "force_close"}

Live(s) == slot[s].type \notin {"INVALID", "RESERVE"}

\* Every socket owns an open descriptor of its own, under an id of its slot, and
\* epoll knows exactly the descriptors of the sockets that were started, each with
\* the slot it belongs to: no descriptor is closed while it is registered, none
\* is closed twice, and no registration outlives its socket.
DescriptorsMatch == raced = {} =>
  /\ \A s \in Slots : Live(s) => slot[s].fd \in fds \cup {UserFd} /\ Hash(slot[s].id) = s
  /\ \A s, q \in Slots : Live(s) /\ Live(q) /\ slot[s].fd = slot[q].fd => s = q
  /\ spc # "released" =>
       DOMAIN epoll = {slot[s].fd : s \in {x \in Slots : Live(x) /\ slot[x].type \notin NotInPoll}}
  /\ \A f \in DOMAIN epoll : slot[epoll[f].s].fd = f

\* A reserved slot is on its way to a socket: a worker between reserve_id and
\* send_request, or a request in the pipe, will claim it.  No slot leaks.
ReservedIsClaimed ==
  raced = {} => \A s \in Slots : slot[s].type = "RESERVE" =>
    \/ \E t \in Threads : wpc[t] \in {"store", "send"} /\ Hash(wreq[t].id) = s
    \/ \E i \in 1..Len(pipe) : pipe[i].cmd \in {"O", "L", "B", "U"} /\ Hash(pipe[i].id) = s

\* Every descriptor the server has opened is in a socket, in a request or in the
\* hands of a worker: none leaks.
NoFdLeak ==
  spc # "released" /\ raced = {} => \A f \in fds :
    \/ \E s \in Slots : Live(s) /\ slot[s].fd = f
    \/ \E t \in Threads : wreq[t].fd = f
    \/ \E i \in 1..Len(pipe) : pipe[i].fd = f

\* Packets that wait on a socket will be written: unless a connection is being
\* made, a socket with queued packets has asked epoll for the write event.
QueuedIsWatched ==
  raced = {} => \A s \in Slots : slot[s].type \in {"CONNECTED", "HALFCLOSE", "CONNECTING"}
                   /\ slot[s].high + slot[s].low > 0 => epoll[slot[s].fd].w

\* "If socket buffer is empty, write to fd directly" (send_socket): a packet does not
\* just lie in the buffer of a bound descriptor that nobody watches.
BindIsWatched ==
  \A s \in Slots : slot[s].type = "BIND" /\ slot[s].high + slot[s].low > 0 => epoll[slot[s].fd].w

\* The asserts of new_fd, check_wb_list and force_close hold in every interleaving
\* that avoids the three races.
AssertsHold == raced = {} => aborted = "no"

\* assert(s->type != SOCKET_TYPE_RESERVE) in force_close, without that proviso
CloseAssert == aborted # "force_close"

\* assert(s->type == SOCKET_TYPE_RESERVE) in new_fd, without that proviso
NewFdAssert == aborted # "new_fd"

\* Once a socket is gone its id is dead: no data, connection or datagram is
\* reported for it, although events and requests for it may still be queued.
SilentAfterEnd ==
  raced = {} /\ result' # result /\ result'.type \in {"DATA", "OPEN", "ACCEPT", "UDP"}
    => result'.id \notin ended
NothingAfterEnd == [][SilentAfterEnd]_vars

\* A socket closed with packets still queued is closed in the end: the write event
\* that ends it is not lost.  Two provisos: its peer keeps reading, and services do
\* not keep the pipe filled, for the socket thread looks at events only after it
\* has found the pipe empty.
HalfCloseEnds ==
  []<>(pipe = <<>> /\ spc = "poll") =>
    \A s \in Slots, id \in 0..(IdMod - 1) :
      (slot[s].type = "HALFCLOSE" /\ slot[s].id = id) ~> (id \in ended \/ aborted # "no")
=============================================================================
