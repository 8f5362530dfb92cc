------------------------------ MODULE SocketLib ------------------------------
\* A stream socket as the service that owns it sees it: lualib/socket.lua, with the
\* receive buffer of lua-socket.c.  One coroutine starts the socket and reads it,
\* another one closes it; the socket server sends CONNECT, then DATA in chunks, and
\* in the end CLOSE or ERROR.
EXTENDS Integers, Sequences, SequencesExt

CONSTANTS
  Text,      \* what the peer sends, a sequence of characters
  Sep,       \* the separator of lines
  Sizes,     \* the sizes the reader asks for
  MaxChunk,  \* the longest chunk
  Limit,     \* buffer_limit, 0: none
  Large      \* LARGE_PAGE_NODE - 3: a chunk of nodes has at most 2^Large of them

VARIABLES
  buffer,      \* s.buffer: the nodes from head to tail, offset and size
  pool,        \* buffer_pool: the number of free nodes and of chunks of nodes
  here,        \* socket_pool[id] is s
  connected, connecting, required, co, closing,   \* the fields of s
  net,         \* the socket server: "connecting", "open", or "end" after its last message
  rcvd,        \* how much of Text has come
  ask,         \* the size the reader asked for
  pc,          \* what each coroutine does or waits in
  woken,       \* the coroutines in wakeup_session
  running,     \* the coroutine that runs, or "none"
  last,        \* what the last read returned
  taken,       \* how many bytes the reads took
  gap,         \* received data was thrown away
  again        \* a read began while a close waited
vars == <<buffer, pool, here, connected, connecting, required, co, closing, net, rcvd,
          ask, pc, woken, running, last, taken, gap,
          again>>
sock == <<here, connected, connecting, required, co, closing>>

Cos == {"reader", "closer"}
Waiting == {"connect", "some", "exact", "line", "all", "block", "close", "closing"}

-----------------------------------------------------------------------------
\* The buffer.  A chunk of the pool has twice as many nodes as the one before.
ChunkNodes(t) == 2 ^ (IF t <= Large THEN t ELSE Large)

Push(sb, msg) ==
  [sb EXCEPT !.nodes = Append(@, msg), !.size = @ + Len(msg)]

TakeNode(p) ==
  IF p.free > 0 THEN [p EXCEPT !.free = @ - 1]
  ELSE [free |-> ChunkNodes(p.chunks + 1) - 1, chunks |-> p.chunks + 1]

ReturnNode(sb) == [sb EXCEPT !.nodes = Tail(@), !.offset = 0]

\* pop_lstring: the first sz bytes without the last skip of them, node by node.
RECURSIVE PopLstring(_, _, _)
PopLstring(sb, sz, skip) ==
  LET current == Head(sb.nodes)
      bytes == Len(current) - sb.offset
      Part(k) == SubSeq(current, sb.offset + 1, sb.offset + k)
  IN  IF bytes >= sz
      THEN [str |-> IF sz > skip THEN Part(sz - skip) ELSE <<>>,
            sb  |-> IF bytes = sz THEN ReturnNode(sb)
                    ELSE [sb EXCEPT !.offset = @ + sz]]
      ELSE LET rest == PopLstring(ReturnNode(sb), sz - bytes, skip)
           IN  [rest EXCEPT !.str = (IF sz - skip <= 0 THEN <<>>
                                     ELSE IF sz - skip < bytes THEN Part(sz - skip)
                                     ELSE Part(bytes)) \o @]

\* lpopbuffer, lreadall and lreadline give [ok, str, sb]; ok is FALSE for nil.
Nil(sb) == [ok |-> FALSE, str |-> <<>>, sb |-> sb]
Popped(sb, sz, skip) ==
  LET r == PopLstring(sb, sz, skip)
  IN  [ok |-> TRUE, str |-> r.str, sb |-> [r.sb EXCEPT !.size = @ - sz]]

PopBuffer(sb, sz) ==
  IF sb.size < sz \/ sz = 0 THEN Nil(sb) ELSE Popped(sb, sz, 0)

RECURSIVE ReadNodes(_)
ReadNodes(sb) ==
  IF sb.nodes = <<>> THEN <<>>
  ELSE SubSeq(Head(sb.nodes), sb.offset + 1, Len(Head(sb.nodes))) \o ReadNodes(ReturnNode(sb))
Empty == [nodes |-> <<>>, offset |-> 0, size |-> 0]
ReadAll(sb) == [ok |-> sb.nodes # <<>>, str |-> ReadNodes(sb), sb |-> Empty]

\* Mutant: the rest of the separator is not looked for in the next node.
BadCheckSep(nodes, k, from, sep) ==
  LET sz == IF Len(nodes[k]) - from < Len(sep) THEN Len(nodes[k]) - from ELSE Len(sep)
  IN  SubSeq(nodes[k], from + 1, from + sz) = SubSeq(sep, 1, sz)
\* check_sep: is sep in the nodes from byte from of the k-th one on?
RECURSIVE CheckSep(_, _, _, _)
CheckSep(nodes, k, from, sep) ==
  LET sz == Len(nodes[k]) - from
  IN  IF sz >= Len(sep) THEN SubSeq(nodes[k], from + 1, from + Len(sep)) = sep
      ELSE /\ sz > 0 => SubSeq(nodes[k], from + 1, from + sz) = SubSeq(sep, 1, sz)
           /\ CheckSep(nodes, k + 1, 0, SubSeq(sep, sz + 1, Len(sep)))

\* Where the line ends, from the i-th byte on: the number of bytes before Sep, or -1.
RECURSIVE LineEnd(_, _, _, _)
LineEnd(sb, i, k, from) ==
  IF i > sb.size - Len(Sep) \/ k > Len(sb.nodes) THEN -1
  ELSE IF CheckSep(sb.nodes, k, from, Sep) THEN i
  ELSE IF from + 1 = Len(sb.nodes[k]) THEN LineEnd(sb, i + 1, k + 1, 0)
  ELSE LineEnd(sb, i + 1, k, from + 1)

ReadLine(sb) ==
  LET i == LineEnd(sb, 0, 1, sb.offset)
  IN  IF i < 0 THEN Nil(sb) ELSE Popped(sb, i + Len(Sep), Len(Sep))

Content(sb) == ReadNodes(sb)

\* read_required: a size, a separator, everything (true), or nothing is asked for.
No == [kind |-> "no", sz |-> 0]

\* What a read returns: false and the rest, or what it asked for.
Result(op, ok, str) == [op |-> op, ok |-> ok, str |-> str, connected |-> connected]
\* The bytes it took from the buffer.
Taken(r) == IF r.op = "line" /\ r.ok THEN r.str \o Sep ELSE r.str

-----------------------------------------------------------------------------
Init ==
  /\ buffer = Empty /\ pool = [free |-> 0, chunks |-> 0]
  /\ here = FALSE /\ connected = FALSE /\ connecting = "no" /\ required = No
  /\ co = "none" /\ closing = "none"
  /\ net = "connecting" /\ rcvd = 0
  /\ ask = 0 /\ pc = [c \in Cos |-> "idle"] /\ woken = {} /\ running = "none"
  /\ last = Result("none", TRUE, <<>>) /\ taken = 0 /\ gap = FALSE /\ again = FALSE

\* A coroutine goes on after it was resumed, or starts with a message of its own when
\* nothing is left in wakeup_session.
Quiet == running = "none" /\ woken = {}
Runs(c) == running = c \/ Quiet

SetBuffer(sb) ==
  /\ buffer' = sb
  /\ pool' = [pool EXCEPT !.free = @ + Len(buffer.nodes) - Len(sb.nodes)]

\* suspend: s.co is the coroutine until someone wakes it.
Suspend(c, what) ==
  /\ co = "none"
  /\ co' = c /\ pc' = [pc EXCEPT ![c] = what] /\ running' = "none"

\* wakeup(s), at the end of the handlers of messages.
Wakeup ==
  /\ co' = "none"
  /\ woken' = IF co = "none" THEN woken ELSE woken \cup {co}

\* socket.start and its connect.
Start ==
  /\ Runs("reader") /\ pc["reader"] = "idle" /\ ~here
  /\ here' = TRUE /\ connecting' = "yes"
  /\ Suspend("reader", "connect")
  /\ UNCHANGED <<buffer, pool, connected, required, closing, net, rcvd, woken, ask, last, taken, gap, again>>

\* The messages of the socket server.  A message for a socket that is not in
\* socket_pool is dropped.
Data(n) ==
  LET msg == SubSeq(Text, rcvd + 1, rcvd + n)
      sb  == Push(buffer, msg)
      due == \/ required.kind = "size" /\ sb.size >= required.sz
             \/ required.kind = "line" /\ ReadLine(sb).ok
      over == required.kind # "size" /\ Limit > 0 /\ sb.size > Limit
  IN  /\ Quiet /\ net = "open" /\ rcvd + n <= Len(Text)
      /\ rcvd' = rcvd + n
      /\ \/ /\ ~here
            /\ gap' = TRUE
            /\ UNCHANGED <<buffer, pool, required, co, woken>>
         \/ /\ here /\ over
            /\ buffer' = Empty /\ gap' = TRUE
            /\ pool' = [TakeNode(pool) EXCEPT !.free = @ + Len(sb.nodes)]
            /\ UNCHANGED <<required, co, woken>>
         \/ /\ here /\ ~over
            /\ buffer' = sb /\ pool' = TakeNode(pool)
            /\ IF due THEN required' = No /\ Wakeup ELSE UNCHANGED <<required, co, woken>>
            /\ UNCHANGED gap
      /\ UNCHANGED <<here, connected, connecting, closing, net, pc, running, ask, last, taken, again>>

Connect ==
  /\ Quiet /\ net = "connecting" /\ pc["reader"] # "idle"
  /\ net' = "open"
  /\ connected' = TRUE /\ Wakeup
  /\ UNCHANGED <<buffer, pool, here, connecting, required, closing, rcvd, pc, running, ask, last, taken,
                 gap, again>>

\* CLOSE, or ERROR (which may come instead of CONNECT, too).
End(kind) ==
  /\ Quiet /\ \/ net = "open"
              \/ net = "connecting" /\ kind = "error" /\ pc["reader"] # "idle"
  /\ net' = "end"
  /\ \/ here /\ connected' = FALSE /\ Wakeup
        /\ connecting' = IF kind = "error" /\ ~connected /\ connecting = "yes" THEN "error" ELSE connecting
     \/ ~here /\ UNCHANGED <<connected, connecting, co, woken>>
  /\ UNCHANGED <<buffer, pool, here, required, closing, rcvd, pc, running, ask, last, taken, gap, again>>

-----------------------------------------------------------------------------
\* The reading operations: at once, or after a suspend.
Give(c, op, r) ==
  /\ SetBuffer(r.sb) /\ last' = Result(op, r.ok, r.str)
  /\ taken' = taken + Len(Taken(last'))
  /\ pc' = [pc EXCEPT ![c] = "ready"] /\ running' = c

\* What the buffer holds for the operation; without it, all there is, and false.
Fetch(op, sz) ==
  CASE op = "exact" -> PopBuffer(buffer, sz)
    [] op = "line" -> ReadLine(buffer)
    [] op = "some" -> ReadAll(buffer)
    [] OTHER -> Nil(buffer)
Rest == [ReadAll(buffer) EXCEPT !.ok = FALSE]

Read(c, op, sz) ==
  LET r == Fetch(op, sz)
  IN  /\ Runs(c) /\ pc[c] = "ready" /\ here
      /\ \/ /\ op # "block" /\ r.ok
            /\ Give(c, op, r)
            /\ UNCHANGED <<required, co, again>>
         \/ /\ ~r.ok /\ ~connected
            /\ IF op = "block" THEN Give(c, op, Nil(buffer))
               ELSE IF op = "all" THEN Give(c, op, ReadAll(buffer))
               ELSE Give(c, op, Rest)
            /\ UNCHANGED <<required, co, again>>
         \/ /\ ~r.ok /\ connected /\ required = No
            /\ required' = [kind |-> IF op \in {"line", "all"} THEN op ELSE "size", sz |-> sz]
            /\ Suspend(c, op)
            /\ again' = (again \/ closing # "none")
            /\ UNCHANGED <<buffer, pool, last, taken>>
      /\ ask' = sz
      /\ UNCHANGED <<here, connected, connecting, closing, net, rcvd, woken, gap>>

\* The rest of suspend (a coroutine that waits as s.closing is woken each time) and of the
\* operation.
Goes(c) ==
  /\ running = "none" /\ c \in woken
  /\ woken' = (woken \ {c}) \cup {d \in Cos : d = closing /\ pc[d] = "closing"}

ResumeConnect ==
  /\ Goes("reader") /\ pc["reader"] = "connect"
  /\ connecting' = "no" /\ here' = connected
  /\ pc' = [pc EXCEPT !["reader"] = IF connected THEN "ready" ELSE "done"]
  /\ running' = IF connected THEN "reader" ELSE "none"
  /\ UNCHANGED <<buffer, pool, connected, required, co, closing, net, rcvd, ask, last, taken, gap, again>>

ResumeRead(c) ==
  LET op == pc[c]
      r  == Fetch(op, ask)
  IN  /\ Goes(c) /\ op \in {"some", "exact", "line", "all", "block"}
      /\ CASE op = "block" -> Give(c, op, [Nil(buffer) EXCEPT !.ok = connected])
           [] op = "all" -> Give(c, op, ReadAll(buffer))
           [] op = "line" -> Give(c, op, IF connected THEN r ELSE Rest)
           [] OTHER -> Give(c, op, IF r.ok THEN r ELSE Rest)
      /\ UNCHANGED <<here, connected, connecting, required, co, closing, net, rcvd, ask, gap, again>>

\* The coroutine yields elsewhere.
Yield ==
  /\ running # "none" /\ running' = "none"
  /\ UNCHANGED <<buffer, pool, sock, net, rcvd, pc, woken, ask, last, taken, gap, again>>

-----------------------------------------------------------------------------
\* socket.close, by the closer at any time after the socket was started, and by the
\* reader once it was told that the connection has ended.
MayClose(c) ==
  /\ Runs(c)
  /\ \/ c = "closer" /\ pc[c] = "idle" /\ pc["reader"] \notin {"idle", "connect"}
     \/ c = "reader" /\ pc[c] = "ready" /\ ~last.ok

\* The end of close: close_fd clears the buffer of what is in socket_pool by now.
Finish(c) ==
  /\ connected' = FALSE /\ here' = FALSE
  /\ IF here THEN SetBuffer(Empty) ELSE UNCHANGED <<buffer, pool>>
  /\ gap' = (gap \/ (here /\ buffer.size > 0))
  /\ pc' = [pc EXCEPT ![c] = "done"] /\ running' = "none"

Close(c) ==
  /\ MayClose(c)
  /\ \/ here /\ connected /\ co # "none" /\ closing = "none"
        /\ closing' = c
        /\ pc' = [pc EXCEPT ![c] = "closing"] /\ running' = "none"
        /\ UNCHANGED <<buffer, pool, connected, here, co, gap>>
     \/ here /\ connected /\ Suspend(c, "close")
        /\ UNCHANGED <<buffer, pool, connected, here, closing, gap>>
     \/ (here => ~connected) /\ Finish(c) /\ UNCHANGED <<co, closing>>
  /\ UNCHANGED <<connecting, required, net, rcvd, woken, ask, last, taken, again>>

ResumeClose(c) ==
  /\ pc[c] \in {"close", "closing"} /\ running = "none" /\ c \in woken
  /\ woken' = woken \ {c}
  /\ Finish(c)
  /\ UNCHANGED <<connecting, required, co, closing, net, rcvd, ask, last, taken, again>>

\* socket.shutdown throws away what was received.
Shutdown ==
  /\ Runs("closer") /\ pc["closer"] = "idle" /\ here /\ ~gap
  /\ SetBuffer(Empty) /\ gap' = TRUE /\ running' = "closer"
  /\ UNCHANGED <<sock, net, rcvd, pc, woken, ask, last, taken, again>>

Next ==
  \/ Start \/ Connect \/ ResumeConnect \/ Yield \/ Shutdown
  \/ \E n \in 1..MaxChunk : Data(n)
  \/ \E kind \in {"close", "error"} : End(kind)
  \/ \E op \in {"some", "line", "all", "block"} : Read("reader", op, 0)
  \/ \E sz \in Sizes : Read("reader", "exact", sz)
  \/ ResumeRead("reader")
  \/ \E c \in Cos : Close(c) \/ ResumeClose(c)

Spec == Init /\ [][Next]_vars

-----------------------------------------------------------------------------
RECURSIVE Nodes(_)
Nodes(t) == IF t = 0 THEN 0 ELSE ChunkNodes(t) + Nodes(t - 1)

\* lua-socket.c: size is the number of bytes in the nodes, a node with nothing left to
\* read goes back to the pool, and the pool loses no node.
BufferRight ==
  /\ buffer.size = Len(Content(buffer))
  /\ buffer.offset < (IF buffer.nodes = <<>> THEN 1 ELSE Len(Head(buffer.nodes)))
  /\ pool.free + Len(buffer.nodes) = Nodes(pool.chunks)

\* socket.lua: the reads return what was received, in order and once, whatever the chunks.
StreamKept ==
  ~gap => /\ Taken(last) = SubSeq(Text, taken - Len(Taken(last)) + 1, taken)
          /\ Content(buffer) = SubSeq(Text, taken + 1, rcvd)

\* lreadline: a line is cut at the first separator, though it may lie in two chunks.
LinesRight ==
  last.op = "line" /\ last.ok =>
    \A k \in 0..Len(last.str) - 1 : SubSeq(last.str \o Sep, k + 1, k + Len(Sep)) # Sep

\* A reader is told of the end only when the connection has ended: when it is woken by
\* data, what it waits for is there.
EndIsTrue == /\ ~last.ok => ~last.connected \/ gap
             /\ last.op = "all" => ~last.connected

\* When the last message of the socket has come, nobody waits for it any more, but for a
\* reader that began to wait again while another coroutine was closing the socket.
NobodyLeft ==
  net = "end" /\ Quiet =>
    \A c \in Cos : pc[c] \in Waiting => c = "reader" /\ again

\* "socket.close() will wait last socket buffer operation before clear the buffer"
\* (socket.lua:33): no reader still waits when the socket has left the pool.
CloseWaitsForReaders == ~here /\ Quiet /\ net = "end" => pc["reader"] \notin Waiting
=============================================================================
