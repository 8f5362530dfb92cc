------------------------------ MODULE SocketIO ------------------------------
(***************************************************************************)
(* The bytes of one connected stream socket (socket_server.c): the high    *)
(* and the low list of write buffers, partial writes, half-close, and the  *)
(* size of the read buffer.  All of it runs on the socket thread.  Byte i  *)
(* of packet p is <<p, i>>.                                                *)
(***************************************************************************)
EXTENDS Integers, Sequences, FiniteSets, SequencesExt, FiniteSetsExt

CONSTANTS
  Packets,   \* packets services may send, in this order: 1..n
  Size,      \* Size[p]: bytes of packet p
  Low,       \* packets sent with PRIORITY_LOW
  MinRead,   \* MIN_READ_BUFFER (64)
  MaxRead    \* bound: bytes a read may find

VARIABLES
  next,      \* the next packet a service sends
  high, low, \* s->high, s->low: the bytes their write buffers still hold
  wbSize,    \* s->wb_size
  wire,      \* bytes the kernel took, in order
  watch,     \* whether write events are asked for (sp_write)
  type,      \* s->type: "CONNECTED", "HALFCLOSE", "INVALID"
  size       \* s->p.size

vars == <<next, high, low, wbSize, wire, watch, type, size>>

Init ==
  /\ next = 1 /\ high = <<>> /\ low = <<>> /\ wbSize = 0 /\ wire = <<>>
  /\ watch = FALSE /\ type = "CONNECTED" /\ size = MinRead

-----------------------------------------------------------------------------
Bytes(p, from, to) == [i \in 1..(to - from) |-> <<p, from + i>>]
Take(list, n) == SubSeq(list, 1, n)

\* send_list_tcp: what is left of a list of which the kernel took n bytes.  An
\* operator named Bad... is a plausible error in the one after it.
SendList(list, n) == SubSeq(list, n + 1, Len(list))

\* list_uncomplete: some of the head buffer was written.
Uncomplete(list) == list # <<>> /\ list[1][2] > 1

\* raise_uncomplete, or nothing: the two lists after step 3 of send_buffer.
Raise(l) ==
  LET p == l[1][1]
  IN  IF Uncomplete(l) THEN [high |-> SelectSeq(l, LAMBDA b : b[1] = p),
                             low |-> SelectSeq(l, LAMBDA b : b[1] # p)]
      ELSE [high |-> <<>>, low |-> l]

\* force_close: the lists are freed.
ForceClose ==
  /\ type' = "INVALID" /\ high' = <<>> /\ low' = <<>> /\ watch' = FALSE
  /\ UNCHANGED <<next, wbSize, wire, size>>

-----------------------------------------------------------------------------
\* send_socket: the next packet meets empty lists and is written at once; what is
\* left of it goes to the high list whatever its priority.
BadPutRest(p, rest) == IF p \in Low THEN low' = rest /\ UNCHANGED high
                                    ELSE high' = rest /\ UNCHANGED low
PutRest(p, rest)    == high' = rest /\ UNCHANGED low
BadSendDirect ==
  /\ type = "CONNECTED" /\ next <= Packets /\ high = <<>> /\ low = <<>>
  /\ \E n \in 0..Size[next] :
       /\ wire' = wire \o Bytes(next, 0, n)
       /\ PutRest(next, Bytes(next, n, Size[next]))
       /\ UNCHANGED watch /\ wbSize' = wbSize + Size[next] - n
  /\ next' = next + 1
  /\ UNCHANGED <<type, size>>

SendDirect ==
  /\ type = "CONNECTED" /\ next <= Packets /\ high = <<>> /\ low = <<>>
  /\ \E n \in 0..Size[next] :
       /\ wire' = wire \o Bytes(next, 0, n)
       /\ PutRest(next, Bytes(next, n, Size[next]))
       /\ watch' = (watch \/ n < Size[next]) /\ wbSize' = wbSize + Size[next] - n
  /\ next' = next + 1
  /\ UNCHANGED <<type, size>>

SendFails ==
  /\ type = "CONNECTED" /\ next <= Packets /\ high = <<>> /\ low = <<>>
  /\ type' = "INVALID" /\ watch' = FALSE /\ next' = next + 1
  /\ UNCHANGED <<high, low, wbSize, wire, size>>

\* The list a packet is appended to.
ToLow(p)    == p \in Low
SendQueued ==
  /\ type = "CONNECTED" /\ next <= Packets /\ (high # <<>> \/ low # <<>>)
  /\ IF ToLow(next)
     THEN low' = low \o Bytes(next, 0, Size[next]) /\ UNCHANGED high
     ELSE high' = high \o Bytes(next, 0, Size[next]) /\ UNCHANGED low
  /\ wbSize' = wbSize + Size[next] /\ next' = next + 1
  /\ UNCHANGED <<wire, watch, type, size>>

\* send_socket drops a packet for a socket that is closing.
SendDropped ==
  /\ type # "CONNECTED" /\ next <= Packets /\ next' = next + 1
  /\ UNCHANGED <<high, low, wbSize, wire, watch, type, size>>

\* send_buffer: the kernel takes n bytes, those of the high list first; the low list
\* is tried only when the high one is empty.
Written(n) ==
  LET nh == Min({n, Len(high)})  h == SendList(high, nh)  l == Raise(SendList(low, n - nh))
  IN  /\ high' = IF h = <<>> THEN l.high ELSE h
      /\ low' = IF h = <<>> THEN l.low ELSE low
      /\ wire' = wire \o Take(high, nh) \o Take(low, n - nh) /\ wbSize' = wbSize - n

SendBuffer ==
  /\ type # "INVALID" /\ watch
  /\ \E n \in 0..(Len(high) + Len(low)) :
       /\ Written(n)
       /\ IF high' = <<>> /\ low = <<>>   \* step 4
          THEN /\ watch' = FALSE
               /\ type' = IF type = "HALFCLOSE" THEN "INVALID" ELSE type
          ELSE UNCHANGED <<watch, type>>
  /\ UNCHANGED <<next, size>>

WriteFails == type # "INVALID" /\ watch /\ (high # <<>> \/ low # <<>>) /\ ForceClose

\* close_socket without shutdown: flush what the kernel takes, then close at once
\* or half-close; with shutdown, the rest is dropped.
Close ==
  /\ type = "CONNECTED"
  /\ \E n \in 0..(Len(high) + Len(low)) :
       /\ Written(n)
       /\ IF high' = <<>> /\ low' = <<>>
          THEN type' = "INVALID" /\ watch' = FALSE
          ELSE type' = "HALFCLOSE" /\ UNCHANGED watch
  /\ UNCHANGED <<next, size>>
Shutdown == type = "CONNECTED" /\ ForceClose

\* forward_message_tcp: n bytes read into a buffer of the current size.
Resize(n)    == IF n = size THEN size * 2
                ELSE IF size > MinRead /\ n * 2 < size THEN size \div 2 ELSE size
Read ==
  /\ type = "CONNECTED"
  /\ \E n \in 1..Min({size, MaxRead}) : size' = Resize(n)
  /\ UNCHANGED <<next, high, low, wbSize, wire, watch, type>>

Next == \/ SendDirect \/ SendFails \/ SendQueued \/ SendDropped \/ SendBuffer
        \/ WriteFails \/ Close \/ Shutdown \/ Read
\* The peer keeps reading, so the kernel takes all that is left again and again.
Fairness == SF_vars(SendBuffer /\ high' = <<>> /\ low' = <<>>)
Spec == Init /\ [][Next]_vars /\ Fairness

-----------------------------------------------------------------------------
Buffers(list) == \A i \in 1..Len(list) : list[i][1] \in 1..Packets /\ list[i][2] \in 1..Size[list[i][1]]
TypeOK ==
  /\ next \in 1..(Packets + 1) /\ Buffers(high) /\ Buffers(low) /\ Buffers(wire) /\ Len(high) + Len(low) + Len(wire) <= FoldSeq(LAMBDA x, acc : x + acc, 0, Size) /\ wbSize \in Nat
  /\ watch \in BOOLEAN /\ type \in {"CONNECTED", "HALFCLOSE", "INVALID"} /\ size \in Nat

\* The stream carries whole packets: a packet begun is finished before another
\* one starts, whatever priorities they have.
WholePackets ==
  \A k \in 2..Len(wire) :
    \/ wire[k] = <<wire[k-1][1], wire[k-1][2] + 1>>
    \/ wire[k][2] = 1 /\ wire[k-1][2] = Size[wire[k-1][1]]

\* Packets of one priority keep their order, also those that wait.
Pending == wire \o high \o low
InOrder(s) == \A i, j \in 1..Len(s) : i < j => s[i][1] <= s[j][1]
OrderPerPriority ==
  /\ InOrder(SelectSeq(Pending, LAMBDA b : b[1] \in Low))
  /\ InOrder(SelectSeq(Pending, LAMBDA b : b[1] \notin Low))

\* assert(!list_uncomplete(&s->low)) in send_buffer: a low packet that was begun is
\* in the high list, at its head.
LowIsWhole ==
  /\ ~Uncomplete(low)
  /\ \A i \in 2..Len(high) : high[i][2] = 1 \/ high[i][1] = high[i-1][1]

\* s->wb_size, which services get back as a warning, is what is still to be written.
WbSizeExact == type # "INVALID" => wbSize = Len(high) + Len(low)

\* The read buffer never gets smaller than MIN_READ_BUFFER, whose multiple by a
\* power of two it is.
ReadSize == size >= MinRead /\ size % MinRead = 0

\* Without a close everything sent arrives: nothing lies in a list unwatched.
Arrives ==
  \A p \in 1..Packets :
    (next > p /\ type # "INVALID") ~> (<<p, Size[p]>> \in ToSet(wire) \/ type = "INVALID")
=============================================================================
