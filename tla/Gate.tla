-------------------------------- MODULE Gate --------------------------------
(***************************************************************************)
(* The gate (service-src/service_gate.c): it cuts what clients send into   *)
(* messages, each with its length in front, and forwards them; with its    *)
(* tables, hashid.h (socket id -> connection) and databuffer.h (chunks of  *)
(* a connection that are not read yet).                                    *)
(*                                                                         *)
(* The gate handles one event at a time; a turn of the loop in             *)
(* dispatch_message is a step.  A client writes the messages of a script,  *)
(* which arrive in chunks of any size.  A byte of a message is its number  *)
(* in the script.  A failed assert ends the process: nothing happens after *)
(* it (aborted).                                                           *)
(***************************************************************************)
EXTENDS Integers, Sequences, FiniteSets, SequencesExt, Functions

CONSTANTS
  Fds,         \* socket ids of clients, numbers
  Cap,         \* max_connection
  MinHash,     \* 16, the least number of hash chains
  HeaderSize,  \* header_size
  Base,        \* 256
  MaxSize,     \* 16M
  Agents,      \* agents, each with the client that "forward" names beside it
  Brokers,     \* services that "broker" may name
  Watched,     \* the gate has a watchdog (FALSE: its parameter is "!")
  Scripts,     \* bound: the lengths of the messages a client sends, per socket
  MaxOpen,     \* bound: connections in all
  MaxCtrl      \* bound: commands to close, forward or start

Slots   == 0..Cap - 1
Free    == -1
None    == "none"
Watchdog == "watchdog"

VARIABLES
  id, hash, count,  \* struct hashid: the nodes' ids, the chains of slots
  conn,             \* struct connection of a slot, with its databuffer
  listens, broker,  \* listen_id is set; the broker
  loop,             \* the slot whose messages are dispatched, or Free
  sock,             \* sockets: none, accepted, started or closing
  listening,        \* the socket server's listening socket
  script, got,      \* a client's messages, and the bytes of it that arrived
  out,              \* history: messages forwarded, per socket, and to whom
  given,            \* history: the agent "forward" gave a connection last
  astray,           \* history: sockets with a message that is for nobody
  view,             \* history: open and close reports to the watchdog
  cut,              \* history: sockets closed for a message that is too long
  opens, ctrls,     \* so far
  aborted           \* an assert failed

hashVars == <<id, hash, count>>
envVars  == <<sock, listening, script, got, opens>>
histVars == <<out, given, astray, view, cut>>
vars     == <<hashVars, conn, listens, broker, loop, envVars, histVars, ctrls, aborted>>

\* MinHash, doubled until it is not less than Cap.
Doublings == CHOOSE k \in 0..Cap : MinHash * 2^k >= Cap /\ (k = 0 \/ MinHash * 2^(k-1) < Cap)
HashCap == MinHash * 2^Doublings
Empty   == [fd |-> Free, agent |-> None, header |-> 0, offset |-> 0, size |-> 0, chunks |-> <<>>]
Init ==
  /\ id = [s \in Slots |-> Free] /\ hash = [h \in 0..HashCap - 1 |-> <<>>] /\ count = 0
  /\ conn = [s \in Slots |-> Empty] /\ listens = TRUE /\ broker = None /\ loop = Free
  /\ sock = [f \in Fds |-> "none"] /\ listening = TRUE
  /\ script = [f \in Fds |-> <<>>] /\ got = [f \in Fds |-> 0]
  /\ out = [f \in Fds |-> <<>>] /\ given = [f \in Fds |-> None] /\ astray = {}
  /\ view = [f \in Fds |-> "closed"] /\ cut = {}
  /\ opens = 0 /\ ctrls = 0 /\ aborted = FALSE

-----------------------------------------------------------------------------
(* hashid.h                                                                *)
Chain(f) == hash[f % HashCap]
\* The slot of f, or -1.
Lookup(f) == LET i == SelectInSeq(Chain(f), LAMBDA s : id[s] = f)
             IN  IF i = 0 THEN Free ELSE Chain(f)[i]
\* The first free node from f on.
Place(f)  == LET i == CHOOSE i \in Slots : id[(i + f) % Cap] = Free
                                           /\ \A j \in 0..i - 1 : id[(j + f) % Cap] # Free
             IN  (i + f) % Cap
IdInsert(f) == /\ id' = [id EXCEPT ![Place(f)] = f] /\ count' = count + 1
             /\ hash' = [hash EXCEPT ![f % HashCap] = <<Place(f)>> \o @]
BadIdRemove(f) == /\ id' = [id EXCEPT ![Lookup(f)] = Free] /\ count' = count - 1
                /\ hash' = [hash EXCEPT ![f % HashCap] =
                              IF Len(@) = 1 THEN <<>> ELSE Front(@)]
IdRemove(f) == /\ id' = [id EXCEPT ![Lookup(f)] = Free] /\ count' = count - 1
             /\ hash' = [hash EXCEPT ![f % HashCap] = SelectSeq(@, LAMBDA s : id[s] # f)]

-----------------------------------------------------------------------------
(* databuffer.h: a connection c is its databuffer.                         *)
Flat(c)    == FlattenSeq(c.chunks)
Push(c, d) == [c EXCEPT !.chunks = Append(@, d), !.size = @ + Len(d)]
\* databuffer_read of n bytes, and what it leaves: a chunk goes when its last byte
\* is read.
Bytes(c, n) == SubSeq(Flat(c), c.offset + 1, c.offset + n)
Gone(c, n)  == {k \in 0..Len(c.chunks) : Len(FlattenSeq(SubSeq(c.chunks, 1, k))) <= c.offset + n}
Read(c, n) ==
  LET k == CHOOSE k \in Gone(c, n) : \A j \in Gone(c, n) : j <= k
  IN  [c EXCEPT !.chunks = SubSeq(@, k + 1, Len(@)), !.size = @ - n,
                !.offset = @ + n - Len(FlattenSeq(SubSeq(c.chunks, 1, k)))]
\* The length in a header, an int: with four bytes the upper half is negative.
Wraps(n)    == HeaderSize = 4 /\ 2 * n >= Base^HeaderSize
Number(b)   == LET n == FoldLeft(LAMBDA acc, x : acc * Base + x, 0, b)
               IN  IF Wraps(n) THEN n - Base^HeaderSize ELSE n
\* databuffer_readheader, without its result: it is negative if the message is not there
\* yet, and if its length is.
ReadHeader(c) ==
  IF c.header # 0 \/ c.size < HeaderSize THEN c
  ELSE [Read(c, HeaderSize) EXCEPT !.header = Number(Bytes(c, HeaderSize))]
NotYet(c) == \/ c.header = 0 /\ c.size < HeaderSize
             \/ ReadHeader(c).size < ReadHeader(c).header \/ ReadHeader(c).header < 0

-----------------------------------------------------------------------------
(* Socket events.  An operator named Bad... is an error in the next one.    *)
Idle == loop = Free /\ ~aborted
Closes(f) == sock' = [sock EXCEPT ![f] = IF @ = "none" THEN @ ELSE "closing"]

\* _report
Report(f, old, now) ==
  view' = IF Watched THEN [view EXCEPT ![f] = IF @ = old THEN now ELSE "twice"] ELSE view

Bit(L, k) == (L \div Base^(HeaderSize - k)) % Base
Text(s)   == FlattenSeq([i \in DOMAIN s |-> [k \in 1..HeaderSize |-> Bit(s[i], k)]
                                              \o [k \in 1..s[i] |-> i]])

\* SKYNET_SOCKET_TYPE_ACCEPT.  One that was on its way at "close" fails
\* assert(g->listen_id == message->id).
Accept(f) ==
  /\ Idle /\ listening /\ listens /\ sock[f] = "none" /\ opens < MaxOpen /\ opens' = opens + 1
  /\ IF count = Cap
     THEN sock' = [sock EXCEPT ![f] = "closing"] /\ UNCHANGED <<hashVars, conn, script, view>>
     ELSE /\ IdInsert(f)
          /\ conn' = [conn EXCEPT ![Place(f)].fd = f]
          /\ sock' = [sock EXCEPT ![f] = "accepted"]
          /\ \E s \in Scripts[f] : script' = [script EXCEPT ![f] = s]
          /\ Report(f, "closed", "open")
  /\ UNCHANGED <<listens, broker, loop, listening, got, out, given, astray, cut, ctrls, aborted>>
AcceptLate(f) ==
  /\ Idle /\ listening /\ ~listens /\ sock[f] = "none" /\ opens < MaxOpen
  /\ aborted' = TRUE
  /\ UNCHANGED <<hashVars, conn, listens, broker, loop, envVars, histVars, ctrls>>

\* SKYNET_SOCKET_TYPE_DATA: the next n bytes.  They may have been on their way when
\* the gate closed the socket.
Data(f, n) ==
  /\ Idle /\ sock[f] \in {"started", "closing"} /\ Lookup(f) # Free
  /\ n > 0 /\ got[f] + n <= Len(Text(script[f]))
  /\ got' = [got EXCEPT ![f] = @ + n]
  /\ conn' = [conn EXCEPT ![Lookup(f)] = Push(@, SubSeq(Text(script[f]), got[f] + 1, got[f] + n))]
  /\ loop' = Lookup(f)
  /\ UNCHANGED <<hashVars, listens, broker, sock, listening, script, opens, histVars, ctrls,
                 aborted>>

\* _forward: whom a message of connection c is sent to.  Nobody reads it then, but
\* databuffer_reset follows all the same: what comes next is taken for a header.
Recipient(agent) == IF broker # None THEN broker
                    ELSE IF agent # None THEN agent ELSE IF Watched THEN Watchdog ELSE None
\* dispatch_message, one turn, and _forward
Reset(c)      == [c EXCEPT !.header = 0]
DispatchMessage ==
  /\ loop # Free
  /\ LET c == conn[loop]
         r == ReadHeader(c)
     IN  IF NotYet(c)
         THEN loop' = Free /\ conn' = [conn EXCEPT ![loop] = r] /\ UNCHANGED <<sock, out, astray, cut>>
         ELSE IF r.header >= MaxSize
         THEN /\ conn' = [conn EXCEPT ![loop] = [Empty EXCEPT !.fd = c.fd, !.agent = c.agent]]
              /\ Closes(c.fd) /\ cut' = cut \cup {c.fd} /\ loop' = Free /\ UNCHANGED <<out, astray>>
         ELSE /\ UNCHANGED <<loop, sock, cut>>
              /\ IF r.header = 0 THEN conn' = [conn EXCEPT ![loop] = r] /\ UNCHANGED <<out, astray>>
                 ELSE IF Recipient(c.agent) = None
                 THEN /\ conn' = [conn EXCEPT ![loop] = Reset(r)]
                      /\ astray' = astray \cup {c.fd} /\ UNCHANGED out
                 ELSE /\ conn' = [conn EXCEPT ![loop] = Reset(Read(r, r.header))]
                      /\ out' = [out EXCEPT ![c.fd] =
                           Append(@, [to |-> Recipient(c.agent), meant |-> Recipient(given[c.fd]),
                                      bytes |-> Bytes(r, r.header)])]
                      /\ UNCHANGED astray
  /\ UNCHANGED <<hashVars, listens, broker, listening, script, got, opens, given, view, ctrls,
                 aborted>>

\* SKYNET_SOCKET_TYPE_CLOSE and ERROR, whoever closes
Cleared(s)    == Empty
Closed(f) ==
  /\ Idle /\ sock[f] # "none" /\ sock' = [sock EXCEPT ![f] = "none"]
  /\ IF Lookup(f) = Free THEN UNCHANGED <<hashVars, conn, view>>
     ELSE /\ IdRemove(f) /\ conn' = [conn EXCEPT ![Lookup(f)] = Cleared(Lookup(f))]
          /\ Report(f, "open", "closed")
  /\ script' = [script EXCEPT ![f] = <<>>] /\ got' = [got EXCEPT ![f] = 0]
  /\ out' = [out EXCEPT ![f] = <<>>] /\ given' = [given EXCEPT ![f] = None]
  /\ cut' = cut \ {f} /\ astray' = astray \ {f}
  /\ UNCHANGED <<listens, broker, loop, listening, opens, ctrls, aborted>>

ListenClosed == /\ Idle /\ ~listens /\ listening /\ listening' = FALSE
                /\ UNCHANGED <<hashVars, conn, listens, broker, loop, sock, script, got, opens,
                               histVars, ctrls, aborted>>

-----------------------------------------------------------------------------
(* Commands (_ctrl), of the watchdog or of others that know the gate.      *)
Ctrl == Idle /\ ctrls < MaxCtrl /\ ctrls' = ctrls + 1
CtrlStep == UNCHANGED <<hashVars, loop, script, got, opens, out, astray, view, cut, aborted>>

Kick(f)  == /\ Ctrl /\ Lookup(f) # Free /\ Closes(f)
            /\ CtrlStep /\ UNCHANGED <<conn, listens, broker, listening, given>>
\* "start", which may come late, or again
StartIt(f) == /\ Ctrl /\ Lookup(f) # Free
              /\ sock' = [sock EXCEPT ![f] = IF @ = "accepted" THEN "started" ELSE @]
              /\ CtrlStep /\ UNCHANGED <<conn, listens, broker, listening, given>>
Forward(f, a) == /\ Ctrl /\ Lookup(f) # Free /\ conn' = [conn EXCEPT ![Lookup(f)].agent = a]
                 /\ given' = [given EXCEPT ![f] = a]
                 /\ CtrlStep /\ UNCHANGED <<sock, listens, broker, listening>>
\* "broker": skynet_queryname gives 0 for a name nobody has.
SetBroker(b) == /\ Ctrl /\ broker' = b
                /\ CtrlStep /\ UNCHANGED <<conn, sock, listens, listening, given>>
CloseListen == /\ Ctrl /\ listens /\ listens' = FALSE
               /\ CtrlStep /\ UNCHANGED <<conn, sock, broker, listening, given>>

Next ==
  \/ \E f \in Fds : \/ Accept(f) \/ AcceptLate(f) \/ Closed(f) \/ Kick(f) \/ StartIt(f)
                    \/ \E a \in Agents : Forward(f, a)
                    \/ \E n \in 1..Len(Text(script[f])) : Data(f, n)
  \/ \E b \in Brokers \cup {None} : SetBroker(b)
  \/ DispatchMessage \/ ListenClosed \/ CloseListen
Spec == Init /\ [][Next]_vars

-----------------------------------------------------------------------------
TypeOK ==
  /\ id \in [Slots -> Fds \cup {Free}] /\ count \in 0..Cap
  /\ \A h \in DOMAIN hash : ToSet(hash[h]) \subseteq Slots
  /\ \A s \in Slots : conn[s].fd = id[s] /\ conn[s].agent \in Agents \cup {None}
  /\ loop \in Slots \cup {Free} /\ sock \in [Fds -> {"none", "accepted", "started", "closing"}]

\* hashid.h: the chains hold exactly the nodes in use, each once and in the chain of
\* its id, so that hashid_lookup finds what was inserted and not removed; and count
\* is their number.
HashidExact ==
  /\ \A f \in Fds : Cardinality({s \in Slots : id[s] = f}) <= 1
  /\ \A s \in Slots, h \in 0..HashCap - 1 :
       Cardinality({i \in DOMAIN hash[h] : hash[h][i] = s}) =
         IF id[s] # Free /\ id[s] % HashCap = h THEN 1 ELSE 0
  /\ count = Cardinality({s \in Slots : id[s] # Free})

\* The bytes of a databuffer are those it was given and has not read, whatever the
\* chunks: its size is right, and only its first chunk is partly read.
BufferExact ==
  \A s \in Slots : LET c == conn[s] IN
    /\ c.size = Len(Flat(c)) - c.offset
    /\ IF c.chunks = <<>> THEN c.offset = 0 ELSE c.offset < Len(Head(c.chunks))

\* What is forwarded for a socket are the messages that arrived on it, whole and in
\* order, as soon as they are there, whatever the chunks and whoever had the slot
\* before; empty messages are skipped.  Nothing is forwarded from a message on whose
\* length is negative as an int, and what follows a message for nobody is garbled.
Whole(f, k) == /\ Len(Text(SubSeq(script[f], 1, k))) <= got[f]
               /\ \A j \in 1..k : ~Wraps(script[f][j])
FramesKept ==
  \A f \in Fds : sock[f] # "none" /\ f \notin cut \cup astray =>
    LET all == SelectSeq([i \in DOMAIN script[f] |-> [k \in 1..script[f][i] |-> i]],
                         LAMBDA m : m # <<>>)
        due == Cardinality({k \in DOMAIN script[f] : Whole(f, k) /\ script[f][k] > 0})
    IN  /\ IsPrefix([i \in DOMAIN out[f] |-> out[f][i].bytes], all)
        /\ Len(out[f]) <= due /\ (loop = Free => Len(out[f]) = due)

\* A message goes to the broker, or else to the agent its own connection was given,
\* never to that of a connection that had the slot or the socket id before, or else to
\* the watchdog; it is for nobody only if there is no watchdog.
RightRecipient ==
  \A f \in Fds : /\ \A i \in DOMAIN out[f] : out[f][i].to = out[f][i].meant
                 /\ f \in astray => ~Watched

\* The watchdog hears of the end of every connection it heard of, once.
Reported == Watched => \A f \in Fds : view[f] = IF Lookup(f) # Free THEN "open" ELSE "closed"

\* assert(g->listen_id == message->id): whoever is accepted was accepted by the socket
\* the gate listens on.
AcceptAssert == ~aborted
=============================================================================
