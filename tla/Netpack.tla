------------------------------ MODULE Netpack ------------------------------
(***************************************************************************)
(* The gate of the game servers: lua-netpack.c, which cuts what clients    *)
(* send into messages (two bytes of length, then the message), under       *)
(* lualib/snax/gateserver.lua and service/gate.lua, which dispatch them.   *)
(*                                                                         *)
(* One socket message is handled at a time; when it held several messages, *)
(* they are popped and dispatched one by one, by coroutines that fork each *)
(* other.  A client writes the messages of a script, which arrive in       *)
(* chunks of any size; a byte of a message is its number in the script.    *)
(***************************************************************************)
EXTENDS Integers, Sequences, FiniteSets, SequencesExt

CONSTANTS
  Fds,         \* socket ids of clients, numbers
  HashSize,    \* HASHSIZE
  QueueSize,   \* QUEUESIZE
  Base,        \* 256
  MaxClient,   \* maxclient
  Scripts,     \* bound: the lengths of the messages a client sends, per socket
  MaxOpen,     \* bound: connections in all
  MaxCtrl      \* bound: commands of the watchdog

VARIABLES
  hash,             \* chains of struct uncomplete
  ring, head, tail, cap, \* struct queue
  more,             \* dispatch_queue goes on
  connection,       \* of gateserver: socket -> nil, true or false
  client_number,
  sock, script, got, \* sockets: none, accepted, started or closing
  out,              \* history: messages dispatched, per socket
  dropped,          \* history: sockets a message of which was dropped
  opens, ctrls      \* so far

ringVars == <<ring, head, tail, cap>>
envVars  == <<sock, script, got, opens>>
vars     == <<hash, ringVars, more, connection, client_number, envVars, out, dropped, ctrls>>

Init ==
  /\ hash = [h \in 0..HashSize - 1 |-> <<>>]
  /\ ring = [i \in 0..QueueSize - 1 |-> <<0, <<>>>>] /\ head = 0 /\ tail = 0 /\ cap = QueueSize
  /\ more = FALSE /\ connection = [f \in Fds |-> "nil"] /\ client_number = 0
  /\ sock = [f \in Fds |-> "none"] /\ script = [f \in Fds |-> <<>>] /\ got = [f \in Fds |-> 0]
  /\ out = [f \in Fds |-> <<>>] /\ dropped = {} /\ opens = 0 /\ ctrls = 0

-----------------------------------------------------------------------------
(* lua-netpack.c.  An operator named Bad... is an error in the next one.   *)

\* find_uncomplete, which also takes it out; save_uncomplete
Chain(f)  == hash[f % HashSize]
Has(f)    == \E i \in DOMAIN Chain(f) : Chain(f)[i].id = f
Found(f)  == Chain(f)[SelectInSeq(Chain(f), LAMBDA u : u.id = f)]
Take(f)    == SelectSeq(Chain(f), LAMBDA u : u.id # f)
\* The chains when u is all that is kept of f: nothing, a first byte, or a part.
Kept(f, u) == [hash EXCEPT ![f % HashSize] = u \o (IF Has(f) THEN Take(f) ELSE @)]

Rest(b, n) == SubSeq(b, n + 1, Len(b))
ReadSize(b) == b[1] * Base + b[2]
Half(f, b)  == <<[id |-> f, read |-> -1, header |-> b, size |-> 0, buf |-> <<>>]>>
Part(f, n, b) == <<[id |-> f, read |-> Len(b), header |-> 0, size |-> n, buf |-> b]>>

\* push_more: the messages of b, and what is left.
PushMore(f, bytes) ==
  LET M[b \in Seq(Nat)] ==
        IF Len(b) = 1 THEN [ms |-> <<>>, u |-> Half(f, b[1])]
        ELSE LET n == ReadSize(b)
                 d == Rest(b, 2)
             IN  IF Len(d) < n THEN [ms |-> <<>>, u |-> Part(f, n, d)]
                 ELSE IF Len(d) = n THEN [ms |-> <<d>>, u |-> <<>>]
                 ELSE [ms |-> <<SubSeq(d, 1, n)>> \o M[Rest(d, n)].ms, u |-> M[Rest(d, n)].u]
  IN  M[bytes]

\* filter_data_ when f has an uncomplete message.
BadFill(f, bytes) ==
  LET old  == Found(f)
      half == old.read < 0
      b    == IF half THEN Rest(bytes, 1) ELSE bytes
      size == IF half THEN Head(bytes) ELSE old.size
      need == size - Len(old.buf)
  IN  IF Len(b) < need THEN [ms |-> <<>>, u |-> Part(f, size, old.buf \o b)]
      ELSE IF Len(b) = need THEN [ms |-> <<old.buf \o b>>, u |-> <<>>]
      ELSE LET m == PushMore(f, Rest(b, need))
           IN  [ms |-> <<old.buf \o SubSeq(b, 1, need)>> \o m.ms, u |-> m.u]
Fill(f, bytes) ==
  LET old  == Found(f)
      half == old.read < 0
      b    == IF half THEN Rest(bytes, 1) ELSE bytes
      size == IF half THEN old.header * Base + Head(bytes) ELSE old.size
      need == size - Len(old.buf)
  IN  IF Len(b) < need THEN [ms |-> <<>>, u |-> Part(f, size, old.buf \o b)]
      ELSE IF Len(b) = need THEN [ms |-> <<old.buf \o b>>, u |-> <<>>]
      ELSE LET m == PushMore(f, Rest(b, need))
           IN  [ms |-> <<old.buf \o SubSeq(b, 1, need)>> \o m.ms, u |-> m.u]
\* filter_data: a message that comes alone is returned, several are queued.
FilterData(f, b) == IF Has(f) THEN Fill(f, b) ELSE PushMore(f, b)

\* push_data and expand_queue
RingNow == [ring |-> ring, head |-> head, tail |-> tail, cap |-> cap]
Expand(q) == [q EXCEPT !.cap = @ + QueueSize, !.head = 0, !.tail = q.cap,
                       !.ring = [i \in 0..q.cap + QueueSize - 1 |->
                                  IF i < q.cap THEN q.ring[(q.head + i) % q.cap] ELSE <<0, <<>>>>]]
After(i, c)    == (i + 1) % c
PushData(q, e) ==
  LET p == [q EXCEPT !.ring[q.tail] = e, !.tail = After(@, q.cap)]
  IN  IF p.head = p.tail THEN Expand(p) ELSE p
SetRing(q) == ring' = q.ring /\ head' = q.head /\ tail' = q.tail /\ cap' = q.cap

-----------------------------------------------------------------------------
(* gateserver.lua and gate.lua                                             *)
Idle == ~more
Closing(f) == [sock EXCEPT ![f] = IF @ = "none" THEN @ ELSE "closing"]

\* dispatch_msg; the handler may close the client.
DispatchMsg(f, m) ==
  IF connection[f] # "true"
  THEN dropped' = dropped \cup {f} /\ UNCHANGED <<out, connection, sock>>
  ELSE /\ out' = [out EXCEPT ![f] = Append(@, m)]
       /\ \/ UNCHANGED <<connection, sock>>
          \/ connection' = [connection EXCEPT ![f] = "false"] /\ sock' = Closing(f)
       /\ UNCHANGED dropped

Text(s) == FlattenSeq([i \in DOMAIN s |-> <<s[i] \div Base, s[i] % Base>> \o [k \in 1..s[i] |-> i]])

\* The next n bytes from f: one message is dispatched (MSG.data), several start
\* dispatch_queue (MSG.more).
Save(f, u)    == Kept(f, u)
Data(f, n) ==
  /\ Idle /\ sock[f] \in {"started", "closing"} /\ n > 0 /\ got[f] + n <= Len(Text(script[f]))
  /\ got' = [got EXCEPT ![f] = @ + n]
  /\ LET r == FilterData(f, SubSeq(Text(script[f]), got[f] + 1, got[f] + n))
     IN  /\ hash' = Save(f, r.u)
         /\ IF Len(r.ms) = 1 /\ r.u = <<>>
            THEN DispatchMsg(f, r.ms[1]) /\ UNCHANGED <<ringVars, more>>
            ELSE /\ SetRing(FoldLeft(LAMBDA q, m : PushData(q, <<f, m>>), RingNow, r.ms))
                 /\ more' = (r.ms # <<>>)
                 /\ UNCHANGED <<out, dropped, connection, sock>>
  /\ UNCHANGED <<client_number, script, opens, ctrls>>

\* dispatch_queue, one turn of it or of those it forks; the last finds nothing.
PopsNone    == head = tail
DispatchQueue ==
  /\ more
  /\ IF PopsNone THEN more' = FALSE /\ UNCHANGED <<ringVars, out, dropped, connection, sock>>
     ELSE /\ head' = After(head, cap) /\ DispatchMsg(ring[head][1], ring[head][2])
          /\ UNCHANGED <<ring, tail, cap, more>>
  /\ UNCHANGED <<hash, client_number, script, got, opens, ctrls>>

\* MSG.open
Full    == client_number >= MaxClient
Open(f) ==
  /\ Idle /\ sock[f] = "none" /\ opens < MaxOpen /\ opens' = opens + 1
  /\ IF Full THEN sock' = [sock EXCEPT ![f] = "closing"]
                            /\ UNCHANGED <<connection, client_number, script>>
     ELSE /\ connection' = [connection EXCEPT ![f] = "true"] /\ client_number' = client_number + 1
          /\ sock' = [sock EXCEPT ![f] = "accepted"]
          /\ \E s \in Scripts[f] : script' = [script EXCEPT ![f] = s]
  /\ UNCHANGED <<hash, ringVars, more, got, out, dropped, ctrls>>

\* MSG.close and MSG.error, with close_uncomplete
Forget(f)    == Kept(f, <<>>)
Close(f) ==
  /\ Idle /\ sock[f] # "none" /\ sock' = [sock EXCEPT ![f] = "none"]
  /\ hash' = Forget(f)
  /\ connection' = [connection EXCEPT ![f] = "nil"]
  /\ client_number' = IF connection[f] = "nil" THEN client_number ELSE client_number - 1
  /\ script' = [script EXCEPT ![f] = <<>>] /\ got' = [got EXCEPT ![f] = 0]
  /\ out' = [out EXCEPT ![f] = <<>>] /\ dropped' = dropped \ {f}
  /\ UNCHANGED <<ringVars, more, opens, ctrls>>

\* CMD.forward and CMD.accept, and CMD.kick: openclient and closeclient
Ctrl == /\ Idle /\ ctrls < MaxCtrl /\ ctrls' = ctrls + 1
        /\ UNCHANGED <<hash, ringVars, more, client_number, script, got, opens, out, dropped>>
Forward(f) == /\ connection[f] = "true"
              /\ sock' = [sock EXCEPT ![f] = IF @ = "accepted" THEN "started" ELSE @]
              /\ Ctrl /\ UNCHANGED connection
Kick(f)    == /\ connection[f] = "true" /\ connection' = [connection EXCEPT ![f] = "false"]
              /\ sock' = Closing(f) /\ Ctrl

Next ==
  \/ \E f \in Fds : \/ Open(f) \/ Close(f) \/ Forward(f) \/ Kick(f)
                    \/ \E n \in 1..Len(Text(script[f])) : Data(f, n)
  \/ DispatchQueue
Spec == Init /\ [][Next]_vars

-----------------------------------------------------------------------------
TypeOK ==
  /\ \A h \in DOMAIN hash : \A i \in DOMAIN hash[h] : hash[h][i].id \in Fds /\ hash[h][i].id % HashSize = h
  /\ cap \in {k * QueueSize : k \in 1..20} /\ DOMAIN ring = 0..cap - 1
  /\ head \in 0..cap - 1 /\ tail \in 0..cap - 1
  /\ connection \in [Fds -> {"nil", "true", "false"}]
  /\ sock \in [Fds -> {"none", "accepted", "started", "closing"}]

\* What clients send is dispatched whole, in order, and at once, however it is cut
\* into chunks and however often the queue grows; only what comes after the gate has
\* closed a client is dropped.
Whole(f, k) == Len(Text(SubSeq(script[f], 1, k))) <= got[f]
FramesKept ==
  \A f \in Fds : sock[f] # "none" =>
    LET all == [i \in DOMAIN script[f] |-> [k \in 1..script[f][i] |-> i]]
        due == Cardinality({k \in DOMAIN script[f] : Whole(f, k)})
    IN  /\ IsPrefix(out[f], all) /\ Len(out[f]) <= due
        /\ Idle /\ f \notin dropped => Len(out[f]) = due

\* The queue is empty before the next socket message, so that a message returned
\* alone never overtakes queued ones; and a dropped message means a closed client.
QueueEmptied == (Idle => head = tail) /\ \A f \in dropped : connection[f] # "true"

\* One message of a socket is uncomplete when its bytes end within it, else none: no
\* part is lost, kept twice, or left for the next socket with this id.
Parts(f) == Cardinality({p \in (DOMAIN hash) \X (1..2 * Cardinality(Fds)) :
                           p[2] \in DOMAIN hash[p[1]] /\ hash[p[1]][p[2]].id = f})
UncompleteExact ==
  \A f \in Fds :
    Parts(f) = IF \E k \in 0..Len(script[f]) : Len(Text(SubSeq(script[f], 1, k))) = got[f]
               THEN 0 ELSE 1

\* client_number is the number of clients, and at most maxclient.
ClientsCounted == /\ client_number = Cardinality({f \in Fds : connection[f] # "nil"})
                  /\ client_number <= MaxClient
=============================================================================
