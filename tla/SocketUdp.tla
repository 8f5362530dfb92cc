----------------------------- MODULE SocketUdp -----------------------------
(***************************************************************************)
(* The datagrams of one udp socket (socket_server.c): addresses as they    *)
(* travel in requests, buffers and messages, the default address, and the  *)
(* two lists of datagrams that wait for the kernel.                        *)
(*                                                                         *)
(* A uint8_t udp_address[19] is the sequence of its cells: the protocol,   *)
(* the port, and one cell for every four bytes of the host.                *)
(***************************************************************************)
EXTENDS Integers, Sequences, FiniteSets, SequencesExt

CONSTANTS
  Protocol,   \* s->protocol
  Hosts,      \* addresses, [family, port, host]: family is "udp" or "udp6"
  Count,      \* datagrams services send
  Payload     \* cells of a received datagram

VARIABLES
  default,    \* s->p.udp_address
  high, low,  \* s->high, s->low: [n, address], n numbers the datagrams
  watch,      \* sp_write
  next,       \* the next datagram
  wire,       \* what the kernel sent, [n, to]
  aimed,      \* history: the address each datagram was meant for
  got         \* the last SOCKET_UDP message, [data, ud, from], from its true sender

vars == <<default, high, low, watch, next, wire, aimed, got>>

NoAddress == <<>>  \* memset(ns->p.udp_address, 0, ..): the protocol cell is that of tcp

Init ==
  /\ default = NoAddress /\ high = <<>> /\ low = <<>> /\ watch = FALSE /\ next = 1
  /\ wire = <<>> /\ aimed = <<>> /\ got = [data |-> <<>>, ud |-> -1, from |-> NoAddress]

-----------------------------------------------------------------------------
\* gen_udp_address
GenAddress(a) ==
  <<a.family, a.port>> \o (IF a.family = "udp" THEN <<a.host>> ELSE <<a.host, 0, 0, 0>>)

\* udp_socket_address: the address to send to, none if it is not of the socket's kind.
SocketAddress(cells) ==
  IF cells = NoAddress \/ cells[1] # Protocol THEN NoAddress
  ELSE [family |-> cells[1], port |-> cells[2], host |-> cells[3]]

\* socket_server_udp_address: where the address of a message is, and its size.
AddressSize(type) == IF type = "udp" THEN 3 ELSE 6
MessageAddress(msg) ==
  LET type == msg.data[msg.ud + 1] IN SubSeq(msg.data, msg.ud + 1, msg.ud + AddressSize(type))

-----------------------------------------------------------------------------
\* socket_server_udp_connect and set_udp_address; an address of the other protocol
\* is answered with an error.
Connect(a) ==
  /\ a.family = Protocol /\ default' = GenAddress(a)
  /\ UNCHANGED <<high, low, watch, next, wire, aimed, got>>

\* sendto: refused without an address, and when the kernel has no room.
Goes(d) == SocketAddress(d.address) # NoAddress
Sendto(d) == [n |-> d.n, to |-> SocketAddress(d.address)]

\* socket_server_udp_send ('A') or socket_server_send ('D', 'P'), and send_socket: an
\* address of the request's own or the default one of the moment it is served.
Datagram(cells)    == [n |-> next, address |-> cells]
Sends(cells, prio) ==
  LET d == Datagram(cells)
  IN  /\ next <= Count /\ next' = next + 1 /\ aimed' = Append(aimed, SocketAddress(cells))
      /\ \/ /\ high = <<>> /\ low = <<>> /\ Goes(d)
            /\ wire' = Append(wire, Sendto(d)) /\ UNCHANGED <<high, low, watch>>
         \/ /\ IF prio = "high" THEN high' = Append(high, d) /\ UNCHANGED low
                                ELSE low' = Append(low, d) /\ UNCHANGED high
            /\ watch' = TRUE /\ UNCHANGED wire
      /\ UNCHANGED <<default, got>>
Send(prio) == Sends(default, prio)
SendTo(a)  == Sends(GenAddress(a), "high")

\* send_buffer with send_list_udp: the kernel takes n datagrams; one that it refuses
\* stays at the head of its list and ends the loop.
Prefix(list) == {n \in 0..Len(list) : \A i \in 1..n : Goes(list[i])}
Drained(list, n)    == SubSeq(list, n + 1, Len(list))
SendBuffer ==
  /\ watch
  /\ \E n \in Prefix(high), m \in Prefix(low) :
       /\ (n < Len(high) => m = 0)
       /\ high' = Drained(high, n) /\ low' = Drained(low, m)
       /\ wire' = wire \o [i \in 1..n |-> Sendto(high[i])] \o [i \in 1..m |-> Sendto(low[i])]
  /\ watch' = (high' # <<>> \/ low # <<>>)   \* step 4, when there was nothing left
  /\ UNCHANGED <<default, next, aimed, got>>

\* forward_message_udp: the sender's address follows the payload; a datagram of the
\* other protocol is dropped.
Receive(a, n) ==
  /\ a.family = Protocol
  /\ got' = [data |-> [i \in 1..n |-> "data"] \o GenAddress(a), ud |-> n, from |-> a]
  /\ UNCHANGED <<default, high, low, watch, next, wire, aimed>>

Next ==
  \/ \E a \in Hosts : Connect(a) \/ SendTo(a) \/ \E n \in Payload : Receive(a, n)
  \/ \E prio \in {"high", "low"} : Send(prio)
  \/ SendBuffer

\* The kernel gets room again and again for all that it does not refuse.
Stuck(list) == list # <<>> => ~Goes(list[1])
DrainAll == SendBuffer /\ Stuck(high') /\ (high' = <<>> => Stuck(low'))
Fairness == SF_vars(DrainAll)
Spec == Init /\ [][Next]_vars /\ Fairness

-----------------------------------------------------------------------------
TypeOK ==
  /\ next \in 1..(Count + 1) /\ Len(aimed) = next - 1 /\ watch \in BOOLEAN
  /\ (high # <<>> \/ low # <<>>) => watch
  /\ \A i \in 1..Len(wire) : wire[i].n \in 1..Count

\* A datagram goes where it was meant to go when it was sent, although the default
\* address may have changed while it waited; and at most once.
RightAddress ==
  /\ \A i \in 1..Len(wire) : wire[i].to = aimed[wire[i].n]
  /\ \A i, j \in 1..Len(wire) : wire[i].n = wire[j].n => i = j

\* A service that answers the address it is given answers the sender: the address
\* taken from the message is a usable one and the sender's.
AnswersSender == got.ud >= 0 => SocketAddress(MessageAddress(got)) = got.from
                                /\ GenAddress(got.from) = MessageAddress(got)

\* Nothing waits for ever behind datagrams of the right kind.  (One without a usable
\* address is never given up and blocks those behind it: the code keeps it.)
AllUsable == \A i \in 1..Len(aimed) : aimed[i] # NoAddress
Arrives ==
  \A k \in 1..Count : (next > k) ~> (~AllUsable \/ \E i \in 1..Len(wire) : wire[i].n = k)
=============================================================================
