----------------------------- MODULE MCSockets -----------------------------
\* What carries messages to and from the services, each part on its own
\* variables: a mailbox, the socket server, what it sends and receives on a
\* stream and on a datagram socket, and the formats of what is sent.  A behaviour chooses one of them at the
\* start; the others stay in their initial state.
EXTENDS MessageQueue

CONSTANT Comps   \* the parts to choose from

VARIABLES
  comp,   \* the part that runs
  slot, allocId, pipe, fds, epoll, ev, checkctrl, spc, result, aborted, wpc, wreq,
  known, allocs, ended, raced,
  next, high, low, wbSize, wire, watch, type, size,
  default, uhigh, ulow, uwatch, unext, uwire, aimed, got,
  step, codec, value, codWire, codResult

sockVars == <<slot, allocId, pipe, fds, epoll, ev, checkctrl, spc, result, aborted,
              wpc, wreq, known, allocs, ended, raced>>
ioVars   == <<next, high, low, wbSize, wire, watch, type, size>>
udpVars  == <<default, uhigh, ulow, uwatch, unext, uwire, aimed, got>>
codVars  == <<step, codec, value, codWire, codResult>>
allVars  == <<comp, vars, sockVars, ioVars, udpVars, codVars>>

\* The socket server: sockets that connect and are closed and written to, sockets
\* that listen and accept, bound descriptors, datagram sockets, and two threads that race for slots;
\* on two slots, with stale requests, failing calls, and ids that wrap.
Conn == INSTANCE SocketServer WITH
          Threads <- 1..1, MaxSocket <- 2, IdMod <- 6, StartId <- 4, MaxFd <- 2,
          MaxPipe <- 2, MaxEvent <- 2, MaxWb <- 1, MaxAlloc <- 3, Ops <- {"O", "K", "D"}
Lstn == INSTANCE SocketServer WITH
          Threads <- 1..1, MaxSocket <- 2, IdMod <- 6, StartId <- 4, MaxFd <- 2,
          MaxPipe <- 2, MaxEvent <- 2, MaxWb <- 1, MaxAlloc <- 3,
          Ops <- {"L", "S", "K", "W", "X"}
Bnd  == INSTANCE SocketServer WITH
          Threads <- 1..1, MaxSocket <- 2, IdMod <- 6, StartId <- 4, MaxFd <- 2,
          MaxPipe <- 2, MaxEvent <- 2, MaxWb <- 1, MaxAlloc <- 3,
          Ops <- {"B", "S", "K"}
Dgrm == INSTANCE SocketServer WITH
          Threads <- 1..1, MaxSocket <- 2, IdMod <- 6, StartId <- 5, MaxFd <- 2,
          MaxPipe <- 2, MaxEvent <- 1, MaxWb <- 1, MaxAlloc <- 2,
          Ops <- {"U", "D", "P", "T", "C", "K"}
Thrd == INSTANCE SocketServer WITH
          Threads <- 1..2, MaxSocket <- 2, IdMod <- 6, StartId <- 4, MaxFd <- 2,
          MaxPipe <- 2, MaxEvent <- 1, MaxWb <- 1, MaxAlloc <- 3, Ops <- {"O", "K"}
\* One slot, for liveness.
Half == INSTANCE SocketServer WITH
          Threads <- 1..1, MaxSocket <- 1, IdMod <- 3, StartId <- 0, MaxFd <- 1,
          MaxPipe <- 2, MaxEvent <- 1, MaxWb <- 2, MaxAlloc <- 2,
          Ops <- {"O", "K", "D", "P"}

\* Five packets of both priorities.
IO  == INSTANCE SocketIO WITH Packets <- 5, Size <- <<2, 3, 1, 2, 1>>, Low <- {2, 4},
                              MinRead <- 4, MaxRead <- 9

\* An IPv6 socket, two peers of its kind and one of the other.
Udp == INSTANCE SocketUdp WITH
         Protocol <- "udp6", Count <- 3, Payload <- {0, 2},
         Hosts <- {[family |-> "udp6", port |-> 1, host |-> 1],
                   [family |-> "udp6", port |-> 1, host |-> 2],
                   [family |-> "udp", port |-> 1, host |-> 1]},
         high <- uhigh, low <- ulow, watch <- uwatch, next <- unext, wire <- uwire

\* The codecs, with the values of CodecValues.
Cod == INSTANCE Codecs WITH wire <- codWire, result <- codResult

AllInit ==
  /\ comp \in Comps
  /\ Init /\ IO!Init /\ Udp!Init /\ Cod!Init
  /\ CASE comp = "half" -> Half!Init
       [] comp = "thread" -> Thrd!Init
       [] comp = "datagram" -> Dgrm!Init
       [] OTHER -> Conn!Init

AllNext ==
  /\ UNCHANGED comp
  /\ \/ comp = "mailbox" /\ Next /\ UNCHANGED <<sockVars, ioVars, udpVars, codVars>>
     \/ comp = "connect" /\ Conn!Next /\ UNCHANGED <<vars, ioVars, udpVars, codVars>>
     \/ comp = "listen" /\ Lstn!Next /\ UNCHANGED <<vars, ioVars, udpVars, codVars>>
     \/ comp = "bind" /\ Bnd!Next /\ UNCHANGED <<vars, ioVars, udpVars, codVars>>
     \/ comp = "datagram" /\ Dgrm!Next /\ UNCHANGED <<vars, ioVars, udpVars, codVars>>
     \/ comp = "thread" /\ Thrd!Next /\ UNCHANGED <<vars, ioVars, udpVars, codVars>>
     \/ comp = "half" /\ Half!Next /\ UNCHANGED <<vars, ioVars, udpVars, codVars>>
     \/ comp = "io" /\ IO!Next /\ UNCHANGED <<vars, sockVars, udpVars, codVars>>
     \/ comp = "udp" /\ Udp!Next /\ UNCHANGED <<vars, sockVars, ioVars, codVars>>
     \/ comp = "codecs" /\ Cod!Next /\ UNCHANGED <<vars, sockVars, ioVars, udpVars>>

AllSpec == AllInit /\ [][AllNext]_allVars

\* The fairness of the part that runs, as Half!Fairness, IO!Fairness and
\* Udp!Fairness state it.
HalfRuns == comp = "half" /\ aborted = "no"
LiveSpec ==
  /\ AllSpec
  /\ WF_sockVars(HalfRuns /\ Half!Serve) /\ SF_sockVars(HalfRuns /\ Half!NoCmd)
  /\ SF_sockVars(HalfRuns /\ Half!AllWritable) /\ SF_sockVars(HalfRuns /\ Half!Drain(0))
  /\ SF_ioVars(comp = "io" /\ IO!SendBuffer /\ high' = <<>> /\ low' = <<>>)
  /\ SF_udpVars(comp = "udp" /\ Udp!DrainAll)

\* The properties of the socket server say nothing of what follows a race.
NotRaced == raced = {}

-----------------------------------------------------------------------------
\* socket_server.c: open descriptors, epoll and the slots agree with each other; whoever
\* reserved a slot will fill it or free it; no descriptor stays open that no slot and no
\* request knows; a socket with queued packets is watched for writing; and no assert
\* fails but for the races.
SlotsRight ==
  /\ Conn!QueuedIsWatched /\ Conn!AssertsHold
  /\ comp = "connect" => Conn!TypeOK
  /\ comp # "thread" => Conn!NoFdLeak /\ Lstn!ReservedIsClaimed
  /\ comp \in {"connect", "listen", "bind", "datagram"} => Conn!DescriptorsMatch
\* After a socket's end its service hears nothing more of it.  (Two threads that
\* wrap alloc_id at once both read the masked value and get the same id: then the
\* second socket begins after the first has ended.)
NothingAfterEnd == [][comp # "thread" => Conn!SilentAfterEnd]_sockVars
\* A half-closed socket whose peer reads is closed in the end.
HalfCloseEnds == Half!HalfCloseEnds

\* send_buffer: the bytes on the wire are those of the packets, once; a packet begun is
\* finished before another one starts; packets of one priority keep their order;
\* wb_size is what is still to be written.  A datagram goes where it was meant to go when
\* it was sent, at most once, and the address received with it is its sender's.
SentRight ==
  /\ IO!TypeOK /\ IO!WholePackets /\ IO!OrderPerPriority /\ IO!LowIsWhole
  /\ IO!WbSizeExact /\ IO!ReadSize
  /\ Udp!TypeOK /\ Udp!RightAddress /\ Udp!AnswersSender
\* lua-seri.c, lua-bson.c, sproto, lua-crypt.c, lua-sharedata.c: what was encoded is decoded
\* as it was, cut off bytes are not taken for a value, and no buffer is left with bytes unwritten.
CodecsRight ==
  comp = "codecs" => /\ Cod!SeriRight /\ Cod!BsonRight /\ Cod!SprotoRight
                     /\ Cod!WordsRight /\ Cod!CryptRight /\ Cod!ShareRight
\* Without a close everything sent on a stream arrives; no datagram waits for ever
\* behind others with usable addresses.
Arrives == IO!Arrives /\ Udp!Arrives
=============================================================================
