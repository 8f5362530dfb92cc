------------------------------ MODULE MCNetwork ------------------------------
\* What connects a node with clients and with other nodes: the harbors with their
\* slaves and the master, the gate in C, and the gate in Lua with netpack.  A
\* behaviour chooses one of them at the start; the others stay in their initial
\* state.
EXTENDS Integers, Sequences, FiniteSets

CONSTANT Comps   \* the parts to choose from

VARIABLES
  comp,   \* the part that runs
  slave_node, global_name, toMaster, toSlave, stage, need, slaves, connect_queue,
  globalname, openMaster, openReady, text, inbox, peer, queue, value, nameQueue,
  harborConn, link, owner, alive, harborGot, sent, regs, faults,
  id, gateHash, count, gateConn, listens, broker, loop, gateSock, listening,
  gateScript, gateGot, gateOut, given, astray, view, cut, gateOpens, gateCtrls, aborted,
  packHash, ring, head, tail, cap, more, connection, client_number, packSock,
  packScript, packGot, packOut, dropped, packOpens, packCtrls

harborVars == <<slave_node, global_name, toMaster, toSlave, stage, need, slaves,
                connect_queue, globalname, openMaster, openReady, text, inbox, peer,
                queue, value, nameQueue, harborConn, link, owner, alive, harborGot,
                sent, regs, faults>>
gateVars   == <<id, gateHash, count, gateConn, listens, broker, loop, gateSock, listening,
                gateScript, gateGot, gateOut, given, astray, view, cut, gateOpens, gateCtrls,
                aborted>>
packVars   == <<packHash, ring, head, tail, cap, more, connection, client_number,
                packSock, packScript, packGot, packOut, dropped, packOpens, packCtrls>>
allVars    == <<comp, harborVars, gateVars, packVars>>

\* Two nodes with a name, and two messages or a message and a fault; three nodes that
\* start.
Hbr == INSTANCE Harbor WITH
          N <- 2, Names <- {"x"}, MaxFault <- 1, MaxWork <- 2, MaxReg <- 1,
          conn <- harborConn, got <- harborGot
Tri == INSTANCE Harbor WITH
          N <- 3, Names <- {"x"}, MaxFault <- 0, MaxWork <- 0, MaxReg <- 0,
          conn <- harborConn, got <- harborGot

\* Two connections at a time on three sockets, two of which share a hash chain; the
\* first client sends an empty message, or one that is too long.
Gat == INSTANCE Gate WITH
          Fds <- {1, 3, 5}, Cap <- 2, MinHash <- 2, HeaderSize <- 2, Base <- 2,
          MaxSize <- 3, Agents <- {"a"}, Brokers <- {"b"}, Watched <- TRUE,
          MaxOpen <- 3, MaxCtrl <- 2,
          Scripts <- [f \in {1, 3, 5} |-> IF f = 1 THEN {<<1, 0, 1>>, <<3, 1>>} ELSE {<<1>>}],
          hash <- gateHash, conn <- gateConn, sock <- gateSock, script <- gateScript,
          got <- gateGot, out <- gateOut, opens <- gateOpens, ctrls <- gateCtrls

\* Headers of four bytes, and no watchdog: a length that is negative as an int, one that is
\* too long, and messages before an agent is there.
Lng == INSTANCE Gate WITH
          Fds <- {1}, Cap <- 1, MinHash <- 1, HeaderSize <- 4, Base <- 2,
          MaxSize <- 3, Agents <- {"a"}, Brokers <- {}, Watched <- FALSE,
          MaxOpen <- 1, MaxCtrl <- 3, Scripts <- [f \in {1} |-> {<<2, 1>>, <<3>>, <<8>>}],
          hash <- gateHash, conn <- gateConn, sock <- gateSock, script <- gateScript,
          got <- gateGot, out <- gateOut, opens <- gateOpens, ctrls <- gateCtrls

\* Three sockets in two hash chains, and a queue that grows at its second message.
Pack == INSTANCE Netpack WITH
          Fds <- {1, 3, 5}, HashSize <- 2, QueueSize <- 2, Base <- 2, MaxClient <- 2,
          MaxOpen <- 3, MaxCtrl <- 2,
          Scripts <- [f \in {1, 3, 5} |-> IF f = 1 THEN {<<1, 0, 2>>, <<2, 3>>} ELSE {<<2>>}],
          hash <- packHash, sock <- packSock, script <- packScript, got <- packGot,
          out <- packOut, opens <- packOpens, ctrls <- packCtrls

AllInit ==
  /\ comp \in Comps
  /\ CASE comp = "three" -> Tri!Init
       [] OTHER -> Hbr!Init
  /\ CASE comp = "gate" -> Gat!Init
       [] OTHER -> Lng!Init
  /\ Pack!Init

AllNext ==
  /\ UNCHANGED comp
  /\ \/ comp = "harbor" /\ Hbr!Next /\ UNCHANGED <<gateVars, packVars>>
     \/ comp = "three" /\ Tri!Next /\ UNCHANGED <<gateVars, packVars>>
     \/ comp = "gate" /\ Gat!Next /\ UNCHANGED <<harborVars, packVars>>
     \/ comp = "long" /\ Lng!Next /\ UNCHANGED <<harborVars, packVars>>
     \/ comp = "netpack" /\ Pack!Next /\ UNCHANGED <<harborVars, gateVars>>

AllSpec == AllInit /\ [][AllNext]_allVars

-----------------------------------------------------------------------------
\* service_harbor.c: a queue whose way is known is empty; what is sent is for the handle
\* it names; messages by handle arrive in order and once, and without faults none is lost.
HarborRight ==
  IF comp = "three"
  THEN Tri!TypeOK /\ Tri!QueuesEmptied /\ Tri!ToRightHandle /\ Tri!InOrder /\ Tri!NoneLost
  ELSE Hbr!TypeOK /\ Hbr!QueuesEmptied /\ Hbr!ToRightHandle /\ Hbr!InOrder /\ Hbr!NoneLost

\* service_gate.c: exactly the connected sockets are found in hashid.h, each in one slot;
\* the bytes pushed into databuffer.h and not read are there; messages are forwarded whole,
\* in order and at once, to the broker, the agent of the connection or the watchdog; and
\* the watchdog hears of the end of each connection once.
GateRight ==
  /\ comp = "gate" => /\ Gat!TypeOK /\ Gat!HashidExact /\ Gat!BufferExact
                      /\ Gat!FramesKept /\ Gat!RightRecipient /\ Gat!Reported
  /\ comp = "long" => /\ Lng!TypeOK /\ Lng!HashidExact /\ Lng!BufferExact
                      /\ Lng!FramesKept /\ Lng!RightRecipient /\ Lng!Reported

\* service_gate.c:253, assert(g->listen_id == message->id): who connects was accepted by the
\* socket the gate listens on.  The code does not keep it: one that was accepted before
\* "close" took effect in the socket server is reported after the gate has forgotten
\* listen_id, and ends the process.
AcceptAssert == comp = "gate" => Gat!AcceptAssert

\* lua-netpack.c, gateserver.lua: messages are dispatched whole, in order and at once; the
\* queue is empty before the next socket message; the begun message of a socket is kept
\* once; client_number counts the clients and stays within maxclient.
NetpackRight ==
  comp = "netpack" => /\ Pack!TypeOK /\ Pack!FramesKept /\ Pack!QueueEmptied
                      /\ Pack!UncompleteExact /\ Pack!ClientsCounted
=============================================================================
