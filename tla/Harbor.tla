------------------------------- MODULE Harbor -------------------------------
(***************************************************************************)
(* Messages between nodes: the master (service/cmaster.lua), and on every  *)
(* node the slave (service/cslave.lua), which meets the other nodes, and   *)
(* the harbor (service-src/service_harbor.c), which carries messages.      *)
(*                                                                         *)
(* A new node says hello to the master; the older nodes connect to it; it  *)
(* is ready when all have.  A connection is made by the slave and handed   *)
(* to the harbor, each side of which first sends its id.  One service of   *)
(* each node talks to those of other nodes, by handle or by global name;   *)
(* its handle is the node.  Connections are lists of what is on its way.   *)
(* Messages are shorter than 2^24 bytes and ids are right, so no harbor    *)
(* gets to STATUS_DOWN.                                                    *)
(***************************************************************************)
EXTENDS Integers, Sequences, FiniteSets, SequencesExt

CONSTANTS
  N,          \* nodes: 1..N
  Names,      \* global names
  MaxFault,   \* bound: nodes that crash and services that exit
  MaxWork,    \* bound: messages of all services, and faults
  MaxReg      \* bound: registered names

Nodes == 1..N       \* they start in this order
None  == 0

VARIABLES
  \* the master: its slaves, its names, and the connections with it
  slave_node, global_name, toMaster, toSlave,
  \* a slave
  stage,        \* how far its start function is
  need,         \* slaves to wait for
  slaves, connect_queue, globalname,
  openMaster, openReady,  \* the slave that monitor_master, ready connects to
  text,         \* messages of its harbor
  \* a harbor: mailbox, struct slave, struct keyvalue
  inbox, peer, queue, value, nameQueue,
  \* between two nodes
  conn,         \* pairs that are connected
  link,         \* link[n][m]: on its way from n to m
  owner,        \* owner[n][m]: the service of n that gets what m sends
  \* services
  alive,        \* nodes whose service lives
  got,          \* history: messages the service received
  sent,         \* history: messages sent, [from, to, byName]
  regs, faults  \* so far

masterVars == <<slave_node, global_name, toMaster, toSlave>>
slaveVars  == <<stage, need, slaves, connect_queue, globalname, openMaster, openReady>>
harborVars == <<peer, queue, value, nameQueue>>
netVars    == <<conn, link, owner>>
appVars    == <<alive, sent, regs, faults>>
vars == <<masterVars, slaveVars, text, inbox, harborVars, netVars, appVars, got>>

MayWork  == Len(sent) + faults < MaxWork
MayFail  == MayWork /\ faults < MaxFault
Each(v) == [n \in Nodes |-> v]

Init ==
  /\ slave_node = Each("none") /\ global_name = [x \in Names |-> None]
  /\ toMaster = Each(<<>>) /\ toSlave = Each(<<>>)
  /\ stage = Each("off") /\ need = Each(0) /\ slaves = Each(Each("nil"))
  /\ connect_queue = Each({}) /\ globalname = Each([x \in Names |-> None])
  /\ openMaster = Each(None) /\ openReady = Each(None) /\ text = Each(<<>>)
  /\ inbox = Each(<<>>) /\ peer = Each(Each("wait")) /\ queue = Each(Each(<<>>))
  /\ value = Each([x \in Names |-> None]) /\ nameQueue = Each([x \in Names |-> <<>>])
  /\ conn = {} /\ link = Each(Each(<<>>)) /\ owner = Each(Each("slave"))
  /\ alive = Nodes /\ got = Each(<<>>) /\ sent = <<>> /\ regs = 0 /\ faults = 0

Up(n)        == stage[n] \notin {"off", "dead"}
Add(f, n, x) == [f EXCEPT ![n] = Append(@, x)]
Pop(f, n)    == [f EXCEPT ![n] = Tail(@)]
\* What is written to every slave that is still connected to the master.
Tell(f, x) == [n \in Nodes |-> IF slave_node[n] = "on" THEN Append(f[n], x) ELSE f[n]]

-----------------------------------------------------------------------------
(* The master: one coroutine per slave reads what it sends.                *)
MasterStep == UNCHANGED <<slaveVars, text, inbox, harborVars, netVars, appVars, got>>
MasterHears(n, m) == toMaster[n] # <<>> /\ Head(toMaster[n]) = m /\ toMaster' = Pop(toMaster, n)

Handshake(n) ==
  /\ MasterHears(n, [t |-> "H"])
  /\ slave_node' = [slave_node EXCEPT ![n] = "on"]
  /\ toSlave' = Add(Tell(toSlave, [t |-> "C", id |-> n]), n,
                    [t |-> "W", n |-> Cardinality({m \in Nodes : slave_node[m] = "on"})])
  /\ UNCHANGED global_name /\ MasterStep

DispatchSlave(n, x, h) ==
  /\ \/ /\ MasterHears(n, [t |-> "R", name |-> x, h |-> h])
        /\ global_name' = [global_name EXCEPT ![x] = IF @ = None THEN h ELSE @]
        /\ toSlave' = Tell(toSlave, [t |-> "N", name |-> x, h |-> h])
     \/ /\ MasterHears(n, [t |-> "Q", name |-> x])
        /\ h = global_name[x]
        /\ toSlave' = IF h = None THEN toSlave ELSE Add(toSlave, n, [t |-> "N", name |-> x, h |-> h])
        /\ UNCHANGED global_name
  /\ UNCHANGED slave_node /\ MasterStep

SlaveDown(n) ==
  /\ MasterHears(n, [t |-> "closed"])
  /\ toSlave' = Tell(toSlave, [t |-> "D", id |-> n])
  /\ slave_node' = [slave_node EXCEPT ![n] = "down"]
  /\ UNCHANGED global_name /\ MasterStep

-----------------------------------------------------------------------------
(* The slave.  Its parts set stage, need, slaves, connect_queue, globalname,
   openMaster, openReady, toMaster, toSlave, text and inbox.               *)
SlaveStep == UNCHANGED <<slave_node, global_name, harborVars, appVars, got>>

Start(n) ==
  /\ stage[n] = "off" /\ (\A m \in 1..n - 1 : stage[m] # "off")
  /\ stage' = [stage EXCEPT ![n] = "hello"]
  /\ toMaster' = Add(toMaster, n, [t |-> "H"])
  /\ UNCHANGED <<toSlave, need, slaves, connect_queue, globalname, openMaster, openReady, text, inbox,
                 netVars>> /\ SlaveStep

\* monitor_master.  It does not read on while it connects.
ReadsMaster(n, m) ==
  /\ Up(n) /\ openMaster[n] = None /\ toSlave[n] # <<>> /\ Head(toSlave[n]) = m
  /\ toSlave' = Pop(toSlave, n)
  /\ UNCHANGED <<toMaster, openReady, text, netVars>> /\ SlaveStep

StageOf(n)    == IF n = 0 THEN "woken" ELSE "wait"
MasterAccepts(n) ==
  \E k \in 0..N :
    /\ ReadsMaster(n, [t |-> "W", n |-> k])
    /\ need' = [need EXCEPT ![n] = k]
    /\ stage' = [stage EXCEPT ![n] = StageOf(k)]
    /\ UNCHANGED <<slaves, connect_queue, globalname, openMaster, inbox>>
MasterConnect(n, k) ==
  /\ ReadsMaster(n, [t |-> "C", id |-> k])
  /\ IF stage[n] \in {"wait", "woken"}
     THEN connect_queue' = [connect_queue EXCEPT ![n] = @ \cup {k}] /\ UNCHANGED openMaster
     ELSE /\ openMaster' = IF slaves[n][k] = "nil" THEN [openMaster EXCEPT ![n] = k] ELSE openMaster
          /\ UNCHANGED connect_queue
  /\ UNCHANGED <<stage, need, slaves, globalname, inbox>>
MasterName(n, x, h) ==
  /\ ReadsMaster(n, [t |-> "N", name |-> x, h |-> h])
  /\ globalname' = [globalname EXCEPT ![n][x] = h]
  /\ inbox' = IF stage[n] \in {"wait", "woken"} THEN inbox
              ELSE Add(inbox, n, [t |-> "N", name |-> x, h |-> h])
  /\ UNCHANGED <<stage, need, slaves, connect_queue, openMaster>>
\* socket.close does nothing here: the slave has abandoned the socket.
MasterDown(n, k) ==
  /\ ReadsMaster(n, [t |-> "D", id |-> k])
  /\ slaves' = [slaves EXCEPT ![n][k] = "false"]
  /\ UNCHANGED <<stage, need, connect_queue, globalname, openMaster, inbox>>

\* connect_slave, after socket.open: it succeeds if the other still listens, and may
\* fail in any case.
Listens(m) == stage[m] \in {"hello", "wait"}
Connected(n, m) ==
  \/ /\ Listens(m)
     /\ conn' = conn \cup {{n, m}}
     /\ slaves' = [slaves EXCEPT ![n][m] = "fd"]
     /\ inbox' = Add(inbox, n, [t |-> "S", id |-> m])
  \/ /\ ~Listens(m) \/ MayFail
     /\ UNCHANGED <<conn, slaves, inbox>>
ConnectSlave(n, m) ==
  /\ Up(n) /\ m # None
  /\ \/ m = openMaster[n] /\ openMaster' = [openMaster EXCEPT ![n] = None] /\ UNCHANGED openReady
     \/ m = openReady[n] /\ openReady' = [openReady EXCEPT ![n] = None] /\ UNCHANGED openMaster
  /\ Connected(n, m)
  /\ faults' = IF Listens(m) /\ conn' = conn THEN faults + 1 ELSE faults
  /\ UNCHANGED <<masterVars, stage, need, connect_queue, globalname, text, harborVars, link, owner,
                 alive, sent, regs, got>>

\* ready, from the end of the start function: connect_queue, then all names.
Ready(n) ==
  /\ stage[n] = "woken" /\ stage' = [stage EXCEPT ![n] = "ready"]
  /\ UNCHANGED <<masterVars, need, slaves, connect_queue, globalname, openMaster, openReady, text,
                 inbox, netVars>> /\ SlaveStep
ReadyNext(n) ==
  /\ stage[n] = "ready" /\ openReady[n] = None
  /\ IF connect_queue[n] # {}
     THEN /\ \E k \in connect_queue[n] :
               /\ connect_queue' = [connect_queue EXCEPT ![n] = @ \ {k}]
               /\ openReady' = IF slaves[n][k] = "nil" THEN [openReady EXCEPT ![n] = k] ELSE openReady
          /\ UNCHANGED <<stage, inbox>>
     ELSE /\ stage' = [stage EXCEPT ![n] = "linked"]
          /\ LET known == SetToSeq({x \in Names : globalname[n][x] # None})
             IN  inbox' = [inbox EXCEPT ![n] = @ \o [i \in 1..Len(known) |->
                            [t |-> "N", name |-> known[i], h |-> globalname[n][known[i]]]]]
          /\ UNCHANGED <<connect_queue, openReady>>
  /\ UNCHANGED <<masterVars, need, slaves, globalname, openMaster, text, netVars>> /\ SlaveStep

\* monitor_harbor
HearsHarbor(n, x, k) ==
  /\ Up(n) /\ text[n] # <<>> /\ text' = Pop(text, n)
  /\ \/ /\ Head(text[n]) = [t |-> "Q", name |-> x]
        /\ IF globalname[n][x] # None
           THEN /\ inbox' = Add(inbox, n, [t |-> "N", name |-> x, h |-> globalname[n][x]])
                /\ UNCHANGED toMaster
           ELSE toMaster' = Add(toMaster, n, [t |-> "Q", name |-> x]) /\ UNCHANGED inbox
        /\ UNCHANGED slaves
     \/ /\ Head(text[n]) = [t |-> "D", id |-> k]
        /\ slaves' = [slaves EXCEPT ![n][k] = "false"]
        /\ UNCHANGED <<inbox, toMaster>>
  /\ UNCHANGED <<toSlave, stage, need, connect_queue, globalname, openMaster, openReady, netVars>>
  /\ SlaveStep

\* harbor.REGISTER, for a service of a node whose start is over.
Register(n, x) ==
  /\ stage[n] \in {"ready", "linked"} /\ n \in alive /\ globalname[n][x] = None
  /\ regs < MaxReg /\ regs' = regs + 1
  /\ globalname' = [globalname EXCEPT ![n][x] = n]
  /\ toMaster' = Add(toMaster, n, [t |-> "R", name |-> x, h |-> n])
  /\ inbox' = Add(inbox, n, [t |-> "N", name |-> x, h |-> n])
  /\ UNCHANGED <<slave_node, global_name, toSlave, stage, need, slaves, connect_queue, openMaster,
                 openReady, text, harborVars, netVars, alive, sent, faults, got>>

-----------------------------------------------------------------------------
(* What comes from the socket of m at n.                                   *)
SocketStep == UNCHANGED <<masterVars, need, connect_queue, globalname, openMaster, openReady, text,
                          harborVars, conn, appVars, got>>
Takes(n, m) == Up(n) /\ link[m][n] # <<>> /\ link' = [link EXCEPT ![m][n] = Tail(@)]

\* accept_slave, and then the callback of the listening socket.
Known(n) == Cardinality({m \in Nodes : slaves'[n][m] # "nil"})
BadEnough(n) == Known(n) > need[n]
Enough(n)    == Known(n) >= need[n]
AcceptSlave(n, m) ==
  /\ Takes(n, m) /\ owner[n][m] = "slave" /\ slaves[n][m] = "nil"
  /\ stage[n] # "hello"
  /\ IF Head(link[m][n]) = [t |-> "id"]
     THEN /\ slaves' = [slaves EXCEPT ![n][m] = "fd"]
          /\ inbox' = Add(inbox, n, [t |-> "A", id |-> m])
     ELSE UNCHANGED <<slaves, inbox>>
  /\ stage' = IF stage[n] = "wait" /\ Enough(n) THEN [stage EXCEPT ![n] = "woken"] ELSE stage
  /\ UNCHANGED owner /\ SocketStep

\* Data for a socket the slave has abandoned, or refused, is dropped.
Dropped(n, m) ==
  /\ Takes(n, m) /\ owner[n][m] = "slave" /\ slaves[n][m] # "nil"
  /\ UNCHANGED <<stage, slaves, inbox, owner>> /\ SocketStep

ToHarbor(n, m) ==
  /\ Takes(n, m) /\ owner[n][m] = "harbor"
  /\ inbox' = Add(inbox, n, [t |-> "data", id |-> m, d |-> Head(link[m][n])])
  /\ UNCHANGED <<stage, slaves, owner>> /\ SocketStep

-----------------------------------------------------------------------------
(* The harbor.                                                             *)
HarborStep == UNCHANGED <<slave_node, global_name, toMaster, toSlave, slaveVars, conn, appVars>>
Does(n, m) == Up(n) /\ inbox[n] # <<>> /\ Head(inbox[n]) = m

\* send_remote: what is written to a closed socket is dropped.
Written(n, m, ms) == IF {n, m} \in conn THEN [link EXCEPT ![n][m] = @ \o ms] ELSE link
Sends(n, m, ms)   == link' = Written(n, m, ms)

\* pop_queue, until it is empty
Popped(q)      == q
\* dispatch_queue
Flush(n, m, first) ==
  Sends(n, m, first \o Popped(queue[n][m])) /\ queue' = [queue EXCEPT ![n][m] = <<>>]

\* The socket now belongs to the harbor (skynet_socket_start).
BadHandOver(n, m) == UNCHANGED owner
HandOver(n, m)    == owner' = [owner EXCEPT ![n][m] = "harbor"]

\* harbor_command S and A
Meet(n, m) ==
  /\ \E c \in {"S", "A"} :
       /\ Does(n, [t |-> c, id |-> m])
       /\ IF peer[n][m] # "wait"
          THEN UNCHANGED <<peer, queue, link, owner>> /\ inbox' = Pop(inbox, n)
          ELSE /\ HandOver(n, m)
               /\ inbox' = IF {n, m} \in conn THEN Pop(inbox, n)
                           ELSE Add(Pop(inbox, n), n, [t |-> "data", id |-> m, d |-> [t |-> "closed"]])
               /\ peer' = [peer EXCEPT ![n][m] = IF c = "S" THEN "handshake" ELSE "up"]
               /\ IF c = "S" THEN Sends(n, m, <<[t |-> "id"]>>) /\ UNCHANGED queue
                             ELSE Flush(n, m, <<[t |-> "id"]>>)
  /\ UNCHANGED <<text, value, nameQueue, got>> /\ HarborStep

\* forward_local_message: a message for a service that is gone is answered with an
\* error, unless it is one.
Local(n, msg) ==
  /\ IF n \in alive /\ msg.h = n
     THEN got' = Add(got, n, msg) /\ inbox' = Pop(inbox, n)
     ELSE /\ inbox' = IF msg.type = "error" THEN Pop(inbox, n)
                      ELSE Add(Pop(inbox, n), n, [t |-> "out", msg |->
                             [msg EXCEPT !.type = "error", !.h = msg.from, !.from = n, !.name = "none"]])
          /\ UNCHANGED got
\* push_socket_data, and a close
Receive(n, m) ==
  \E d \in {x.d : x \in {y \in ToSet(inbox[n]) : y.t = "data"}} :
    /\ Does(n, [t |-> "data", id |-> m, d |-> d])
    /\ CASE d.t = "id" ->
              /\ peer' = [peer EXCEPT ![n][m] = "up"] /\ Flush(n, m, <<>>)
              /\ inbox' = Pop(inbox, n) /\ UNCHANGED <<text, got>>
         [] d.t = "msg" ->
              /\ Local(n, d.msg) /\ UNCHANGED <<peer, queue, link, text>>
         [] d.t = "closed" ->
              /\ text' = Add(text, n, [t |-> "D", id |-> m])
              /\ inbox' = Pop(inbox, n) /\ UNCHANGED <<peer, queue, link, got>>
    /\ UNCHANGED <<value, nameQueue, owner>> /\ HarborStep

Packed(ms) == [i \in DOMAIN ms |-> [t |-> "msg", msg |-> ms[i]]]

\* A message that waited for a name gets its handle.
Addressed(ms, h)    == [i \in DOMAIN ms |-> [ms[i] EXCEPT !.h = h]]

\* update_name and dispatch_name_queue.  A queue that waits for the name's node joins
\* that of the node, as it is.
UpdateName(n, x, h) ==
  /\ Does(n, [t |-> "N", name |-> x, h |-> h])
  /\ inbox' = Pop(inbox, n)
  /\ value' = [value EXCEPT ![n][x] = h] /\ nameQueue' = [nameQueue EXCEPT ![n][x] = <<>>]
  /\ LET ms == nameQueue[n][x]
         to == Addressed(ms, h)
     IN  IF h = n
         THEN got' = [got EXCEPT ![n] = IF n \in alive THEN @ \o to ELSE @] /\ UNCHANGED <<queue, link>>
         ELSE IF peer[n][h] = "wait"
         THEN queue' = [queue EXCEPT ![n][h] = @ \o Packed(ms)] /\ UNCHANGED <<got, link>>
         ELSE /\ Sends(n, h, Packed(to))
              /\ UNCHANGED <<queue, got>>
  /\ UNCHANGED <<text, peer, owner>> /\ HarborStep

\* remote_send_handle
Waits(n, m) == peer[n][m] # "up"
ToHandle(n, msg) ==
  IF msg.h = n THEN /\ got' = IF n \in alive THEN Add(got, n, msg) ELSE got
                    /\ UNCHANGED <<queue, link>>
  ELSE IF Waits(n, msg.h) THEN /\ queue' = [queue EXCEPT ![n][msg.h] = @ \o Packed(<<msg>>)]
                               /\ UNCHANGED <<link, got>>
  ELSE Sends(n, msg.h, Packed(<<msg>>)) /\ UNCHANGED <<queue, got>>
\* A message of a service of n, which may name its destination: remote_send_name
Remote(n) ==
  \E msg \in {x.msg : x \in {y \in ToSet(inbox[n]) : y.t = "out"}} :
    /\ Does(n, [t |-> "out", msg |-> msg])
    /\ IF msg.name = "none" THEN ToHandle(n, msg) /\ UNCHANGED <<nameQueue, text>>
       ELSE IF value[n][msg.name] # None
       THEN ToHandle(n, [msg EXCEPT !.h = value[n][msg.name]]) /\ UNCHANGED <<nameQueue, text>>
       ELSE /\ nameQueue' = [nameQueue EXCEPT ![n][msg.name] = Append(@, msg)]
            /\ text' = Add(text, n, [t |-> "Q", name |-> msg.name])
            /\ UNCHANGED <<queue, link, got>>
    /\ inbox' = Pop(inbox, n)
    /\ UNCHANGED <<peer, value, owner>> /\ HarborStep

-----------------------------------------------------------------------------
(* Services and faults.                                                    *)
AppStep == UNCHANGED <<masterVars, need, connect_queue, slaves, globalname, openMaster, openReady,
                       text, harborVars, owner, regs, got>>

\* A service knows a handle from a name or a message.
Knows(n, m) == \/ \E x \in Names : globalname[n][x] = m
               \/ \E i \in DOMAIN got[n] : got[n][i].from = m
Send(n, m, x) ==
  /\ stage[n] \in {"ready", "linked"} /\ n \in alive /\ MayWork
  /\ \/ m # n /\ m # None /\ Knows(n, m) /\ x = "none"
     \/ m = None /\ x \in Names
  /\ sent' = Append(sent, [from |-> n, to |-> m, name |-> x])
  /\ inbox' = Add(inbox, n, [t |-> "out", msg |-> [from |-> n, h |-> m, name |-> x, k |-> Len(sent'),
                                                  type |-> "text"]])
  /\ UNCHANGED <<stage, conn, link, alive, faults>> /\ AppStep

ServiceExits(n) ==
  /\ stage[n] \in {"ready", "linked"} /\ n \in alive /\ alive' = alive \ {n} /\ MayFail /\ faults' = faults + 1
  /\ UNCHANGED <<inbox, stage, conn, link, sent>> /\ AppStep

\* The memory of the slave, the harbor and the service of n, as in Init.
Forgets(n) ==
  /\ toSlave' = [toSlave EXCEPT ![n] = <<>>] /\ need' = [need EXCEPT ![n] = 0]
  /\ slaves' = [slaves EXCEPT ![n] = Each("nil")] /\ connect_queue' = [connect_queue EXCEPT ![n] = {}]
  /\ globalname' = [globalname EXCEPT ![n] = [x \in Names |-> None]]
  /\ openMaster' = [openMaster EXCEPT ![n] = None] /\ openReady' = [openReady EXCEPT ![n] = None]
  /\ text' = [text EXCEPT ![n] = <<>>] /\ inbox' = [inbox EXCEPT ![n] = <<>>]
  /\ peer' = [peer EXCEPT ![n] = Each("wait")] /\ queue' = [queue EXCEPT ![n] = Each(<<>>)]
  /\ value' = [value EXCEPT ![n] = [x \in Names |-> None]]
  /\ nameQueue' = [nameQueue EXCEPT ![n] = [x \in Names |-> <<>>]]
  /\ owner' = [owner EXCEPT ![n] = Each("slave")] /\ got' = [got EXCEPT ![n] = <<>>]

\* A node crashes and forgets everything; what it had sent arrives in part, and then its
\* connections end.
Crash(n) ==
  /\ Up(n) /\ MayFail /\ faults' = faults + 1
  /\ stage' = [stage EXCEPT ![n] = "dead"] /\ alive' = alive \ {n}
  /\ toMaster' = Add(toMaster, n, [t |-> "closed"])
  /\ conn' = {c \in conn : n \notin c}
  /\ \E cut \in [Nodes -> 0..MaxWork + 1] :
       /\ \A m \in Nodes : cut[m] <= Len(link[n][m])
       /\ link' = [a \in Nodes |-> [b \in Nodes |->
                     IF b = n THEN <<>>
                     ELSE IF a = n /\ {a, b} \in conn
                     THEN Append(SubSeq(link[a][b], 1, cut[b]), [t |-> "closed"]) ELSE link[a][b]]]
  /\ Forgets(n)
  /\ UNCHANGED <<slave_node, global_name, sent, regs>>

Master(n) == Handshake(n) \/ SlaveDown(n) \/ \E x \in Names, h \in 0..N : DispatchSlave(n, x, h)
Slave(n) ==
  \/ MasterAccepts(n) \/ Ready(n) \/ ReadyNext(n)
  \/ \E k \in Nodes : MasterConnect(n, k) \/ MasterDown(n, k) \/ ConnectSlave(n, k)
  \/ \E x \in Names, h \in Nodes : MasterName(n, x, h) \/ HearsHarbor(n, x, h)
Sockets(n) == \E m \in Nodes : AcceptSlave(n, m) \/ Dropped(n, m) \/ ToHarbor(n, m)
HarborOf(n) ==
  \/ Remote(n) \/ \E m \in Nodes : Meet(n, m) \/ Receive(n, m)
  \/ \E x \in Names, h \in Nodes : UpdateName(n, x, h)
App(n) == \/ \E m \in 0..N, x \in Names \cup {"none"} : Send(n, m, x)
          \/ \E x \in Names : Register(n, x)
Fault(n) == ServiceExits(n) \/ Crash(n)
Next == \E n \in Nodes : Start(n) \/ Master(n) \/ Slave(n) \/ Sockets(n) \/ HarborOf(n) \/ App(n) \/ Fault(n)
Spec == Init /\ [][Next]_vars

\* Some process of a node or of the master goes on while one can.
Process  == \E n \in Nodes : Master(n) \/ Slave(n) \/ Sockets(n) \/ HarborOf(n)
Fairness == WF_vars(Process)
LiveSpec == Spec /\ Fairness

-----------------------------------------------------------------------------
TypeOK ==
  /\ stage \in [Nodes -> {"off", "hello", "wait", "woken", "ready", "linked", "dead"}]
  /\ slave_node \in [Nodes -> {"none", "on", "down"}] /\ global_name \in [Names -> 0..N]
  /\ slaves \in [Nodes -> [Nodes -> {"nil", "fd", "false"}]]
  /\ peer \in [Nodes -> [Nodes -> {"wait", "handshake", "up"}]]
  /\ value \in [Nodes -> [Names -> 0..N]] /\ globalname \in [Nodes -> [Names -> 0..N]]
  \* the socket of a peer belongs to the harbor from the moment it has met it
  /\ \A n, m \in Nodes : owner[n][m] = IF peer[n][m] = "wait" THEN "slave" ELSE "harbor"

\* Nothing is left in a queue whose destination is connected, or whose name is known:
\* the answer to a query and the end of a handshake find all that waited.
QueuesEmptied ==
  \A n \in Nodes : /\ \A m \in Nodes : queue[n][m] # <<>> => peer[n][m] # "up"
                   /\ \A x \in Names : nameQueue[n][x] # <<>> => value[n][x] = None

\* Every message on its way is for the service it was sent to.  One that waited for a
\* name and then for its node (dispatch_name_queue) would have the handle 0: it never
\* leaves, since a name becomes known after its node is connected, or dead.
Items(s) == {s[i].msg : i \in {j \in DOMAIN s : s[j].t = "msg"}}
ToRightHandle == \A n, m \in Nodes : \A msg \in Items(link[n][m]) : msg.h = m

\* What a service sends to another by handle arrives in that order, and once.
InOrder ==
  \A n \in Nodes : \A i, j \in DOMAIN got[n] :
    i < j /\ got[n][i].from = got[n][j].from /\ got[n][i].name = "none" /\ got[n][j].name = "none"
      /\ got[n][i].type = got[n][j].type
      => got[n][i].k < got[n][j].k

\* A message sent by handle is not lost while no node crashes: it waits, is on its
\* way, or has arrived, as itself or as the error that answers it.
Outs(s)  == {s[i].msg : i \in {j \in DOMAIN s : s[j].t = "out"}}
Datas(s) == Items([i \in DOMAIN SelectSeq(s, LAMBDA y : y.t = "data") |->
                     SelectSeq(s, LAMBDA y : y.t = "data")[i].d])
Present == UNION {Outs(inbox[n]) \cup Datas(inbox[n]) \cup ToSet(got[n])
                    \cup UNION {Items(queue[n][m]) \cup Items(link[n][m]) : m \in Nodes} : n \in Nodes}
NoneLost ==
  faults = 0 => \A k \in DOMAIN sent : sent[k].name = "none" => \E msg \in Present : msg.k = k

\* While no node fails every node that starts becomes ready, whatever others do.
StartsUp == []<>(\A n \in Nodes : stage[n] \in {"off", "linked"} \/ faults > 0)
=============================================================================
