------------------------------ MODULE MCServices ------------------------------
\* What services are made of: the coroutines of one service (LuaScheduler, which this
\* module extends), the libraries they use and what the services of the game do with
\* them.  A behaviour chooses one part at the start; the others stay in their initial
\* state.
EXTENDS LuaScheduler

CONSTANT Comps   \* the parts to choose from

VARIABLES
  comp,   \* the part that runs
  libBuffer, libPool, here, connected, libConnecting, required, libCo, libClosing, net,
  rcvd, ask, libPc, libWoken, running, libLast, taken, gap, again,
  dogSock, dogClosing, connection, number, forwarded, gateQ, dogQ, agentQ, opening,
  agent, clients, stage, loop, queue, dogSent, done, dogEarly, kicks,
  callPc, call, self_co, r, fork, timer, callWoken, answers, first, callPool, querying,
  waiters, callCalls,
  chSock, chClosed, chConnecting, dispatch_thread, connecting_thread, thread,
  wait_response, result, conn, pooled, reading, reader, closer, chBuffer, server, chCur,
  chWoken, forked, chPc, back, on, tag, outcome, usable, chSent, nsock, chCalls, chOps,
  chFails

libVars  == <<libBuffer, libPool, here, connected, libConnecting, required, libCo,
              libClosing, net, rcvd, ask, libPc, libWoken, running, libLast, taken, gap,
              again>>
dogVars  == <<dogSock, dogClosing, connection, number, forwarded, gateQ, dogQ, agentQ,
              opening, agent, clients, stage, loop, queue, dogSent, done, dogEarly, kicks>>
callVars == <<callPc, call, self_co, r, fork, timer, callWoken, answers, first,
              callPool, querying, waiters, callCalls>>
chVars   == <<chSock, chClosed, chConnecting, dispatch_thread, connecting_thread,
              thread, wait_response, result, conn, pooled, reading, reader, closer,
              chBuffer, server, chCur, chWoken, forked, chPc, back, on, tag, outcome,
              usable, chSent, nsock, chCalls, chOps, chFails>>
allVars  == <<comp, vars, libVars, dogVars, callVars, chVars>>

\* The coroutines: one peer, three at a time, two requests and one uncaught error; a
\* behaviour uses one of six sets of operations, with the last of which there is one
\* request and the peer lives.
LuaOpSets == {{"call", "ret", "response", "exit"}, {"sleep", "wakeup", "wait"},
              {"timeout", "fork"}, {"fork", "ret"}, {"queue", "call"},
              {"queue", "sleep", "wakeup", "fork"}}
LuaBound  == {"queue", "fork"} \subseteq ops => nreq' <= 1 /\ alive' = Peers

\* Seven characters in chunks of one to three, a separator of two characters, and a buffer
\* that is limited or not.
Lib == INSTANCE SocketLib WITH
          Text <- <<"a", "r", "n", "r", "r", "n", "b">>, Sep <- <<"r", "n">>,
          Sizes <- {2, 4}, MaxChunk <- 3, Limit <- 0, Large <- 1, buffer <- libBuffer,
          pool <- libPool, connecting <- libConnecting, co <- libCo,
          closing <- libClosing, pc <- libPc, woken <- libWoken, last <- libLast
LibL == INSTANCE SocketLib WITH
          Text <- <<"a", "r", "n", "r", "r", "n", "b">>, Sep <- <<"r", "n">>,
          Sizes <- {2, 4}, MaxChunk <- 2, Limit <- 3, Large <- 1, buffer <- libBuffer,
          pool <- libPool, connecting <- libConnecting, co <- libCo,
          closing <- libClosing, pc <- libPc, woken <- libWoken, last <- libLast

\* Two clients that send a request each, or one that sends three messages; one kick.
Dog == INSTANCE Watchdog WITH
          Fds <- {1, 2}, MaxClient <- 2, Kinds <- {"tell"}, MaxSent <- 1, MaxKick <- 1,
          sock <- dogSock, closing <- dogClosing, sent <- dogSent, early <- dogEarly
DogL == INSTANCE Watchdog WITH
          Fds <- {1}, MaxClient <- 3, Kinds <- {"heartbeat", "tell", "ask"},
          MaxSent <- 3, MaxKick <- 1, sock <- dogSock, closing <- dogClosing,
          sent <- dogSent, early <- dogEarly

\* Three coroutines of a service, three calls.
Game == INSTANCE GameCalls WITH
          Coroutines <- {"c1", "c2", "c3"}, MaxCall <- 3, pc <- callPc,
          woken <- callWoken, pool <- callPool, calls <- callCalls

\* Two coroutines and one connection at a time: with sessions, another coroutine closes it,
\* connects it and changes its host; with and without, it is lost twice.
Ch == INSTANCE SocketChannel WITH
          Callers <- {1, 2}, BySession <- TRUE,
          Ops <- {"close", "connect", "changehost"}, MaxCall <- 3, MaxSock <- 2,
          MaxOps <- 2, MaxFail <- 1, sock <- chSock, closed <- chClosed,
          connecting <- chConnecting, buffer <- chBuffer, cur <- chCur,
          woken <- chWoken, pc <- chPc, sent <- chSent, calls <- chCalls, ops <- chOps,
          fails <- chFails
ChO == INSTANCE SocketChannel WITH
          Callers <- {1, 2}, BySession <- FALSE, Ops <- {}, MaxCall <- 4, MaxSock <- 3,
          MaxOps <- 0, MaxFail <- 2, sock <- chSock, closed <- chClosed,
          connecting <- chConnecting, buffer <- chBuffer, cur <- chCur,
          woken <- chWoken, pc <- chPc, sent <- chSent, calls <- chCalls, ops <- chOps,
          fails <- chFails
ChS == INSTANCE SocketChannel WITH
          Callers <- {1, 2}, BySession <- TRUE, Ops <- {}, MaxCall <- 4, MaxSock <- 3,
          MaxOps <- 0, MaxFail <- 2, sock <- chSock, closed <- chClosed,
          connecting <- chConnecting, buffer <- chBuffer, cur <- chCur,
          woken <- chWoken, pc <- chPc, sent <- chSent, calls <- chCalls, ops <- chOps,
          fails <- chFails

AllInit ==
  /\ comp \in Comps
  /\ Init /\ (comp # "lua" => ops = {"timeout", "fork"})
  /\ Lib!Init
  /\ CASE comp = "messages" -> DogL!Init
       [] OTHER -> Dog!Init
  /\ Game!Init
  /\ CASE comp = "order" -> ChO!Init
       [] comp = "session" -> ChS!Init
       [] OTHER -> Ch!Init

AllNext ==
  /\ UNCHANGED comp
  /\ \/ comp = "lua" /\ Next /\ LuaBound
        /\ UNCHANGED <<libVars, dogVars, callVars, chVars>>
     \/ comp = "socket" /\ Lib!Next
        /\ UNCHANGED <<vars, dogVars, callVars, chVars>>
     \/ comp = "limited" /\ LibL!Next
        /\ UNCHANGED <<vars, dogVars, callVars, chVars>>
     \/ comp = "clients" /\ Dog!Next
        /\ UNCHANGED <<vars, libVars, callVars, chVars>>
     \/ comp = "messages" /\ DogL!Next
        /\ UNCHANGED <<vars, libVars, callVars, chVars>>
     \/ comp = "calls" /\ Game!Next
        /\ UNCHANGED <<vars, libVars, dogVars, chVars>>
     \/ comp = "channel" /\ Ch!Next
        /\ UNCHANGED <<vars, libVars, dogVars, callVars>>
     \/ comp = "order" /\ ChO!Next
        /\ UNCHANGED <<vars, libVars, dogVars, callVars>>
     \/ comp = "session" /\ ChS!Next
        /\ UNCHANGED <<vars, libVars, dogVars, callVars>>

AllSpec == AllInit /\ [][AllNext]_allVars

-----------------------------------------------------------------------------
\* watchdog.lua, gate.lua, agent.lua: both count their clients, an agent is forgotten with
\* its connection, messages are dispatched one by one in order; lkcluster.lua and
\* query_sharedata.lua: a coroutine is woken once and out of the right wait.
GameRight ==
  /\ comp = "clients" => /\ Dog!TypeOK /\ Dog!GateCounts /\ Dog!ClientsCounted
                         /\ Dog!AgentsForgotten /\ Dog!HostLoaded /\ Dog!InOrder /\ Dog!LoopAwake
  /\ comp = "messages" => /\ DogL!TypeOK /\ DogL!GateCounts /\ DogL!ClientsCounted
                          /\ DogL!AgentsForgotten /\ DogL!HostLoaded /\ DogL!InOrder
                          /\ DogL!LoopAwake
  /\ comp = "calls" => /\ Game!TypeOK /\ Game!WokenOnce /\ Game!TimeoutIsTrue
                       /\ Game!WaitsForSomething /\ Game!QueryAnswered

\* lualib/socket.lua, lua-socket.c: the buffer counts its bytes and returns its nodes, the
\* reads return what was received in order, lines end at the first separator, a reader is
\* told the connection has ended only when it has, and nobody waits after the end, but for
\* a reader that began to wait again during a close.  socketchannel.lua: a caller gets the
\* answer to its own request or an error, and if nobody closes the channel or changes its
\* host, whoever waits will be woken; if answers come in order, a request fails only with
\* its connection.
LibrariesRight ==
  /\ comp \in {"socket", "limited"} => /\ Lib!BufferRight /\ Lib!StreamKept /\ Lib!LinesRight
                                       /\ Lib!EndIsTrue /\ Lib!NobodyLeft
  /\ comp = "channel" => Ch!TypeOK /\ Ch!AnswerIsOwn
  /\ comp = "order" => ChO!TypeOK /\ ChO!AnswerIsOwn /\ ChO!Served /\ ChO!ErrorIsTrue
  /\ comp = "session" => ChS!TypeOK /\ ChS!AnswerIsOwn /\ ChS!Served

\* The comment at lualib/socket.lua:33 says "socket.close() will wait last socket buffer
\* operation before clear the buffer": no reader still waits for a socket that is gone.
CloseWaits == comp = "socket" => Lib!CloseWaitsForReaders
=============================================================================
