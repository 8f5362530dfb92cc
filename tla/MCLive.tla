-------------------------------- MODULE MCLive --------------------------------
\* What must happen in the end, on instances of their own: the lock of the handle storage,
\* the monitor and the threads of a node, the coroutines of a service, and the harbors of
\* nodes that start.  A behaviour chooses one part at the start; the others stay in their
\* initial state.
EXTENDS RwLock, Sequences

CONSTANT Comps   \* the parts to choose from

VARIABLES
  comp,   \* the part that runs
  version, checkVersion, destination, wpc, work, mpc, mi, endless, registered,
  whole, inCheck,
  total, ready, drops, events, sleep, quit, mutex, ppc, timer, socket, closing,
  mbox, session_id_coroutine, sleep_session, wakeup_session, watching_session,
  watching_service, dead_service, error_queue, fork_queue, request, responded,
  unresponse, co, waits, mode, cur, current_thread, ref, thread_queue, sid, nreq,
  source, called, asked, luaAlive, depth, replies, errors, raised, stale, early, ops,
  forgotten,
  slave_node, global_name, toMaster, toSlave, stage, need, slaves, connect_queue,
  globalname, openMaster, openReady, text, inbox, peer, queue, value, nameQueue, conn,
  link, owner, harborAlive, got, sent, regs, faults

monVars    == <<version, checkVersion, destination, wpc, work, mpc, mi, endless,
                registered, whole, inCheck>>
poolVars   == <<total, ready, drops, events, sleep, quit, mutex, ppc, timer,
                socket, closing>>
luaVars    == <<mbox, session_id_coroutine, sleep_session, wakeup_session,
                watching_session, watching_service, dead_service, error_queue,
                fork_queue, request, responded, unresponse, co, waits, mode, cur,
                current_thread, ref, thread_queue, sid, nreq, source, called, asked,
                luaAlive, depth, replies, errors, raised, stale, early, ops, forgotten>>
harborVars == <<slave_node, global_name, toMaster, toSlave, stage, need, slaves,
                connect_queue, globalname, openMaster, openReady, text, inbox, peer,
                queue, value, nameQueue, conn, link, owner, harborAlive, got, sent,
                regs, faults>>
allVars    == <<comp, vars, monVars, poolVars, luaVars, harborVars>>

\* Two workers and one service.
Mon  == INSTANCE Monitor WITH Workers <- 1..2, Services <- {1}, VersionMod <- 2

\* Two workers, one of which never comes back from a callback.
Pool == INSTANCE ThreadPool WITH Workers <- 1..2, Stuck <- {1}, InitTotal <- 2,
                                 MaxEvents <- 2, pc <- ppc

\* Three coroutines that call the peer and take the lock; no uncaught errors.
Lua == INSTANCE LuaScheduler WITH
          Peers <- {"p"}, MaxCo <- 3, MaxSession <- 3, MaxReq <- 2, MaxDepth <- 1,
          Raises <- 0, OpSets <- {{"queue", "call"}}, alive <- luaAlive

\* Three nodes that start.
Hbr == INSTANCE Harbor WITH
          N <- 3, Names <- {"x"}, MaxFault <- 0, MaxWork <- 0, MaxReg <- 0,
          alive <- harborAlive

AllInit ==
  /\ comp \in Comps
  /\ Init /\ Mon!Init /\ Pool!Init /\ Lua!Init /\ Hbr!Init
  /\ comp # "monitor" => mi = 1

\* A step of one part, when that part runs.
InLock(A)    == comp = "lock" /\ A /\ UNCHANGED <<comp, monVars, poolVars, luaVars, harborVars>>
InMonitor(A) == comp = "monitor" /\ A /\ UNCHANGED <<comp, vars, poolVars, luaVars, harborVars>>
InPool(A)    == comp = "pool" /\ A /\ UNCHANGED <<comp, vars, monVars, luaVars, harborVars>>
InLua(A)     == comp = "lua" /\ A /\ UNCHANGED <<comp, vars, monVars, poolVars, harborVars>>
InHarbor(A)  == comp = "harbor" /\ A /\ UNCHANGED <<comp, vars, monVars, poolVars, luaVars>>

AllNext ==
  InLock(Next) \/ InMonitor(Mon!Next) \/ InPool(Pool!Next) \/ InLua(Lua!Next) \/ InHarbor(Hbr!Next)

AllSpec == AllInit /\ [][AllNext]_allVars

\* The fairness of the part that runs, as its module states it (Fairness).  Only one part
\* ever runs, so one condition stands for a condition of each part.
Goes   == InMonitor(Mon!CheckStep) \/ InPool(Pool!Timer) \/ InLua(Lua!Dispatcher) \/ InHarbor(Hbr!Process)
Serves == InPool(Pool!Socket) \/ InLua(Lua!Leave)
Works(k)  == InLock(Finish(k)) \/ InLua(Lua!Answer(k)) \/ (k \in 1..2 /\ InPool(Pool!Worker(k)))
Begins(w) == InMonitor(Mon!CheckBegin(w)) \/ InPool(Pool!SleepBegin(w))
Ends   == InPool(Pool!TimerQuit) \/ InLua(Lua!CoExit)
LiveSpec ==
  /\ AllSpec
  /\ WF_allVars(Goes) /\ WF_allVars(Serves) /\ WF_allVars(InPool(Pool!CallbackDone(2)))
  /\ \A k \in Threads : WF_allVars(Works(k))
  /\ SF_allVars(Ends)
  /\ \A w \in 1..2 : SF_allVars(Begins(w)) /\ SF_allVars(InPool(Pool!SleepEnd(w)))

-----------------------------------------------------------------------------
\* A callback that never returns is reported, again and again.
StuckIsReported == Mon!StuckIsReported
\* wakeup: a ready mailbox is picked up although signals may be missed.
ReadyIsServed == []<>(comp = "pool" => ready = 0)
\* When the last service has gone every thread ends.
Shutdown == Pool!Shutdown
\* skynet.call returns although its peer answers with an error or exits.
CallReturns == Lua!CallReturns
\* skynet/queue.lua: whoever waits for the lock gets it.
LockComes == Lua!LockComes
\* cslave.lua: while no node fails every node that starts becomes ready.
StartsUp == Hbr!StartsUp
=============================================================================
