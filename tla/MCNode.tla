------------------------------- MODULE MCNode -------------------------------
\* The parts of a node, each on its own variables: the reader-writer lock, the monitor of
\* endless loops, the sleep and shutdown of the workers, the timer wheel and the handle
\* storage, and what its services share, an object and the database cache.  A behaviour
\* chooses one of them at the start; the others stay in their initial state.
EXTENDS RwLock

CONSTANTS
  Comps,                                   \* the parts to choose from
  MonWorkers, MonServices, MonVersionMod,  \* the constants of the monitor
  PoolWorkers, PoolStuck, PoolTotal, PoolEvents,  \* of the threads,
  ObjReaders, ObjMaxCopy, ObjMaxGrab       \* and of the shared object

VARIABLES
  comp,   \* the part that runs
  version, checkVersion, destination, wpc, work, mpc, mi, endless, registered,
  whole, inCheck,
  total, ready, drops, events, sleep, quit, mutex, ppc, timer, socket, closing,
  near, tv, time, tpc, current, owed, fired, waiting,
  slot, handle_index, name, handle, st, created, ops, abort, laps, hpc, pend,
  i, n, todo,
  reference, copy, freed, stmWrite, stmRead, cref, gone, writer, old, made, grabs,
  sent, rpc, tmp, last, late,
  db, cache, redisQ, workQ, wkIndex, cacPc, got, row, clears, since, returned, floor,
  hitRaced, uncleared, cacCalls, cacFails,
  exists, group, subscribers, remote, req, link, inbox, subscribe, known, calling,
  dead, deleted, refs, closed, lost, pubs, mcOps

monVars  == <<version, checkVersion, destination, wpc, work, mpc, mi, endless,
              registered, whole, inCheck>>
poolVars == <<total, ready, drops, events, sleep, quit, mutex, ppc, timer,
              socket, closing>>
timeVars == <<near, tv, time, tpc, current, owed, fired, waiting>>
tabVars  == <<slot, handle_index, name, handle, st, created, ops, abort, laps,
              hpc, pend, i, n, todo>>
stmVars  == <<reference, copy, freed, stmWrite, stmRead, cref, gone, writer, old, made,
              grabs, sent, rpc, tmp, last, late>>
cacVars  == <<db, cache, redisQ, workQ, wkIndex, cacPc, got, row, clears, since,
              returned, floor, hitRaced, uncleared, cacCalls, cacFails>>
mcVars   == <<exists, group, subscribers, remote, req, link, inbox, subscribe, known,
              calling, dead, deleted, refs, closed, lost, pubs, mcOps>>
allVars  == <<comp, vars, monVars, poolVars, timeVars, tabVars, stmVars, cacVars, mcVars>>

\* Two workers and two services, in the runs.
Mon  == INSTANCE Monitor WITH Workers <- MonWorkers, Services <- MonServices,
                              VersionMod <- MonVersionMod

\* Three workers, in the runs.  The parts named ...Proofs come with the theorems about
\* them, which MCNodeProofs uses.
Pool == INSTANCE ThreadPool WITH Workers <- PoolWorkers, Stuck <- PoolStuck,
                                 InitTotal <- PoolTotal, MaxEvents <- PoolEvents, pc <- ppc

\* A wheel of 2 near slots and 4 levels of 2 slots: a clock of 5 bits.
Tim == INSTANCE TimerProofs WITH
          TimeNear <- 2, TimeLevel <- 2, Events <- 1..3, Times <- {0, 3, 15},
          MaxDiff <- 1, pc <- tpc

\* A table of 2 slots that grows to 4; five contexts come and go, so the
\* handles wrap.
Tab == INSTANCE HandleStorageProofs WITH
          Creators <- {1}, Users <- {2}, HandleMod <- 4, InitSize <- 2, Names <- 1..3,
          MaxCtx <- 5, MaxOps <- 3, pc <- hpc

\* Two readers, three versions, three references, in the runs.
Obj == INSTANCE Stm WITH Readers <- ObjReaders, MaxCopy <- ObjMaxCopy,
                         MaxGrab <- ObjMaxGrab,
                         write <- stmWrite, read <- stmRead, wpc <- writer

\* Two readers, two writers, two workers; a failure or an expiry.  The readers use redis in
\* either way.
Row == INSTANCE CacheUtilProofs WITH
          Readers <- {"r1", "r2"}, Writers <- {"w1", "w2"}, Way <- "cachekey",
          Workers <- {0, 1}, MaxUpdate <- 2, MaxCall <- 2, MaxFail <- 1, pc <- cacPc,
          calls <- cacCalls, fails <- cacFails
RowQ == INSTANCE CacheUtilProofs WITH
          Readers <- {"r1", "r2"}, Writers <- {"w1", "w2"}, Way <- "queryrd",
          Workers <- {0, 1}, MaxUpdate <- 2, MaxCall <- 2, MaxFail <- 1, pc <- cacPc,
          calls <- cacCalls, fails <- cacFails

\* One service on the owner's node, two on the other; two messages.
Chan == INSTANCE MulticastProofs WITH
          Local <- {"a"}, Remote <- {"b", "c"}, MaxPub <- 2, MaxOps <- 3,
          n <- subscribers, ops <- mcOps

\* What the proofs assume of their constants.
ASSUME NodeConstants ==
  /\ Tim!TimerConstants /\ Mon!MonitorConstants /\ Pool!PoolConstants /\ Obj!StmConstants
  /\ Tab!HandleConstants /\ Tab!OneCreator
  /\ Row!CacheConstants /\ RowQ!CacheConstants /\ Chan!MulticastConstants

AllInit ==
  /\ comp \in Comps
  /\ Init /\ Mon!Init /\ Pool!Init /\ Tim!Init /\ Tab!Init /\ Obj!Init /\ Row!Init
  /\ Chan!Init
  /\ comp # "monitor" => mi = 1

AllNext ==
  /\ UNCHANGED comp
  /\ \/ comp = "lock" /\ Next
        /\ UNCHANGED <<monVars, poolVars, timeVars, tabVars, stmVars, cacVars, mcVars>>
     \/ comp = "monitor" /\ Mon!Next
        /\ UNCHANGED <<vars, poolVars, timeVars, tabVars, stmVars, cacVars, mcVars>>
     \/ comp = "pool" /\ Pool!Next
        /\ UNCHANGED <<vars, monVars, timeVars, tabVars, stmVars, cacVars, mcVars>>
     \/ comp = "timer" /\ Tim!Next
        /\ UNCHANGED <<vars, monVars, poolVars, tabVars, stmVars, cacVars, mcVars>>
     \/ comp = "handles" /\ Tab!Next
        /\ UNCHANGED <<vars, monVars, poolVars, timeVars, stmVars, cacVars, mcVars>>
     \/ comp = "shared" /\ Obj!Next
        /\ UNCHANGED <<vars, monVars, poolVars, timeVars, tabVars, cacVars, mcVars>>
     \/ comp = "cachekey" /\ Row!Next
        /\ UNCHANGED <<vars, monVars, poolVars, timeVars, tabVars, stmVars, mcVars>>
     \/ comp = "queryrd" /\ RowQ!Next
        /\ UNCHANGED <<vars, monVars, poolVars, timeVars, tabVars, stmVars, mcVars>>
     \/ comp = "multicast" /\ Chan!Next
        /\ UNCHANGED <<vars, monVars, poolVars, timeVars, tabVars, stmVars, cacVars>>

AllSpec == AllInit /\ [][AllNext]_allVars

-----------------------------------------------------------------------------
\* skynet_monitor_check misses no callback that outlasts two of its checks, and accuses
\* only a service the worker had in hand.
MonitorRight == comp = "monitor" => Mon!MonitorRight /\ Mon!IInv

\* skynet_start.c: CHECK_ABORT ends a thread only when no service is left.
PoolRight == comp = "pool" => Pool!PoolRight /\ Pool!IInv

\* skynet_timer.c: no timeout is lost, early or late, across cascades and the wrap of the
\* clock; those of one tick fire in the order they were asked for; the first
\* timer_execute of timer_update never finds anything.
TimerRight ==
  comp = "timer" => Tim!FiresOnTime /\ Tim!FirstExecuteIdle /\ Tim!IInv

\* skynet_handle.c: every live context is found under its handle while the table grows,
\* no handle is given out twice until handle_index has gone round, and the binary search
\* of skynet_handle_findname finds exactly the names that are there.
HandlesRight == comp = "handles" => Tab!HandlesRight /\ Tab!IInv
\* skynet_handle_retireall leaves none of those it found when its pass began.
AbortRetiresAll == Tab!AbortRetiresAll

\* lua-stm.c: a copy's count is the number of its holders, the object's that of the
\* writer, the readers and the references under way; the asserts hold; and nothing but the
\* unlock of a reader uses the object after it was freed.
StmRight == comp = "shared" => Obj!StmRight /\ Obj!IInv

\* cache_util.lua: when all updates are done, an old row is in redis only by one race or
\* because the clearrd's of what it misses were not carried out; and who hits neither gets
\* no row older than what had returned before.
CacheRight ==
  /\ comp = "cachekey" => Row!StaleHasCause /\ Row!IInv
  /\ comp = "queryrd" => RowQ!StaleHasCause /\ RowQ!IInv

\* multicastd.lua, lua-multicast.c: channel_n counts the subscribers, a package is freed
\* after its last message and only then, no message is for an unknown channel, nothing is
\* forwarded for good to a node without subscribers, and all see messages in one order.
MulticastRight == comp = "multicast" => Chan!MulticastRight /\ Chan!IInv
=============================================================================
