# A TLA+ verification of the skynet game server

The repository is a game server built on *skynet*, an actor framework: services
written in Lua or C exchange messages, and a small C core schedules them on a
pool of threads. Lua libraries give the services coroutines, sockets, channels
and connections to other nodes; on top of them sits the application (gate,
watchdog, agents, cluster manager, database cache). This project models the C
core, the libraries and the parts of the application where services wait for
each other, model-checks them with TLC on small instances and proves the
central properties with TLAPS for every value of the constants.

C files named without a directory are under `src/skynet/skynet-src/`, Lua
libraries (`lualib/`), services in Lua and C (`service/`, `service-src/`) and
bindings (`lua-*.c`) under `src/skynet/`; `services/` and `servers/` are the
game's own, under `src/`.

1. Inventory · 2. Modules · 3. Runs · 4. Findings and known races · 5. Proofs ·
6. Not modelled, and what comes next

## 1. Inventory

| component | state | operations | what makes it correct |
|---|---|---|---|
| service contexts (`skynet_server.c`) | per service: reference count, init flag, session counter | create, dispatch, send, kill, grab, release, delete | freed exactly when the last reference goes; one thread at a time per service; initialised before the first message |
| mailboxes and global queue (`skynet_mq.c`) | circular buffer, `in_global`, `release`; list of ready mailboxes | push, pop, length, overload, mark_release, release | first in first out; a mailbox is in one place; a mailbox with messages is never forgotten |
| handle storage (`skynet_handle.c`) | slot table, next index, sorted names | register (grows), retire, retireall, grab, findname, namehandle | a live handle finds its service; handles are unique; names are found |
| reader-writer lock (`rwlock.h`) | `read`, `write` | rlock, runlock, wlock, wunlock | exclusion; a writer gets in |
| timer (`skynet_timer.c`) | five-level wheel, 32-bit clock | timeout, update, shift, execute | every timeout fires on its tick, in order |
| threads (`skynet_start.c`) | sleepers, quit flag, number of services | worker loop, timer loop, socket loop | no ready mailbox waits for ever; shutdown only without services, and complete |
| endless-loop monitor (`skynet_monitor.c`) | version, destination per worker | trigger, check | reports real loops, and all of them |
| shared objects (`lua-stm.c`) | object, copies, their counts | new, grab, update, read, release | freed once and not used afterwards |
| socket server (`socket_server.c`) | socket table, request pipe, epoll set, write buffers | open, listen, bind, accept, send, close, poll | an id names one connection; data whole and in order; every end reported once; no descriptor leaks |
| Lua scheduler (`lualib/skynet.lua`, `skynet/queue.lua`) | session → coroutine, wakeup, error and fork queues, watched services | call, ret, error, wait, wakeup, timeout, exit | one answer per call; nobody is left waiting; the lock excludes |
| socket library (`lualib/socket.lua`, `lua-socket.c`) | receive buffer, what the reader asked for | connect, read, readline, close, shutdown | the stream is kept; a reader is woken by data and by the end |
| socket channel (`lualib/socketchannel.lua`) | pending requests, connection state | request, dispatch, reconnect, close | answers go to their requests; nobody is left waiting |
| multicast (`service/multicastd.lua`, `lua-multicast.c`) | channels, subscribers, packages with a count | subscribe, unsubscribe, publish, delete | a package is freed after its last message; all see one order |
| harbor (`service_harbor.c`, `cmaster.lua`, `cslave.lua`) | slaves, name table, queues | handshake, register name, forward | messages to a name or node arrive in order once it is known |
| gates (`service_gate.c`, `lua-netpack.c`, `gateserver.lua`) | socket → connection, unfinished messages, number of clients | open, data, close, kick | messages are cut out whole and in order; clients are counted |
| serialization (`lua-seri.c`, `sproto.c`, `lua-bson.c`, `lua-crypt.c`, `lua-sharedata.c`) | buffers | encode, decode | what was encoded is decoded; what was cut off is not |
| watchdog, agents (`servers/gameserver/watchdog.lua`, `services/agent/`) | fd → agent, clients, request queue | open, close, kick, forward, request | clients counted and bounded; an agent goes with its connection; requests in order |
| database cache (`services/persistent/cachedb/`) | redis copy of mysql rows | read through, write and clear | no old row in redis, or for a reader, after a write returned |
| calls of the game (`lkcluster.lua`, `query_sharedata.lua`) | waiting coroutines, a timer | call with timeout, query | a coroutine is woken once and by the right event |
| launcher, service manager, datacenter, cluster | pending starts, waiters, requests in parts | launch, query, request | everybody is answered |

How the parts interact: services send by `skynet_send`, which grabs the target's
context through the handle storage, pushes into its mailbox and, if the mailbox
is not queued, puts it on the global queue. Workers take mailboxes from the
global queue, run callbacks, and put mailboxes back. The timer and socket
threads push messages the same way and wake sleeping workers. Everything in Lua
runs inside one callback at a time per service and interleaves only at yields.
Workers talk to the socket thread through a pipe, and read and write its table
of sockets without a lock. Messages for another node go through its harbor.

The hard behaviours are: the race between emptying and filling a mailbox; the
end of a service while others send to it, kill it or initialise it; the table
that grows under concurrent registration; locks dropped in the middle of a
timer tick; unsynchronised wakeups and slots; counts in shared memory kept by
several services; at the Lua level, state tested before a yield and used after
it, errors and ends of peers that arrive out of order; for nodes and clients,
streams that arrive in pieces and end at any byte. `PROJECT.json` lists them as
hazards, each at its line, with the properties about it.

## 2. Modules

An operator called `Bad...` is a plausible error in the definition that follows
it. No specification uses it; replacing the definition by it must make a
property fail, which shows that the property depends on that piece of code.

### Components

| module | models | one step is |
|---|---|---|
| `SkynetServer` | contexts, mailboxes as sequences, global queue, grab and retire; composes what the next modules detail | a critical section or an atomic operation of one thread |
| `MessageQueue`, `Fifo` | the circular buffer of a mailbox; what it promises | a push or pop |
| `HandleStorage` | table, growth, wrap, names, retireall | a locked section |
| `RwLock` | the lock of the handle storage | an access to `read` or `write` |
| `Timer` | the timer wheel | a locked section of the timer thread |
| `ThreadPool` | sleep, wakeup, shutdown | a locked section or a test of one thread |
| `Monitor` | `skynet_monitor.c` and its two callers | a load or store of shared memory |
| `Stm` | `lua-stm.c`: the writer and its readers | an access to shared memory |
| `SocketServer` | slots, ids, the pipe of requests, epoll, descriptors; writers and datagrams as numbers of packets | a store other threads can see, a request, an event |
| `SocketIO`, `SocketUdp` | the bytes of one stream: two priorities, partial writes, half-close; the datagrams of one socket and their addresses | an event of the socket thread |
| `LuaScheduler` | one service's coroutines and one lock of `skynet.queue` | from one choice of a coroutine to the next |
| `SocketLib` | a stream socket as its owner sees it, with the buffer of `lua-socket.c` | from where a coroutine is woken to where it waits |
| `SocketChannel` | requests and answers over one connection | the same |
| `Multicast` | one channel between two nodes | a message handled |
| `Harbor` | master, slaves and harbors of up to three nodes | a message handled, a fault |
| `Gate`, `Netpack` | the gate in C with `hashid.h` and `databuffer.h`; the gate in Lua with netpack | a turn of the loop; a message dispatched |
| `Watchdog` | gate, watchdog, agents, clients | a message handled up to the next call |
| `CacheUtil` | one row, redis, the mysql workers | a request sent or served |
| `GameCalls` | `rawcall` and `query_sharedata` | from wait to wait |
| `Seri`, `Sproto`, `ZeroPack`, `Bson`, `Crypt`, `ShareTable` | the codecs, as operators | (none: pure functions) |
| `CodecValues`, `Codecs` | values at the limits of every form; writer, wire that may cut off, reader | write, cut, read |

Details that a reader of the code should know:

* **SkynetServer.** A thread has a control point `pc`, a return point `ret` for
  the shared routines (`push_grab`, `push_mq`, `release`, `delete` are
  `skynet_context_push`, `skynet_context_release`, `delete_context`), and one
  variable per pointer of the C code: `q` and `nq` of the dispatch loop, `dq`
  (mailbox given to `skynet_mq_release`), `cq` (mailbox not published yet),
  `d`, `r`, `n` (references to contexts), `del`, `victim`. A callback does
  nothing, or any sequence of `Send`, `Kill` (KILL and EXIT), `NewRegister`
  (LAUNCH), `GrabUse` (LOGON, LOGOFF, SIGNAL); an init function may send, and
  may fail. `Others` are the timer and socket threads (`ExtPush`) and the
  monitor thread (`GrabUse`). A handle is never reused here (that is
  `HandleStorage`'s subject), and only handles whose mailbox exists are used by
  others (`Known`): a service's handle is first visible to its own init
  function. `ctxmem` and `qmem` record whether memory is allocated or freed.
  `new[t]`, the local `ctx` of `skynet_context_new`, stays in use at `new_ok` and
  `new_ret`, when its reference has been given up already: `WithoutRef` names
  that pointer, `Uses` all pointers a thread may follow.
* **HandleStorage.** The table is a function on `0..slot_size-1`. `Register`
  and `RegisterGrow` are `skynet_handle_register`; the assignment `ctx->handle
  = ...` in `skynet_context_new` is a step of its own (`Assign`), because it
  happens after the lock was given up. `ScanSlot`/`ScanRetire` are the two
  locked sections of `skynet_handle_retireall`. A failed `assert` ends the
  behaviour (`abort`). `laps` and `todo` are history variables.
* **Timer** keeps the levels and the wrap; the numbers of slots, `TimeNear` and
  `TimeLevel`, are parameters, and masks and shifts are quotients and remainders
  by `Span(lv)`, the ticks a slot of level `lv` stands for. `TimerUpdate`
  omits the first `timer_execute`, which has nothing to do: that is the
  invariant `FirstExecuteIdle`. `waiting` (history) holds the requests, the
  ticks each still has, and which were asked for before it.
* **MessageQueue** keeps the array and its indices; memory not yet written is
  `Undef`.
* **SocketServer.** A failed assert ends the process (`aborted`). Three races
  the code does not exclude are met by the model and recorded in `raced`
  (history): a worker reserves a slot between the two stores that give it up
  after a failed `sp_add` (`ReservedTwice`); it reserves one before
  `clear_closed_event` has dropped the event of the socket that was there
  (`ReservedStale`); a request for an old id meets a slot that was reserved
  again and has not got its new id yet (`ServedReserved`). The properties speak
  of what comes before such a race, and the run goes no further (constraint
  `NotRaced`).
* **LuaScheduler.** `co[c]` is what coroutine `c` waits for, `waits[c]` the
  session. `mode` says where the dispatcher is: between messages (`idle`), in
  the error queue, the wakeups or the forked functions, or stopped by an
  uncaught error of the assert in `skynet/queue.lua` (`assert`). `ops` is what
  the service's coroutines do; the runs choose several sets of it. `stale`
  (history) is set when an uncaught error leaves entries in the error queue or
  the wakeups, `early` when one of those resumes a coroutine that waits for the
  lock before its turn.
* **Multicast, Harbor.** Messages between one sender and one receiver keep
  their order; nothing else about their order is assumed. A node that
  crashes forgets everything and its connections end; services exit once their node
  has started.
* **Gate.** Whom a message is for is in `out` with the message; `given`
  (history) is the agent that `forward` named for the socket, which is what the
  slot's `agent` must agree with. A gate that has no broker, no agent for a
  connection and no watchdog leaves a message unread, and the bytes of it are
  taken for the next header (`astray`); a header of four bytes is read into an
  `int`, and from a negative length on nothing is forwarded (`Wraps`). An
  ACCEPT after `close` fails an assert, which ends the process (`aborted`).
* **CacheUtil.** Commands of redis may fail (`RedisFails`), statements may be
  refused or raise (`Failed`), and one that raised because its connection broke
  may be carried out all the same, then or later (`Orphan`). A failing command
  of redis is carried out at once or never. `uncleared` (history) holds the
  values whose clearrd was not carried out.
* **Codecs.** Bytes are numbers below a small base and the limits of each form
  (lengths, counts, words) scale with it, so that every value lies at, below
  and above a limit.

### Instances

`MCSkynetServer`, `MCNode`, `MCSockets`, `MCServices`, `MCLive`,
`MCNetwork` and `MCHandleStorage` instantiate them for TLC. All but the first
and the last hold several components. The components of one such module share
no state in the code either, so nothing would be learned from interleaving
them: the specification is their *sum*. `comp`, drawn from `Comps` at the
start, names the one that runs; the variables of the others stay as they were
initially. A property of the composite is named `<Component>Right` and is the
conjunction of the component's invariants. What is assumed of a component's
constants is named `<Component>Constants` beside them, and the composite
asserts it of the values it uses.

### Theorems

`SkynetServerProofs`, `MessageQueueProofs`, `HandleStorageProofs`, `TimerProofs`,
`CacheUtilProofs`, `LuaSchedulerProofs`, `MulticastProofs` and `MCNodeProofs`, which also
holds the proofs about `RwLock`, the module `MCNode` extends, and about `Monitor`,
`ThreadPool` and `Stm`, whose constants `MCNode` leaves open (section 5).

## 3. Runs

| run | instance | shows |
|---|---|---|
| `server` | 2 workers (weights −1 and 0), 1 outside thread, 2 services, 1 session each, 2 commands | types, `MailboxInOnePlace`, `NothingStranded`, `ServiceExclusive`, `RefCountExact`, `FreedUsedOnlyByCreator`, `InitBeforeDispatch`, `ReleasedMailboxShrinks`, and the inductive invariant `IInv` |
| `server_live` | 2 workers, 2 sessions, 1 command, fair | `SendOrder`, `Delivered`, `Reclaimed` |
| `node` | lock: 5 threads; monitor: 2 workers, 2 services, versions modulo 2; pool: 3 workers, 2 services, 3 events; timer: 2 near slots, 4 levels of 2 slots, a clock of 5 bits, 3 events, timeouts of 0, 3 and 15 ticks; handles: 1 creator, 1 other thread, modulo 4, table from 2 slots, 5 contexts, 3 names; shared object: 2 readers, 3 versions, 3 references; cached row: 2 readers, 2 writers, 2 workers, 2 reads, 2 updates, 1 failure or expiry, in both configurations; multicast: 3 services, 2 messages, 3 other requests | `MutualExclusion`, `MonitorRight`, `PoolRight`, `TimerRight`, `HandlesRight`, `StmRight`, `CacheRight`, `MulticastRight`, `AbortRetiresAll`, and the inductive invariants of monitor, pool, timer, handles, object, row and channel |
| `live` | lock: 3 threads; monitor: 2 workers, 1 service; pool: 2 workers, one of which never returns; scheduler: calls and the lock, no uncaught error; harbor: 3 nodes; fair | `WriterGetsIn`, `StuckIsReported`, `ReadyIsServed`, `Shutdown`, `CallReturns`, `LockComes`, `StartsUp` |
| `sockets` | mailbox: capacity from 2, up to 5 messages; socket server in 5 instances (connect, listen, bind, datagram, two threads): 2 slots, ids modulo 6, 2 descriptors, 2 requests in the pipe; stream: 5 packets of both priorities; datagrams: 3; all codecs | `SlotsRight`, `SentRight`, `CodecsRight`, `ImplementsFifo`, `NothingAfterEnd` |
| `sockets_live` | 1 slot; stream; datagrams; fair | `HalfCloseEnds`, `Arrives` |
| `services` | scheduler: 1 peer, 3 coroutines, 3 sessions, 2 requests, 1 uncaught error, six sets of operations; socket library: 7 characters, with and without a limit; clients: 2 with a request each, or 1 with 3 messages; calls: 3 coroutines; channel: 2 callers, with sessions and in order | `SchedulerRight`, `GameRight`, `LibrariesRight` |
| `network` | harbor: 2 nodes, a name, 2 messages or a message and a fault; 3 nodes that start; gates: 3 sockets, 2 connections at a time; the gate in C also with headers of 4 bytes and no watchdog, 1 connection | `HarborRight`, `GateRight`, `NetpackRight` |
| `handles_rehash` | 2 creators | **violated**: `RehashAssert` |
| `socket_close` | the socket library of `services` | **violated**: `CloseWaits` |
| `gate_accept` | the gate in C of `network` | **violated**: `AcceptAssert` |
| `stm_last_reader` | 2 readers | **violated**: `LastReader` |

**Bounds.** Names beginning with `Max` stop counters that the code does not
bound. They were chosen so that the interesting cases happen: in `server` two
services and two commands are enough for a service to be killed by two parties
while it is created, dispatched and sent to, and both workers and the outside
thread can hold one context at once. `node` passes the growth of the handle
table and the wrap of the handles, runs through the timer's clock several times
(every cascade, the wrap; 15 ticks is the largest timeout below half of the clock and
reaches the last level, 3 meets what comes down), and wraps the monitor's versions. In `sockets` the
buffer expands twice with `head` at any place, ids come back to a slot that was
used before, the pipe and the table fill up, and every codec meets its limits.
In `services` a coroutine is resumed by an answer, an error, a wakeup or the
end of a peer in every order; a set of operations contains what interacts. In
`network` two of three sockets share a hash chain, and messages arrive in every
cut. `MaxDepth` bounds how often a coroutine takes the lock it already has.

Deadlock checking is off where the bounds stop a system or where it shuts down
(all runs: either holds for at least one component of each).

**Fairness.** *server_live*: every thread takes its next step eventually and
callbacks return; nobody is obliged to send or kill. *live*: a thread that has
begun to lock or unlock goes on; the monitor thread goes round; the pool's
threads go on, and whoever waits for the mutex gets it (strong fairness, which
pthread mutexes give in practice); socket events and spurious wakeups need not
happen, and the callback of the worker in `Stuck` never returns; the dispatcher
handles the next message, whoever is inside the lock leaves it, a coroutine ends
when it can again and again (strong), and peers answer a call, with a value or
an error; the harbor's nodes handle what has arrived. As only one part of `MCLive`
runs in a behaviour, one condition there (`Goes`, `Works`...) stands for a
condition of each part. *sockets_live*: the socket thread serves requests and
events; the pipe is empty again and again and a socket whose peer reads is
writable again and again (strong fairness: writability comes and goes).

Liveness is stated as "again and again": that something is not so for ever
(`[]<>(pc[t] # "drain")`: no writer waits in the second loop of `wlock` for ever),
or that a wait ends.

## 4. Findings and known races

Each of these is a run that violates what the code says of itself.

1. *The rehash assertion can fail* (`handles_rehash`). `skynet_handle_register`
   enters the context into the table, but `ctx->handle` is 0 until the caller
   stores the result. If another thread registers in between and the table is
   full, the context is rehashed as handle 0: either `assert(new_slot[hash] ==
   NULL)` (`skynet_handle.c:60`) fails, or the service sits in the wrong slot
   and is never found.
2. *`socket.close` can overtake a reader* (`socket_close`). The comment at
   `lualib/socket.lua:33` says that close waits for the last read. A reader
   woken by data may read again before the closing coroutine runs; it then
   waits for a socket that is gone.
3. *The last reader of a shared object frees it under another*
   (`stm_last_reader`). Readers share the lock, so one that was not the last
   may be between its decrement and its unlock (`lua-stm.c:80`).
4. *A late connection ends the process* (`gate_accept`). `close` makes the gate
   forget `listen_id` at once; a connection that was accepted before, and is
   reported after, fails `assert(g->listen_id == message->id)`
   (`service_gate.c:253`).

### Known races

What follows can happen in the code and is met by the models; the properties
say what holds nevertheless, and exclude or name the case.

* *A service killed while it is created* (`skynet_server.c:153-161`).
  `skynet_context_new` gives up its own reference, then writes `ctx->init`,
  pushes the mailbox and reads `ret->handle`. If another thread kills the service
  meanwhile, the context is freed under it. `FreedUsedOnlyByCreator` says that
  there is no other use of freed memory.
* *Two services created at once* (`skynet_handle.c:60`): finding 1. What is said of
  the handle storage is said for one creator, and of handles for the first lap of
  `handle_index`; afterwards a handle that somebody kept may name another service,
  and with harbor 0 one is given out as 0, which the code reads as none.
* *The gate without a recipient* (`service_gate.c:169`), and *with a length of
  2^31 or more* (`databuffer.h:138`): see `Gate` in section 2. The first makes the
  rest of the stream garbage, the second a connection that is neither served nor
  closed.
* *The socket server* (`socket_server.c:246`): the three races of `NotRaced` (section
  2). The instance with two threads of callers checks slots and asserts alone.
* *Datagrams* (`socket_server.c:537`). One that `sendto` refuses holds back those
  behind it for ever; `Arrives` speaks of sockets without such an address.
* *Multicast* (`multicastd.lua:142`, `90`). Two SUB that wait for one SUBR, while a USUB
  takes the channel away, leave a node with subscribers its owner does not know:
  they miss messages until they subscribe again. A package whose subscriber has
  exited is never freed. `MulticastRight` counts these and flags neither.
* *Harbor* (`service_harbor.c:387`, `cslave.lua:94`). A message by name may overtake
  those that wait for the handshake (`InOrder` speaks of messages by handle). A
  slave that crashed cannot come back, since the master and the other slaves keep
  its entry, and who waits for a node that died waits for ever.
* *Socket channel* (`socketchannel.lua:182`). If answers come in order, requests that
  wait while `close` or `changehost` waits for the socket are given answers of the
  next connection; those that wait when the dispatch thread has ended are never
  woken. `Served` is stated without closes and changes while a connection is opened.
* *Errors in Lua* (`skynet/queue.lua:29`). An uncaught error skips what is left of the
  error queue and the wakeups. A later message finds them, and such an entry can
  resume a coroutine that waits for the lock of `skynet.queue` before its turn. Then
  `assert(ref == 0)` may fail, or the lock is handed to a coroutine that is not
  waiting for it and nobody gets it any more. The specification follows the code
  (`early`, `AssertFails`); the lock's properties are stated for the time before,
  and the liveness run has no uncaught errors.
* *Cache* (`cache_util.lua:94`). An old row stays in redis until it expires, if ever:
  when it was read before an update and written after its clearrd; when redis fails
  the clearrd (`redis_db.lua:65`, which nobody hears of); or when the update raises,
  for which no clearrd is sent, and mysql carried it out all the same
  (`mysql_service.lua:79`). `StaleHasCause` says that there is no other cause,
  `SeesReturned` that a reader gets a row older than an update that had returned
  before it asked only in the first two cases.

Other behaviour of the code that the models show or that reading it for them
showed, and no run is devoted to:

* *Socket ids.* Two threads that wrap `alloc_id` at once both read the masked
  value and get the same id. When a receive buffer exceeds its limit it is
  cleared, and the reader that goes on sees a gap in its stream (`gap` in
  `SocketLib`).
* *Codecs.* `hexdecode` tests the parity of the length by `sz & 2` and accepts
  the digit `g`; `base64decode` refuses a final line break; a table with array
  and hash part loses keys in BSON when the last key that `lua_next` gave is
  the raw length; a replaced int32 is truncated, dates before 1970 are read as
  unsigned and lose what is below a second; a sproto map whose elements have no
  main index cannot be decoded, a bundle without types cannot be loaded,
  `sproto_unpack` accepts a message cut by one byte, and `write_ff` reads
  behind its source; a request that is sent without arguments although its protocol
  declares some cannot be decoded (`sproto.lua:209`).
* *Shared tables.* A table used as a key is counted and then taken for the
  empty string; an integer key beyond 32 bits leaves a slot unwritten; a nested
  table leaks when its conversion raises.
* *Cluster.* The comment gives the size of an unsplit request as up to 0x8000,
  the code takes less; `large_request` is keyed by session over all
  connections, and any close resets it.
* *The game.* Agents have no exit command, so killing them has no effect;
  `send_package` and `on_message_queue_block` are global names nobody sets;
  `redirect_agent`, `forward` and `unforward` have no caller; the gate refuses
  at `maxclient`, the watchdog at `maxclient - 1`, which it tests before two
  calls and not after them; `mysql_service` gives no answer when a statement
  raises; the waiters of `query_sharedata` wait for ever when the first one
  raises; `lkclusterd` and `lkcluster.mcall` use misspelt or undefined names.

## 5. Proofs

TLC checks the instances of section 3; the theorems hold for every value of the
constants. In each proof module the invariant that the runs check is
strengthened to an inductive one, `IInv`, which the runs check too (but that of
`LuaScheduler` quantifies over all sessions and requests, which TLC cannot
enumerate; it was checked with bounded quantifiers). Three facts are proved: it
holds initially, every step keeps it, and it implies the property. The proof of
a step has one case per action, and lemmas for what several actions share.

| theorem | property | for any |
|---|---|---|
| `SkynetServerProofs!Invariance` | `IInv` | services, workers and other threads, weights |
| `MailboxPlacement` | `MailboxInOnePlace` | the same |
| `NoLostMailbox` | `NothingStranded` | |
| `ExclusiveCallback` | `ServiceExclusive` | |
| `ReferenceCounting` | `RefCountExact` | |
| `MemorySafety` | `FreedUsedOnlyByCreator` | |
| `InitialisedFirst` | `InitBeforeDispatch` | |
| `SessionOrder` | `SendOrder` | |
| `MarkedMailbox` (action property) | `ReleasedMailboxShrinks` | |
| `MessageQueueProofs!MailboxIsFifo` (refinement) | `ImplementsFifo` | capacity, messages |
| `MCNodeProofs!RwLockSafe` | `MutualExclusion` | finite set of threads |
| `MCNodeProofs!NoEarlyShutdown` | `PoolRight` | workers, services, events |
| `MCNodeProofs!MonitorSound` | `MonitorRight` | workers, services, modulus of the versions |
| `MCNodeProofs!SharedObjects` | `StmRight` | readers, versions, references |
| `CacheUtilProofs!CacheSafe` | `StaleHasCause`, `SeesReturned` | readers, writers, workers, failures and expiries, either configuration |
| `HandleStorageProofs!HandlesSafe` | `HandlesRight` | size and growth of the table, number of handles, services, names, other threads; one creator |
| `NobodyMissed` (action property) | `AbortRetiresAll` | the same |
| `TimerProofs!TimerSafe` | `TimerRight` | number of slots, sessions, timeouts below half of the clock |
| `MCNodeProofs!PoolRightInNode`, `MonitorRightInNode`, `TimerRightInNode`, `HandlesRightInNode`, `NobodyMissedInNode`, `StmRightInNode`, `CacheRightInNode`, `MulticastRightInNode` | `PoolRight`, `MonitorRight`, `TimerRight`, `HandlesRight`, `AbortRetiresAll`, `StmRight`, `CacheRight`, `MulticastRight` of `MCNode` | (the instance of the run) |
| `MulticastProofs!MulticastSafe` | `MulticastRight` | services of either node, messages, requests |
| `LuaSchedulerProofs!Scheduler` | `SchedulerRight` | peers, coroutines, sessions, requests, errors, sets of operations |

**The scheduling core** (`SkynetServer`). The properties are not inductive one by
one; `IInv` is their conjunction with what they rest on:

| conjunct | why it is needed |
|---|---|
| `RegOK` | which local variables are in use at each control point, also inside the shared routines (`Caller`) |
| `RefCountExact`, `AliveOK` | a counted context is allocated and its mailbox not marked, so `skynet_mq_push` never meets a marked mailbox, and `delete_context` runs once |
| `NewOK` | a context is registered once, has one creator, and no mailbox until `skynet_mq_create` |
| `FlagOK`, `NothingStranded` | while the mark is off, `in_global = 1` exactly when the mailbox is queued or held: this is why a push that sees 0 may publish it and a push that sees 1 need not |
| `MailboxInOnePlace` | what the publishing rule protects |
| `NamesOK` | every handle in a message or local variable belongs to a service that has, or had, a mailbox |
| `InitOK` | a registered service others know of is initialised or still in its creator's hands, and what a worker grabbed for dispatch is initialised |
| `OrderOK` | the sessions along a mailbox are at most the counter of their source, and a session taken but not yet pushed is above those of its source in every mailbox |

Steps are local to one thread (`LocalNext`), so each lemma `...Next` treats the
thread that moves, one case per action. The count is handled by `Balance`: each
step changes `ref` by what it changes in the slot and in the references of its
thread. Ownership is handled by `Move(t, A, D)`: every step moves mailboxes
between the global queue and one thread, except five, which make an unowned
mailbox owned (`PushMq`, `Delete`, `NewQueue`) or give one up (`PopEmpty`,
`DropDone`). Assumption (`ConstAssumption`): finitely many threads, workers
distinct from the others, the boot service among the services, `Nil` not a
handle.

**The Lua scheduler.** To `SchedulerRight`, `IInv` adds

| conjunct | why it is needed |
|---|---|
| `OtherTypes` | types of what `TypeOK` does not name, histories included |
| `RunsAlone` | one coroutine runs, and whoever waits has a session that was given out |
| `SessionsRight` | a session above the counter names nobody; sleepers and marks of cancelled sleeps belong to timer sessions; a wait for the lock never gets an answer; watched sessions and those in the error queue are calls |
| `SuspendRight` | without a stale entry, error queue and wakeups are empty between messages and name only coroutines that wait |
| `RequestsRight` | a request is in one place: the mailbox, one coroutine, or `unresponse`; and has no reply before it leaves there |
| `Accounted` | every call that came in is in one of these places or settled: nobody is forgotten, which is what `skynet.exit` answers |
| `LockRight` | the depth of the lock belongs to its owner; before an early resumption, those queued are distinct and asleep, and a new owner that has not begun is among the woken |

Most actions resume, suspend or end a coroutine and do a few things in its name,
so the proof classes them by what they change (`CoStep`, `LockStep`, `ReqStep`,
`QueueStep`): one lemma shows that every action is of a class, others what a
class keeps. The lemma for `skynet.exit`, which answers all callers at once,
goes over the sequence of error messages it sends. Assumption (`LuaConstants`):
the numbers are natural, at least one coroutine, and `"timer"` and `"none"` name
no peer.

**Shared objects, monitor, pool.** In `Stm` the count of a copy is the number of
those that hold it, the object, the writer, the readers (`CopiesCounted`), and
the object's that of the writer, the readers and the references under way
(`ObjectCounted`). It takes `LockRight` (who is inside the lock at which control
point), `CopiesKnown` (who knows a copy at which point, and that a reader under
the lock holds the current one), and `GrabsCounted`. In `Monitor`, `HandsRight`
ties a worker's `destination` to the service in its hands, `ChecksRight` a check
to the version it has seen; a callback that outlasts two checks is flagged
whatever the modulus, because its own version does not change. In `ThreadPool`,
`CountsRight` says that `sleep` is the number of sleepers and that ready and
busy mailboxes are of services that live; then `quit` is set, and a thread ends,
only after the last context.

**The database cache.** A value that is not the row's any more is harmless only
because a `DEL` is still to come. The invariant says so of every value that was
read and has not raced with a `DEL`, wherever it is: in redis, in a `SET` on its
way, or in the hands of a reader that has not sent it (`ClearsOwed`). Of each
update the value misses, a writer is about to send the `DEL` (`ToClear`), or it is
in redis's mailbox, or it was not carried out (`Clears`); of the last update that
has returned, one of the latter two; and if a reader asked after an update had
returned, that update's `DEL` stands before its `GET`, which is why it cannot hit
the old value unless redis failed the `DEL`. Each `DEL` carries the value of the
row it is for, so that one that fails is no excuse for the others. `RedisPlace`
and `WorkPlace` say that a request is in one mailbox, once, and that its caller
waits for it; `InBetween` bounds values and the number of `DEL`s. What is owed is
stated once of any mailbox (`Due`), with a lemma for a request appended, a `DEL`
appended and a request served, so that every action is one of these or changes
nothing that is owed. Assumptions: nobody is reader and writer, and the workers
are numbered from 0 and at least one (`CacheConstants`).

**Multicast.** Nothing orders the mailboxes of different senders, so the
invariant says of each what may be in it together. `OnePlace` and `CallsWait`: the
call of a service is in one mailbox, once, while the service waits. `KnownFirst`:
who is in a group has its dispatch, or the answer that gives it stands before any
message. `PublishedOnce`: as long as a message is on its way to the owner, or not
sent yet, no package and no mailbox holds it, so binding a package to `channel_n`
references starts from zero, and the references are those of the services that the
package waits for and of those that exited. `RemoteRight`: what the owner believes
of the other node is true, or a correction is on its way. The one order of all
messages is the hardest part: `SameOrder` is lost the moment one message is ahead
of another in the link between the nodes and behind it at a service of the owner's
node. `Ordered` therefore orders three stages at once (`Follows`): delivered to a
service, delivered there while the other is still in the link, or both in the link;
a message that the owner publishes comes after all others in all of them
(`PublishedLast`). Lemmas on mailboxes (`Push`, `Pop`) say how an append or a
removal changes what is in one, once and ahead of what; every action uses only
them. Assumption (`MulticastConstants`): finitely many services, none on both nodes.

**The handle storage** is right as long as one thread creates services: with two, the
assertion of the rehash can fail (finding 1), and a context that is rehashed before its
handle is stored is not found. `OneCreator` is therefore a hypothesis of the two
theorems, which say nothing of that assertion; retiring, naming and aborting threads are any number. The first invariant is that a
context is in the slot its handle hashes to, also while `ctx->handle` is not assigned yet
(`PlacesRight`). It makes the handles of a table distinct, and it survives a growth
because a handle hashes to slot `k` or `k + size` of a table twice as large
(`HashDoubles`); that one of the slots 0 and `size` is then free is why the table of a
growth has room. `FirstLap`: as long as `handle_index` has not gone round, handles only
grow, so none is given out twice, none is 0, and who is live is in the table. For
`skynet_handle_retireall`, which gives up the lock between two slots, `PassRight` says
that whom a pass has still to meet is at or behind the index, since a growth moves a
context only forwards; if a pass retires nothing, it has therefore met nobody, and the
retire of a handle that was read finds its context unless somebody else was faster.
`NamesSorted` carries `FindNameCorrect`. The binary search and the loop that drops the
names of a retired handle are recursive functions: that a function with their equation
exists, and what it returns, is proved by least counterexample (`LeastNat`, from the
library's theorem on well-founded relations), which needs no induction theorem.
Assumption (`HandleConstants`): the number of handles is a multiple of every size of the
table, as a power of two is, and names are numbers.

**The timer.** The invariant names for every request its place: a node is at *home* in
the slot where `add_node` would put it now (`Home`). A request that is not due is
at home, a due one is in the list being dispatched, and nothing else is in either
(`RequestOK`, `SlotOK`, `CurrentOK`). That this survives a tick is the argument for
the cascade: when the clock enters a new block of level `j`, all lower indices are
zero and only the nodes of one list, the one `timer_shift` redistributes, change their
home (`Stays`; `StaysAtWrap` when the clock wraps, where it is list 0 of the last
level). Two facts about time carry it. A timeout is below half of the clock, so a tick
that is ahead is either after now or, wrapped, in an early block of the last level
(`AheadIs`, `FarApart`); and two ticks are in one block of all levels or there is a last
level at which they are not, which is the one `add_node` finds (`LastLevel`, `HomeIs`).
Since `timer_execute` takes the slot of now whole, that slot is empty between ticks
(`SlotOfNow`, and with it `FirstExecuteIdle`) and holds exactly what is due after the
shift (`DueNow`). The order needs `SlotInOrder`: in every list, those of one tick
stand in the order they were asked for. Nodes of one tick share their home at any
time, so a cascade finds no other node of that tick on its way down. `Good` is the
invariant of a wheel that is not stored yet; `GoodAdd`, `GoodTick` and `GoodDispatch`
are the three ways it changes. The loop of `move_list` is a recursive function, treated
like the binary search above. Assumption (`TimerConstants`): at least one near slot,
two slots per level, and timeouts below half of the clock, as an `int` is below half of
2^32.

**`MCNode`.** The parts of the run do not disturb each other: a step of one
leaves the variables of the others alone. So the general theorem of a part gives
the property of the run. The proof modules are instantiated with the values of
the run and their assumptions proved of these (`NodeConstants`).

**The lock and the mailbox.** `RwLockSafe`: the inductive invariant says that
`read` counts exactly the threads between their increment and decrement, that
`write` is 1 while a thread owns it, that there is one owner, and that nobody
reads behind a writer; the count is needed because a writer enters when it *sees*
`read = 0`. `MailboxIsFifo`: under the mapping `Contents` (the cells from head
to tail) the circular buffer implements `Fifo`. The invariant is the type of the
buffer and that no cell in use is unwritten; each push, with and without
expansion, and each pop maps to a step of `Fifo`, the overload bookkeeping to a
stutter. Assumptions: `ThreadsFinite`, `QueueAssumption`.

**Only model-checked.**

* Liveness (`Delivered`, `Reclaimed`, `WriterGetsIn`, `StuckIsReported`,
  `ReadyIsServed`, `Shutdown`, `HalfCloseEnds`, `Arrives`, `CallReturns`,
  `LockComes`, `StartsUp`): fairness and `ENABLED` are beyond the prover.
* `CodecsRight`: the codecs are recursive operators, which the prover cannot
  expand in a module with theorems.
* `SlotsRight`, `SentRight`, `NothingAfterEnd`,
  `GameRight`, `LibrariesRight`, `HarborRight`, `GateRight`,
  `NetpackRight`: not attempted yet.

## 6. Not modelled, and what comes next

Not modelled: the spinlock and the atomics (the modules take their critical
sections as atomic); the module loader, the environment, logging and start-up;
the log service, the logger and snlua; the drivers of databases, which depend
on servers outside the repository; datacenter, launcher and service manager
(one service each, built on the calls of `LuaScheduler`); the services that
manage a cluster of nodes and the parts of its requests; the Lua bindings in C,
which are glue; and the vendored code in `src/skynet/3rd`, by far the larger
part of the C code. What is left out of a modelled component is listed with it
in `PROJECT.json`.

Next: theorems about the network and the rest of the application, by the same
method: the two gates, the clients of the watchdog and the slots
of the socket server.
