------------------------------ MODULE CacheUtil ------------------------------
(***************************************************************************)
(* The database cache (services/persistent/cachedb): one row that services *)
(* read through redis (cache_util.call with conf.cachekey, or with         *)
(* conf.queryrd and conf.cacherd) and others update (conf.sql with         *)
(* conf.clearrd).  redis_db and each mysql_service take their requests in  *)
(* order.                                                                  *)
(***************************************************************************)
EXTENDS Integers, Sequences, FiniteSets

CONSTANTS
  Readers, Writers,   \* services
  Way,                \* "cachekey" or "queryrd": how the readers are configured
  Workers,            \* the workers of mysql_util, 0..n-1
  MaxUpdate, MaxCall, MaxFail   \* bounds: updates, reads, failures and expiries

Services == Readers \cup Writers
NoValue == 0          \* nil; the row has the values 1, 2, ...

\* What the code assumes of the constants.
CacheConstants ==
  /\ Readers \cap Writers = {}
  /\ IsFiniteSet(Workers) /\ Workers = 0..(Cardinality(Workers) - 1) /\ Workers # {}
  /\ Way \in {"cachekey", "queryrd"} /\ {MaxUpdate, MaxCall, MaxFail} \subseteq Nat

VARIABLES
  db,        \* the row
  cache,     \* the entry in redis: its value, and whether it raced (below)
  redisQ,    \* redis_db's mailbox and connection
  workQ,     \* each mysql_service's
  wkIndex,   \* mysql_dbservice[dbname].wkIndex, per service
  pc,        \* where a call is: "idle", "GET", "sql", "row", "SET", "raised"; "lost" and
             \* "gone": it waits for ever (Failed, Orphan)
  got,       \* the answer of the last call
  row,       \* what the statement of the call under way returned
  clears,    \* clearrd's carried out
  since,     \* clears when the row was read
  returned,  \* the newest value whose update has returned to its caller
  floor,     \* returned when the call began
  hitRaced,  \* the answer came from an entry that raced
  uncleared, \* history: the values whose update got no clearrd that was carried out
  calls, fails

vars == <<db, cache, redisQ, workQ, wkIndex, pc, got, row, clears, since, returned, floor,
          hitRaced, uncleared,
                 calls, fails>>

Empty == [v |-> NoValue, raced |-> FALSE]

Init ==
  /\ db = 1 /\ cache = Empty /\ redisQ = <<>> /\ workQ = [w \in Workers |-> <<>>]
  /\ wkIndex = [s \in Services |-> 0]
  /\ pc = [s \in Services |-> "idle"] /\ got = [s \in Readers |-> NoValue]
  /\ row = [s \in Services |-> NoValue] /\ clears = 0 /\ since = [s \in Readers |-> 0]
  /\ returned = 1 /\ floor = [s \in Readers |-> 0] /\ hitRaced = [s \in Readers |-> FALSE]
  /\ uncleared = {} /\ calls = 0 /\ fails = 0

To(s, p) == pc' = [pc EXCEPT ![s] = p]

\* mysql_util.query: the workers in turn.
Query(s, statement) ==
  /\ wkIndex' = [wkIndex EXCEPT ![s] = (@ + 1) % Cardinality(Workers)]
  /\ workQ' = [workQ EXCEPT ![wkIndex[s]] = Append(@, <<statement, s>>)]

-----------------------------------------------------------------------------
\* cache_util.call by a reader: asks redis first.
Read(s) ==
  /\ pc[s] \in {"idle", "raised"} /\ calls < MaxCall /\ calls' = calls + 1
  /\ To(s, "GET") /\ redisQ' = Append(redisQ, <<"GET", s, NoValue, 0>>)
  /\ floor' = [floor EXCEPT ![s] = returned] /\ got' = [got EXCEPT ![s] = NoValue]
  /\ UNCHANGED <<db, cache, workQ, wkIndex, row, clears, since, returned, hitRaced, uncleared,
                 fails>>

\* cache_util.call by a writer
Update(s) ==
  /\ pc[s] = "idle" /\ To(s, "sql") /\ Query(s, "update")
  /\ db + Cardinality({t \in Writers : pc[t] \in {"sql", "lost"}}) <= MaxUpdate
  /\ UNCHANGED <<db, cache, redisQ, got, row, clears, since, returned, floor, hitRaced, uncleared,
                 calls, fails>>

\* redis_db takes a request.  One that fails is answered with nil (redis_db.lua:65-69), and
\* redis carries it out at once or never: what it did carry out is the ordinary step.
RedisFails == fails < MaxFail /\ fails' = fails + 1
\* A hit is the answer; a miss, or a failure, asks the database.
RedisGet(s) ==
  /\ redisQ # <<>> /\ Head(redisQ)[1] = "GET" /\ Head(redisQ)[2] = s /\ redisQ' = Tail(redisQ)
  /\ \/ /\ cache # Empty /\ got' = [got EXCEPT ![s] = cache.v] /\ To(s, "idle")
        /\ hitRaced' = [hitRaced EXCEPT ![s] = cache.raced]
        /\ UNCHANGED <<workQ, wkIndex, fails>>
     \/ /\ IF cache = Empty THEN UNCHANGED fails ELSE RedisFails
        /\ To(s, "sql") /\ Query(s, "select")
        /\ hitRaced' = [hitRaced EXCEPT ![s] = FALSE] /\ UNCHANGED got
  /\ UNCHANGED <<db, cache, row, clears, since, returned, floor, uncleared, calls>>
\* SET, or cacherd: then the row is the answer, whether it was stored or not; with queryrd
\* the call raises instead, for it ends in redis_util:query_with_gsub, whose first argument
\* is then redis_util.
RedisSet(s) ==
  /\ redisQ # <<>> /\ Head(redisQ)[1] = "SET" /\ Head(redisQ)[2] = s /\ redisQ' = Tail(redisQ)
  /\ \/ /\ cache' = [v |-> Head(redisQ)[3], raced |-> clears > Head(redisQ)[4]]
        /\ UNCHANGED fails
     \/ RedisFails /\ UNCHANGED cache
  /\ IF Way = "queryrd" THEN To(s, "raised") /\ UNCHANGED got
     ELSE To(s, "idle") /\ got' = [got EXCEPT ![s] = row[s]]
  /\ UNCHANGED <<db, workQ, wkIndex, row, clears, since, returned, floor, hitRaced, uncleared,
                 calls>>
\* clearrd, sent by excute_with_gsub: nobody waits for it, and nobody hears of its failure.
\* (NoValue stands for the clearrd after a bad result, which clears for no update.)
RedisClear ==
  /\ redisQ # <<>> /\ Head(redisQ)[1] = "DEL" /\ redisQ' = Tail(redisQ)
  /\ \/ cache' = Empty /\ clears' = clears + 1 /\ UNCHANGED <<uncleared, fails>>
     \/ /\ RedisFails /\ uncleared' = uncleared \cup {Head(redisQ)[3]}
        /\ UNCHANGED <<cache, clears>>
  /\ UNCHANGED <<db, workQ, wkIndex, pc, got, row, since, returned, floor, hitRaced, calls>>
\* The time of EXPIRE or SETEX has passed.
Expire ==
  /\ cache # Empty /\ fails < MaxFail /\ fails' = fails + 1 /\ cache' = Empty
  /\ UNCHANGED <<db, redisQ, workQ, wkIndex, pc, got, row, clears, since, returned, floor,
                 hitRaced, uncleared, calls>>

\* mysql_service takes a statement and answers; the caller caches the row.
Taken(w, statement, s) ==
  /\ workQ[w] # <<>> /\ Head(workQ[w]) = <<statement, s>>
  /\ workQ' = [workQ EXCEPT ![w] = Tail(@)]
Selected(w, s) ==
  /\ Taken(w, "select", s) /\ row' = [row EXCEPT ![s] = db]
  /\ since' = [since EXCEPT ![s] = clears] /\ To(s, "row")
  /\ UNCHANGED <<db, cache, redisQ, wkIndex, got, clears, returned, floor, hitRaced, uncleared,
                 calls, fails>>
Cache(s) ==
  /\ pc[s] = "row" /\ To(s, "SET") /\ redisQ' = Append(redisQ, <<"SET", s, row[s], since[s]>>)
  /\ UNCHANGED <<db, cache, workQ, wkIndex, got, row, clears, since, returned, floor, hitRaced,
                 uncleared, calls, fails>>
Updated(w, s) ==
  /\ Taken(w, "update", s) /\ db' = db + 1 /\ row' = [row EXCEPT ![s] = db + 1] /\ To(s, "row")
  /\ UNCHANGED <<cache, redisQ, wkIndex, got, clears, since, returned, floor, hitRaced, uncleared,
                 calls, fails>>
\* Not so: a writer that returns and has not cleared.
BadClear(s) ==
  /\ pc[s] = "row" /\ To(s, "idle")
  /\ returned' = IF row[s] > returned THEN row[s] ELSE returned
  /\ UNCHANGED <<db, cache, redisQ, workQ, wkIndex, got, row, clears, since, floor, hitRaced,
                 uncleared, calls, fails>>
Clear(s) ==
  /\ pc[s] = "row" /\ To(s, "idle") /\ redisQ' = Append(redisQ, <<"DEL", s, row[s], 0>>)
  /\ returned' = IF row[s] > returned THEN row[s] ELSE returned
  /\ UNCHANGED <<db, cache, workQ, wkIndex, got, row, clears, since, floor, hitRaced, uncleared,
                 calls, fails>>
\* A bad result, of a statement mysql refused, is answered with nil and not cached.  One that
\* raises (mysql_service.lua:79-84 catches it) is not answered at all, and its caller waits
\* for ever.
Failed(w, s) ==
  /\ \E statement \in {"select", "update"} : Taken(w, statement, s)
  /\ fails < MaxFail /\ fails' = fails + 1
  /\ \/ To(s, "lost") /\ UNCHANGED redisQ
     \/ /\ To(s, "idle")
        /\ redisQ' = IF s \in Writers THEN Append(redisQ, <<"DEL", s, NoValue, 0>>) ELSE redisQ
  /\ UNCHANGED <<db, cache, wkIndex, got, row, clears, since, returned, floor, hitRaced,
                 uncleared, calls>>
\* The connection broke after an update was sent: mysql carries it out all the same, then or
\* later (or never), and nobody clears the cache.
Orphan(s) ==
  /\ pc[s] = "lost" /\ To(s, "gone")
  /\ db' = db + 1 /\ uncleared' = uncleared \cup {db + 1}
  /\ UNCHANGED <<cache, redisQ, workQ, wkIndex, got, row, clears, since, returned, floor,
                 hitRaced, calls, fails>>

Next ==
  \/ \E s \in Readers : Read(s) \/ RedisGet(s) \/ RedisSet(s) \/ Cache(s)
  \/ \E s \in Writers : Update(s) \/ Clear(s) \/ Orphan(s)
  \/ \E w \in Workers, s \in Services : Failed(w, s)
  \/ \E w \in Workers, s \in Readers : Selected(w, s)
  \/ \E w \in Workers, s \in Writers : Updated(w, s)
  \/ RedisClear \/ Expire

Spec == Init /\ [][Next]_vars

-----------------------------------------------------------------------------
TypeOK ==
  /\ db \in Nat /\ cache \in [v : 0..db, raced : BOOLEAN]
  /\ wkIndex \in [Services -> Workers]

\* No update is between its statement and its clearrd.
Settled ==
  /\ \A s \in Writers : pc[s] \in {"idle", "lost", "gone"}
  /\ \A i \in 1..Len(redisQ) : redisQ[i][1] # "DEL"
\* When all updates are done, an entry that is not the row was written by a reader whose
\* select and SET had a clearrd between them, or every update it misses is one whose
\* clearrd was not carried out: redis failed it, or the update's caller never sent it
\* because its statement raised and mysql carried it out all the same.
StaleHasCause ==
  Settled /\ cache # Empty /\ ~cache.raced => (cache.v + 1)..db \subseteq uncleared

\* A reader gets a value older than an update that had returned before it asked only from
\* an entry that raced, or if redis failed the clearrd of that update.
SeesReturned ==
  \A s \in Readers : pc[s] = "idle" /\ got[s] # NoValue /\ got[s] < floor[s]
                      => hitRaced[s] \/ floor[s] \in uncleared

-----------------------------------------------------------------------------
(* The inductive invariant.                                                *)

OtherTypes ==
  /\ redisQ \in Seq({"GET", "SET", "DEL"} \X Services \X Nat \X Nat)
  /\ workQ \in [Workers -> Seq({"select", "update"} \X Services)]
  /\ pc \in [Services -> {"idle", "GET", "sql", "row", "SET", "raised", "lost", "gone"}]
  /\ row \in [Services -> Nat] /\ clears \in Nat /\ returned \in Nat
  /\ got \in [Readers -> Nat] /\ since \in [Readers -> Nat] /\ floor \in [Readers -> Nat]
  /\ hitRaced \in [Readers -> BOOLEAN] /\ uncleared \subseteq Nat

Is(i, kind) == redisQ[i][1] = kind
InRedis == 1..Len(redisQ)
Waits(w, i) == workQ[w][i][2]

\* A request is in one mailbox, once, and its caller waits for it.
RedisPlace ==
  \A i \in InRedis : ~Is(i, "DEL") =>
    /\ redisQ[i][2] \in Readers /\ pc[redisQ[i][2]] = redisQ[i][1]
    /\ \A j \in InRedis : ~Is(j, "DEL") /\ redisQ[i][2] = redisQ[j][2] => i = j
WorkPlace ==
  \A w \in Workers : \A i \in 1..Len(workQ[w]) :
    /\ pc[Waits(w, i)] = "sql"
    /\ \A v \in Workers : \A j \in 1..Len(workQ[v]) :
          Waits(w, i) = Waits(v, j) => w = v /\ i = j

\* No value is newer than the row, and what a reader read is not older than what had
\* returned when it asked.
InBetween ==
  /\ returned <= db
  /\ \A s \in Writers : pc[s] = "row" => row[s] <= db
  /\ \A s \in Readers :
        /\ since[s] <= clears /\ floor[s] <= returned
        /\ pc[s] \in {"row", "SET"} => row[s] \in floor[s]..db
        /\ pc[s] # "idle" => got[s] = NoValue
  /\ \A i \in InRedis : Is(i, "SET") => redisQ[i][3] <= db /\ redisQ[i][4] <= clears

\* The values whose clearrd will be sent.  Of the value k there is none to wait for, or it
\* is on its way before place i of redis_db's mailbox.
ToClear      == {row[s] : s \in {t \in Writers : pc[t] = "row"}}
Clears(k, i) == k \in uncleared \/ \E j \in InRedis : j < i /\ Is(j, "DEL") /\ redisQ[j][3] = k

\* A value that was read and has not raced: the clearrd's of all newer ones will come; that
\* of the newest one whose update has returned is in redis_db's mailbox; if a reader asked
\* after that, it comes before that reader's request.
Owed(v, i) ==
  /\ \A k \in (v + 1)..db : k \in ToClear \/ Clears(k, Len(redisQ) + 1)
  /\ v < returned => Clears(returned, Len(redisQ) + 1)
  /\ \A j \in InRedis : i < j /\ Is(j, "GET") /\ v < floor[redisQ[j][2]]
                          => Clears(floor[redisQ[j][2]], j)
ClearsOwed ==
  /\ cache # Empty /\ ~cache.raced => Owed(cache.v, 0)
  /\ \A i \in InRedis : Is(i, "SET") /\ redisQ[i][4] = clears => Owed(redisQ[i][3], i)
  /\ \A s \in Readers : pc[s] = "row" /\ since[s] = clears => Owed(row[s], Len(redisQ))

IInv == TypeOK /\ OtherTypes /\ RedisPlace /\ WorkPlace /\ InBetween /\ ClearsOwed /\ SeesReturned
=============================================================================
