--------------------------- MODULE CacheUtilProofs ---------------------------
(***************************************************************************)
(* The database cache, for any number of readers, writers and workers: an  *)
(* old row stays in redis only by the one race the code does not exclude   *)
(* or because no clearrd of what it misses was carried out, and nobody     *)
(* else reads a row older than an update that had returned.                *)
(***************************************************************************)
EXTENDS CacheUtil, FiniteSetTheorems, TLAPS

Requests   == {"GET", "SET", "DEL"} \X Services \X Nat \X Nat
Statements == {"select", "update"} \X Services

\* What a mailbox is after its first message was taken.
LEMMA TailIs ==
  ASSUME NEW S, NEW q \in Seq(S), q # <<>>
  PROVE  /\ Tail(q) \in Seq(S) /\ Head(q) = q[1] /\ q[1] \in S
         /\ Len(q) \in Nat \ {0} /\ Len(Tail(q)) = Len(q) - 1
         /\ \A i \in 1..Len(Tail(q)) : Tail(q)[i] = q[i + 1] /\ i + 1 \in 1..Len(q)
  OBVIOUS

\* What it is after a message was put into it.
LEMMA AppendIs ==
  ASSUME NEW S, NEW q \in Seq(S), NEW m \in S
  PROVE  /\ Append(q, m) \in Seq(S) /\ Len(q) \in Nat
         /\ Len(Append(q, m)) = Len(q) + 1 /\ Append(q, m)[Len(q) + 1] = m
         /\ \A i \in 1..Len(q) : Append(q, m)[i] = q[i]
  OBVIOUS

\* mysql_util.query puts a statement into the mailbox of one worker.
LEMMA QueryIs ==
  ASSUME CacheConstants, TypeOK, OtherTypes, NEW s \in Services,
         NEW k \in {"select", "update"}, Query(s, k)
  PROVE  /\ wkIndex' \in [Services -> Workers]
         /\ workQ' \in [Workers -> Seq(Statements)]
         /\ \E v \in Workers : workQ' = [workQ EXCEPT ![v] = Append(@, <<k, s>>)]
<1>1. Cardinality(Workers) \in Nat
  BY FS_CardinalityType DEF CacheConstants
<1>2. Cardinality(Workers) # 0
  BY FS_EmptySet DEF CacheConstants
<1>3. wkIndex[s] \in Workers /\ wkIndex[s] \in 0..(Cardinality(Workers) - 1)
  BY DEF CacheConstants, TypeOK
<1>4. (wkIndex[s] + 1) % Cardinality(Workers) \in 0..(Cardinality(Workers) - 1)
  BY <1>1, <1>2, <1>3
<1>5. <<k, s>> \in Statements
  BY DEF Statements
<1>6. Append(workQ[wkIndex[s]], <<k, s>>) \in Seq(Statements)
  BY <1>3, <1>5 DEF OtherTypes, Statements
<1> QED
  BY <1>3, <1>4, <1>6 DEF Query, TypeOK, OtherTypes, Statements, CacheConstants

\* A worker takes the first statement of its mailbox.
LEMMA TakenIs ==
  ASSUME OtherTypes, WorkPlace, NEW w \in Workers, NEW k, NEW s, Taken(w, k, s)
  PROVE  /\ workQ' \in [Workers -> Seq(Statements)] /\ pc[s] = "sql" /\ s \in Services
         /\ workQ[w] \in Seq(Statements) /\ workQ[w] # <<>> /\ workQ[w][1] = <<k, s>>
         /\ workQ' = [workQ EXCEPT ![w] = Tail(workQ[w])]
<1>1. workQ[w] \in Seq(Statements) /\ workQ[w] # <<>> /\ Head(workQ[w]) = <<k, s>>
  BY DEF Taken, OtherTypes, Statements
<1>2. workQ[w][1] = <<k, s>> /\ 1 \in 1..Len(workQ[w]) /\ Tail(workQ[w]) \in Seq(Statements)
  BY <1>1, TailIs
<1>3. <<k, s>> \in Statements
  BY <1>1, <1>2, TailIs
<1>4. Waits(w, 1) = s
  BY <1>2 DEF Waits
<1> QED
  BY <1>1, <1>2, <1>3, <1>4 DEF WorkPlace, Taken, OtherTypes, Statements

\* redis_db takes the first request of its mailbox.
LEMMA RedisIs ==
  ASSUME OtherTypes, redisQ # <<>>
  PROVE  /\ redisQ \in Seq(Requests) /\ Tail(redisQ) \in Seq(Requests)
         /\ Head(redisQ) = redisQ[1] /\ redisQ[1] \in Requests /\ 1 \in InRedis
         /\ Len(redisQ) \in Nat \ {0} /\ Len(Tail(redisQ)) = Len(redisQ) - 1
         /\ \A i \in 1..Len(Tail(redisQ)) :
              Tail(redisQ)[i] = redisQ[i + 1] /\ i + 1 \in InRedis
<1>1. redisQ \in Seq(Requests)
  BY DEF OtherTypes, Requests
<1> QED
  BY <1>1, TailIs DEF InRedis

\* The types are kept.
LEMMA TypesNext ==
  ASSUME CacheConstants, IInv, Next
  PROVE  TypeOK' /\ OtherTypes'
<1> USE DEF IInv
<1>a. redisQ \in Seq(Requests) /\ Readers \subseteq Services /\ Writers \subseteq Services
  BY DEF OtherTypes, Requests, Services
<1>b. \A k \in {"GET", "SET", "DEL"}, s \in Services, v \in Nat, n \in Nat :
        Append(redisQ, <<k, s, v, n>>) \in Seq(Requests)
  BY <1>a DEF Requests
<1>c. Empty \in [v : 0..db, raced : BOOLEAN]
  BY DEF TypeOK, Empty, NoValue
<1>1. ASSUME NEW s \in Readers, Read(s) PROVE TypeOK' /\ OtherTypes'
  <2>1. redisQ' \in Seq(Requests)
    BY <1>1, <1>a, <1>b DEF Read, NoValue
  <2> QED
    BY <1>1, <1>a, <2>1 DEF Read, To, TypeOK, OtherTypes, Requests, NoValue
<1>2. ASSUME NEW s \in Readers, Cache(s) PROVE TypeOK' /\ OtherTypes'
  <2>1. redisQ' \in Seq(Requests)
    BY <1>2, <1>a, <1>b DEF Cache, OtherTypes
  <2> QED
    BY <1>2, <1>a, <2>1 DEF Cache, To, TypeOK, OtherTypes, Requests
<1>3. ASSUME NEW s \in Readers, RedisGet(s) PROVE TypeOK' /\ OtherTypes'
  <2>1. redisQ' \in Seq(Requests)
    BY <1>3, RedisIs DEF RedisGet
  <2>2. wkIndex' \in [Services -> Workers] /\ workQ' \in [Workers -> Seq(Statements)]
    BY <1>3, <1>a, QueryIs DEF RedisGet, TypeOK, OtherTypes, Statements
  <2>3. /\ pc' \in [Services -> {"idle", "GET", "sql", "row", "SET", "raised", "lost", "gone"}]
        /\ got' \in [Readers -> Nat] /\ hitRaced' \in [Readers -> BOOLEAN]
    <3>1. s \in Services /\ pc' \in {[pc EXCEPT ![s] = "idle"], [pc EXCEPT ![s] = "sql"]}
      BY <1>3, <1>a DEF RedisGet, To
    <3>2. cache.v \in Nat /\ cache.raced \in BOOLEAN
      BY DEF TypeOK
    <3>3. got' \in {got, [got EXCEPT ![s] = cache.v]}
      BY <1>3 DEF RedisGet
    <3>4. hitRaced' \in {[hitRaced EXCEPT ![s] = cache.raced], [hitRaced EXCEPT ![s] = FALSE]}
      BY <1>3 DEF RedisGet
    <3> QED
      BY <3>1, <3>2, <3>3, <3>4 DEF OtherTypes
  <2> QED
    BY <1>3, <2>1, <2>2, <2>3 DEF RedisGet, TypeOK, OtherTypes, Requests, Statements
<1>4. ASSUME NEW s \in Readers, RedisSet(s) PROVE TypeOK' /\ OtherTypes'
  <2>1. redisQ' \in Seq(Requests) /\ redisQ[1] \in Requests /\ Head(redisQ) = redisQ[1]
    BY <1>4, RedisIs DEF RedisSet
  <2>2. redisQ[1][3] \in 0..db
    <3>1. 1 \in InRedis /\ Is(1, "SET")
      BY <1>4, <2>1, RedisIs DEF RedisSet, Is
    <3>2. redisQ[1][3] <= db
      BY <3>1 DEF InBetween
    <3> QED
      BY <2>1, <3>2 DEF Requests, TypeOK
  <2>3. cache' \in [v : 0..db, raced : BOOLEAN]
    <3>1. [v |-> redisQ[1][3], raced |-> clears > redisQ[1][4]] \in [v : 0..db, raced : BOOLEAN]
      <4>1. (clears > redisQ[1][4]) \in BOOLEAN
        OBVIOUS
      <4> QED
        BY <2>2, <4>1, Zenon
    <3>2. \/ cache' = cache
          \/ cache' = [v |-> redisQ[1][3], raced |-> clears > redisQ[1][4]]
      BY <1>4, <2>1, Zenon DEF RedisSet
    <3> QED
      BY <3>1, <3>2, Zenon DEF TypeOK
  <2>4. /\ pc' \in [Services -> {"idle", "GET", "sql", "row", "SET", "raised", "lost", "gone"}]
        /\ got' \in [Readers -> Nat]
    <3>1. s \in Services /\ pc' \in {[pc EXCEPT ![s] = "idle"], [pc EXCEPT ![s] = "raised"]}
      BY <1>4, <1>a DEF RedisSet, To
    <3>2. got' \in {got, [got EXCEPT ![s] = row[s]]}
      BY <1>4 DEF RedisSet
    <3> QED
      BY <3>1, <3>2 DEF OtherTypes
  <2> QED
    BY <1>4, <2>1, <2>3, <2>4 DEF RedisSet, TypeOK, OtherTypes, Requests
<1>5. ASSUME NEW s \in Writers, Update(s) PROVE TypeOK' /\ OtherTypes'
  <2>1. wkIndex' \in [Services -> Workers] /\ workQ' \in [Workers -> Seq(Statements)]
    BY <1>5, <1>a, QueryIs DEF Update
  <2> QED
    BY <1>5, <1>a, <2>1 DEF Update, To, TypeOK, OtherTypes, Statements
<1>6. ASSUME NEW s \in Writers, Clear(s) PROVE TypeOK' /\ OtherTypes'
  <2>1. redisQ' \in Seq(Requests)
    BY <1>6, <1>a, <1>b DEF Clear, OtherTypes
  <2> QED
    BY <1>6, <1>a, <2>1 DEF Clear, To, TypeOK, OtherTypes, Requests
<1>7. ASSUME NEW w \in Workers, NEW s \in Services, Failed(w, s)
      PROVE  TypeOK' /\ OtherTypes'
  <2>1. workQ' \in [Workers -> Seq(Statements)]
    BY <1>7, TakenIs DEF Failed
  <2>2. redisQ' \in Seq(Requests)
    BY <1>7, <1>a, <1>b DEF Failed, NoValue
  <2> QED
    BY <1>7, <1>a, <2>1, <2>2 DEF Failed, To, TypeOK, OtherTypes, Requests, Statements
<1>8. ASSUME NEW w \in Workers, NEW s \in Readers, Selected(w, s)
      PROVE  TypeOK' /\ OtherTypes'
  <2>1. workQ' \in [Workers -> Seq(Statements)]
    BY <1>8, TakenIs DEF Selected
  <2> QED
    BY <1>8, <1>a, <2>1 DEF Selected, To, TypeOK, OtherTypes, Statements
<1>9. ASSUME NEW w \in Workers, NEW s \in Writers, Updated(w, s)
      PROVE  TypeOK' /\ OtherTypes'
  <2>1. workQ' \in [Workers -> Seq(Statements)]
    BY <1>9, TakenIs DEF Updated
  <2> QED
    BY <1>9, <1>a, <2>1 DEF Updated, To, TypeOK, OtherTypes, Statements
<1>10. CASE RedisClear
  <2>1. redisQ' \in Seq(Requests) /\ Head(redisQ)[3] \in Nat
    BY <1>10, RedisIs DEF RedisClear, Requests
  <2>2. cache' \in [v : 0..db, raced : BOOLEAN]
    <3>1. cache' = Empty \/ cache' = cache
      BY <1>10 DEF RedisClear
    <3> QED
      BY <1>c, <3>1, Zenon DEF TypeOK
  <2>3. clears' \in Nat /\ uncleared' \subseteq Nat
    <3>1. clears' = clears \/ clears' = clears + 1
      BY <1>10 DEF RedisClear
    <3>2. uncleared' = uncleared \/ uncleared' = uncleared \cup {Head(redisQ)[3]}
      BY <1>10 DEF RedisClear
    <3>3. clears \in Nat /\ uncleared \subseteq Nat
      BY DEF OtherTypes
    <3>4. clears' \in Nat
      BY <3>1, <3>3
    <3>5. uncleared' \subseteq Nat
      BY <2>1, <3>2, <3>3, Zenon
    <3> QED
      BY <3>4, <3>5
  <2>4. TypeOK'
    BY <1>10, <2>2 DEF RedisClear, TypeOK
  <2> QED
    <3>1. /\ workQ' = workQ /\ pc' = pc /\ row' = row /\ returned' = returned /\ got' = got
          /\ since' = since /\ floor' = floor /\ hitRaced' = hitRaced
      BY <1>10 DEF RedisClear
    <3>2. OtherTypes'
      BY <2>1, <2>3, <3>1 DEF OtherTypes, Requests
    <3> QED
      BY <2>4, <3>2
<1>11. CASE Expire
  BY <1>11, <1>c DEF Expire, TypeOK, OtherTypes
<1>12. ASSUME NEW s \in Writers, Orphan(s) PROVE TypeOK' /\ OtherTypes'
  <2>1. db' \in Nat /\ uncleared' \subseteq Nat /\ cache' \in [v : 0..db', raced : BOOLEAN]
    BY <1>12 DEF Orphan, TypeOK, OtherTypes
  <2> QED
    BY <1>12, <1>a, <2>1 DEF Orphan, To, TypeOK, OtherTypes
<1> QED
  BY <1>1, <1>2, <1>3, <1>4, <1>5, <1>6, <1>7, <1>8, <1>9, <1>10, <1>11, <1>12 DEF Next

-----------------------------------------------------------------------------
(* Where requests are.                                                     *)

\* One call moves on.
Moves(s, p) == s \in Services /\ pc' = [pc EXCEPT ![s] = p]

\* redis_db's mailbox stays, while a caller it has no request of moves on.
LEMMA RedisKept ==
  ASSUME OtherTypes, RedisPlace, NEW s, NEW p, Moves(s, p), pc[s] \notin {"GET", "SET"},
         redisQ' = redisQ
  PROVE  RedisPlace'
<1>1. ASSUME NEW i \in InRedis, ~Is(i, "DEL")
      PROVE  pc'[redisQ[i][2]] = pc[redisQ[i][2]]
  <2>1. redisQ[i][1] \in {"GET", "SET", "DEL"} /\ redisQ[i][1] # "DEL"
    BY <1>1 DEF OtherTypes, InRedis, Is
  <2>2. redisQ[i][2] \in Readers /\ pc[redisQ[i][2]] = redisQ[i][1]
    BY <1>1 DEF RedisPlace
  <2> QED
    BY <2>1, <2>2 DEF Moves, OtherTypes, Services
<1> QED
  BY <1>1 DEF RedisPlace, InRedis, Is

\* A caller sends a request, and no other of its own is there.
LEMMA RedisPut ==
  ASSUME OtherTypes, RedisPlace, NEW s, NEW p, Moves(s, p), pc[s] \notin {"GET", "SET"},
         NEW k \in {"GET", "SET", "DEL"}, NEW v \in Nat, NEW n \in Nat,
         redisQ' = Append(redisQ, <<k, s, v, n>>), k # "DEL" => s \in Readers /\ p = k
  PROVE  RedisPlace'
<1> DEFINE l == Len(redisQ)
           m == <<k, s, v, n>>
<1>1. redisQ \in Seq(Requests) /\ m \in Requests
  BY DEF OtherTypes, Requests, Moves
<1>2. /\ l \in Nat /\ Len(redisQ') = l + 1 /\ redisQ'[l + 1] = m
      /\ \A i \in 1..l : redisQ'[i] = redisQ[i]
  BY <1>1, AppendIs
<1>3. ASSUME NEW i \in 1..l, redisQ[i][1] # "DEL"
      PROVE  /\ redisQ[i][2] \in Readers /\ redisQ[i][2] # s
             /\ pc'[redisQ[i][2]] = redisQ[i][1]
  <2>1. redisQ[i][1] \in {"GET", "SET", "DEL"}
    BY <1>1 DEF Requests
  <2>2. redisQ[i][2] \in Readers /\ pc[redisQ[i][2]] = redisQ[i][1]
    BY <1>3 DEF RedisPlace, InRedis, Is
  <2> QED
    BY <1>3, <2>1, <2>2 DEF Moves, OtherTypes, Services
<1>4. k # "DEL" => pc'[s] = k
  BY DEF Moves, OtherTypes
<1>5. ASSUME NEW i \in 1..(l + 1), redisQ'[i][1] # "DEL"
      PROVE  /\ redisQ'[i][2] \in Readers /\ pc'[redisQ'[i][2]] = redisQ'[i][1]
             /\ \A j \in 1..(l + 1) :
                  redisQ'[j][1] # "DEL" /\ redisQ'[i][2] = redisQ'[j][2] => i = j
  <2>1. CASE i \in 1..l
    <3>1. \A j \in 1..l : redisQ[j][1] # "DEL" /\ redisQ[i][2] = redisQ[j][2] => i = j
      BY <1>2, <1>5, <2>1 DEF RedisPlace, InRedis, Is
    <3> QED
      BY <1>2, <1>3, <1>5, <2>1, <3>1
  <2>2. CASE i = l + 1
    BY <1>2, <1>3, <1>4, <1>5, <2>2
  <2> QED
    BY <1>2, <2>1, <2>2
<1> QED
  BY <1>2, <1>5 DEF RedisPlace, InRedis, Is

\* The first request is served, and only its caller, if any, moves on.
LEMMA RedisServed ==
  ASSUME OtherTypes, RedisPlace, redisQ # <<>>, redisQ' = Tail(redisQ),
         \/ redisQ[1][1] = "DEL" /\ pc' = pc
         \/ redisQ[1][1] # "DEL" /\ \E p : Moves(redisQ[1][2], p)
  PROVE  RedisPlace'
<1>1. ASSUME NEW i \in 1..Len(redisQ'), redisQ'[i][1] # "DEL"
      PROVE  /\ redisQ'[i][2] \in Readers /\ pc'[redisQ'[i][2]] = redisQ'[i][1]
             /\ \A j \in 1..Len(redisQ') :
                  redisQ'[j][1] # "DEL" /\ redisQ'[i][2] = redisQ'[j][2] => i = j
  <2>1. /\ i + 1 \in InRedis /\ redisQ'[i] = redisQ[i + 1] /\ i \in Nat \ {0}
        /\ \A j \in 1..Len(redisQ') : j + 1 \in InRedis /\ redisQ'[j] = redisQ[j + 1]
    BY <1>1, RedisIs DEF InRedis
  <2>2. /\ redisQ[i + 1][2] \in Readers /\ pc[redisQ[i + 1][2]] = redisQ[i + 1][1]
        /\ \A j \in InRedis : redisQ[j][1] # "DEL" /\ redisQ[i + 1][2] = redisQ[j][2]
                                => i + 1 = j
    BY <1>1, <2>1 DEF RedisPlace, Is
  <2>3. redisQ[1][1] # "DEL" => redisQ[i + 1][2] # redisQ[1][2]
    BY <2>1, <2>2, RedisIs
  <2>4. pc'[redisQ[i + 1][2]] = pc[redisQ[i + 1][2]]
    BY <2>2, <2>3 DEF Moves, OtherTypes, Services
  <2> QED
    BY <2>1, <2>2, <2>4
<1> QED
  BY <1>1 DEF RedisPlace, InRedis, Is

\* The mailboxes of the mysql_services stay, and a caller they have nothing of moves on.
LEMMA WorkKept ==
  ASSUME OtherTypes, WorkPlace, NEW s, NEW p, Moves(s, p), pc[s] # "sql", workQ' = workQ
  PROVE  WorkPlace'
<1>1. ASSUME NEW w \in Workers, NEW i \in 1..Len(workQ[w])
      PROVE  pc'[workQ[w][i][2]] = "sql"
  <2>1. workQ[w][i] \in Statements
    BY DEF OtherTypes, Statements
  <2>2. pc[workQ[w][i][2]] = "sql" /\ workQ[w][i][2] \in Services
    BY <2>1 DEF WorkPlace, Waits, Statements
  <2> QED
    BY <2>2 DEF Moves, OtherTypes
<1> QED
  BY <1>1 DEF WorkPlace, Waits

\* A statement is put into one of them.
LEMMA WorkPut ==
  ASSUME OtherTypes, WorkPlace, NEW s, Moves(s, "sql"), pc[s] # "sql",
         NEW k \in {"select", "update"}, NEW u \in Workers,
         workQ' = [workQ EXCEPT ![u] = Append(@, <<k, s>>)]
  PROVE  WorkPlace'
<1> DEFINE l == Len(workQ[u])
<1>1. /\ l \in Nat /\ Len(workQ'[u]) = l + 1 /\ workQ'[u][l + 1] = <<k, s>>
      /\ \A i \in 1..l : workQ'[u][i] = workQ[u][i]
  <2>1. workQ[u] \in Seq(Statements) /\ <<k, s>> \in Statements
        /\ workQ'[u] = Append(workQ[u], <<k, s>>)
    BY DEF OtherTypes, Statements, Moves
  <2> QED
    BY <2>1, AppendIs
<1>2. \A w \in Workers : w # u => workQ'[w] = workQ[w]
  BY DEF OtherTypes
<1>3. ASSUME NEW w \in Workers, NEW i \in 1..Len(workQ[w])
      PROVE  /\ workQ'[w][i] = workQ[w][i] /\ i \in 1..Len(workQ'[w])
             /\ pc[workQ[w][i][2]] = "sql" /\ pc'[workQ[w][i][2]] = "sql"
             /\ workQ[w][i][2] # s
  <2>1. workQ[w][i] \in Statements
    BY DEF OtherTypes, Statements
  <2>2. pc[workQ[w][i][2]] = "sql" /\ workQ[w][i][2] \in Services
    BY <2>1 DEF WorkPlace, Waits, Statements
  <2> QED
    BY <1>1, <1>2, <2>2 DEF Moves, OtherTypes
<1>4. ASSUME NEW w \in Workers, NEW i \in 1..Len(workQ'[w])
      PROVE  i \in 1..Len(workQ[w]) \/ (w = u /\ i = l + 1)
  BY <1>1, <1>2
<1>5. pc'[s] = "sql"
  BY DEF Moves, OtherTypes
<1>6. ASSUME NEW w \in Workers, NEW i \in 1..Len(workQ'[w]),
             NEW v \in Workers, NEW j \in 1..Len(workQ'[v]),
             workQ'[w][i][2] = workQ'[v][j][2]
      PROVE  w = v /\ i = j
  <2>1. CASE i \in 1..Len(workQ[w]) /\ j \in 1..Len(workQ[v])
    BY <1>3, <1>6, <2>1 DEF WorkPlace, Waits
  <2>2. CASE ~(i \in 1..Len(workQ[w]) /\ j \in 1..Len(workQ[v]))
    BY <1>1, <1>3, <1>4, <1>6, <2>2
  <2> QED
    BY <2>1, <2>2
<1>7. ASSUME NEW w \in Workers, NEW i \in 1..Len(workQ'[w])
      PROVE  pc'[workQ'[w][i][2]] = "sql"
  BY <1>1, <1>3, <1>4, <1>5
<1> QED
  BY <1>6, <1>7 DEF WorkPlace, Waits

\* The first statement of one of them is served, and its caller moves on.
LEMMA WorkServed ==
  ASSUME OtherTypes, WorkPlace, NEW u \in Workers, NEW k, NEW s, Taken(u, k, s),
         NEW p, Moves(s, p)
  PROVE  WorkPlace'
<1>1. /\ workQ[u] \in Seq(Statements) /\ workQ[u] # <<>> /\ workQ[u][1] = <<k, s>>
      /\ workQ' = [workQ EXCEPT ![u] = Tail(workQ[u])]
  BY TakenIs
<1>2. /\ Len(workQ[u]) \in Nat \ {0} /\ Len(workQ'[u]) = Len(workQ[u]) - 1
      /\ \A i \in 1..Len(workQ'[u]) :
           workQ'[u][i] = workQ[u][i + 1] /\ i + 1 \in 1..Len(workQ[u])
  <2>1. workQ'[u] = Tail(workQ[u])
    BY <1>1 DEF OtherTypes
  <2>2. /\ Len(workQ[u]) \in Nat \ {0} /\ Len(Tail(workQ[u])) = Len(workQ[u]) - 1
        /\ \A i \in 1..Len(Tail(workQ[u])) :
             Tail(workQ[u])[i] = workQ[u][i + 1] /\ i + 1 \in 1..Len(workQ[u])
    BY <1>1, TailIs
  <2> QED
    BY <2>1, <2>2
<1>3. \A w \in Workers : w # u => workQ'[w] = workQ[w]
  BY <1>1 DEF OtherTypes
<1> DEFINE Old(w, i) == IF w = u THEN i + 1 ELSE i
<1>4. ASSUME NEW w \in Workers, NEW i \in 1..Len(workQ'[w])
      PROVE  /\ Old(w, i) \in 1..Len(workQ[w]) /\ workQ'[w][i] = workQ[w][Old(w, i)]
             /\ ~(w = u /\ Old(w, i) = 1)
  BY <1>2, <1>3
<1>5. ASSUME NEW w \in Workers, NEW i \in 1..Len(workQ'[w])
      PROVE  pc'[workQ'[w][i][2]] = "sql"
  <2>1. workQ[w][Old(w, i)] \in Statements
    BY <1>4 DEF OtherTypes, Statements
  <2>2. pc[workQ'[w][i][2]] = "sql" /\ workQ'[w][i][2] \in Services
    BY <1>4, <2>1 DEF WorkPlace, Waits, Statements
  <2>3. workQ'[w][i][2] # s
    BY <1>1, <1>2, <1>4 DEF WorkPlace, Waits
  <2> QED
    BY <2>2, <2>3 DEF Moves, OtherTypes
<1>6. ASSUME NEW w \in Workers, NEW i \in 1..Len(workQ'[w]),
             NEW v \in Workers, NEW j \in 1..Len(workQ'[v]),
             workQ'[w][i][2] = workQ'[v][j][2]
      PROVE  w = v /\ i = j
  <2>1. w = v /\ Old(w, i) = Old(v, j)
    <3>1. /\ Old(w, i) \in 1..Len(workQ[w]) /\ Old(v, j) \in 1..Len(workQ[v])
          /\ workQ[w][Old(w, i)][2] = workQ[v][Old(v, j)][2]
      BY <1>4, <1>6
    <3> HIDE DEF Old
    <3> QED
      BY <3>1 DEF WorkPlace, Waits
  <2> QED
    BY <2>1
<1> QED
  BY <1>5, <1>6 DEF WorkPlace, Waits

\* A request is in one mailbox at most, and its caller waits for it.
LEMMA PlacesNext ==
  ASSUME CacheConstants, IInv, Next
  PROVE  RedisPlace' /\ WorkPlace'
<1> USE DEF IInv
<1>a. Readers \subseteq Services /\ Writers \subseteq Services /\ NoValue \in Nat /\ 0 \in Nat
  BY DEF Services, NoValue
<1>b. redisQ # <<>> => Head(redisQ) = redisQ[1] /\ 1 \in InRedis
  BY RedisIs
<1>1. ASSUME NEW s \in Readers, Read(s) PROVE RedisPlace' /\ WorkPlace'
  <2>1. Moves(s, "GET") /\ pc[s] \in {"idle", "raised"} /\ workQ' = workQ
        /\ redisQ' = Append(redisQ, <<"GET", s, NoValue, 0>>)
    BY <1>1, <1>a DEF Read, To, Moves
  <2> QED
    BY <1>a, <2>1, RedisPut, WorkKept
<1>2. ASSUME NEW s \in Readers, Cache(s) PROVE RedisPlace' /\ WorkPlace'
  <2>1. Moves(s, "SET") /\ pc[s] = "row" /\ workQ' = workQ
        /\ redisQ' = Append(redisQ, <<"SET", s, row[s], since[s]>>)
    BY <1>2, <1>a DEF Cache, To, Moves
  <2>2. row[s] \in Nat /\ since[s] \in Nat
    BY <1>a DEF OtherTypes
  <2> QED
    BY <2>1, <2>2, RedisPut, WorkKept
<1>3. ASSUME NEW s \in Readers, RedisGet(s) PROVE RedisPlace' /\ WorkPlace'
  <2>1. redisQ # <<>> /\ redisQ' = Tail(redisQ) /\ redisQ[1][1] = "GET" /\ redisQ[1][2] = s
    BY <1>3, <1>b DEF RedisGet
  <2>2. pc[s] = "GET"
    BY <1>b, <2>1 DEF RedisPlace, Is
  <2>3. CASE Moves(s, "idle") /\ workQ' = workQ
    BY <2>1, <2>2, <2>3, RedisServed, WorkKept
  <2>4. CASE Moves(s, "sql") /\ Query(s, "select")
    <3>1. \E v \in Workers : workQ' = [workQ EXCEPT ![v] = Append(@, <<"select", s>>)]
      <4>1. \E v : workQ' = [workQ EXCEPT ![v] = Append(@, <<"select", s>>)] /\ v \in Workers
        BY <1>a, <2>4 DEF Query, TypeOK
      <4> QED
        BY <4>1
    <3> QED
      BY <2>1, <2>2, <2>4, <3>1, RedisServed, WorkPut
  <2> QED
    BY <1>3, <1>a, <2>3, <2>4 DEF RedisGet, To, Moves
<1>4. ASSUME NEW s \in Readers, RedisSet(s) PROVE RedisPlace' /\ WorkPlace'
  <2>1. redisQ # <<>> /\ redisQ' = Tail(redisQ) /\ redisQ[1][1] = "SET" /\ redisQ[1][2] = s
    BY <1>4, <1>b DEF RedisSet
  <2>2. pc[s] = "SET"
    BY <1>b, <2>1 DEF RedisPlace, Is
  <2>3. (Moves(s, "idle") \/ Moves(s, "raised")) /\ workQ' = workQ
    BY <1>4, <1>a DEF RedisSet, To, Moves
  <2> QED
    BY <2>1, <2>2, <2>3, RedisServed, WorkKept
<1>5. ASSUME NEW s \in Writers, Update(s) PROVE RedisPlace' /\ WorkPlace'
  <2>1. Moves(s, "sql") /\ pc[s] = "idle" /\ redisQ' = redisQ /\ Query(s, "update")
    BY <1>5, <1>a DEF Update, To, Moves
  <2>2. \E v : workQ' = [workQ EXCEPT ![v] = Append(@, <<"update", s>>)] /\ v \in Workers
    BY <1>a, <2>1 DEF Query, TypeOK
  <2> QED
    BY <2>1, <2>2, RedisKept, WorkPut
<1>6. ASSUME NEW s \in Writers, Clear(s) PROVE RedisPlace' /\ WorkPlace'
  <2>1. Moves(s, "idle") /\ pc[s] = "row" /\ workQ' = workQ
        /\ redisQ' = Append(redisQ, <<"DEL", s, row[s], 0>>)
    BY <1>6, <1>a DEF Clear, To, Moves
  <2>2. row[s] \in Nat
    BY <1>a DEF OtherTypes
  <2> QED
    BY <1>a, <2>1, <2>2, RedisPut, WorkKept
<1>7. ASSUME NEW w \in Workers, NEW s \in Services, Failed(w, s)
      PROVE  RedisPlace' /\ WorkPlace'
  <2>1. PICK k \in {"select", "update"} : Taken(w, k, s)
    BY <1>7 DEF Failed
  <2>2. pc[s] = "sql"
    BY <2>1, TakenIs
  <2>3. CASE Moves(s, "lost") /\ redisQ' = redisQ
    BY <2>1, <2>2, <2>3, RedisKept, WorkServed
  <2>4. CASE Moves(s, "idle") /\ redisQ' = redisQ
    BY <2>1, <2>2, <2>4, RedisKept, WorkServed
  <2>5. CASE Moves(s, "idle") /\ redisQ' = Append(redisQ, <<"DEL", s, NoValue, 0>>)
    BY <1>a, <2>1, <2>2, <2>5, RedisPut, WorkServed
  <2> QED
    BY <1>7, <2>3, <2>4, <2>5 DEF Failed, To, Moves
<1>8. ASSUME NEW w \in Workers, NEW s \in Readers, Selected(w, s)
      PROVE  RedisPlace' /\ WorkPlace'
  <2>1. Taken(w, "select", s) /\ Moves(s, "row") /\ redisQ' = redisQ
    BY <1>8, <1>a DEF Selected, To, Moves
  <2> QED
    BY <2>1, TakenIs, RedisKept, WorkServed
<1>9. ASSUME NEW w \in Workers, NEW s \in Writers, Updated(w, s)
      PROVE  RedisPlace' /\ WorkPlace'
  <2>1. Taken(w, "update", s) /\ Moves(s, "row") /\ redisQ' = redisQ
    BY <1>9, <1>a DEF Updated, To, Moves
  <2> QED
    BY <2>1, TakenIs, RedisKept, WorkServed
<1>10. CASE RedisClear
  <2>1. redisQ # <<>> /\ redisQ' = Tail(redisQ) /\ redisQ[1][1] = "DEL"
        /\ pc' = pc /\ workQ' = workQ
    BY <1>10, <1>b DEF RedisClear
  <2> QED
    BY <2>1, RedisServed DEF WorkPlace, Waits
<1>11. CASE Expire
  BY <1>11 DEF Expire, RedisPlace, WorkPlace, InRedis, Is, Waits
<1>12. ASSUME NEW s \in Writers, Orphan(s) PROVE RedisPlace' /\ WorkPlace'
  <2>1. Moves(s, "gone") /\ pc[s] = "lost" /\ redisQ' = redisQ /\ workQ' = workQ
    BY <1>12, <1>a DEF Orphan, To, Moves
  <2> QED
    BY <2>1, RedisKept, WorkKept
<1> QED
  BY <1>1, <1>2, <1>3, <1>4, <1>5, <1>6, <1>7, <1>8, <1>9, <1>10, <1>11, <1>12 DEF Next

-----------------------------------------------------------------------------
(* Values and clearrd's.                                                   *)

\* What is on its way to redis after a step: the old requests, and perhaps a new one.
LEMMA SetsAppended ==
  ASSUME OtherTypes, NEW m \in Requests, redisQ' = Append(redisQ, m)
  PROVE  \A i \in InRedis' : redisQ'[i][1] = "SET" =>
           redisQ'[i] = m \/ (i \in InRedis /\ redisQ'[i] = redisQ[i] /\ Is(i, "SET"))
<1>1. redisQ \in Seq(Requests)
  BY DEF OtherTypes, Requests
<1> QED
  BY <1>1, AppendIs DEF InRedis, Is

\* The same when the first request was taken: the rest, one place further on.
LEMMA SetsServed ==
  ASSUME OtherTypes, redisQ # <<>>, redisQ' = Tail(redisQ)
  PROVE  \A i \in InRedis' : redisQ'[i][1] = "SET" =>
           i + 1 \in InRedis /\ redisQ'[i] = redisQ[i + 1] /\ Is(i + 1, "SET")
  BY RedisIs DEF InRedis, Is

\* Nothing read or cached is newer than the row, and a reader's row is not older than
\* what had returned when it asked.
LEMMA InBetweenNext ==
  ASSUME CacheConstants, IInv, Next
  PROVE  InBetween'
<1> DEFINE Sets == \A i \in InRedis' : redisQ'[i][1] = "SET" =>
                     redisQ'[i][3] <= db /\ redisQ'[i][4] <= clears
<1> USE DEF IInv
<1>a. /\ Readers \subseteq Services /\ Writers \subseteq Services
      /\ \A s \in Readers : s \notin Writers
  BY DEF Services, CacheConstants
<1>b. \A s \in Readers : /\ got[s] \in Nat /\ floor[s] \in Nat /\ since[s] \in Nat
                        /\ row[s] \in Nat
  BY <1>a DEF OtherTypes
<1>c. \A s \in Writers : row[s] \in Nat
  BY <1>a DEF OtherTypes
<1>d. db \in Nat /\ returned \in Nat /\ clears \in Nat /\ NoValue \in Nat /\ 0 \in Nat
  BY DEF TypeOK, OtherTypes, NoValue
<1>e. redisQ # <<>> => Head(redisQ) = redisQ[1] /\ 1 \in InRedis /\ redisQ[1] \in Requests
  BY RedisIs
<1>f. redisQ' = redisQ => Sets
  BY DEF InBetween, InRedis, Is
<1>g. redisQ # <<>> /\ redisQ' = Tail(redisQ) => Sets
  BY SetsServed DEF InBetween
<1>h. ASSUME NEW m \in Requests, redisQ' = Append(redisQ, m),
             m[1] = "SET" => m[3] <= db /\ m[4] <= clears
      PROVE  Sets
  BY <1>h, SetsAppended DEF InBetween
<1>i. \A k \in {"GET", "SET", "DEL"}, s \in Services, v \in Nat, n \in Nat :
        <<k, s, v, n>> \in Requests
  BY DEF Requests
<1> DEFINE Rest ==
      /\ returned' <= db'
      /\ \A s \in Writers : pc'[s] = "row" => row'[s] <= db'
      /\ \A s \in Readers :
           /\ since'[s] <= clears' /\ floor'[s] <= returned'
           /\ pc'[s] \in {"row", "SET"} => row'[s] \in floor'[s]..db'
           /\ pc'[s] # "idle" => got'[s] = NoValue
<1>j. ASSUME Sets, Rest, db' \in Nat, clears' \in Nat, db <= db', clears <= clears'
      PROVE  InBetween'
  <2>1. TypeOK' /\ OtherTypes'
    BY TypesNext
  <2>2. ASSUME NEW i \in InRedis', redisQ'[i][1] = "SET"
        PROVE  redisQ'[i][3] <= db' /\ redisQ'[i][4] <= clears'
    <3>1. redisQ'[i] \in Requests
      BY <2>1 DEF OtherTypes, Requests, InRedis
    <3> QED
      BY <1>d, <1>j, <2>2, <3>1 DEF Requests
  <2> QED
    BY <1>j, <2>2 DEF InBetween, Is
<1> HIDE DEF Sets
<1>1. ASSUME NEW s \in Readers, Read(s) PROVE InBetween'
  <2>1. Sets
    <3>1. redisQ' = Append(redisQ, <<"GET", s, NoValue, 0>>)
      BY <1>1 DEF Read
    <3> QED
      BY <1>a, <1>d, <1>h, <1>i, <3>1
  <2>2. Rest
    BY <1>1, <1>a, <1>b, <1>d DEF Read, To, OtherTypes, InBetween
  <2> QED
    BY <1>1, <1>d, <1>j, <2>1, <2>2 DEF Read
<1>2. ASSUME NEW s \in Readers, Cache(s) PROVE InBetween'
  <2>1. Sets
    <3>1. redisQ' = Append(redisQ, <<"SET", s, row[s], since[s]>>)
      BY <1>2 DEF Cache
    <3>2. row[s] <= db /\ since[s] <= clears
      BY <1>2, <1>b, <1>d DEF Cache, InBetween
    <3> QED
      BY <1>a, <1>b, <1>h, <1>i, <3>1, <3>2
  <2>2. Rest
    BY <1>2, <1>a, <1>b, <1>d DEF Cache, To, OtherTypes, InBetween
  <2> QED
    BY <1>2, <1>d, <1>j, <2>1, <2>2 DEF Cache
<1>3. ASSUME NEW s \in Readers, RedisGet(s) PROVE InBetween'
  <2>1. Sets
    BY <1>3, <1>g DEF RedisGet
  <2>2. pc[s] = "GET"
    BY <1>3, <1>e DEF RedisGet, RedisPlace, Is
  <2>3. Rest
    <3>1. CASE To(s, "idle") /\ got' = [got EXCEPT ![s] = cache.v]
      BY <1>3, <1>a, <1>b, <1>d, <3>1 DEF RedisGet, To, OtherTypes, InBetween
    <3>2. CASE To(s, "sql") /\ got' = got
      BY <1>3, <1>a, <1>b, <1>d, <2>2, <3>2 DEF RedisGet, To, OtherTypes, InBetween
    <3> QED
      BY <1>3, <3>1, <3>2 DEF RedisGet
  <2> QED
    BY <1>3, <1>d, <1>j, <2>1, <2>3 DEF RedisGet
<1>4. ASSUME NEW s \in Readers, RedisSet(s) PROVE InBetween'
  <2>1. Sets
    BY <1>4, <1>g DEF RedisSet
  <2>2. pc[s] = "SET"
    BY <1>4, <1>e DEF RedisSet, RedisPlace, Is
  <2>3. Rest
    <3>1. CASE To(s, "idle") /\ got' = [got EXCEPT ![s] = row[s]]
      BY <1>4, <1>a, <1>b, <1>d, <3>1 DEF RedisSet, To, OtherTypes, InBetween
    <3>2. CASE To(s, "raised") /\ got' = got
      BY <1>4, <1>a, <1>b, <1>d, <2>2, <3>2 DEF RedisSet, To, OtherTypes, InBetween
    <3> QED
      BY <1>4, <3>1, <3>2 DEF RedisSet
  <2> QED
    BY <1>4, <1>d, <1>j, <2>1, <2>3 DEF RedisSet
<1>5. ASSUME NEW s \in Writers, Update(s) PROVE InBetween'
  <2>1. Rest
    BY <1>5, <1>a, <1>b, <1>d DEF Update, To, OtherTypes, InBetween
  <2> QED
    BY <1>5, <1>d, <1>f, <1>j, <2>1 DEF Update
<1>6. ASSUME NEW s \in Writers, Clear(s) PROVE InBetween'
  <2>1. Sets
    <3>1. redisQ' = Append(redisQ, <<"DEL", s, row[s], 0>>)
      BY <1>6 DEF Clear
    <3> QED
      BY <1>a, <1>c, <1>d, <1>h, <1>i, <3>1
  <2>2. returned <= returned' /\ returned' <= db /\ returned' \in Nat
    BY <1>6, <1>c, <1>d DEF Clear, InBetween
  <2>3. Rest
    BY <1>6, <1>a, <1>b, <1>d, <2>2 DEF Clear, To, OtherTypes, InBetween
  <2> QED
    BY <1>6, <1>d, <1>j, <2>1, <2>3 DEF Clear
<1>7. ASSUME NEW w \in Workers, NEW s \in Services, Failed(w, s) PROVE InBetween'
  <2>1. PICK k \in {"select", "update"} : Taken(w, k, s)
    BY <1>7 DEF Failed
  <2>2. pc[s] = "sql"
    BY <2>1, TakenIs
  <2>3. Sets
    <3>1. redisQ' = redisQ \/ redisQ' = Append(redisQ, <<"DEL", s, NoValue, 0>>)
      BY <1>7 DEF Failed
    <3> QED
      BY <1>d, <1>f, <1>h, <1>i, <3>1
  <2>4. Rest
    <3>1. \E p \in {"lost", "idle"} : To(s, p)
      BY <1>7 DEF Failed
    <3> QED
      BY <1>7, <1>a, <1>b, <1>d, <2>2, <3>1 DEF Failed, To, OtherTypes, InBetween
  <2> QED
    BY <1>7, <1>d, <1>j, <2>3, <2>4 DEF Failed
<1>8. ASSUME NEW w \in Workers, NEW s \in Readers, Selected(w, s) PROVE InBetween'
  <2>1. pc[s] = "sql"
    BY <1>8, TakenIs DEF Selected
  <2>2. Rest
    BY <1>8, <1>a, <1>b, <1>d, <2>1 DEF Selected, To, OtherTypes, InBetween
  <2> QED
    BY <1>8, <1>d, <1>f, <1>j, <2>2 DEF Selected
<1>9. ASSUME NEW w \in Workers, NEW s \in Writers, Updated(w, s) PROVE InBetween'
  <2>1. Rest
    BY <1>9, <1>a, <1>b, <1>c, <1>d DEF Updated, To, OtherTypes, InBetween
  <2> QED
    BY <1>9, <1>d, <1>f, <1>j, <2>1 DEF Updated
<1>10. CASE RedisClear
  <2>1. Rest
    BY <1>10, <1>a, <1>b, <1>d DEF RedisClear, OtherTypes, InBetween
  <2> QED
    BY <1>10, <1>d, <1>g, <1>j, <2>1 DEF RedisClear
<1>11. CASE Expire
  <2>1. Rest
    BY <1>11 DEF Expire, InBetween
  <2> QED
    BY <1>11, <1>d, <1>f, <1>j, <2>1 DEF Expire
<1>12. ASSUME NEW s \in Writers, Orphan(s) PROVE InBetween'
  <2>1. Rest
    BY <1>12, <1>a, <1>b, <1>c, <1>d DEF Orphan, To, OtherTypes, InBetween
  <2> QED
    BY <1>12, <1>d, <1>f, <1>j, <2>1 DEF Orphan
<1> QED
  BY <1>1, <1>2, <1>3, <1>4, <1>5, <1>6, <1>7, <1>8, <1>9, <1>10, <1>11, <1>12 DEF Next

\* Owed, of any mailbox q, floors f, newest returned value r, row d, the values C whose
\* clearrd will be sent and the values U that have none.
Before(k, i, q, U) == k \in U \/ \E j \in 1..Len(q) : j < i /\ q[j][1] = "DEL" /\ q[j][3] = k
Due(v, i, q, f, r, d, C, U) ==
  /\ \A k \in (v + 1)..d : k \in C \/ Before(k, Len(q) + 1, q, U)
  /\ v < r => Before(r, Len(q) + 1, q, U)
  /\ \A j \in 1..Len(q) : i < j /\ q[j][1] = "GET" /\ v < f[q[j][2]]
                           => Before(f[q[j][2]], j, q, U)

\* While a request is appended, what is owed to a value stays owed, if a GET comes after
\* the clearrd of what has returned, and a clearrd is that of a value that will be cleared.
LEMMA DueAppend ==
  ASSUME NEW q \in Seq(Requests), NEW m \in Requests, NEW v \in Nat, NEW i \in Nat,
         NEW f, NEW g, NEW r \in Nat, NEW t, NEW d, NEW C, NEW D, NEW U,
         Due(v, i, q, f, r, d, C, U),
         \A j \in 1..Len(q) : q[j][1] = "GET" => g[q[j][2]] = f[q[j][2]],
         m[1] = "GET" => g[m[2]] = r,
         \A k \in C : k \in D \/ (m[1] = "DEL" /\ m[3] = k),
         t = r \/ (m[1] = "DEL" /\ m[3] = t)
  PROVE  Due(v, i, Append(q, m), g, t, d, D, U)
<1> DEFINE p == Append(q, m)
<1>1. /\ Len(q) \in Nat /\ Len(p) = Len(q) + 1 /\ p[Len(q) + 1] = m
      /\ \A j \in 1..Len(q) : p[j] = q[j]
  BY AppendIs
<1> HIDE DEF p
<1>2. ASSUME NEW n \in 1..(Len(q) + 1), NEW k, Before(k, n, q, U) PROVE Before(k, n, p, U)
  BY <1>1, <1>2 DEF Before
<1>3. ASSUME NEW k, Before(k, Len(q) + 1, q, U) \/ (m[1] = "DEL" /\ m[3] = k)
      PROVE  Before(k, Len(p) + 1, p, U)
  <2>1. CASE m[1] = "DEL" /\ m[3] = k
    BY <1>1, <2>1 DEF Before
  <2>2. CASE Before(k, Len(q) + 1, q, U)
    BY <1>1, <2>2 DEF Before
  <2> QED
    BY <1>3, <2>1, <2>2
<1>4. ASSUME NEW k \in (v + 1)..d PROVE k \in D \/ Before(k, Len(p) + 1, p, U)
  BY <1>3, <1>4 DEF Due
<1>5. v < t => Before(t, Len(p) + 1, p, U)
  BY <1>3 DEF Due
<1>6. ASSUME NEW j \in 1..Len(p), i < j, p[j][1] = "GET", v < g[p[j][2]]
      PROVE  Before(g[p[j][2]], j, p, U)
  <2>1. CASE j \in 1..Len(q)
    <3>1. i < j /\ q[j][1] = "GET" /\ v < f[q[j][2]] /\ g[p[j][2]] = f[q[j][2]]
      BY <1>1, <1>6, <2>1
    <3>2. Before(f[q[j][2]], j, q, U)
      BY <2>1, <3>1 DEF Due
    <3> QED
      BY <1>1, <1>2, <2>1, <3>1, <3>2
  <2>2. CASE j = Len(q) + 1
    <3>1. v < r /\ g[p[j][2]] = r
      BY <1>1, <1>6, <2>2
    <3>2. Before(r, Len(q) + 1, q, U)
      BY <3>1 DEF Due
    <3> QED
      BY <1>1, <1>2, <2>2, <3>1, <3>2
  <2> QED
    BY <1>1, <2>1, <2>2
<1> QED
  BY <1>4, <1>5, <1>6 DEF Due, p

\* When the first request is served, the others move up; it is no clearrd, or one that was
\* not carried out.
LEMMA DueServed ==
  ASSUME NEW q \in Seq(Requests), q # <<>>, NEW v, NEW i \in Nat,
         NEW k \in Nat, i = k + 1 \/ (i = 0 /\ k = 0),
         NEW f, NEW r, NEW d, NEW C, NEW U, NEW V, U \subseteq V,
         q[1][1] = "DEL" => q[1][3] \in V, Due(v, i, q, f, r, d, C, U)
  PROVE  Due(v, k, Tail(q), f, r, d, C, V)
<1> DEFINE p == Tail(q)
<1>1. /\ Len(q) \in Nat \ {0} /\ Len(p) = Len(q) - 1
      /\ \A j \in 1..Len(p) : p[j] = q[j + 1] /\ j + 1 \in 1..Len(q)
  BY TailIs
<1> HIDE DEF p
<1>2. ASSUME NEW j \in 1..(Len(q) + 1), NEW x, Before(x, j, q, U)
      PROVE  Before(x, j - 1, p, V)
  <2>1. CASE x \in U
    BY <2>1 DEF Before
  <2>2. CASE x \notin U
    <3>1. PICK n \in 1..Len(q) : n < j /\ q[n][1] = "DEL" /\ q[n][3] = x
      BY <1>2, <2>2 DEF Before
    <3>2. CASE n = 1
      BY <3>1, <3>2 DEF Before
    <3>3. CASE n # 1
      <4>1. n - 1 \in 1..Len(p) /\ n - 1 < j - 1
        BY <1>1, <3>1, <3>3
      <4>2. p[n - 1] = q[n]
        BY <1>1, <3>1, <4>1
      <4> QED
        BY <3>1, <4>1, <4>2 DEF Before
    <3> QED
      BY <3>2, <3>3
  <2> QED
    BY <2>1, <2>2
<1>3. ASSUME NEW x, Before(x, Len(q) + 1, q, U) PROVE Before(x, Len(p) + 1, p, V)
  <2>1. Before(x, Len(q) + 1 - 1, p, V)
    BY <1>1, <1>2, <1>3
  <2> QED
    BY <1>1, <2>1
<1>4. ASSUME NEW j \in 1..Len(p), k < j, p[j][1] = "GET", v < f[p[j][2]]
      PROVE  Before(f[p[j][2]], j, p, V)
  <2>1. /\ j + 1 \in 1..Len(q) /\ i < j + 1 /\ p[j] = q[j + 1]
        /\ q[j + 1][1] = "GET" /\ v < f[q[j + 1][2]]
    BY <1>1, <1>4
  <2>2. Before(f[q[j + 1][2]], j + 1, q, U)
    BY <2>1 DEF Due
  <2>3. j + 1 \in 1..(Len(q) + 1) /\ j + 1 - 1 = j
    BY <1>1, <2>1
  <2>4. Before(f[q[j + 1][2]], j + 1 - 1, p, V)
    BY <1>2, <2>2, <2>3
  <2> QED
    BY <2>1, <2>3, <2>4
<1> QED
  BY <1>3, <1>4 DEF Due, p

\* ClearsOwed in these terms: the entry e, the requests to store a value, and the readers
\* that have read and not yet sent one.
Pending == {s \in Readers : pc[s] = "row" /\ since[s] = clears}
Owing(e, q, f, r, d, C, U, n, P, x) ==
  /\ e # Empty /\ ~e.raced => Due(e.v, 0, q, f, r, d, C, U)
  /\ \A i \in 1..Len(q) : q[i][1] = "SET" /\ q[i][4] = n => Due(q[i][3], i, q, f, r, d, C, U)
  /\ \A s \in P : Due(x[s], Len(q), q, f, r, d, C, U)

\* It is ClearsOwed, before a step and after it.
LEMMA OwingIs ==
  /\ ClearsOwed <=> Owing(cache, redisQ, floor, returned, db, ToClear, uncleared, clears, Pending, row)
  /\ ClearsOwed' <=> Owing(cache', redisQ', floor', returned', db', ToClear', uncleared', clears',
                           Pending', row')
<1>1. ClearsOwed <=> Owing(cache, redisQ, floor, returned, db, ToClear, uncleared, clears, Pending, row)
  BY DEF ClearsOwed, Owing, Owed, Due, Clears, Before, InRedis, Is, Pending
<1>2. ClearsOwed' <=> Owing(cache', redisQ', floor', returned', db', ToClear', uncleared', clears',
                           Pending', row')
  BY DEF ClearsOwed, Owing, Owed, Due, Clears, Before, InRedis, Is, Pending
<1> QED
  BY <1>1, <1>2

\* What is owed to an entry, a request or a reader stays owed.
LEMMA ClearsOwedNext ==
  ASSUME CacheConstants, IInv, Next
  PROVE  ClearsOwed'
<1> USE DEF IInv
<1>a. /\ Readers \subseteq Services /\ Writers \subseteq Services
      /\ \A s \in Readers : s \notin Writers
  BY DEF Services, CacheConstants
<1>b. \A s \in Readers : floor[s] \in Nat /\ since[s] \in Nat /\ row[s] \in Nat
  BY <1>a DEF OtherTypes
<1>c. /\ db \in Nat /\ returned \in Nat /\ clears \in Nat /\ returned <= db
      /\ NoValue \in Nat /\ 0 \in Nat /\ cache.v \in Nat
  BY DEF TypeOK, OtherTypes, NoValue, InBetween
<1>d. redisQ \in Seq(Requests) /\ Len(redisQ) \in Nat
  BY DEF OtherTypes, Requests
<1>e. redisQ # <<>> => Head(redisQ) = redisQ[1] /\ 1 \in InRedis /\ redisQ[1] \in Requests
  BY RedisIs
<1>f. \A k \in {"GET", "SET", "DEL"}, s \in Services, v \in Nat, n \in Nat :
        <<k, s, v, n>> \in Requests
  BY DEF Requests
<1>g. \A i \in 1..Len(redisQ) : redisQ[i][3] \in Nat /\ redisQ[i][4] \in Nat
  BY <1>d DEF Requests
<1>o. Owing(cache, redisQ, floor, returned, db, ToClear, uncleared, clears, Pending, row)
  BY OwingIs
<1> DEFINE Goal == Owing(cache', redisQ', floor', returned', db', ToClear', uncleared', clears',
                         Pending', row')
\* Nothing changes but that less is pending, or more is to be cleared or never will be.
<1>p. ASSUME cache' = Empty \/ cache' = cache, redisQ' = redisQ, floor' = floor,
             returned' = returned, ToClear \subseteq ToClear', uncleared \subseteq uncleared',
             db' = db \/ (db' = db + 1 /\ db + 1 \in ToClear' \cup uncleared'),
             clears' = clears,
             \A s \in Pending' : row'[s] = db \/ (s \in Pending /\ row'[s] = row[s])
      PROVE  Goal
  <2>1. ASSUME NEW v \in Nat, NEW i, Due(v, i, redisQ, floor, returned, db, ToClear, uncleared)
        PROVE  Due(v, i, redisQ', floor', returned', db', ToClear', uncleared')
    <3>1. ASSUME NEW k, NEW j, Before(k, j, redisQ, uncleared)
          PROVE  Before(k, j, redisQ', uncleared')
      BY <1>p, <3>1 DEF Before
    <3>2. ASSUME NEW k \in (v + 1)..db'
          PROVE  k \in ToClear' \/ Before(k, Len(redisQ') + 1, redisQ', uncleared')
      <4>1. CASE k = db + 1 /\ db' = db + 1
        BY <1>p, <4>1 DEF Before
      <4>2. CASE k \in (v + 1)..db
        <5>1. k \in ToClear \/ Before(k, Len(redisQ) + 1, redisQ, uncleared)
          BY <2>1, <4>2 DEF Due
        <5> QED
          BY <1>p, <3>1, <5>1
      <4> QED
        BY <1>c, <1>p, <3>2, <4>1, <4>2
    <3> QED
      BY <1>p, <2>1, <3>1, <3>2 DEF Due
  <2>2. Due(db, Len(redisQ), redisQ, floor, returned, db, ToClear, uncleared)
    <3>1. \A j \in 1..Len(redisQ) : redisQ[j][1] = "GET" => ~(db < floor[redisQ[j][2]])
      BY <1>b, <1>c DEF InBetween, RedisPlace, InRedis, Is
    <3> QED
      BY <1>c, <1>d, <3>1 DEF Due
  <2> QED
    BY <1>b, <1>c, <1>d, <1>g, <1>o, <1>p, <2>1, <2>2 DEF Owing, Pending
\* A request is appended.
<1>q. ASSUME NEW m \in Requests, redisQ' = Append(redisQ, m), cache' = cache, clears' = clears,
             row' = row, Pending' \subseteq Pending,
             \A v \in Nat, i \in Nat : Due(v, i, redisQ, floor, returned, db, ToClear, uncleared)
                => Due(v, i, redisQ', floor', returned', db', ToClear', uncleared'),
             m[1] = "SET" /\ m[4] = clears =>
               Due(m[3], Len(redisQ), redisQ, floor, returned, db, ToClear, uncleared)
      PROVE  Goal
  <2>1. /\ Len(redisQ') = Len(redisQ) + 1 /\ redisQ'[Len(redisQ) + 1] = m
        /\ \A j \in 1..Len(redisQ) : redisQ'[j] = redisQ[j]
    BY <1>d, <1>q, AppendIs
  <2>2. ASSUME NEW v \in Nat, Due(v, Len(redisQ), redisQ, floor, returned, db, ToClear, uncleared)
        PROVE  Due(v, Len(redisQ'), redisQ', floor', returned', db', ToClear', uncleared')
    <3>1. Due(v, Len(redisQ), redisQ', floor', returned', db', ToClear', uncleared')
      BY <1>d, <1>q, <2>2
    <3> QED
      BY <1>d, <2>1, <3>1 DEF Due
  <2>3. ASSUME NEW i \in 1..Len(redisQ'), redisQ'[i][1] = "SET", redisQ'[i][4] = clears
        PROVE  Due(redisQ'[i][3], i, redisQ', floor', returned', db', ToClear', uncleared')
    <3>1. CASE i \in 1..Len(redisQ)
      BY <1>g, <1>o, <1>q, <2>1, <2>3, <3>1 DEF Owing
    <3>2. CASE i = Len(redisQ) + 1
      <4>1. m[3] \in Nat
        BY DEF Requests
      <4> QED
        BY <1>q, <2>1, <2>2, <2>3, <3>2, <4>1
    <3> QED
      BY <1>d, <2>1, <3>1, <3>2
  <2>4. ASSUME NEW s \in Pending'
        PROVE  Due(row'[s], Len(redisQ'), redisQ', floor', returned', db', ToClear', uncleared')
    <3>1. s \in Pending /\ row'[s] = row[s] /\ row[s] \in Nat
      BY <1>b, <1>q DEF Pending
    <3> QED
      BY <1>o, <2>2, <3>1 DEF Owing
  <2> QED
    BY <1>c, <1>o, <1>q, <2>3, <2>4 DEF Owing
\* A request is served.
<1>r. ASSUME redisQ # <<>>, redisQ' = Tail(redisQ), floor' = floor,
             redisQ[1][1] = "DEL" => redisQ[1][3] \in uncleared', uncleared \subseteq uncleared',
             returned' = returned, db' = db, ToClear' = ToClear, clears' = clears, row' = row,
             Pending' \subseteq Pending,
             \/ cache' = cache
             \/ /\ redisQ[1][1] = "SET" /\ cache'.v = redisQ[1][3]
                /\ ~cache'.raced => redisQ[1][4] = clears
      PROVE  Goal
  <2>1. /\ Len(redisQ) \in Nat \ {0} /\ Len(redisQ') = Len(redisQ) - 1
        /\ \A j \in 1..Len(redisQ') : redisQ'[j] = redisQ[j + 1] /\ j + 1 \in 1..Len(redisQ)
    BY <1>d, <1>r, TailIs
  <2>2. ASSUME NEW v, NEW i \in Nat, NEW k \in Nat, i = k + 1 \/ (i = 0 /\ k = 0),
               Due(v, i, redisQ, floor, returned, db, ToClear, uncleared)
        PROVE  Due(v, k, redisQ', floor', returned', db', ToClear', uncleared')
    <3>1. Due(v, k, redisQ', floor, returned, db, ToClear, uncleared')
      BY <1>d, <1>r, <2>2, DueServed
    <3> QED
      BY <1>r, <3>1
  <2>3. cache' # Empty /\ ~cache'.raced
        => Due(cache'.v, 0, redisQ', floor', returned', db', ToClear', uncleared')
    <3>1. CASE cache' = cache
      BY <1>c, <1>o, <2>2, <3>1 DEF Owing
    <3>2. CASE redisQ[1][1] = "SET" /\ cache'.v = redisQ[1][3] /\ redisQ[1][4] = clears
      <4>1. Due(redisQ[1][3], 1, redisQ, floor, returned, db, ToClear, uncleared)
        BY <1>o, <2>1, <3>2 DEF Owing
      <4>2. Due(redisQ[1][3], 0, redisQ', floor', returned', db', ToClear', uncleared')
        BY <2>2, <4>1
      <4> QED
        BY <3>2, <4>2
    <3> QED
      BY <1>r, <3>1, <3>2
  <2>4. ASSUME NEW i \in 1..Len(redisQ'), redisQ'[i][1] = "SET", redisQ'[i][4] = clears
        PROVE  Due(redisQ'[i][3], i, redisQ', floor', returned', db', ToClear', uncleared')
    <3>1. /\ redisQ'[i] = redisQ[i + 1] /\ i + 1 \in 1..Len(redisQ)
          /\ i \in Nat /\ i + 1 \in Nat
      BY <2>1
    <3>2. Due(redisQ[i + 1][3], i + 1, redisQ, floor, returned, db, ToClear, uncleared)
      BY <1>o, <2>4, <3>1 DEF Owing
    <3>3. Due(redisQ[i + 1][3], i, redisQ', floor', returned', db', ToClear', uncleared')
      BY <2>2, <3>1, <3>2
    <3> QED
      BY <3>1, <3>3
  <2>5. ASSUME NEW s \in Pending'
        PROVE  Due(row'[s], Len(redisQ'), redisQ', floor', returned', db', ToClear', uncleared')
    <3>1. Due(row[s], Len(redisQ), redisQ, floor, returned, db, ToClear, uncleared)
      BY <1>o, <1>r, <2>5 DEF Owing
    <3>2. Len(redisQ') \in Nat /\ Len(redisQ) = Len(redisQ') + 1
      BY <2>1
    <3>3. Due(row[s], Len(redisQ'), redisQ', floor', returned', db', ToClear', uncleared')
      BY <2>1, <2>2, <3>1, <3>2
    <3> QED
      BY <1>r, <3>3
  <2> QED
    BY <1>r, <2>3, <2>4, <2>5 DEF Owing
<1> HIDE DEF Goal
<1>s. ASSUME NEW s \in Services, NEW p, To(s, p)
      PROVE  /\ \A t \in Readers : t \in Pending' /\ since' = since /\ clears' = clears
                                   /\ p # "row" => t \in Pending
             /\ row' = row /\ s \in Readers => ToClear' = ToClear
             /\ row' = row /\ pc[s] # "row" /\ p # "row" => ToClear' = ToClear
  <2>1. pc' = [pc EXCEPT ![s] = p] /\ pc'[s] = p /\ \A t \in Services : t # s => pc'[t] = pc[t]
    BY <1>s DEF To, OtherTypes
  <2>2. \A t \in Readers : t \in Pending' /\ since' = since /\ clears' = clears
                                   /\ p # "row" => t \in Pending
    BY <1>a, <2>1 DEF Pending
  <2>3. row' = row /\ s \in Readers => ToClear' = ToClear
    BY <1>a, <2>1 DEF ToClear
  <2>4. row' = row /\ pc[s] # "row" /\ p # "row" => ToClear' = ToClear
    BY <1>a, <2>1 DEF ToClear
  <2> QED
    BY <2>2, <2>3, <2>4
<1>1. ASSUME NEW s \in Readers, Read(s) PROVE Goal
  <2> DEFINE m == <<"GET", s, NoValue, 0>>
  <2>1. m \in Requests /\ redisQ' = Append(redisQ, m) /\ m[1] = "GET" /\ m[2] = s
    BY <1>1, <1>a, <1>c, <1>f DEF Read
  <2>2. floor' = [floor EXCEPT ![s] = returned] /\ floor'[s] = returned
    BY <1>1 DEF Read, OtherTypes
  <2>3. \A j \in 1..Len(redisQ) :
          redisQ[j][1] = "GET" => floor'[redisQ[j][2]] = floor[redisQ[j][2]]
    <3>1. ASSUME NEW j \in 1..Len(redisQ), redisQ[j][1] = "GET"
          PROVE  redisQ[j][2] \in Readers /\ redisQ[j][2] # s
      BY <1>1, <3>1 DEF RedisPlace, InRedis, Is, Read
    <3> QED
      BY <2>2, <3>1 DEF OtherTypes
  <2>4. ToClear' = ToClear
    BY <1>1, <1>a, <1>s DEF Read
  <2>5. Pending' \subseteq Pending
    BY <1>1, <1>a, <1>s DEF Read, Pending
  <2>6. ASSUME NEW v \in Nat, NEW i \in Nat,
               Due(v, i, redisQ, floor, returned, db, ToClear, uncleared)
        PROVE  Due(v, i, redisQ', floor', returned', db', ToClear', uncleared')
    <3> HIDE DEF m
    <3>1. Due(v, i, Append(redisQ, m), floor', returned, db, ToClear, uncleared)
      BY <1>c, <1>d, <2>1, <2>2, <2>3, <2>6, DueAppend
    <3> QED
      BY <1>1, <2>1, <2>4, <3>1 DEF Read
  <2> HIDE DEF m
  <2> QED
    BY <1>1, <1>q, <2>1, <2>5, <2>6 DEF Read
<1>2. ASSUME NEW s \in Readers, Cache(s) PROVE Goal
  <2> DEFINE m == <<"SET", s, row[s], since[s]>>
  <2>1. /\ m \in Requests /\ redisQ' = Append(redisQ, m)
        /\ m[1] = "SET" /\ m[3] = row[s] /\ m[4] = since[s]
    BY <1>2, <1>a, <1>b, <1>f DEF Cache
  <2>2. ToClear' = ToClear
    BY <1>2, <1>a, <1>s DEF Cache
  <2>3. Pending' \subseteq Pending
    BY <1>2, <1>a, <1>s DEF Cache, Pending
  <2>4. m[1] = "SET" /\ m[4] = clears
        => Due(m[3], Len(redisQ), redisQ, floor, returned, db, ToClear, uncleared)
    <3>1. since[s] = clears => s \in Pending
      BY <1>2 DEF Cache, Pending
    <3> QED
      BY <1>o, <2>1, <3>1 DEF Owing
  <2>5. ASSUME NEW v \in Nat, NEW i \in Nat,
               Due(v, i, redisQ, floor, returned, db, ToClear, uncleared)
        PROVE  Due(v, i, redisQ', floor', returned', db', ToClear', uncleared')
    <3> HIDE DEF m
    <3>1. Due(v, i, Append(redisQ, m), floor, returned, db, ToClear, uncleared)
      BY <1>c, <1>d, <2>1, <2>5, DueAppend
    <3> QED
      BY <1>2, <2>1, <2>2, <3>1 DEF Cache
  <2> HIDE DEF m
  <2> QED
    BY <1>2, <1>q, <2>1, <2>3, <2>4, <2>5 DEF Cache
<1>3. ASSUME NEW s \in Readers, RedisGet(s) PROVE Goal
  <2>1. \E p \in {"idle", "sql"} : To(s, p)
    BY <1>3 DEF RedisGet
  <2>2. ToClear' = ToClear
    BY <1>3, <1>a, <1>s, <2>1 DEF RedisGet
  <2>3. Pending' \subseteq Pending
    BY <1>3, <1>a, <1>s, <2>1 DEF RedisGet, Pending
  <2> QED
    BY <1>3, <1>e, <1>r, <2>2, <2>3 DEF RedisGet
<1>4. ASSUME NEW s \in Readers, RedisSet(s) PROVE Goal
  <2>1. \E p \in {"idle", "raised"} : To(s, p)
    BY <1>4 DEF RedisSet
  <2>2. ToClear' = ToClear
    BY <1>4, <1>a, <1>s, <2>1 DEF RedisSet
  <2>3. Pending' \subseteq Pending
    BY <1>4, <1>a, <1>s, <2>1 DEF RedisSet, Pending
  <2>4. \/ cache' = cache
        \/ cache'.v = redisQ[1][3] /\ (~cache'.raced => redisQ[1][4] = clears)
    <3>1. redisQ[1][4] <= clears /\ redisQ[1][4] \in Nat
      BY <1>4, <1>e, <1>g DEF RedisSet, InBetween, Is, InRedis
    <3>2. \/ cache' = cache
          \/ cache' = [v |-> redisQ[1][3], raced |-> clears > redisQ[1][4]]
      BY <1>4, <1>e DEF RedisSet
    <3>3. ~(clears > redisQ[1][4]) => redisQ[1][4] = clears
      BY <1>c, <3>1
    <3>4. ASSUME cache' = [v |-> redisQ[1][3], raced |-> clears > redisQ[1][4]]
          PROVE  cache'.v = redisQ[1][3] /\ (cache'.raced <=> clears > redisQ[1][4])
      BY <3>4, Zenon
    <3> QED
      BY <3>2, <3>3, <3>4, Zenon
  <2> QED
    BY <1>4, <1>e, <1>r, <2>2, <2>3, <2>4 DEF RedisSet
<1>5. ASSUME NEW s \in Writers, Update(s) PROVE Goal
  <2>1. ToClear' = ToClear /\ Pending' \subseteq Pending
    BY <1>5, <1>a, <1>s DEF Update, Pending
  <2> QED
    BY <1>5, <1>p, <2>1 DEF Update
<1>6. ASSUME NEW s \in Writers, Clear(s) PROVE Goal
  <2> DEFINE m == <<"DEL", s, row[s], 0>>
  <2>1. /\ m \in Requests /\ redisQ' = Append(redisQ, m) /\ m[1] = "DEL" /\ m[3] = row[s]
        /\ row[s] \in Nat
    BY <1>6, <1>a, <1>c, <1>f DEF Clear, OtherTypes
  <2>2. Pending' \subseteq Pending
    BY <1>6, <1>a, <1>s DEF Clear, Pending
  <2>3. \A k \in ToClear : k \in ToClear' \/ k = row[s]
    BY <1>6, <1>a DEF Clear, To, OtherTypes, ToClear
  <2>4. returned' = returned \/ returned' = row[s]
    BY <1>6 DEF Clear
  <2>5. ASSUME NEW v \in Nat, NEW i \in Nat,
               Due(v, i, redisQ, floor, returned, db, ToClear, uncleared)
        PROVE  Due(v, i, redisQ', floor', returned', db', ToClear', uncleared')
    <3> HIDE DEF m
    <3>1. Due(v, i, Append(redisQ, m), floor, returned', db, ToClear', uncleared)
      BY <1>c, <1>d, <2>1, <2>3, <2>4, <2>5, DueAppend
    <3> QED
      BY <1>6, <2>1, <3>1 DEF Clear
  <2> HIDE DEF m
  <2> QED
    BY <1>6, <1>q, <2>1, <2>2, <2>5 DEF Clear
<1>7. ASSUME NEW w \in Workers, NEW s \in Services, Failed(w, s) PROVE Goal
  <2>1. pc[s] = "sql"
    BY <1>7, TakenIs DEF Failed
  <2>2. \E p \in {"idle", "lost"} : To(s, p)
    BY <1>7 DEF Failed
  <2>3. ToClear' = ToClear /\ Pending' \subseteq Pending
    BY <1>7, <1>s, <2>1, <2>2 DEF Failed, Pending
  <2>4. CASE redisQ' = redisQ
    BY <1>7, <1>p, <2>3, <2>4 DEF Failed
  <2>5. CASE redisQ' = Append(redisQ, <<"DEL", s, NoValue, 0>>)
    <3> DEFINE m == <<"DEL", s, NoValue, 0>>
    <3>1. m \in Requests /\ redisQ' = Append(redisQ, m) /\ m[1] = "DEL"
      BY <1>c, <1>f, <2>5
    <3>2. ASSUME NEW v \in Nat, NEW i \in Nat,
                 Due(v, i, redisQ, floor, returned, db, ToClear, uncleared)
          PROVE  Due(v, i, redisQ', floor', returned', db', ToClear', uncleared')
      <4> HIDE DEF m
      <4>1. Due(v, i, Append(redisQ, m), floor, returned, db, ToClear', uncleared)
        BY <1>c, <1>d, <2>3, <3>1, <3>2, DueAppend
      <4> QED
        BY <1>7, <3>1, <4>1 DEF Failed
    <3> HIDE DEF m
    <3> QED
      BY <1>7, <1>q, <2>3, <3>1, <3>2 DEF Failed
  <2> QED
    BY <1>7, <2>4, <2>5 DEF Failed
<1>8. ASSUME NEW w \in Workers, NEW s \in Readers, Selected(w, s) PROVE Goal
  <2>1. pc[s] = "sql"
    BY <1>8, TakenIs DEF Selected
  <2>2. ToClear' = ToClear
    BY <1>8, <1>a DEF Selected, To, OtherTypes, ToClear
  <2>3. ASSUME NEW t \in Pending' PROVE row'[t] = db \/ (t \in Pending /\ row'[t] = row[t])
    BY <1>8, <1>a, <2>3 DEF Selected, Pending, To, OtherTypes
  <2> QED
    BY <1>8, <1>p, <2>2, <2>3 DEF Selected
<1>9. ASSUME NEW w \in Workers, NEW s \in Writers, Updated(w, s) PROVE Goal
  <2>0. pc[s] = "sql"
    BY <1>9, TakenIs DEF Updated
  <2>1. ToClear \subseteq ToClear' /\ db + 1 \in ToClear'
    BY <1>9, <1>a, <2>0 DEF Updated, To, OtherTypes, ToClear
  <2>2. ASSUME NEW t \in Pending' PROVE t \in Pending /\ row'[t] = row[t]
    BY <1>9, <1>a, <2>2 DEF Updated, Pending, To, OtherTypes
  <2> QED
    BY <1>9, <1>p, <2>1, <2>2 DEF Updated
<1>10. ASSUME RedisClear PROVE Goal
  <2>1. CASE cache' = Empty /\ clears' = clears + 1
    <3>1. since' = since
      BY <1>10 DEF RedisClear
    <3>2. Pending' = {}
      BY <1>b, <1>c, <2>1, <3>1 DEF Pending, InBetween
    <3>3. ASSUME NEW i \in 1..Len(redisQ'), redisQ'[i][1] = "SET" PROVE redisQ'[i][4] # clears'
      <4>1. redisQ'[i] = redisQ[i + 1] /\ i + 1 \in InRedis /\ i + 1 \in 1..Len(redisQ)
        BY <1>10, <3>3, RedisIs DEF RedisClear, InRedis
      <4>2. redisQ[i + 1][4] <= clears /\ redisQ[i + 1][4] \in Nat
        BY <1>g, <3>3, <4>1 DEF InBetween, Is
      <4> QED
        BY <1>c, <2>1, <4>1, <4>2
    <3> QED
      BY <2>1, <3>2, <3>3 DEF Goal, Owing
  <2>2. CASE cache' = cache /\ clears' = clears /\ uncleared' = uncleared \cup {Head(redisQ)[3]}
    <3>1. ToClear' = ToClear /\ Pending' = Pending
      BY <1>10, <2>2 DEF RedisClear, ToClear, Pending
    <3> QED
      BY <1>10, <1>e, <1>r, <2>2, <3>1 DEF RedisClear
  <2> QED
    BY <1>10, <2>1, <2>2 DEF RedisClear
<1>11. ASSUME Expire PROVE Goal
  <2>1. /\ ToClear' = ToClear
        /\ Pending' = Pending
    BY <1>11 DEF Expire, ToClear, Pending
  <2> QED
    BY <1>11, <1>p, <2>1 DEF Expire
<1>12. ASSUME NEW s \in Writers, Orphan(s) PROVE Goal
  <2>1. ToClear' = ToClear /\ Pending' \subseteq Pending
    BY <1>12, <1>a, <1>s DEF Orphan, Pending
  <2>2. \A t \in Pending' : t \in Pending /\ row'[t] = row[t]
    BY <1>12, <2>1 DEF Orphan
  <2> QED
    BY <1>12, <1>p, <2>1, <2>2 DEF Orphan
<1>13. Goal
  BY <1>1, <1>2, <1>3, <1>4, <1>5, <1>6, <1>7, <1>8, <1>9, <1>10, <1>11, <1>12 DEF Next
<1> QED
  BY <1>13, OwingIs DEF Goal

-----------------------------------------------------------------------------
(* What a reader gets.                                                     *)

\* A hit on an entry that has not raced is not older than what had returned, nor is a row
\* that was read after the reader asked.
LEMMA SeesReturnedNext ==
  ASSUME CacheConstants, IInv, Next
  PROVE  SeesReturned'
<1> USE DEF IInv
<1>a. /\ Readers \subseteq Services /\ Writers \subseteq Services
      /\ \A s \in Readers : s \notin Writers
  BY DEF Services, CacheConstants
<1>b. redisQ # <<>> => Head(redisQ) = redisQ[1] /\ 1 \in InRedis /\ redisQ[1] \in Requests
  BY RedisIs
<1>c. \A s \in Readers : pc[s] # "idle" => got[s] = NoValue
  BY DEF InBetween
<1>1. ASSUME NEW s \in Readers, Read(s) PROVE SeesReturned'
  BY <1>1, <1>a DEF Read, To, OtherTypes, SeesReturned
<1>2. ASSUME NEW s \in Readers, Cache(s) PROVE SeesReturned'
  BY <1>2, <1>a DEF Cache, To, OtherTypes, SeesReturned
<1>3. ASSUME NEW s \in Readers, RedisGet(s) PROVE SeesReturned'
  <2>1. CASE cache # Empty /\ got' = [got EXCEPT ![s] = cache.v] /\ To(s, "idle")
             /\ hitRaced' = [hitRaced EXCEPT ![s] = cache.raced]
    <3>1. ~cache.raced => ~(cache.v < floor[s]) \/ floor[s] \in uncleared
      <4>1. redisQ[1][1] = "GET" /\ redisQ[1][2] = s /\ 1 \in InRedis
        BY <1>3, <1>b DEF RedisGet
      <4>2. Clears(floor[s], 1) => floor[s] \in uncleared
        BY <4>1 DEF Clears, InRedis
      <4> QED
        BY <2>1, <4>1, <4>2 DEF ClearsOwed, Owed, Is, InRedis
    <3>2. got'[s] = cache.v /\ hitRaced'[s] = cache.raced
      BY <2>1 DEF OtherTypes
    <3>3. ASSUME NEW t \in Readers, t # s
          PROVE  pc'[t] = pc[t] /\ got'[t] = got[t] /\ hitRaced'[t] = hitRaced[t]
      BY <2>1, <3>3, <1>a DEF To, OtherTypes
    <3> QED
      BY <1>3, <3>1, <3>2, <3>3 DEF RedisGet, SeesReturned
  <2>2. CASE To(s, "sql") /\ hitRaced' = [hitRaced EXCEPT ![s] = FALSE] /\ got' = got
    BY <1>3, <1>a, <2>2 DEF RedisGet, To, OtherTypes, SeesReturned
  <2> QED
    BY <1>3, <2>1, <2>2 DEF RedisGet
<1>4. ASSUME NEW s \in Readers, RedisSet(s) PROVE SeesReturned'
  <2>1. pc[s] = "SET"
    BY <1>4, <1>b DEF RedisSet, RedisPlace, Is
  <2>2. row[s] \in floor[s]..db /\ floor[s] \in Nat /\ row[s] \in Nat
    BY <1>a, <2>1 DEF InBetween, OtherTypes
  <2>3. CASE To(s, "idle") /\ got' = [got EXCEPT ![s] = row[s]]
    <3>1. got'[s] = row[s] /\ ~(row[s] < floor[s])
      BY <2>2, <2>3 DEF OtherTypes
    <3>2. ASSUME NEW t \in Readers, t # s PROVE pc'[t] = pc[t] /\ got'[t] = got[t]
      BY <2>3, <3>2, <1>a DEF To, OtherTypes
    <3> QED
      BY <1>4, <3>1, <3>2 DEF RedisSet, SeesReturned
  <2>4. CASE To(s, "raised") /\ got' = got
    BY <1>4, <1>a, <2>4 DEF RedisSet, To, OtherTypes, SeesReturned
  <2> QED
    BY <1>4, <2>3, <2>4 DEF RedisSet
<1>5. ASSUME NEW s \in Writers, Update(s) PROVE SeesReturned'
  BY <1>5, <1>a DEF Update, To, OtherTypes, SeesReturned
<1>6. ASSUME NEW s \in Writers, Clear(s) PROVE SeesReturned'
  BY <1>6, <1>a DEF Clear, To, OtherTypes, SeesReturned
<1>7. ASSUME NEW w \in Workers, NEW s \in Services, Failed(w, s) PROVE SeesReturned'
  <2>1. pc[s] = "sql"
    BY <1>7, TakenIs DEF Failed
  <2>2. \E p \in {"idle", "lost"} : To(s, p)
    BY <1>7 DEF Failed
  <2>3. s \in Readers => got[s] = NoValue
    BY <1>c, <2>1
  <2>4. \A t \in Readers : t # s => pc'[t] = pc[t]
    BY <1>a, <2>2 DEF To, OtherTypes
  <2> QED
    BY <1>7, <2>3, <2>4 DEF Failed, SeesReturned
<1>8. ASSUME NEW w \in Workers, NEW s \in Readers, Selected(w, s) PROVE SeesReturned'
  BY <1>8, <1>a DEF Selected, To, OtherTypes, SeesReturned
<1>9. ASSUME NEW w \in Workers, NEW s \in Writers, Updated(w, s) PROVE SeesReturned'
  BY <1>9, <1>a DEF Updated, To, OtherTypes, SeesReturned
<1>10. CASE RedisClear
  BY <1>10 DEF RedisClear, SeesReturned
<1>11. CASE Expire
  BY <1>11 DEF Expire, SeesReturned
<1>12. ASSUME NEW s \in Writers, Orphan(s) PROVE SeesReturned'
  BY <1>12, <1>a DEF Orphan, To, OtherTypes, SeesReturned
<1> QED
  BY <1>1, <1>2, <1>3, <1>4, <1>5, <1>6, <1>7, <1>8, <1>9, <1>10, <1>11, <1>12 DEF Next

\* Nothing is asked for and nothing stored.
LEMMA InitIInv ==
  ASSUME CacheConstants, Init
  PROVE  IInv
<1>1. Cardinality(Workers) \in Nat /\ Cardinality(Workers) # 0
  BY FS_CardinalityType, FS_EmptySet DEF CacheConstants
<1>2. 0 \in Workers
  BY <1>1 DEF CacheConstants
<1>3. Len(redisQ) = 0 /\ \A w \in Workers : Len(workQ[w]) = 0
  BY DEF Init
<1>4. TypeOK /\ OtherTypes
  BY <1>2 DEF Init, TypeOK, OtherTypes, Empty, NoValue, Services
<1>5. RedisPlace /\ WorkPlace
  BY <1>3 DEF RedisPlace, WorkPlace, InRedis
<1>6. InBetween
  BY <1>3 DEF Init, InBetween, InRedis, NoValue, Services
<1>7. ClearsOwed
  <2>1. cache = Empty /\ \A s \in Readers : pc[s] # "row"
    BY DEF Init, Services
  <2> QED
    BY <1>3, <2>1 DEF ClearsOwed, InRedis
<1>8. SeesReturned
  BY DEF Init, SeesReturned
<1> QED
  BY <1>4, <1>5, <1>6, <1>7, <1>8 DEF IInv

\* Every step keeps it, a step of another part of the system too.
LEMMA StepIInv ==
  ASSUME CacheConstants, IInv, [Next]_vars
  PROVE  IInv'
<1>1. CASE Next
  BY <1>1, TypesNext, PlacesNext, InBetweenNext, ClearsOwedNext, SeesReturnedNext DEF IInv
<1>2. CASE UNCHANGED vars
  <2>1. TypeOK' /\ OtherTypes'
    BY <1>2 DEF vars, IInv, TypeOK, OtherTypes
  <2>2. RedisPlace' /\ WorkPlace'
    BY <1>2 DEF vars, IInv, RedisPlace, WorkPlace, InRedis, Is, Waits
  <2>3. InBetween' /\ SeesReturned'
    BY <1>2 DEF vars, IInv, InBetween, SeesReturned, InRedis, Is
  <2>4. ClearsOwed'
    BY <1>2 DEF vars, IInv, ClearsOwed, Owed, Clears, ToClear, InRedis, Is
  <2> QED
    BY <2>1, <2>2, <2>3, <2>4 DEF IInv
<1> QED
  BY <1>1, <1>2

\* When no update is on its way, what is owed has come, or was not carried out.
LEMMA IInvStale ==
  ASSUME IInv
  PROVE  StaleHasCause
<1>1. ASSUME Settled, cache # Empty, ~cache.raced, NEW k \in (cache.v + 1)..db
      PROVE  k \in uncleared
  <2>1. k \in ToClear \/ Clears(k, Len(redisQ) + 1)
    BY <1>1 DEF IInv, ClearsOwed, Owed
  <2> QED
    BY <1>1, <2>1 DEF Settled, ToClear, Clears, InRedis, Is
<1> QED
  BY <1>1 DEF StaleHasCause

\* cache_util, redis_db and the mysql_services, whose requests may fail: when all updates are
\* done, an old row is in redis only if a clearrd came between the select that read it and
\* the SET that stored it, or if of all the updates it misses none had its clearrd carried
\* out; and a reader gets a row older than an update that had returned to its caller before
\* it asked only from an entry of the first kind, or if redis failed that update's clearrd.
THEOREM CacheSafe ==
  ASSUME CacheConstants
  PROVE  Spec => [](TypeOK /\ StaleHasCause /\ SeesReturned)
<1>1. Init => IInv
  BY InitIInv
<1>2. IInv /\ [Next]_vars => IInv'
  BY StepIInv
<1>3. IInv => TypeOK /\ StaleHasCause /\ SeesReturned
  BY IInvStale DEF IInv
<1> QED
  BY <1>1, <1>2, <1>3, PTL DEF Spec
=============================================================================
