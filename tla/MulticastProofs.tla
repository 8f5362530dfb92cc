--------------------------- MODULE MulticastProofs ---------------------------
(***************************************************************************)
(* Proof about a multicast channel between two nodes (multicastd.lua,      *)
(* lualib/multicast.lua), for any finite sets of services and any number   *)
(* of messages: its subscribers and packages are counted right, a service  *)
(* knows the channel before it gets a message, and all services get the    *)
(* messages in one order.                                                  *)
(***************************************************************************)
EXTENDS Multicast, SequenceTheorems, FiniteSetTheorems, TLAPS

-----------------------------------------------------------------------------
(* Mailboxes.                                                              *)

\* What a mailbox holds after one more message.
LEMMA Push ==
  ASSUME NEW S, NEW q \in Seq(S), NEW x \in S
  PROVE  /\ Append(q, x) \in Seq(S) /\ Append(q, x) # <<>>
         /\ Head(Append(q, x)) = IF q = <<>> THEN x ELSE Head(q)
         /\ q = <<>> => Len(Append(q, x)) = 1
         /\ \A P : Has(P, Append(q, x)) <=> Has(P, q) \/ x \in P
         /\ \A P : Once(P, q) /\ (x \notin P \/ ~Has(P, q)) => Once(P, Append(q, x))
         /\ \A y, z : Ahead(y, z, Append(q, x)) <=> Ahead(y, z, q) \/ (z = x /\ Has({y}, q))
<1> DEFINE r == Append(q, x)  len == Len(q)
<1>1. r \in Seq(S) /\ Len(r) = len + 1 /\ len \in Nat /\ r[len + 1] = x /\ \A i \in 1..len : r[i] = q[i]
  BY AppendProperties, LenProperties
<1>2. r # <<>> /\ (q = <<>> => Len(r) = 1)
  BY <1>1
<1>3. Head(r) = IF q = <<>> THEN x ELSE Head(q)
  BY <1>1, <1>2
<1> HIDE DEF r, len
<1>d. len = Len(q) /\ r = Append(q, x)
  BY DEF r, len
<1>4. ASSUME NEW P PROVE Has(P, r) <=> Has(P, q) \/ x \in P
  <2>1. ASSUME Has(P, r) PROVE Has(P, q) \/ x \in P
    <3>1. PICK i \in 1..Len(r) : r[i] \in P
      BY <2>1 DEF Has
    <3> QED
      BY <1>1, <1>d, <3>1 DEF Has
  <2>2. ASSUME Has(P, q) PROVE Has(P, r)
    <3>1. PICK i \in 1..Len(q) : q[i] \in P
      BY <2>2 DEF Has
    <3>2. i \in 1..Len(r) /\ r[i] \in P
      BY <1>1, <1>d, <3>1
    <3> QED
      BY <3>2 DEF Has
  <2>3. ASSUME x \in P PROVE Has(P, r)
    <3>1. len + 1 \in 1..Len(r) /\ r[len + 1] \in P
      BY <1>1, <2>3
    <3> QED
      BY <3>1 DEF Has
  <2> QED
    BY <2>1, <2>2, <2>3
<1>5. ASSUME NEW P, Once(P, q), x \notin P \/ ~Has(P, q) PROVE Once(P, r)
  <2> SUFFICES ASSUME NEW i \in 1..Len(r), NEW j \in 1..Len(r), r[i] \in P, r[j] \in P PROVE i = j
    BY DEF Once
  <2> QED
    BY <1>1, <1>5, <1>d DEF Once, Has
<1>6. ASSUME NEW y, NEW z PROVE Ahead(y, z, r) <=> Ahead(y, z, q) \/ (z = x /\ Has({y}, q))
  <2>1. ASSUME Ahead(y, z, r) PROVE Ahead(y, z, q) \/ (z = x /\ Has({y}, q))
    <3>1. PICK i \in 1..Len(r), j \in 1..Len(r) : i < j /\ r[i] = y /\ r[j] = z
      BY <2>1 DEF Ahead
    <3>2. i \in 1..Len(q) /\ q[i] = y
      BY <1>1, <1>d, <3>1
    <3>3. CASE j = len + 1
      BY <1>1, <3>1, <3>2, <3>3 DEF Has
    <3>4. CASE j # len + 1
      BY <1>1, <1>d, <3>1, <3>2, <3>4 DEF Ahead
    <3> QED
      BY <3>3, <3>4
  <2>2. ASSUME Ahead(y, z, q) PROVE Ahead(y, z, r)
    <3>1. PICK i \in 1..Len(q), j \in 1..Len(q) : i < j /\ q[i] = y /\ q[j] = z
      BY <2>2 DEF Ahead
    <3>2. i \in 1..Len(r) /\ j \in 1..Len(r) /\ r[i] = y /\ r[j] = z
      BY <1>1, <1>d, <3>1
    <3> QED
      BY <3>1, <3>2 DEF Ahead
  <2>3. ASSUME z = x, Has({y}, q) PROVE Ahead(y, z, r)
    <3>1. PICK i \in 1..Len(q) : q[i] = y
      BY <2>3 DEF Has
    <3>2. i \in 1..Len(r) /\ r[i] = y /\ len + 1 \in 1..Len(r) /\ i < len + 1 /\ r[len + 1] = z
      BY <1>1, <1>d, <2>3, <3>1
    <3> QED
      BY <3>2 DEF Ahead
  <2> QED
    BY <2>1, <2>2, <2>3
<1> QED
  BY <1>1, <1>2, <1>3, <1>4, <1>5, <1>6, <1>d

\* What a mailbox holds after its first message was taken.
LEMMA Pop ==
  ASSUME NEW S, NEW q \in Seq(S), q # <<>>
  PROVE  /\ Tail(q) \in Seq(S) /\ Head(q) \in S
         /\ Len(q) = 1 => Tail(q) = <<>>
         /\ \A P : Has(P, q) <=> Head(q) \in P \/ Has(P, Tail(q))
         /\ \A P : Once(P, q) => Once(P, Tail(q)) /\ (Head(q) \in P => ~Has(P, Tail(q)))
         /\ \A y, z : Ahead(y, z, q) <=> Ahead(y, z, Tail(q)) \/ (Head(q) = y /\ Has({z}, Tail(q)))
<1> DEFINE r == Tail(q)  len == Len(q)
<1>1. /\ r \in Seq(S) /\ Len(r) = len - 1 /\ len \in Nat /\ len >= 1 /\ Head(q) = q[1] /\ Head(q) \in S
      /\ \A i \in 1..(len - 1) : r[i] = q[i + 1]
  BY HeadTailProperties, EmptySeq, LenProperties
<1>2. ASSUME len = 1 PROVE r = <<>>
  <2>1. Len(r) = 0
    BY <1>1, <1>2
  <2> QED
    BY <1>1, <2>1, EmptySeq
<1>d. len = Len(q) /\ r = Tail(q)
  OBVIOUS
<1> HIDE DEF r, len
<1>3. \A i \in 2..len : i - 1 \in 1..Len(r) /\ r[i - 1] = q[i]
  BY <1>1
<1>4. ASSUME NEW P PROVE Has(P, q) <=> Head(q) \in P \/ Has(P, r)
  <2>1. ASSUME Has(P, q) PROVE Head(q) \in P \/ Has(P, r)
    <3>1. PICK i \in 1..Len(q) : q[i] \in P
      BY <2>1 DEF Has
    <3>2. CASE i = 1
      BY <1>1, <3>1, <3>2
    <3>3. CASE i # 1
      <4>1. i - 1 \in 1..Len(r) /\ r[i - 1] \in P
        BY <1>1, <1>3, <1>d, <3>1, <3>3
      <4> QED
        BY <4>1 DEF Has
    <3> QED
      BY <3>2, <3>3
  <2>2. ASSUME Has(P, r) PROVE Has(P, q)
    <3>1. PICK i \in 1..Len(r) : r[i] \in P
      BY <2>2 DEF Has
    <3>2. i + 1 \in 1..Len(q) /\ q[i + 1] \in P
      BY <1>1, <1>d, <3>1
    <3> QED
      BY <3>2 DEF Has
  <2>3. ASSUME Head(q) \in P PROVE Has(P, q)
    BY <1>1, <1>d, <2>3 DEF Has
  <2> QED
    BY <2>1, <2>2, <2>3
<1>5. ASSUME NEW P, Once(P, q) PROVE Once(P, r) /\ (Head(q) \in P => ~Has(P, r))
  <2>1. ASSUME NEW i \in 1..Len(r), r[i] \in P PROVE i + 1 \in 1..Len(q) /\ q[i + 1] \in P
    BY <1>1, <1>d, <2>1
  <2>2. Once(P, r)
    <3> SUFFICES ASSUME NEW i \in 1..Len(r), NEW j \in 1..Len(r), r[i] \in P, r[j] \in P PROVE i = j
      BY DEF Once
    <3>1. i + 1 = j + 1
      BY <1>5, <2>1 DEF Once
    <3> QED
      BY <1>1, <3>1
  <2>3. ASSUME Head(q) \in P, Has(P, r) PROVE FALSE
    <3>1. PICK i \in 1..Len(r) : r[i] \in P
      BY <2>3 DEF Has
    <3>2. 1 \in 1..Len(q) /\ q[1] \in P
      BY <1>1, <1>d, <2>3
    <3>3. i + 1 = 1
      BY <1>5, <2>1, <3>1, <3>2 DEF Once
    <3> QED
      BY <1>1, <3>1, <3>3
  <2> QED
    BY <2>2, <2>3
<1>6. ASSUME NEW y, NEW z PROVE Ahead(y, z, q) <=> Ahead(y, z, r) \/ (Head(q) = y /\ Has({z}, r))
  <2>1. ASSUME Ahead(y, z, q) PROVE Ahead(y, z, r) \/ (Head(q) = y /\ Has({z}, r))
    <3>1. PICK i \in 1..Len(q), j \in 1..Len(q) : i < j /\ q[i] = y /\ q[j] = z
      BY <2>1 DEF Ahead
    <3>2. j - 1 \in 1..Len(r) /\ r[j - 1] = z
      BY <1>1, <1>3, <1>d, <3>1
    <3>3. CASE i = 1
      BY <1>1, <3>1, <3>2, <3>3 DEF Has
    <3>4. CASE i # 1
      <4>1. i - 1 \in 1..Len(r) /\ r[i - 1] = y /\ i - 1 < j - 1
        BY <1>1, <1>3, <1>d, <3>1, <3>4
      <4> QED
        BY <3>2, <4>1 DEF Ahead
    <3> QED
      BY <3>3, <3>4
  <2>2. ASSUME Ahead(y, z, r) PROVE Ahead(y, z, q)
    <3>1. PICK i \in 1..Len(r), j \in 1..Len(r) : i < j /\ r[i] = y /\ r[j] = z
      BY <2>2 DEF Ahead
    <3>2. i + 1 \in 1..Len(q) /\ j + 1 \in 1..Len(q) /\ i + 1 < j + 1 /\ q[i + 1] = y /\ q[j + 1] = z
      BY <1>1, <1>d, <3>1
    <3> QED
      BY <3>2 DEF Ahead
  <2>3. ASSUME Head(q) = y, Has({z}, r) PROVE Ahead(y, z, q)
    <3>1. PICK j \in 1..Len(r) : r[j] = z
      BY <2>3 DEF Has
    <3>2. 1 \in 1..Len(q) /\ q[1] = y /\ j + 1 \in 1..Len(q) /\ 1 < j + 1 /\ q[j + 1] = z
      BY <1>1, <1>d, <2>3, <3>1
    <3> QED
      BY <3>2 DEF Ahead
  <2> QED
    BY <2>1, <2>2, <2>3
<1> QED
  BY <1>1, <1>2, <1>4, <1>5, <1>6, <1>d

\* An empty mailbox holds nothing.
LEMMA NoBox ==
  /\ \A P : ~Has(P, <<>>) /\ Once(P, <<>>)
  /\ \A x, y : ~Ahead(x, y, <<>>)
BY DEF Has, Once, Ahead

\* A request is put into the mailbox of the multicastd of its node.
LEMMA AskBoxes ==
  ASSUME BoxesOK, NEW s \in Services, NEW x \in Request, Ask(s, x)
  PROVE  /\ req' \in [Services -> Seq(Request)] /\ \A t \in Services \ {s} : req'[t] = req[t]
         /\ \A P : Has(P, req'[s]) <=> Has(P, req[s]) \/ x \in P
         /\ \A P : Once(P, req[s]) /\ (x \notin P \/ ~Has(P, req[s])) => Once(P, req'[s])
<1>1. req \in [Services -> Seq(Request)] /\ req' = [req EXCEPT ![s] = Append(@, x)]
  BY DEF BoxesOK, Ask
<1>2. req[s] \in Seq(Request)
  BY <1>1
<1>3. /\ req' \in [Services -> Seq(Request)] /\ req'[s] = Append(req[s], x)
      /\ \A t \in Services \ {s} : req'[t] = req[t]
  BY <1>1, <1>2, Push
<1> QED
  BY <1>2, <1>3, Push

\* The multicastd takes the first request of a service.
LEMMA TookBoxes ==
  ASSUME BoxesOK, NEW s \in Services, Took(s)
  PROVE  /\ req' \in [Services -> Seq(Request)] /\ \A t \in Services \ {s} : req'[t] = req[t]
         /\ Head(req[s]) \in Request
         /\ \A P : Has(P, req[s]) <=> Head(req[s]) \in P \/ Has(P, req'[s])
         /\ \A P : Once(P, req[s]) => Once(P, req'[s]) /\ (Head(req[s]) \in P => ~Has(P, req'[s]))
<1>1. req \in [Services -> Seq(Request)] /\ req[s] # <<>> /\ req' = [req EXCEPT ![s] = Tail(@)]
  BY DEF BoxesOK, Took
<1>2. req[s] \in Seq(Request)
  BY <1>1
<1>3. /\ req' \in [Services -> Seq(Request)] /\ req'[s] = Tail(req[s])
      /\ \A t \in Services \ {s} : req'[t] = req[t]
  BY <1>1, <1>2, Pop
<1> QED
  BY <1>1, <1>2, <1>3, Pop

-----------------------------------------------------------------------------
(* Steps that publish nothing and deliver no message.                      *)
\* Messages and their packages stay, and none is published.
Quiet ==
  /\ UNCHANGED <<refs, closed, lost, pubs>>
  /\ \A m \in 1..MaxPub : \A s \in Services :
       /\ Sent(m, req'[s]) => Sent(m, req[s])
       /\ Once({<<"PUB", m>>}, req[s]) => Once({<<"PUB", m>>}, req'[s])
  /\ \A m \in 1..MaxPub : \A d \in Nodes :
       /\ Sent(m, link'[d]) => Sent(m, link[d])
       /\ Once({<<"PUB", m>>}, link[d]) => Once({<<"PUB", m>>}, link'[d])
  /\ \A a, b \in 1..MaxPub :
       Ahead(<<"PUB", a>>, <<"PUB", b>>, link'["B"]) => Ahead(<<"PUB", a>>, <<"PUB", b>>, link["B"])
  /\ \A s \in Services : \A p \in Packages : Has({<<"msg", p>>}, inbox'[s]) <=> Has({<<"msg", p>>}, inbox[s])
  /\ \A s \in Services : \A a, b \in 1..MaxPub : \A d \in Nodes :
       Ahead(Msg(a, d), Msg(b, d), inbox'[s]) => Ahead(Msg(a, d), Msg(b, d), inbox[s])

\* The order of messages, when no message comes after another that did not before.
LEMMA OrderKept ==
  ASSUME Ordered, \A s \in Services : \A a, b \in 1..MaxPub : Follows(s, a, b)' => Follows(s, a, b)
  PROVE  Ordered'
BY DEF Ordered

\* They keep what is known of the messages.
LEMMA QuietStep ==
  ASSUME IInv, Quiet
  PROVE  PublishedOnce' /\ Ordered' /\ PackageCounted'
<1>1. ASSUME NEW m \in 1..MaxPub, NEW d \in Nodes, NoCopy(<<m, d>>) PROVE NoCopy(<<m, d>>)'
  <2>1. <<m, d>> \in Packages
    BY DEF Packages
  <2> QED
    BY <1>1, <2>1 DEF Quiet, NoCopy
<1>2. "A" \in Nodes /\ "B" \in Nodes
  BY DEF Nodes
<1>3. ASSUME NEW m \in 1..MaxPub, Unpublished(m) PROVE Unpublished(m)'
  BY <1>1, <1>2, <1>3 DEF Quiet, Unpublished
<1>4. PublishedOnce'
  BY <1>1, <1>2, <1>3 DEF IInv, PublishedOnce, Quiet
<1>5. ASSUME NEW s \in Services, NEW a \in 1..MaxPub, NEW b \in 1..MaxPub, Follows(s, a, b)'
      PROVE  Follows(s, a, b)
  <2>1. Home(s) \in Nodes /\ <<a, "B">> \in Packages /\ Msg(a, "B") = <<"msg", <<a, "B">>>>
    BY DEF Home, Nodes, Packages, Msg
  <2>2. CASE Before(s, a, b)'
    BY <2>1, <2>2 DEF Quiet, Before, Follows
  <2>3. CASE s \in Remote /\ Has({Msg(a, "B")}, inbox'[s]) /\ Sent(b, link'["B"])
    BY <1>2, <2>1, <2>3 DEF Quiet, Follows
  <2>4. CASE s \in Remote /\ Ahead(<<"PUB", a>>, <<"PUB", b>>, link'["B"])
    BY <2>4 DEF Quiet, Follows
  <2> QED
    BY <1>5, <2>2, <2>3, <2>4 DEF Follows
<1>6. Ordered'
  BY <1>5, OrderKept DEF IInv
<1>7. \A p \in Packages : Waits(p)' = Waits(p)
  BY DEF Quiet, Waits
<1>8. PackageCounted'
  BY <1>7 DEF IInv, PackageCounted, Quiet
<1> QED
  BY <1>4, <1>6, <1>8

-----------------------------------------------------------------------------
(* What the services do.                                                   *)

\* chan:subscribe.
LEMMA SubscribeStep ==
  ASSUME MulticastConstants, IInv, NEW s \in Services, Subscribe(s)
  PROVE  IInv'
<1>1. /\ UNCHANGED <<exists, group, n, remote, link, inbox, subscribe, known, dead, deleted, refs,
                     closed, lost, pubs>>
      /\ calling[s] = "no" /\ calling' = [calling EXCEPT ![s] = "SUB"]
      /\ ops' = ops + 1 /\ ops < MaxOps /\ req' = [req EXCEPT ![s] = Append(@, <<"SUB">>)]
  BY DEF Subscribe, Ask, Op, Ready, chanVars, memVars
<1>2. Ask(s, <<"SUB">>) /\ <<"SUB">> \in Request
  BY DEF Subscribe, Request
<1>3. /\ req' \in [Services -> Seq(Request)] /\ \A t \in Services \ {s} : req'[t] = req[t]
      /\ \A P : Has(P, req'[s]) <=> Has(P, req[s]) \/ <<"SUB">> \in P
      /\ \A P : Once(P, req[s]) /\ (<<"SUB">> \notin P \/ ~Has(P, req[s])) => Once(P, req'[s])
  BY <1>2, AskBoxes DEF IInv
<1>4. \A m : <<"SUB">> \notin {<<"PUB", m>>}
  OBVIOUS
<1>5. TypeOK' /\ BoxesOK'
  BY <1>1, <1>3 DEF IInv, TypeOK, BoxesOK, Home, MulticastConstants
<1>6. GroupCounted' /\ RemoteRight'
  BY <1>1 DEF IInv, GroupCounted, RemoteRight
<1>7. OnePlace'
  BY <1>1, <1>3 DEF IInv, OnePlace, CallsWait, Called, Asked, Told, Replied, TypeOK
<1>8. CallsWait'
  BY <1>1, <1>3 DEF IInv, CallsWait, Called, Asked, Told, Replied, TypeOK
<1>9. KnownFirst'
  BY <1>1 DEF IInv, KnownFirst, Replied, TypeOK
<1>10. Quiet
  BY <1>1, <1>3, <1>4 DEF Quiet, Sent
<1>11. PublishedOnce' /\ Ordered' /\ PackageCounted'
  BY <1>10, QuietStep
<1> QED
  BY <1>5, <1>6, <1>7, <1>8, <1>9, <1>11 DEF IInv

\* chan:unsubscribe and chan:delete.
LEMMA LeaveSteps ==
  ASSUME MulticastConstants, IInv, NEW s \in Services, Unsubscribe(s) \/ Delete(s)
  PROVE  IInv'
<1>1. PICK x \in {<<"USUB">>, <<"DEL">>} : Ask(s, x)
  BY DEF Unsubscribe, Delete
<1>2. /\ UNCHANGED <<exists, group, n, remote, link, inbox, known, calling, dead, refs, closed, lost, pubs>>
      /\ ops' = ops + 1 /\ ops < MaxOps /\ subscribe' = [subscribe EXCEPT ![s] = FALSE]
      /\ deleted' = deleted \/ deleted' = deleted \cup {s}
  BY DEF Unsubscribe, Delete, Op, chanVars, memVars
<1>3. x \in Request /\ x \notin {<<"SUB">>} \cup Pub /\ x \notin {<<"SUB">>} /\ \A m : x \notin {<<"PUB", m>>}
  BY <1>1 DEF Request, Pub
<1>4. /\ req' \in [Services -> Seq(Request)] /\ \A t \in Services \ {s} : req'[t] = req[t]
      /\ \A P : Has(P, req'[s]) <=> Has(P, req[s]) \/ x \in P
      /\ \A P : Once(P, req[s]) /\ (x \notin P \/ ~Has(P, req[s])) => Once(P, req'[s])
  BY <1>1, <1>3, AskBoxes DEF IInv
<1>5. TypeOK'
  BY <1>2 DEF IInv, TypeOK, MulticastConstants
<1>51. BoxesOK'
  BY <1>2, <1>4 DEF IInv, BoxesOK, Home
<1>6. GroupCounted' /\ RemoteRight'
  BY <1>2 DEF IInv, GroupCounted, RemoteRight
<1>7. OnePlace' /\ CallsWait'
  BY <1>2, <1>3, <1>4 DEF IInv, OnePlace, CallsWait, Called, Asked, Told, Replied
<1>8. KnownFirst'
  BY <1>2 DEF IInv, KnownFirst, Replied
<1>9. Quiet
  BY <1>2, <1>3, <1>4 DEF Quiet, Sent
<1>10. PublishedOnce' /\ Ordered' /\ PackageCounted'
  BY <1>9, QuietStep
<1> QED
  BY <1>5, <1>51, <1>6, <1>7, <1>8, <1>10 DEF IInv

\* chan:publish: the message is a new one.
LEMMA PublishStep ==
  ASSUME MulticastConstants, IInv, NEW s \in Services, Publish(s)
  PROVE  IInv'
<1> DEFINE k == pubs + 1  x == <<"PUB", k>>
<1>1. /\ UNCHANGED <<exists, group, n, remote, link, inbox, subscribe, known, dead, deleted, refs,
                     closed, lost, ops>>
      /\ calling[s] = "no" /\ calling' = [calling EXCEPT ![s] = "PUB"]
      /\ pubs < MaxPub /\ pubs' = k /\ Ask(s, x)
  BY DEF Publish, Ready, chanVars, memVars
<1>2. k \in 1..MaxPub /\ pubs \in Nat /\ MaxPub \in Nat
  BY <1>1 DEF IInv, TypeOK, MulticastConstants
<1>3. /\ x \in Request /\ x \in Pub /\ x \notin {<<"SUB">>} /\ x \in {<<"PUB", k>>}
      /\ \A m : m # k => x \notin {<<"PUB", m>>}
  BY <1>2 DEF Request, Pub
<1> HIDE DEF x
<1>4. /\ req' \in [Services -> Seq(Request)] /\ \A t \in Services \ {s} : req'[t] = req[t]
      /\ \A P : Has(P, req'[s]) <=> Has(P, req[s]) \/ x \in P
      /\ \A P : Once(P, req[s]) /\ (x \notin P \/ ~Has(P, req[s])) => Once(P, req'[s])
  BY <1>1, <1>3, AskBoxes DEF IInv
<1>5. TypeOK'
  BY <1>1, <1>2 DEF IInv, TypeOK
<1>51. BoxesOK'
  BY <1>1, <1>4 DEF IInv, BoxesOK, Home
<1>6. GroupCounted' /\ RemoteRight' /\ PackageCounted'
  BY <1>1 DEF IInv, GroupCounted, RemoteRight, PackageCounted, Waits
<1>7. OnePlace'
  BY <1>1, <1>3, <1>4 DEF IInv, OnePlace, CallsWait, Called, Asked, Told, Replied, TypeOK
<1>8. CallsWait'
  BY <1>1, <1>3, <1>4 DEF IInv, CallsWait, Called, Asked, Told, Replied, TypeOK
<1>9. KnownFirst'
  BY <1>1 DEF IInv, KnownFirst, Replied, TypeOK
<1>10. Ordered'
  <2>1. ASSUME NEW t \in Services, NEW a \in 1..MaxPub, NEW b \in 1..MaxPub, Follows(t, a, b)'
        PROVE  Follows(t, a, b)
    BY <1>1, <2>1 DEF Follows, Before, Sent
  <2> QED
    BY <2>1, OrderKept DEF IInv
<1>11. PublishedOnce'
  <2>1. ~Sent(k, link["A"]) /\ Unpublished(k) /\ \A t \in Services : ~Sent(k, req[t])
    <3>1. k > pubs /\ ~(k <= pubs)
      BY <1>2
    <3> QED
      BY <1>2, <3>1 DEF IInv, PublishedOnce
  <2>2. ASSUME NEW m \in 1..MaxPub PROVE (Unpublished(m) => Unpublished(m)') /\ (NoCopy(<<m, "B">>) => NoCopy(<<m, "B">>)')
    BY <1>1 DEF Unpublished, NoCopy, Sent
  <2>3. \A m \in 1..MaxPub : Sent(m, req'[s]) <=> Sent(m, req[s]) \/ m = k
    BY <1>3, <1>4 DEF Sent
  <2>4. \A m \in 1..MaxPub : Once({<<"PUB", m>>}, req'[s])
    BY <1>3, <1>4, <2>1 DEF IInv, PublishedOnce, Sent
  <2>5. \A m \in 1..MaxPub : (m <= pubs => m <= pubs' /\ m # k) /\ (m > pubs' => m > pubs) /\ k <= pubs'
    BY <1>1, <1>2
  <2> QED
    BY <1>1, <1>2, <1>4, <2>1, <2>2, <2>3, <2>4, <2>5 DEF IInv, PublishedOnce
<1> QED
  BY <1>5, <1>51, <1>6, <1>7, <1>8, <1>9, <1>10, <1>11 DEF IInv

\* A service takes the first message of its mailbox.
LEMMA InboxTaken ==
  ASSUME BoxesOK, NEW s \in Services, inbox[s] # <<>>, inbox' = [inbox EXCEPT ![s] = Tail(@)]
  PROVE  /\ inbox' \in [Services -> Seq(Inbound("A") \cup Inbound("B"))]
         /\ inbox'[s] \in Seq(Inbound(Home(s))) /\ \A t \in Services \ {s} : inbox'[t] = inbox[t]
         /\ Head(inbox[s]) \in Inbound(Home(s))
         /\ Len(inbox[s]) = 1 => inbox'[s] = <<>>
         /\ \A P : Has(P, inbox[s]) <=> Head(inbox[s]) \in P \/ Has(P, inbox'[s])
         /\ \A P : Once(P, inbox[s]) => Once(P, inbox'[s]) /\ (Head(inbox[s]) \in P => ~Has(P, inbox'[s]))
         /\ \A y, z : Ahead(y, z, inbox'[s]) => Ahead(y, z, inbox[s])
<1>1. inbox[s] \in Seq(Inbound("A") \cup Inbound("B")) /\ inbox[s] \in Seq(Inbound(Home(s)))
  BY DEF BoxesOK
<1>2. inbox' \in [Services -> Seq(Inbound("A") \cup Inbound("B"))] /\ inbox'[s] = Tail(inbox[s])
      /\ \A t \in Services \ {s} : inbox'[t] = inbox[t]
  BY <1>1, Pop DEF BoxesOK
<1> QED
  BY <1>1, <1>2, Pop

\* No service has a message twice, or one for the other node.
LEMMA NoTwice ==
  ASSUME IInv, NEW s \in Services, NEW p \in Packages
  PROVE  /\ Once({<<"msg", p>>}, inbox[s])
         /\ Has({<<"msg", p>>}, inbox[s]) => p[2] = Home(s)
<1>1. PICK m \in 1..MaxPub, d \in Nodes : p = <<m, d>> /\ p[1] = m /\ p[2] = d
  BY DEF Packages
<1>2. inbox[s] \in Seq(Inbound(Home(s))) /\ Len(inbox[s]) \in Nat
  BY DEF IInv, BoxesOK
<1>3. ASSUME Has({<<"msg", p>>}, inbox[s]) PROVE d = Home(s)
  <2>1. PICK i \in 1..Len(inbox[s]) : inbox[s][i] = <<"msg", p>>
    BY <1>3 DEF Has
  <2>2. inbox[s][i] \in Inbound(Home(s))
    BY <1>2, <2>1, ElementOfSeq
  <2> QED
    BY <1>1, <2>1, <2>2 DEF Inbound, Msg
<1>4. Once({<<"msg", p>>}, inbox[s])
  <2> SUFFICES ASSUME NEW i \in 1..Len(inbox[s]), NEW j \in 1..Len(inbox[s]), i # j,
                      inbox[s][i] = <<"msg", p>>, inbox[s][j] = <<"msg", p>>
               PROVE  FALSE
    BY DEF Once
  <2>1. d = Home(s)
    BY <1>3 DEF Has
  <2>2. inbox[s][i] = Msg(m, Home(s)) /\ inbox[s][j] = Msg(m, Home(s))
    BY <1>1, <2>1 DEF Msg
  <2>3. i < j \/ j < i
    BY <1>2
  <2>4. Before(s, m, m)
    BY <2>2, <2>3 DEF Before, Ahead
  <2> QED
    BY <1>1, <2>4 DEF IInv, Ordered, Follows
<1> QED
  BY <1>1, <1>3, <1>4

\* The answer to a request.
LEMMA AnsweredStep ==
  ASSUME MulticastConstants, IInv, NEW s \in Services, Answered(s)
  PROVE  IInv'
<1>1. /\ UNCHANGED <<exists, group, n, remote, req, link, dead, deleted, refs, closed, lost, pubs, ops>>
      /\ inbox[s] # <<>> /\ Head(inbox[s]) = <<"ret">> /\ inbox' = [inbox EXCEPT ![s] = Tail(@)]
      /\ calling' = [calling EXCEPT ![s] = "no"]
      /\ IF calling[s] = "SUB" THEN subscribe' = [subscribe EXCEPT ![s] = TRUE] /\ known' = known \cup {s}
         ELSE UNCHANGED <<subscribe, known>>
  BY DEF Answered, chanVars, memVars
<1>2. /\ inbox' \in [Services -> Seq(Inbound("A") \cup Inbound("B"))]
      /\ inbox'[s] \in Seq(Inbound(Home(s))) /\ \A t \in Services \ {s} : inbox'[t] = inbox[t]
      /\ Len(inbox[s]) = 1 => inbox'[s] = <<>>
      /\ \A P : Has(P, inbox[s]) <=> <<"ret">> \in P \/ Has(P, inbox'[s])
      /\ \A P : Once(P, inbox[s]) => Once(P, inbox'[s]) /\ (<<"ret">> \in P => ~Has(P, inbox'[s]))
      /\ \A y, z : Ahead(y, z, inbox'[s]) => Ahead(y, z, inbox[s])
  BY <1>1, InboxTaken DEF IInv
<1>3. <<"ret">> \in {<<"ret">>} /\ \A p : <<"ret">> \notin {<<"msg", p>>}
  OBVIOUS
<1>4. TypeOK'
  BY <1>1 DEF IInv, TypeOK
<1>5. BoxesOK'
  BY <1>1, <1>2 DEF IInv, BoxesOK, Home
<1>6. GroupCounted' /\ RemoteRight'
  BY <1>1 DEF IInv, GroupCounted, RemoteRight
<1>7. Replied(s) /\ ~Replied(s)' /\ ~Called(s) /\ ~Asked(s) /\ ~Told(s)
  BY <1>2, <1>3 DEF IInv, OnePlace, Replied
<1>8. OnePlace'
  BY <1>1, <1>2, <1>3, <1>7 DEF IInv, OnePlace, Called, Asked, Told, Replied
<1>9. ~Has({<<"SUB">>}, req[s])
  BY <1>7 DEF Called, Has
<1>10. CallsWait'
  BY <1>1, <1>2, <1>3, <1>7, <1>9 DEF IInv, CallsWait, Called, Asked, Told, Replied, TypeOK
<1>11. KnownFirst'
  <2>1. ASSUME NEW t \in Services \ known', t # s
        PROVE  /\ \A d \in Nodes : t \in group'[d] \ dead' => calling'[t] = "SUB" /\ Replied(t)'
               /\ inbox'[t] # <<>> => Head(inbox'[t]) = <<"ret">> /\ (calling'[t] = "SUB" \/ Len(inbox'[t]) = 1)
    BY <1>1, <1>2, <2>1 DEF IInv, KnownFirst, Replied, TypeOK
  <2>2. ASSUME s \notin known' PROVE inbox'[s] = <<>> /\ \A d \in Nodes : s \notin group'[d] \ dead'
    <3>1. calling[s] # "SUB" /\ s \in Services \ known
      BY <1>1, <2>2
    <3> QED
      BY <1>1, <1>2, <3>1 DEF IInv, KnownFirst
  <2> QED
    BY <2>1, <2>2 DEF KnownFirst
<1>12. Quiet
  BY <1>1, <1>2, <1>3 DEF Quiet, Sent
<1>13. PublishedOnce' /\ Ordered' /\ PackageCounted'
  BY <1>12, QuietStep
<1> QED
  BY <1>4, <1>5, <1>6, <1>8, <1>10, <1>11, <1>13 DEF IInv

\* Those that a package waits for are finitely many.
LEMMA WaitsFinite ==
  ASSUME MulticastConstants, NEW p
  PROVE  /\ IsFiniteSet(Services) /\ Cardinality(Services) \in Nat
         /\ IsFiniteSet(Waits(p)) /\ Cardinality(Waits(p)) \in Nat
         /\ \A s \in Waits(p) : Cardinality(Waits(p) \ {s}) = Cardinality(Waits(p)) - 1 /\ Cardinality(Waits(p)) >= 1
<1>1. IsFiniteSet(Services)
  BY FS_Union DEF MulticastConstants, Services
<1>2. IsFiniteSet(Waits(p))
  BY <1>1, FS_Subset DEF Waits
<1>3. ASSUME NEW s \in Waits(p)
      PROVE  Cardinality(Waits(p) \ {s}) = Cardinality(Waits(p)) - 1 /\ Cardinality(Waits(p)) >= 1
  <2>1. Cardinality(Waits(p) \ {s}) = Cardinality(Waits(p)) - 1
    BY <1>2, FS_RemoveElement
  <2>2. Cardinality(Waits(p) \ {s}) \in Nat
    BY <1>2, FS_RemoveElement, FS_CardinalityType
  <2> QED
    BY <1>2, <2>1, <2>2, FS_CardinalityType
<1> QED
  BY <1>1, <1>2, <1>3, FS_CardinalityType

\* A service takes a message and gives back its reference.
LEMMA ReceiveStep ==
  ASSUME MulticastConstants, IInv, NEW s \in Services, Receive(s)
  PROVE  IInv'
<1>1. /\ UNCHANGED <<exists, group, n, remote, req, link, subscribe, known, calling, dead, deleted, pubs, ops, lost>>
      /\ inbox[s] # <<>> /\ Head(inbox[s])[1] = "msg" /\ inbox' = [inbox EXCEPT ![s] = Tail(@)]
      /\ LET p == Head(inbox[s])[2] IN
         /\ refs' = [refs EXCEPT ![p] = @ - 1]
         /\ closed' = IF refs[p] = 1 THEN closed \cup {p} ELSE closed
  BY DEF Receive, Close, chanVars, libVars
<1>2. /\ inbox' \in [Services -> Seq(Inbound("A") \cup Inbound("B"))]
      /\ inbox'[s] \in Seq(Inbound(Home(s))) /\ \A t \in Services \ {s} : inbox'[t] = inbox[t]
      /\ Head(inbox[s]) \in Inbound(Home(s))
      /\ Len(inbox[s]) = 1 => inbox'[s] = <<>>
      /\ \A P : Has(P, inbox[s]) <=> Head(inbox[s]) \in P \/ Has(P, inbox'[s])
      /\ \A P : Once(P, inbox[s]) => Once(P, inbox'[s]) /\ (Head(inbox[s]) \in P => ~Has(P, inbox'[s]))
      /\ \A y, z : Ahead(y, z, inbox'[s]) => Ahead(y, z, inbox[s])
  BY <1>1, InboxTaken DEF IInv
<1>3. PICK p \in Packages : /\ Head(inbox[s]) = <<"msg", p>>
                            /\ refs' = [refs EXCEPT ![p] = @ - 1]
                            /\ closed' = IF refs[p] = 1 THEN closed \cup {p} ELSE closed
  <2>1. PICK m \in 1..MaxPub : Head(inbox[s]) = Msg(m, Home(s))
    BY <1>1, <1>2 DEF Inbound
  <2>2. Home(s) \in Nodes /\ Head(inbox[s]) = <<"msg", <<m, Home(s)>>>>
    BY <2>1 DEF Msg, Home, Nodes
  <2>3. <<m, Home(s)>> \in Packages /\ Head(inbox[s])[2] = <<m, Home(s)>>
    BY <2>2 DEF Packages
  <2> QED
    BY <1>1, <2>2, <2>3
<1>4. <<"msg", p>> \notin {<<"ret">>} /\ \A q : q # p => <<"msg", p>> \notin {<<"msg", q>>}
  OBVIOUS
<1>5. Has({<<"msg", p>>}, inbox[s]) /\ ~Has({<<"msg", p>>}, inbox'[s])
  <2>1. <<"msg", p>> \in {<<"msg", p>>} /\ Once({<<"msg", p>>}, inbox[s])
    BY <1>3, NoTwice
  <2> QED
    BY <1>2, <1>3, <2>1
<1>6. Waits(p)' = Waits(p) \ {s} /\ s \in Waits(p)
  BY <1>2, <1>5 DEF Waits
<1>7. ASSUME NEW q \in Packages, q # p PROVE Waits(q)' = Waits(q)
  BY <1>2, <1>3, <1>4, <1>7 DEF Waits
<1>8. refs \in [Packages -> 0..Cardinality(Services)] /\ lost[p] \in Nat /\ closed \subseteq Packages
  BY <1>3 DEF IInv, TypeOK
<1>9. refs[p] = Cardinality(Waits(p)) + lost[p] /\ refs[p] >= 1 /\ Cardinality(Waits(p)') = Cardinality(Waits(p)) - 1
  BY <1>3, <1>6, <1>8, WaitsFinite DEF IInv, PackageCounted
<1>10. refs' \in [Packages -> 0..Cardinality(Services)]
  BY <1>1, <1>3, <1>8, <1>9, WaitsFinite
<1>11. TypeOK'
  BY <1>1, <1>3, <1>8, <1>10 DEF IInv, TypeOK
<1>12. BoxesOK'
  BY <1>1, <1>2 DEF IInv, BoxesOK, Home
<1>13. GroupCounted' /\ RemoteRight'
  BY <1>1 DEF IInv, GroupCounted, RemoteRight
<1>14. PackageCounted'
  <2> SUFFICES ASSUME NEW q \in Packages
               PROVE  refs'[q] = Cardinality(Waits(q)') + lost'[q] /\ (q \in closed' => refs'[q] = 0)
    BY DEF PackageCounted
  <2>1. CASE q = p
    <3>1. refs'[p] = refs[p] - 1 /\ lost'[p] = lost[p]
      BY <1>1, <1>3, <1>8
    <3>2. p \in closed' => refs[p] = 1
      BY <1>1, <1>3, <1>9 DEF IInv, PackageCounted
    <3> QED
      BY <2>1, <3>1, <3>2, <1>8, <1>9, WaitsFinite
  <2>2. CASE q # p
    <3>1. refs'[q] = refs[q] /\ lost'[q] = lost[q] /\ (q \in closed' => q \in closed)
      BY <1>1, <1>3, <1>8, <2>2
    <3>2. Waits(q)' = Waits(q)
      BY <1>7, <2>2
    <3> QED
      BY <3>1, <3>2 DEF IInv, PackageCounted
  <2> QED
    BY <2>1, <2>2
<1>15. \A t \in Services : /\ (Replied(t)' <=> Replied(t)) /\ (Called(t)' <=> Called(t))
                           /\ (Asked(t)' <=> Asked(t)) /\ (Told(t)' <=> Told(t))
                           /\ Once({<<"ret">>}, inbox[t]) => Once({<<"ret">>}, inbox'[t])
  BY <1>1, <1>2, <1>3, <1>4 DEF Replied, Called, Asked, Told
<1>16. OnePlace' /\ CallsWait'
  BY <1>1, <1>15 DEF IInv, OnePlace, CallsWait
<1>17. KnownFirst'
  <2>1. s \in known
    BY <1>1, <1>3 DEF IInv, KnownFirst
  <2> QED
    BY <1>1, <1>2, <1>15, <2>1 DEF IInv, KnownFirst
<1>18. ASSUME NEW q \in Packages, NoCopy(q) PROVE NoCopy(q)'
  <2>1. q # p
    BY <1>5, <1>18 DEF NoCopy
  <2> QED
    BY <1>1, <1>2, <1>3, <1>8, <1>18, <2>1 DEF NoCopy
<1>19. PublishedOnce'
  <2>1. ASSUME NEW m \in 1..MaxPub
        PROVE (Unpublished(m) => Unpublished(m)') /\ (NoCopy(<<m, "B">>) => NoCopy(<<m, "B">>)')
    <3>1. <<m, "A">> \in Packages /\ <<m, "B">> \in Packages
      BY DEF Packages, Nodes
    <3> QED
      BY <1>1, <1>18, <3>1 DEF Unpublished
  <2> QED
    BY <1>1, <2>1 DEF IInv, PublishedOnce
<1>20. Ordered'
  <2>1. ASSUME NEW t \in Services, NEW a \in 1..MaxPub, NEW b \in 1..MaxPub, Follows(t, a, b)'
        PROVE  Follows(t, a, b)
    <3>1. \A P : Has(P, inbox'[t]) => Has(P, inbox[t])
      BY <1>2
    <3>2. \A y, z : Ahead(y, z, inbox'[t]) => Ahead(y, z, inbox[t])
      BY <1>2
    <3> QED
      BY <1>1, <2>1, <3>1, <3>2 DEF Follows, Before, Sent
  <2> QED
    BY <2>1, OrderKept DEF IInv
<1> QED
  BY <1>11, <1>12, <1>13, <1>14, <1>16, <1>17, <1>19, <1>20 DEF IInv

\* A service exits: what waits for it is lost, and its channel's __gc leaves the group.
LEMMA ExitStep ==
  ASSUME MulticastConstants, IInv, NEW s \in Services, Exit(s)
  PROVE  IInv'
<1>1. /\ UNCHANGED <<exists, group, n, remote, link, known, calling, deleted, refs, closed, pubs>>
      /\ s \notin dead /\ dead' = dead \cup {s} /\ ops' = ops + 1 /\ ops < MaxOps
      /\ lost' = [p \in Packages |-> lost[p] + References(s, p)]
      /\ inbox' = [inbox EXCEPT ![s] = <<>>] /\ subscribe' = [subscribe EXCEPT ![s] = FALSE]
      /\ Ask(s, <<"USUB">>) \/ UNCHANGED req
  BY DEF Exit, Op, Ask, chanVars
<1>2. /\ <<"USUB">> \in Request /\ <<"USUB">> \notin {<<"SUB">>} \cup Pub /\ <<"USUB">> \notin {<<"SUB">>}
      /\ \A m : <<"USUB">> \notin {<<"PUB", m>>}
  BY DEF Request, Pub
<1>3. /\ req' \in [Services -> Seq(Request)] /\ \A t \in Services \ {s} : req'[t] = req[t]
      /\ \A P : <<"USUB">> \notin P => /\ Has(P, req'[s]) <=> Has(P, req[s])
                                       /\ Once(P, req[s]) => Once(P, req'[s])
  <2>1. CASE Ask(s, <<"USUB">>)
    BY <1>2, <2>1, AskBoxes DEF IInv
  <2>2. CASE UNCHANGED req
    BY <2>2 DEF IInv, BoxesOK
  <2> QED
    BY <1>1, <2>1, <2>2
<1>4. /\ inbox' \in [Services -> Seq(Inbound("A") \cup Inbound("B"))]
      /\ inbox'[s] = <<>> /\ \A t \in Services \ {s} : inbox'[t] = inbox[t]
  BY <1>1 DEF IInv, BoxesOK
<1>5. \A P : ~Has(P, inbox'[s]) /\ Once(P, inbox'[s])
  BY <1>4, NoBox
<1>6. ASSUME NEW p \in Packages
      PROVE  /\ Cardinality(Waits(p)') + lost'[p] = Cardinality(Waits(p)) + lost[p] /\ lost'[p] \in Nat
             /\ NoCopy(p) => NoCopy(p)'
  <2> DEFINE R == {i \in 1..Len(inbox[s]) : inbox[s][i] = <<"msg", p>>}
  <2>1. lost'[p] = lost[p] + Cardinality(R) /\ lost[p] \in Nat
    BY <1>1 DEF References, IInv, TypeOK
  <2>2. CASE Has({<<"msg", p>>}, inbox[s])
    <3>1. PICK i \in 1..Len(inbox[s]) : inbox[s][i] = <<"msg", p>>
      BY <2>2 DEF Has
    <3>2. R = {i}
      BY <3>1, NoTwice DEF Once
    <3>3. Cardinality(R) = 1
      BY <3>2, FS_Singleton
    <3>4. Waits(p)' = Waits(p) \ {s} /\ s \in Waits(p)
      BY <1>4, <1>5, <2>2 DEF Waits
    <3>5. ~NoCopy(p)
      BY <2>2 DEF NoCopy
    <3> QED
      BY <2>1, <3>3, <3>4, <3>5, WaitsFinite
  <2>3. CASE ~Has({<<"msg", p>>}, inbox[s])
    <3>1. R = {}
      BY <2>3 DEF Has
    <3>2. Cardinality(R) = 0
      BY <3>1, FS_EmptySet
    <3>3. Waits(p)' = Waits(p)
      BY <1>4, <1>5, <2>3 DEF Waits
    <3>4. lost'[p] = lost[p]
      BY <2>1, <3>2
    <3>5. NoCopy(p) => NoCopy(p)'
      BY <1>1, <1>4, <1>5, <3>4 DEF NoCopy
    <3> QED
      BY <2>1, <3>3, <3>4, <3>5
  <2> QED
    BY <2>2, <2>3
<1>7. PackageCounted'
  BY <1>1, <1>6 DEF IInv, PackageCounted
<1>8. lost' \in [Packages -> 0..Cardinality(Services)]
  <2> SUFFICES ASSUME NEW p \in Packages PROVE lost'[p] \in 0..Cardinality(Services)
    BY <1>1
  <2>1. refs'[p] \in 0..Cardinality(Services) /\ refs'[p] = Cardinality(Waits(p)) + lost[p]
    BY <1>1 DEF IInv, TypeOK, PackageCounted
  <2>2. Cardinality(Waits(p)') \in Nat
    <3>1. Waits(p)' \subseteq Services
      BY DEF Waits
    <3> QED
      BY <3>1, WaitsFinite, FS_Subset, FS_CardinalityType
  <2> QED
    BY <1>6, <2>1, <2>2, WaitsFinite
<1>9. TypeOK'
  BY <1>1, <1>8 DEF IInv, TypeOK, MulticastConstants
<1>10. BoxesOK'
  <2>1. inbox'[s] \in Seq(Inbound(Home(s)))
    BY <1>4
  <2> QED
    BY <1>1, <1>3, <1>4, <2>1 DEF IInv, BoxesOK, Home
<1>11. GroupCounted' /\ RemoteRight'
  BY <1>1 DEF IInv, GroupCounted, RemoteRight
<1>12. OnePlace' /\ CallsWait'
  BY <1>1, <1>2, <1>3, <1>4, <1>5 DEF IInv, OnePlace, CallsWait, Called, Asked, Told, Replied
<1>13. KnownFirst'
  BY <1>1, <1>4 DEF IInv, KnownFirst, Replied
<1>14. PublishedOnce'
  <2>1. ASSUME NEW m \in 1..MaxPub
        PROVE (Unpublished(m) => Unpublished(m)') /\ (NoCopy(<<m, "B">>) => NoCopy(<<m, "B">>)')
    <3>1. <<m, "A">> \in Packages /\ <<m, "B">> \in Packages
      BY DEF Packages, Nodes
    <3> QED
      BY <1>1, <1>6, <3>1 DEF Unpublished
  <2>2. \A m \in 1..MaxPub : \A t \in Services : (Sent(m, req'[t]) <=> Sent(m, req[t]))
                           /\ (Once({<<"PUB", m>>}, req[t]) => Once({<<"PUB", m>>}, req'[t]))
    BY <1>2, <1>3 DEF Sent
  <2> QED
    BY <1>1, <2>1, <2>2 DEF IInv, PublishedOnce
<1>15. Ordered'
  <2>1. ASSUME NEW t \in Services, NEW a \in 1..MaxPub, NEW b \in 1..MaxPub, Follows(t, a, b)'
        PROVE  Follows(t, a, b)
    <3>1. \A P : Has(P, inbox'[t]) => Has(P, inbox[t])
      BY <1>4, <1>5
    <3>2. \A y, z : Ahead(y, z, inbox'[t]) => Ahead(y, z, inbox[t])
      BY <1>4, NoBox
    <3> QED
      BY <1>1, <2>1, <3>1, <3>2 DEF Follows, Before, Sent
  <2> QED
    BY <2>1, OrderKept DEF IInv
<1> QED
  BY <1>7, <1>9, <1>10, <1>11, <1>12, <1>13, <1>14, <1>15 DEF IInv

-----------------------------------------------------------------------------
(* What the multicastds do.                                                *)

\* What a mailbox has after x was added at its end, or taken from its head.
Gains(q, r, x) ==
  /\ \A P : Has(P, r) <=> Has(P, q) \/ x \in P
  /\ \A P : Once(P, q) /\ (x \notin P \/ ~Has(P, q)) => Once(P, r)
  /\ \A y, z : Ahead(y, z, r) <=> Ahead(y, z, q) \/ (z = x /\ Has({y}, q))
Loses(q, r, x) ==
  /\ \A P : Has(P, q) <=> x \in P \/ Has(P, r)
  /\ \A P : Once(P, q) => Once(P, r) /\ (x \in P => ~Has(P, r))
  /\ \A y, z : Ahead(y, z, q) <=> Ahead(y, z, r) \/ (x = y /\ Has({z}, r))
LinksOK == /\ link \in [Nodes -> Seq(ToOwner \cup ToOther)]
           /\ link["A"] \in Seq(ToOwner) /\ link["B"] \in Seq(ToOther)

\* A message from one multicastd to the other.
LEMMA LinkGains ==
  ASSUME LinksOK, NEW d \in Nodes, NEW x, d = "A" => x \in ToOwner, d = "B" => x \in ToOther,
         link' = [link EXCEPT ![d] = Append(@, x)]
  PROVE  LinksOK' /\ Gains(link[d], link'[d], x) /\ \A e \in Nodes \ {d} : link'[e] = link[e]
<1>1. /\ x \in ToOwner \cup ToOther /\ link[d] \in Seq(ToOwner \cup ToOther)
      /\ d = "A" \/ d = "B"
  BY DEF LinksOK, Nodes
<1>2. Append(link[d], x) \in Seq(ToOwner \cup ToOther)
  BY <1>1, Push
<1>3. /\ link' \in [Nodes -> Seq(ToOwner \cup ToOther)] /\ link'[d] = Append(link[d], x)
      /\ \A e \in Nodes \ {d} : link'[e] = link[e]
  BY <1>2 DEF LinksOK
<1>4. Gains(link[d], link'[d], x)
  BY <1>1, <1>3, Push DEF Gains
<1>5. d = "A" => link'["A"] \in Seq(ToOwner) /\ link'["B"] = link["B"]
  BY <1>3, Push DEF LinksOK, Nodes
<1>6. d = "B" => link'["B"] \in Seq(ToOther) /\ link'["A"] = link["A"]
  BY <1>3, Push DEF LinksOK, Nodes
<1> QED
  BY <1>1, <1>3, <1>4, <1>5, <1>6 DEF LinksOK

\* A multicastd takes a message of the other's.
LEMMA LinkLoses ==
  ASSUME LinksOK, NEW d \in Nodes, link[d] # <<>>, link' = [link EXCEPT ![d] = Tail(@)]
  PROVE  /\ LinksOK' /\ Loses(link[d], link'[d], Head(link[d]))
         /\ d = "A" => Head(link[d]) \in ToOwner
         /\ d = "B" => Head(link[d]) \in ToOther
         /\ \A e \in Nodes \ {d} : link'[e] = link[e]
<1>1. link[d] \in Seq(ToOwner \cup ToOther) /\ (d = "A" \/ d = "B")
  BY DEF LinksOK, Nodes
<1>2. Tail(link[d]) \in Seq(ToOwner \cup ToOther)
  BY <1>1, Pop
<1>3. /\ link' \in [Nodes -> Seq(ToOwner \cup ToOther)] /\ link'[d] = Tail(link[d])
      /\ \A e \in Nodes \ {d} : link'[e] = link[e]
  BY <1>2 DEF LinksOK
<1>4. Loses(link[d], link'[d], Head(link[d]))
  BY <1>1, <1>3, Pop DEF Loses
<1>5. d = "A" => link'["A"] \in Seq(ToOwner) /\ link'["B"] = link["B"] /\ Head(link[d]) \in ToOwner
  BY <1>3, Pop DEF LinksOK, Nodes
<1>6. d = "B" => link'["B"] \in Seq(ToOther) /\ link'["A"] = link["A"] /\ Head(link[d]) \in ToOther
  BY <1>3, Pop DEF LinksOK, Nodes
<1> QED
  BY <1>1, <1>3, <1>4, <1>5, <1>6 DEF LinksOK

\* The owner takes a message and sends one.
LEMMA LinkPasses ==
  ASSUME LinksOK, NEW x \in ToOther, link["A"] # <<>>,
         link' = [[link EXCEPT !["A"] = Tail(@)] EXCEPT !["B"] = Append(@, x)]
  PROVE  /\ LinksOK' /\ Loses(link["A"], link'["A"], Head(link["A"])) /\ Gains(link["B"], link'["B"], x)
         /\ Head(link["A"]) \in ToOwner
<1>1. "A" \in Nodes /\ "B" \in Nodes /\ link["A"] \in Seq(ToOwner) /\ link["B"] \in Seq(ToOther)
  BY DEF LinksOK, Nodes
<1>2. Tail(link["A"]) \in Seq(ToOwner) /\ Append(link["B"], x) \in Seq(ToOther)
  BY <1>1, Pop, Push
<1>3. Tail(link["A"]) \in Seq(ToOwner \cup ToOther) /\ Append(link["B"], x) \in Seq(ToOwner \cup ToOther)
  BY <1>2
<1>4. /\ link' \in [Nodes -> Seq(ToOwner \cup ToOther)]
      /\ link'["A"] = Tail(link["A"]) /\ link'["B"] = Append(link["B"], x)
  BY <1>1, <1>3 DEF LinksOK
<1>5. Loses(link["A"], link'["A"], Head(link["A"])) /\ Head(link["A"]) \in ToOwner
  BY <1>1, <1>4, Pop DEF Loses
<1>6. Gains(link["B"], link'["B"], x)
  BY <1>1, <1>4, Push DEF Gains
<1> QED
  BY <1>2, <1>4, <1>5, <1>6 DEF LinksOK

\* A multicastd sends message x to the services of a set and an answer to those of another.
Delivers(to, x, by) ==
  inbox' = [s \in Services |-> LET q == IF s \in to THEN Append(inbox[s], x) ELSE inbox[s]
                               IN  IF s \in by THEN Append(q, <<"ret">>) ELSE q]

\* What their mailboxes then hold: a message comes after all that were there.
LEMMA Delivered ==
  ASSUME MulticastConstants, IInv, NEW d \in Nodes, NEW m, NEW to \in SUBSET (group[d] \ dead),
         NEW by \in SUBSET (Services \ dead), to = {} \/ m \in 1..MaxPub,
         \A s \in by : ~Replied(s), Delivers(to, Msg(m, d), by)
  PROVE  /\ inbox' \in [Services -> Seq(Inbound("A") \cup Inbound("B"))]
         /\ \A s \in Services :
              /\ inbox'[s] \in Seq(Inbound(Home(s))) /\ (s \in dead => inbox'[s] = <<>>)
              /\ \A P : Has(P, inbox'[s]) <=> \/ Has(P, inbox[s])
                                              \/ s \in to /\ Msg(m, d) \in P
                                              \/ s \in by /\ <<"ret">> \in P
              /\ Once({<<"ret">>}, inbox'[s])
              /\ \A a, b \in 1..MaxPub : \A e \in Nodes :
                   Ahead(Msg(a, e), Msg(b, e), inbox'[s]) <=>
                     \/ Ahead(Msg(a, e), Msg(b, e), inbox[s])
                     \/ s \in to /\ Msg(b, e) = Msg(m, d) /\ Has({Msg(a, e)}, inbox[s])
              /\ s \notin known /\ inbox'[s] # <<>> =>
                   Head(inbox'[s]) = <<"ret">> /\ (calling[s] = "SUB" \/ Len(inbox'[s]) = 1)
<1>1. ASSUME NEW s \in Services
      PROVE  /\ inbox'[s] \in Seq(Inbound(Home(s))) /\ (s \in dead => inbox'[s] = <<>>)
             /\ \A P : Has(P, inbox'[s]) <=> \/ Has(P, inbox[s])
                                             \/ s \in to /\ Msg(m, d) \in P
                                             \/ s \in by /\ <<"ret">> \in P
             /\ Once({<<"ret">>}, inbox'[s])
             /\ \A a, b \in 1..MaxPub : \A e \in Nodes :
                  Ahead(Msg(a, e), Msg(b, e), inbox'[s]) <=>
                    \/ Ahead(Msg(a, e), Msg(b, e), inbox[s])
                    \/ s \in to /\ Msg(b, e) = Msg(m, d) /\ Has({Msg(a, e)}, inbox[s])
             /\ s \notin known /\ inbox'[s] # <<>> =>
                  Head(inbox'[s]) = <<"ret">> /\ (calling[s] = "SUB" \/ Len(inbox'[s]) = 1)
  <2> DEFINE q == IF s \in to THEN Append(inbox[s], Msg(m, d)) ELSE inbox[s]
  <2>1. inbox'[s] = IF s \in by THEN Append(q, <<"ret">>) ELSE q
    BY DEF Delivers
  <2>2. inbox[s] \in Seq(Inbound(Home(s))) /\ (s \in dead => inbox[s] = <<>> /\ s \notin to /\ s \notin by)
    BY DEF IInv, BoxesOK
  <2>3. s \in to => Msg(m, d) \in Inbound(Home(s))
    BY DEF Inbound, Home, IInv, TypeOK, Nodes, MulticastConstants
  <2>4. <<"ret">> \in Inbound(Home(s)) /\ Msg(m, d) # <<"ret">> /\ \A a, e : Msg(a, e) # <<"ret">>
    BY DEF Inbound, Msg
  <2>5. /\ q \in Seq(Inbound(Home(s))) /\ (s \notin to => q = inbox[s]) /\ (s \in to => q # <<>>)
        /\ inbox[s] # <<>> => q # <<>> /\ Head(q) = Head(inbox[s])
        /\ \A P : Has(P, q) <=> Has(P, inbox[s]) \/ (s \in to /\ Msg(m, d) \in P)
        /\ \A P : Once(P, inbox[s]) /\ Msg(m, d) \notin P => Once(P, q)
        /\ \A y, z : Ahead(y, z, q) <=> Ahead(y, z, inbox[s]) \/ (s \in to /\ z = Msg(m, d) /\ Has({y}, inbox[s]))
    BY <2>2, <2>3, Push
  <2> HIDE DEF q
  <2>6. /\ inbox'[s] \in Seq(Inbound(Home(s))) /\ (s \notin by => inbox'[s] = q)
        /\ q # <<>> => Head(inbox'[s]) = Head(q)
        /\ s \in by /\ q = <<>> => Head(inbox'[s]) = <<"ret">> /\ Len(inbox'[s]) = 1
        /\ \A P : Has(P, inbox'[s]) <=> Has(P, q) \/ (s \in by /\ <<"ret">> \in P)
        /\ \A P : Once(P, q) /\ (s \notin by \/ <<"ret">> \notin P \/ ~Has(P, q)) => Once(P, inbox'[s])
        /\ \A y, z : Ahead(y, z, inbox'[s]) <=> Ahead(y, z, q) \/ (s \in by /\ z = <<"ret">> /\ Has({y}, q))
    BY <2>1, <2>4, <2>5, Push
  <2>7. Once({<<"ret">>}, inbox'[s])
    <3>1. Once({<<"ret">>}, inbox[s]) /\ Msg(m, d) \notin {<<"ret">>}
      BY <2>4 DEF IInv, OnePlace
    <3>2. s \in by => ~Has({<<"ret">>}, q)
      BY <2>5, <3>1 DEF Replied
    <3> QED
      BY <2>5, <2>6, <3>1, <3>2
  <2>8. ASSUME NEW a \in 1..MaxPub, NEW b \in 1..MaxPub, NEW e \in Nodes
        PROVE  Ahead(Msg(a, e), Msg(b, e), inbox'[s]) <=>
                 \/ Ahead(Msg(a, e), Msg(b, e), inbox[s])
                 \/ s \in to /\ Msg(b, e) = Msg(m, d) /\ Has({Msg(a, e)}, inbox[s])
    BY <2>4, <2>5, <2>6
  <2>9. ASSUME s \notin known, inbox'[s] # <<>>
        PROVE  Head(inbox'[s]) = <<"ret">> /\ (calling[s] = "SUB" \/ Len(inbox'[s]) = 1)
    <3>1. inbox[s] # <<>> => /\ Head(inbox[s]) = <<"ret">> /\ (calling[s] = "SUB" \/ Len(inbox[s]) = 1)
                             /\ Replied(s)
      <4>1. inbox[s] # <<>> => Head(inbox[s]) = <<"ret">> /\ (calling[s] = "SUB" \/ Len(inbox[s]) = 1)
        BY <2>9 DEF IInv, KnownFirst
      <4>2. <<"ret">> \in {<<"ret">>}
        OBVIOUS
      <4> QED
        BY <2>2, <4>1, <4>2, Pop DEF Replied
    <3>2. s \in to => calling[s] = "SUB" /\ inbox[s] # <<>>
      <4>1. s \in to => calling[s] = "SUB" /\ Replied(s)
        BY <2>9 DEF IInv, KnownFirst
      <4> QED
        BY <4>1, NoBox DEF Replied
    <3>3. CASE inbox[s] # <<>>
      BY <2>5, <2>6, <3>1, <3>2, <3>3
    <3>4. CASE inbox[s] = <<>>
      BY <2>5, <2>6, <2>9, <3>2, <3>4
    <3> QED
      BY <3>3, <3>4
  <2> QED
    BY <2>2, <2>5, <2>6, <2>7, <2>8, <2>9
<1>2. inbox' \in [Services -> Seq(Inbound("A") \cup Inbound("B"))]
  <2>1. \A s \in Services : Home(s) \in {"A", "B"}
    BY DEF Home
  <2>2. \A s \in Services : inbox'[s] \in Seq(Inbound("A") \cup Inbound("B"))
    BY <1>1, <2>1
  <2> QED
    BY <2>2 DEF Delivers
<1> QED
  BY <1>1, <1>2

\* The answer to the request of a service, which is dropped when that has exited.
LEMMA AnswerSent ==
  ASSUME MulticastConstants, IInv, NEW s \in Services, ~Replied(s), inbox' = Answer(s, inbox)
  PROVE  /\ inbox' \in [Services -> Seq(Inbound("A") \cup Inbound("B"))]
         /\ \A t \in Services :
              /\ inbox'[t] \in Seq(Inbound(Home(t))) /\ (t \in dead => inbox'[t] = <<>>)
              /\ \A P : Has(P, inbox'[t]) <=> Has(P, inbox[t]) \/ (t = s /\ s \notin dead /\ <<"ret">> \in P)
              /\ Once({<<"ret">>}, inbox'[t])
              /\ t \notin known /\ inbox'[t] # <<>> =>
                   Head(inbox'[t]) = <<"ret">> /\ (calling[t] = "SUB" \/ Len(inbox'[t]) = 1)
         /\ \A t \in Services : \A p \in Packages : Has({<<"msg", p>>}, inbox'[t]) <=> Has({<<"msg", p>>}, inbox[t])
         /\ \A t \in Services : \A a, b \in 1..MaxPub : \A d \in Nodes :
              Ahead(Msg(a, d), Msg(b, d), inbox'[t]) => Ahead(Msg(a, d), Msg(b, d), inbox[t])
<1> DEFINE none == {}  by == {s} \ dead  x == Msg(1, "A")
<1>1. none \in SUBSET (group["A"] \ dead) /\ by \in SUBSET (Services \ dead) /\ "A" \in Nodes /\ none = {}
  BY DEF Nodes
<1>2. Delivers(none, x, by)
  BY DEF Delivers, Answer, IInv, BoxesOK
<1>3. \A t \in by : ~Replied(t)
  OBVIOUS
<1> HIDE DEF none, by
<1>4. /\ inbox' \in [Services -> Seq(Inbound("A") \cup Inbound("B"))]
      /\ \A t \in Services :
           /\ inbox'[t] \in Seq(Inbound(Home(t))) /\ (t \in dead => inbox'[t] = <<>>)
           /\ \A P : Has(P, inbox'[t]) <=> \/ Has(P, inbox[t])
                                           \/ t \in none /\ x \in P
                                           \/ t \in by /\ <<"ret">> \in P
           /\ Once({<<"ret">>}, inbox'[t])
           /\ \A a, b \in 1..MaxPub : \A e \in Nodes :
                Ahead(Msg(a, e), Msg(b, e), inbox'[t]) <=>
                  \/ Ahead(Msg(a, e), Msg(b, e), inbox[t])
                  \/ t \in none /\ Msg(b, e) = x /\ Has({Msg(a, e)}, inbox[t])
           /\ t \notin known /\ inbox'[t] # <<>> =>
                Head(inbox'[t]) = <<"ret">> /\ (calling[t] = "SUB" \/ Len(inbox'[t]) = 1)
  BY <1>1, <1>2, <1>3, Delivered
<1>5. \A t : (t \in by <=> t = s /\ s \notin dead) /\ t \notin none
  BY DEF by, none
<1>6. \A p : <<"ret">> \notin {<<"msg", p>>}
  OBVIOUS
<1> HIDE DEF x
<1>7. ASSUME NEW t \in Services
      PROVE  /\ inbox'[t] \in Seq(Inbound(Home(t))) /\ (t \in dead => inbox'[t] = <<>>)
             /\ Once({<<"ret">>}, inbox'[t])
             /\ t \notin known /\ inbox'[t] # <<>> =>
                  Head(inbox'[t]) = <<"ret">> /\ (calling[t] = "SUB" \/ Len(inbox'[t]) = 1)
  BY <1>4
<1>8. ASSUME NEW t \in Services, NEW P
      PROVE  Has(P, inbox'[t]) <=> Has(P, inbox[t]) \/ (t = s /\ s \notin dead /\ <<"ret">> \in P)
  BY <1>4, <1>5
<1>9. ASSUME NEW t \in Services, NEW p \in Packages
      PROVE  Has({<<"msg", p>>}, inbox'[t]) <=> Has({<<"msg", p>>}, inbox[t])
  BY <1>6, <1>8
<1>10. ASSUME NEW t \in Services, NEW a \in 1..MaxPub, NEW b \in 1..MaxPub, NEW d \in Nodes
       PROVE  Ahead(Msg(a, d), Msg(b, d), inbox'[t]) => Ahead(Msg(a, d), Msg(b, d), inbox[t])
  BY <1>4, <1>5
<1>11. inbox' \in [Services -> Seq(Inbound("A") \cup Inbound("B"))]
  BY <1>4
<1> QED
  BY <1>7, <1>8, <1>9, <1>10, <1>11

\* The end of command.SUB.
LEMMA Joined ==
  ASSUME MulticastConstants, IInv, NEW s \in Services, NEW d \in Nodes, Home(s) = d,
         group' = [group EXCEPT ![d] = @ \cup {s}],
         n' = IF s \in group[d] THEN n ELSE [n EXCEPT ![d] = @ + 1], exists'[d],
         \A e \in Nodes \ {d} : exists'[e] = exists[e]
  PROVE  /\ group' \in [Nodes -> SUBSET Services] /\ group'["A"] \subseteq Local /\ group'["B"] \subseteq Remote
         /\ n' \in [Nodes -> 0..Cardinality(Services)] /\ GroupCounted'
         /\ \A e \in Nodes : \A t \in Services \ {s} : t \in group'[e] <=> t \in group[e]
         /\ \A e \in Nodes : s \in group'[e] => e = d \/ s \in group[e]
<1>1. group \in [Nodes -> SUBSET Services] /\ n \in [Nodes -> 0..Cardinality(Services)] /\ (d = "A" \/ d = "B")
  BY DEF IInv, BoxesOK, TypeOK, Nodes
<1>2. (s \in Local <=> d = "A") /\ (s \in Remote <=> d = "B")
  BY DEF Home, Services, MulticastConstants
<1>3. /\ group' \in [Nodes -> SUBSET Services] /\ group'[d] = group[d] \cup {s}
      /\ \A e \in Nodes \ {d} : group'[e] = group[e]
  BY <1>1
<1>4. group'["A"] \subseteq Local /\ group'["B"] \subseteq Remote
  BY <1>2, <1>3 DEF IInv, TypeOK, Nodes
<1>5. \A e \in Nodes : IsFiniteSet(group[e]) /\ Cardinality(group[e]) \in Nat /\ n[e] = Cardinality(group[e])
  BY <1>1, WaitsFinite, FS_Subset, FS_CardinalityType DEF IInv, GroupCounted
<1>6. IsFiniteSet(group'[d]) /\ Cardinality(group'[d]) <= Cardinality(Services)
  BY <1>3, WaitsFinite, FS_Subset
<1>7. Cardinality(group'[d]) = IF s \in group[d] THEN n[d] ELSE n[d] + 1
  <2>1. Cardinality(group[d] \cup {s}) = IF s \in group[d] THEN Cardinality(group[d]) ELSE Cardinality(group[d]) + 1
    BY <1>5, FS_AddElement
  <2>2. n[d] = Cardinality(group[d]) /\ group'[d] = group[d] \cup {s}
    BY <1>3, <1>5
  <2> QED
    BY <2>1, <2>2
<1>8. n'[d] = Cardinality(group'[d]) /\ \A e \in Nodes \ {d} : n'[e] = n[e]
  BY <1>1, <1>7
<1>9. Cardinality(Services) \in Nat
  BY WaitsFinite
<1>10. n' \in [Nodes -> 0..Cardinality(Services)]
  BY <1>1, <1>5, <1>6, <1>7, <1>8, <1>9
<1>11. GroupCounted'
  BY <1>3, <1>5, <1>8 DEF IInv, GroupCounted
<1> QED
  BY <1>3, <1>4, <1>10, <1>11

\* The end of command.USUB.
LEMMA Left ==
  ASSUME MulticastConstants, IInv, NEW s \in Services, NEW d \in Nodes, s \in group[d],
         group' = [group EXCEPT ![d] = @ \ {s}], n' = [n EXCEPT ![d] = @ - 1],
         exists' = [exists EXCEPT ![d] = ~LastOut(d, s)]
  PROVE  /\ group' \in [Nodes -> SUBSET Services] /\ group'["A"] \subseteq Local /\ group'["B"] \subseteq Remote
         /\ n' \in [Nodes -> 0..Cardinality(Services)] /\ GroupCounted'
         /\ \A e \in Nodes : group'[e] \subseteq group[e]
         /\ d = "A" => exists' = exists
         /\ exists' \in [Nodes -> BOOLEAN] /\ exists'["A"] = exists["A"]
         /\ ~LastOut(d, s) => exists'["B"] = exists["B"]
<1>1. /\ group \in [Nodes -> SUBSET Services] /\ n \in [Nodes -> 0..Cardinality(Services)]
      /\ exists \in [Nodes -> BOOLEAN] /\ exists[d]
  BY DEF IInv, BoxesOK, TypeOK, GroupCounted
<1>2. /\ group' \in [Nodes -> SUBSET Services] /\ group'[d] = group[d] \ {s}
      /\ \A e \in Nodes \ {d} : group'[e] = group[e]
  BY <1>1
<1>3. IsFiniteSet(group[d]) /\ Cardinality(group[d]) \in Nat /\ n[d] = Cardinality(group[d])
  BY <1>1, WaitsFinite, FS_Subset, FS_CardinalityType DEF IInv, GroupCounted
<1>4. IsFiniteSet(group'[d]) /\ Cardinality(group'[d]) = n[d] - 1 /\ Cardinality(group'[d]) \in Nat
  BY <1>2, <1>3, FS_RemoveElement, FS_CardinalityType
<1>5. n' \in [Nodes -> 0..Cardinality(Services)] /\ n'[d] = n[d] - 1 /\ \A e \in Nodes \ {d} : n'[e] = n[e]
  BY <1>1, <1>3, <1>4, WaitsFinite
<1>6. LastOut(d, s) => group'[d] = {}
  BY <1>4, FS_EmptySet DEF LastOut
<1>7. exists' \in [Nodes -> BOOLEAN] /\ exists'[d] = ~LastOut(d, s) /\ \A e \in Nodes \ {d} : exists'[e] = exists[e]
  BY <1>1
<1>8. GroupCounted'
  BY <1>2, <1>4, <1>5, <1>6, <1>7 DEF IInv, GroupCounted
<1>9. "A" \in Nodes /\ "B" \in Nodes
  BY DEF Nodes
<1>10. group'["A"] \subseteq Local /\ group'["B"] \subseteq Remote /\ \A e \in Nodes : group'[e] \subseteq group[e]
  BY <1>2, <1>9 DEF IInv, TypeOK
<1>11. ~LastOut("A", s)
  BY DEF LastOut
<1>12. d = "A" => exists' = exists
  BY <1>1, <1>7, <1>11
<1> QED
  BY <1>1, <1>2, <1>5, <1>7, <1>8, <1>9, <1>10, <1>11, <1>12

\* A service's request is taken without any message published.
LEMMA QuietTook ==
  ASSUME BoxesOK, NEW s \in Services, Took(s)
  PROVE  \A m \in 1..MaxPub : \A t \in Services :
           /\ Sent(m, req'[t]) => Sent(m, req[t])
           /\ Once({<<"PUB", m>>}, req[t]) => Once({<<"PUB", m>>}, req'[t])
BY TookBoxes DEF Sent

\* SUB on a node that has the channel.
LEMMA ServeJoin ==
  ASSUME MulticastConstants, IInv, NEW s \in Services, Took(s), UNCHANGED libVars, Head(req[s]) = <<"SUB">>,
         exists[Home(s)], JoinGroup(Home(s), s), UNCHANGED <<exists, remote, link, memVars>>
  PROVE  IInv'
<1>1. /\ UNCHANGED <<subscribe, known, calling, dead, deleted, pubs, ops, exists, remote, link, refs, closed, lost>>
      /\ inbox' = Answer(s, inbox)
  BY DEF libVars, memVars, JoinGroup
<1>2. /\ req' \in [Services -> Seq(Request)] /\ \A t \in Services \ {s} : req'[t] = req[t]
      /\ \A P : Has(P, req[s]) <=> <<"SUB">> \in P \/ Has(P, req'[s])
      /\ \A P : Once(P, req[s]) => Once(P, req'[s]) /\ (<<"SUB">> \in P => ~Has(P, req'[s]))
  BY TookBoxes DEF IInv
<1>3. <<"SUB">> \in {<<"SUB">>} \cup Pub /\ <<"SUB">> \in {<<"SUB">>} /\ <<"ret">> \in {<<"ret">>}
  OBVIOUS
<1>4. Called(s) /\ calling[s] = "SUB" /\ ~Replied(s) /\ ~Asked(s) /\ ~Told(s) /\ ~Called(s)'
  BY <1>2, <1>3 DEF IInv, CallsWait, OnePlace, Called
<1>5. /\ inbox' \in [Services -> Seq(Inbound("A") \cup Inbound("B"))]
      /\ \A t \in Services :
           /\ inbox'[t] \in Seq(Inbound(Home(t))) /\ (t \in dead => inbox'[t] = <<>>)
           /\ \A P : Has(P, inbox'[t]) <=> Has(P, inbox[t]) \/ (t = s /\ s \notin dead /\ <<"ret">> \in P)
           /\ Once({<<"ret">>}, inbox'[t])
           /\ t \notin known /\ inbox'[t] # <<>> =>
                Head(inbox'[t]) = <<"ret">> /\ (calling[t] = "SUB" \/ Len(inbox'[t]) = 1)
      /\ \A t \in Services : \A p \in Packages : Has({<<"msg", p>>}, inbox'[t]) <=> Has({<<"msg", p>>}, inbox[t])
      /\ \A t \in Services : \A a, b \in 1..MaxPub : \A d \in Nodes :
           Ahead(Msg(a, d), Msg(b, d), inbox'[t]) => Ahead(Msg(a, d), Msg(b, d), inbox[t])
  BY <1>1, <1>4, AnswerSent
<1>6. Home(s) \in Nodes
  BY DEF Home, Nodes
<1>7. /\ group' \in [Nodes -> SUBSET Services] /\ group'["A"] \subseteq Local /\ group'["B"] \subseteq Remote
      /\ n' \in [Nodes -> 0..Cardinality(Services)] /\ GroupCounted'
      /\ \A e \in Nodes : \A t \in Services \ {s} : t \in group'[e] <=> t \in group[e]
  BY <1>1, <1>6, Joined DEF JoinGroup, Join
<1>8. TypeOK'
  BY <1>1, <1>7 DEF IInv, TypeOK
<1>9. BoxesOK'
  BY <1>1, <1>2, <1>5, <1>7 DEF IInv, BoxesOK, Home
<1>10. RemoteRight'
  BY <1>1 DEF IInv, RemoteRight
<1>11. OnePlace' /\ CallsWait'
  BY <1>1, <1>2, <1>3, <1>4, <1>5 DEF IInv, OnePlace, CallsWait, Called, Asked, Told, Replied
<1>12. KnownFirst'
  BY <1>1, <1>3, <1>4, <1>5, <1>7 DEF IInv, KnownFirst, Replied
<1>13. Quiet
  BY <1>1, <1>5, QuietTook DEF Quiet, IInv
<1> QED
  BY <1>7, <1>8, <1>9, <1>10, <1>11, <1>12, <1>13, QuietStep DEF IInv

\* SUB of a channel that was deleted.
LEMMA ServeNoChannel ==
  ASSUME MulticastConstants, IInv, NEW s \in Services, Took(s), UNCHANGED libVars, Head(req[s]) = <<"SUB">>,
         inbox' = Answer(s, inbox), UNCHANGED <<chanVars, remote, link, memVars>>
  PROVE  IInv'
<1>1. UNCHANGED <<subscribe, known, calling, dead, deleted, pubs, ops, exists, group, n, remote, link, refs, closed, lost>>
  BY DEF libVars, memVars, chanVars
<1>2. /\ req' \in [Services -> Seq(Request)] /\ \A t \in Services \ {s} : req'[t] = req[t]
      /\ \A P : Has(P, req[s]) <=> <<"SUB">> \in P \/ Has(P, req'[s])
      /\ \A P : Once(P, req[s]) => Once(P, req'[s]) /\ (<<"SUB">> \in P => ~Has(P, req'[s]))
  BY TookBoxes DEF IInv
<1>3. <<"SUB">> \in {<<"SUB">>} \cup Pub /\ <<"SUB">> \in {<<"SUB">>} /\ <<"ret">> \in {<<"ret">>}
  OBVIOUS
<1>4. Called(s) /\ calling[s] = "SUB" /\ ~Replied(s) /\ ~Asked(s) /\ ~Told(s) /\ ~Called(s)'
  BY <1>2, <1>3 DEF IInv, CallsWait, OnePlace, Called
<1>5. /\ inbox' \in [Services -> Seq(Inbound("A") \cup Inbound("B"))]
      /\ \A t \in Services :
           /\ inbox'[t] \in Seq(Inbound(Home(t))) /\ (t \in dead => inbox'[t] = <<>>)
           /\ \A P : Has(P, inbox'[t]) <=> Has(P, inbox[t]) \/ (t = s /\ s \notin dead /\ <<"ret">> \in P)
           /\ Once({<<"ret">>}, inbox'[t])
           /\ t \notin known /\ inbox'[t] # <<>> =>
                Head(inbox'[t]) = <<"ret">> /\ (calling[t] = "SUB" \/ Len(inbox'[t]) = 1)
      /\ \A t \in Services : \A p \in Packages : Has({<<"msg", p>>}, inbox'[t]) <=> Has({<<"msg", p>>}, inbox[t])
      /\ \A t \in Services : \A a, b \in 1..MaxPub : \A d \in Nodes :
           Ahead(Msg(a, d), Msg(b, d), inbox'[t]) => Ahead(Msg(a, d), Msg(b, d), inbox[t])
  BY <1>4, AnswerSent
<1>8. TypeOK'
  BY <1>1 DEF IInv, TypeOK
<1>9. BoxesOK'
  BY <1>1, <1>2, <1>5 DEF IInv, BoxesOK, Home
<1>10. RemoteRight' /\ GroupCounted'
  BY <1>1 DEF IInv, RemoteRight, GroupCounted
<1>11. OnePlace' /\ CallsWait'
  BY <1>1, <1>2, <1>3, <1>4, <1>5 DEF IInv, OnePlace, CallsWait, Called, Asked, Told, Replied
<1>12. KnownFirst'
  BY <1>1, <1>5 DEF IInv, KnownFirst, Replied
<1>13. Quiet
  BY <1>1, <1>5, QuietTook DEF Quiet, IInv
<1> QED
  BY <1>8, <1>9, <1>10, <1>11, <1>12, <1>13, QuietStep DEF IInv

\* SUB of a channel that the other node does not know: SUBR to the owner.
LEMMA ServeAsk ==
  ASSUME MulticastConstants, IInv, NEW s \in Services, Took(s), UNCHANGED libVars, Head(req[s]) = <<"SUB">>,
         Home(s) = "B", link' = [link EXCEPT !["A"] = Append(@, <<"SUBR", s>>)],
         UNCHANGED <<chanVars, remote, inbox, memVars>>
  PROVE  IInv'
<1> DEFINE x == <<"SUBR", s>>
<1>1. UNCHANGED <<subscribe, known, calling, dead, deleted, pubs, ops, exists, group, n, remote, inbox, refs, closed, lost>>
  BY DEF libVars, memVars, chanVars
<1>2. /\ req' \in [Services -> Seq(Request)] /\ \A t \in Services \ {s} : req'[t] = req[t]
      /\ \A P : Has(P, req[s]) <=> <<"SUB">> \in P \/ Has(P, req'[s])
      /\ \A P : Once(P, req[s]) => Once(P, req'[s]) /\ (<<"SUB">> \in P => ~Has(P, req'[s]))
  BY TookBoxes DEF IInv
<1>3. <<"SUB">> \in {<<"SUB">>} \cup Pub /\ <<"SUB">> \in {<<"SUB">>}
  OBVIOUS
<1>4. Called(s) /\ calling[s] = "SUB" /\ ~Replied(s) /\ ~Asked(s) /\ ~Told(s) /\ ~Called(s)'
  BY <1>2, <1>3 DEF IInv, CallsWait, OnePlace, Called
<1>5. /\ x \in ToOwner /\ x \in {<<"SUBR", s>>} /\ \A t : t # s => x \notin {<<"SUBR", t>>}
      /\ \A m : x \notin {<<"PUB", m>>}
  BY DEF ToOwner, Home, Services
<1>6. LinksOK /\ "A" \in Nodes /\ "B" \in Nodes
  BY DEF IInv, BoxesOK, LinksOK, Nodes
<1>7. LinksOK' /\ Gains(link["A"], link'["A"], x) /\ link'["B"] = link["B"]
  BY <1>5, <1>6, LinkGains
<1> HIDE DEF x
<1>8. TypeOK'
  BY <1>1 DEF IInv, TypeOK
<1>9. BoxesOK'
  BY <1>1, <1>2, <1>7 DEF IInv, BoxesOK, Home, LinksOK
<1>10. RemoteRight' /\ GroupCounted'
  BY <1>1, <1>7 DEF IInv, RemoteRight, GroupCounted, Gains
<1>11. OnePlace' /\ CallsWait'
  BY <1>1, <1>2, <1>3, <1>4, <1>5, <1>7 DEF IInv, OnePlace, CallsWait, Called, Asked, Told,
                                            Replied, Gains
<1>12. KnownFirst'
  BY <1>1 DEF IInv, KnownFirst, Replied
<1>13. \A m \in 1..MaxPub : \A d \in Nodes :
         /\ Sent(m, link'[d]) => Sent(m, link[d])
         /\ Once({<<"PUB", m>>}, link[d]) => Once({<<"PUB", m>>}, link'[d])
  BY <1>5, <1>7 DEF Gains, Sent, Nodes
<1>14. Quiet
  BY <1>1, <1>7, <1>13, QuietTook DEF Quiet, IInv
<1> QED
  BY <1>8, <1>9, <1>10, <1>11, <1>12, <1>14, QuietStep DEF IInv

\* command.DEL's own part.
LEMMA Emptied ==
  ASSUME MulticastConstants, IInv, NEW d \in Nodes, NoChannel(d)
  PROVE  /\ group' \in [Nodes -> SUBSET Services] /\ group'["A"] \subseteq Local /\ group'["B"] \subseteq Remote
         /\ n' \in [Nodes -> 0..Cardinality(Services)] /\ GroupCounted'
         /\ \A e \in Nodes : group'[e] \subseteq group[e]
         /\ exists' \in [Nodes -> BOOLEAN] /\ ~exists'[d] /\ \A e \in Nodes \ {d} : exists'[e] = exists[e]
<1>1. /\ group \in [Nodes -> SUBSET Services] /\ n \in [Nodes -> 0..Cardinality(Services)]
      /\ exists \in [Nodes -> BOOLEAN]
  BY DEF IInv, BoxesOK, TypeOK
<1>2. /\ group' \in [Nodes -> SUBSET Services] /\ group'[d] = {}
      /\ \A e \in Nodes \ {d} : group'[e] = group[e]
  BY <1>1 DEF NoChannel
<1>3. n' \in [Nodes -> 0..Cardinality(Services)] /\ n'[d] = 0 /\ \A e \in Nodes \ {d} : n'[e] = n[e]
  BY <1>1, WaitsFinite DEF NoChannel
<1>4. exists' \in [Nodes -> BOOLEAN] /\ ~exists'[d] /\ \A e \in Nodes \ {d} : exists'[e] = exists[e]
  BY <1>1 DEF NoChannel
<1>5. GroupCounted'
  BY <1>2, <1>3, <1>4, FS_EmptySet DEF IInv, GroupCounted
<1>6. "A" \in Nodes /\ "B" \in Nodes
  BY DEF Nodes
<1>7. group'["A"] \subseteq Local /\ group'["B"] \subseteq Remote /\ \A e \in Nodes : group'[e] \subseteq group[e]
  BY <1>2, <1>6 DEF IInv, TypeOK
<1> QED
  BY <1>2, <1>3, <1>4, <1>5, <1>7

\* USUB.
LEMMA ServeLeave ==
  ASSUME MulticastConstants, IInv, NEW s \in Services, Took(s), UNCHANGED libVars, Head(req[s]) = <<"USUB">>,
         Leave(Home(s), s), UNCHANGED <<remote, inbox, memVars>>
  PROVE  IInv'
<1> DEFINE x == <<"USUBR">>
<1>1. UNCHANGED <<subscribe, known, calling, dead, deleted, pubs, ops, remote, inbox, refs, closed, lost>>
  BY DEF libVars, memVars
<1>2. /\ <<"USUB">> \notin {<<"SUB">>} \cup Pub /\ <<"USUB">> \notin {<<"SUB">>}
      /\ x \in ToOwner /\ (\A t : x \notin {<<"SUBR", t>>}) /\ \A m : x \notin {<<"PUB", m>>}
  BY DEF Pub, ToOwner
<1>3. /\ req' \in [Services -> Seq(Request)] /\ \A t \in Services \ {s} : req'[t] = req[t]
      /\ \A P : Has(P, req[s]) <=> <<"USUB">> \in P \/ Has(P, req'[s])
      /\ \A P : Once(P, req[s]) => Once(P, req'[s])
  BY TookBoxes DEF IInv
<1>4. LinksOK /\ "A" \in Nodes /\ "B" \in Nodes /\ Home(s) \in Nodes
  BY DEF IInv, BoxesOK, LinksOK, Nodes, Home
<1>5. /\ LinksOK' /\ link'["B"] = link["B"]
      /\ Gains(link["A"], link'["A"], x) \/ link' = link
      /\ link' # link => Gains(link["A"], link'["A"], x)
      /\ ~Gains(link["A"], link'["A"], x) => link' = link
  <2>1. link' = link \/ link' = [link EXCEPT !["A"] = Append(@, x)]
    BY DEF Leave
  <2>2. CASE link' = link
    BY <1>4, <2>2 DEF LinksOK
  <2>3. CASE link' = [link EXCEPT !["A"] = Append(@, x)]
    BY <1>2, <1>4, <2>3, LinkGains
  <2> QED
    BY <2>1, <2>2, <2>3
<1>6. /\ group' \in [Nodes -> SUBSET Services] /\ group'["A"] \subseteq Local /\ group'["B"] \subseteq Remote
      /\ n' \in [Nodes -> 0..Cardinality(Services)] /\ GroupCounted'
      /\ \A e \in Nodes : group'[e] \subseteq group[e]
      /\ exists' \in [Nodes -> BOOLEAN] /\ exists'["A"] = exists["A"]
      /\ exists'["B"] = exists["B"] \/ Has({x}, link'["A"])
  <2>1. CASE exists[Home(s)] /\ s \in group[Home(s)]
    <3>1. /\ group' = [group EXCEPT ![Home(s)] = @ \ {s}] /\ n' = [n EXCEPT ![Home(s)] = @ - 1]
          /\ exists' = [exists EXCEPT ![Home(s)] = ~LastOut(Home(s), s)]
          /\ LastOut(Home(s), s) => link' = [link EXCEPT !["A"] = Append(@, x)]
      BY <2>1 DEF Leave
    <3>2. LastOut(Home(s), s) => Has({x}, link'["A"])
      <4>1. x \in {x}
        OBVIOUS
      <4> QED
        BY <1>2, <1>4, <3>1, <4>1, LinkGains DEF Gains
    <3> QED
      BY <1>4, <2>1, <3>1, <3>2, Left
  <2>2. CASE ~(exists[Home(s)] /\ s \in group[Home(s)])
    <3>1. UNCHANGED <<exists, group, n>>
      BY <2>2 DEF Leave, chanVars
    <3> QED
      BY <3>1 DEF IInv, TypeOK, BoxesOK, GroupCounted
  <2> QED
    BY <2>1, <2>2
<1> HIDE DEF x
<1>8. TypeOK'
  BY <1>1, <1>6 DEF IInv, TypeOK
<1>9. BoxesOK'
  BY <1>1, <1>3, <1>5, <1>6 DEF IInv, BoxesOK, Home, LinksOK
<1>10. RemoteRight'
  BY <1>1, <1>5, <1>6 DEF IInv, RemoteRight, Gains, x
<1>11. OnePlace' /\ CallsWait'
  BY <1>1, <1>2, <1>3, <1>5 DEF IInv, OnePlace, CallsWait, Called, Asked, Told, Replied, Gains
<1>12. KnownFirst'
  BY <1>1, <1>6 DEF IInv, KnownFirst, Replied
<1>13. \A m \in 1..MaxPub : \A d \in Nodes :
         /\ Sent(m, link'[d]) => Sent(m, link[d])
         /\ Once({<<"PUB", m>>}, link[d]) => Once({<<"PUB", m>>}, link'[d])
  BY <1>2, <1>5 DEF Gains, Sent, Nodes
<1>14. Quiet
  BY <1>1, <1>5, <1>13, QuietTook DEF Quiet, IInv
<1> QED
  BY <1>6, <1>8, <1>9, <1>10, <1>11, <1>12, <1>14, QuietStep DEF IInv

\* The order of two messages of a mailbox that has got another.
LEMMA GainsAhead ==
  ASSUME NEW q, NEW r, NEW x, NEW y, NEW z, Gains(q, r, x)
  PROVE  Ahead(y, z, r) <=> Ahead(y, z, q) \/ (z = x /\ Has({y}, q))
BY DEF Gains

\* The order of two messages of a mailbox that has lost its first.
LEMMA LosesAhead ==
  ASSUME NEW q, NEW r, NEW x, NEW y, NEW z, Loses(q, r, x)
  PROVE  Ahead(y, z, q) <=> Ahead(y, z, r) \/ (x = y /\ Has({z}, r))
BY DEF Loses

\* DEL on the owner's node.
LEMMA ServeDelete ==
  ASSUME MulticastConstants, IInv, NEW s \in Services, Took(s), UNCHANGED libVars, Head(req[s]) = <<"DEL">>,
         DeleteHere(link), UNCHANGED <<inbox, memVars>>
  PROVE  IInv'
<1> DEFINE x == <<"DELR">>
<1>1. UNCHANGED <<subscribe, known, calling, dead, deleted, pubs, ops, inbox, refs, closed, lost>> /\ remote' = "nil"
  BY DEF libVars, memVars, DeleteHere
<1>2. /\ <<"DEL">> \notin {<<"SUB">>} \cup Pub /\ <<"DEL">> \notin {<<"SUB">>}
      /\ x \in ToOther /\ (\A t : x \notin Subbed(t)) /\ \A m : x \notin {<<"PUB", m>>}
  BY DEF Pub, ToOther, Subbed
<1>3. /\ req' \in [Services -> Seq(Request)] /\ \A t \in Services \ {s} : req'[t] = req[t]
      /\ \A P : Has(P, req[s]) <=> <<"DEL">> \in P \/ Has(P, req'[s])
      /\ \A P : Once(P, req[s]) => Once(P, req'[s])
  BY TookBoxes DEF IInv
<1>4. LinksOK /\ "A" \in Nodes /\ "B" \in Nodes
  BY DEF IInv, BoxesOK, LinksOK, Nodes
<1>5. LinksOK' /\ link'["A"] = link["A"] /\ (Gains(link["B"], link'["B"], x) \/ link'["B"] = link["B"])
  <2>1. link' = link \/ link' = [link EXCEPT !["B"] = Append(@, x)]
    BY DEF DeleteHere
  <2>2. CASE link' = link
    BY <1>4, <2>2 DEF LinksOK
  <2>3. CASE link' = [link EXCEPT !["B"] = Append(@, x)]
    BY <1>2, <1>4, <2>3, LinkGains
  <2> QED
    BY <2>1, <2>2, <2>3
<1>6. /\ group' \in [Nodes -> SUBSET Services] /\ group'["A"] \subseteq Local /\ group'["B"] \subseteq Remote
      /\ n' \in [Nodes -> 0..Cardinality(Services)] /\ GroupCounted'
      /\ \A e \in Nodes : group'[e] \subseteq group[e]
      /\ exists' \in [Nodes -> BOOLEAN] /\ ~exists'["A"]
  BY <1>4, Emptied DEF DeleteHere
<1> HIDE DEF x
<1>8. TypeOK'
  BY <1>1, <1>6 DEF IInv, TypeOK
<1>9. BoxesOK'
  BY <1>1, <1>3, <1>5, <1>6 DEF IInv, BoxesOK, Home, LinksOK
<1>10. RemoteRight'
  BY <1>1, <1>6 DEF RemoteRight
<1>11. OnePlace' /\ CallsWait'
  BY <1>1, <1>2, <1>3, <1>5 DEF IInv, OnePlace, CallsWait, Called, Asked, Told, Replied, Gains
<1>12. KnownFirst'
  BY <1>1, <1>6 DEF IInv, KnownFirst, Replied
<1>13. /\ \A m \in 1..MaxPub : \A d \in Nodes :
            /\ Sent(m, link'[d]) => Sent(m, link[d])
            /\ Once({<<"PUB", m>>}, link[d]) => Once({<<"PUB", m>>}, link'[d])
       /\ \A b \in 1..MaxPub : x # <<"PUB", b>>
  <2>1. \A b \in 1..MaxPub : x # <<"PUB", b>>
    BY <1>2
  <2>2. \A m \in 1..MaxPub : /\ Sent(m, link'["B"]) => Sent(m, link["B"])
                             /\ Once({<<"PUB", m>>}, link["B"]) => Once({<<"PUB", m>>}, link'["B"])
    BY <1>2, <1>5 DEF Gains, Sent
  <2> QED
    BY <1>5, <2>1, <2>2 DEF Nodes
<1>14. \A a, b \in 1..MaxPub :
         Ahead(<<"PUB", a>>, <<"PUB", b>>, link'["B"]) => Ahead(<<"PUB", a>>, <<"PUB", b>>, link["B"])
  <2> SUFFICES ASSUME NEW a \in 1..MaxPub, NEW b \in 1..MaxPub, Ahead(<<"PUB", a>>, <<"PUB", b>>, link'["B"])
               PROVE  Ahead(<<"PUB", a>>, <<"PUB", b>>, link["B"])
    OBVIOUS
  <2>1. CASE Gains(link["B"], link'["B"], x)
    <3>1. Ahead(<<"PUB", a>>, <<"PUB", b>>, link'["B"]) <=>
            Ahead(<<"PUB", a>>, <<"PUB", b>>, link["B"]) \/ (<<"PUB", b>> = x /\ Has({<<"PUB", a>>}, link["B"]))
      BY <2>1, GainsAhead
    <3> QED
      BY <1>13, <3>1
  <2> QED
    BY <1>5, <2>1
<1>15. Quiet
  BY <1>1, <1>13, <1>14, QuietTook DEF Quiet, IInv
<1> QED
  BY <1>6, <1>8, <1>9, <1>10, <1>11, <1>12, <1>15, QuietStep DEF IInv

\* DEL on the other node, which passes it on.
LEMMA ServeDeleteThere ==
  ASSUME MulticastConstants, IInv, NEW s \in Services, Took(s), UNCHANGED libVars, Head(req[s]) = <<"DEL">>,
         link' = [link EXCEPT !["A"] = Append(@, <<"DEL">>)], UNCHANGED <<chanVars, remote, inbox, memVars>>
  PROVE  IInv'
<1> DEFINE x == <<"DEL">>
<1>1. UNCHANGED <<subscribe, known, calling, dead, deleted, pubs, ops, exists, group, n, remote, inbox, refs, closed, lost>>
  BY DEF libVars, memVars, chanVars
<1>2. /\ x \notin {<<"SUB">>} \cup Pub /\ x \notin {<<"SUB">>}
      /\ x \in ToOwner /\ (\A t : x \notin {<<"SUBR", t>>}) /\ \A m : x \notin {<<"PUB", m>>}
  BY DEF Pub, ToOwner
<1>3. /\ req' \in [Services -> Seq(Request)] /\ \A t \in Services \ {s} : req'[t] = req[t]
      /\ \A P : Has(P, req[s]) <=> x \in P \/ Has(P, req'[s])
      /\ \A P : Once(P, req[s]) => Once(P, req'[s])
  BY TookBoxes DEF IInv
<1>4. LinksOK /\ "A" \in Nodes /\ "B" \in Nodes
  BY DEF IInv, BoxesOK, LinksOK, Nodes
<1>5. LinksOK' /\ link'["B"] = link["B"] /\ Gains(link["A"], link'["A"], x)
  BY <1>2, <1>4, LinkGains
<1> HIDE DEF x
<1>8. TypeOK'
  BY <1>1 DEF IInv, TypeOK
<1>9. BoxesOK'
  BY <1>1, <1>3, <1>5 DEF IInv, BoxesOK, Home, LinksOK
<1>10. RemoteRight' /\ GroupCounted'
  BY <1>1, <1>5 DEF IInv, RemoteRight, GroupCounted, Gains
<1>11. OnePlace' /\ CallsWait'
  BY <1>1, <1>2, <1>3, <1>5 DEF IInv, OnePlace, CallsWait, Called, Asked, Told, Replied, Gains
<1>12. KnownFirst'
  BY <1>1 DEF IInv, KnownFirst, Replied
<1>13. \A m \in 1..MaxPub : \A d \in Nodes :
         /\ Sent(m, link'[d]) => Sent(m, link[d])
         /\ Once({<<"PUB", m>>}, link[d]) => Once({<<"PUB", m>>}, link'[d])
  BY <1>2, <1>5 DEF Gains, Sent, Nodes
<1>14. Quiet
  BY <1>1, <1>5, <1>13, QuietTook DEF Quiet, IInv
<1> QED
  BY <1>8, <1>9, <1>10, <1>11, <1>12, <1>14, QuietStep DEF IInv

\* PUB on the other node: the owner is to publish the message.
LEMMA ServePublishThere ==
  ASSUME MulticastConstants, IInv, NEW s \in Services, NEW m \in 1..MaxPub, Took(s), UNCHANGED libVars,
         Head(req[s]) = <<"PUB", m>>, PublishThere(<<"PUB", m>>, s)
  PROVE  IInv'
<1> DEFINE x == <<"PUB", m>>
<1>1. /\ UNCHANGED <<subscribe, known, calling, dead, deleted, pubs, ops, exists, group, n, remote, refs, closed, lost>>
      /\ link' = [link EXCEPT !["A"] = Append(@, x)] /\ inbox' = Answer(s, inbox)
  BY DEF libVars, memVars, chanVars, PublishThere
<1>2. /\ x \in {<<"SUB">>} \cup Pub /\ x \notin {<<"SUB">>} /\ x \in {x}
      /\ x \in ToOwner /\ (\A t : x \notin {<<"SUBR", t>>}) /\ (\A k : k # m => x \notin {<<"PUB", k>>})
      /\ x \notin {<<"USUBR">>} /\ <<"ret">> \in {<<"ret">>}
  BY DEF Pub, ToOwner
<1> HIDE DEF x
<1>3. /\ req' \in [Services -> Seq(Request)] /\ \A t \in Services \ {s} : req'[t] = req[t]
      /\ \A P : Has(P, req[s]) <=> x \in P \/ Has(P, req'[s])
      /\ \A P : Once(P, req[s]) => Once(P, req'[s]) /\ (x \in P => ~Has(P, req'[s]))
  BY TookBoxes DEF IInv, x
<1>4. LinksOK /\ "A" \in Nodes /\ "B" \in Nodes
  BY DEF IInv, BoxesOK, LinksOK, Nodes
<1>5. LinksOK' /\ link'["B"] = link["B"] /\ Gains(link["A"], link'["A"], x)
  BY <1>1, <1>2, <1>4, LinkGains
<1>6. Called(s) /\ calling[s] # "no" /\ ~Replied(s) /\ ~Asked(s) /\ ~Told(s) /\ ~Called(s)'
  BY <1>2, <1>3 DEF IInv, CallsWait, OnePlace, Called
<1>7. /\ inbox' \in [Services -> Seq(Inbound("A") \cup Inbound("B"))]
      /\ \A t \in Services :
           /\ inbox'[t] \in Seq(Inbound(Home(t))) /\ (t \in dead => inbox'[t] = <<>>)
           /\ \A P : Has(P, inbox'[t]) <=> Has(P, inbox[t]) \/ (t = s /\ s \notin dead /\ <<"ret">> \in P)
           /\ Once({<<"ret">>}, inbox'[t])
           /\ t \notin known /\ inbox'[t] # <<>> =>
                Head(inbox'[t]) = <<"ret">> /\ (calling[t] = "SUB" \/ Len(inbox'[t]) = 1)
      /\ \A t \in Services : \A p \in Packages : Has({<<"msg", p>>}, inbox'[t]) <=> Has({<<"msg", p>>}, inbox[t])
      /\ \A t \in Services : \A a, b \in 1..MaxPub : \A d \in Nodes :
           Ahead(Msg(a, d), Msg(b, d), inbox'[t]) => Ahead(Msg(a, d), Msg(b, d), inbox[t])
  BY <1>1, <1>6, AnswerSent
<1>8. TypeOK'
  BY <1>1 DEF IInv, TypeOK
<1>9. BoxesOK'
  BY <1>1, <1>3, <1>5, <1>7 DEF IInv, BoxesOK, Home, LinksOK
<1>10. RemoteRight' /\ GroupCounted'
  BY <1>1, <1>5 DEF IInv, RemoteRight, GroupCounted, Gains
<1>11. OnePlace' /\ CallsWait'
  BY <1>1, <1>2, <1>3, <1>5, <1>6, <1>7 DEF IInv, OnePlace, CallsWait, Called, Asked, Told,
                                            Replied, Gains
<1>12. KnownFirst'
  BY <1>1, <1>7 DEF IInv, KnownFirst, Replied
<1>13. PackageCounted'
  <2>1. \A p \in Packages : Waits(p)' = Waits(p)
    BY <1>7 DEF Waits
  <2> QED
    BY <1>1, <2>1 DEF IInv, PackageCounted
<1>14. Ordered'
  <2>1. ASSUME NEW t \in Services, NEW a \in 1..MaxPub, NEW b \in 1..MaxPub, Follows(t, a, b)'
        PROVE  Follows(t, a, b)
    <3>1. Home(t) \in Nodes /\ <<a, "B">> \in Packages /\ Msg(a, "B") = <<"msg", <<a, "B">>>>
      BY DEF Home, Nodes, Packages, Msg
    <3>2. Has({Msg(a, "B")}, inbox'[t]) => Has({Msg(a, "B")}, inbox[t])
      BY <1>7, <3>1
    <3>3. Ahead(Msg(a, Home(t)), Msg(b, Home(t)), inbox'[t]) => Ahead(Msg(a, Home(t)), Msg(b, Home(t)), inbox[t])
      BY <1>7, <3>1
    <3> QED
      BY <1>5, <2>1, <3>2, <3>3 DEF Follows, Before, Sent
  <2> QED
    BY <2>1, OrderKept DEF IInv
<1>15. PublishedOnce'
  <2>1. Sent(m, req[s]) /\ ~Sent(m, req'[s])
    BY <1>2, <1>3 DEF IInv, PublishedOnce, Sent, x
  <2>2. m <= pubs /\ Unpublished(m) /\ ~Sent(m, link["A"]) /\ \A t \in Services \ {s} : ~Sent(m, req[t])
    BY <2>1 DEF IInv, PublishedOnce
  <2>3. \A k \in 1..MaxPub : /\ NoCopy(<<k, "A">>) => NoCopy(<<k, "A">>)'
                             /\ NoCopy(<<k, "B">>) => NoCopy(<<k, "B">>)'
    BY <1>1, <1>4, <1>7 DEF NoCopy, Packages
  <2>4. \A k \in 1..MaxPub : Unpublished(k) => Unpublished(k)'
    BY <1>5, <2>3 DEF Unpublished
  <2>5. \A k \in 1..MaxPub : Sent(k, link'["A"]) <=> Sent(k, link["A"]) \/ k = m
    BY <1>2, <1>5 DEF Gains, Sent, x
  <2>6. \A k \in 1..MaxPub : Once({<<"PUB", k>>}, link'["A"])
    BY <1>2, <1>5, <2>2 DEF Gains, Sent, IInv, PublishedOnce, x
  <2>7. \A k \in 1..MaxPub : \A t \in Services : /\ Sent(k, req'[t]) => Sent(k, req[t]) /\ (k # m \/ t # s)
                                                 /\ Once({<<"PUB", k>>}, req'[t])
    BY <2>1, QuietTook DEF IInv, PublishedOnce
  <2>8. \A k \in 1..MaxPub : \A t \in Services : Sent(k, req'[t]) => k # m
    BY <2>2, <2>7
  <2> QED
    BY <1>1, <1>5, <2>2, <2>3, <2>4, <2>5, <2>6, <2>7, <2>8 DEF IInv, PublishedOnce
<1> QED
  BY <1>8, <1>9, <1>10, <1>11, <1>12, <1>13, <1>14, <1>15 DEF IInv

-----------------------------------------------------------------------------
(* A message is published on a node.                                       *)

\* Those who get message m on node d, which had no copy of it; a by is answered.
Published(m, d, to, by) ==
  /\ to = group[d] \ dead
  /\ IF ~exists[d] \/ group[d] = {}
     THEN closed' = closed \cup {<<m, d>>} /\ UNCHANGED <<refs, lost>>
     ELSE /\ refs' = [refs EXCEPT ![<<m, d>>] = n[d]] /\ UNCHANGED closed
          /\ lost' = [lost EXCEPT ![<<m, d>>] = @ + Cardinality(group[d] \cap dead)]
  /\ Delivers(to, Msg(m, d), by)

\* multicastd's publish does that.
LEMMA SpreadDelivers ==
  ASSUME IInv, NEW d \in Nodes, NEW m \in 1..MaxPub, NEW by \in SUBSET Services,
         by = {} \/ \E s \in Services : by = {s}, Spread(d, <<m, d>>, by)
  PROVE  Published(m, d, group[d] \ dead, by \ dead)
<1> DEFINE to == group[d] \ dead
           sent == [s \in Services |-> IF s \in to THEN Append(inbox[s], <<"msg", <<m, d>>>>) ELSE inbox[s]]
<1>1. inbox' = IF by = {} THEN sent ELSE Answer(CHOOSE s \in by : TRUE, sent)
  BY DEF Spread
<1>2. /\ IF ~exists[d] \/ group[d] = {}
         THEN closed' = closed \cup {<<m, d>>} /\ UNCHANGED <<refs, lost>>
         ELSE /\ refs' = [refs EXCEPT ![<<m, d>>] = n[d]] /\ UNCHANGED closed
              /\ lost' = [lost EXCEPT ![<<m, d>>] = @ + Cardinality(group[d] \cap dead)]
  BY DEF Spread, Bind
<1>3. Delivers(to, Msg(m, d), by \ dead)
  <2>1. CASE by = {}
    BY <1>1, <2>1 DEF Delivers, Msg
  <2>2. ASSUME NEW s \in Services, by = {s} PROVE Delivers(to, Msg(m, d), by \ dead)
    <3>1. inbox' = Answer(s, sent)
      BY <1>1, <2>2
    <3>2. CASE s \in dead
      BY <3>1, <3>2, <2>2 DEF Delivers, Msg, Answer
    <3>3. CASE s \notin dead
      BY <3>1, <3>3, <2>2 DEF Delivers, Msg, Answer
    <3> QED
      BY <3>2, <3>3
  <2> QED
    BY <2>1, <2>2
<1> QED
  BY <1>2, <1>3 DEF Published

\* The counts of packages.
LEMMA PublishedCounts ==
  ASSUME MulticastConstants, IInv, NEW d \in Nodes, NEW m \in 1..MaxPub, NEW to, NEW by,
         NoCopy(<<m, d>>), Published(m, d, to, by),
         \A s \in Services : \A p \in Packages :
           Has({<<"msg", p>>}, inbox'[s]) <=> Has({<<"msg", p>>}, inbox[s]) \/ (s \in to /\ p = <<m, d>>)
  PROVE  /\ refs' \in [Packages -> 0..Cardinality(Services)] /\ lost' \in [Packages -> 0..Cardinality(Services)]
         /\ closed' \subseteq Packages
         /\ PackageCounted'
         /\ \A p \in Packages : p # <<m, d>> /\ NoCopy(p) => NoCopy(p)'
<1> DEFINE q == <<m, d>>  g == group[d]  size == Cardinality(Services)
<1>1. q \in Packages /\ g \in SUBSET Services /\ dead \subseteq Services
  BY DEF Packages, IInv, BoxesOK, TypeOK
<1>2. /\ refs \in [Packages -> 0..size] /\ lost \in [Packages -> 0..size] /\ closed \subseteq Packages
      /\ refs[q] = 0 /\ lost[q] = 0 /\ q \notin closed
  BY DEF IInv, TypeOK, NoCopy
<1>3. IsFiniteSet(g) /\ IsFiniteSet(to) /\ IsFiniteSet(g \cap dead) /\ to = g \ dead
  BY <1>1, WaitsFinite, FS_Subset DEF Published
<1>4. /\ Cardinality(g) = Cardinality(to) + Cardinality(g \cap dead)
      /\ Cardinality(to) \in Nat /\ Cardinality(g \cap dead) \in Nat /\ Cardinality(g) \in Nat
  <2>1. to \cup (g \cap dead) = g /\ to \cap (g \cap dead) = {}
    BY <1>3
  <2>2. Cardinality(to \cup (g \cap dead)) = Cardinality(to) + Cardinality(g \cap dead) - Cardinality(to \cap (g \cap dead))
    BY <1>3, FS_Union
  <2>3. Cardinality(to \cap (g \cap dead)) = 0
    BY <2>1, FS_EmptySet
  <2>4. Cardinality(to) \in Nat /\ Cardinality(g \cap dead) \in Nat /\ Cardinality(g) \in Nat
    BY <1>3, FS_CardinalityType
  <2>5. Cardinality(to) + Cardinality(g \cap dead) - 0 = Cardinality(to) + Cardinality(g \cap dead)
    BY <2>4
  <2>6. Cardinality(g) = Cardinality(to \cup (g \cap dead))
    BY <2>1
  <2> QED
    BY <2>2, <2>3, <2>4, <2>5, <2>6
<1>5. n[d] = Cardinality(g) /\ Cardinality(g) <= size /\ size \in Nat /\ Cardinality(g \cap dead) <= Cardinality(g)
  BY <1>1, <1>4, WaitsFinite, FS_Subset DEF IInv, GroupCounted
<1>6. Waits(q)' = to
  <2>1. \A s \in Services : ~Has({<<"msg", q>>}, inbox[s])
    BY DEF NoCopy
  <2>2. to \subseteq Services
    BY <1>1, <1>3
  <2> QED
    BY <1>1, <2>1, <2>2 DEF Waits
<1>7. \A p \in Packages \ {q} : Waits(p)' = Waits(p)
  BY DEF Waits
<1>8. CASE ~exists[d] \/ g = {}
  <2>1. closed' = closed \cup {q} /\ UNCHANGED <<refs, lost>>
    BY <1>8 DEF Published
  <2>2. to = {}
    BY <1>3, <1>8 DEF IInv, GroupCounted
  <2>3. Cardinality(Waits(q)') = 0
    BY <1>6, <2>2, FS_EmptySet
  <2>4. PackageCounted'
    BY <1>2, <1>7, <2>1, <2>3 DEF IInv, PackageCounted
  <2> QED
    BY <1>1, <1>2, <2>1, <2>4 DEF NoCopy
<1>9. CASE ~(~exists[d] \/ g = {})
  <2>1. /\ refs' = [refs EXCEPT ![q] = n[d]] /\ closed' = closed
        /\ lost' = [lost EXCEPT ![q] = @ + Cardinality(g \cap dead)]
    BY <1>9 DEF Published
  <2> HIDE DEF q, g, size
  <2>2. /\ refs'[q] = n[d] /\ lost'[q] = Cardinality(g \cap dead)
        /\ \A p \in Packages \ {q} : refs'[p] = refs[p] /\ lost'[p] = lost[p]
    BY <1>1, <1>2, <1>4, <2>1
  <2>3. refs' \in [Packages -> 0..size] /\ lost' \in [Packages -> 0..size]
    BY <1>1, <1>2, <1>4, <1>5, <2>1, <2>2
  <2>4. PackageCounted'
    <3>1. refs'[q] = Cardinality(Waits(q)') + lost'[q]
      BY <1>4, <1>5, <1>6, <2>2
    <3>2. \A p \in Packages \ {q} : refs'[p] = Cardinality(Waits(p)') + lost'[p] /\ (p \in closed' => refs'[p] = 0)
      BY <1>7, <2>1, <2>2 DEF IInv, PackageCounted
    <3> QED
      BY <1>2, <2>1, <3>1, <3>2 DEF PackageCounted
  <2>5. \A p \in Packages : p # q /\ NoCopy(p) => NoCopy(p)'
    BY <2>1, <2>2 DEF NoCopy, q
  <2> QED
    BY <1>2, <2>1, <2>3, <2>4, <2>5 DEF q, size
<1> QED
  BY <1>8, <1>9

\* Messages in order are there.
LEMMA AheadHas ==
  ASSUME NEW q, NEW y, NEW z, Ahead(y, z, q)
  PROVE  Has({y}, q) /\ Has({z}, q)
<1>1. PICK i \in 1..Len(q), j \in 1..Len(q) : q[i] = y /\ q[j] = z
  BY DEF Ahead
<1> QED
  BY <1>1 DEF Has

\* A message that the owner publishes comes after all others, everywhere.
LEMMA PublishedLast ==
  ASSUME MulticastConstants, IInv, NEW m \in 1..MaxPub, NEW to, NEW by, UNCHANGED pubs, m <= pubs, Unpublished(m),
         Published(m, "A", to, by),
         \A s \in Services : \A p \in Packages :
           Has({<<"msg", p>>}, inbox'[s]) <=> Has({<<"msg", p>>}, inbox[s]) \/ (s \in to /\ p = <<m, "A">>),
         \A s \in Services : \A a, b \in 1..MaxPub : \A e \in Nodes :
           Ahead(Msg(a, e), Msg(b, e), inbox'[s]) <=>
             \/ Ahead(Msg(a, e), Msg(b, e), inbox[s])
             \/ s \in to /\ Msg(b, e) = Msg(m, "A") /\ Has({Msg(a, e)}, inbox[s]),
         \A k \in 1..MaxPub : \A s \in Services : /\ Sent(k, req'[s]) => Sent(k, req[s]) /\ k # m
                                                  /\ Once({<<"PUB", k>>}, req'[s]),
         \A k \in 1..MaxPub : /\ Sent(k, link'["A"]) => Sent(k, link["A"]) /\ k # m
                              /\ Once({<<"PUB", k>>}, link'["A"]),
         Gains(link["B"], link'["B"], <<"PUB", m>>) \/ link'["B"] = link["B"]
  PROVE  PublishedOnce' /\ Ordered'
<1>1. "A" \in Nodes /\ "B" \in Nodes /\ \A k \in 1..MaxPub : <<k, "A">> \in Packages /\ <<k, "B">> \in Packages
  BY DEF Nodes, Packages
<1>2. NoCopy(<<m, "A">>) /\ NoCopy(<<m, "B">>) /\ ~Sent(m, link["B"])
  BY DEF Unpublished
<1>3. \A p \in Packages : p # <<m, "A">> /\ NoCopy(p) => NoCopy(p)'
  BY <1>1, <1>2, PublishedCounts
<1>4. \A k \in 1..MaxPub : /\ NoCopy(<<k, "A">>) /\ k # m => NoCopy(<<k, "A">>)'
                           /\ NoCopy(<<k, "B">>) => NoCopy(<<k, "B">>)'
  <2>1. \A k : <<k, "B">> # <<m, "A">> /\ (k # m => <<k, "A">> # <<m, "A">>)
    OBVIOUS
  <2> QED
    BY <1>1, <1>3, <2>1
<1>5. \A k \in 1..MaxPub : /\ Sent(k, link'["B"]) => Sent(k, link["B"]) \/ k = m
                           /\ Once({<<"PUB", k>>}, link["B"]) => Once({<<"PUB", k>>}, link'["B"])
  <2>1. \A k : (<<"PUB", m>> \in {<<"PUB", k>>}) <=> k = m
    OBVIOUS
  <2>2. CASE Gains(link["B"], link'["B"], <<"PUB", m>>)
    BY <1>2, <2>1, <2>2 DEF Gains, Sent
  <2> QED
    BY <2>2
<1>6. PublishedOnce'
  <2>1. \A k \in 1..MaxPub : Unpublished(k) /\ k # m => Unpublished(k)'
    BY <1>4, <1>5 DEF Unpublished
  <2>2. \A k \in 1..MaxPub : k > pubs => k # m
    BY DEF IInv, TypeOK
  <2>3. \A k \in 1..MaxPub : Sent(k, link'["B"]) => NoCopy(<<k, "B">>)'
    BY <1>2, <1>4, <1>5 DEF IInv, PublishedOnce
  <2> QED
    BY <1>5, <2>1, <2>2, <2>3 DEF IInv, PublishedOnce
<1>7. ASSUME NEW s \in Services, NEW a \in 1..MaxPub, NEW b \in 1..MaxPub, Follows(s, a, b)'
      PROVE  (Follows(s, a, b) \/ b = m) /\ a # m
  <2>1. Home(s) \in Nodes /\ (Msg(b, Home(s)) = Msg(m, "A") => b = m)
    BY DEF Home, Nodes, Msg
  <2>2. \A k \in 1..MaxPub : \A d \in Nodes : Msg(k, d) = <<"msg", <<k, d>>>> /\ <<k, d>> \in Packages
    BY DEF Msg, Packages
  <2>3. \A d \in Nodes : ~Has({Msg(m, d)}, inbox[s])
    BY <1>2, <2>2 DEF NoCopy, Nodes
  <2>4. Has({Msg(a, "B")}, inbox'[s]) => Has({Msg(a, "B")}, inbox[s])
    <3>1. Msg(a, "B") = <<"msg", <<a, "B">>>> /\ <<a, "B">> \in Packages /\ <<a, "B">> # <<m, "A">>
      BY <1>1, <2>2
    <3> QED
      BY <3>1
  <2>5. CASE Before(s, a, b)'
    <3>1. \/ Ahead(Msg(a, Home(s)), Msg(b, Home(s)), inbox[s])
          \/ b = m /\ Has({Msg(a, Home(s))}, inbox[s])
      BY <2>1, <2>5 DEF Before
    <3>2. Has({Msg(a, Home(s))}, inbox[s])
      BY <3>1, AheadHas
    <3>3. a # m
      BY <2>1, <2>3, <3>2
    <3> QED
      BY <3>1, <3>3 DEF Follows, Before
  <2>6. CASE s \in Remote /\ Has({Msg(a, "B")}, inbox'[s]) /\ Sent(b, link'["B"])
    <3>1. Has({Msg(a, "B")}, inbox[s]) /\ a # m
      BY <1>1, <2>3, <2>4, <2>6
    <3> QED
      BY <1>5, <2>6, <3>1 DEF Follows
  <2>7. CASE s \in Remote /\ Ahead(<<"PUB", a>>, <<"PUB", b>>, link'["B"])
    <3>1. \/ Ahead(<<"PUB", a>>, <<"PUB", b>>, link["B"])
          \/ <<"PUB", b>> = <<"PUB", m>> /\ Has({<<"PUB", a>>}, link["B"])
      BY <2>7, GainsAhead
    <3>2. Has({<<"PUB", a>>}, link["B"])
      BY <3>1, AheadHas
    <3>3. a # m
      BY <1>2, <3>2 DEF Sent
    <3> QED
      BY <2>7, <3>1, <3>3 DEF Follows
  <2> QED
    BY <1>7, <2>5, <2>6, <2>7 DEF Follows
<1>8. Ordered'
  <2> SUFFICES ASSUME NEW s \in Services, NEW t \in Services, NEW a \in 1..MaxPub, NEW b \in 1..MaxPub,
                      Follows(s, a, b)', Follows(t, b, a)'
               PROVE  FALSE
    BY DEF Ordered
  <2>1. Follows(s, a, b) /\ Follows(t, b, a)
    BY <1>7
  <2> QED
    BY <2>1 DEF IInv, Ordered
<1> QED
  BY <1>6, <1>8

\* PUB on the owner's node.
LEMMA ServePublish ==
  ASSUME MulticastConstants, IInv, NEW s \in Services, NEW m \in 1..MaxPub, Took(s), UNCHANGED libVars,
         Head(req[s]) = <<"PUB", m>>, PublishHere(m, {s}, link)
  PROVE  IInv'
<1> DEFINE x == <<"PUB", m>>  to == group["A"] \ dead  by == {s} \ dead
<1>1. /\ UNCHANGED <<subscribe, known, calling, dead, deleted, pubs, ops, exists, group, n, remote>>
      /\ link' = [link EXCEPT !["B"] = IF remote = "yes" THEN Append(@, x) ELSE @]
      /\ Spread("A", <<m, "A">>, {s})
  BY DEF libVars, chanVars, PublishHere
<1>2. /\ x \in {<<"SUB">>} \cup Pub /\ x \notin {<<"SUB">>} /\ x \in {x}
      /\ x \in ToOther /\ (\A t : x \notin Subbed(t)) /\ <<"ret">> \in {<<"ret">>}
      /\ x \notin {<<"DELR">>} \cup {<<"SUBBED", t, FALSE>> : t \in Remote}
  BY DEF Pub, ToOther, Subbed
<1> HIDE DEF x
<1>3. /\ req' \in [Services -> Seq(Request)] /\ \A t \in Services \ {s} : req'[t] = req[t]
      /\ \A P : Has(P, req[s]) <=> x \in P \/ Has(P, req'[s])
      /\ \A P : Once(P, req[s]) => Once(P, req'[s]) /\ (x \in P => ~Has(P, req'[s]))
  BY TookBoxes DEF IInv, x
<1>4. LinksOK /\ "A" \in Nodes /\ "B" \in Nodes
  BY DEF IInv, BoxesOK, LinksOK, Nodes
<1>5. LinksOK' /\ link'["A"] = link["A"] /\ (Gains(link["B"], link'["B"], x) \/ link'["B"] = link["B"])
  <2>1. CASE remote = "yes"
    <3>1. link' = [link EXCEPT !["B"] = Append(@, x)]
      BY <1>1, <2>1
    <3> QED
      BY <1>2, <1>4, <3>1, LinkGains
  <2>2. CASE remote # "yes"
    <3>1. link' = link
      BY <1>1, <1>4, <2>2 DEF LinksOK
    <3> QED
      BY <1>4, <3>1 DEF LinksOK
  <2> QED
    BY <2>1, <2>2
<1>6. Called(s) /\ calling[s] # "no" /\ ~Replied(s) /\ ~Asked(s) /\ ~Told(s) /\ ~Called(s)'
  BY <1>2, <1>3 DEF IInv, CallsWait, OnePlace, Called
<1>7. Published(m, "A", to, by)
  BY <1>1, <1>4, SpreadDelivers
<1>71. to \in SUBSET (group["A"] \ dead) /\ by \in SUBSET (Services \ dead) /\ \A t \in by : ~Replied(t)
  BY <1>6
<1>72. \A t \in by : t = s
  OBVIOUS
<1>73. \A t \in to : t \in group["A"]
  OBVIOUS
<1> HIDE DEF to, by
<1>8. /\ inbox' \in [Services -> Seq(Inbound("A") \cup Inbound("B"))]
      /\ \A t \in Services :
           /\ inbox'[t] \in Seq(Inbound(Home(t))) /\ (t \in dead => inbox'[t] = <<>>)
           /\ \A P : Has(P, inbox'[t]) <=> \/ Has(P, inbox[t])
                                           \/ t \in to /\ Msg(m, "A") \in P
                                           \/ t \in by /\ <<"ret">> \in P
           /\ Once({<<"ret">>}, inbox'[t])
           /\ \A a, b \in 1..MaxPub : \A e \in Nodes :
                Ahead(Msg(a, e), Msg(b, e), inbox'[t]) <=>
                  \/ Ahead(Msg(a, e), Msg(b, e), inbox[t])
                  \/ t \in to /\ Msg(b, e) = Msg(m, "A") /\ Has({Msg(a, e)}, inbox[t])
           /\ t \notin known /\ inbox'[t] # <<>> =>
                Head(inbox'[t]) = <<"ret">> /\ (calling[t] = "SUB" \/ Len(inbox'[t]) = 1)
  <2>1. Delivers(to, Msg(m, "A"), by)
    BY <1>7 DEF Published
  <2> QED
    BY <1>4, <1>71, <2>1, Delivered
<1>9. \A t \in Services : \A p \in Packages :
        Has({<<"msg", p>>}, inbox'[t]) <=> Has({<<"msg", p>>}, inbox[t]) \/ (t \in to /\ p = <<m, "A">>)
  <2>1. \A p : <<"ret">> \notin {<<"msg", p>>} /\ (Msg(m, "A") \in {<<"msg", p>>} <=> p = <<m, "A">>)
    BY DEF Msg
  <2> QED
    BY <1>8, <2>1
<1>10. m <= pubs /\ Unpublished(m) /\ ~Sent(m, link["A"]) /\ \A t \in Services : ~Sent(m, req'[t])
  <2>1. Sent(m, req[s]) /\ ~Sent(m, req'[s])
    BY <1>2, <1>3 DEF IInv, PublishedOnce, Sent, x
  <2> QED
    BY <1>3, <2>1 DEF IInv, PublishedOnce
<1>11. NoCopy(<<m, "A">>)
  BY <1>10 DEF Unpublished
<1>12. /\ refs' \in [Packages -> 0..Cardinality(Services)] /\ lost' \in [Packages -> 0..Cardinality(Services)]
       /\ closed' \subseteq Packages /\ PackageCounted'
  BY <1>4, <1>7, <1>9, <1>11, PublishedCounts
<1>13. TypeOK'
  BY <1>1, <1>12 DEF IInv, TypeOK
<1>14. BoxesOK'
  BY <1>1, <1>3, <1>5, <1>8 DEF IInv, BoxesOK, Home, LinksOK
<1>15. GroupCounted'
  BY <1>1 DEF IInv, GroupCounted
<1>16. RemoteRight'
  BY <1>1, <1>2, <1>5 DEF IInv, RemoteRight, Gains
<1>17. \A t \in Services : Replied(t)' <=> Replied(t) \/ t \in by
  <2>1. Msg(m, "A") \notin {<<"ret">>} /\ <<"ret">> \in {<<"ret">>}
    BY DEF Msg
  <2> QED
    BY <1>8, <2>1 DEF Replied
<1>18. OnePlace' /\ CallsWait'
  <2>1. \A t \in Services : /\ (Called(t)' => Called(t) /\ t # s) /\ (Asked(t)' <=> Asked(t)) /\ (Told(t)' <=> Told(t))
                            /\ Has({<<"SUB">>}, req'[t]) => Has({<<"SUB">>}, req[t])
    BY <1>2, <1>3, <1>5, <1>6 DEF Called, Asked, Told, Gains
  <2>2. \A t \in Services : /\ Once({<<"SUB">>} \cup Pub, req'[t]) /\ Once({<<"SUBR", t>>}, link'["A"])
                            /\ Once(Subbed(t), link'["B"]) /\ Once({<<"ret">>}, inbox'[t])
    BY <1>2, <1>3, <1>5, <1>8 DEF IInv, OnePlace, Gains
  <2> QED
    BY <1>1, <1>6, <1>72, <1>17, <2>1, <2>2 DEF IInv, OnePlace, CallsWait
<1>19. KnownFirst'
  BY <1>1, <1>8, <1>17 DEF IInv, KnownFirst
<1>20. \A k \in 1..MaxPub : \A t \in Services : /\ Sent(k, req'[t]) => Sent(k, req[t]) /\ k # m
                                                /\ Once({<<"PUB", k>>}, req'[t])
  <2>1. \A k \in 1..MaxPub : \A t \in Services : /\ Sent(k, req'[t]) => Sent(k, req[t])
                                                 /\ Once({<<"PUB", k>>}, req[t]) => Once({<<"PUB", k>>}, req'[t])
    BY QuietTook DEF IInv
  <2>2. \A k \in 1..MaxPub : \A t \in Services : Once({<<"PUB", k>>}, req[t])
    BY DEF IInv, PublishedOnce
  <2>3. \A k \in 1..MaxPub : \A t \in Services : Sent(k, req'[t]) => k # m
    BY <1>10
  <2> QED
    BY <2>1, <2>2, <2>3
<1>21. \A k \in 1..MaxPub : /\ Sent(k, link'["A"]) => Sent(k, link["A"]) /\ k # m
                            /\ Once({<<"PUB", k>>}, link'["A"])
  BY <1>5, <1>10 DEF IInv, PublishedOnce
<1>22. PublishedOnce' /\ Ordered'
  BY <1>1, <1>5, <1>7, <1>8, <1>9, <1>10, <1>20, <1>21, PublishedLast DEF x
<1> QED
  BY <1>12, <1>13, <1>14, <1>15, <1>16, <1>18, <1>19, <1>22 DEF IInv

\* SUBR: the owner says whether the channel is there, and then counts the other node in.
LEMMA OwnerAsked ==
  ASSUME MulticastConstants, IInv, NEW s \in Remote, link["A"] # <<>>, Head(link["A"]) = <<"SUBR", s>>,
         UNCHANGED libVars, UNCHANGED req, UNCHANGED <<chanVars, inbox, memVars>>,
         link' = [[link EXCEPT !["A"] = Tail(@)] EXCEPT !["B"] = Append(@, <<"SUBBED", s, exists["A"]>>)],
         remote' = IF exists["A"] THEN "yes" ELSE remote
  PROVE  IInv'
<1> DEFINE h == <<"SUBR", s>>
<1>0. PICK x : x = <<"SUBBED", s, exists["A"]>>
  OBVIOUS
<1>1. UNCHANGED <<subscribe, known, calling, dead, deleted, pubs, ops, exists, group, n, req, inbox, refs, closed, lost>>
  BY DEF libVars, memVars, chanVars
<1>2. exists["A"] \in BOOLEAN /\ s \in Services
  BY DEF IInv, TypeOK, Nodes, Services
<1>3. /\ x \in ToOther /\ x \in Subbed(s) /\ (\A t : t # s => x \notin Subbed(t))
      /\ \A m : x # <<"PUB", m>> /\ x \notin {<<"PUB", m>>}
  BY <1>0, <1>2 DEF ToOther, Subbed
<1>4. /\ x \notin {<<"DELR">>}
      /\ x \in {<<"SUBBED", t, FALSE>> : t \in Remote} => ~exists["A"]
      /\ exists["A"] => x \in {<<"SUBBED", t, TRUE>> : t \in Remote}
  BY <1>0, <1>2
<1>5. /\ h \in {h} /\ (\A t : h \in {<<"SUBR", t>>} => t = s) /\ (\A m : h \notin {<<"PUB", m>>})
      /\ h \notin {<<"USUBR">>}
  OBVIOUS
<1>6. LinksOK /\ "A" \in Nodes /\ "B" \in Nodes
  BY DEF IInv, BoxesOK, LinksOK, Nodes
<1> HIDE DEF h
<1>7. LinksOK' /\ Loses(link["A"], link'["A"], h) /\ Gains(link["B"], link'["B"], x)
  BY <1>0, <1>3, <1>6, LinkPasses DEF h
<1>8. Asked(s) /\ ~Asked(s)' /\ ~Told(s) /\ ~Replied(s) /\ ~Called(s) /\ calling[s] = "SUB"
  <2>1. Asked(s)
    BY <1>5, <1>7 DEF Asked, Loses, h
  <2>2. ~Asked(s)'
    BY <1>2, <1>5, <1>7 DEF Asked, Loses, h, IInv, OnePlace
  <2> QED
    BY <1>2, <2>1, <2>2 DEF IInv, OnePlace, CallsWait
<1>9. TypeOK'
  BY <1>1 DEF IInv, TypeOK
<1>10. BoxesOK' /\ GroupCounted'
  BY <1>1, <1>7 DEF IInv, BoxesOK, Home, LinksOK, GroupCounted
<1>11. RemoteRight'
  <2>1. remote' # "nil" => exists'["A"]
    BY <1>1 DEF IInv, RemoteRight
  <2>2. Has({<<"DELR">>} \cup {<<"SUBBED", t, FALSE>> : t \in Remote}, link'["B"]) => ~exists'["A"]
    BY <1>1, <1>4, <1>7 DEF IInv, RemoteRight, Gains
  <2>3. CASE exists["A"]
    <3>1. Has({<<"SUBBED", t, TRUE>> : t \in Remote}, link'["B"])
      BY <1>4, <1>7, <2>3 DEF Gains
    <3> QED
      BY <2>1, <2>2, <3>1 DEF RemoteRight
  <2>4. CASE ~exists["A"]
    <3>1. remote' = "nil"
      BY <2>4 DEF IInv, RemoteRight
    <3> QED
      BY <2>1, <2>2, <3>1 DEF RemoteRight
  <2> QED
    BY <2>3, <2>4
<1>12. OnePlace' /\ CallsWait'
  <2>1. \A t \in Services : /\ Called(t)' <=> Called(t)
                            /\ Replied(t)' <=> Replied(t)
                            /\ Asked(t)' => Asked(t) /\ t # s
                            /\ Told(t)' => Told(t) \/ t = s
    BY <1>1, <1>3, <1>7, <1>8 DEF Called, Asked, Told, Replied, Gains, Loses
  <2>2. \A t \in Services : Once({<<"SUBR", t>>}, link'["A"])
    BY <1>7 DEF IInv, OnePlace, Loses
  <2>3. \A t \in Services : Once(Subbed(t), link'["B"])
    BY <1>3, <1>7, <1>8 DEF IInv, OnePlace, Gains, Told
  <2> QED
    BY <1>1, <1>8, <2>1, <2>2, <2>3 DEF IInv, OnePlace, CallsWait
<1>13. KnownFirst'
  BY <1>1 DEF IInv, KnownFirst, Replied
<1>14. \A m \in 1..MaxPub : \A d \in Nodes :
         /\ Sent(m, link'[d]) => Sent(m, link[d])
         /\ Once({<<"PUB", m>>}, link[d]) => Once({<<"PUB", m>>}, link'[d])
  <2>1. \A m \in 1..MaxPub : /\ Sent(m, link'["A"]) => Sent(m, link["A"])
                             /\ Once({<<"PUB", m>>}, link["A"]) => Once({<<"PUB", m>>}, link'["A"])
    BY <1>7 DEF Loses, Sent
  <2>2. \A m \in 1..MaxPub : /\ Sent(m, link'["B"]) => Sent(m, link["B"])
                             /\ Once({<<"PUB", m>>}, link["B"]) => Once({<<"PUB", m>>}, link'["B"])
    BY <1>3, <1>7 DEF Gains, Sent
  <2> QED
    BY <2>1, <2>2 DEF Nodes
<1>15. ASSUME NEW a \in 1..MaxPub, NEW b \in 1..MaxPub, Ahead(<<"PUB", a>>, <<"PUB", b>>, link'["B"])
       PROVE  Ahead(<<"PUB", a>>, <<"PUB", b>>, link["B"])
  <2>1. Ahead(<<"PUB", a>>, <<"PUB", b>>, link["B"]) \/ <<"PUB", b>> = x
    BY <1>7, <1>15, GainsAhead
  <2> QED
    BY <1>3, <2>1
<1>16. Quiet
  BY <1>1, <1>14, <1>15 DEF Quiet, Sent
<1> QED
  BY <1>9, <1>10, <1>11, <1>12, <1>13, <1>16, QuietStep DEF IInv

\* USUBR: the other node has no subscribers any more.
LEMMA OwnerLeft ==
  ASSUME MulticastConstants, IInv, link["A"] # <<>>, Head(link["A"]) = <<"USUBR">>,
         UNCHANGED libVars, UNCHANGED req, UNCHANGED <<chanVars, inbox, memVars>>,
         link' = [link EXCEPT !["A"] = Tail(@)], remote' = IF remote = "nil" THEN remote ELSE "no"
  PROVE  IInv'
<1> DEFINE h == <<"USUBR">>
<1>1. UNCHANGED <<subscribe, known, calling, dead, deleted, pubs, ops, exists, group, n, req, inbox, refs, closed, lost>>
  BY DEF libVars, memVars, chanVars
<1>2. LinksOK /\ "A" \in Nodes /\ "B" \in Nodes
  BY DEF IInv, BoxesOK, LinksOK, Nodes
<1>3. LinksOK' /\ Loses(link["A"], link'["A"], h) /\ link'["B"] = link["B"]
  BY <1>2, LinkLoses
<1>4. (\A t : h \notin {<<"SUBR", t>>}) /\ (\A m : h \notin {<<"PUB", m>>})
  OBVIOUS
<1> HIDE DEF h
<1>5. TypeOK'
  BY <1>1 DEF IInv, TypeOK
<1>6. BoxesOK' /\ GroupCounted'
  BY <1>1, <1>3 DEF IInv, BoxesOK, Home, LinksOK, GroupCounted
<1>7. RemoteRight'
  BY <1>1, <1>3 DEF IInv, RemoteRight
<1>8. OnePlace' /\ CallsWait'
  BY <1>1, <1>3, <1>4 DEF IInv, OnePlace, CallsWait, Called, Asked, Told, Replied, Loses
<1>9. KnownFirst'
  BY <1>1 DEF IInv, KnownFirst, Replied
<1>10. \A m \in 1..MaxPub : \A d \in Nodes :
         /\ Sent(m, link'[d]) => Sent(m, link[d])
         /\ Once({<<"PUB", m>>}, link[d]) => Once({<<"PUB", m>>}, link'[d])
  BY <1>3 DEF Loses, Sent, Nodes
<1>11. Quiet
  BY <1>1, <1>3, <1>10 DEF Quiet, Sent
<1> QED
  BY <1>5, <1>6, <1>7, <1>8, <1>9, <1>11, QuietStep DEF IInv

\* DEL from the other node.
LEMMA OwnerDeletes ==
  ASSUME MulticastConstants, IInv, link["A"] # <<>>, Head(link["A"]) = <<"DEL">>,
         UNCHANGED libVars, UNCHANGED req, UNCHANGED <<inbox, memVars>>,
         DeleteHere([link EXCEPT !["A"] = Tail(@)])
  PROVE  IInv'
<1> DEFINE h == <<"DEL">>  x == <<"DELR">>
<1>1. UNCHANGED <<subscribe, known, calling, dead, deleted, pubs, ops, req, inbox, refs, closed, lost>> /\ remote' = "nil"
  BY DEF libVars, memVars, DeleteHere
<1>2. LinksOK /\ "A" \in Nodes /\ "B" \in Nodes
  BY DEF IInv, BoxesOK, LinksOK, Nodes
<1>3. /\ (\A t : h \notin {<<"SUBR", t>>}) /\ (\A m : h \notin {<<"PUB", m>>})
      /\ x \in ToOther /\ (\A t : x \notin Subbed(t)) /\ \A m : x # <<"PUB", m>> /\ x \notin {<<"PUB", m>>}
  BY DEF ToOther, Subbed
<1> HIDE DEF x
<1>4. LinksOK' /\ Loses(link["A"], link'["A"], h) /\ (Gains(link["B"], link'["B"], x) \/ link'["B"] = link["B"])
  <2>1. \/ link' = [link EXCEPT !["A"] = Tail(@)]
        \/ link' = [[link EXCEPT !["A"] = Tail(@)] EXCEPT !["B"] = Append(@, x)]
    BY DEF DeleteHere, x
  <2>2. CASE link' = [link EXCEPT !["A"] = Tail(@)]
    BY <1>2, <2>2, LinkLoses
  <2>3. CASE link' = [[link EXCEPT !["A"] = Tail(@)] EXCEPT !["B"] = Append(@, x)]
    BY <1>2, <1>3, <2>3, LinkPasses
  <2> QED
    BY <2>1, <2>2, <2>3
<1> HIDE DEF h
<1>5. /\ group' \in [Nodes -> SUBSET Services] /\ group'["A"] \subseteq Local /\ group'["B"] \subseteq Remote
      /\ n' \in [Nodes -> 0..Cardinality(Services)] /\ GroupCounted'
      /\ \A e \in Nodes : group'[e] \subseteq group[e]
      /\ exists' \in [Nodes -> BOOLEAN] /\ ~exists'["A"]
  BY <1>2, Emptied DEF DeleteHere
<1>6. TypeOK'
  BY <1>1, <1>5 DEF IInv, TypeOK
<1>7. BoxesOK'
  BY <1>1, <1>4, <1>5 DEF IInv, BoxesOK, Home, LinksOK
<1>8. RemoteRight'
  BY <1>1, <1>5 DEF RemoteRight
<1>9. OnePlace' /\ CallsWait'
  <2>1. \A t \in Services : /\ Called(t)' <=> Called(t)
                            /\ Replied(t)' <=> Replied(t)
                            /\ Asked(t)' <=> Asked(t)
                            /\ Told(t)' <=> Told(t)
    BY <1>1, <1>3, <1>4 DEF Called, Asked, Told, Replied, Gains, Loses
  <2>2. \A t \in Services : Once({<<"SUBR", t>>}, link'["A"])
    BY <1>4 DEF IInv, OnePlace, Loses
  <2>3. \A t \in Services : Once(Subbed(t), link'["B"])
    BY <1>3, <1>4 DEF IInv, OnePlace, Gains
  <2> QED
    BY <1>1, <2>1, <2>2, <2>3 DEF IInv, OnePlace, CallsWait
<1>10. KnownFirst'
  BY <1>1, <1>5 DEF IInv, KnownFirst, Replied
<1>11. \A m \in 1..MaxPub : \A d \in Nodes :
         /\ Sent(m, link'[d]) => Sent(m, link[d])
         /\ Once({<<"PUB", m>>}, link[d]) => Once({<<"PUB", m>>}, link'[d])
  <2>1. \A m \in 1..MaxPub : /\ Sent(m, link'["A"]) => Sent(m, link["A"])
                             /\ Once({<<"PUB", m>>}, link["A"]) => Once({<<"PUB", m>>}, link'["A"])
    BY <1>4 DEF Loses, Sent
  <2>2. \A m \in 1..MaxPub : /\ Sent(m, link'["B"]) => Sent(m, link["B"])
                             /\ Once({<<"PUB", m>>}, link["B"]) => Once({<<"PUB", m>>}, link'["B"])
    BY <1>3, <1>4 DEF Gains, Sent
  <2> QED
    BY <2>1, <2>2 DEF Nodes
<1>12. ASSUME NEW a \in 1..MaxPub, NEW b \in 1..MaxPub, Ahead(<<"PUB", a>>, <<"PUB", b>>, link'["B"])
       PROVE  Ahead(<<"PUB", a>>, <<"PUB", b>>, link["B"])
  <2>1. Ahead(<<"PUB", a>>, <<"PUB", b>>, link["B"]) \/ <<"PUB", b>> = x
    BY <1>4, <1>12, GainsAhead
  <2> QED
    BY <1>3, <2>1
<1>13. Quiet
  BY <1>1, <1>11, <1>12 DEF Quiet, Sent
<1> QED
  BY <1>5, <1>6, <1>7, <1>8, <1>9, <1>10, <1>13, QuietStep DEF IInv

\* PUB from the other node.
LEMMA OwnerPublishes ==
  ASSUME MulticastConstants, IInv, NEW m \in 1..MaxPub, link["A"] # <<>>, Head(link["A"]) = <<"PUB", m>>,
         UNCHANGED libVars, UNCHANGED req, PublishHere(m, {}, [link EXCEPT !["A"] = Tail(@)])
  PROVE  IInv'
<1> DEFINE x == <<"PUB", m>>  to == group["A"] \ dead  by == {} \ dead
<1>1. /\ UNCHANGED <<subscribe, known, calling, dead, deleted, pubs, ops, exists, group, n, remote, req>>
      /\ link' = [[link EXCEPT !["A"] = Tail(@)] EXCEPT !["B"] = IF remote = "yes" THEN Append(@, x) ELSE @]
      /\ Spread("A", <<m, "A">>, {})
  BY DEF libVars, chanVars, PublishHere
<1>2. /\ x \in {x} /\ x \in ToOther /\ (\A t : x \notin Subbed(t)) /\ (\A t : x \notin {<<"SUBR", t>>})
      /\ x \notin {<<"DELR">>} \cup {<<"SUBBED", t, FALSE>> : t \in Remote} /\ x \notin {<<"USUBR">>}
  BY DEF Pub, ToOther, Subbed
<1> HIDE DEF x
<1>4. LinksOK /\ "A" \in Nodes /\ "B" \in Nodes
  BY DEF IInv, BoxesOK, LinksOK, Nodes
<1>5. LinksOK' /\ Loses(link["A"], link'["A"], x) /\ (Gains(link["B"], link'["B"], x) \/ link'["B"] = link["B"])
  <2>1. CASE remote = "yes"
    <3>1. link' = [[link EXCEPT !["A"] = Tail(@)] EXCEPT !["B"] = Append(@, x)]
      BY <1>1, <2>1
    <3> QED
      BY <1>2, <1>4, <3>1, LinkPasses DEF x
  <2>2. CASE remote # "yes"
    <3>1. link' = [link EXCEPT !["A"] = Tail(@)]
      BY <1>1, <1>4, <2>2 DEF LinksOK
    <3> QED
      BY <1>4, <3>1, LinkLoses DEF x
  <2> QED
    BY <2>1, <2>2
<1>7. Published(m, "A", to, by)
  <2>1. PICK none \in SUBSET Services : none = {}
    OBVIOUS
  <2> QED
    BY <1>1, <1>4, <2>1, SpreadDelivers
<1>71. to \in SUBSET (group["A"] \ dead) /\ by \in SUBSET (Services \ dead) /\ \A t : t \notin by
  OBVIOUS
<1> HIDE DEF to, by
<1>8. /\ inbox' \in [Services -> Seq(Inbound("A") \cup Inbound("B"))]
      /\ \A t \in Services :
           /\ inbox'[t] \in Seq(Inbound(Home(t))) /\ (t \in dead => inbox'[t] = <<>>)
           /\ \A P : Has(P, inbox'[t]) <=> \/ Has(P, inbox[t])
                                           \/ t \in to /\ Msg(m, "A") \in P
                                           \/ t \in by /\ <<"ret">> \in P
           /\ Once({<<"ret">>}, inbox'[t])
           /\ \A a, b \in 1..MaxPub : \A e \in Nodes :
                Ahead(Msg(a, e), Msg(b, e), inbox'[t]) <=>
                  \/ Ahead(Msg(a, e), Msg(b, e), inbox[t])
                  \/ t \in to /\ Msg(b, e) = Msg(m, "A") /\ Has({Msg(a, e)}, inbox[t])
           /\ t \notin known /\ inbox'[t] # <<>> =>
                Head(inbox'[t]) = <<"ret">> /\ (calling[t] = "SUB" \/ Len(inbox'[t]) = 1)
  <2>1. Delivers(to, Msg(m, "A"), by)
    BY <1>7 DEF Published
  <2> QED
    BY <1>4, <1>71, <2>1, Delivered
<1>9. \A t \in Services : \A p \in Packages :
        Has({<<"msg", p>>}, inbox'[t]) <=> Has({<<"msg", p>>}, inbox[t]) \/ (t \in to /\ p = <<m, "A">>)
  <2>1. \A p : <<"ret">> \notin {<<"msg", p>>} /\ (Msg(m, "A") \in {<<"msg", p>>} <=> p = <<m, "A">>)
    BY DEF Msg
  <2> QED
    BY <1>8, <2>1
<1>10. m <= pubs /\ Unpublished(m) /\ ~Sent(m, link'["A"]) /\ \A t \in Services : ~Sent(m, req[t])
  <2>1. Sent(m, link["A"]) /\ ~Sent(m, link'["A"])
    BY <1>2, <1>5 DEF IInv, PublishedOnce, Sent, x, Loses
  <2> QED
    BY <2>1 DEF IInv, PublishedOnce
<1>11. NoCopy(<<m, "A">>)
  BY <1>10 DEF Unpublished
<1>12. /\ refs' \in [Packages -> 0..Cardinality(Services)] /\ lost' \in [Packages -> 0..Cardinality(Services)]
       /\ closed' \subseteq Packages /\ PackageCounted'
  BY <1>4, <1>7, <1>9, <1>11, PublishedCounts
<1>13. TypeOK'
  BY <1>1, <1>12 DEF IInv, TypeOK
<1>14. BoxesOK'
  BY <1>1, <1>5, <1>8 DEF IInv, BoxesOK, Home, LinksOK
<1>15. GroupCounted'
  BY <1>1 DEF IInv, GroupCounted
<1>16. RemoteRight'
  BY <1>1, <1>2, <1>5 DEF IInv, RemoteRight, Gains, Loses
<1>17. \A t \in Services : Replied(t)' <=> Replied(t)
  <2>1. Msg(m, "A") \notin {<<"ret">>}
    BY DEF Msg
  <2> QED
    BY <1>71, <1>8, <2>1 DEF Replied
<1>18. OnePlace' /\ CallsWait'
  <2>1. \A t \in Services : (Called(t)' <=> Called(t)) /\ (Asked(t)' <=> Asked(t)) /\ (Told(t)' <=> Told(t))
    BY <1>1, <1>2, <1>5 DEF Called, Asked, Told, Gains, Loses
  <2>2. \A t \in Services : /\ Once({<<"SUBR", t>>}, link'["A"])
                            /\ Once(Subbed(t), link'["B"]) /\ Once({<<"ret">>}, inbox'[t])
    BY <1>2, <1>5, <1>8 DEF IInv, OnePlace, Gains, Loses
  <2> QED
    BY <1>1, <1>17, <2>1, <2>2 DEF IInv, OnePlace, CallsWait
<1>19. KnownFirst'
  BY <1>1, <1>8, <1>17 DEF IInv, KnownFirst
<1>20. \A k \in 1..MaxPub : \A t \in Services : /\ Sent(k, req'[t]) => Sent(k, req[t]) /\ k # m
                                                /\ Once({<<"PUB", k>>}, req'[t])
  BY <1>1, <1>10 DEF IInv, PublishedOnce, Sent
<1>21. \A k \in 1..MaxPub : /\ Sent(k, link'["A"]) => Sent(k, link["A"]) /\ k # m
                            /\ Once({<<"PUB", k>>}, link'["A"])
  BY <1>5, <1>10 DEF IInv, PublishedOnce, Loses, Sent
<1>22. PublishedOnce' /\ Ordered'
  BY <1>1, <1>5, <1>7, <1>8, <1>9, <1>10, <1>20, <1>21, PublishedLast DEF x
<1> QED
  BY <1>12, <1>13, <1>14, <1>15, <1>16, <1>18, <1>19, <1>22 DEF IInv

\* SUBBED, no: there is no such channel.
LEMMA OtherRefused ==
  ASSUME MulticastConstants, IInv, NEW s \in Remote, link["B"] # <<>>, Head(link["B"]) = <<"SUBBED", s, FALSE>>,
         UNCHANGED libVars, UNCHANGED <<req, remote>>, UNCHANGED <<chanVars, memVars>>,
         link' = [link EXCEPT !["B"] = Tail(@)], inbox' = Answer(s, inbox)
  PROVE  IInv'
<1> DEFINE h == <<"SUBBED", s, FALSE>>
<1>1. UNCHANGED <<subscribe, known, calling, dead, deleted, pubs, ops, exists, group, n, req, remote, refs, closed, lost>>
  BY DEF libVars, memVars, chanVars
<1>2. LinksOK /\ "A" \in Nodes /\ "B" \in Nodes /\ s \in Services
  BY DEF IInv, BoxesOK, LinksOK, Nodes, Services
<1>3. LinksOK' /\ Loses(link["B"], link'["B"], h) /\ link'["A"] = link["A"]
  BY <1>2, LinkLoses
<1>4. /\ h \in Subbed(s) /\ h \in {<<"DELR">>} \cup {<<"SUBBED", t, FALSE>> : t \in Remote}
      /\ h \notin {<<"SUBBED", t, TRUE>> : t \in Remote} /\ <<"ret">> \in {<<"ret">>}
  BY DEF Subbed
<1> HIDE DEF h
<1>5. ~exists["A"] /\ remote = "nil"
  BY <1>3, <1>4 DEF IInv, RemoteRight, Loses
<1>6. Told(s) /\ ~Told(s)' /\ ~Called(s) /\ ~Asked(s) /\ ~Replied(s) /\ calling[s] = "SUB"
  <2>1. Told(s) /\ ~Told(s)'
    BY <1>2, <1>3, <1>4 DEF Told, Loses, IInv, OnePlace
  <2> QED
    BY <1>2, <2>1 DEF IInv, OnePlace, CallsWait
<1>7. /\ inbox' \in [Services -> Seq(Inbound("A") \cup Inbound("B"))]
      /\ \A t \in Services :
           /\ inbox'[t] \in Seq(Inbound(Home(t))) /\ (t \in dead => inbox'[t] = <<>>)
           /\ \A P : Has(P, inbox'[t]) <=> Has(P, inbox[t]) \/ (t = s /\ s \notin dead /\ <<"ret">> \in P)
           /\ Once({<<"ret">>}, inbox'[t])
           /\ t \notin known /\ inbox'[t] # <<>> =>
                Head(inbox'[t]) = <<"ret">> /\ (calling[t] = "SUB" \/ Len(inbox'[t]) = 1)
      /\ \A t \in Services : \A p \in Packages : Has({<<"msg", p>>}, inbox'[t]) <=> Has({<<"msg", p>>}, inbox[t])
      /\ \A t \in Services : \A a, b \in 1..MaxPub : \A d \in Nodes :
           Ahead(Msg(a, d), Msg(b, d), inbox'[t]) => Ahead(Msg(a, d), Msg(b, d), inbox[t])
  BY <1>2, <1>6, AnswerSent
<1>8. TypeOK'
  BY <1>1 DEF IInv, TypeOK
<1>9. BoxesOK' /\ GroupCounted'
  BY <1>1, <1>3, <1>7 DEF IInv, BoxesOK, Home, LinksOK, GroupCounted
<1>10. RemoteRight'
  BY <1>1, <1>3, <1>5 DEF IInv, RemoteRight, Loses
<1>11. OnePlace' /\ CallsWait'
  <2>1. \A t \in Services : /\ Called(t)' <=> Called(t)
                            /\ Replied(t)' => Replied(t) \/ t = s
                            /\ Asked(t)' <=> Asked(t)
                            /\ Told(t)' => Told(t) /\ t # s
    BY <1>1, <1>3, <1>6, <1>7 DEF Called, Asked, Told, Replied, Loses
  <2>2. \A t \in Services : Once(Subbed(t), link'["B"])
    BY <1>3 DEF IInv, OnePlace, Loses
  <2> QED
    BY <1>1, <1>3, <1>6, <1>7, <2>1, <2>2 DEF IInv, OnePlace, CallsWait
<1>12. KnownFirst'
  <2>1. \A t \in Services : Replied(t) => Replied(t)'
    BY <1>7 DEF Replied
  <2> QED
    BY <1>1, <1>7, <2>1 DEF IInv, KnownFirst
<1>13. \A m \in 1..MaxPub : \A d \in Nodes :
         /\ Sent(m, link'[d]) => Sent(m, link[d])
         /\ Once({<<"PUB", m>>}, link[d]) => Once({<<"PUB", m>>}, link'[d])
  BY <1>3 DEF Loses, Sent, Nodes
<1>14. \A a, b \in 1..MaxPub :
         Ahead(<<"PUB", a>>, <<"PUB", b>>, link'["B"]) => Ahead(<<"PUB", a>>, <<"PUB", b>>, link["B"])
  BY <1>3, LosesAhead
<1>15. Quiet
  BY <1>1, <1>7, <1>13, <1>14 DEF Quiet, Sent
<1> QED
  BY <1>8, <1>9, <1>10, <1>11, <1>12, <1>15, QuietStep DEF IInv

\* SUBBED, yes.
LEMMA OtherJoins ==
  ASSUME MulticastConstants, IInv, NEW s \in Remote, link["B"] # <<>>, Head(link["B"]) = <<"SUBBED", s, TRUE>>,
         UNCHANGED libVars, UNCHANGED <<req, remote>>, UNCHANGED memVars,
         link' = [link EXCEPT !["B"] = Tail(@)], inbox' = Answer(s, inbox),
         exists' = [exists EXCEPT !["B"] = TRUE],
         n' = [Created EXCEPT !["B"] = @ + IF s \in group["B"] THEN 0 ELSE 1],
         group' = [group EXCEPT !["B"] = @ \cup {s}]
  PROVE  IInv'
<1> DEFINE h == <<"SUBBED", s, TRUE>>
<1>1. UNCHANGED <<subscribe, known, calling, dead, deleted, pubs, ops, req, remote, refs, closed, lost>>
  BY DEF libVars, memVars
<1>2. LinksOK /\ "A" \in Nodes /\ "B" \in Nodes /\ s \in Services /\ Home(s) = "B"
  BY DEF IInv, BoxesOK, LinksOK, Nodes, Services, Home, MulticastConstants
<1>3. LinksOK' /\ Loses(link["B"], link'["B"], h) /\ link'["A"] = link["A"]
  BY <1>2, LinkLoses
<1>4. /\ h \in Subbed(s) /\ h \notin {<<"DELR">>} \cup {<<"SUBBED", t, FALSE>> : t \in Remote}
      /\ <<"ret">> \in {<<"ret">>}
  BY DEF Subbed
<1> HIDE DEF h
<1>5. exists \in [Nodes -> BOOLEAN] /\ n \in [Nodes -> 0..Cardinality(Services)] /\ Cardinality(Services) \in Nat
  BY WaitsFinite DEF IInv, TypeOK
<1>51. exists' \in [Nodes -> BOOLEAN] /\ exists'["B"] /\ \A e \in Nodes \ {"B"} : exists'[e] = exists[e]
  BY <1>2, <1>5
<1>52. Created = n
  <2>1. CASE ~exists["B"]
    <3>1. n["B"] = 0
      BY <1>2, <2>1, FS_EmptySet DEF IInv, GroupCounted
    <3> QED
      BY <1>5, <2>1, <3>1 DEF Created
  <2> QED
    BY <2>1 DEF Created
<1>53. n' = IF s \in group["B"] THEN n ELSE [n EXCEPT !["B"] = @ + 1]
  <2>1. n' = [n EXCEPT !["B"] = @ + IF s \in group["B"] THEN 0 ELSE 1]
    BY <1>52
  <2>2. CASE s \in group["B"]
    <3>1. n["B"] + 0 = n["B"]
      BY <1>2, <1>5
    <3> QED
      BY <1>5, <2>1, <2>2, <3>1
  <2>3. CASE s \notin group["B"]
    BY <2>1, <2>3
  <2> QED
    BY <2>2, <2>3
<1>54. /\ group' \in [Nodes -> SUBSET Services] /\ group'["A"] \subseteq Local /\ group'["B"] \subseteq Remote
       /\ n' \in [Nodes -> 0..Cardinality(Services)] /\ GroupCounted'
       /\ \A e \in Nodes : \A t \in Services \ {s} : t \in group'[e] <=> t \in group[e]
  BY <1>2, <1>51, <1>53, Joined
<1>6. Told(s) /\ ~Told(s)' /\ ~Called(s) /\ ~Asked(s) /\ ~Replied(s) /\ calling[s] = "SUB"
  <2>1. Told(s) /\ ~Told(s)'
    BY <1>2, <1>3, <1>4 DEF Told, Loses, IInv, OnePlace
  <2> QED
    BY <1>2, <2>1 DEF IInv, OnePlace, CallsWait
<1>7. /\ inbox' \in [Services -> Seq(Inbound("A") \cup Inbound("B"))]
      /\ \A t \in Services :
           /\ inbox'[t] \in Seq(Inbound(Home(t))) /\ (t \in dead => inbox'[t] = <<>>)
           /\ \A P : Has(P, inbox'[t]) <=> Has(P, inbox[t]) \/ (t = s /\ s \notin dead /\ <<"ret">> \in P)
           /\ Once({<<"ret">>}, inbox'[t])
           /\ t \notin known /\ inbox'[t] # <<>> =>
                Head(inbox'[t]) = <<"ret">> /\ (calling[t] = "SUB" \/ Len(inbox'[t]) = 1)
      /\ \A t \in Services : \A p \in Packages : Has({<<"msg", p>>}, inbox'[t]) <=> Has({<<"msg", p>>}, inbox[t])
      /\ \A t \in Services : \A a, b \in 1..MaxPub : \A d \in Nodes :
           Ahead(Msg(a, d), Msg(b, d), inbox'[t]) => Ahead(Msg(a, d), Msg(b, d), inbox[t])
  BY <1>2, <1>6, AnswerSent
<1>8. TypeOK'
  BY <1>1, <1>51, <1>54 DEF IInv, TypeOK
<1>9. BoxesOK'
  BY <1>1, <1>3, <1>54, <1>7 DEF IInv, BoxesOK, Home, LinksOK
<1>10. RemoteRight'
  BY <1>1, <1>2, <1>3, <1>51 DEF IInv, RemoteRight, Loses
<1>11. OnePlace' /\ CallsWait'
  <2>1. \A t \in Services : /\ Called(t)' <=> Called(t)
                            /\ Replied(t)' => Replied(t) \/ t = s
                            /\ Asked(t)' <=> Asked(t)
                            /\ Told(t)' => Told(t) /\ t # s
    BY <1>1, <1>3, <1>6, <1>7 DEF Called, Asked, Told, Replied, Loses
  <2>2. \A t \in Services : Once(Subbed(t), link'["B"])
    BY <1>3 DEF IInv, OnePlace, Loses
  <2> QED
    BY <1>1, <1>3, <1>6, <1>7, <2>1, <2>2 DEF IInv, OnePlace, CallsWait
<1>12. KnownFirst'
  <2>1. \A t \in Services : (Replied(t) => Replied(t)') /\ (t = s /\ s \notin dead => Replied(t)')
    BY <1>4, <1>7 DEF Replied
  <2> QED
    BY <1>1, <1>54, <1>6, <1>7, <2>1 DEF IInv, KnownFirst
<1>13. \A m \in 1..MaxPub : \A d \in Nodes :
         /\ Sent(m, link'[d]) => Sent(m, link[d])
         /\ Once({<<"PUB", m>>}, link[d]) => Once({<<"PUB", m>>}, link'[d])
  BY <1>3 DEF Loses, Sent, Nodes
<1>14. \A a, b \in 1..MaxPub :
         Ahead(<<"PUB", a>>, <<"PUB", b>>, link'["B"]) => Ahead(<<"PUB", a>>, <<"PUB", b>>, link["B"])
  BY <1>3, LosesAhead
<1>15. Quiet
  BY <1>1, <1>7, <1>13, <1>14 DEF Quiet, Sent
<1> QED
  BY <1>54, <1>8, <1>9, <1>10, <1>11, <1>12, <1>15, QuietStep DEF IInv

\* DELR.
LEMMA OtherDeletes ==
  ASSUME MulticastConstants, IInv, link["B"] # <<>>, Head(link["B"]) = <<"DELR">>,
         UNCHANGED libVars, UNCHANGED <<req, remote>>, UNCHANGED <<inbox, memVars>>,
         link' = [link EXCEPT !["B"] = Tail(@)], NoChannel("B")
  PROVE  IInv'
<1> DEFINE h == <<"DELR">>
<1>1. UNCHANGED <<subscribe, known, calling, dead, deleted, pubs, ops, req, remote, inbox, refs, closed, lost>>
  BY DEF libVars, memVars
<1>2. LinksOK /\ "A" \in Nodes /\ "B" \in Nodes
  BY DEF IInv, BoxesOK, LinksOK, Nodes
<1>3. LinksOK' /\ Loses(link["B"], link'["B"], h) /\ link'["A"] = link["A"]
  BY <1>2, LinkLoses
<1>4. (\A t : h \notin Subbed(t)) /\ h \in {<<"DELR">>} \cup {<<"SUBBED", t, FALSE>> : t \in Remote}
  BY DEF Subbed
<1> HIDE DEF h
<1>5. ~exists["A"] /\ remote = "nil"
  BY <1>3, <1>4 DEF IInv, RemoteRight, Loses
<1>6. /\ group' \in [Nodes -> SUBSET Services] /\ group'["A"] \subseteq Local /\ group'["B"] \subseteq Remote
      /\ n' \in [Nodes -> 0..Cardinality(Services)] /\ GroupCounted'
      /\ \A e \in Nodes : group'[e] \subseteq group[e]
      /\ exists' \in [Nodes -> BOOLEAN] /\ exists'["A"] = exists["A"]
  BY <1>2, Emptied
<1>7. TypeOK'
  BY <1>1, <1>6 DEF IInv, TypeOK
<1>8. BoxesOK'
  BY <1>1, <1>3, <1>6 DEF IInv, BoxesOK, Home, LinksOK
<1>9. RemoteRight'
  BY <1>1, <1>3, <1>5, <1>6 DEF RemoteRight
<1>10. OnePlace' /\ CallsWait'
  <2>1. \A t \in Services : /\ Called(t)' <=> Called(t)
                            /\ Replied(t)' <=> Replied(t)
                            /\ Asked(t)' <=> Asked(t)
                            /\ Told(t)' <=> Told(t)
    BY <1>1, <1>3, <1>4 DEF Called, Asked, Told, Replied, Loses
  <2>2. \A t \in Services : Once(Subbed(t), link'["B"])
    BY <1>3 DEF IInv, OnePlace, Loses
  <2> QED
    BY <1>1, <1>3, <2>1, <2>2 DEF IInv, OnePlace, CallsWait
<1>11. KnownFirst'
  BY <1>1, <1>6 DEF IInv, KnownFirst, Replied
<1>12. \A m \in 1..MaxPub : \A d \in Nodes :
         /\ Sent(m, link'[d]) => Sent(m, link[d])
         /\ Once({<<"PUB", m>>}, link[d]) => Once({<<"PUB", m>>}, link'[d])
  BY <1>3 DEF Loses, Sent, Nodes
<1>13. \A a, b \in 1..MaxPub :
         Ahead(<<"PUB", a>>, <<"PUB", b>>, link'["B"]) => Ahead(<<"PUB", a>>, <<"PUB", b>>, link["B"])
  BY <1>3, LosesAhead
<1>14. Quiet
  BY <1>1, <1>12, <1>13 DEF Quiet, Sent
<1> QED
  BY <1>6, <1>7, <1>8, <1>9, <1>10, <1>11, <1>14, QuietStep DEF IInv

\* PUB: the message reaches the subscribers of the other node, in the order of the link.
LEMMA OtherPublishes ==
  ASSUME MulticastConstants, IInv, NEW m \in 1..MaxPub, link["B"] # <<>>, Head(link["B"]) = <<"PUB", m>>,
         UNCHANGED libVars, UNCHANGED <<req, remote>>, UNCHANGED chanVars,
         link' = [link EXCEPT !["B"] = Tail(@)], Spread("B", <<m, "B">>, {})
  PROVE  IInv'
<1> DEFINE h == <<"PUB", m>>  to == group["B"] \ dead  by == {} \ dead
<1>1. UNCHANGED <<subscribe, known, calling, dead, deleted, pubs, ops, exists, group, n, remote, req>>
  BY DEF libVars, chanVars
<1>2. /\ h \in {h} /\ (\A t : h \notin Subbed(t)) /\ (\A k : k # m => h \notin {<<"PUB", k>>})
      /\ h \notin {<<"SUBBED", t, TRUE>> : t \in Remote}
  BY DEF Subbed
<1>3. LinksOK /\ "A" \in Nodes /\ "B" \in Nodes
  BY DEF IInv, BoxesOK, LinksOK, Nodes
<1>4. LinksOK' /\ Loses(link["B"], link'["B"], h) /\ link'["A"] = link["A"]
  BY <1>3, LinkLoses
<1> HIDE DEF h
<1>5. Published(m, "B", to, by)
  <2>1. PICK none \in SUBSET Services : none = {}
    OBVIOUS
  <2> QED
    BY <1>3, <2>1, SpreadDelivers
<1>6. to \in SUBSET (group["B"] \ dead) /\ by \in SUBSET (Services \ dead) /\ \A t : t \notin by
  OBVIOUS
<1>61. \A t \in to : t \in Remote
  BY DEF IInv, TypeOK
<1> HIDE DEF to, by
<1>7. /\ inbox' \in [Services -> Seq(Inbound("A") \cup Inbound("B"))]
      /\ \A t \in Services :
           /\ inbox'[t] \in Seq(Inbound(Home(t))) /\ (t \in dead => inbox'[t] = <<>>)
           /\ \A P : Has(P, inbox'[t]) <=> \/ Has(P, inbox[t])
                                           \/ t \in to /\ Msg(m, "B") \in P
                                           \/ t \in by /\ <<"ret">> \in P
           /\ Once({<<"ret">>}, inbox'[t])
           /\ \A a, b \in 1..MaxPub : \A e \in Nodes :
                Ahead(Msg(a, e), Msg(b, e), inbox'[t]) <=>
                  \/ Ahead(Msg(a, e), Msg(b, e), inbox[t])
                  \/ t \in to /\ Msg(b, e) = Msg(m, "B") /\ Has({Msg(a, e)}, inbox[t])
           /\ t \notin known /\ inbox'[t] # <<>> =>
                Head(inbox'[t]) = <<"ret">> /\ (calling[t] = "SUB" \/ Len(inbox'[t]) = 1)
  <2>1. Delivers(to, Msg(m, "B"), by)
    BY <1>5 DEF Published
  <2> QED
    BY <1>3, <1>6, <2>1, Delivered
<1>8. \A t \in Services : \A p \in Packages :
        Has({<<"msg", p>>}, inbox'[t]) <=> Has({<<"msg", p>>}, inbox[t]) \/ (t \in to /\ p = <<m, "B">>)
  <2>1. \A p : <<"ret">> \notin {<<"msg", p>>} /\ (Msg(m, "B") \in {<<"msg", p>>} <=> p = <<m, "B">>)
    BY DEF Msg
  <2> QED
    BY <1>7, <2>1
<1>9. Sent(m, link["B"]) /\ ~Sent(m, link'["B"])
  BY <1>2, <1>4 DEF IInv, PublishedOnce, Sent, h, Loses
<1>10. NoCopy(<<m, "B">>) /\ ~Unpublished(m)
  BY <1>9 DEF IInv, PublishedOnce, Unpublished
<1>11. /\ refs' \in [Packages -> 0..Cardinality(Services)] /\ lost' \in [Packages -> 0..Cardinality(Services)]
       /\ closed' \subseteq Packages /\ PackageCounted'
       /\ \A p \in Packages : p # <<m, "B">> /\ NoCopy(p) => NoCopy(p)'
  BY <1>3, <1>5, <1>8, <1>10, PublishedCounts
<1>12. TypeOK'
  BY <1>1, <1>11 DEF IInv, TypeOK
<1>13. BoxesOK'
  BY <1>1, <1>4, <1>7 DEF IInv, BoxesOK, Home, LinksOK
<1>14. GroupCounted'
  BY <1>1 DEF IInv, GroupCounted
<1>15. RemoteRight'
  BY <1>1, <1>2, <1>4 DEF IInv, RemoteRight, Loses
<1>16. \A t \in Services : Replied(t)' <=> Replied(t)
  <2>1. Msg(m, "B") \notin {<<"ret">>}
    BY DEF Msg
  <2> QED
    BY <1>6, <1>7, <2>1 DEF Replied
<1>17. OnePlace' /\ CallsWait'
  <2>1. \A t \in Services : (Called(t)' <=> Called(t)) /\ (Asked(t)' <=> Asked(t)) /\ (Told(t)' <=> Told(t))
    BY <1>1, <1>2, <1>4 DEF Called, Asked, Told, Loses
  <2>2. \A t \in Services : /\ Once({<<"SUBR", t>>}, link'["A"])
                            /\ Once(Subbed(t), link'["B"]) /\ Once({<<"ret">>}, inbox'[t])
    BY <1>4, <1>7 DEF IInv, OnePlace, Loses
  <2> QED
    BY <1>1, <1>16, <2>1, <2>2 DEF IInv, OnePlace, CallsWait
<1>18. KnownFirst'
  BY <1>1, <1>7, <1>16 DEF IInv, KnownFirst
<1>19. \A k \in 1..MaxPub : (Sent(k, link'["B"]) => Sent(k, link["B"]) /\ k # m) /\ Once({<<"PUB", k>>}, link'["B"])
  BY <1>4, <1>9 DEF IInv, PublishedOnce, Loses, Sent
<1>20. PublishedOnce'
  <2>1. \A k \in 1..MaxPub : NoCopy(<<k, "A">>) => NoCopy(<<k, "A">>)'
    <3>1. \A k \in 1..MaxPub : <<k, "A">> \in Packages /\ <<k, "A">> # <<m, "B">>
      BY <1>3 DEF Packages
    <3> QED
      BY <1>11, <3>1
  <2>2. \A k \in 1..MaxPub : k # m /\ NoCopy(<<k, "B">>) => NoCopy(<<k, "B">>)'
    <3>1. \A k \in 1..MaxPub : <<k, "B">> \in Packages /\ (k # m => <<k, "B">> # <<m, "B">>)
      BY <1>3 DEF Packages
    <3> QED
      BY <1>11, <3>1
  <2>3. \A k \in 1..MaxPub : Unpublished(k) => Unpublished(k)'
    BY <1>10, <1>19, <2>1, <2>2 DEF Unpublished
  <2>4. \A k \in 1..MaxPub : Sent(k, link'["B"]) => NoCopy(<<k, "B">>)'
    BY <1>19, <2>2 DEF IInv, PublishedOnce
  <2> QED
    BY <1>1, <1>4, <1>19, <2>3, <2>4 DEF IInv, PublishedOnce
<1>21. ASSUME NEW s \in Services, NEW a \in 1..MaxPub, NEW b \in 1..MaxPub, Follows(s, a, b)'
       PROVE  Follows(s, a, b)
  <2>1. /\ Home(s) \in Nodes /\ (s \in to => s \in Remote /\ Home(s) = "B")
        /\ Msg(b, Home(s)) = Msg(m, "B") => b = m
    BY <1>61 DEF Home, Nodes, Msg, MulticastConstants
  <2>2. Has({Msg(a, "B")}, inbox'[s]) => Has({Msg(a, "B")}, inbox[s]) \/ (s \in to /\ a = m)
    <3>1. Msg(a, "B") = <<"msg", <<a, "B">>>> /\ <<a, "B">> \in Packages /\ (<<a, "B">> = <<m, "B">> => a = m)
      BY <1>3 DEF Msg, Packages
    <3> QED
      BY <1>8, <3>1
  <2>3. h = <<"PUB", a>> <=> a = m
    BY DEF h
  <2>4. CASE Before(s, a, b)'
    <3>1. \/ Ahead(Msg(a, Home(s)), Msg(b, Home(s)), inbox[s])
          \/ s \in to /\ b = m /\ Has({Msg(a, Home(s))}, inbox[s])
      BY <1>7, <2>1, <2>4 DEF Before
    <3>2. CASE Ahead(Msg(a, Home(s)), Msg(b, Home(s)), inbox[s])
      BY <3>2 DEF Follows, Before
    <3>3. CASE s \in to /\ b = m /\ Has({Msg(a, Home(s))}, inbox[s])
      BY <1>9, <2>1, <3>3 DEF Follows
    <3> QED
      BY <3>1, <3>2, <3>3
  <2>5. CASE s \in Remote /\ Has({Msg(a, "B")}, inbox'[s]) /\ Sent(b, link'["B"])
    <3>1. CASE Has({Msg(a, "B")}, inbox[s])
      BY <1>19, <2>5, <3>1 DEF Follows
    <3>2. CASE a = m
      <4>1. Ahead(<<"PUB", a>>, <<"PUB", b>>, link["B"])
        BY <1>4, <2>3, <2>5, <3>2, LosesAhead DEF Sent
      <4> QED
        BY <2>5, <4>1 DEF Follows
    <3> QED
      BY <2>2, <2>5, <3>1, <3>2
  <2>6. CASE s \in Remote /\ Ahead(<<"PUB", a>>, <<"PUB", b>>, link'["B"])
    <3>1. Ahead(<<"PUB", a>>, <<"PUB", b>>, link["B"])
      BY <1>4, <2>6, LosesAhead
    <3> QED
      BY <2>6, <3>1 DEF Follows
  <2> QED
    BY <1>21, <2>4, <2>5, <2>6 DEF Follows
<1>22. Ordered'
  BY <1>21, OrderKept DEF IInv
<1> QED
  BY <1>11, <1>12, <1>13, <1>14, <1>15, <1>17, <1>18, <1>20, <1>22 DEF IInv

-----------------------------------------------------------------------------
(* The steps together.                                                     *)

\* multicastd takes a request of a service of its node.
LEMMA ServeStep ==
  ASSUME MulticastConstants, IInv, NEW s \in Services, Serve(s)
  PROVE  IInv'
<1> DEFINE d == Home(s)  m == Head(req[s])
<1>1. Took(s) /\ UNCHANGED libVars /\ m \in Request
  BY TookBoxes DEF Serve, IInv
<1>2. PICK x : x = m
  OBVIOUS
<1>3. \/ x = <<"SUB">> \/ x = <<"USUB">> \/ x = <<"DEL">>
      \/ \E k \in 1..MaxPub : x = <<"PUB", k>>
  BY <1>1, <1>2 DEF Request, Pub
<1>4. x[1] = "SUB" => x = <<"SUB">>
  BY <1>3
<1>5. x[1] = "USUB" => x = <<"USUB">>
  BY <1>3
<1>6. x[1] = "DEL" => x = <<"DEL">>
  BY <1>3
<1>7. ASSUME x[1] = "PUB" PROVE x[2] \in 1..MaxPub /\ x = <<"PUB", x[2]>>
  BY <1>3, <1>7
<1>8. CASE x[1] = "SUB" /\ d = "A" /\ exists["A"] /\ JoinGroup("A", s) /\ UNCHANGED <<exists, remote, link, memVars>>
  BY <1>1, <1>2, <1>4, <1>8, ServeJoin
<1>9. CASE x[1] = "SUB" /\ d = "A" /\ ~exists["A"] /\ inbox' = Answer(s, inbox) /\ UNCHANGED <<chanVars, remote, link, memVars>>
  BY <1>1, <1>2, <1>4, <1>9, ServeNoChannel
<1>10. CASE x[1] = "SUB" /\ d = "B" /\ exists["B"] /\ JoinGroup("B", s) /\ UNCHANGED <<exists, remote, link, memVars>>
  BY <1>1, <1>2, <1>4, <1>10, ServeJoin
<1>11. CASE /\ x[1] = "SUB" /\ d = "B" /\ link' = [link EXCEPT !["A"] = Append(@, <<"SUBR", s>>)]
            /\ UNCHANGED <<chanVars, remote, inbox, memVars>>
  BY <1>1, <1>2, <1>4, <1>11, ServeAsk
<1>12. CASE x[1] = "USUB" /\ Leave(d, s) /\ UNCHANGED <<remote, inbox, memVars>>
  BY <1>1, <1>2, <1>5, <1>12, ServeLeave
<1>13. CASE x[1] = "DEL" /\ d = "A" /\ DeleteHere(link) /\ UNCHANGED <<inbox, memVars>>
  BY <1>1, <1>2, <1>6, <1>13, ServeDelete
<1>14. CASE x[1] = "DEL" /\ link' = [link EXCEPT !["A"] = Append(@, x)] /\ UNCHANGED <<chanVars, remote, inbox, memVars>>
  BY <1>1, <1>2, <1>6, <1>14, ServeDeleteThere
<1>15. CASE x[1] = "PUB" /\ PublishHere(x[2], {s}, link)
  BY <1>1, <1>2, <1>7, <1>15, ServePublish
<1>16. CASE x[1] = "PUB" /\ PublishThere(x, s)
  BY <1>1, <1>2, <1>7, <1>16, ServePublishThere
<1> QED
  BY <1>2, <1>8, <1>9, <1>10, <1>11, <1>12, <1>13, <1>14, <1>15, <1>16 DEF Serve

\* The owner's multicastd takes a message of the other's.
LEMMA OwnerStep ==
  ASSUME MulticastConstants, IInv, OwnerServes
  PROVE  IInv'
<1> DEFINE m == Head(link["A"])  rest == [link EXCEPT !["A"] = Tail(@)]
<1>1. link["A"] # <<>> /\ UNCHANGED libVars /\ UNCHANGED req /\ m \in ToOwner
  <2>1. link["A"] # <<>> /\ link["A"] \in Seq(ToOwner)
    BY DEF OwnerServes, IInv, BoxesOK
  <2> QED
    BY <2>1, Pop DEF OwnerServes
<1>2. PICK x : x = m
  OBVIOUS
<1>3. \/ \E s \in Remote : x = <<"SUBR", s>>
      \/ x = <<"USUBR">> \/ x = <<"DEL">>
      \/ \E k \in 1..MaxPub : x = <<"PUB", k>>
  BY <1>1, <1>2 DEF ToOwner, Pub
<1>4. ASSUME x[1] = "SUBR" PROVE x[2] \in Remote /\ x = <<"SUBR", x[2]>>
  BY <1>3, <1>4
<1>5. x[1] = "USUBR" => x = <<"USUBR">>
  BY <1>3
<1>6. x[1] = "DEL" => x = <<"DEL">>
  BY <1>3
<1>7. ASSUME x[1] = "PUB" PROVE x[2] \in 1..MaxPub /\ x = <<"PUB", x[2]>>
  BY <1>3, <1>7
<1>8. CASE /\ x[1] = "SUBR" /\ UNCHANGED <<chanVars, inbox, memVars>>
           /\ link' = [rest EXCEPT !["B"] = Append(@, <<"SUBBED", x[2], exists["A"]>>)]
           /\ remote' = IF exists["A"] THEN "yes" ELSE remote
  BY <1>1, <1>2, <1>4, <1>8, OwnerAsked
<1>9. CASE /\ x[1] = "USUBR" /\ link' = rest /\ UNCHANGED <<chanVars, inbox, memVars>>
           /\ remote' = IF remote = "nil" THEN remote ELSE "no"
  BY <1>1, <1>2, <1>5, <1>9, OwnerLeft
<1>10. CASE x[1] = "DEL" /\ DeleteHere(rest) /\ UNCHANGED <<inbox, memVars>>
  BY <1>1, <1>2, <1>6, <1>10, OwnerDeletes
<1>11. CASE x[1] = "PUB" /\ PublishHere(x[2], {}, rest)
  BY <1>1, <1>2, <1>7, <1>11, OwnerPublishes
<1> QED
  BY <1>2, <1>8, <1>9, <1>10, <1>11 DEF OwnerServes

\* The other's takes one of the owner's.
LEMMA OtherStep ==
  ASSUME MulticastConstants, IInv, OtherServes
  PROVE  IInv'
<1> DEFINE m == Head(link["B"])
<1>1. /\ link["B"] # <<>> /\ UNCHANGED libVars /\ UNCHANGED <<req, remote>> /\ m \in ToOther
      /\ link' = [link EXCEPT !["B"] = Tail(@)]
  <2>1. link["B"] # <<>> /\ link["B"] \in Seq(ToOther)
    BY DEF OtherServes, IInv, BoxesOK
  <2> QED
    BY <2>1, Pop DEF OtherServes
<1>2. PICK x : x = m
  OBVIOUS
<1>3. \/ \E s \in Remote : \E b \in BOOLEAN : x = <<"SUBBED", s, b>>
      \/ x = <<"DELR">>
      \/ \E k \in 1..MaxPub : x = <<"PUB", k>>
  BY <1>1, <1>2 DEF ToOther, Pub, Subbed
<1>4. ASSUME x[1] = "SUBBED" PROVE x[2] \in Remote /\ x[3] \in BOOLEAN /\ x = <<"SUBBED", x[2], x[3]>>
  BY <1>3, <1>4
<1>5. x[1] = "DELR" => x = <<"DELR">>
  BY <1>3
<1>6. ASSUME x[1] = "PUB" PROVE x[2] \in 1..MaxPub /\ x = <<"PUB", x[2]>>
  BY <1>3, <1>6
<1>7. CASE x[1] = "SUBBED" /\ ~x[3] /\ inbox' = Answer(x[2], inbox) /\ UNCHANGED <<chanVars, memVars>>
  <2>1. x[2] \in Remote /\ x = <<"SUBBED", x[2], FALSE>>
    BY <1>4, <1>7
  <2> QED
    BY <1>1, <1>2, <1>7, <2>1, OtherRefused
<1>8. CASE /\ x[1] = "SUBBED" /\ x[3] /\ exists' = [exists EXCEPT !["B"] = TRUE]
           /\ n' = [Created EXCEPT !["B"] = @ + IF x[2] \in group["B"] THEN 0 ELSE 1]
           /\ group' = [group EXCEPT !["B"] = @ \cup {x[2]}]
           /\ inbox' = Answer(x[2], inbox) /\ UNCHANGED memVars
  <2>1. x[2] \in Remote /\ x = <<"SUBBED", x[2], TRUE>>
    BY <1>4, <1>8
  <2> QED
    BY <1>1, <1>2, <1>8, <2>1, OtherJoins
<1>9. CASE x[1] = "DELR" /\ NoChannel("B") /\ UNCHANGED <<inbox, memVars>>
  BY <1>1, <1>2, <1>5, <1>9, OtherDeletes
<1>10. CASE x[1] = "PUB" /\ Spread("B", <<x[2], "B">>, {}) /\ UNCHANGED chanVars
  BY <1>1, <1>2, <1>6, <1>10, OtherPublishes
<1> QED
  BY <1>2, <1>7, <1>8, <1>9, <1>10 DEF OtherServes

-----------------------------------------------------------------------------
\* The invariant at the start.
LEMMA InitIInv ==
  ASSUME MulticastConstants, Init
  PROVE  IInv
<1>1. /\ exists = [d \in Nodes |-> d = "A"] /\ group = [d \in Nodes |-> {}]
      /\ n = [d \in Nodes |-> 0] /\ remote = "nil"
      /\ req = [s \in Services |-> <<>>] /\ link = [d \in Nodes |-> <<>>]
      /\ inbox = [s \in Services |-> <<>>]
      /\ subscribe = [s \in Services |-> FALSE] /\ known = {} /\ calling = [s \in Services |-> "no"]
      /\ dead = {} /\ deleted = {}
      /\ refs = [p \in Packages |-> 0] /\ closed = {} /\ lost = [p \in Packages |-> 0]
      /\ pubs = 0 /\ ops = 0
  BY DEF Init
<1>2. "A" \in Nodes /\ "B" \in Nodes /\ Cardinality(Services) \in Nat /\ MaxPub \in Nat /\ MaxOps \in Nat
  BY WaitsFinite DEF Nodes, MulticastConstants
<1>3. /\ \A s \in Services : \A P : ~Has(P, inbox[s]) /\ Once(P, inbox[s]) /\ ~Has(P, req[s]) /\ Once(P, req[s])
      /\ \A d \in Nodes : \A P : ~Has(P, link[d]) /\ Once(P, link[d])
      /\ \A s \in Services : \A x, y : ~Ahead(x, y, inbox[s])
      /\ \A x, y : ~Ahead(x, y, link["B"])
  BY <1>1, <1>2, NoBox
<1>4. TypeOK
  BY <1>1, <1>2 DEF TypeOK
<1>5. BoxesOK
  <2>1. /\ req \in [Services -> Seq(Request)] /\ inbox \in [Services -> Seq(Inbound("A") \cup Inbound("B"))]
        /\ link \in [Nodes -> Seq(ToOwner \cup ToOther)] /\ group \in [Nodes -> SUBSET Services]
    BY <1>1
  <2>2. link["A"] \in Seq(ToOwner) /\ link["B"] \in Seq(ToOther) /\ \A s \in Services : inbox[s] \in Seq(Inbound(Home(s)))
    BY <1>1, <1>2
  <2> QED
    BY <1>1, <2>1, <2>2 DEF BoxesOK
<1>6. GroupCounted
  BY <1>1, FS_EmptySet DEF GroupCounted
<1>7. PackageCounted
  <2>1. \A p \in Packages : Waits(p) = {}
    BY <1>3 DEF Waits
  <2>2. \A p \in Packages : Cardinality(Waits(p)) = 0 /\ refs[p] = 0 /\ lost[p] = 0 /\ p \notin closed
    BY <1>1, <2>1, FS_EmptySet
  <2> QED
    BY <2>2 DEF PackageCounted
<1>8. RemoteRight
  BY <1>1, <1>2, <1>3 DEF RemoteRight
<1>9. OnePlace /\ CallsWait
  BY <1>1, <1>2, <1>3 DEF OnePlace, CallsWait, Called, Asked, Told, Replied
<1>10. KnownFirst
  BY <1>1 DEF KnownFirst
<1>11. PublishedOnce
  <2>1. \A m \in 1..MaxPub : <<m, "A">> \in Packages /\ <<m, "B">> \in Packages
    BY <1>2 DEF Packages
  <2>2. \A p \in Packages : NoCopy(p)
    BY <1>1, <1>3 DEF NoCopy
  <2> QED
    BY <1>2, <1>3, <2>1, <2>2 DEF PublishedOnce, Unpublished, Sent
<1>12. Ordered
  <2>1. ASSUME NEW s \in Services, NEW a \in 1..MaxPub, NEW b \in 1..MaxPub PROVE ~Follows(s, a, b)
    <3>1. ~Before(s, a, b)
      BY <1>3 DEF Before
    <3>2. ~Has({Msg(a, "B")}, inbox[s]) /\ ~Ahead(<<"PUB", a>>, <<"PUB", b>>, link["B"])
      BY <1>3
    <3> QED
      BY <3>1, <3>2 DEF Follows
  <2> QED
    BY <2>1 DEF Ordered
<1> QED
  BY <1>4, <1>5, <1>6, <1>7, <1>8, <1>9, <1>10, <1>11, <1>12 DEF IInv

\* Every step keeps it.
LEMMA NextIInv ==
  ASSUME MulticastConstants, IInv, [Next]_vars
  PROVE  IInv'
<1>1. ASSUME NEW s \in Services,
             Subscribe(s) \/ Unsubscribe(s) \/ Delete(s) \/ Publish(s) \/ Exit(s) \/ Answered(s) \/ Receive(s) \/ Serve(s)
      PROVE  IInv'
  BY <1>1, SubscribeStep, LeaveSteps, PublishStep, ExitStep, AnsweredStep, ReceiveStep, ServeStep
<1>2. CASE OwnerServes
  BY <1>2, OwnerStep
<1>3. CASE OtherServes
  BY <1>3, OtherStep
<1>4. CASE UNCHANGED vars
  <2>1. UNCHANGED <<exists, group, n, remote, req, link, inbox, subscribe, known, calling,
                    dead, deleted, refs, closed, lost, pubs, ops>>
    BY <1>4 DEF vars
  <2>2. TypeOK' /\ BoxesOK' /\ GroupCounted' /\ RemoteRight'
    BY <2>1 DEF IInv, TypeOK, BoxesOK, GroupCounted, RemoteRight
  <2>3. OnePlace' /\ CallsWait' /\ KnownFirst'
    BY <2>1 DEF IInv, OnePlace, CallsWait, KnownFirst, Called, Asked, Told, Replied
  <2>4. Quiet
    BY <2>1 DEF Quiet
  <2> QED
    BY <2>2, <2>3, <2>4, QuietStep DEF IInv
<1> QED
  BY <1>1, <1>2, <1>3, <1>4 DEF Next

\* What it says of the channel.
LEMMA Promises ==
  ASSUME IInv
  PROVE  NoUnknownChannel /\ NotForNobody /\ SameOrder
<1>1. NoUnknownChannel
  <2>1. <<"ret">>[1] # "msg"
    OBVIOUS
  <2> QED
    BY <2>1 DEF IInv, KnownFirst, NoUnknownChannel
<1>2. NotForNobody
  <2>1. ASSUME Has({<<"SUBBED", s, TRUE>> : s \in Remote}, link["B"])
        PROVE  \E i \in 1..Len(link["B"]) : link["B"][i][1] = "SUBBED"
    <3>1. PICK i \in 1..Len(link["B"]) : link["B"][i] \in {<<"SUBBED", s, TRUE>> : s \in Remote}
      BY <2>1 DEF Has
    <3>2. PICK s \in Remote : link["B"][i] = <<"SUBBED", s, TRUE>>
      BY <3>1
    <3>3. link["B"][i][1] = "SUBBED"
      BY <3>2
    <3> QED
      BY <3>3
  <2>2. ASSUME Has({<<"USUBR">>}, link["A"])
        PROVE  <<"USUBR">> \in ToSet(link["A"])
    BY <2>2 DEF Has, ToSet
  <2> QED
    BY <2>1, <2>2 DEF IInv, RemoteRight, NotForNobody
<1>3. SameOrder
  BY DEF IInv, Ordered, Follows, SameOrder
<1> QED
  BY <1>1, <1>2, <1>3

\* multicastd.lua: channel_n is the number of subscribers on both nodes, a package is freed
\* after its last message, a service has its dispatch before the first message, the owner
\* forwards nothing for good to a node without subscribers, and no two services see two
\* messages in different orders: for any number of services and messages.
THEOREM MulticastSafe == ASSUME MulticastConstants PROVE Spec => []MulticastRight
<1>1. Init => IInv
  BY InitIInv
<1>2. IInv /\ [Next]_vars => IInv'
  BY NextIInv
<1>3. IInv => MulticastRight
  BY Promises DEF IInv, MulticastRight
<1> QED
  BY <1>1, <1>2, <1>3, PTL DEF Spec
=============================================================================
