------------------------------ MODULE Multicast ------------------------------
(***************************************************************************)
(* One multicast channel between two nodes (service/multicastd.lua,        *)
(* lualib/multicast.lua, lua-multicast.c): the node that owns it and one   *)
(* that subscribes.  Services ask the multicastd of their node; the two    *)
(* multicastd talk through the harbor.  Messages from one sender to one    *)
(* receiver keep their order, and nothing else about their order is known. *)
(* A published message is a package in shared memory, freed by its count.  *)
(***************************************************************************)
EXTENDS Integers, Sequences, FiniteSets, SequencesExt

CONSTANTS
  Local, Remote,   \* services of the owner's node and of the other one
  MaxPub, MaxOps   \* bounds: messages published, other requests

Services == Local \cup Remote
Nodes == {"A", "B"}                              \* A owns the channel
Home(s) == IF s \in Local THEN "A" ELSE "B"
Packages == (1..MaxPub) \X Nodes                 \* the copy of a message on a node

VARIABLES
  exists, group, n,   \* per node: channel[c] is not nil, its keys, channel_n[c]
  remote,             \* owner's channel_remote[c]: "nil", or whether it has B: "yes", "no"
  req, link, inbox,   \* mailboxes by sender: of a service, of the other multicastd,
                      \* and of a service from its multicastd
  subscribe, known,   \* self.__subscribe and dispatch[c], per service
  calling,            \* the call a service waits for
  dead, deleted,      \* services that exited; that called chan:delete
  refs, closed,       \* pack->reference; packages that were freed
  lost,               \* lost[p]: references to p dropped with a mailbox
  pubs, ops

vars == <<exists, group, n, remote, req, link, inbox, subscribe, known, calling,
          dead, deleted, refs, closed, lost, pubs, ops>>
memVars  == <<refs, closed, lost>>
libVars  == <<subscribe, known, calling, dead, deleted, pubs, ops>>
chanVars == <<exists, group, n>>

Init ==   \* after command.NEW
  /\ exists = [d \in Nodes |-> d = "A"] /\ group = [d \in Nodes |-> {}]
  /\ n = [d \in Nodes |-> 0] /\ remote = "nil"
  /\ req = [s \in Services |-> <<>>] /\ link = [d \in Nodes |-> <<>>]
  /\ inbox = [s \in Services |-> <<>>]
  /\ subscribe = [s \in Services |-> FALSE] /\ known = {} /\ calling = [s \in Services |-> "no"]
  /\ dead = {} /\ deleted = {}
  /\ refs = [p \in Packages |-> 0] /\ closed = {} /\ lost = [p \in Packages |-> 0]
  /\ pubs = 0 /\ ops = 0

-----------------------------------------------------------------------------
(* lualib/multicast.lua, in the services.                                  *)
Ready(s) == s \notin dead /\ s \notin deleted /\ calling[s] = "no"
Ask(s, m) == req' = [req EXCEPT ![s] = Append(@, m)]
Op == ops < MaxOps /\ ops' = ops + 1

\* chan:subscribe, chan:unsubscribe, chan:delete and chan:publish.
Subscribe(s) ==
  /\ Ready(s) /\ Op /\ ~subscribe[s]
  /\ Ask(s, <<"SUB">>) /\ calling' = [calling EXCEPT ![s] = "SUB"]
  /\ UNCHANGED <<chanVars, remote, link, inbox, subscribe, known, dead, deleted, memVars, pubs>>
Unsubscribe(s) ==
  /\ Ready(s) /\ Op /\ subscribe[s]
  /\ Ask(s, <<"USUB">>) /\ subscribe' = [subscribe EXCEPT ![s] = FALSE]
  /\ UNCHANGED <<chanVars, remote, link, inbox, known, calling, dead, deleted, memVars, pubs>>
Delete(s) ==
  /\ Ready(s) /\ Op
  /\ Ask(s, <<"DEL">>) /\ subscribe' = [subscribe EXCEPT ![s] = FALSE]
  /\ deleted' = deleted \cup {s}
  /\ UNCHANGED <<chanVars, remote, link, inbox, known, calling, dead, memVars, pubs>>
Publish(s) ==
  /\ Ready(s) /\ pubs < MaxPub /\ pubs' = pubs + 1
  /\ Ask(s, <<"PUB", pubs + 1>>) /\ calling' = [calling EXCEPT ![s] = "PUB"]
  /\ UNCHANGED <<chanVars, remote, link, inbox, subscribe, known, dead, deleted, memVars, ops>>

\* The service exits: what waits for it is dropped, and the __gc of its channel
\* still sends USUB.
References(s, p) == Cardinality({i \in 1..Len(inbox[s]) : inbox[s][i] = <<"msg", p>>})
Exit(s) ==
  /\ s \notin dead /\ Op /\ dead' = dead \cup {s}
  /\ req' = IF subscribe[s] THEN [req EXCEPT ![s] = Append(@, <<"USUB">>)] ELSE req
  /\ lost' = [p \in Packages |-> lost[p] + References(s, p)]
  /\ inbox' = [inbox EXCEPT ![s] = <<>>] /\ subscribe' = [subscribe EXCEPT ![s] = FALSE]
  /\ UNCHANGED <<chanVars, remote, link, known, calling, deleted, refs, closed, pubs>>

\* mc.close.  An operator named Bad... is a plausible error in the one after it.
Close(p) ==
  /\ refs' = [refs EXCEPT ![p] = @ - 1]
  /\ closed' = IF refs[p] = 1 THEN closed \cup {p} ELSE closed

\* The service takes an answer, or a message (dispatch_subscribe).
Answered(s) ==
  /\ inbox[s] # <<>> /\ Head(inbox[s]) = <<"ret">>
  /\ inbox' = [inbox EXCEPT ![s] = Tail(@)] /\ calling' = [calling EXCEPT ![s] = "no"]
  /\ IF calling[s] = "SUB" THEN /\ subscribe' = [subscribe EXCEPT ![s] = TRUE]
                                /\ known' = known \cup {s}
     ELSE UNCHANGED <<subscribe, known>>
  /\ UNCHANGED <<chanVars, remote, req, link, dead, deleted, memVars, pubs, ops>>
Receive(s) ==
  /\ inbox[s] # <<>> /\ Head(inbox[s])[1] = "msg"
  /\ inbox' = [inbox EXCEPT ![s] = Tail(@)] /\ Close(Head(inbox[s])[2])
  /\ UNCHANGED <<chanVars, remote, req, link, libVars, lost>>

-----------------------------------------------------------------------------
(* multicastd.lua.                                                         *)
Answer(s, box) == IF s \in dead THEN box ELSE [box EXCEPT ![s] = Append(@, <<"ret">>)]

\* The part of publish that is about its own node: bind the package to channel_n
\* references and send each subscriber one; answer whoever published (by).
Bind(d)    == n[d]
Spread(d, p, by) ==
  LET to == group[d]
      sent == [s \in Services |-> IF s \in to \ dead THEN Append(inbox[s], <<"msg", p>>) ELSE inbox[s]]
  IN  /\ IF ~exists[d] \/ to = {}
         THEN closed' = closed \cup {p} /\ UNCHANGED <<refs, lost>>
         ELSE /\ refs' = [refs EXCEPT ![p] = Bind(d)] /\ UNCHANGED closed
              /\ lost' = [lost EXCEPT ![p] = @ + Cardinality(to \cap dead)]
      /\ inbox' = IF by = {} THEN sent ELSE Answer(CHOOSE s \in by : TRUE, sent)

\* publish on the owner's node; remote is the table of the other nodes.
PublishHere(m, by, links) ==
  /\ Spread("A", <<m, "A">>, by)
  /\ link' = [links EXCEPT !["B"] = IF remote = "yes" THEN Append(@, <<"PUB", m>>) ELSE @]
  /\ UNCHANGED <<chanVars, remote>>

\* command.PUB on the other node: mc.remote takes the package apart, the owner
\* publishes it.
PublishThere(m, s) ==
  /\ link' = [link EXCEPT !["A"] = Append(@, m)] /\ inbox' = Answer(s, inbox)
  /\ UNCHANGED <<chanVars, remote, memVars>>

\* command.DEL on the owner's node.
NoChannel(d) ==
  /\ exists' = [exists EXCEPT ![d] = FALSE] /\ group' = [group EXCEPT ![d] = {}]
  /\ n' = [n EXCEPT ![d] = 0]
DeleteHere(links) ==
  /\ NoChannel("A") /\ remote' = "nil"
  /\ link' = IF remote = "yes" THEN [links EXCEPT !["B"] = Append(@, <<"DELR">>)] ELSE links

\* The end of command.SUB, and the answer.
Join(d, s) == n' = IF s \in group[d] THEN n ELSE [n EXCEPT ![d] = @ + 1]
JoinGroup(d, s) ==
  /\ Join(d, s) /\ group' = [group EXCEPT ![d] = @ \cup {s}] /\ inbox' = Answer(s, inbox)

\* command.USUB: on a remote channel the last one out takes the channel away.  A
\* failing assert(channel[c]) leaves everything as it is.
LastOut(d, s) == d = "B" /\ n[d] = 1
Leave(d, s) ==
  IF exists[d] /\ s \in group[d]
  THEN /\ group' = [group EXCEPT ![d] = @ \ {s}] /\ n' = [n EXCEPT ![d] = @ - 1]
       /\ exists' = [exists EXCEPT ![d] = ~LastOut(d, s)]
       /\ link' = IF LastOut(d, s) THEN [link EXCEPT !["A"] = Append(@, <<"USUBR">>)] ELSE link
  ELSE UNCHANGED <<chanVars, link>>

\* A request of service s, whose node is d.
Took(s) == req[s] # <<>> /\ req' = [req EXCEPT ![s] = Tail(@)]
Serve(s) ==
  LET d == Home(s)  m == Head(req[s])
  IN  /\ Took(s) /\ UNCHANGED libVars
      /\ \/ m[1] = "SUB" /\ d = "A" /\ exists["A"] /\ JoinGroup("A", s) /\ UNCHANGED <<exists, remote, link, memVars>>
         \/ m[1] = "SUB" /\ d = "A" /\ ~exists["A"] /\ inbox' = Answer(s, inbox)
            /\ UNCHANGED <<chanVars, remote, link, memVars>>
         \/ m[1] = "SUB" /\ d = "B" /\ exists["B"] /\ JoinGroup("B", s) /\ UNCHANGED <<exists, remote, link, memVars>>
         \/ m[1] = "SUB" /\ d = "B" /\ ~exists["B"]   \* skynet.call of SUBR: waits
            /\ link' = [link EXCEPT !["A"] = Append(@, <<"SUBR", s>>)]
            /\ UNCHANGED <<chanVars, remote, inbox, memVars>>
         \/ m[1] = "USUB" /\ Leave(d, s) /\ UNCHANGED <<remote, inbox, memVars>>
         \/ m[1] = "DEL" /\ d = "A" /\ DeleteHere(link) /\ UNCHANGED <<inbox, memVars>>
         \/ m[1] = "DEL" /\ d = "B" /\ link' = [link EXCEPT !["A"] = Append(@, m)]
            /\ UNCHANGED <<chanVars, remote, inbox, memVars>>
         \/ m[1] = "PUB" /\ d = "A" /\ PublishHere(m[2], {s}, link)
         \/ m[1] = "PUB" /\ d = "B" /\ PublishThere(m, s)

\* What the owner's multicastd gets from the other: SUBR and its answer, USUBR
\* (a failing assert leaves everything as it is), DEL, and messages to publish.
OwnerServes ==
  LET m == Head(link["A"])  rest == [link EXCEPT !["A"] = Tail(@)]
  IN  /\ link["A"] # <<>> /\ UNCHANGED <<libVars, req>>
      /\ \/ /\ m[1] = "SUBR" /\ UNCHANGED <<chanVars, inbox, memVars>>
            /\ link' = [rest EXCEPT !["B"] = Append(@, <<"SUBBED", m[2], exists["A"]>>)]
            /\ remote' = IF exists["A"] THEN "yes" ELSE remote
         \/ /\ m[1] = "USUBR" /\ link' = rest /\ UNCHANGED <<chanVars, inbox, memVars>>
            /\ remote' = IF remote = "nil" THEN remote ELSE "no"
         \/ m[1] = "DEL" /\ DeleteHere(rest) /\ UNCHANGED <<inbox, memVars>>
         \/ m[1] = "PUB" /\ PublishHere(m[2], {}, rest)

\* What the other's gets from the owner: the answer to SUBR, after which SUB looks
\* at channel[c] again; DELR; messages for its subscribers.
BadCreated == [n EXCEPT !["B"] = 0]
Created    == IF exists["B"] THEN n ELSE [n EXCEPT !["B"] = 0]
OtherServes ==
  LET m == Head(link["B"])
  IN  /\ link["B"] # <<>> /\ link' = [link EXCEPT !["B"] = Tail(@)]
      /\ UNCHANGED <<libVars, req, remote>>
      /\ \/ m[1] = "SUBBED" /\ ~m[3] /\ inbox' = Answer(m[2], inbox) /\ UNCHANGED <<chanVars, memVars>>
         \/ m[1] = "SUBBED" /\ m[3] /\ exists' = [exists EXCEPT !["B"] = TRUE]
            /\ n' = [Created EXCEPT !["B"] = @ + IF m[2] \in group["B"] THEN 0 ELSE 1]
            /\ group' = [group EXCEPT !["B"] = @ \cup {m[2]}]
            /\ inbox' = Answer(m[2], inbox) /\ UNCHANGED memVars
         \/ m[1] = "DELR" /\ NoChannel("B") /\ UNCHANGED <<inbox, memVars>>
         \/ m[1] = "PUB" /\ Spread("B", <<m[2], "B">>, {}) /\ UNCHANGED chanVars

Next ==
  \/ \E s \in Services : \/ Subscribe(s) \/ Unsubscribe(s) \/ Delete(s) \/ Publish(s) \/ Exit(s)
                         \/ Answered(s) \/ Receive(s) \/ Serve(s)
  \/ OwnerServes \/ OtherServes
Spec == Init /\ [][Next]_vars

-----------------------------------------------------------------------------
TypeOK ==
  /\ exists \in [Nodes -> BOOLEAN] /\ group["A"] \subseteq Local /\ group["B"] \subseteq Remote
  /\ n \in [Nodes -> 0..Cardinality(Services)] /\ remote \in {"nil", "yes", "no"}
  /\ subscribe \in [Services -> BOOLEAN] /\ known \subseteq Services
  /\ calling \in [Services -> {"no", "SUB", "PUB"}] /\ dead \subseteq Services /\ deleted \subseteq Services
  /\ refs \in [Packages -> 0..Cardinality(Services)] /\ closed \subseteq Packages
  /\ lost \in [Packages -> 0..Cardinality(Services)] /\ pubs \in 0..MaxPub /\ ops \in 0..MaxOps

\* channel_n[c], which becomes the reference count of every package, is the number
\* of subscribers; a channel that is not there has none.
GroupCounted == \A d \in Nodes : n[d] = Cardinality(group[d]) /\ (group[d] # {} => exists[d])

\* A package has one reference for each service it waits for and each one dropped with
\* the mailbox of a service that exited; it is freed after the last, and only then.
Has(P, box) == \E i \in 1..Len(box) : box[i] \in P
Waits(p) == {s \in Services : Has({<<"msg", p>>}, inbox[s])}
PackageCounted ==
  \A p \in Packages : /\ refs[p] = Cardinality(Waits(p)) + lost[p]
                      /\ p \in closed => refs[p] = 0

\* A message reaches a service only after its subscribe has returned
\* (dispatch_subscribe would raise "Unknown channel").
NoUnknownChannel ==
  \A s \in Services : inbox[s] # <<>> /\ Head(inbox[s])[1] = "msg" => s \in known

\* The owner sends messages to the other node only while that has subscribers, is
\* about to have one, or is about to say that it has none any more.
NotForNobody ==
  \/ remote # "yes" \/ exists["B"]
  \/ \E i \in 1..Len(link["B"]) : link["B"][i][1] = "SUBBED"
  \/ <<"USUBR">> \in ToSet(link["A"])

\* Two services see the messages that both get in the same order, and none sees one twice.
Ahead(x, y, box) == \E i, j \in 1..Len(box) : i < j /\ box[i] = x /\ box[j] = y
Msg(m, d)        == <<"msg", <<m, d>>>>
Before(s, a, b)  == Ahead(Msg(a, Home(s)), Msg(b, Home(s)), inbox[s])
SameOrder ==
  \A s, t \in Services : \A a, b \in 1..MaxPub : ~(Before(s, a, b) /\ Before(t, b, a))

\* All that is promised of the channel.
MulticastRight == TypeOK /\ GroupCounted /\ PackageCounted /\ NoUnknownChannel /\ NotForNobody /\ SameOrder

-----------------------------------------------------------------------------
(* The inductive invariant behind MulticastRight.                          *)
MulticastConstants ==
  /\ IsFiniteSet(Local) /\ IsFiniteSet(Remote) /\ Local \cap Remote = {}
  /\ MaxPub \in Nat /\ MaxOps \in Nat

Pub == {<<"PUB", m>> : m \in 1..MaxPub}
Request == {<<"SUB">>, <<"USUB">>, <<"DEL">>} \cup Pub
ToOwner == {<<"SUBR", s>> : s \in Remote} \cup {<<"USUBR">>, <<"DEL">>} \cup Pub
Subbed(s) == {<<"SUBBED", s, b>> : b \in BOOLEAN}
ToOther == (UNION {Subbed(s) : s \in Remote}) \cup {<<"DELR">>} \cup Pub
Inbound(d) == {<<"ret">>} \cup {Msg(m, d) : m \in 1..MaxPub}
BoxesOK ==
  /\ req \in [Services -> Seq(Request)]
  /\ link \in [Nodes -> Seq(ToOwner \cup ToOther)] /\ link["A"] \in Seq(ToOwner) /\ link["B"] \in Seq(ToOther)
  /\ inbox \in [Services -> Seq(Inbound("A") \cup Inbound("B"))]
  /\ \A s \in Services : inbox[s] \in Seq(Inbound(Home(s))) /\ (s \in dead => inbox[s] = <<>>)
  /\ group \in [Nodes -> SUBSET Services]

\* Once the channel is deleted it stays so; the owner sends to the other node as long as
\* that has subscribers or will have one, or has not said that it has none.
RemoteRight ==
  /\ remote # "nil" => exists["A"]
  /\ Has({<<"DELR">>} \cup {<<"SUBBED", s, FALSE>> : s \in Remote}, link["B"]) => ~exists["A"]
  /\ remote = "yes" => \/ exists["B"] \/ Has({<<"SUBBED", s, TRUE>> : s \in Remote}, link["B"])
                       \/ Has({<<"USUBR">>}, link["A"])

\* The call of a service is in one place: in its mailbox, between the nodes, or answered.
Once(P, box) == \A i, j \in 1..Len(box) : box[i] \in P /\ box[j] \in P => i = j
Called(s)    == Has({<<"SUB">>} \cup Pub, req[s])
Asked(s)     == Has({<<"SUBR", s>>}, link["A"])
Told(s)      == Has(Subbed(s), link["B"])
Replied(s)   == Has({<<"ret">>}, inbox[s])
OnePlace ==
  \A s \in Services :
    /\ Once({<<"SUB">>} \cup Pub, req[s]) /\ Once({<<"SUBR", s>>}, link["A"])
    /\ Once(Subbed(s), link["B"]) /\ Once({<<"ret">>}, inbox[s])
    /\ Called(s)  => ~Asked(s) /\ ~Told(s) /\ ~Replied(s)
    /\ Asked(s)   => ~Told(s) /\ ~Replied(s)
    /\ Told(s)    => ~Replied(s)
CallsWait ==
  \A s \in Services :
    /\ Called(s) \/ Replied(s) => calling[s] # "no"
    /\ Asked(s) \/ Told(s) \/ Has({<<"SUB">>}, req[s]) => calling[s] = "SUB"

\* Who is in a group has its dispatch, or will have it before any message.
KnownFirst ==
  \A s \in Services \ known :
    /\ \A d \in Nodes : s \in group[d] \ dead => calling[s] = "SUB" /\ Replied(s)
    /\ inbox[s] # <<>> => /\ Head(inbox[s]) = <<"ret">>
                          /\ calling[s] = "SUB" \/ Len(inbox[s]) = 1

\* A message is published once.  Before, on its way to the owner, nobody has it; before
\* the copy for the other node arrives, nobody there has it.
Sent(m, box) == Has({<<"PUB", m>>}, box)
NoCopy(p) == /\ refs[p] = 0 /\ lost[p] = 0 /\ p \notin closed
             /\ \A s \in Services : ~Has({<<"msg", p>>}, inbox[s])
Unpublished(m) == NoCopy(<<m, "A">>) /\ NoCopy(<<m, "B">>) /\ ~Sent(m, link["B"])
PublishedOnce ==
  \A m \in 1..MaxPub :
    /\ Once({<<"PUB", m>>}, link["A"]) /\ Once({<<"PUB", m>>}, link["B"])
    /\ \A s \in Services : /\ Once({<<"PUB", m>>}, req[s])
                           /\ Sent(m, req[s]) => /\ m <= pubs /\ Unpublished(m) /\ ~Sent(m, link["A"])
                                                 /\ \A t \in Services \ {s} : ~Sent(m, req[t])
    /\ Sent(m, link["A"]) => m <= pubs /\ Unpublished(m)
    /\ m > pubs => Unpublished(m)
    /\ Sent(m, link["B"]) => NoCopy(<<m, "B">>)

\* The order of the messages a service has got and, on the other node, may still get.
Follows(s, a, b) ==
  \/ Before(s, a, b)
  \/ s \in Remote /\ Has({Msg(a, "B")}, inbox[s]) /\ Sent(b, link["B"])
  \/ s \in Remote /\ Ahead(<<"PUB", a>>, <<"PUB", b>>, link["B"])
Ordered ==
  \A s, t \in Services : \A a, b \in 1..MaxPub : ~(Follows(s, a, b) /\ Follows(t, b, a))

IInv == /\ TypeOK /\ BoxesOK /\ GroupCounted /\ PackageCounted /\ RemoteRight /\ OnePlace
        /\ CallsWait /\ KnownFirst /\ PublishedOnce /\ Ordered
=============================================================================
