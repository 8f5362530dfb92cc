------------------------- MODULE LuaSchedulerProofs -------------------------
(***************************************************************************)
(* Proof that the scheduler of lualib/skynet.lua and the lock of           *)
(* skynet/queue.lua keep what SchedulerRight says, for any number of       *)
(* coroutines, sessions, peers, requests and uncaught errors.              *)
(***************************************************************************)
EXTENDS LuaScheduler, SequenceTheorems, FiniteSetTheorems, TLAPS

-----------------------------------------------------------------------------
(* Queues.                                                                 *)

\* What is left of a sequence after its head was taken.
LEMMA TailSet ==
  ASSUME NEW S, NEW q \in Seq(S), q # <<>>
  PROVE  /\ Head(q) \in S /\ Tail(q) \in Seq(S) /\ Head(q) = q[1]
         /\ Len(q) \in Nat /\ Len(q) > 0 /\ Len(Tail(q)) = Len(q) - 1
         /\ \A i \in 1..Len(Tail(q)) : Tail(q)[i] = q[i + 1]
         /\ \A x : x \in ToSet(q) <=> x = Head(q) \/ x \in ToSet(Tail(q))
<1>1. /\ Head(q) \in S /\ Tail(q) \in Seq(S) /\ Len(Tail(q)) = Len(q) - 1
      /\ \A i \in 1..Len(Tail(q)) : Tail(q)[i] = q[i + 1]
      /\ Head(q) = q[1]
  BY HeadTailProperties
<1>2. Len(q) \in Nat /\ Len(q) > 0 /\ DOMAIN q = 1..Len(q) /\ DOMAIN Tail(q) = 1..Len(Tail(q))
  BY <1>1, EmptySeq, LenProperties
<1>3. ASSUME NEW x \in ToSet(q) PROVE x = Head(q) \/ x \in ToSet(Tail(q))
  <2>1. PICK i \in 1..Len(q) : x = q[i]
    BY <1>2, <1>3 DEF ToSet
  <2>2. CASE i = 1
    BY <1>1, <2>1, <2>2
  <2>3. CASE i # 1
    <3>1. i - 1 \in 1..Len(Tail(q)) /\ Tail(q)[i - 1] = q[i]
      BY <1>1, <1>2, <2>3
    <3> QED
      BY <1>2, <2>1, <3>1 DEF ToSet
  <2> QED
    BY <2>2, <2>3
<1>4. ASSUME NEW x \in ToSet(Tail(q)) PROVE x \in ToSet(q)
  <2>1. PICK i \in 1..Len(Tail(q)) : x = Tail(q)[i]
    BY <1>2, <1>4 DEF ToSet
  <2>2. i + 1 \in 1..Len(q) /\ x = q[i + 1]
    BY <1>1, <1>2, <2>1
  <2> QED
    BY <1>2, <2>2 DEF ToSet
<1>5. Head(q) \in ToSet(q)
  BY <1>1, <1>2 DEF ToSet
<1> QED
  BY <1>1, <1>2, <1>3, <1>4, <1>5

\* The elements of two sequences put together.
LEMMA ConcatSet ==
  ASSUME NEW S, NEW q \in Seq(S), NEW t \in Seq(S)
  PROVE  /\ q \o t \in Seq(S)
         /\ \A x : x \in ToSet(q \o t) <=> x \in ToSet(q) \/ x \in ToSet(t)
<1>1. /\ q \o t \in Seq(S) /\ Len(q \o t) = Len(q) + Len(t)
      /\ \A i \in 1..(Len(q) + Len(t)) :
            (q \o t)[i] = IF i <= Len(q) THEN q[i] ELSE t[i - Len(q)]
  BY ConcatProperties
<1>2. /\ Len(q) \in Nat /\ Len(t) \in Nat /\ DOMAIN q = 1..Len(q) /\ DOMAIN t = 1..Len(t)
      /\ DOMAIN (q \o t) = 1..(Len(q) + Len(t))
  BY <1>1, LenProperties
<1>3. ASSUME NEW x \in ToSet(q \o t) PROVE x \in ToSet(q) \/ x \in ToSet(t)
  <2>1. PICK i \in 1..(Len(q) + Len(t)) : x = (q \o t)[i]
    BY <1>2, <1>3 DEF ToSet
  <2>2. CASE i <= Len(q)
    <3>1. i \in DOMAIN q /\ x = q[i]
      BY <1>1, <1>2, <2>1, <2>2
    <3> QED
      BY <3>1 DEF ToSet
  <2>3. CASE i > Len(q)
    <3>1. i - Len(q) \in DOMAIN t /\ x = t[i - Len(q)]
      BY <1>1, <1>2, <2>1, <2>3
    <3> QED
      BY <3>1 DEF ToSet
  <2> QED
    BY <1>2, <2>2, <2>3
<1>4. ASSUME NEW x \in ToSet(q) PROVE x \in ToSet(q \o t)
  <2>1. PICK i \in 1..Len(q) : x = q[i]
    BY <1>2, <1>4 DEF ToSet
  <2>2. i \in DOMAIN (q \o t) /\ x = (q \o t)[i]
    BY <1>1, <1>2, <2>1
  <2> QED
    BY <2>2 DEF ToSet
<1>5. ASSUME NEW x \in ToSet(t) PROVE x \in ToSet(q \o t)
  <2>1. PICK i \in 1..Len(t) : x = t[i]
    BY <1>2, <1>5 DEF ToSet
  <2>2. i + Len(q) \in DOMAIN (q \o t) /\ x = (q \o t)[i + Len(q)]
    BY <1>1, <1>2, <2>1
  <2> QED
    BY <2>2 DEF ToSet
<1> QED
  BY <1>1, <1>3, <1>4, <1>5

\* The elements of a sequence one was appended to.
LEMMA AppendSet ==
  ASSUME NEW S, NEW q \in Seq(S), NEW y \in S
  PROVE  /\ Append(q, y) \in Seq(S)
         /\ \A x : x \in ToSet(Append(q, y)) <=> x \in ToSet(q) \/ x = y
<1>1. <<y>> \in Seq(S) /\ Append(q, y) = q \o <<y>>
  OBVIOUS
<1>2. \A x : x \in ToSet(<<y>>) <=> x = y
  BY DEF ToSet
<1> QED
  BY <1>1, <1>2, ConcatSet

\* A queue stays free of repetitions.
LEMMA StaysDistinct ==
  ASSUME NEW S, NEW q \in Seq(S), Distinct(q)
  PROVE  /\ q # <<>> => Distinct(Tail(q)) /\ Head(q) \notin ToSet(Tail(q))
         /\ \A y \in S : y \notin ToSet(q) => Distinct(Append(q, y))
<1>1. ASSUME q # <<>> PROVE Distinct(Tail(q)) /\ Head(q) \notin ToSet(Tail(q))
  <2>1. /\ Tail(q) \in Seq(S) /\ Len(q) \in Nat /\ Len(q) > 0 /\ Len(Tail(q)) = Len(q) - 1
        /\ Head(q) = q[1] /\ \A i \in 1..Len(Tail(q)) : Tail(q)[i] = q[i + 1]
    BY <1>1, TailSet
  <2>2. Distinct(Tail(q))
    <3>1. ASSUME NEW i \in 1..Len(Tail(q)), NEW j \in 1..Len(Tail(q)), Tail(q)[i] = Tail(q)[j]
          PROVE  i = j
      <4>1. i + 1 \in 1..Len(q) /\ j + 1 \in 1..Len(q) /\ q[i + 1] = q[j + 1]
        BY <2>1, <3>1
      <4>2. i + 1 = j + 1
        BY <4>1 DEF Distinct
      <4> QED
        BY <4>2
    <3> QED
      BY <3>1 DEF Distinct
  <2>3. ASSUME Head(q) \in ToSet(Tail(q)) PROVE FALSE
    <3>1. PICK i \in 1..Len(Tail(q)) : Head(q) = Tail(q)[i]
      BY <2>1, <2>3, LenProperties DEF ToSet
    <3>2. i + 1 \in 1..Len(q) /\ 1 \in 1..Len(q) /\ q[i + 1] = q[1]
      BY <2>1, <3>1
    <3>3. i + 1 = 1
      BY <3>2 DEF Distinct
    <3> QED
      BY <3>3
  <2> QED
    BY <2>2, <2>3
<1>2. ASSUME NEW y \in S, y \notin ToSet(q) PROVE Distinct(Append(q, y))
  <2>1. /\ Len(Append(q, y)) = Len(q) + 1 /\ Len(q) \in Nat /\ DOMAIN q = 1..Len(q)
        /\ \A i \in 1..Len(q) : Append(q, y)[i] = q[i]
        /\ Append(q, y)[Len(q) + 1] = y
    BY LenProperties
  <2>2. \A i \in 1..Len(q) : q[i] # y
    BY <1>2, <2>1 DEF ToSet
  <2>3. ASSUME NEW i \in 1..(Len(q) + 1), NEW j \in 1..(Len(q) + 1),
               Append(q, y)[i] = Append(q, y)[j]
        PROVE  i = j
    <3>1. CASE i \in 1..Len(q) /\ j \in 1..Len(q)
      BY <2>1, <2>3, <3>1 DEF Distinct
    <3>2. CASE i = Len(q) + 1 \/ j = Len(q) + 1
      BY <2>1, <2>2, <2>3, <3>2
    <3> QED
      BY <2>1, <3>1, <3>2
  <2> QED
    BY <2>1, <2>3 DEF Distinct
<1> QED
  BY <1>1, <1>2

-----------------------------------------------------------------------------
(* The mailbox: what of it the invariants speak of, before and after the   *)
(* steps that take a message or send some.                                 *)

\* Messages differ if their type, their number or their sender differs.
LEMMA MsgEq ==
  /\ \A t1, n1, f1, t2, n2, f2 :
       Msg(t1, n1, f1) = Msg(t2, n2, f2) <=> t1 = t2 /\ n1 = n2 /\ f1 = f2
  /\ \A t, n, f : Msg(t, n, f).type = t /\ Msg(t, n, f).from = f /\ Msg(t, n, f).n = n
<1>1. \A t, n, f : Msg(t, n, f).type = t /\ Msg(t, n, f).from = f /\ Msg(t, n, f).n = n
  BY DEF Msg
<1>2. ASSUME NEW t1, NEW n1, NEW f1, NEW t2, NEW n2, NEW f2, Msg(t1, n1, f1) = Msg(t2, n2, f2)
      PROVE  t1 = t2 /\ n1 = n2 /\ f1 = f2
  BY <1>1, <1>2
<1> QED
  BY <1>1, <1>2

\* Taking a message removes it from the mailbox and leaves the others.
LEMMA MailTaken ==
  ASSUME OtherTypes, NEW m, Take(m)
  PROVE  /\ mbox' \in Seq(Messages) /\ m \in Messages
         /\ \A x : x \in ToSet(mbox) <=> x = m \/ x \in ToSet(mbox')
<1>1. mbox \in Seq(Messages) /\ mbox # <<>> /\ m = Head(mbox) /\ mbox' = Tail(mbox)
  BY DEF OtherTypes, Take
<1> QED
  BY <1>1, TailSet

\* A message that is there once is gone when it was taken.
LEMMA OnceTaken ==
  ASSUME OtherTypes, NEW m, Take(m), Once(mbox)
  PROVE  Once(mbox') /\ (m.type = "REQUEST" => m \notin ToSet(mbox'))
<1> DEFINE q == Tail(mbox)
<1>1. mbox \in Seq(Messages) /\ mbox # <<>> /\ m = Head(mbox) /\ mbox' = q
  BY DEF OtherTypes, Take
<1>2. /\ q \in Seq(Messages) /\ Len(mbox) \in Nat /\ Len(mbox) > 0 /\ Len(q) = Len(mbox) - 1
      /\ m = mbox[1] /\ \A i \in 1..Len(q) : q[i] = mbox[i + 1]
  BY <1>1, TailSet
<1>3. Once(q)
  <2>1. ASSUME NEW i \in 1..Len(q), NEW j \in 1..Len(q), q[i] = q[j], q[i].type = "REQUEST"
        PROVE  i = j
    <3>1. /\ i + 1 \in 1..Len(mbox) /\ j + 1 \in 1..Len(mbox) /\ mbox[i + 1] = mbox[j + 1]
          /\ mbox[i + 1].type = "REQUEST"
      BY <1>2, <2>1
    <3>2. i + 1 = j + 1
      BY <3>1 DEF Once
    <3> QED
      BY <3>2
  <2> QED
    BY <2>1 DEF Once
<1>4. ASSUME m.type = "REQUEST", m \in ToSet(q) PROVE FALSE
  <2>1. PICK i \in 1..Len(q) : m = q[i]
    BY <1>2, <1>4, LenProperties DEF ToSet
  <2>2. i + 1 \in 1..Len(mbox) /\ 1 \in 1..Len(mbox) /\ mbox[i + 1] = mbox[1]
    BY <1>2, <2>1
  <2>3. mbox[i + 1].type = "REQUEST"
    BY <1>2, <1>4, <2>1
  <2>4. i + 1 = 1
    BY <2>2, <2>3 DEF Once
  <2> QED
    BY <2>4
<1> QED
  BY <1>1, <1>3, <1>4

\* Sending adds the messages that were sent and nothing else.
LEMMA MailSent ==
  ASSUME OtherTypes, NEW ms \in Seq(Messages), Sends(ms)
  PROVE  /\ mbox' \in Seq(Messages)
         /\ \A x : x \in ToSet(mbox') <=> x \in ToSet(mbox) \/ x \in ToSet(ms)
<1>1. mbox \in Seq(Messages) /\ mbox' = mbox \o ms
  BY DEF OtherTypes, Sends
<1> QED
  BY <1>1, ConcatSet

\* Whatever is sent for the first time is in the mailbox once.
LEMMA OnceSent ==
  ASSUME OtherTypes, NEW ms \in Seq(Messages), Sends(ms), Once(mbox), Once(ms),
         \A x \in ToSet(ms) : x.type = "REQUEST" => x \notin ToSet(mbox)
  PROVE  Once(mbox')
<1> DEFINE q == mbox \o ms
<1>1. mbox \in Seq(Messages) /\ mbox' = q
  BY DEF OtherTypes, Sends
<1>2. /\ q \in Seq(Messages) /\ Len(q) = Len(mbox) + Len(ms)
      /\ \A i \in 1..(Len(mbox) + Len(ms)) :
            q[i] = IF i <= Len(mbox) THEN mbox[i] ELSE ms[i - Len(mbox)]
  BY <1>1, ConcatProperties
<1>3. /\ Len(mbox) \in Nat /\ Len(ms) \in Nat
      /\ \A i \in 1..Len(mbox) : mbox[i] \in ToSet(mbox)
      /\ \A i \in 1..Len(ms) : ms[i] \in ToSet(ms)
  BY <1>1, LenProperties DEF ToSet
<1>4. ASSUME NEW i \in 1..Len(q), NEW j \in 1..Len(q), q[i] = q[j], q[i].type = "REQUEST",
             i <= Len(mbox), j > Len(mbox)
      PROVE  FALSE
  <2>1. i \in 1..Len(mbox) /\ j - Len(mbox) \in 1..Len(ms)
    BY <1>2, <1>3, <1>4
  <2>2. mbox[i] = ms[j - Len(mbox)] /\ ms[j - Len(mbox)].type = "REQUEST"
    BY <1>2, <1>3, <1>4
  <2> QED
    BY <1>3, <2>1, <2>2
<1>5. ASSUME NEW i \in 1..Len(q), NEW j \in 1..Len(q), q[i] = q[j], q[i].type = "REQUEST"
      PROVE  i = j
  <2>1. CASE i <= Len(mbox) /\ j <= Len(mbox)
    BY <1>2, <1>3, <1>5, <2>1 DEF Once
  <2>2. CASE i > Len(mbox) /\ j > Len(mbox)
    <3>1. /\ i - Len(mbox) \in 1..Len(ms) /\ j - Len(mbox) \in 1..Len(ms)
          /\ ms[i - Len(mbox)] = ms[j - Len(mbox)] /\ ms[i - Len(mbox)].type = "REQUEST"
      BY <1>2, <1>3, <1>5, <2>2
    <3>2. i - Len(mbox) = j - Len(mbox)
      BY <3>1 DEF Once
    <3> QED
      BY <1>2, <1>3, <3>2
  <2>3. CASE i <= Len(mbox) /\ j > Len(mbox)
    BY <1>4, <1>5, <2>3
  <2>4. CASE i > Len(mbox) /\ j <= Len(mbox)
    <3>1. q[j] = q[i] /\ q[j].type = "REQUEST"
      BY <1>5
    <3> QED
      BY <1>4, <2>4, <3>1
  <2> QED
    BY <1>2, <1>3, <2>1, <2>2, <2>3, <2>4
<1>6. Once(q)
  BY <1>5 DEF Once
<1> QED
  BY <1>1, <1>6

\* raw_dispatch_message takes the answer to one session.
LEMMA TakesResponse ==
  ASSUME OtherTypes, Once(mbox), NEW s \in Sessions, DispatchResponse(s)
  PROVE  /\ mbox' \in Seq(Messages) /\ Once(mbox') /\ Answered(s)
         /\ \A x : Answered(x) => Answered(x)' \/ x = s
         /\ \A x : Answered(x)' => Answered(x)
         /\ \A x : Arrived(x)' <=> Arrived(x)
         /\ \A x : Ended(x)' <=> Ended(x)
<1>1. Take(Msg("RESPONSE", s, "none"))
  BY DEF DispatchResponse
<1>2. /\ mbox' \in Seq(Messages)
      /\ \A x : x \in ToSet(mbox) <=> x = Msg("RESPONSE", s, "none") \/ x \in ToSet(mbox')
  BY <1>1, MailTaken
<1>3. Once(mbox')
  BY <1>1, OnceTaken
<1> QED
  BY <1>2, <1>3, MsgEq DEF Answered, Arrived, Ended

\* raw_dispatch_message takes one request.
LEMMA TakesRequest ==
  ASSUME OtherTypes, Once(mbox), NEW r \in 1..MaxReq, DispatchRequest(r)
  PROVE  /\ mbox' \in Seq(Messages) /\ Once(mbox') /\ Arrived(r) /\ ~Arrived(r)'
         /\ \A x : Answered(x)' <=> Answered(x)
         /\ \A x : Arrived(x) => Arrived(x)' \/ x = r
         /\ \A x : Arrived(x)' => Arrived(x)
         /\ \A x : Ended(x)' <=> Ended(x)
<1>1. Take(Msg("REQUEST", r, "none"))
  BY DEF DispatchRequest
<1>2. /\ mbox' \in Seq(Messages)
      /\ \A x : x \in ToSet(mbox) <=> x = Msg("REQUEST", r, "none") \/ x \in ToSet(mbox')
  BY <1>1, MailTaken
<1>3. Once(mbox') /\ Msg("REQUEST", r, "none") \notin ToSet(mbox')
  BY <1>1, OnceTaken, MsgEq
<1> QED
  BY <1>2, <1>3, MsgEq DEF Answered, Arrived, Ended

\* raw_dispatch_message takes one error message.
LEMMA TakesError ==
  ASSUME OtherTypes, Once(mbox), NEW p \in Peers, NEW s \in Sessions \cup {0},
         DispatchError(p, s)
  PROVE  /\ mbox' \in Seq(Messages) /\ Once(mbox') /\ (s = 0 => Ended(p))
         /\ \A x : Answered(x)' <=> Answered(x)
         /\ \A x : Arrived(x)' <=> Arrived(x)
         /\ \A x : Ended(x)' => Ended(x)
<1>1. Take(Msg("ERROR", s, p))
  BY DEF DispatchError
<1>2. /\ mbox' \in Seq(Messages)
      /\ \A x : x \in ToSet(mbox) <=> x = Msg("ERROR", s, p) \/ x \in ToSet(mbox')
  BY <1>1, MailTaken
<1>3. Once(mbox')
  BY <1>1, OnceTaken
<1> QED
  BY <1>2, <1>3, MsgEq DEF Answered, Arrived, Ended

\* One message.
LEMMA OneSent ==
  ASSUME NEW m \in Messages
  PROVE  <<m>> \in Seq(Messages) /\ Once(<<m>>) /\ \A x : x \in ToSet(<<m>>) <=> x = m
<1>1. <<m>> \in Seq(Messages) /\ Once(<<m>>)
  BY DEF Once
<1>2. \A x : x \in ToSet(<<m>>) <=> x = m
  BY DEF ToSet
<1> QED
  BY <1>1, <1>2

\* A request sent by a peer arrives.
LEMMA AskSends ==
  ASSUME OtherTypes, Once(mbox), \A x : Arrived(x) => x \in 1..nreq,
         NEW p \in Peers, NEW b \in BOOLEAN, Ask(p, b)
  PROVE  /\ mbox' \in Seq(Messages) /\ Once(mbox')
         /\ \A x : Answered(x)' <=> Answered(x)
         /\ \A x : Arrived(x)' <=> Arrived(x) \/ x = nreq + 1
         /\ \A x : Ended(x)' <=> Ended(x)
<1> PICK m : m = Msg("REQUEST", nreq + 1, "none")
  OBVIOUS
<1>1. nreq \in Nat /\ Sends(<<m>>)
  BY DEF Ask, OtherTypes
<1>2. m \in Messages
  BY <1>1 DEF Messages, Msg
<1>3. <<m>> \in Seq(Messages) /\ Once(<<m>>) /\ \A x : x \in ToSet(<<m>>) <=> x = m
  BY <1>2, OneSent
<1>4. nreq + 1 \notin 1..nreq
  BY <1>1
<1>5. m \notin ToSet(mbox)
  BY <1>4 DEF Arrived
<1>6. Once(mbox')
  BY <1>1, <1>3, <1>5, OnceSent
<1>7. mbox' \in Seq(Messages) /\ \A x : x \in ToSet(mbox') <=> x \in ToSet(mbox) \/ x = m
  BY <1>1, <1>3, MailSent
<1> QED
  BY <1>6, <1>7, MsgEq DEF Answered, Arrived, Ended

\* What an answer of a peer or of the timer puts into the mailbox.
LEMMA AnswerSends ==
  ASSUME LuaConstants, OtherTypes, Once(mbox), NEW s \in Sessions, Answer(s)
  PROVE  /\ mbox' \in Seq(Messages) /\ Once(mbox')
         /\ \A x : Answered(x)' => Answered(x) \/ x = s
         /\ \A x : Answered(x) => Answered(x)'
         /\ asked[s] = "timer" => Answered(s)'
         /\ \A x : Arrived(x)' <=> Arrived(x)
         /\ \A x : Ended(x)' <=> Ended(x)
<1>1. PICK m : /\ Sends(<<m>>)
               /\ \/ m = Msg("RESPONSE", s, "none")
                  \/ asked[s] # "timer" /\ m = Msg("ERROR", s, asked[s])
  BY DEF Answer
<1>2. s \in DOMAIN asked /\ s \in Nat /\ s # 0 /\ asked[s] \in Peers \cup {"timer"}
  BY DEF Answer, OtherTypes, Sessions, LuaConstants
<1>3. m \in Messages /\ m.type # "REQUEST"
  BY <1>1, <1>2, MsgEq DEF Messages, Msg
<1>4. <<m>> \in Seq(Messages) /\ Once(<<m>>) /\ \A x : x \in ToSet(<<m>>) <=> x = m
  BY <1>3, OneSent
<1>5. Once(mbox')
  BY <1>1, <1>3, <1>4, OnceSent
<1>6. mbox' \in Seq(Messages) /\ \A x : x \in ToSet(mbox') <=> x \in ToSet(mbox) \/ x = m
  BY <1>1, <1>4, MailSent
<1>7. CASE m = Msg("RESPONSE", s, "none")
  BY <1>5, <1>6, <1>7, MsgEq DEF Answered, Arrived, Ended
<1>8. CASE asked[s] # "timer" /\ m = Msg("ERROR", s, asked[s])
  BY <1>2, <1>5, <1>6, <1>8, MsgEq DEF Answered, Arrived, Ended
<1> QED
  BY <1>1, <1>7, <1>8

\* The errors a peer sends when it exits.
LEMMA ErrorSeq ==
  ASSUME NEW p \in Peers, NEW l \in Seq(Nat)
  PROVE  /\ [i \in 1..Len(l) |-> Msg("ERROR", l[i], p)] \in Seq(Messages)
         /\ \A x \in ToSet([i \in 1..Len(l) |-> Msg("ERROR", l[i], p)]) :
               x.type = "ERROR" /\ x.from = p
<1> PICK q : q = [i \in 1..Len(l) |-> Msg("ERROR", l[i], p)]
  OBVIOUS
<1>1. Len(l) \in Nat /\ \A i \in 1..Len(l) : l[i] \in Nat
  BY LenProperties, ElementOfSeq
<1>2. \A i \in 1..Len(l) : q[i] \in Messages /\ q[i].type = "ERROR" /\ q[i].from = p
  BY <1>1, MsgEq DEF Messages, Msg
<1>3. q \in Seq(Messages)
  BY <1>1, <1>2, IsASeq
<1>4. DOMAIN q = 1..Len(l)
  OBVIOUS
<1>5. \A x \in ToSet(q) : \E i \in 1..Len(l) : x = q[i]
  BY <1>4 DEF ToSet
<1> QED
  BY <1>2, <1>3, <1>5

\* The elements of three sequences put together.
LEMMA ThreeSets ==
  ASSUME NEW S, NEW a \in Seq(S), NEW z \in Seq(S), NEW b \in Seq(S)
  PROVE  /\ a \o z \o b \in Seq(S)
         /\ \A x \in ToSet(a \o z \o b) : x \in ToSet(a) \/ x \in ToSet(z) \/ x \in ToSet(b)
<1> PICK q : q = a \o z
  OBVIOUS
<1>1. q \in Seq(S) /\ \A x : x \in ToSet(q) <=> x \in ToSet(a) \/ x \in ToSet(z)
  BY ConcatSet
<1>2. q \o b \in Seq(S) /\ \A x : x \in ToSet(q \o b) <=> x \in ToSet(q) \/ x \in ToSet(b)
  BY <1>1, ConcatSet
<1> QED
  BY <1>1, <1>2

\* Errors of one peer.
LEMMA ErrorsSent ==
  ASSUME OtherTypes, Once(mbox), NEW p, NEW a \in Seq(Messages), NEW z \in Seq(Messages),
         NEW b \in Seq(Messages), Sends(a \o z \o b),
         \A x \in ToSet(a) : x.type = "ERROR" /\ x.from = p,
         \A x \in ToSet(b) : x.type = "ERROR" /\ x.from = p,
         \A x \in ToSet(z) : x.type = "ERROR" /\ x.from = p
  PROVE  /\ mbox' \in Seq(Messages) /\ Once(mbox')
         /\ \A x : Answered(x)' <=> Answered(x)
         /\ \A x : Arrived(x)' <=> Arrived(x)
         /\ \A x : Ended(x)' => Ended(x) \/ x = p
<1> PICK ms : ms = a \o z \o b
  OBVIOUS
<1>1. /\ ms \in Seq(Messages) /\ \A x \in ToSet(ms) : x.type = "ERROR" /\ x.from = p
  BY ThreeSets
<1>2. Sends(ms)
  OBVIOUS
<1>3. Once(ms)
  <2>1. \A i \in 1..Len(ms) : ms[i] \in ToSet(ms)
    BY <1>1, LenProperties DEF ToSet
  <2>2. \A i \in 1..Len(ms) : ms[i].type # "REQUEST"
    BY <1>1, <2>1
  <2> QED
    BY <2>2 DEF Once
<1>4. Once(mbox')
  BY <1>1, <1>2, <1>3, OnceSent
<1>5. mbox' \in Seq(Messages) /\ \A x : x \in ToSet(mbox') <=> x \in ToSet(mbox) \/ x \in ToSet(ms)
  BY <1>1, <1>2, MailSent
<1>6. /\ \A x : Msg("RESPONSE", x, "none") \notin ToSet(ms)
      /\ \A x : Msg("REQUEST", x, "none") \notin ToSet(ms)
      /\ \A x : Msg("ERROR", 0, x) \in ToSet(ms) => x = p
  <2>1. ASSUME NEW x, Msg("RESPONSE", x, "none") \in ToSet(ms) PROVE FALSE
    <3>1. Msg("RESPONSE", x, "none").type = "ERROR"
      BY <1>1, <2>1
    <3> QED
      BY <3>1, MsgEq
  <2>2. ASSUME NEW x, Msg("REQUEST", x, "none") \in ToSet(ms) PROVE FALSE
    <3>1. Msg("REQUEST", x, "none").type = "ERROR"
      BY <1>1, <2>2
    <3> QED
      BY <3>1, MsgEq
  <2>3. ASSUME NEW x, Msg("ERROR", 0, x) \in ToSet(ms) PROVE x = p
    <3>1. Msg("ERROR", 0, x).from = p
      BY <1>1, <2>3
    <3> QED
      BY <3>1, MsgEq
  <2> QED
    BY <2>1, <2>2, <2>3
<1> QED
  BY <1>4, <1>5, <1>6 DEF Answered, Arrived, Ended

\* A peer that exits sends errors for what it leaves unanswered.
LEMMA DieSends ==
  ASSUME LuaConstants, OtherTypes, Once(mbox), NEW p \in Peers, Die(p)
  PROVE  /\ mbox' \in Seq(Messages) /\ Once(mbox')
         /\ \A x : Answered(x)' <=> Answered(x)
         /\ \A x : Arrived(x)' <=> Arrived(x)
         /\ \A x : Ended(x)' => Ended(x) \/ x = p
<1> DEFINE mine == {s \in DOMAIN asked : asked[s] = p}
           err(l) == [i \in 1..Len(l) |-> Msg("ERROR", l[i], p)]
           zero == IF \E r \in 1..nreq : source[r] = p /\ called[r] /\ replies[r] + errors[r] = 0
                   THEN <<Msg("ERROR", 0, p)>> ELSE <<>>
<1>1. PICK l \in SetToSeqs(mine), k \in 0..Cardinality(mine) :
         Sends(err(SubSeq(l, 1, k)) \o zero \o err(SubSeq(l, k + 1, Len(l))))
  BY DEF Die
<1>2. mine \subseteq Nat /\ IsFiniteSet(mine) /\ Cardinality(mine) \in Nat
  <2>1. sid \in Nat /\ mine \subseteq 1..sid
    BY DEF OtherTypes, LuaConstants
  <2>2. IsFiniteSet(1..sid)
    BY <2>1, FS_Interval
  <2>3. IsFiniteSet(mine)
    BY <2>1, <2>2, FS_Subset
  <2>4. Cardinality(mine) \in Nat
    BY <2>3, FS_CardinalityType
  <2> QED
    BY <2>1, <2>3, <2>4
<1>3. l \in [1..Cardinality(mine) -> mine]
  BY <1>1 DEF SetToSeqs
<1>4. l \in Seq(Nat) /\ Len(l) = Cardinality(mine)
  <2> PICK c \in Nat : c = Cardinality(mine)
    BY <1>2
  <2>1. l \in [1..c -> Nat]
    BY <1>2, <1>3
  <2>2. l \in Seq(Nat)
    BY <2>1, SeqDef
  <2>3. DOMAIN l = 1..c /\ DOMAIN l = 1..Len(l) /\ Len(l) \in Nat
    BY <2>1, <2>2, LenProperties
  <2>4. Len(l) = c
    BY <2>3
  <2> QED
    BY <2>2, <2>4
<1>5. SubSeq(l, 1, k) \in Seq(Nat) /\ SubSeq(l, k + 1, Len(l)) \in Seq(Nat)
  <2>1. k \in Nat /\ k <= Len(l) /\ Len(l) \in Nat
    BY <1>2, <1>4
  <2>2. \A i \in 1..Len(l) : l[i] \in Nat
    BY <1>4, ElementOfSeq
  <2>3. 1 \in Int /\ k \in Int /\ k + 1 \in Int /\ Len(l) \in Int
    BY <2>1
  <2>4. (\A i \in 1..k : l[i] \in Nat) /\ (\A i \in (k + 1)..Len(l) : l[i] \in Nat)
    BY <2>1, <2>2
  <2>5. SubSeq(l, 1, k) \in Seq(Nat)
    BY <2>3, <2>4, SubSeqProperties
  <2>6. SubSeq(l, k + 1, Len(l)) \in Seq(Nat)
    BY <2>3, <2>4, SubSeqProperties
  <2> QED
    BY <2>5, <2>6
<1>6. SUFFICES ASSUME NEW a, NEW b, NEW z, a = err(SubSeq(l, 1, k)),
                      b = err(SubSeq(l, k + 1, Len(l))), z = zero
               PROVE  /\ mbox' \in Seq(Messages) /\ Once(mbox')
                      /\ \A x : Answered(x)' <=> Answered(x)
                      /\ \A x : Arrived(x)' <=> Arrived(x)
                      /\ \A x : Ended(x)' => Ended(x) \/ x = p
  OBVIOUS
<1>7. a \in Seq(Messages) /\ \A x \in ToSet(a) : x.type = "ERROR" /\ x.from = p
  BY <1>5, <1>6, ErrorSeq
<1>8. b \in Seq(Messages) /\ \A x \in ToSet(b) : x.type = "ERROR" /\ x.from = p
  BY <1>5, <1>6, ErrorSeq
<1>9. z \in Seq(Messages) /\ \A x \in ToSet(z) : x.type = "ERROR" /\ x.from = p
  <2>1. CASE z = <<>>
    BY <2>1 DEF ToSet
  <2>2. CASE z = <<Msg("ERROR", 0, p)>>
    <3>1. Msg("ERROR", 0, p) \in Messages
      BY DEF Messages, Msg
    <3> QED
      BY <2>2, <3>1, OneSent, MsgEq
  <2> QED
    BY <1>6, <2>1, <2>2
<1>10. Sends(a \o z \o b)
  BY <1>1, <1>6
<1> HIDE DEF mine, err, zero
<1>11. /\ mbox' \in Seq(Messages) /\ Once(mbox')
       /\ \A x : Answered(x)' <=> Answered(x)
       /\ \A x : Arrived(x)' <=> Arrived(x)
       /\ \A x : Ended(x)' => Ended(x) \/ x = p
  BY <1>7, <1>8, <1>9, <1>10, ErrorsSent
<1> QED
  BY <1>11

-----------------------------------------------------------------------------
(* Coroutines: the ways in which one step changes their state.            *)

\* The values that stand for no coroutine, no session and no peer are none of them.
LEMMA Names ==
  ASSUME LuaConstants
  PROVE  /\ None \notin Cos /\ Break \notin Cos /\ None # Break /\ None \notin Sessions
         /\ Cos \subseteq Nat /\ Sessions \subseteq Nat /\ "none" \notin Peers
         /\ "timer" \notin Peers /\ None \in 0..MaxSession
         /\ \A n \in 0..MaxSession : 1..n \subseteq Sessions
BY DEF LuaConstants, Cos, Sessions, None, Break

Running == {"run", "assert", "exited"}
KeepsCo == UNCHANGED <<session_id_coroutine, sleep_session, watching_session, co, waits, sid>>
SameAnswers == \A x : Answered(x)' <=> Answered(x)

\* No coroutine changes.
Still ==
  /\ KeepsCo /\ UNCHANGED <<cur, asked>> /\ SameAnswers
  /\ \/ UNCHANGED <<mode, fork_queue>>
     \/ mode = "run" /\ mode' = "exited"
     \/ mode \notin Running /\ mode' \in {"idle", "wake", "error", "fork"} /\ UNCHANGED fork_queue

\* What others do.
Outside ==
  /\ KeepsCo /\ UNCHANGED <<cur, mode, fork_queue>>
  /\ DOMAIN asked' \subseteq DOMAIN asked /\ \A x \in DOMAIN asked' : asked'[x] = asked[x]
  /\ \A x : Timed(x) => Timed(x)'
  /\ \A x : Answered(x)' => Answered(x) \/ x \in DOMAIN asked

\* One that waits goes on, and the place of its session holds v.
Resumed(c, v) ==
  /\ mode \notin Running /\ co[c] \in Waiting
  /\ v = None \/ (v = Break /\ co[c] = "sleep")
  /\ co' = [co EXCEPT ![c] = "run"] /\ waits' = [waits EXCEPT ![c] = None]
  /\ session_id_coroutine' = [session_id_coroutine EXCEPT ![waits[c]] = v]
  /\ sleep_session' = [sleep_session EXCEPT ![c] = None]
  /\ watching_session' = IF co[c] = "call" THEN [watching_session EXCEPT ![waits[c]] = "none"]
                                           ELSE watching_session
  /\ mode' \in {"run", "assert"} /\ cur' = c /\ UNCHANGED <<sid, asked, fork_queue>>
  /\ \A x : Answered(x)' => Answered(x)
  /\ \A x : Answered(x) => Answered(x)' \/ (x = waits[c] /\ v = None)

\* An answer that nobody waits for.
Unmarked(s) ==
  /\ session_id_coroutine[s] \notin Cos
  /\ session_id_coroutine' = [session_id_coroutine EXCEPT ![s] = None]
  /\ UNCHANGED <<sleep_session, watching_session, co, waits, sid, cur, asked, fork_queue>>
  /\ mode = "idle" /\ mode' = "fork"
  /\ \A x : Answered(x)' => Answered(x)
  /\ \A x : Answered(x) => Answered(x)' \/ x = s

KeepsWaits == UNCHANGED <<session_id_coroutine, sleep_session, watching_session, sid, asked>> /\ SameAnswers
Started(c) ==
  /\ KeepsWaits /\ mode \notin Running /\ mode' = "run" /\ cur' = c
  /\ co' = [co EXCEPT ![c] = "run"] /\ waits' = [waits EXCEPT ![c] = None]
  /\ \/ co[c] = "pool" /\ UNCHANGED fork_queue
     \/ co[c] = "fork" /\ fork_queue' = fork_queue \ {c}
Forked(c) ==
  /\ KeepsWaits /\ UNCHANGED <<mode, cur, waits>>
  /\ co[c] = "pool" /\ co' = [co EXCEPT ![c] = "fork"] /\ fork_queue' = fork_queue \cup {c}
Finished(x) ==
  /\ KeepsWaits /\ mode \in {"run", "assert"} /\ mode' \in {"wake", "fork"}
  /\ co' = [co EXCEPT ![cur] = x] /\ UNCHANGED <<waits, fork_queue, cur>>

\* One that begins to wait.
Begins(c, kind) ==
  /\ sid < MaxSession /\ sid' = sid + 1
  /\ session_id_coroutine' = [session_id_coroutine EXCEPT ![sid + 1] = c]
  /\ co' = [co EXCEPT ![c] = kind] /\ waits' = [waits EXCEPT ![c] = sid + 1]
  /\ sleep_session' = IF kind \in {"call", "timeout"} THEN sleep_session
                                                      ELSE [sleep_session EXCEPT ![c] = sid + 1]
  /\ IF kind = "call"
     THEN \E p \in Peers : /\ watching_session' = [watching_session EXCEPT ![sid + 1] = p]
                           /\ Asks(sid + 1, p)
     ELSE /\ UNCHANGED watching_session
          /\ IF kind \in {"wait", "queue"} THEN UNCHANGED asked ELSE Asks(sid + 1, "timer")
  /\ SameAnswers /\ UNCHANGED <<cur, fork_queue>>
Yielded(kind) == Begins(cur, kind) /\ mode = "run" /\ mode' = "wake"
TimerSet(c)   == Begins(c, "timeout") /\ co[c] = "pool" /\ UNCHANGED mode

CoStep ==
  \/ Still \/ Outside
  \/ \E c \in Cos, v \in {None, Break} : Resumed(c, v)
  \/ \E s \in Sessions : Unmarked(s)
  \/ \E c \in Cos : Started(c) \/ Forked(c) \/ TimerSet(c)
  \/ \E x \in {"pool", "lost", "dead"} : Finished(x)
  \/ \E kind \in {"call", "sleep", "wait", "queue"} : Yielded(kind)

\* coroutine_resume of a coroutine that waits has the shape Resumed.
LEMMA Resumes ==
  ASSUME LuaConstants, TypeOK, OtherTypes, RunsAlone, NEW c \in Cos, NEW v \in {None, Break},
         co[c] \in Waiting, mode \notin Running,
         v = Break => co[c] \in {"sleep", "wait", "queue"},
         Resume(c, [session_id_coroutine EXCEPT ![waits[c]] = v]),
         UNCHANGED <<sid, asked, fork_queue>>,
         \A x : Answered(x)' => Answered(x),
         \A x : Answered(x) => Answered(x)' \/ (x = waits[c] /\ v = None)
  PROVE  \E w \in {None, Break} : Resumed(c, w)
<1>1. waits[c] \in 1..sid
  BY DEF RunsAlone
<1>2. /\ waits[c] \in Sessions /\ DOMAIN session_id_coroutine = Sessions
  BY <1>1, Names DEF OtherTypes, TypeOK
<1>3. CASE co[c] \in {"wait", "queue"}
  <2>1. session_id_coroutine' = [session_id_coroutine EXCEPT ![waits[c]] = None]
    BY <1>2, <1>3 DEF Resume, TakesLock, Cleared
  <2>2. Resumed(c, None)
    BY <1>1, <1>3, <2>1 DEF Resumed, Resume, TakesLock, Cleared, Runs, Running
  <2> QED
    BY <2>2
<1>4. CASE co[c] \notin {"wait", "queue"}
  <2>1. Resumed(c, v)
    BY <1>1, <1>4 DEF Resumed, Resume, TakesLock, Cleared, Runs, Running, Waiting
  <2> QED
    BY <2>1
<1> QED
  BY <1>3, <1>4

\* Every step changes the coroutines and the session tables in one of nine ways.
LEMMA CoSteps ==
  ASSUME LuaConstants, IInv, Next
  PROVE  CoStep
<1>0. /\ TypeOK /\ OtherTypes /\ RunsAlone /\ WaitersMatch /\ SessionsRight /\ LockRight
      /\ RequestsRight
  BY DEF IInv, SchedulerRight
<1>a. Once(mbox) /\ \A x : Arrived(x) => x \in 1..nreq
  BY <1>0 DEF RequestsRight
<1>1. ASSUME NEW s \in Sessions, DispatchResponse(s) PROVE CoStep
  <2>1. /\ \A x : Answered(x)' => Answered(x)
        /\ \A x : Answered(x) => Answered(x)' \/ x = s
    BY <1>0, <1>a, <1>1, TakesResponse
  <2>2. CASE session_id_coroutine[s] \in Cos
    <3> PICK c \in Cos : c = session_id_coroutine[s]
      BY <2>2
    <3>1. co[c] \in Waiting /\ waits[c] = s
      BY <1>0 DEF WaitersMatch
    <3>2. /\ Resume(c, [session_id_coroutine EXCEPT ![waits[c]] = None])
          /\ UNCHANGED <<sid, asked, fork_queue>> /\ mode \notin Running
      BY <1>1, <2>2, <3>1 DEF DispatchResponse, Take, Running
    <3>3. \A x : Answered(x) => Answered(x)' \/ (x = waits[c] /\ None = None)
      BY <2>1, <3>1
    <3>4. None \in {None, Break} /\ (None = Break => co[c] \in {"sleep", "wait", "queue"})
      BY Names
    <3>5. \E w \in {None, Break} : Resumed(c, w)
      BY <1>0, <2>1, <3>1, <3>2, <3>3, <3>4, Resumes
    <3> QED
      BY <3>5 DEF CoStep
  <2>3. CASE session_id_coroutine[s] \notin Cos
    <3>1. Unmarked(s)
      BY <1>1, <2>1, <2>3 DEF DispatchResponse, Take, coVars, Unmarked
    <3> QED
      BY <3>1 DEF CoStep
  <2> QED
    BY <2>2, <2>3
<1>2. ASSUME NEW r \in 1..MaxReq, DispatchRequest(r) PROVE CoStep
  <2>1. SameAnswers
    BY <1>0, <1>a, <1>2, TakesRequest DEF SameAnswers
  <2>2. PICK c \in Cos : Started(c)
    BY <1>0, <1>2, <2>1 DEF DispatchRequest, Take, Free, Runs, schedVars, Started,
       KeepsWaits, Running
  <2> QED
    BY <2>2 DEF CoStep
<1>3. ASSUME NEW p \in Peers, NEW s \in Sessions \cup {0}, DispatchError(p, s) PROVE CoStep
  <2>1. SameAnswers
    BY <1>0, <1>a, <1>3, TakesError DEF SameAnswers
  <2>2. Still
    BY <1>0, <1>3, <2>1 DEF DispatchError, Take, NoResume, coVars, schedVars, Suspended,
       Still, KeepsCo, Running
  <2> QED
    BY <2>2 DEF CoStep
<1>4. CASE DispatchWakeup
  <2>1. SameAnswers
    BY <1>4 DEF DispatchWakeup, SameAnswers, Answered
  <2>2. CASE Still
    BY <2>2 DEF CoStep
  <2>3. ASSUME NEW c \in wakeup_session, sleep_session[c] # None,
               Resume(c, [session_id_coroutine EXCEPT ![sleep_session[c]] = Break])
        PROVE  CoStep
    <3>1. c \in Cos /\ co[c] \in {"sleep", "wait", "queue"} /\ sleep_session[c] = waits[c]
      BY <1>0, <2>3 DEF TypeOK, WaitersMatch
    <3>2. co[c] \in Waiting /\ mode \notin Running /\ UNCHANGED <<sid, asked, fork_queue>>
      BY <1>4, <3>1 DEF DispatchWakeup, Waiting, Running
    <3>3. Resume(c, [session_id_coroutine EXCEPT ![waits[c]] = Break])
      BY <2>3, <3>1
    <3>4. Break \in {None, Break} /\ (Break = Break => co[c] \in {"sleep", "wait", "queue"})
      BY <3>1
    <3>5. /\ \A x : Answered(x)' => Answered(x)
          /\ \A x : Answered(x) => Answered(x)' \/ (x = waits[c] /\ Break = None)
      BY <2>1 DEF SameAnswers
    <3>6. \E w \in {None, Break} : Resumed(c, w)
      BY <1>0, <3>1, <3>2, <3>3, <3>4, <3>5, Resumes
    <3> QED
      BY <3>1, <3>6 DEF CoStep
  <2>4. \/ Still
        \/ \E c \in wakeup_session :
             /\ sleep_session[c] # None
             /\ Resume(c, [session_id_coroutine EXCEPT ![sleep_session[c]] = Break])
    BY <1>4, <2>1 DEF DispatchWakeup, NoResume, coVars, schedVars, Still, KeepsCo, Running
  <2> QED
    BY <2>2, <2>3, <2>4
<1>5. CASE DispatchErrorQueue
  <2>1. SameAnswers
    BY <1>5 DEF DispatchErrorQueue, SameAnswers, Answered
  <2>2. CASE Still
    BY <2>2 DEF CoStep
  <2>3. ASSUME error_queue # <<>>, session_id_coroutine[Head(error_queue)] \in Cos,
               Resume(session_id_coroutine[Head(error_queue)],
                      [session_id_coroutine EXCEPT ![Head(error_queue)] = None])
        PROVE  CoStep
    <3>1. PICK c \in Cos : c = session_id_coroutine[Head(error_queue)]
      BY <2>3
    <3>2. Head(error_queue) \in Sessions
      BY <1>0, <2>3, TailSet DEF OtherTypes
    <3>3. co[c] \in Waiting /\ waits[c] = Head(error_queue)
      BY <1>0, <3>1, <3>2 DEF WaitersMatch
    <3>4. mode \notin Running /\ UNCHANGED <<sid, asked, fork_queue>>
      BY <1>5 DEF DispatchErrorQueue, Running
    <3>5. Resume(c, [session_id_coroutine EXCEPT ![waits[c]] = None])
      BY <2>3, <3>1, <3>3
    <3>6. None \in {None, Break} /\ (None = Break => co[c] \in {"sleep", "wait", "queue"})
      BY Names
    <3>7. /\ \A x : Answered(x)' => Answered(x)
          /\ \A x : Answered(x) => Answered(x)' \/ (x = waits[c] /\ None = None)
      BY <2>1 DEF SameAnswers
    <3>8. \E w \in {None, Break} : Resumed(c, w)
      BY <1>0, <3>3, <3>4, <3>5, <3>6, <3>7, Resumes
    <3> QED
      BY <3>8 DEF CoStep
  <2>4. \/ Still
        \/ /\ error_queue # <<>> /\ session_id_coroutine[Head(error_queue)] \in Cos
           /\ Resume(session_id_coroutine[Head(error_queue)],
                     [session_id_coroutine EXCEPT ![Head(error_queue)] = None])
    BY <1>5, <2>1 DEF DispatchErrorQueue, NoResume, coVars, schedVars, Still, KeepsCo,
       Running
  <2> QED
    BY <2>2, <2>3, <2>4
<1>6. CASE DispatchFork
  <2>1. CASE fork_queue = {}
    <3>1. Still
      BY <1>0, <1>6, <2>1 DEF DispatchFork, coVars, schedVars, watchVars, Still, KeepsCo,
         Running, SameAnswers, Answered
    <3> QED
      BY <3>1 DEF CoStep
  <2>2. CASE fork_queue # {}
    <3>1. PICK c \in fork_queue : Runs(c, "run") /\ fork_queue' = fork_queue \ {c}
      BY <1>6, <2>2 DEF DispatchFork
    <3>2. c \in Cos /\ co[c] = "fork"
      BY <1>0, <1>6, <3>1 DEF DispatchFork, TypeOK
    <3>3. Started(c)
      BY <1>6, <3>1, <3>2 DEF DispatchFork, Runs, schedVars, watchVars, Started, KeepsWaits,
         Running, SameAnswers, Answered
    <3> QED
      BY <3>2, <3>3 DEF CoStep
  <2> QED
    BY <2>1, <2>2
<1>7. CASE AssertFails
  <2>1. Finished("dead")
    BY <1>0, <1>7 DEF AssertFails, Uncaught, queueVars, ansVars, watchVars, envVars,
       OtherTypes, Still, Outside, KeepsCo, KeepsWaits, SameAnswers, Answered, Running,
       Finished, Started, Forked, Begins, Yielded, TimerSet
  <2> QED
    BY <2>1 DEF CoStep
<1>8. ASSUME NEW p \in Peers, Call(p) PROVE CoStep
  <2>1. Yielded("call")
    BY <1>0, <1>8 DEF Call, Does, Yields, Watches, queueVars, Suspended, reqVars, envVars,
       ansVars, OtherTypes, Still, Outside, KeepsCo, KeepsWaits, SameAnswers, Answered,
       Running, Finished, Started, Forked, Begins, Yielded, TimerSet
  <2> QED
    BY <2>1 DEF CoStep
<1>9. CASE Sleep
  <2>1. Yielded("sleep")
    BY <1>0, <1>9 DEF Sleep, Does, Yields, queueVars, Suspended, reqVars, envVars, ansVars,
       OtherTypes, Still, Outside, KeepsCo, KeepsWaits, SameAnswers, Answered, Running,
       Finished, Started, Forked, Begins, Yielded, TimerSet
  <2> QED
    BY <2>1 DEF CoStep
<1>10. CASE Wait
  <2>1. Yielded("wait")
    BY <1>0, <1>10 DEF Wait, Does, Yields, queueVars, Suspended, reqVars, envVars, ansVars,
       OtherTypes, Still, Outside, KeepsCo, KeepsWaits, SameAnswers, Answered, Running,
       Finished, Started, Forked, Begins, Yielded, TimerSet
  <2> QED
    BY <2>1 DEF CoStep
<1>11. CASE Timeout
  <2>1. PICK c \in Cos : TimerSet(c)
    BY <1>0, <1>11 DEF Timeout, Does, Free, TimerSet, Begins, SameAnswers, Answered,
       watchVars
  <2> QED
    BY <2>1 DEF CoStep
<1>12. CASE Fork
  <2>1. PICK c \in Cos : Forked(c)
    BY <1>0, <1>12 DEF Fork, Does, Free, Forked, KeepsWaits, SameAnswers, Answered, Stays
  <2> QED
    BY <2>1 DEF CoStep
<1>13. CASE Ret
  <2>1. Still
    BY <1>0, <1>13 DEF Ret, Does, Second, ansVars, Reply, Stays, coVars, queueVars, envVars,
       OtherTypes, Still, Outside, KeepsCo, KeepsWaits, SameAnswers, Answered, Running,
       Finished, Started, Forked, Begins, Yielded, TimerSet
  <2> QED
    BY <2>1 DEF CoStep
<1>14. CASE AnswerTwice
  <2>1. Finished("lost")
    BY <1>0, <1>14 DEF AnswerTwice, Does, Second, schedVars, watchVars, reqVars, queueVars,
       envVars, ansVars, OtherTypes, Still, Outside, KeepsCo, KeepsWaits, SameAnswers,
       Answered, Running, Finished, Started, Forked, Begins, Yielded, TimerSet
  <2> QED
    BY <2>1 DEF CoStep
<1>15. CASE Response
  <2>1. Still
    BY <1>0, <1>15 DEF Response, Does, Second, Stays, coVars, queueVars, ansVars, envVars,
       OtherTypes, Still, Outside, KeepsCo, KeepsWaits, SameAnswers, Answered, Running,
       Finished, Started, Forked, Begins, Yielded, TimerSet
  <2> QED
    BY <2>1 DEF CoStep
<1>16. CASE Enter
  <2>1. CASE current_thread # None /\ current_thread # cur
    <3>1. Yielded("queue")
      BY <1>0, <1>16, <2>1 DEF Enter, Does, Yields, Suspended, Yielded, Begins, SameAnswers,
         Answered
    <3> QED
      BY <3>1 DEF CoStep
  <2>2. CASE ~(current_thread # None /\ current_thread # cur)
    <3>1. Still
      BY <1>0, <1>16, <2>2 DEF Enter, Does, Stays, coVars, Still, KeepsCo, SameAnswers,
         Answered
    <3> QED
      BY <3>1 DEF CoStep
  <2> QED
    BY <2>1, <2>2
<1>17. CASE Raise
  <2>1. Finished("dead")
    BY <1>0, <1>17 DEF Raise, Uncaught, queueVars, ansVars, watchVars, envVars, OtherTypes,
       Still, Outside, KeepsCo, KeepsWaits, SameAnswers, Answered, Running, Finished,
       Started, Forked, Begins, Yielded, TimerSet
  <2> QED
    BY <2>1 DEF CoStep
<1>18. CASE Exit
  <2>1. Still
    BY <1>0, <1>18 DEF Exit, Does, Notified, schedVars, watchVars, coVars, queueVars,
       envVars, OtherTypes, Still, Outside, KeepsCo, KeepsWaits, SameAnswers, Answered,
       Running, Finished, Started, Forked, Begins, Yielded, TimerSet
  <2> QED
    BY <2>1 DEF CoStep
<1>19. ASSUME NEW c \in Cos, Wakeup(c) PROVE CoStep
  <2>1. Still
    BY <1>0, <1>19 DEF Wakeup, Does, Woken, Stays, reqVars, coVars, queueVars, ansVars,
       envVars, OtherTypes, Still, Outside, KeepsCo, KeepsWaits, SameAnswers, Answered,
       Running, Finished, Started, Forked, Begins, Yielded, TimerSet
  <2> QED
    BY <2>1 DEF CoStep
<1>20. ASSUME NEW r \in unresponse, Respond(r) PROVE CoStep
  <2>1. Still
    BY <1>0, <1>20 DEF Respond, Does, Release, ansVars, Reply, Refuse, Stays, coVars,
       queueVars, envVars, OtherTypes, Still, Outside, KeepsCo, KeepsWaits, SameAnswers,
       Answered, Running, Finished, Started, Forked, Begins, Yielded, TimerSet
  <2> QED
    BY <2>1 DEF CoStep
<1>21. CASE Leave
  <2>1. Still
    BY <1>0, <1>21 DEF Leave, Stays, reqVars, coVars, ansVars, envVars, OtherTypes, Still,
       Outside, KeepsCo, KeepsWaits, SameAnswers, Answered, Running, Finished, Started,
       Forked, Begins, Yielded, TimerSet
  <2> QED
    BY <2>1 DEF CoStep
<1>22. CASE CoExit
  <2>1. Finished("pool")
    BY <1>0, <1>22 DEF CoExit, Release, Suspended, schedVars, queueVars, envVars,
       OtherTypes, Still, Outside, KeepsCo, KeepsWaits, SameAnswers, Answered, Running,
       Finished, Started, Forked, Begins, Yielded, TimerSet
  <2> QED
    BY <2>1 DEF CoStep
<1>23. ASSUME NEW p \in Peers, Die(p) PROVE CoStep
  <2>1. SameAnswers
    BY <1>0, <1>a, <1>23, DieSends DEF SameAnswers
  <2>2. asked' = [x \in DOMAIN asked \ {s \in DOMAIN asked : asked[s] = p} |-> asked[x]]
    BY <1>23 DEF Die, Forget
  <2>3. \A x : Timed(x) => Timed(x)'
    BY <2>1, <2>2, Names DEF Timed, SameAnswers
  <2>4. Outside
    BY <1>23, <2>1, <2>2, <2>3 DEF Die, EnvStep, schedVars, watchVars, coVars, Outside,
       KeepsCo, SameAnswers
  <2> QED
    BY <2>4 DEF CoStep
<1>24. ASSUME NEW p \in Peers, NEW b \in BOOLEAN, Ask(p, b) PROVE CoStep
  <2>1. SameAnswers
    BY <1>0, <1>a, <1>24, AskSends DEF SameAnswers
  <2>2. Outside
    BY <1>24, <2>1 DEF Ask, EnvStep, schedVars, watchVars, coVars, Outside, KeepsCo,
       SameAnswers, Timed
  <2> QED
    BY <2>2 DEF CoStep
<1>25. ASSUME NEW s \in Sessions, Answer(s) PROVE CoStep
  <2>1. /\ \A x : Answered(x)' => Answered(x) \/ x = s
        /\ \A x : Answered(x) => Answered(x)'
        /\ asked[s] = "timer" => Answered(s)'
    BY <1>0, <1>a, <1>25, AnswerSends
  <2>2. asked' = [x \in DOMAIN asked \ {s} |-> asked[x]] /\ s \in DOMAIN asked
    BY <1>25 DEF Answer, Forget
  <2>3. \A x : Timed(x) => Timed(x)'
    BY <2>1, <2>2 DEF Timed
  <2>4. Outside
    BY <1>25, <2>1, <2>2, <2>3 DEF Answer, EnvStep, schedVars, watchVars, coVars, Outside,
       KeepsCo
  <2> QED
    BY <2>4 DEF CoStep
<1> QED
  BY <1>1, <1>2, <1>3, <1>4, <1>5, <1>6, <1>7, <1>8, <1>9, <1>10, <1>11, <1>12, <1>13,
     <1>14, <1>15, <1>16, <1>17, <1>18, <1>19, <1>20, <1>21, <1>22, <1>23, <1>24, <1>25
     DEF Next, Dispatcher, Chooses, Ends, Peer

-----------------------------------------------------------------------------
(* What a step of the coroutines keeps.                                   *)

StateTypes ==
  /\ co \in [Cos -> Waiting \cup {"pool", "run", "fork", "dead", "lost"}]
  /\ waits \in [Cos -> 0..MaxSession] /\ cur \in Cos /\ sid \in 0..MaxSession
  /\ mode \in {"idle", "run", "wake", "error", "fork", "assert", "exited"}
TableTypes ==
  /\ session_id_coroutine \in [Sessions -> Cos \cup {None, Break}]
  /\ sleep_session \in [Cos -> Sessions \cup {None}]
  /\ watching_session \in [Sessions -> Peers \cup {"none"}]
AskedTypes ==
  DOMAIN asked \subseteq 1..sid /\ \A s \in DOMAIN asked : asked[s] \in Peers \cup {"timer"}
Forks  == fork_queue = {c \in Cos : co[c] = "fork"} \/ mode = "exited"
Places == \A s \in Sessions, c \in Cos :
             session_id_coroutine[s] = c <=> co[c] \in Waiting /\ waits[c] = s
Sleepers == \A c \in Cos : sleep_session[c] =
                              IF co[c] \in {"sleep", "wait", "queue"} THEN waits[c] ELSE None

\* What the proofs about the shapes of CoStep start from.
CoTypes == StateTypes /\ TableTypes /\ AskedTypes /\ Forks
CoNumbers ==
  /\ None \notin Cos /\ Break \notin Cos /\ None # Break /\ None \notin Sessions
  /\ None \in 0..MaxSession /\ MaxSession \in Nat /\ 1..sid \subseteq Sessions
  /\ sid < MaxSession => /\ sid + 1 \in Sessions /\ sid + 1 \in 1..(sid + 1)
                         /\ sid + 1 \in 0..MaxSession /\ 1..sid \subseteq 1..(sid + 1)
                         /\ sid + 1 \notin 1..sid /\ sid + 1 > sid
CoFacts ==
  /\ CoNumbers /\ StateTypes /\ TableTypes /\ AskedTypes /\ Forks
  /\ RunsAlone /\ Places /\ Sleepers /\ SessionsRight
\* What IInv says about the coroutines.
LEMMA CoKnown ==
  ASSUME LuaConstants, IInv
  PROVE  CoFacts
<1>1. /\ StateTypes /\ TableTypes /\ AskedTypes /\ Forks
      /\ RunsAlone /\ Places /\ Sleepers /\ SessionsRight
  BY DEF IInv, SchedulerRight, TypeOK, OtherTypes, StateTypes, TableTypes, AskedTypes,
     Forks, Places, Sleepers, WaitersMatch
<1>2. CoNumbers
  BY <1>1, Names DEF CoNumbers, StateTypes, LuaConstants, Sessions, None
<1> QED
  BY <1>1, <1>2 DEF CoFacts

\* The state of a coroutine stays one of the states.
LEMMA StateTypesKept ==
  ASSUME LuaConstants, IInv, CoStep
  PROVE  StateTypes'
<1>0. CoFacts
  BY CoKnown
<1> USE <1>0 DEF CoFacts, CoNumbers
<1>1. CASE Still
  BY <1>1 DEF Still, KeepsCo, StateTypes, Waiting
<1>2. CASE Outside
  BY <1>2 DEF Outside, KeepsCo, StateTypes, Waiting
<1>3. ASSUME NEW c \in Cos, NEW v \in {None, Break}, Resumed(c, v) PROVE StateTypes'
  BY <1>3 DEF Resumed, StateTypes, Waiting
<1>4. ASSUME NEW s \in Sessions, Unmarked(s) PROVE StateTypes'
  BY <1>4 DEF Unmarked, StateTypes, Waiting
<1>5. ASSUME NEW c \in Cos, Started(c) PROVE StateTypes'
  BY <1>5 DEF Started, KeepsWaits, StateTypes, Waiting
<1>6. ASSUME NEW c \in Cos, Forked(c) PROVE StateTypes'
  BY <1>6 DEF Forked, KeepsWaits, StateTypes, Waiting
<1>7. ASSUME NEW c \in Cos, TimerSet(c) PROVE StateTypes'
  BY <1>7 DEF TimerSet, Begins, StateTypes, Waiting
<1>8. ASSUME NEW x \in {"pool", "lost", "dead"}, Finished(x) PROVE StateTypes'
  BY <1>8 DEF Finished, KeepsWaits, StateTypes, Waiting
<1>9. ASSUME NEW kind \in {"call", "sleep", "wait", "queue"}, Yielded(kind) PROVE StateTypes'
  BY <1>9 DEF Yielded, Begins, StateTypes, Waiting
<1> QED
  BY <1>1, <1>2, <1>3, <1>4, <1>5, <1>6, <1>7, <1>8, <1>9 DEF CoStep

\* session_id_coroutine and sleep_session go on naming coroutines and sessions.
LEMMA TableTypesKept ==
  ASSUME LuaConstants, IInv, CoStep
  PROVE  TableTypes'
<1>0. CoFacts
  BY CoKnown
<1> USE <1>0 DEF CoFacts, CoNumbers
<1>1. CASE Still
  BY <1>1 DEF Still, KeepsCo, StateTypes, TableTypes, RunsAlone, Waiting
<1>2. CASE Outside
  BY <1>2 DEF Outside, KeepsCo, StateTypes, TableTypes, RunsAlone, Waiting
<1>3. ASSUME NEW c \in Cos, NEW v \in {None, Break}, Resumed(c, v) PROVE TableTypes'
  BY <1>3 DEF Resumed, StateTypes, TableTypes, RunsAlone, Waiting
<1>4. ASSUME NEW s \in Sessions, Unmarked(s) PROVE TableTypes'
  BY <1>4 DEF Unmarked, StateTypes, TableTypes, RunsAlone, Waiting
<1>5. ASSUME NEW c \in Cos, Started(c) PROVE TableTypes'
  BY <1>5 DEF Started, KeepsWaits, StateTypes, TableTypes, RunsAlone, Waiting
<1>6. ASSUME NEW c \in Cos, Forked(c) PROVE TableTypes'
  BY <1>6 DEF Forked, KeepsWaits, StateTypes, TableTypes, RunsAlone, Waiting
<1>7. ASSUME NEW c \in Cos, TimerSet(c) PROVE TableTypes'
  BY <1>7 DEF TimerSet, Begins, StateTypes, TableTypes, RunsAlone, Waiting
<1>8. ASSUME NEW x \in {"pool", "lost", "dead"}, Finished(x) PROVE TableTypes'
  BY <1>8 DEF Finished, KeepsWaits, StateTypes, TableTypes, RunsAlone, Waiting
<1>9. ASSUME NEW kind \in {"call", "sleep", "wait", "queue"}, Yielded(kind) PROVE TableTypes'
  BY <1>9 DEF Yielded, Begins, StateTypes, TableTypes, RunsAlone, Waiting
<1> QED
  BY <1>1, <1>2, <1>3, <1>4, <1>5, <1>6, <1>7, <1>8, <1>9 DEF CoStep

\* A session that was asked for stays one that was given out.
LEMMA AskedTypesKept ==
  ASSUME LuaConstants, IInv, CoStep
  PROVE  AskedTypes'
<1>0. CoFacts
  BY CoKnown
<1> USE <1>0 DEF CoFacts, CoNumbers
<1>1. CASE Still
  BY <1>1 DEF Still, KeepsCo, AskedTypes, Asks
<1>2. CASE Outside
  BY <1>2 DEF Outside, KeepsCo, AskedTypes, Asks
<1>3. ASSUME NEW c \in Cos, NEW v \in {None, Break}, Resumed(c, v) PROVE AskedTypes'
  BY <1>3 DEF Resumed, AskedTypes, Asks
<1>4. ASSUME NEW s \in Sessions, Unmarked(s) PROVE AskedTypes'
  BY <1>4 DEF Unmarked, AskedTypes, Asks
<1>5. ASSUME NEW c \in Cos, Started(c) PROVE AskedTypes'
  BY <1>5 DEF Started, KeepsWaits, AskedTypes, Asks
<1>6. ASSUME NEW c \in Cos, Forked(c) PROVE AskedTypes'
  BY <1>6 DEF Forked, KeepsWaits, AskedTypes, Asks
<1>7. ASSUME NEW c \in Cos, TimerSet(c) PROVE AskedTypes'
  BY <1>7 DEF TimerSet, Begins, AskedTypes, Asks
<1>8. ASSUME NEW x \in {"pool", "lost", "dead"}, Finished(x) PROVE AskedTypes'
  BY <1>8 DEF Finished, KeepsWaits, AskedTypes, Asks
<1>9. ASSUME NEW kind \in {"call", "sleep", "wait", "queue"}, Yielded(kind) PROVE AskedTypes'
  BY <1>9 DEF Yielded, Begins, AskedTypes, Asks
<1> QED
  BY <1>1, <1>2, <1>3, <1>4, <1>5, <1>6, <1>7, <1>8, <1>9 DEF CoStep

\* fork_queue holds the coroutines that were forked.
LEMMA ForksKept ==
  ASSUME LuaConstants, IInv, CoStep
  PROVE  Forks'
<1>0. CoFacts
  BY CoKnown
<1> USE <1>0 DEF CoFacts, CoNumbers
<1>1. CASE Still
  BY <1>1 DEF Still, KeepsCo, StateTypes, Forks, RunsAlone, Running, Waiting
<1>2. CASE Outside
  BY <1>2 DEF Outside, KeepsCo, StateTypes, Forks, RunsAlone, Running, Waiting
<1>3. ASSUME NEW c \in Cos, NEW v \in {None, Break}, Resumed(c, v) PROVE Forks'
  BY <1>3 DEF Resumed, StateTypes, Forks, RunsAlone, Running, Waiting
<1>4. ASSUME NEW s \in Sessions, Unmarked(s) PROVE Forks'
  BY <1>4 DEF Unmarked, StateTypes, Forks, RunsAlone, Running, Waiting
<1>5. ASSUME NEW c \in Cos, Started(c) PROVE Forks'
  BY <1>5 DEF Started, KeepsWaits, StateTypes, Forks, RunsAlone, Running, Waiting
<1>6. ASSUME NEW c \in Cos, Forked(c) PROVE Forks'
  BY <1>6 DEF Forked, KeepsWaits, StateTypes, Forks, RunsAlone, Running, Waiting
<1>7. ASSUME NEW c \in Cos, TimerSet(c) PROVE Forks'
  BY <1>7 DEF TimerSet, Begins, StateTypes, Forks, RunsAlone, Running, Waiting
<1>8. ASSUME NEW x \in {"pool", "lost", "dead"}, Finished(x) PROVE Forks'
  BY <1>8 DEF Finished, KeepsWaits, StateTypes, Forks, RunsAlone, Running, Waiting
<1>9. ASSUME NEW kind \in {"call", "sleep", "wait", "queue"}, Yielded(kind) PROVE Forks'
  BY <1>9 DEF Yielded, Begins, StateTypes, Forks, RunsAlone, Running, Waiting
<1> QED
  BY <1>1, <1>2, <1>3, <1>4, <1>5, <1>6, <1>7, <1>8, <1>9 DEF CoStep

\* One coroutine runs at most.
LEMMA RunsAloneKept ==
  ASSUME LuaConstants, IInv, CoStep
  PROVE  RunsAlone'
<1>0. CoFacts
  BY CoKnown
<1> USE <1>0 DEF CoFacts, CoNumbers
<1>1. CASE Still
  BY <1>1 DEF Still, KeepsCo, StateTypes, RunsAlone, Waiting, Running
<1>2. CASE Outside
  BY <1>2 DEF Outside, KeepsCo, StateTypes, RunsAlone, Waiting, Running
<1>3. ASSUME NEW c \in Cos, NEW v \in {None, Break}, Resumed(c, v) PROVE RunsAlone'
  BY <1>3 DEF Resumed, StateTypes, RunsAlone, Waiting, Running
<1>4. ASSUME NEW s \in Sessions, Unmarked(s) PROVE RunsAlone'
  BY <1>4 DEF Unmarked, StateTypes, RunsAlone, Waiting, Running
<1>5. ASSUME NEW c \in Cos, Started(c) PROVE RunsAlone'
  BY <1>5 DEF Started, KeepsWaits, StateTypes, RunsAlone, Waiting, Running
<1>6. ASSUME NEW c \in Cos, Forked(c) PROVE RunsAlone'
  BY <1>6 DEF Forked, KeepsWaits, StateTypes, RunsAlone, Waiting, Running
<1>7. ASSUME NEW c \in Cos, TimerSet(c) PROVE RunsAlone'
  BY <1>7 DEF TimerSet, Begins, StateTypes, RunsAlone, Waiting, Running
<1>8. ASSUME NEW x \in {"pool", "lost", "dead"}, Finished(x) PROVE RunsAlone'
  BY <1>8 DEF Finished, KeepsWaits, StateTypes, RunsAlone, Waiting, Running
<1>9. ASSUME NEW kind \in {"call", "sleep", "wait", "queue"}, Yielded(kind) PROVE RunsAlone'
  BY <1>9 DEF Yielded, Begins, StateTypes, RunsAlone, Waiting, Running
<1> QED
  BY <1>1, <1>2, <1>3, <1>4, <1>5, <1>6, <1>7, <1>8, <1>9 DEF CoStep

\* session_id_coroutine names the session a coroutine waits for.
LEMMA PlacesKept ==
  ASSUME LuaConstants, IInv, CoStep
  PROVE  Places'
<1>0. CoFacts
  BY CoKnown
<1> USE <1>0 DEF CoFacts, CoNumbers
<1>1. CASE Still
  BY <1>1 DEF Still, KeepsCo, StateTypes, TableTypes, RunsAlone, Places, SessionsRight,
     Waiting, Running
<1>2. CASE Outside
  BY <1>2 DEF Outside, KeepsCo, StateTypes, TableTypes, RunsAlone, Places, SessionsRight,
     Waiting, Running
<1>3. ASSUME NEW c \in Cos, NEW v \in {None, Break}, Resumed(c, v) PROVE Places'
  BY <1>3 DEF Resumed, StateTypes, TableTypes, RunsAlone, Places, SessionsRight, Waiting,
     Running
<1>4. ASSUME NEW s \in Sessions, Unmarked(s) PROVE Places'
  BY <1>4 DEF Unmarked, StateTypes, TableTypes, RunsAlone, Places, SessionsRight, Waiting,
     Running
<1>5. ASSUME NEW c \in Cos, Started(c) PROVE Places'
  BY <1>5 DEF Started, KeepsWaits, StateTypes, TableTypes, RunsAlone, Places, SessionsRight,
     Waiting, Running
<1>6. ASSUME NEW c \in Cos, Forked(c) PROVE Places'
  BY <1>6 DEF Forked, KeepsWaits, StateTypes, TableTypes, RunsAlone, Places, SessionsRight,
     Waiting, Running
<1>7. ASSUME NEW c \in Cos, TimerSet(c) PROVE Places'
  BY <1>7 DEF TimerSet, Begins, StateTypes, TableTypes, RunsAlone, Places, SessionsRight,
     Waiting, Running
<1>8. ASSUME NEW x \in {"pool", "lost", "dead"}, Finished(x) PROVE Places'
  BY <1>8 DEF Finished, KeepsWaits, StateTypes, TableTypes, RunsAlone, Places,
     SessionsRight, Waiting, Running
<1>9. ASSUME NEW kind \in {"call", "sleep", "wait", "queue"}, Yielded(kind) PROVE Places'
  BY <1>9 DEF Yielded, Begins, StateTypes, TableTypes, RunsAlone, Places, SessionsRight,
     Waiting, Running
<1> QED
  BY <1>1, <1>2, <1>3, <1>4, <1>5, <1>6, <1>7, <1>8, <1>9 DEF CoStep

\* sleep_session names the session of whoever sleeps.
LEMMA SleepersKept ==
  ASSUME LuaConstants, IInv, CoStep
  PROVE  Sleepers'
<1>0. CoFacts
  BY CoKnown
<1> USE <1>0 DEF CoFacts, CoNumbers
<1>1. CASE Still
  BY <1>1 DEF Still, KeepsCo, StateTypes, TableTypes, RunsAlone, Sleepers, Waiting, Running
<1>2. CASE Outside
  BY <1>2 DEF Outside, KeepsCo, StateTypes, TableTypes, RunsAlone, Sleepers, Waiting,
     Running
<1>3. ASSUME NEW c \in Cos, NEW v \in {None, Break}, Resumed(c, v) PROVE Sleepers'
  BY <1>3 DEF Resumed, StateTypes, TableTypes, RunsAlone, Sleepers, Waiting, Running
<1>4. ASSUME NEW s \in Sessions, Unmarked(s) PROVE Sleepers'
  BY <1>4 DEF Unmarked, StateTypes, TableTypes, RunsAlone, Sleepers, Waiting, Running
<1>5. ASSUME NEW c \in Cos, Started(c) PROVE Sleepers'
  BY <1>5 DEF Started, KeepsWaits, StateTypes, TableTypes, RunsAlone, Sleepers, Waiting,
     Running
<1>6. ASSUME NEW c \in Cos, Forked(c) PROVE Sleepers'
  BY <1>6 DEF Forked, KeepsWaits, StateTypes, TableTypes, RunsAlone, Sleepers, Waiting,
     Running
<1>7. ASSUME NEW c \in Cos, TimerSet(c) PROVE Sleepers'
  BY <1>7 DEF TimerSet, Begins, StateTypes, TableTypes, RunsAlone, Sleepers, Waiting,
     Running
<1>8. ASSUME NEW x \in {"pool", "lost", "dead"}, Finished(x) PROVE Sleepers'
  BY <1>8 DEF Finished, KeepsWaits, StateTypes, TableTypes, RunsAlone, Sleepers, Waiting,
     Running
<1>9. ASSUME NEW kind \in {"call", "sleep", "wait", "queue"}, Yielded(kind) PROVE Sleepers'
  BY <1>9 DEF Yielded, Begins, StateTypes, TableTypes, RunsAlone, Sleepers, Waiting, Running
<1> QED
  BY <1>1, <1>2, <1>3, <1>4, <1>5, <1>6, <1>7, <1>8, <1>9 DEF CoStep

-----------------------------------------------------------------------------
(* Sessions.                                                              *)

Unused   == \A s \in Sessions : s > sid => session_id_coroutine[s] = None
AnswersOld == \A s : Answered(s) => s \in 1..sid
MarksTimed == \A s \in Sessions : session_id_coroutine[s] = Break => Timed(s)
SleepTimed == \A c \in Cos : co[c] = "sleep" => Timed(waits[c])
NoAnswerer == \A c \in Cos : co[c] = "queue" => waits[c] \notin DOMAIN asked /\ ~Answered(waits[c])
WatchCalls == \A s \in Sessions : watching_session[s] # "none" => Calls(s)
QueueCalls == \A s \in ToSet(error_queue) :
                 s <= sid /\ (session_id_coroutine[s] # None => Calls(s))

\* SessionsRight in parts.
LEMMA SessionParts ==
  /\ SessionsRight <=> /\ Unused /\ AnswersOld /\ MarksTimed /\ SleepTimed /\ NoAnswerer
                       /\ WatchCalls /\ QueueCalls
                       /\ \A p \in Peers : Ended(p) => p \notin alive
BY DEF SessionsRight, Unused, AnswersOld, MarksTimed, SleepTimed, NoAnswerer, WatchCalls,
   QueueCalls

\* A session that was not given out is in no table.
LEMMA UnusedKept ==
  ASSUME LuaConstants, IInv, CoStep
  PROVE  Unused'
<1>0. CoFacts
  BY CoKnown
<1> USE <1>0 DEF CoFacts, CoNumbers
<1>c. /\ Unused /\ AnswersOld /\ MarksTimed /\ SleepTimed /\ NoAnswerer /\ WatchCalls
  BY SessionParts
<1>1. CASE Still
  BY <1>c, <1>1 DEF Still, KeepsCo, Unused, StateTypes, TableTypes, RunsAlone
<1>2. CASE Outside
  BY <1>c, <1>2 DEF Outside, KeepsCo, Unused, StateTypes, TableTypes, RunsAlone
<1>3. ASSUME NEW c \in Cos, NEW v \in {None, Break}, Resumed(c, v) PROVE Unused'
  BY <1>c, <1>3 DEF Resumed, Unused, StateTypes, TableTypes, RunsAlone
<1>4. ASSUME NEW s \in Sessions, Unmarked(s) PROVE Unused'
  BY <1>c, <1>4 DEF Unmarked, Unused, StateTypes, TableTypes, RunsAlone
<1>5. ASSUME NEW c \in Cos, Started(c) PROVE Unused'
  BY <1>c, <1>5 DEF Started, KeepsWaits, Unused, StateTypes, TableTypes, RunsAlone
<1>6. ASSUME NEW c \in Cos, Forked(c) PROVE Unused'
  BY <1>c, <1>6 DEF Forked, KeepsWaits, Unused, StateTypes, TableTypes, RunsAlone
<1>7. ASSUME NEW c \in Cos, TimerSet(c) PROVE Unused'
  <2>1. \A s \in Sessions : s > sid + 1 => s > sid /\ s # sid + 1
    BY DEF StateTypes, Sessions
  <2>2. \A s \in Sessions : s > sid + 1 => session_id_coroutine'[s] = session_id_coroutine[s]
    BY <1>7, <2>1 DEF TimerSet, Begins, TableTypes
  <2> QED
    BY <1>c, <1>7, <2>1, <2>2 DEF Unused, TimerSet, Begins
<1>8. ASSUME NEW x \in {"pool", "lost", "dead"}, Finished(x) PROVE Unused'
  BY <1>c, <1>8 DEF Finished, KeepsWaits, Unused, StateTypes, TableTypes, RunsAlone
<1>9. ASSUME NEW kind \in {"call", "sleep", "wait", "queue"}, Yielded(kind) PROVE Unused'
  <2>1. \A s \in Sessions : s > sid + 1 => s > sid /\ s # sid + 1
    BY DEF StateTypes, Sessions
  <2>2. \A s \in Sessions : s > sid + 1 => session_id_coroutine'[s] = session_id_coroutine[s]
    BY <1>9, <2>1 DEF Yielded, Begins, TableTypes
  <2> QED
    BY <1>c, <1>9, <2>1, <2>2 DEF Unused, Yielded, Begins
<1> QED
  BY <1>1, <1>2, <1>3, <1>4, <1>5, <1>6, <1>7, <1>8, <1>9 DEF CoStep

\* An answer is for a session that was given out.
LEMMA AnswersOldKept ==
  ASSUME LuaConstants, IInv, CoStep
  PROVE  AnswersOld'
<1>0. CoFacts
  BY CoKnown
<1> USE <1>0 DEF CoFacts, CoNumbers
<1>c. /\ Unused /\ AnswersOld /\ MarksTimed /\ SleepTimed /\ NoAnswerer /\ WatchCalls
  BY SessionParts
<1>1. CASE Still
  BY <1>c, <1>1 DEF Still, KeepsCo, AnswersOld, SameAnswers, AskedTypes, StateTypes
<1>2. CASE Outside
  BY <1>c, <1>2 DEF Outside, KeepsCo, AnswersOld, SameAnswers, AskedTypes, StateTypes
<1>3. ASSUME NEW c \in Cos, NEW v \in {None, Break}, Resumed(c, v) PROVE AnswersOld'
  BY <1>c, <1>3 DEF Resumed, AnswersOld, SameAnswers, AskedTypes, StateTypes
<1>4. ASSUME NEW s \in Sessions, Unmarked(s) PROVE AnswersOld'
  BY <1>c, <1>4 DEF Unmarked, AnswersOld, SameAnswers, AskedTypes, StateTypes
<1>5. ASSUME NEW c \in Cos, Started(c) PROVE AnswersOld'
  BY <1>c, <1>5 DEF Started, KeepsWaits, AnswersOld, SameAnswers, AskedTypes, StateTypes
<1>6. ASSUME NEW c \in Cos, Forked(c) PROVE AnswersOld'
  BY <1>c, <1>6 DEF Forked, KeepsWaits, AnswersOld, SameAnswers, AskedTypes, StateTypes
<1>7. ASSUME NEW c \in Cos, TimerSet(c) PROVE AnswersOld'
  BY <1>c, <1>7 DEF TimerSet, Begins, AnswersOld, SameAnswers, AskedTypes, StateTypes
<1>8. ASSUME NEW x \in {"pool", "lost", "dead"}, Finished(x) PROVE AnswersOld'
  BY <1>c, <1>8 DEF Finished, KeepsWaits, AnswersOld, SameAnswers, AskedTypes, StateTypes
<1>9. ASSUME NEW kind \in {"call", "sleep", "wait", "queue"}, Yielded(kind) PROVE AnswersOld'
  BY <1>c, <1>9 DEF Yielded, Begins, AnswersOld, SameAnswers, AskedTypes, StateTypes
<1> QED
  BY <1>1, <1>2, <1>3, <1>4, <1>5, <1>6, <1>7, <1>8, <1>9 DEF CoStep

\* A session marked BREAK is the timer's.
LEMMA MarksTimedKept ==
  ASSUME LuaConstants, IInv, CoStep
  PROVE  MarksTimed'
<1>0. CoFacts
  BY CoKnown
<1> USE <1>0 DEF CoFacts, CoNumbers
<1>c. /\ Unused /\ AnswersOld /\ MarksTimed /\ SleepTimed /\ NoAnswerer /\ WatchCalls
  BY SessionParts
<1>1. CASE Still
  BY <1>c, <1>1 DEF Still, KeepsCo, MarksTimed, SleepTimed, StateTypes, TableTypes, Timed,
     SameAnswers, RunsAlone, Asks
<1>2. CASE Outside
  BY <1>c, <1>2 DEF Outside, KeepsCo, MarksTimed, SleepTimed, StateTypes, TableTypes, Timed,
     SameAnswers, RunsAlone, Asks
<1>3. ASSUME NEW c \in Cos, NEW v \in {None, Break}, Resumed(c, v) PROVE MarksTimed'
  BY <1>c, <1>3 DEF Resumed, MarksTimed, SleepTimed, StateTypes, TableTypes, Timed,
     SameAnswers, RunsAlone, Asks
<1>4. ASSUME NEW s \in Sessions, Unmarked(s) PROVE MarksTimed'
  BY <1>c, <1>4 DEF Unmarked, MarksTimed, SleepTimed, StateTypes, TableTypes, Timed,
     SameAnswers, RunsAlone, Asks
<1>5. ASSUME NEW c \in Cos, Started(c) PROVE MarksTimed'
  BY <1>c, <1>5 DEF Started, KeepsWaits, MarksTimed, SleepTimed, StateTypes, TableTypes,
     Timed, SameAnswers, RunsAlone, Asks
<1>6. ASSUME NEW c \in Cos, Forked(c) PROVE MarksTimed'
  BY <1>c, <1>6 DEF Forked, KeepsWaits, MarksTimed, SleepTimed, StateTypes, TableTypes,
     Timed, SameAnswers, RunsAlone, Asks
<1>7. ASSUME NEW c \in Cos, TimerSet(c) PROVE MarksTimed'
  BY <1>c, <1>7 DEF TimerSet, Begins, MarksTimed, SleepTimed, StateTypes, TableTypes, Timed,
     SameAnswers, RunsAlone, Asks
<1>8. ASSUME NEW x \in {"pool", "lost", "dead"}, Finished(x) PROVE MarksTimed'
  BY <1>c, <1>8 DEF Finished, KeepsWaits, MarksTimed, SleepTimed, StateTypes, TableTypes,
     Timed, SameAnswers, RunsAlone, Asks
<1>9. ASSUME NEW kind \in {"call", "sleep", "wait", "queue"}, Yielded(kind) PROVE MarksTimed'
  BY <1>c, <1>9 DEF Yielded, Begins, MarksTimed, SleepTimed, StateTypes, TableTypes, Timed,
     SameAnswers, RunsAlone, Asks
<1> QED
  BY <1>1, <1>2, <1>3, <1>4, <1>5, <1>6, <1>7, <1>8, <1>9 DEF CoStep

\* A coroutine that sleeps has a timer.
LEMMA SleepTimedKept ==
  ASSUME LuaConstants, IInv, CoStep
  PROVE  SleepTimed'
<1>0. CoFacts
  BY CoKnown
<1> USE <1>0 DEF CoFacts, CoNumbers
<1>c. /\ Unused /\ AnswersOld /\ MarksTimed /\ SleepTimed /\ NoAnswerer /\ WatchCalls
  BY SessionParts
<1>1. CASE Still
  BY <1>c, <1>1 DEF Still, KeepsCo, SleepTimed, Places, StateTypes, TableTypes, Timed,
     SameAnswers, RunsAlone, Asks, Waiting
<1>2. CASE Outside
  BY <1>c, <1>2 DEF Outside, KeepsCo, SleepTimed, Places, StateTypes, TableTypes, Timed,
     SameAnswers, RunsAlone, Asks, Waiting
<1>3. ASSUME NEW c \in Cos, NEW v \in {None, Break}, Resumed(c, v) PROVE SleepTimed'
  BY <1>c, <1>3 DEF Resumed, SleepTimed, Places, StateTypes, TableTypes, Timed, SameAnswers,
     RunsAlone, Asks, Waiting
<1>4. ASSUME NEW s \in Sessions, Unmarked(s) PROVE SleepTimed'
  BY <1>c, <1>4 DEF Unmarked, SleepTimed, Places, StateTypes, TableTypes, Timed,
     SameAnswers, RunsAlone, Asks, Waiting
<1>5. ASSUME NEW c \in Cos, Started(c) PROVE SleepTimed'
  BY <1>c, <1>5 DEF Started, KeepsWaits, SleepTimed, Places, StateTypes, TableTypes, Timed,
     SameAnswers, RunsAlone, Asks, Waiting
<1>6. ASSUME NEW c \in Cos, Forked(c) PROVE SleepTimed'
  BY <1>c, <1>6 DEF Forked, KeepsWaits, SleepTimed, Places, StateTypes, TableTypes, Timed,
     SameAnswers, RunsAlone, Asks, Waiting
<1>7. ASSUME NEW c \in Cos, TimerSet(c) PROVE SleepTimed'
  BY <1>c, <1>7 DEF TimerSet, Begins, SleepTimed, Places, StateTypes, TableTypes, Timed,
     SameAnswers, RunsAlone, Asks, Waiting
<1>8. ASSUME NEW x \in {"pool", "lost", "dead"}, Finished(x) PROVE SleepTimed'
  BY <1>c, <1>8 DEF Finished, KeepsWaits, SleepTimed, Places, StateTypes, TableTypes, Timed,
     SameAnswers, RunsAlone, Asks, Waiting
<1>9. ASSUME NEW kind \in {"call", "sleep", "wait", "queue"}, Yielded(kind) PROVE SleepTimed'
  BY <1>c, <1>9 DEF Yielded, Begins, SleepTimed, Places, StateTypes, TableTypes, Timed,
     SameAnswers, RunsAlone, Asks, Waiting
<1> QED
  BY <1>1, <1>2, <1>3, <1>4, <1>5, <1>6, <1>7, <1>8, <1>9 DEF CoStep

\* Nobody answers the session of skynet.wait in skynet.queue.
LEMMA NoAnswererKept ==
  ASSUME LuaConstants, IInv, CoStep
  PROVE  NoAnswerer'
<1>0. CoFacts
  BY CoKnown
<1> USE <1>0 DEF CoFacts, CoNumbers
<1>c. /\ Unused /\ AnswersOld /\ MarksTimed /\ SleepTimed /\ NoAnswerer /\ WatchCalls
  BY SessionParts
<1>1. CASE Still
  BY <1>c, <1>1 DEF Still, KeepsCo, NoAnswerer, AnswersOld, StateTypes, AskedTypes,
     SameAnswers, RunsAlone, Asks, Waiting
<1>2. CASE Outside
  BY <1>c, <1>2 DEF Outside, KeepsCo, NoAnswerer, AnswersOld, StateTypes, AskedTypes,
     SameAnswers, RunsAlone, Asks, Waiting
<1>3. ASSUME NEW c \in Cos, NEW v \in {None, Break}, Resumed(c, v) PROVE NoAnswerer'
  BY <1>c, <1>3 DEF Resumed, NoAnswerer, AnswersOld, StateTypes, AskedTypes, SameAnswers,
     RunsAlone, Asks, Waiting
<1>4. ASSUME NEW s \in Sessions, Unmarked(s) PROVE NoAnswerer'
  BY <1>c, <1>4 DEF Unmarked, NoAnswerer, AnswersOld, StateTypes, AskedTypes, SameAnswers,
     RunsAlone, Asks, Waiting
<1>5. ASSUME NEW c \in Cos, Started(c) PROVE NoAnswerer'
  BY <1>c, <1>5 DEF Started, KeepsWaits, NoAnswerer, AnswersOld, StateTypes, AskedTypes,
     SameAnswers, RunsAlone, Asks, Waiting
<1>6. ASSUME NEW c \in Cos, Forked(c) PROVE NoAnswerer'
  BY <1>c, <1>6 DEF Forked, KeepsWaits, NoAnswerer, AnswersOld, StateTypes, AskedTypes,
     SameAnswers, RunsAlone, Asks, Waiting
<1>7. ASSUME NEW c \in Cos, TimerSet(c) PROVE NoAnswerer'
  BY <1>c, <1>7 DEF TimerSet, Begins, NoAnswerer, AnswersOld, StateTypes, AskedTypes,
     SameAnswers, RunsAlone, Asks, Waiting
<1>8. ASSUME NEW x \in {"pool", "lost", "dead"}, Finished(x) PROVE NoAnswerer'
  BY <1>c, <1>8 DEF Finished, KeepsWaits, NoAnswerer, AnswersOld, StateTypes, AskedTypes,
     SameAnswers, RunsAlone, Asks, Waiting
<1>9. ASSUME NEW kind \in {"call", "sleep", "wait", "queue"}, Yielded(kind) PROVE NoAnswerer'
  BY <1>c, <1>9 DEF Yielded, Begins, NoAnswerer, AnswersOld, StateTypes, AskedTypes,
     SameAnswers, RunsAlone, Asks, Waiting
<1> QED
  BY <1>1, <1>2, <1>3, <1>4, <1>5, <1>6, <1>7, <1>8, <1>9 DEF CoStep

\* watching_session names the peer a call waits for.
LEMMA WatchCallsKept ==
  ASSUME LuaConstants, IInv, CoStep
  PROVE  WatchCalls'
<1>0. CoFacts
  BY CoKnown
<1> USE <1>0 DEF CoFacts, CoNumbers
<1>c. /\ Unused /\ AnswersOld /\ MarksTimed /\ SleepTimed /\ NoAnswerer /\ WatchCalls
  BY SessionParts
<1>1. CASE Still
  BY <1>c, <1>1 DEF Still, KeepsCo, WatchCalls, Calls, StateTypes, TableTypes, Places,
     RunsAlone, Waiting
<1>2. CASE Outside
  BY <1>c, <1>2 DEF Outside, KeepsCo, WatchCalls, Calls, StateTypes, TableTypes, Places,
     RunsAlone, Waiting
<1>3. ASSUME NEW c \in Cos, NEW v \in {None, Break}, Resumed(c, v) PROVE WatchCalls'
  BY <1>c, <1>3 DEF Resumed, WatchCalls, Calls, StateTypes, TableTypes, Places, RunsAlone,
     Waiting
<1>4. ASSUME NEW s \in Sessions, Unmarked(s) PROVE WatchCalls'
  BY <1>c, <1>4 DEF Unmarked, WatchCalls, Calls, StateTypes, TableTypes, Places, RunsAlone,
     Waiting
<1>5. ASSUME NEW c \in Cos, Started(c) PROVE WatchCalls'
  BY <1>c, <1>5 DEF Started, KeepsWaits, WatchCalls, Calls, StateTypes, TableTypes, Places,
     RunsAlone, Waiting
<1>6. ASSUME NEW c \in Cos, Forked(c) PROVE WatchCalls'
  BY <1>c, <1>6 DEF Forked, KeepsWaits, WatchCalls, Calls, StateTypes, TableTypes, Places,
     RunsAlone, Waiting
<1>7. ASSUME NEW c \in Cos, TimerSet(c) PROVE WatchCalls'
  BY <1>c, <1>7 DEF TimerSet, Begins, WatchCalls, Calls, StateTypes, TableTypes, Places,
     RunsAlone, Waiting
<1>8. ASSUME NEW x \in {"pool", "lost", "dead"}, Finished(x) PROVE WatchCalls'
  BY <1>c, <1>8 DEF Finished, KeepsWaits, WatchCalls, Calls, StateTypes, TableTypes, Places,
     RunsAlone, Waiting
<1>9. ASSUME NEW kind \in {"call", "sleep", "wait", "queue"}, Yielded(kind) PROVE WatchCalls'
  BY <1>c, <1>9 DEF Yielded, Begins, WatchCalls, Calls, StateTypes, TableTypes, Places,
     RunsAlone, Waiting
<1> QED
  BY <1>1, <1>2, <1>3, <1>4, <1>5, <1>6, <1>7, <1>8, <1>9 DEF CoStep

\* The parts of IInv that are about sessions give WaitersMatch.
LEMMA MarksMatch ==
  ASSUME Places, Sleepers, SessionsRight
  PROVE  WaitersMatch
BY DEF Places, Sleepers, SessionsRight, WaitersMatch, Timed, Answered

-----------------------------------------------------------------------------
(* The lock of skynet.queue.                                              *)

\* k levels of the lock end: whoever leaves them has it.
LetsGo ==
  /\ current_thread = cur /\ cur # None /\ ref > 0 /\ ref' \in Nat /\ UNCHANGED early
  /\ depth' = [depth EXCEPT ![cur] = ref']
  /\ \/ /\ ref' = 0 /\ thread_queue # <<>>
        /\ current_thread' = Head(thread_queue) /\ thread_queue' = Tail(thread_queue)
        /\ wakeup_session' = Woken(Head(thread_queue))
     \/ /\ ref' = 0 /\ thread_queue = <<>> /\ current_thread' = None
        /\ UNCHANGED <<thread_queue, wakeup_session>>
     \/ ref' # 0 /\ UNCHANGED <<current_thread, thread_queue, wakeup_session>>

\* A coroutine that leaves the lock, by its return or by an error, lets go of it.
LEMMA GivesUp ==
  ASSUME LuaConstants, TypeOK, OtherTypes, LockRight, NEW k \in Nat, k > 0, k <= depth[cur],
         GiveUp(k)
  PROVE  LetsGo
<1>1. /\ cur \in Cos /\ cur # None /\ depth[cur] \in Nat /\ depth \in [Cos -> Nat]
      /\ ref \in Nat
      /\ thread_queue \in Seq(Cos)
  BY Names DEF OtherTypes, TypeOK
<1>2. current_thread = cur /\ ref = depth[cur]
  BY <1>1 DEF LockRight
<1>3. /\ ref' = ref - k /\ ref' \in Nat /\ ref > 0 /\ depth' = [depth EXCEPT ![cur] = ref']
      /\ UNCHANGED early
  BY <1>1, <1>2 DEF GiveUp
<1>4. CASE ref' = 0 /\ thread_queue # <<>>
  <2>1. /\ current_thread' = Head(thread_queue) /\ thread_queue' = Tail(thread_queue)
        /\ wakeup_session' = Woken(current_thread')
    BY <1>4 DEF GiveUp
  <2>2. wakeup_session' = Woken(Head(thread_queue))
    BY <2>1 DEF Woken
  <2> QED
    BY <1>1, <1>2, <1>3, <1>4, <2>1, <2>2 DEF LetsGo
<1>5. CASE ref' = 0 /\ thread_queue = <<>>
  BY <1>1, <1>2, <1>3, <1>5 DEF GiveUp, LetsGo
<1>6. CASE ref' # 0
  BY <1>1, <1>2, <1>3, <1>6 DEF GiveUp, LetsGo
<1> QED
  BY <1>4, <1>5, <1>6

\* The ways in which one step changes the lock.
QueuedSame == \A c \in Cos : co'[c] = "queue" <=> co[c] = "queue"
Clean      == raised' = 0 => raised = 0 /\ (~stale => ~stale')
LockStill ==
  /\ UNCHANGED queueVars /\ QueuedSame /\ Clean
  /\ \/ UNCHANGED wakeup_session
     \/ \E c \in Cos : /\ co[c] # "queue"
                       /\ wakeup_session' \in {wakeup_session \cup {c}, wakeup_session \ {c}}
LockPassed(c) ==
  /\ c \in wakeup_session /\ wakeup_session' = wakeup_session \ {c}
  /\ co[c] = "queue" /\ co' = [co EXCEPT ![c] = "run"]
  /\ early' = (early \/ ref # 0 \/ current_thread # c)
  /\ UNCHANGED <<thread_queue, raised, stale>>
  /\ IF ref = 0 THEN current_thread' = c /\ ref' = 1 /\ depth' = [depth EXCEPT ![c] = 1]
                ELSE UNCHANGED <<current_thread, ref, depth>>
LockWaited ==
  /\ current_thread # None /\ current_thread # cur /\ co[cur] = "run"
  /\ raised = 0 => cur \notin wakeup_session
  /\ thread_queue' = Append(thread_queue, cur) /\ co' = [co EXCEPT ![cur] = "queue"]
  /\ UNCHANGED <<current_thread, ref, depth, early, wakeup_session, raised, stale>>
LockEntered ==
  /\ current_thread \in {None, cur} /\ co[cur] = "run"
  /\ current_thread' = cur /\ ref' = ref + 1 /\ depth' = [depth EXCEPT ![cur] = @ + 1]
  /\ UNCHANGED <<thread_queue, early, wakeup_session, co, raised, stale>>
LockLeft == LetsGo /\ QueuedSame /\ Clean

LockStep == \/ LockStill \/ LockWaited \/ LockEntered \/ LockLeft
            \/ \E c \in Cos : LockPassed(c)

\* Every step changes the lock in one of seven ways.
LEMMA LockSteps ==
  ASSUME LuaConstants, IInv, Next
  PROVE  LockStep
<1>0. CoFacts /\ TypeOK /\ OtherTypes /\ LockRight /\ SuspendRight
  BY CoKnown DEF IInv, SchedulerRight
<1>a. StateTypes /\ TableTypes /\ AskedTypes /\ RunsAlone /\ Places /\ Sleepers /\ SessionsRight
  BY <1>0 DEF CoFacts, CoTypes
<1>b. raised \in Nat /\ cur \in Cos /\ co \in [Cos -> Waiting \cup {"pool", "run", "fork", "dead", "lost"}]
  BY <1>0 DEF OtherTypes, StateTypes, TypeOK
<1>c. NoAnswerer /\ QueueCalls
  BY <1>a, SessionParts
<1>1. ASSUME NEW s \in Sessions, DispatchResponse(s) PROVE LockStep
  <2>1. co[session_id_coroutine[s]] # "queue" \/ session_id_coroutine[s] \notin Cos
    <3>1. ASSUME session_id_coroutine[s] \in Cos, co[session_id_coroutine[s]] = "queue"
          PROVE FALSE
      <4>1. waits[session_id_coroutine[s]] = s
        BY <1>a, <3>1 DEF Places
      <4>2. Answered(s)
        BY <1>0, <1>1, MailTaken DEF DispatchResponse, Answered
      <4> QED
        BY <1>c, <3>1, <4>1, <4>2 DEF NoAnswerer
    <3> QED
      BY <3>1
  <2>2. LockStill
    <3>1. CASE session_id_coroutine[s] \in Cos
      BY <1>b, <1>1, <2>1, <3>1 DEF DispatchResponse, Resume, TakesLock, Cleared, Runs,
         coVars, LockStill, QueuedSame, Clean, queueVars
    <3>2. CASE session_id_coroutine[s] \notin Cos
      BY <1>b, <1>1, <3>2 DEF DispatchResponse, coVars, LockStill, QueuedSame, Clean,
         queueVars
    <3> QED
      BY <3>1, <3>2
  <2> QED
    BY <2>2 DEF LockStep
<1>2. ASSUME NEW r \in 1..MaxReq, DispatchRequest(r) PROVE LockStep
  <2>1. LockStill
    BY <1>a, <1>b, <1>2 DEF DispatchRequest, Take, Free, Runs, schedVars, queueVars,
       envVars, ansVars, LockStill, QueuedSame, Clean, Running, RunsAlone
  <2> QED
    BY <2>1 DEF LockStep
<1>3. ASSUME NEW p \in Peers, NEW s \in Sessions \cup {0}, DispatchError(p, s) PROVE LockStep
  <2>1. LockStill
    BY <1>a, <1>b, <1>3 DEF DispatchError, Take, Dead, Suspended, NoResume, reqVars,
       envVars, ansVars, schedVars, coVars, queueVars, LockStill, QueuedSame, Clean,
       Running, RunsAlone
  <2> QED
    BY <2>1 DEF LockStep
<1>4. CASE DispatchWakeup
  <2>1. CASE wakeup_session = {} /\ NoResume
    <3>1. LockStill
      BY <1>4, <2>1 DEF DispatchWakeup, NoResume, coVars, schedVars, LockStill, QueuedSame,
         Clean, queueVars
    <3> QED
      BY <3>1 DEF LockStep
  <2>2. ASSUME NEW c \in wakeup_session, wakeup_session' = wakeup_session \ {c},
               sleep_session[c] # None,
               Resume(c, [session_id_coroutine EXCEPT ![sleep_session[c]] = Break])
        PROVE  LockStep
    <3>1. c \in Cos
      BY <1>0, <2>2 DEF TypeOK
    <3>2. CASE co[c] = "queue"
      <4>1. LockPassed(c)
        BY <1>4, <2>2, <3>2 DEF DispatchWakeup, Resume, TakesLock, Cleared, Runs, LockPassed
      <4> QED
        BY <3>1, <4>1 DEF LockStep
    <3>3. CASE co[c] # "queue"
      <4>1. LockStill
        BY <1>b, <1>4, <2>2, <3>1, <3>3 DEF DispatchWakeup, Resume, TakesLock, Cleared,
           Runs, LockStill, QueuedSame, Clean, queueVars
      <4> QED
        BY <4>1 DEF LockStep
    <3> QED
      BY <3>2, <3>3
  <2>3. ASSUME NEW c \in wakeup_session, wakeup_session' = wakeup_session \ {c},
               sleep_session[c] = None, UNCHANGED <<coVars, queueVars>>
        PROVE  LockStep
    <3>1. c \in Cos
      BY <1>0, <2>3 DEF TypeOK
    <3>2. co[c] # "queue"
      BY <1>a, <2>3, <3>1, Names DEF Sleepers, RunsAlone, Waiting, StateTypes
    <3>3. LockStill
      BY <1>b, <1>4, <2>3, <3>1, <3>2 DEF DispatchWakeup, coVars, LockStill, QueuedSame,
         Clean
    <3> QED
      BY <3>3 DEF LockStep
  <2> QED
    BY <1>4, <2>1, <2>2, <2>3 DEF DispatchWakeup
<1>5. CASE DispatchErrorQueue
  <2>1. CASE error_queue = <<>> \/ session_id_coroutine[Head(error_queue)] \notin Cos
    <3>1. LockStill
      BY <1>5, <2>1 DEF DispatchErrorQueue, NoResume, coVars, schedVars, LockStill,
         QueuedSame, Clean, queueVars
    <3> QED
      BY <3>1 DEF LockStep
  <2>2. CASE error_queue # <<>> /\ session_id_coroutine[Head(error_queue)] \in Cos
    <3>1. Head(error_queue) \in Sessions /\ Head(error_queue) \in ToSet(error_queue)
      BY <1>0, <2>2, TailSet DEF OtherTypes
    <3>2. PICK c \in Cos : c = session_id_coroutine[Head(error_queue)]
      BY <2>2
    <3>3. Calls(Head(error_queue))
      BY <1>c, <3>1, <3>2, Names DEF QueueCalls
    <3>4. co[c] = "call"
      BY <1>a, <3>1, <3>2, <3>3 DEF Calls, Places, Waiting
    <3>5. LockStill
      BY <1>b, <1>5, <2>2, <3>2, <3>4 DEF DispatchErrorQueue, Resume, TakesLock, Cleared,
         Runs, LockStill, QueuedSame, Clean, queueVars
    <3> QED
      BY <3>5 DEF LockStep
  <2> QED
    BY <2>1, <2>2
<1>6. CASE DispatchFork
  <2>1. \/ UNCHANGED <<coVars, stale>> \/ (UNCHANGED coVars /\ (~stale => ~stale'))
        \/ ((\E c \in fork_queue : Runs(c, "run")) /\ UNCHANGED stale)
    BY <1>6 DEF DispatchFork, coVars
  <2>2. \A c \in fork_queue : c \in Cos /\ co[c] = "fork"
    BY <1>0, <1>6 DEF DispatchFork, TypeOK
  <2>3. QueuedSame
    BY <1>b, <2>1, <2>2 DEF QueuedSame, coVars, Runs
  <2>4. LockStill
    BY <1>6, <2>1, <2>3 DEF DispatchFork, queueVars, schedVars, LockStill, Clean
  <2> QED
    BY <2>4 DEF LockStep
<1>7. CASE AssertFails
  <2>1. CASE depth[cur] > 0
    <3>1. GiveUp(depth[cur]) /\ depth[cur] \in Nat /\ depth[cur] <= depth[cur]
      BY <1>0, <1>7, <2>1 DEF AssertFails, Uncaught, OtherTypes
    <3>2. LetsGo
      BY <1>0, <2>1, <3>1, GivesUp
    <3>3. LockLeft
      BY <1>a, <1>b, <1>7, <3>2 DEF AssertFails, Uncaught, LockLeft, QueuedSame, Clean,
         RunsAlone, Running
    <3> QED
      BY <3>3 DEF LockStep
  <2>2. CASE ~(depth[cur] > 0)
    <3>1. LockStill
      BY <1>a, <1>b, <1>7, <2>2 DEF AssertFails, Uncaught, LockStill, QueuedSame, Clean,
         RunsAlone, Running
    <3> QED
      BY <3>1 DEF LockStep
  <2> QED
    BY <2>1, <2>2
<1>8. ASSUME NEW p \in Peers, Call(p) PROVE LockStep
  <2>1. LockStill
    BY <1>a, <1>b, <1>8 DEF Call, Does, Yields, Watches, Asks, queueVars, Suspended,
       reqVars, envVars, ansVars, LockStill, QueuedSame, Clean, Running, RunsAlone
  <2> QED
    BY <2>1 DEF LockStep
<1>9. CASE Sleep
  <2>1. LockStill
    BY <1>a, <1>b, <1>9 DEF Sleep, Does, Yields, Asks, queueVars, Suspended, reqVars,
       envVars, ansVars, LockStill, QueuedSame, Clean, Running, RunsAlone
  <2> QED
    BY <2>1 DEF LockStep
<1>10. CASE Wait
  <2>1. LockStill
    BY <1>a, <1>b, <1>10 DEF Wait, Does, Yields, queueVars, Suspended, reqVars, envVars,
       ansVars, LockStill, QueuedSame, Clean, Running, RunsAlone
  <2> QED
    BY <2>1 DEF LockStep
<1>11. CASE Timeout
  <2>1. LockStill
    BY <1>a, <1>b, <1>11 DEF Timeout, Does, Free, Asks, watchVars, reqVars, queueVars,
       envVars, ansVars, LockStill, QueuedSame, Clean, Running, RunsAlone
  <2> QED
    BY <2>1 DEF LockStep
<1>12. CASE Fork
  <2>1. LockStill
    BY <1>a, <1>b, <1>12 DEF Fork, Does, Free, Stays, reqVars, queueVars, ansVars, envVars,
       LockStill, QueuedSame, Clean, Running, RunsAlone
  <2> QED
    BY <2>1 DEF LockStep
<1>13. CASE Ret
  <2>1. LockStill
    BY <1>a, <1>b, <1>13 DEF Ret, Does, Second, ansVars, Reply, Stays, coVars, queueVars,
       envVars, LockStill, QueuedSame, Clean, Running, RunsAlone
  <2> QED
    BY <2>1 DEF LockStep
<1>14. CASE AnswerTwice
  <2>1. LockStill
    BY <1>a, <1>b, <1>14 DEF AnswerTwice, Does, Second, schedVars, watchVars, reqVars,
       queueVars, envVars, ansVars, LockStill, QueuedSame, Clean, Running, RunsAlone
  <2> QED
    BY <2>1 DEF LockStep
<1>15. CASE Response
  <2>1. LockStill
    BY <1>a, <1>b, <1>15 DEF Response, Does, Second, Stays, coVars, queueVars, ansVars,
       envVars, LockStill, QueuedSame, Clean, Running, RunsAlone
  <2> QED
    BY <2>1 DEF LockStep
<1>16. CASE Enter
  <2>1. CASE current_thread # None /\ current_thread # cur
    <3>1. co[cur] = "run" /\ sleep_session[cur] = None
      BY <1>a, <1>b, <1>16 DEF RunsAlone, Running, Sleepers, Enter, Does
    <3>2. raised = 0 => cur \notin wakeup_session
      BY <1>0, <3>1 DEF LockRight, SuspendRight
    <3>3. LockWaited
      BY <1>16, <2>1, <3>1, <3>2 DEF Enter, Does, Yields, LockWaited
    <3> QED
      BY <3>3 DEF LockStep
  <2>2. CASE ~(current_thread # None /\ current_thread # cur)
    <3>1. co[cur] = "run"
      BY <1>a, <1>b, <1>16 DEF RunsAlone, Running, Enter, Does
    <3>2. LockEntered
      BY <1>16, <2>2, <3>1 DEF Enter, Does, Stays, coVars, LockEntered
    <3> QED
      BY <3>2 DEF LockStep
  <2> QED
    BY <2>1, <2>2
<1>17. CASE Raise
  <2>1. CASE depth[cur] > 0
    <3>1. GiveUp(depth[cur]) /\ depth[cur] \in Nat /\ depth[cur] <= depth[cur]
      BY <1>0, <1>17, <2>1 DEF Raise, Uncaught, OtherTypes
    <3>2. LetsGo
      BY <1>0, <2>1, <3>1, GivesUp
    <3>3. LockLeft
      BY <1>a, <1>b, <1>17, <3>2 DEF Raise, Uncaught, LockLeft, QueuedSame, Clean,
         RunsAlone, Running
    <3> QED
      BY <3>3 DEF LockStep
  <2>2. CASE ~(depth[cur] > 0)
    <3>1. LockStill
      BY <1>a, <1>b, <1>17, <2>2 DEF Raise, Uncaught, LockStill, QueuedSame, Clean,
         RunsAlone, Running
    <3> QED
      BY <3>1 DEF LockStep
  <2> QED
    BY <2>1, <2>2
<1>18. CASE Exit
  <2>1. LockStill
    BY <1>a, <1>b, <1>18 DEF Exit, Does, schedVars, watchVars, coVars, queueVars, envVars,
       LockStill, QueuedSame, Clean, Running, RunsAlone
  <2> QED
    BY <2>1 DEF LockStep
<1>19. ASSUME NEW c \in Cos, Wakeup(c) PROVE LockStep
  <2>1. LockStill
    BY <1>a, <1>b, <1>19 DEF Wakeup, Does, Woken, Stays, reqVars, coVars, queueVars,
       ansVars, envVars, LockStill, QueuedSame, Clean, Running, RunsAlone
  <2> QED
    BY <2>1 DEF LockStep
<1>20. ASSUME NEW r \in unresponse, Respond(r) PROVE LockStep
  <2>1. LockStill
    BY <1>a, <1>b, <1>20 DEF Respond, Does, Release, ansVars, Reply, Refuse, Stays, coVars,
       queueVars, envVars, LockStill, QueuedSame, Clean, Running, RunsAlone
  <2> QED
    BY <2>1 DEF LockStep
<1>21. CASE Leave
  <2>1. GiveUp(1) /\ depth[cur] \in Nat /\ depth[cur] > 0
    BY <1>0, <1>21 DEF Leave, OtherTypes
  <2>2. LetsGo
    <3>1. 1 \in Nat /\ 1 > 0 /\ 1 <= depth[cur]
      BY <2>1
    <3> QED
      BY <1>0, <2>1, <3>1, GivesUp
  <2>3. LockLeft
    BY <1>21, <2>2 DEF Leave, Stays, coVars, LockLeft, QueuedSame, Clean
  <2> QED
    BY <2>3 DEF LockStep
<1>22. CASE CoExit
  <2>1. LockStill
    BY <1>a, <1>b, <1>22 DEF CoExit, Release, Suspended, schedVars, queueVars, envVars,
       LockStill, QueuedSame, Clean, Running, RunsAlone
  <2> QED
    BY <2>1 DEF LockStep
<1>23. ASSUME NEW p \in Peers, Die(p) PROVE LockStep
  <2>1. LockStill
    BY <1>a, <1>b, <1>23 DEF Die, Sends, Forget, EnvStep, schedVars, watchVars, reqVars,
       coVars, queueVars, ansVars, LockStill, QueuedSame, Clean, Running, RunsAlone
  <2> QED
    BY <2>1 DEF LockStep
<1>24. ASSUME NEW p \in Peers, NEW b \in BOOLEAN, Ask(p, b) PROVE LockStep
  <2>1. LockStill
    BY <1>a, <1>b, <1>24 DEF Ask, Sends, EnvStep, schedVars, watchVars, reqVars, coVars,
       queueVars, ansVars, LockStill, QueuedSame, Clean, Running, RunsAlone
  <2> QED
    BY <2>1 DEF LockStep
<1>25. ASSUME NEW s \in Sessions, Answer(s) PROVE LockStep
  <2>1. LockStill
    BY <1>a, <1>b, <1>25 DEF Answer, Sends, Forget, EnvStep, schedVars, watchVars, reqVars,
       coVars, queueVars, ansVars, LockStill, QueuedSame, Clean, Running, RunsAlone
  <2> QED
    BY <2>1 DEF LockStep
<1> QED
  BY <1>1, <1>2, <1>3, <1>4, <1>5, <1>6, <1>7, <1>8, <1>9, <1>10, <1>11, <1>12, <1>13,
     <1>14, <1>15, <1>16, <1>17, <1>18, <1>19, <1>20, <1>21, <1>22, <1>23, <1>24, <1>25
     DEF Next, Dispatcher, Chooses, Ends, Peer

LockTypes ==
  /\ wakeup_session \subseteq Cos /\ thread_queue \in Seq(Cos)
  /\ current_thread \in Cos \cup {None} /\ ref \in Nat /\ depth \in [Cos -> Nat]
  /\ early \in BOOLEAN

\* current_thread, ref and thread_queue keep their types.
LEMMA LockTypesKept ==
  ASSUME LuaConstants, IInv, LockStep
  PROVE  LockTypes'
<1>0. LockTypes /\ cur \in Cos
  BY DEF IInv, SchedulerRight, TypeOK, OtherTypes, LockTypes
<1>1. CASE LockStill
  BY <1>0, <1>1 DEF LockStill, queueVars, LockTypes
<1>2. CASE LockWaited
  <2>1. Append(thread_queue, cur) \in Seq(Cos)
    BY <1>0, AppendSet DEF LockTypes
  <2> QED
    BY <1>0, <1>2, <2>1 DEF LockTypes, LockWaited
<1>3. CASE LockEntered
  BY <1>0, <1>3 DEF LockEntered, LockTypes
<1>4. CASE LockLeft
  <2>1. thread_queue # <<>> => Head(thread_queue) \in Cos /\ Tail(thread_queue) \in Seq(Cos)
    BY <1>0, TailSet DEF LockTypes
  <2> QED
    BY <1>0, <1>4, <2>1 DEF LockTypes, LockLeft, LetsGo, Woken
<1>5. ASSUME NEW c \in Cos, LockPassed(c) PROVE LockTypes'
  BY <1>0, <1>5 DEF LockPassed, LockTypes
<1> QED
  BY <1>1, <1>2, <1>3, <1>4, <1>5 DEF LockStep

\* The parts of LockRight.
Depths == /\ \A c \in Cos : depth[c] = IF c = current_thread THEN ref ELSE 0
          /\ current_thread = None => ref = 0
InQueue == \A c \in ToSet(thread_queue) : co[c] = "queue" /\ c # current_thread
NextWoken == current_thread # None /\ ref = 0 =>
                current_thread \in wakeup_session /\ co[current_thread] = "queue"
Turns == \A c \in wakeup_session : co[c] = "queue" => current_thread = c /\ ref = 0
\* LockRight in parts.
LEMMA LockParts ==
  LockRight <=> /\ Depths /\ (~early => Distinct(thread_queue) /\ InQueue /\ NextWoken)
                /\ (raised = 0 => ~stale /\ ~early /\ Turns)
BY DEF LockRight, Depths, InQueue, NextWoken, Turns

\* ref counts what the coroutine that has the lock has entered.
LEMMA DepthsKept ==
  ASSUME LuaConstants, IInv, LockStep
  PROVE  Depths'
<1>0. /\ LockTypes /\ cur \in Cos /\ LockRight /\ Sleepers /\ RunsAlone /\ None \notin Cos
      /\ co \in [Cos -> Waiting \cup {"pool", "run", "fork", "dead", "lost"}] /\ raised \in Nat
  BY CoKnown, Names DEF IInv, SchedulerRight, TypeOK, OtherTypes, LockTypes, CoFacts,
     CoTypes, StateTypes
<1>a. Depths
  BY <1>0, LockParts
<1>1. CASE LockStill
  BY <1>0, <1>a, <1>1 DEF LockStill, queueVars, Depths, LockTypes
<1>2. CASE LockWaited
  BY <1>0, <1>a, <1>2 DEF LockWaited, Depths, LockTypes
<1>3. CASE LockEntered
  BY <1>0, <1>a, <1>3 DEF LockEntered, Depths, LockTypes
<1>4. CASE LockLeft
  <2>1. thread_queue # <<>> => Head(thread_queue) \in Cos
    BY <1>0, TailSet DEF LockTypes
  <2> QED
    BY <1>0, <1>a, <1>4, <2>1 DEF Depths, LockLeft, LetsGo, LockTypes
<1>5. ASSUME NEW c \in Cos, LockPassed(c) PROVE Depths'
  BY <1>0, <1>a, <1>5 DEF LockPassed, Depths, LockTypes
<1> QED
  BY <1>1, <1>2, <1>3, <1>4, <1>5 DEF LockStep

\* The queue of the lock names those that wait for it, and the next owner is woken.
LEMMA QueueKept ==
  ASSUME LuaConstants, IInv, LockStep
  PROVE  ~early' => Distinct(thread_queue') /\ InQueue' /\ NextWoken'
<1>0. /\ LockTypes /\ cur \in Cos /\ LockRight /\ Sleepers /\ RunsAlone /\ None \notin Cos
      /\ co \in [Cos -> Waiting \cup {"pool", "run", "fork", "dead", "lost"}] /\ raised \in Nat
  BY CoKnown, Names DEF IInv, SchedulerRight, TypeOK, OtherTypes, LockTypes, CoFacts,
     CoTypes, StateTypes
<1>a. /\ Depths /\ (~early => Distinct(thread_queue) /\ InQueue /\ NextWoken)
      /\ (raised = 0 => ~stale /\ ~early /\ Turns)
  BY <1>0, LockParts
<1>b. ToSet(thread_queue) \subseteq Cos
  BY <1>0, LenProperties, ElementOfSeq DEF LockTypes, ToSet
<1>1. CASE LockStill
  <2>1. UNCHANGED <<current_thread, ref, thread_queue, early>> /\ QueuedSame
    BY <1>1 DEF LockStill, queueVars
  <2>2. ~early' => InQueue'
    BY <1>a, <1>b, <2>1 DEF InQueue, QueuedSame
  <2>3. ~early' => NextWoken'
    BY <1>0, <1>a, <1>1, <2>1 DEF NextWoken, QueuedSame, LockStill, LockTypes
  <2> QED
    BY <1>a, <2>1, <2>2, <2>3
<1>2. CASE LockWaited
  <2>1. /\ Append(thread_queue, cur) \in Seq(Cos)
        /\ \A x : x \in ToSet(Append(thread_queue, cur)) <=> x \in ToSet(thread_queue) \/ x = cur
    BY <1>0, AppendSet DEF LockTypes
  <2>2. ~early => cur \notin ToSet(thread_queue)
    BY <1>0, <1>a, <1>2 DEF InQueue, LockWaited
  <2>3. ~early => Distinct(Append(thread_queue, cur))
    BY <1>0, <1>a, <2>2, StaysDistinct DEF LockTypes
  <2>4. ~early' => InQueue' /\ NextWoken'
    BY <1>0, <1>a, <1>b, <1>2, <2>1 DEF InQueue, NextWoken, LockWaited, LockTypes
  <2> QED
    BY <1>2, <2>3, <2>4 DEF LockWaited
<1>3. CASE LockEntered
  <2>1. ref' # 0
    BY <1>0, <1>3 DEF LockEntered, LockTypes
  <2>2. ~early => cur \notin ToSet(thread_queue)
    BY <1>a, <1>3 DEF InQueue, LockEntered
  <2>3. ~early' => InQueue' /\ NextWoken'
    BY <1>0, <1>a, <1>b, <1>3, <2>1, <2>2 DEF InQueue, NextWoken, LockEntered
  <2> QED
    BY <1>a, <1>3, <2>3 DEF LockEntered
<1>4. CASE LockLeft
  <2>1. CASE thread_queue # <<>> /\ ref' = 0
    <3>1. /\ Head(thread_queue) \in Cos
          /\ \A x : x \in ToSet(thread_queue) <=> x = Head(thread_queue) \/ x \in ToSet(Tail(thread_queue))
      BY <1>0, <2>1, TailSet DEF LockTypes
    <3>2. ~early => Distinct(Tail(thread_queue)) /\ Head(thread_queue) \notin ToSet(Tail(thread_queue))
      BY <1>0, <1>a, <2>1, StaysDistinct DEF LockTypes
    <3>3. /\ current_thread' = Head(thread_queue) /\ thread_queue' = Tail(thread_queue)
          /\ wakeup_session' = Woken(Head(thread_queue)) /\ UNCHANGED early /\ QueuedSame
      BY <1>4, <2>1 DEF LockLeft, LetsGo
    <3>4. ~early => co[Head(thread_queue)] = "queue" /\ Head(thread_queue) \in wakeup_session'
      BY <1>0, <1>a, <3>1, <3>3, Names DEF InQueue, Woken, Sleepers, RunsAlone, Waiting
    <3>5. ~early' => NextWoken'
      BY <3>1, <3>3, <3>4 DEF NextWoken, QueuedSame
    <3>6. ~early' => InQueue'
      BY <1>a, <1>b, <3>1, <3>2, <3>3 DEF InQueue, QueuedSame
    <3> QED
      BY <3>2, <3>3, <3>5, <3>6
  <2>2. CASE ~(thread_queue # <<>> /\ ref' = 0)
    <3>1. UNCHANGED <<thread_queue, early>> /\ QueuedSame
      BY <1>4, <2>2 DEF LockLeft, LetsGo
    <3>2. current_thread' \in {None, current_thread}
      BY <1>4, <2>2 DEF LockLeft, LetsGo
    <3>3. ~early' => NextWoken'
      BY <1>4, <2>2 DEF LockLeft, LetsGo, NextWoken
    <3>4. ~early' => InQueue'
      BY <1>0, <1>a, <1>b, <3>1, <3>2 DEF InQueue, QueuedSame
    <3> QED
      BY <1>a, <3>1, <3>3, <3>4
  <2> QED
    BY <2>1, <2>2
<1>5. ASSUME NEW c \in Cos, LockPassed(c)
      PROVE ~early' => Distinct(thread_queue') /\ InQueue' /\ NextWoken'
  <2>1. ~early' => ~early /\ ref = 0 /\ current_thread = c
    BY <1>5 DEF LockPassed
  <2>2. ~early' => InQueue'
    BY <1>0, <1>a, <1>b, <1>5, <2>1 DEF InQueue, LockPassed
  <2>3. ~early' => NextWoken'
    BY <1>5, <2>1 DEF NextWoken, LockPassed
  <2> QED
    BY <1>a, <1>5, <2>1, <2>2, <2>3 DEF LockPassed
<1> QED
  BY <1>1, <1>2, <1>3, <1>4, <1>5 DEF LockStep

\* Without an uncaught error nobody gets the lock before its turn.
LEMMA TurnsKept ==
  ASSUME LuaConstants, IInv, LockStep
  PROVE  raised' = 0 => ~stale' /\ ~early' /\ Turns'
<1>0. /\ LockTypes /\ cur \in Cos /\ LockRight /\ Sleepers /\ RunsAlone /\ None \notin Cos
      /\ co \in [Cos -> Waiting \cup {"pool", "run", "fork", "dead", "lost"}] /\ raised \in Nat
  BY CoKnown, Names DEF IInv, SchedulerRight, TypeOK, OtherTypes, LockTypes, CoFacts,
     CoTypes, StateTypes
<1>a. Depths /\ (raised = 0 => ~stale /\ ~early /\ Turns /\ InQueue)
  BY <1>0, LockParts
<1>1. CASE LockStill
  <2>1. UNCHANGED <<current_thread, ref, early>> /\ QueuedSame /\ Clean
    BY <1>1 DEF LockStill, queueVars
  <2>2. raised' = 0 => Turns'
    BY <1>0, <1>a, <1>1, <2>1 DEF Turns, QueuedSame, LockStill, LockTypes, Clean
  <2> QED
    BY <1>a, <2>1, <2>2 DEF Clean
<1>2. CASE LockWaited
  BY <1>0, <1>a, <1>2 DEF LockWaited, LockTypes, Turns
<1>3. CASE LockEntered
  BY <1>0, <1>a, <1>3 DEF LockEntered, LockTypes, Turns
<1>4. CASE LockLeft
  <2>1. UNCHANGED early /\ QueuedSame /\ Clean /\ ref > 0
    BY <1>4 DEF LockLeft, LetsGo
  <2>2. raised = 0 => \A d \in wakeup_session : co[d] # "queue"
    BY <1>a, <2>1 DEF Turns
  <2>3. raised' = 0 => Turns'
    <3>1. CASE thread_queue # <<>> /\ ref' = 0
      <4>1. current_thread' = Head(thread_queue) /\ wakeup_session' = Woken(Head(thread_queue))
        BY <1>4, <3>1 DEF LockLeft, LetsGo
      <4>2. wakeup_session' \subseteq wakeup_session \cup {Head(thread_queue)}
        BY <4>1 DEF Woken
      <4> QED
        BY <1>0, <2>1, <2>2, <3>1, <4>1, <4>2 DEF Turns, QueuedSame, Clean, LockTypes
    <3>2. CASE ~(thread_queue # <<>> /\ ref' = 0)
      <4>1. UNCHANGED wakeup_session
        BY <1>4, <3>2 DEF LockLeft, LetsGo
      <4> QED
        BY <1>0, <2>1, <2>2, <4>1 DEF Turns, QueuedSame, Clean, LockTypes
    <3> QED
      BY <3>1, <3>2
  <2> QED
    BY <1>a, <2>1, <2>3 DEF Clean
<1>5. ASSUME NEW c \in Cos, LockPassed(c) PROVE raised' = 0 => ~stale' /\ ~early' /\ Turns'
  BY <1>0, <1>a, <1>5 DEF LockPassed, LockTypes, Turns
<1> QED
  BY <1>1, <1>2, <1>3, <1>4, <1>5 DEF LockStep

-----------------------------------------------------------------------------
(* What suspend has still to do.                                          *)

\* A sequence of the elements of a set, as pairs gives them.
LEMMA SetSeq ==
  ASSUME NEW T, IsFiniteSet(T), NEW l \in SetToSeqs(T)
  PROVE  l \in Seq(T) /\ Distinct(l) /\ ToSet(l) \subseteq T
<1> PICK n : n = Cardinality(T)
  OBVIOUS
<1>1. n \in Nat
  BY FS_CardinalityType
<1>2. l \in [1..n -> T] /\ \A i, j \in 1..n : i # j => l[i] # l[j]
  BY DEF SetToSeqs
<1>3. l \in Seq(T) /\ DOMAIN l = 1..n
  BY <1>1, <1>2, SeqDef
<1>4. Len(l) = n
  BY <1>1, <1>3, LenProperties
<1> QED
  BY <1>2, <1>3, <1>4 DEF Distinct, ToSet

\* Who waits goes on waiting, unless it is resumed.
WaitsKept == /\ \A d \in Cos : sleep_session[d] # None => sleep_session'[d] # None
             /\ \A x : Calls(x) => Calls(x)'

\* A step resumes one coroutine or keeps all that wait.
LEMMA WaitKept ==
  ASSUME LuaConstants, IInv, CoStep
  PROVE  (\E d \in Cos, w \in {None, Break} : Resumed(d, w)) \/ WaitsKept
<1>0. CoFacts
  BY CoKnown
<1> USE <1>0 DEF CoFacts, CoNumbers
<1>1. CASE Still
  BY <1>1 DEF Still, KeepsCo, StateTypes, TableTypes, RunsAlone, Sleepers, Calls, Waiting,
     WaitsKept, Running
<1>2. CASE Outside
  BY <1>2 DEF Outside, KeepsCo, StateTypes, TableTypes, RunsAlone, Sleepers, Calls, Waiting,
     WaitsKept, Running
<1>3. ASSUME NEW c \in Cos, NEW v \in {None, Break}, Resumed(c, v)
      PROVE (\E d \in Cos, w \in {None, Break} : Resumed(d, w)) \/ WaitsKept
  BY <1>3
<1>4. ASSUME NEW s \in Sessions, Unmarked(s)
      PROVE (\E d \in Cos, w \in {None, Break} : Resumed(d, w)) \/ WaitsKept
  BY <1>4 DEF Unmarked, StateTypes, TableTypes, RunsAlone, Sleepers, Calls, Waiting,
     WaitsKept, Running
<1>5. ASSUME NEW c \in Cos, Started(c)
      PROVE (\E d \in Cos, w \in {None, Break} : Resumed(d, w)) \/ WaitsKept
  BY <1>5 DEF Started, KeepsWaits, StateTypes, TableTypes, RunsAlone, Sleepers, Calls,
     Waiting, WaitsKept, Running
<1>6. ASSUME NEW c \in Cos, Forked(c)
      PROVE (\E d \in Cos, w \in {None, Break} : Resumed(d, w)) \/ WaitsKept
  BY <1>6 DEF Forked, KeepsWaits, StateTypes, TableTypes, RunsAlone, Sleepers, Calls,
     Waiting, WaitsKept, Running
<1>7. ASSUME NEW c \in Cos, TimerSet(c)
      PROVE (\E d \in Cos, w \in {None, Break} : Resumed(d, w)) \/ WaitsKept
  BY <1>7 DEF TimerSet, Begins, StateTypes, TableTypes, RunsAlone, Sleepers, Calls, Waiting,
     WaitsKept, Running
<1>8. ASSUME NEW x \in {"pool", "lost", "dead"}, Finished(x)
      PROVE (\E d \in Cos, w \in {None, Break} : Resumed(d, w)) \/ WaitsKept
  BY <1>8 DEF Finished, KeepsWaits, StateTypes, TableTypes, RunsAlone, Sleepers, Calls,
     Waiting, WaitsKept, Running
<1>9. ASSUME NEW kind \in {"call", "sleep", "wait", "queue"}, Yielded(kind)
      PROVE (\E d \in Cos, w \in {None, Break} : Resumed(d, w)) \/ WaitsKept
  BY <1>9 DEF Yielded, Begins, StateTypes, TableTypes, RunsAlone, Sleepers, Calls, Waiting,
     WaitsKept, Running
<1> QED
  BY <1>1, <1>2, <1>3, <1>4, <1>5, <1>6, <1>7, <1>8, <1>9 DEF CoStep

\* A session that waits for a call goes on doing so until it is answered.
LEMMA SessionKept ==
  ASSUME LuaConstants, IInv, CoStep
  PROVE  \A n \in 1..sid : (session_id_coroutine[n] # None => Calls(n)) =>
                            (session_id_coroutine'[n] # None => Calls(n)')
<1>0. CoFacts
  BY CoKnown
<1> USE <1>0 DEF CoFacts, CoNumbers
<1>1. CASE Still
  BY <1>1 DEF Still, KeepsCo, StateTypes, TableTypes, RunsAlone, Places, Calls, Waiting,
     Running
<1>2. CASE Outside
  BY <1>2 DEF Outside, KeepsCo, StateTypes, TableTypes, RunsAlone, Places, Calls, Waiting,
     Running
<1>3. ASSUME NEW c \in Cos, NEW v \in {None, Break}, Resumed(c, v)
      PROVE \A n \in 1..sid : (session_id_coroutine[n] # None => Calls(n)) =>
                            (session_id_coroutine'[n] # None => Calls(n)')
  BY <1>3 DEF Resumed, StateTypes, TableTypes, RunsAlone, Places, Calls, Waiting, Running
<1>4. ASSUME NEW s \in Sessions, Unmarked(s)
      PROVE \A n \in 1..sid : (session_id_coroutine[n] # None => Calls(n)) =>
                            (session_id_coroutine'[n] # None => Calls(n)')
  BY <1>4 DEF Unmarked, StateTypes, TableTypes, RunsAlone, Places, Calls, Waiting, Running
<1>5. ASSUME NEW c \in Cos, Started(c)
      PROVE \A n \in 1..sid : (session_id_coroutine[n] # None => Calls(n)) =>
                            (session_id_coroutine'[n] # None => Calls(n)')
  BY <1>5 DEF Started, KeepsWaits, StateTypes, TableTypes, RunsAlone, Places, Calls,
     Waiting, Running
<1>6. ASSUME NEW c \in Cos, Forked(c)
      PROVE \A n \in 1..sid : (session_id_coroutine[n] # None => Calls(n)) =>
                            (session_id_coroutine'[n] # None => Calls(n)')
  BY <1>6 DEF Forked, KeepsWaits, StateTypes, TableTypes, RunsAlone, Places, Calls, Waiting,
     Running
<1>7. ASSUME NEW c \in Cos, TimerSet(c)
      PROVE \A n \in 1..sid : (session_id_coroutine[n] # None => Calls(n)) =>
                            (session_id_coroutine'[n] # None => Calls(n)')
  BY <1>7 DEF TimerSet, Begins, StateTypes, TableTypes, RunsAlone, Places, Calls, Waiting,
     Running
<1>8. ASSUME NEW x \in {"pool", "lost", "dead"}, Finished(x)
      PROVE \A n \in 1..sid : (session_id_coroutine[n] # None => Calls(n)) =>
                            (session_id_coroutine'[n] # None => Calls(n)')
  BY <1>8 DEF Finished, KeepsWaits, StateTypes, TableTypes, RunsAlone, Places, Calls,
     Waiting, Running
<1>9. ASSUME NEW kind \in {"call", "sleep", "wait", "queue"}, Yielded(kind)
      PROVE \A n \in 1..sid : (session_id_coroutine[n] # None => Calls(n)) =>
                            (session_id_coroutine'[n] # None => Calls(n)')
  BY <1>9 DEF Yielded, Begins, StateTypes, TableTypes, RunsAlone, Places, Calls, Waiting,
     Running
<1> QED
  BY <1>1, <1>2, <1>3, <1>4, <1>5, <1>6, <1>7, <1>8, <1>9 DEF CoStep

\* The ways in which one step changes the queue of errors.
LEMMA Watched ==
  ASSUME LuaConstants, IInv, NEW p \in Peers, NEW s \in Sessions \cup {0}, DispatchError(p, s)
  PROVE  \E l \in Seq(Sessions) :
           /\ error_queue' = error_queue \o l /\ Distinct(l)
           /\ \A x \in ToSet(l) : watching_session[x] # "none"
<1>0. error_queue \in Seq(Sessions) /\ MaxSession \in Nat
  BY DEF IInv, OtherTypes, LuaConstants
<1>1. CASE s = 0
  <2> PICK T : T = {x \in Sessions : watching_session[x] = p}
    OBVIOUS
  <2>1. PICK l \in SetToSeqs(T) : error_queue' = error_queue \o l
    BY <1>1 DEF DispatchError
  <2>2. IsFiniteSet(Sessions)
    BY <1>0, FS_Interval DEF Sessions
  <2>3. IsFiniteSet(T) /\ T \subseteq Sessions
    BY <2>2, FS_Subset
  <2>4. l \in Seq(T) /\ Distinct(l) /\ ToSet(l) \subseteq T
    BY <2>3, SetSeq
  <2>5. l \in Seq(Sessions)
    BY <2>3, <2>4
  <2>6. \A x \in ToSet(l) : watching_session[x] # "none"
    BY <2>4, Names
  <2> QED
    BY <2>1, <2>4, <2>5, <2>6
<1>2. CASE s # 0 /\ watching_session[s] # "none"
  <2>1. error_queue' = Append(error_queue, s) /\ s \in Sessions
    BY <1>2 DEF DispatchError
  <2>2. <<s>> \in Seq(Sessions) /\ Distinct(<<s>>) /\ ToSet(<<s>>) = {s}
    BY <2>1 DEF Distinct, ToSet
  <2>3. error_queue' = error_queue \o <<s>>
    BY <1>0, <2>1
  <2> QED
    BY <1>2, <2>2, <2>3
<1>3. CASE s # 0 /\ watching_session[s] = "none"
  <2>1. error_queue' = error_queue
    BY <1>3 DEF DispatchError
  <2>2. <<>> \in Seq(Sessions) /\ Distinct(<<>>) /\ ToSet(<<>>) = {}
    BY DEF Distinct, ToSet
  <2>3. error_queue' = error_queue \o <<>>
    BY <1>0, <2>1, ConcatEmptySeq
  <2> QED
    BY <2>2, <2>3
<1> QED
  BY <1>1, <1>2, <1>3

QueueStep ==
  \/ UNCHANGED error_queue
  \/ \E l \in Seq(Sessions) :
        /\ mode = "idle" /\ mode' = "wake" /\ error_queue' = error_queue \o l /\ Distinct(l)
        /\ \A x \in ToSet(l) : watching_session[x] # "none"
        /\ KeepsCo
  \/ mode = "error" /\ error_queue # <<>> /\ error_queue' = Tail(error_queue)

\* Every step changes error_queue in one of four ways.
LEMMA QueueSteps ==
  ASSUME LuaConstants, IInv, Next
  PROVE  QueueStep
<1>0. /\ CoFacts /\ TypeOK /\ OtherTypes /\ SuspendRight /\ CoStep
      /\ error_queue \in Seq(Sessions)
      /\ WatchCalls /\ QueueCalls
  BY CoKnown, CoSteps, SessionParts DEF IInv, SchedulerRight, CoFacts, OtherTypes
<1>a. StateTypes /\ TableTypes /\ RunsAlone /\ Places /\ Sleepers
  BY <1>0 DEF CoFacts, CoTypes
<1>1. ASSUME NEW s \in Sessions, DispatchResponse(s) PROVE QueueStep
  BY <1>0, <1>1 DEF DispatchResponse, Take, Resume, TakesLock, Cleared, coVars, queueVars,
     reqVars, envVars, ansVars, Runs, QueueStep
<1>2. ASSUME NEW r \in 1..MaxReq, DispatchRequest(r) PROVE QueueStep
  BY <1>0, <1>2 DEF DispatchRequest, Take, Free, Runs, schedVars, queueVars, envVars,
     ansVars, QueueStep
<1>3. ASSUME NEW p \in Peers, NEW s \in Sessions \cup {0}, DispatchError(p, s) PROVE QueueStep
  BY <1>3, Watched DEF DispatchError, Take, Suspended, NoResume, coVars, schedVars,
     QueueStep, KeepsCo
<1>4. CASE DispatchWakeup
  BY <1>0, <1>4 DEF DispatchWakeup, NoResume, Resume, TakesLock, Cleared, coVars, queueVars,
     reqVars, envVars, ansVars, schedVars, Runs, QueueStep
<1>5. CASE DispatchErrorQueue
  BY <1>0, <1>5 DEF DispatchErrorQueue, NoResume, Resume, TakesLock, Cleared, reqVars,
     envVars, ansVars, schedVars, coVars, queueVars, Runs, QueueStep
<1>6. CASE DispatchFork
  BY <1>0, <1>6 DEF DispatchFork, coVars, Runs, schedVars, watchVars, reqVars, queueVars,
     envVars, ansVars, QueueStep
<1>7. CASE AssertFails
  BY <1>0, <1>7 DEF AssertFails, Uncaught, queueVars, ansVars, watchVars, envVars, QueueStep
<1>8. ASSUME NEW p \in Peers, Call(p) PROVE QueueStep
  BY <1>0, <1>8 DEF Call, Does, Yields, Watches, Asks, queueVars, Suspended, reqVars,
     envVars, ansVars, QueueStep
<1>9. CASE Sleep
  BY <1>0, <1>9 DEF Sleep, Does, Yields, Asks, queueVars, Suspended, reqVars, envVars,
     ansVars, QueueStep
<1>10. CASE Wait
  BY <1>0, <1>10 DEF Wait, Does, Yields, queueVars, Suspended, reqVars, envVars, ansVars,
     QueueStep
<1>11. CASE Timeout
  BY <1>0, <1>11 DEF Timeout, Does, Free, Asks, watchVars, reqVars, queueVars, envVars,
     ansVars, QueueStep
<1>12. CASE Fork
  BY <1>0, <1>12 DEF Fork, Does, Free, Stays, reqVars, queueVars, ansVars, envVars,
     QueueStep
<1>13. CASE Ret
  BY <1>0, <1>13 DEF Ret, Does, Second, ansVars, Reply, Stays, coVars, queueVars, envVars,
     QueueStep
<1>14. CASE AnswerTwice
  BY <1>0, <1>14 DEF AnswerTwice, Does, Second, schedVars, watchVars, reqVars, queueVars,
     envVars, ansVars, QueueStep
<1>15. CASE Response
  BY <1>0, <1>15 DEF Response, Does, Second, Stays, coVars, queueVars, ansVars, envVars,
     QueueStep
<1>16. CASE Enter
  BY <1>0, <1>16 DEF Enter, Does, Yields, Stays, reqVars, coVars, ansVars, Suspended,
     envVars, QueueStep
<1>17. CASE Raise
  BY <1>0, <1>17 DEF Raise, Uncaught, queueVars, ansVars, watchVars, envVars, QueueStep
<1>18. CASE Exit
  BY <1>0, <1>18 DEF Exit, Does, schedVars, watchVars, coVars, queueVars, envVars, QueueStep
<1>19. ASSUME NEW c \in Cos, Wakeup(c) PROVE QueueStep
  BY <1>0, <1>19 DEF Wakeup, Does, Woken, Stays, reqVars, coVars, queueVars, ansVars,
     envVars, QueueStep
<1>20. ASSUME NEW r \in unresponse, Respond(r) PROVE QueueStep
  BY <1>0, <1>20 DEF Respond, Does, Release, ansVars, Reply, Stays, coVars, queueVars,
     envVars, QueueStep
<1>21. CASE Leave
  BY <1>0, <1>21 DEF Leave, Stays, reqVars, coVars, ansVars, envVars, QueueStep
<1>22. CASE CoExit
  BY <1>0, <1>22 DEF CoExit, Release, Suspended, schedVars, queueVars, envVars, QueueStep
<1>23. ASSUME NEW p \in Peers, Die(p) PROVE QueueStep
  BY <1>0, <1>23 DEF Die, Sends, Forget, EnvStep, schedVars, watchVars, reqVars, coVars,
     queueVars, ansVars, QueueStep
<1>24. ASSUME NEW p \in Peers, NEW b \in BOOLEAN, Ask(p, b) PROVE QueueStep
  BY <1>0, <1>24 DEF Ask, Sends, EnvStep, schedVars, watchVars, reqVars, coVars, queueVars,
     ansVars, QueueStep
<1>25. ASSUME NEW s \in Sessions, Answer(s) PROVE QueueStep
  BY <1>0, <1>25 DEF Answer, Sends, Forget, EnvStep, schedVars, watchVars, reqVars, coVars,
     queueVars, ansVars, QueueStep
<1> QED
  BY <1>1, <1>2, <1>3, <1>4, <1>5, <1>6, <1>7, <1>8, <1>9, <1>10, <1>11, <1>12, <1>13,
     <1>14, <1>15, <1>16, <1>17, <1>18, <1>19, <1>20, <1>21, <1>22, <1>23, <1>24, <1>25
     DEF Next, Dispatcher, Chooses, Ends, Peer

\* The sessions in error_queue were given out.
LEMMA QueueCallsKept ==
  ASSUME LuaConstants, IInv, Next
  PROVE  error_queue' \in Seq(Sessions) /\ QueueCalls'
<1>0. /\ CoFacts /\ TypeOK /\ OtherTypes /\ SuspendRight /\ CoStep
      /\ error_queue \in Seq(Sessions)
      /\ WatchCalls /\ QueueCalls
  BY CoKnown, CoSteps, SessionParts DEF IInv, SchedulerRight, CoFacts, OtherTypes
<1>a. StateTypes /\ TableTypes /\ RunsAlone /\ Places /\ Sleepers
  BY <1>0 DEF CoFacts, CoTypes
<1>b. QueueStep /\ sid \in 0..MaxSession
  BY <1>a, QueueSteps DEF StateTypes
<1>1. sid' \in Nat /\ sid <= sid'
  <2>1. sid' = sid \/ sid' = sid + 1
    BY <1>0 DEF CoStep, Still, Outside, KeepsCo, KeepsWaits, Resumed, Unmarked, Started,
       Forked, TimerSet, Begins, Finished, Yielded
  <2> QED
    BY <1>b, <2>1
<1>2. ASSUME NEW s \in Sessions, s \in ToSet(error_queue)
      PROVE  s <= sid' /\ (session_id_coroutine'[s] # None => Calls(s)')
  <2>1. s \in 1..sid /\ (session_id_coroutine[s] # None => Calls(s))
    BY <1>0, <1>2, <1>b DEF QueueCalls, Sessions
  <2>2. session_id_coroutine'[s] # None => Calls(s)'
    BY <1>0, <2>1, SessionKept
  <2>3. s <= sid'
    BY <1>1, <1>b, <2>1
  <2> QED
    BY <2>2, <2>3
<1>3. ToSet(error_queue) \subseteq Sessions
  BY <1>0, LenProperties, ElementOfSeq DEF ToSet
<1>4. CASE UNCHANGED error_queue
  BY <1>0, <1>2, <1>3, <1>4 DEF QueueCalls
<1>5. ASSUME NEW l \in Seq(Sessions), error_queue' = error_queue \o l,
             \A x \in ToSet(l) : watching_session[x] # "none", KeepsCo
      PROVE  error_queue' \in Seq(Sessions) /\ QueueCalls'
  <2>1. /\ error_queue' \in Seq(Sessions)
        /\ \A x : x \in ToSet(error_queue') <=> x \in ToSet(error_queue) \/ x \in ToSet(l)
    BY <1>0, <1>5, ConcatSet
  <2>2. ToSet(l) \subseteq Sessions
    BY LenProperties, ElementOfSeq DEF ToSet
  <2>3. \A x \in ToSet(l) : Calls(x)
    BY <1>0, <1>5, <2>2 DEF WatchCalls
  <2>4. \A x \in ToSet(l) : Calls(x)' /\ x <= sid'
    BY <1>5, <1>a, <1>b, <2>3 DEF Calls, RunsAlone, Waiting, KeepsCo
  <2> QED
    BY <1>2, <1>3, <2>1, <2>4 DEF QueueCalls
<1>6. CASE error_queue # <<>> /\ error_queue' = Tail(error_queue)
  <2>1. /\ error_queue' \in Seq(Sessions)
        /\ \A x \in ToSet(error_queue') : x \in ToSet(error_queue)
    BY <1>0, <1>6, TailSet
  <2> QED
    BY <1>2, <1>3, <2>1 DEF QueueCalls
<1> QED
  BY <1>b, <1>4, <1>5, <1>6 DEF QueueStep

\* The parts of SuspendRight.
NothingStays == mode \in {"idle", "fork"} => error_queue = <<>> /\ wakeup_session = {}
WokenFirst   == mode = "error" => wakeup_session = {}
WokenSleep   == \A c \in wakeup_session : sleep_session[c] # None
ErrorCalls   == Distinct(error_queue) /\ \A s \in ToSet(error_queue) : Calls(s)

\* What an uncaught error left in the queues is gone when they are empty.
LEMMA CleanLeft ==
  ASSUME LuaConstants, IInv, Next
  PROVE  ~stale' => ~stale \/ (error_queue = <<>> /\ wakeup_session = {})
<1>0. IInv
  OBVIOUS
<1>1. ASSUME NEW s \in Sessions, DispatchResponse(s)
      PROVE ~stale' => ~stale \/ (error_queue = <<>> /\ wakeup_session = {})
  BY <1>1 DEF DispatchResponse, Take, coVars, queueVars, reqVars, envVars, ansVars
<1>2. ASSUME NEW r \in 1..MaxReq, DispatchRequest(r)
      PROVE ~stale' => ~stale \/ (error_queue = <<>> /\ wakeup_session = {})
  BY <1>2 DEF DispatchRequest, Take, Free, schedVars, queueVars, envVars, ansVars
<1>3. ASSUME NEW p \in Peers, NEW s \in Sessions \cup {0}, DispatchError(p, s)
      PROVE ~stale' => ~stale \/ (error_queue = <<>> /\ wakeup_session = {})
  BY <1>3 DEF DispatchError, Take, Dead, Suspended, reqVars, envVars, ansVars
<1>4. CASE DispatchWakeup
  BY <1>4 DEF DispatchWakeup, coVars, queueVars, reqVars, envVars, ansVars
<1>5. CASE DispatchErrorQueue
  BY <1>5 DEF DispatchErrorQueue, reqVars, envVars, ansVars
<1>6. CASE DispatchFork
  BY <1>6 DEF DispatchFork, coVars, schedVars, watchVars, reqVars, queueVars, envVars,
     ansVars
<1>7. CASE AssertFails
  BY <1>7 DEF AssertFails, Uncaught, queueVars, ansVars, watchVars, envVars
<1>8. ASSUME NEW p \in Peers, Call(p)
      PROVE ~stale' => ~stale \/ (error_queue = <<>> /\ wakeup_session = {})
  BY <1>8 DEF Call, Does, Yields, Watches, Asks, queueVars, Suspended, reqVars, envVars,
     ansVars
<1>9. CASE Sleep
  BY <1>9 DEF Sleep, Does, Yields, Asks, queueVars, Suspended, reqVars, envVars, ansVars
<1>10. CASE Wait
  BY <1>10 DEF Wait, Does, Yields, queueVars, Suspended, reqVars, envVars, ansVars
<1>11. CASE Timeout
  BY <1>11 DEF Timeout, Does, Free, Asks, watchVars, reqVars, queueVars, envVars, ansVars
<1>12. CASE Fork
  BY <1>12 DEF Fork, Does, Free, Stays, reqVars, queueVars, ansVars, envVars
<1>13. CASE Ret
  BY <1>13 DEF Ret, Does, Second, ansVars, Reply, Stays, coVars, queueVars, envVars
<1>14. CASE AnswerTwice
  BY <1>14 DEF AnswerTwice, Does, Second, schedVars, watchVars, reqVars, queueVars, envVars,
     ansVars
<1>15. CASE Response
  BY <1>15 DEF Response, Does, Second, Stays, coVars, queueVars, ansVars, envVars
<1>16. CASE Enter
  BY <1>16 DEF Enter, Does, Yields, Stays, reqVars, coVars, ansVars, Suspended, envVars
<1>17. CASE Raise
  BY <1>17 DEF Raise, Uncaught, queueVars, ansVars, watchVars, envVars
<1>18. CASE Exit
  BY <1>18 DEF Exit, Does, schedVars, watchVars, coVars, queueVars, envVars
<1>19. ASSUME NEW c \in Cos, Wakeup(c)
      PROVE ~stale' => ~stale \/ (error_queue = <<>> /\ wakeup_session = {})
  BY <1>19 DEF Wakeup, Does, Woken, Stays, reqVars, coVars, queueVars, ansVars, envVars
<1>20. ASSUME NEW r \in unresponse, Respond(r)
      PROVE ~stale' => ~stale \/ (error_queue = <<>> /\ wakeup_session = {})
  BY <1>20 DEF Respond, Does, Release, ansVars, Reply, Stays, coVars, queueVars, envVars
<1>21. CASE Leave
  BY <1>21 DEF Leave, Stays, reqVars, coVars, ansVars, envVars
<1>22. CASE CoExit
  BY <1>22 DEF CoExit, Release, Suspended, schedVars, queueVars, envVars
<1>23. ASSUME NEW p \in Peers, Die(p)
      PROVE ~stale' => ~stale \/ (error_queue = <<>> /\ wakeup_session = {})
  BY <1>23 DEF Die, Sends, Forget, EnvStep, schedVars, watchVars, reqVars, coVars,
     queueVars, ansVars
<1>24. ASSUME NEW p \in Peers, NEW b \in BOOLEAN, Ask(p, b)
      PROVE ~stale' => ~stale \/ (error_queue = <<>> /\ wakeup_session = {})
  BY <1>24 DEF Ask, Sends, EnvStep, schedVars, watchVars, reqVars, coVars, queueVars,
     ansVars
<1>25. ASSUME NEW s \in Sessions, Answer(s)
      PROVE ~stale' => ~stale \/ (error_queue = <<>> /\ wakeup_session = {})
  BY <1>25 DEF Answer, Sends, Forget, EnvStep, schedVars, watchVars, reqVars, coVars,
     queueVars, ansVars
<1> QED
  BY <1>1, <1>2, <1>3, <1>4, <1>5, <1>6, <1>7, <1>8, <1>9, <1>10, <1>11, <1>12, <1>13,
     <1>14, <1>15, <1>16, <1>17, <1>18, <1>19, <1>20, <1>21, <1>22, <1>23, <1>24, <1>25
     DEF Next, Dispatcher, Chooses, Ends, Peer

\* wakeup_session is empty between messages, but for what an error left.
LEMMA NothingStaysKept ==
  ASSUME LuaConstants, IInv, Next
  PROVE  ~stale' => NothingStays' /\ WokenFirst'
<1>0. /\ CoFacts /\ TypeOK /\ OtherTypes /\ CoStep /\ error_queue \in Seq(Sessions)
      /\ WatchCalls /\ SuspendRight
  BY CoKnown, CoSteps, SessionParts DEF IInv, SchedulerRight, CoFacts, OtherTypes
<1>a. /\ StateTypes /\ TableTypes /\ RunsAlone /\ Places /\ Sleepers /\ None \notin Cos
      /\ wakeup_session \subseteq Cos /\ Break \notin Cos /\ None \notin Sessions
  BY <1>0, Names DEF CoFacts, CoTypes, TypeOK
<1>b. /\ ~stale => NothingStays /\ WokenFirst /\ WokenSleep /\ ErrorCalls
      /\ WaitsKept \/ \E d \in Cos, w \in {None, Break} : Resumed(d, w)
  BY <1>0, WaitKept DEF SuspendRight, NothingStays, WokenFirst, WokenSleep, ErrorCalls
<1>c. ~stale' => ~stale \/ (error_queue = <<>> /\ wakeup_session = {})
  BY CleanLeft
<1>d. Distinct(<<>>) /\ ToSet(<<>>) = {}
  BY DEF Distinct, ToSet
<1>1. ASSUME NEW s \in Sessions, DispatchResponse(s)
      PROVE ~stale' => NothingStays' /\ WokenFirst'
  BY <1>a, <1>b, <1>c, <1>1 DEF DispatchResponse, Take, Resume, TakesLock, Cleared, coVars,
     queueVars, reqVars, envVars, ansVars, Runs, NothingStays, WokenFirst, Running,
     RunsAlone
<1>2. ASSUME NEW r \in 1..MaxReq, DispatchRequest(r)
      PROVE ~stale' => NothingStays' /\ WokenFirst'
  BY <1>a, <1>b, <1>c, <1>2 DEF DispatchRequest, Take, Free, Runs, schedVars, queueVars,
     envVars, ansVars, NothingStays, WokenFirst, Running, RunsAlone
<1>3. ASSUME NEW p \in Peers, NEW s \in Sessions \cup {0}, DispatchError(p, s)
      PROVE ~stale' => NothingStays' /\ WokenFirst'
  BY <1>a, <1>b, <1>c, <1>3 DEF DispatchError, Take, Dead, Suspended, NoResume, reqVars,
     envVars, ansVars, schedVars, coVars, queueVars, NothingStays, WokenFirst, Running,
     RunsAlone
<1>4. CASE DispatchWakeup
  <2>1. CASE stale
    BY <1>4, <2>1 DEF DispatchWakeup
  <2>2. CASE ~stale /\ wakeup_session = {}
    BY <1>4, <2>2 DEF DispatchWakeup, NoResume, schedVars, NothingStays, WokenFirst
  <2>3. CASE ~stale /\ wakeup_session # {}
    <3>1. \A c \in wakeup_session : sleep_session[c] # None
      BY <1>b, <2>3 DEF WokenSleep
    <3>2. mode' \in {"run", "assert"}
      BY <1>4, <2>3, <3>1 DEF DispatchWakeup, Resume, TakesLock, Cleared, Runs
    <3> QED
      BY <3>2 DEF NothingStays, WokenFirst
  <2> QED
    BY <2>1, <2>2, <2>3
<1>5. CASE DispatchErrorQueue
  <2>1. CASE stale
    BY <1>5, <2>1 DEF DispatchErrorQueue
  <2>2. CASE ~stale /\ error_queue = <<>>
    BY <1>b, <1>5, <2>2 DEF DispatchErrorQueue, NoResume, schedVars, NothingStays,
       WokenFirst
  <2>3. CASE ~stale /\ error_queue # <<>>
    <3>1. Head(error_queue) \in Sessions /\ Head(error_queue) \in ToSet(error_queue)
      BY <1>0, <2>3, TailSet
    <3>2. session_id_coroutine[Head(error_queue)] \in Cos
      BY <1>a, <1>b, <2>3, <3>1 DEF ErrorCalls, Calls, Places, Waiting
    <3>3. mode' \in {"run", "assert"}
      BY <1>5, <2>3, <3>2 DEF DispatchErrorQueue, Resume, TakesLock, Cleared, Runs
    <3> QED
      BY <3>3 DEF NothingStays, WokenFirst
  <2> QED
    BY <2>1, <2>2, <2>3
<1>6. CASE DispatchFork
  BY <1>a, <1>b, <1>c, <1>6 DEF DispatchFork, coVars, Runs, schedVars, watchVars, reqVars,
     queueVars, envVars, ansVars, NothingStays, WokenFirst, Running, RunsAlone
<1>7. CASE AssertFails
  BY <1>7 DEF AssertFails, Uncaught
<1>8. ASSUME NEW p \in Peers, Call(p) PROVE ~stale' => NothingStays' /\ WokenFirst'
  BY <1>a, <1>b, <1>c, <1>8 DEF Call, Does, Yields, Watches, Asks, queueVars, Suspended,
     reqVars, envVars, ansVars, NothingStays, WokenFirst, Running, RunsAlone
<1>9. CASE Sleep
  BY <1>a, <1>b, <1>c, <1>9 DEF Sleep, Does, Yields, Asks, queueVars, Suspended, reqVars,
     envVars, ansVars, NothingStays, WokenFirst, Running, RunsAlone
<1>10. CASE Wait
  BY <1>a, <1>b, <1>c, <1>10 DEF Wait, Does, Yields, queueVars, Suspended, reqVars, envVars,
     ansVars, NothingStays, WokenFirst, Running, RunsAlone
<1>11. CASE Timeout
  BY <1>a, <1>b, <1>c, <1>11 DEF Timeout, Does, Free, Asks, watchVars, reqVars, queueVars,
     envVars, ansVars, NothingStays, WokenFirst, Running, RunsAlone
<1>12. CASE Fork
  BY <1>a, <1>b, <1>c, <1>12 DEF Fork, Does, Free, Stays, reqVars, queueVars, ansVars,
     envVars, NothingStays, WokenFirst, Running, RunsAlone
<1>13. CASE Ret
  BY <1>a, <1>b, <1>c, <1>13 DEF Ret, Does, Second, ansVars, Reply, Stays, coVars,
     queueVars, envVars, NothingStays, WokenFirst, Running, RunsAlone
<1>14. CASE AnswerTwice
  BY <1>a, <1>b, <1>c, <1>14 DEF AnswerTwice, Does, Second, schedVars, watchVars, reqVars,
     queueVars, envVars, ansVars, NothingStays, WokenFirst, Running, RunsAlone
<1>15. CASE Response
  BY <1>a, <1>b, <1>c, <1>15 DEF Response, Does, Second, Stays, coVars, queueVars, ansVars,
     envVars, NothingStays, WokenFirst, Running, RunsAlone
<1>16. CASE Enter
  BY <1>a, <1>b, <1>c, <1>16 DEF Enter, Does, Yields, Stays, reqVars, coVars, ansVars,
     Suspended, envVars, NothingStays, WokenFirst, Running, RunsAlone
<1>17. CASE Raise
  BY <1>17 DEF Raise, Uncaught
<1>18. CASE Exit
  BY <1>a, <1>b, <1>c, <1>18 DEF Exit, Does, schedVars, watchVars, coVars, queueVars,
     envVars, NothingStays, WokenFirst, Running, RunsAlone
<1>19. ASSUME NEW c \in Cos, Wakeup(c) PROVE ~stale' => NothingStays' /\ WokenFirst'
  BY <1>a, <1>b, <1>c, <1>19 DEF Wakeup, Does, Woken, Stays, reqVars, coVars, queueVars,
     ansVars, envVars, NothingStays, WokenFirst, Running, RunsAlone
<1>20. ASSUME NEW r \in unresponse, Respond(r) PROVE ~stale' => NothingStays' /\ WokenFirst'
  BY <1>a, <1>b, <1>c, <1>20 DEF Respond, Does, Release, ansVars, Reply, Stays, coVars,
     queueVars, envVars, NothingStays, WokenFirst, Running, RunsAlone
<1>21. CASE Leave
  <2>1. mode = "run" /\ UNCHANGED mode
    BY <1>21 DEF Leave, Stays
  <2> QED
    BY <2>1 DEF NothingStays, WokenFirst
<1>22. CASE CoExit
  BY <1>a, <1>b, <1>c, <1>22 DEF CoExit, Release, Suspended, schedVars, queueVars, envVars,
     NothingStays, WokenFirst, Running, RunsAlone
<1>23. ASSUME NEW p \in Peers, Die(p) PROVE ~stale' => NothingStays' /\ WokenFirst'
  BY <1>a, <1>b, <1>c, <1>23 DEF Die, Sends, Forget, EnvStep, schedVars, watchVars, reqVars,
     coVars, queueVars, ansVars, NothingStays, WokenFirst, Running, RunsAlone
<1>24. ASSUME NEW p \in Peers, NEW b \in BOOLEAN, Ask(p, b)
      PROVE ~stale' => NothingStays' /\ WokenFirst'
  BY <1>a, <1>b, <1>c, <1>24 DEF Ask, Sends, EnvStep, schedVars, watchVars, reqVars, coVars,
     queueVars, ansVars, NothingStays, WokenFirst, Running, RunsAlone
<1>25. ASSUME NEW s \in Sessions, Answer(s) PROVE ~stale' => NothingStays' /\ WokenFirst'
  BY <1>a, <1>b, <1>c, <1>25 DEF Answer, Sends, Forget, EnvStep, schedVars, watchVars,
     reqVars, coVars, queueVars, ansVars, NothingStays, WokenFirst, Running, RunsAlone
<1> QED
  BY <1>1, <1>2, <1>3, <1>4, <1>5, <1>6, <1>7, <1>8, <1>9, <1>10, <1>11, <1>12, <1>13,
     <1>14, <1>15, <1>16, <1>17, <1>18, <1>19, <1>20, <1>21, <1>22, <1>23, <1>24, <1>25
     DEF Next, Dispatcher, Chooses, Ends, Peer

\* A coroutine in wakeup_session sleeps.
LEMMA WokenSleepKept ==
  ASSUME LuaConstants, IInv, Next
  PROVE  ~stale' => WokenSleep'
<1>0. /\ CoFacts /\ TypeOK /\ OtherTypes /\ CoStep /\ error_queue \in Seq(Sessions)
      /\ WatchCalls /\ SuspendRight
  BY CoKnown, CoSteps, SessionParts DEF IInv, SchedulerRight, CoFacts, OtherTypes
<1>a. /\ StateTypes /\ TableTypes /\ RunsAlone /\ Places /\ Sleepers /\ None \notin Cos
      /\ wakeup_session \subseteq Cos /\ Break \notin Cos /\ None \notin Sessions
  BY <1>0, Names DEF CoFacts, CoTypes, TypeOK
<1>b. /\ ~stale => NothingStays /\ WokenFirst /\ WokenSleep /\ ErrorCalls
      /\ WaitsKept \/ \E d \in Cos, w \in {None, Break} : Resumed(d, w)
  BY <1>0, WaitKept DEF SuspendRight, NothingStays, WokenFirst, WokenSleep, ErrorCalls
<1>c. ~stale' => ~stale \/ (error_queue = <<>> /\ wakeup_session = {})
  BY CleanLeft
<1>d. Distinct(<<>>) /\ ToSet(<<>>) = {}
  BY DEF Distinct, ToSet
<1>1. ASSUME NEW s \in Sessions, DispatchResponse(s) PROVE ~stale' => WokenSleep'
  <2>1. ~stale' => ~stale /\ wakeup_session = {} /\ UNCHANGED wakeup_session
    BY <1>b, <1>1 DEF DispatchResponse, Take, NothingStays
  <2> QED
    BY <2>1 DEF WokenSleep
<1>2. ASSUME NEW r \in 1..MaxReq, DispatchRequest(r) PROVE ~stale' => WokenSleep'
  <2>1. wakeup_session' = wakeup_session /\ WaitsKept
    BY <1>a, <1>b, <1>2 DEF DispatchRequest, Take, Free, Runs, schedVars, queueVars,
       envVars, ansVars, Resumed, Running, RunsAlone, Waiting
  <2> QED
    BY <1>a, <1>b, <1>c, <2>1 DEF WokenSleep, WaitsKept
<1>3. ASSUME NEW p \in Peers, NEW s \in Sessions \cup {0}, DispatchError(p, s)
      PROVE ~stale' => WokenSleep'
  <2>1. wakeup_session' = wakeup_session /\ WaitsKept
    BY <1>a, <1>b, <1>3 DEF DispatchError, Take, Dead, Suspended, NoResume, reqVars,
       envVars, ansVars, schedVars, coVars, queueVars, Resumed, Running, RunsAlone, Waiting
  <2> QED
    BY <1>a, <1>b, <1>c, <2>1 DEF WokenSleep, WaitsKept
<1>4. CASE DispatchWakeup
  <2>1. CASE wakeup_session = {} /\ NoResume
    BY <2>1 DEF WokenSleep, NoResume, schedVars
  <2>2. ASSUME NEW c \in wakeup_session, wakeup_session' = wakeup_session \ {c}
        PROVE  ~stale' => WokenSleep'
    <3>1. \A d \in wakeup_session : d # c => sleep_session'[d] = sleep_session[d]
      BY <1>a, <1>4, <2>2 DEF DispatchWakeup, Resume, TakesLock, Cleared, TableTypes
    <3>2. UNCHANGED stale
      BY <1>4 DEF DispatchWakeup
    <3> QED
      BY <1>b, <2>2, <3>1, <3>2 DEF WokenSleep
  <2> QED
    BY <1>4, <2>1, <2>2 DEF DispatchWakeup
<1>5. CASE DispatchErrorQueue
  <2>1. ~stale' => ~stale /\ wakeup_session = {} /\ UNCHANGED wakeup_session
    BY <1>b, <1>5 DEF DispatchErrorQueue, WokenFirst, NoResume, schedVars
  <2> QED
    BY <2>1 DEF WokenSleep
<1>6. CASE DispatchFork
  <2>1. UNCHANGED <<wakeup_session, sleep_session>>
    BY <1>6 DEF DispatchFork, schedVars
  <2> QED
    BY <1>b, <1>c, <2>1 DEF WokenSleep
<1>7. CASE AssertFails
  BY <1>7 DEF AssertFails, Uncaught
<1>8. ASSUME NEW p \in Peers, Call(p) PROVE ~stale' => WokenSleep'
  <2>1. wakeup_session' = wakeup_session /\ WaitsKept
    BY <1>a, <1>b, <1>8 DEF Call, Does, Yields, Watches, Asks, queueVars, Suspended,
       reqVars, envVars, ansVars, Resumed, Running, RunsAlone, Waiting
  <2> QED
    BY <1>a, <1>b, <1>c, <2>1 DEF WokenSleep, WaitsKept
<1>9. CASE Sleep
  <2>1. wakeup_session' = wakeup_session /\ WaitsKept
    BY <1>a, <1>b, <1>9 DEF Sleep, Does, Yields, Asks, queueVars, Suspended, reqVars,
       envVars, ansVars, Resumed, Running, RunsAlone, Waiting
  <2> QED
    BY <1>a, <1>b, <1>c, <2>1 DEF WokenSleep, WaitsKept
<1>10. CASE Wait
  <2>1. wakeup_session' = wakeup_session /\ WaitsKept
    BY <1>a, <1>b, <1>10 DEF Wait, Does, Yields, queueVars, Suspended, reqVars, envVars,
       ansVars, Resumed, Running, RunsAlone, Waiting
  <2> QED
    BY <1>a, <1>b, <1>c, <2>1 DEF WokenSleep, WaitsKept
<1>11. CASE Timeout
  <2>1. wakeup_session' = wakeup_session /\ WaitsKept
    BY <1>a, <1>b, <1>11 DEF Timeout, Does, Free, Asks, watchVars, reqVars, queueVars,
       envVars, ansVars, Resumed, Running, RunsAlone, Waiting
  <2> QED
    BY <1>a, <1>b, <1>c, <2>1 DEF WokenSleep, WaitsKept
<1>12. CASE Fork
  <2>1. wakeup_session' = wakeup_session /\ WaitsKept
    BY <1>a, <1>b, <1>12 DEF Fork, Does, Free, Stays, reqVars, queueVars, ansVars, envVars,
       Resumed, Running, RunsAlone, Waiting
  <2> QED
    BY <1>a, <1>b, <1>c, <2>1 DEF WokenSleep, WaitsKept
<1>13. CASE Ret
  <2>1. wakeup_session' = wakeup_session /\ WaitsKept
    BY <1>a, <1>b, <1>13 DEF Ret, Does, Second, ansVars, Reply, Stays, coVars, queueVars,
       envVars, Resumed, Running, RunsAlone, Waiting
  <2> QED
    BY <1>a, <1>b, <1>c, <2>1 DEF WokenSleep, WaitsKept
<1>14. CASE AnswerTwice
  <2>1. wakeup_session' = wakeup_session /\ WaitsKept
    BY <1>a, <1>b, <1>14 DEF AnswerTwice, Does, Second, schedVars, watchVars, reqVars,
       queueVars, envVars, ansVars, Resumed, Running, RunsAlone, Waiting
  <2> QED
    BY <1>a, <1>b, <1>c, <2>1 DEF WokenSleep, WaitsKept
<1>15. CASE Response
  <2>1. wakeup_session' = wakeup_session /\ WaitsKept
    BY <1>a, <1>b, <1>15 DEF Response, Does, Second, Stays, coVars, queueVars, ansVars,
       envVars, Resumed, Running, RunsAlone, Waiting
  <2> QED
    BY <1>a, <1>b, <1>c, <2>1 DEF WokenSleep, WaitsKept
<1>16. CASE Enter
  <2>1. wakeup_session' = wakeup_session /\ WaitsKept
    BY <1>a, <1>b, <1>16 DEF Enter, Does, Yields, Stays, reqVars, coVars, ansVars,
       Suspended, envVars, Resumed, Running, RunsAlone, Waiting
  <2> QED
    BY <1>a, <1>b, <1>c, <2>1 DEF WokenSleep, WaitsKept
<1>17. CASE Raise
  BY <1>17 DEF Raise, Uncaught
<1>18. CASE Exit
  <2>1. wakeup_session' = wakeup_session /\ WaitsKept
    BY <1>a, <1>b, <1>18 DEF Exit, Does, schedVars, watchVars, coVars, queueVars, envVars,
       Resumed, Running, RunsAlone, Waiting
  <2> QED
    BY <1>a, <1>b, <1>c, <2>1 DEF WokenSleep, WaitsKept
<1>19. ASSUME NEW c \in Cos, Wakeup(c) PROVE ~stale' => WokenSleep'
  <2>1. UNCHANGED <<sleep_session, stale>> /\ wakeup_session' = Woken(c)
    BY <1>19 DEF Wakeup, Stays
  <2> QED
    BY <1>b, <2>1 DEF WokenSleep, Woken
<1>20. ASSUME NEW r \in unresponse, Respond(r) PROVE ~stale' => WokenSleep'
  <2>1. wakeup_session' = wakeup_session /\ WaitsKept
    BY <1>a, <1>b, <1>20 DEF Respond, Does, Release, ansVars, Reply, Stays, coVars,
       queueVars, envVars, Resumed, Running, RunsAlone, Waiting
  <2> QED
    BY <1>a, <1>b, <1>c, <2>1 DEF WokenSleep, WaitsKept
<1>21. CASE Leave
  <2>1. UNCHANGED <<sleep_session, stale>> /\ GiveUp(1)
    BY <1>21 DEF Leave, Stays
  <2>2. \/ UNCHANGED wakeup_session
        \/ \E c \in Cos : wakeup_session' = Woken(c)
    <3>1. 1 \in Nat /\ 1 > 0 /\ 1 <= depth[cur] /\ LockRight
      BY <1>0, <1>21 DEF Leave, OtherTypes, IInv
    <3>2. LetsGo
      BY <1>0, <2>1, <3>1, GivesUp
    <3>3. thread_queue # <<>> => Head(thread_queue) \in Cos
      BY <1>0, TailSet DEF OtherTypes
    <3> QED
      BY <3>2, <3>3 DEF LetsGo
  <2> QED
    BY <1>b, <2>1, <2>2 DEF WokenSleep, Woken
<1>22. CASE CoExit
  <2>1. wakeup_session' = wakeup_session /\ WaitsKept
    BY <1>a, <1>b, <1>22 DEF CoExit, Release, Suspended, schedVars, queueVars, envVars,
       Resumed, Running, RunsAlone, Waiting
  <2> QED
    BY <1>a, <1>b, <1>c, <2>1 DEF WokenSleep, WaitsKept
<1>23. ASSUME NEW p \in Peers, Die(p) PROVE ~stale' => WokenSleep'
  <2>1. wakeup_session' = wakeup_session /\ WaitsKept
    BY <1>a, <1>b, <1>23 DEF Die, Sends, Forget, EnvStep, schedVars, watchVars, reqVars,
       coVars, queueVars, ansVars, Resumed, Running, RunsAlone, Waiting
  <2> QED
    BY <1>a, <1>b, <1>c, <2>1 DEF WokenSleep, WaitsKept
<1>24. ASSUME NEW p \in Peers, NEW b \in BOOLEAN, Ask(p, b) PROVE ~stale' => WokenSleep'
  <2>1. wakeup_session' = wakeup_session /\ WaitsKept
    BY <1>a, <1>b, <1>24 DEF Ask, Sends, EnvStep, schedVars, watchVars, reqVars, coVars,
       queueVars, ansVars, Resumed, Running, RunsAlone, Waiting
  <2> QED
    BY <1>a, <1>b, <1>c, <2>1 DEF WokenSleep, WaitsKept
<1>25. ASSUME NEW s \in Sessions, Answer(s) PROVE ~stale' => WokenSleep'
  <2>1. wakeup_session' = wakeup_session /\ WaitsKept
    BY <1>a, <1>b, <1>25 DEF Answer, Sends, Forget, EnvStep, schedVars, watchVars, reqVars,
       coVars, queueVars, ansVars, Resumed, Running, RunsAlone, Waiting
  <2> QED
    BY <1>a, <1>b, <1>c, <2>1 DEF WokenSleep, WaitsKept
<1> QED
  BY <1>1, <1>2, <1>3, <1>4, <1>5, <1>6, <1>7, <1>8, <1>9, <1>10, <1>11, <1>12, <1>13,
     <1>14, <1>15, <1>16, <1>17, <1>18, <1>19, <1>20, <1>21, <1>22, <1>23, <1>24, <1>25
     DEF Next, Dispatcher, Chooses, Ends, Peer

\* A session in error_queue waits for a call.
LEMMA ErrorCallsKept ==
  ASSUME LuaConstants, IInv, Next
  PROVE  ~stale' => ErrorCalls'
<1>0. /\ CoFacts /\ TypeOK /\ OtherTypes /\ CoStep /\ error_queue \in Seq(Sessions)
      /\ WatchCalls /\ SuspendRight
  BY CoKnown, CoSteps, SessionParts DEF IInv, SchedulerRight, CoFacts, OtherTypes
<1>a. /\ StateTypes /\ TableTypes /\ RunsAlone /\ Places /\ Sleepers /\ None \notin Cos
      /\ wakeup_session \subseteq Cos /\ Break \notin Cos /\ None \notin Sessions
  BY <1>0, Names DEF CoFacts, CoTypes, TypeOK
<1>b. /\ ~stale => NothingStays /\ WokenFirst /\ WokenSleep /\ ErrorCalls
      /\ WaitsKept \/ \E d \in Cos, w \in {None, Break} : Resumed(d, w)
  BY <1>0, WaitKept DEF SuspendRight, NothingStays, WokenFirst, WokenSleep, ErrorCalls
<1>c. ~stale' => ~stale \/ (error_queue = <<>> /\ wakeup_session = {})
  BY CleanLeft
<1>d. Distinct(<<>>) /\ ToSet(<<>>) = {}
  BY DEF Distinct, ToSet
<1>1. ASSUME NEW s \in Sessions, DispatchResponse(s) PROVE ~stale' => ErrorCalls'
  <2>1. ~stale' => ~stale /\ error_queue = <<>> /\ UNCHANGED error_queue
    BY <1>b, <1>1 DEF DispatchResponse, Take, NothingStays
  <2>2. Distinct(<<>>) /\ ToSet(<<>>) = {}
    BY DEF Distinct, ToSet
  <2> QED
    BY <2>1, <2>2 DEF ErrorCalls
<1>2. ASSUME NEW r \in 1..MaxReq, DispatchRequest(r) PROVE ~stale' => ErrorCalls'
  <2>1. error_queue' = error_queue /\ WaitsKept
    BY <1>a, <1>b, <1>2 DEF DispatchRequest, Take, Free, Runs, schedVars, queueVars,
       envVars, ansVars, Resumed, Running, RunsAlone, Waiting
  <2> QED
    BY <1>b, <1>c, <1>d, <2>1 DEF ErrorCalls, WaitsKept
<1>3. ASSUME NEW p \in Peers, NEW s \in Sessions \cup {0}, DispatchError(p, s)
      PROVE ~stale' => ErrorCalls'
  <2>1. ~stale' => ~stale /\ error_queue = <<>>
    BY <1>b, <1>3 DEF DispatchError, Take, NothingStays
  <2>2. PICK l \in Seq(Sessions) :
           /\ error_queue' = error_queue \o l /\ Distinct(l)
           /\ \A x \in ToSet(l) : watching_session[x] # "none"
    BY <1>3, Watched
  <2>3. \A x \in ToSet(l) : Calls(x)
    <3>1. ToSet(l) \subseteq Sessions
      BY LenProperties, ElementOfSeq DEF ToSet
    <3> QED
      BY <1>0, <2>2, <3>1 DEF WatchCalls
  <2>4. \A x \in ToSet(l) : Calls(x)'
    BY <1>3, <2>3 DEF DispatchError, NoResume, coVars, Calls
  <2>5. ~stale' => error_queue' = l
    BY <2>1, <2>2, ConcatEmptySeq
  <2> QED
    BY <2>2, <2>4, <2>5 DEF ErrorCalls
<1>4. CASE DispatchWakeup
  <2>1. CASE UNCHANGED coVars
    BY <1>b, <1>c, <1>4, <2>1 DEF DispatchWakeup, ErrorCalls, Calls, coVars
  <2>2. ASSUME NEW c \in wakeup_session, sleep_session[c] # None, Runs(c, mode')
        PROVE  ~stale' => ErrorCalls'
    <3>1. c \in Cos /\ co[c] # "call"
      BY <1>a, <2>2 DEF Sleepers
    <3>2. \A x : Calls(x) => Calls(x)'
      BY <1>a, <2>2, <3>1 DEF Runs, Calls, StateTypes
    <3>3. UNCHANGED <<error_queue, stale>>
      BY <1>4 DEF DispatchWakeup
    <3> QED
      BY <1>b, <3>2, <3>3 DEF ErrorCalls
  <2>3. \/ UNCHANGED coVars
        \/ \E c \in wakeup_session : sleep_session[c] # None /\ Runs(c, mode')
    BY <1>4 DEF DispatchWakeup, NoResume, Resume, TakesLock, Cleared, Runs
  <2> QED
    BY <2>1, <2>2, <2>3
<1>5. CASE DispatchErrorQueue
  <2>1. CASE error_queue = <<>>
    BY <1>b, <1>c, <1>5, <2>1 DEF DispatchErrorQueue, NoResume, coVars, ErrorCalls, Calls
  <2>2. CASE error_queue # <<>>
    <3>1. /\ Head(error_queue) \in Sessions /\ error_queue' = Tail(error_queue)
          /\ \A x : x \in ToSet(error_queue) <=> x = Head(error_queue) \/ x \in ToSet(error_queue')
      BY <1>0, <1>5, <2>2, TailSet DEF DispatchErrorQueue
    <3>2. UNCHANGED stale /\ (NoResume \/ Runs(session_id_coroutine[Head(error_queue)], mode'))
      BY <1>5, <2>2 DEF DispatchErrorQueue, Resume, TakesLock, Cleared, Runs
    <3>3. ~stale => Distinct(error_queue') /\ Head(error_queue) \notin ToSet(error_queue')
      BY <1>0, <1>b, <2>2, <3>1, StaysDistinct DEF ErrorCalls
    <3>4. ASSUME ~stale, NEW x \in ToSet(error_queue') PROVE Calls(x)'
      <4>1. x # Head(error_queue) /\ Calls(x)
        BY <1>b, <3>1, <3>3, <3>4 DEF ErrorCalls
      <4>2. PICK d \in Cos : co[d] = "call" /\ waits[d] = x
        BY <4>1 DEF Calls
      <4>3. d # session_id_coroutine[Head(error_queue)]
        BY <1>a, <3>1, <4>1, <4>2 DEF Places
      <4>4. co'[d] = "call" /\ waits'[d] = x
        BY <1>a, <3>2, <4>2, <4>3 DEF NoResume, coVars, Runs, StateTypes
      <4> QED
        BY <4>4 DEF Calls
    <3> QED
      BY <3>2, <3>3, <3>4 DEF ErrorCalls
  <2> QED
    BY <2>1, <2>2
<1>6. CASE DispatchFork
  <2>1. UNCHANGED error_queue /\ \A x : Calls(x) => Calls(x)'
    <3>1. \A c \in fork_queue : c \in Cos /\ co[c] = "fork"
      BY <1>0, <1>6 DEF DispatchFork, TypeOK
    <3>2. \/ UNCHANGED coVars
          \/ \E c \in fork_queue : Runs(c, "run")
      BY <1>6 DEF DispatchFork, coVars
    <3> QED
      BY <1>a, <1>6, <3>1, <3>2 DEF DispatchFork, coVars, Runs, Calls, StateTypes
  <2>2. CASE error_queue = <<>>
    BY <2>1, <2>2 DEF ErrorCalls, Distinct, ToSet
  <2>3. CASE ~stale
    BY <1>b, <2>1, <2>3 DEF ErrorCalls
  <2> QED
    BY <1>c, <2>2, <2>3
<1>7. CASE AssertFails
  BY <1>7 DEF AssertFails, Uncaught
<1>8. ASSUME NEW p \in Peers, Call(p) PROVE ~stale' => ErrorCalls'
  <2>1. error_queue' = error_queue /\ WaitsKept
    BY <1>a, <1>b, <1>8 DEF Call, Does, Yields, Watches, Asks, queueVars, Suspended,
       reqVars, envVars, ansVars, Resumed, Running, RunsAlone, Waiting
  <2> QED
    BY <1>b, <1>c, <1>d, <2>1 DEF ErrorCalls, WaitsKept
<1>9. CASE Sleep
  <2>1. error_queue' = error_queue /\ WaitsKept
    BY <1>a, <1>b, <1>9 DEF Sleep, Does, Yields, Asks, queueVars, Suspended, reqVars,
       envVars, ansVars, Resumed, Running, RunsAlone, Waiting
  <2> QED
    BY <1>b, <1>c, <1>d, <2>1 DEF ErrorCalls, WaitsKept
<1>10. CASE Wait
  <2>1. error_queue' = error_queue /\ WaitsKept
    BY <1>a, <1>b, <1>10 DEF Wait, Does, Yields, queueVars, Suspended, reqVars, envVars,
       ansVars, Resumed, Running, RunsAlone, Waiting
  <2> QED
    BY <1>b, <1>c, <1>d, <2>1 DEF ErrorCalls, WaitsKept
<1>11. CASE Timeout
  <2>1. error_queue' = error_queue /\ WaitsKept
    BY <1>a, <1>b, <1>11 DEF Timeout, Does, Free, Asks, watchVars, reqVars, queueVars,
       envVars, ansVars, Resumed, Running, RunsAlone, Waiting
  <2> QED
    BY <1>b, <1>c, <1>d, <2>1 DEF ErrorCalls, WaitsKept
<1>12. CASE Fork
  <2>1. error_queue' = error_queue /\ WaitsKept
    BY <1>a, <1>b, <1>12 DEF Fork, Does, Free, Stays, reqVars, queueVars, ansVars, envVars,
       Resumed, Running, RunsAlone, Waiting
  <2> QED
    BY <1>b, <1>c, <1>d, <2>1 DEF ErrorCalls, WaitsKept
<1>13. CASE Ret
  <2>1. error_queue' = error_queue /\ WaitsKept
    BY <1>a, <1>b, <1>13 DEF Ret, Does, Second, ansVars, Reply, Stays, coVars, queueVars,
       envVars, Resumed, Running, RunsAlone, Waiting
  <2> QED
    BY <1>b, <1>c, <1>d, <2>1 DEF ErrorCalls, WaitsKept
<1>14. CASE AnswerTwice
  <2>1. error_queue' = error_queue /\ WaitsKept
    BY <1>a, <1>b, <1>14 DEF AnswerTwice, Does, Second, schedVars, watchVars, reqVars,
       queueVars, envVars, ansVars, Resumed, Running, RunsAlone, Waiting
  <2> QED
    BY <1>b, <1>c, <1>d, <2>1 DEF ErrorCalls, WaitsKept
<1>15. CASE Response
  <2>1. error_queue' = error_queue /\ WaitsKept
    BY <1>a, <1>b, <1>15 DEF Response, Does, Second, Stays, coVars, queueVars, ansVars,
       envVars, Resumed, Running, RunsAlone, Waiting
  <2> QED
    BY <1>b, <1>c, <1>d, <2>1 DEF ErrorCalls, WaitsKept
<1>16. CASE Enter
  <2>1. error_queue' = error_queue /\ WaitsKept
    BY <1>a, <1>b, <1>16 DEF Enter, Does, Yields, Stays, reqVars, coVars, ansVars,
       Suspended, envVars, Resumed, Running, RunsAlone, Waiting
  <2> QED
    BY <1>b, <1>c, <1>d, <2>1 DEF ErrorCalls, WaitsKept
<1>17. CASE Raise
  BY <1>17 DEF Raise, Uncaught
<1>18. CASE Exit
  <2>1. error_queue' = error_queue /\ WaitsKept
    BY <1>a, <1>b, <1>18 DEF Exit, Does, schedVars, watchVars, coVars, queueVars, envVars,
       Resumed, Running, RunsAlone, Waiting
  <2> QED
    BY <1>b, <1>c, <1>d, <2>1 DEF ErrorCalls, WaitsKept
<1>19. ASSUME NEW c \in Cos, Wakeup(c) PROVE ~stale' => ErrorCalls'
  <2>1. error_queue' = error_queue /\ WaitsKept
    BY <1>a, <1>b, <1>19 DEF Wakeup, Does, Woken, Stays, reqVars, coVars, queueVars,
       ansVars, envVars, Resumed, Running, RunsAlone, Waiting
  <2> QED
    BY <1>b, <1>c, <1>d, <2>1 DEF ErrorCalls, WaitsKept
<1>20. ASSUME NEW r \in unresponse, Respond(r) PROVE ~stale' => ErrorCalls'
  <2>1. error_queue' = error_queue /\ WaitsKept
    BY <1>a, <1>b, <1>20 DEF Respond, Does, Release, ansVars, Reply, Stays, coVars,
       queueVars, envVars, Resumed, Running, RunsAlone, Waiting
  <2> QED
    BY <1>b, <1>c, <1>d, <2>1 DEF ErrorCalls, WaitsKept
<1>21. CASE Leave
  <2>1. error_queue' = error_queue /\ WaitsKept
    BY <1>a, <1>b, <1>21 DEF Leave, Stays, reqVars, coVars, ansVars, envVars, Resumed,
       Running, RunsAlone, Waiting
  <2> QED
    BY <1>b, <1>c, <1>d, <2>1 DEF ErrorCalls, WaitsKept
<1>22. CASE CoExit
  <2>1. error_queue' = error_queue /\ WaitsKept
    BY <1>a, <1>b, <1>22 DEF CoExit, Release, Suspended, schedVars, queueVars, envVars,
       Resumed, Running, RunsAlone, Waiting
  <2> QED
    BY <1>b, <1>c, <1>d, <2>1 DEF ErrorCalls, WaitsKept
<1>23. ASSUME NEW p \in Peers, Die(p) PROVE ~stale' => ErrorCalls'
  <2>1. error_queue' = error_queue /\ WaitsKept
    BY <1>a, <1>b, <1>23 DEF Die, Sends, Forget, EnvStep, schedVars, watchVars, reqVars,
       coVars, queueVars, ansVars, Resumed, Running, RunsAlone, Waiting
  <2> QED
    BY <1>b, <1>c, <1>d, <2>1 DEF ErrorCalls, WaitsKept
<1>24. ASSUME NEW p \in Peers, NEW b \in BOOLEAN, Ask(p, b) PROVE ~stale' => ErrorCalls'
  <2>1. error_queue' = error_queue /\ WaitsKept
    BY <1>a, <1>b, <1>24 DEF Ask, Sends, EnvStep, schedVars, watchVars, reqVars, coVars,
       queueVars, ansVars, Resumed, Running, RunsAlone, Waiting
  <2> QED
    BY <1>b, <1>c, <1>d, <2>1 DEF ErrorCalls, WaitsKept
<1>25. ASSUME NEW s \in Sessions, Answer(s) PROVE ~stale' => ErrorCalls'
  <2>1. error_queue' = error_queue /\ WaitsKept
    BY <1>a, <1>b, <1>25 DEF Answer, Sends, Forget, EnvStep, schedVars, watchVars, reqVars,
       coVars, queueVars, ansVars, Resumed, Running, RunsAlone, Waiting
  <2> QED
    BY <1>b, <1>c, <1>d, <2>1 DEF ErrorCalls, WaitsKept
<1> QED
  BY <1>1, <1>2, <1>3, <1>4, <1>5, <1>6, <1>7, <1>8, <1>9, <1>10, <1>11, <1>12, <1>13,
     <1>14, <1>15, <1>16, <1>17, <1>18, <1>19, <1>20, <1>21, <1>22, <1>23, <1>24, <1>25
     DEF Next, Dispatcher, Chooses, Ends, Peer

\* dispatch_wakeup and dispatch_error_queue do all their work in one dispatch.
LEMMA SuspendRightKept ==
  ASSUME LuaConstants, IInv, Next
  PROVE  SuspendRight'
<1>1. ~stale' => NothingStays' /\ WokenFirst' /\ WokenSleep' /\ ErrorCalls'
  BY NothingStaysKept, WokenSleepKept, ErrorCallsKept
<1> QED
  BY <1>1 DEF SuspendRight, NothingStays, WokenFirst, WokenSleep, ErrorCalls

-----------------------------------------------------------------------------
(* The mailbox and the dead.                                              *)

MailFacts == /\ mbox \in Seq(Messages) /\ Once(mbox) /\ dead_service \subseteq Peers \ alive
             /\ alive \subseteq Peers /\ \A p \in Peers : Ended(p) => p \notin alive

\* No message is twice in the mailbox.
LEMMA MailKept ==
  ASSUME LuaConstants, IInv, Next
  PROVE  MailFacts'
<1>0. OtherTypes /\ Once(mbox) /\ (\A x : Arrived(x) => x \in 1..nreq) /\ dead_service \subseteq Peers \ alive
  BY DEF IInv, RequestsRight, SchedulerRight, TypeOK
<1>a. mbox \in Seq(Messages) /\ alive \subseteq Peers /\ \A d \in Peers : Ended(d) => d \notin alive
  BY <1>0 DEF IInv, SessionsRight, OtherTypes
<1>1. ASSUME NEW s \in Sessions, DispatchResponse(s) PROVE MailFacts'
  BY <1>0, <1>a, <1>1, TakesResponse DEF DispatchResponse, envVars, MailFacts
<1>2. ASSUME NEW r \in 1..MaxReq, DispatchRequest(r) PROVE MailFacts'
  BY <1>0, <1>a, <1>2, TakesRequest DEF DispatchRequest, envVars, MailFacts
<1>3. ASSUME NEW p \in Peers, NEW s \in Sessions \cup {0}, DispatchError(p, s) PROVE MailFacts'
  BY <1>0, <1>a, <1>3, TakesError DEF DispatchError, Dead, envVars, MailFacts
<1>4. CASE DispatchWakeup
  BY <1>0, <1>a, <1>4 DEF DispatchWakeup, NoResume, coVars, queueVars, reqVars, envVars,
     ansVars, schedVars, MailFacts, Ended
<1>5. CASE DispatchErrorQueue
  BY <1>0, <1>a, <1>5 DEF DispatchErrorQueue, NoResume, reqVars, envVars, ansVars,
     schedVars, coVars, queueVars, MailFacts, Ended
<1>6. CASE DispatchFork
  BY <1>0, <1>a, <1>6 DEF DispatchFork, coVars, schedVars, watchVars, reqVars, queueVars,
     envVars, ansVars, MailFacts, Ended
<1>7. CASE AssertFails
  BY <1>0, <1>a, <1>7 DEF AssertFails, Uncaught, queueVars, ansVars, watchVars, envVars,
     MailFacts, Ended
<1>8. ASSUME NEW p \in Peers, Call(p) PROVE MailFacts'
  BY <1>0, <1>a, <1>8 DEF Call, Does, Yields, Watches, Asks, queueVars, Suspended, reqVars,
     envVars, ansVars, MailFacts, Ended
<1>9. CASE Sleep
  BY <1>0, <1>a, <1>9 DEF Sleep, Does, Yields, Asks, queueVars, Suspended, reqVars, envVars,
     ansVars, MailFacts, Ended
<1>10. CASE Wait
  BY <1>0, <1>a, <1>10 DEF Wait, Does, Yields, queueVars, Suspended, reqVars, envVars,
     ansVars, MailFacts, Ended
<1>11. CASE Timeout
  BY <1>0, <1>a, <1>11 DEF Timeout, Does, Free, Asks, watchVars, reqVars, queueVars,
     envVars, ansVars, MailFacts, Ended
<1>12. CASE Fork
  BY <1>0, <1>a, <1>12 DEF Fork, Does, Free, Stays, reqVars, queueVars, ansVars, envVars,
     MailFacts, Ended
<1>13. CASE Ret
  BY <1>0, <1>a, <1>13 DEF Ret, Does, Second, ansVars, Reply, Stays, coVars, queueVars,
     envVars, MailFacts, Ended
<1>14. CASE AnswerTwice
  BY <1>0, <1>a, <1>14 DEF AnswerTwice, Does, Second, schedVars, watchVars, reqVars,
     queueVars, envVars, ansVars, MailFacts, Ended
<1>15. CASE Response
  BY <1>0, <1>a, <1>15 DEF Response, Does, Second, Stays, coVars, queueVars, ansVars,
     envVars, MailFacts, Ended
<1>16. CASE Enter
  BY <1>0, <1>a, <1>16 DEF Enter, Does, Yields, Stays, reqVars, coVars, ansVars, Suspended,
     envVars, MailFacts, Ended
<1>17. CASE Raise
  BY <1>0, <1>a, <1>17 DEF Raise, Uncaught, queueVars, ansVars, watchVars, envVars,
     MailFacts, Ended
<1>18. CASE Exit
  BY <1>0, <1>a, <1>18 DEF Exit, Does, schedVars, watchVars, coVars, queueVars, envVars,
     MailFacts, Ended
<1>19. ASSUME NEW c \in Cos, Wakeup(c) PROVE MailFacts'
  BY <1>0, <1>a, <1>19 DEF Wakeup, Does, Woken, Stays, reqVars, coVars, queueVars, ansVars,
     envVars, MailFacts, Ended
<1>20. ASSUME NEW r \in unresponse, Respond(r) PROVE MailFacts'
  BY <1>0, <1>a, <1>20 DEF Respond, Does, Release, ansVars, Reply, Stays, coVars, queueVars,
     envVars, MailFacts, Ended
<1>21. CASE Leave
  BY <1>0, <1>a, <1>21 DEF Leave, Stays, reqVars, coVars, ansVars, envVars, MailFacts, Ended
<1>22. CASE CoExit
  BY <1>0, <1>a, <1>22 DEF CoExit, Release, Suspended, schedVars, queueVars, envVars,
     MailFacts, Ended
<1>23. ASSUME NEW p \in Peers, Die(p) PROVE MailFacts'
  BY <1>0, <1>a, <1>23, DieSends DEF Die, EnvStep, watchVars, MailFacts
<1>24. ASSUME NEW p \in Peers, NEW b \in BOOLEAN, Ask(p, b) PROVE MailFacts'
  BY <1>0, <1>a, <1>24, AskSends DEF Ask, EnvStep, watchVars, MailFacts
<1>25. ASSUME NEW s \in Sessions, Answer(s) PROVE MailFacts'
  BY <1>0, <1>a, <1>25, AnswerSends DEF Answer, EnvStep, watchVars, MailFacts
<1> QED
  BY <1>1, <1>2, <1>3, <1>4, <1>5, <1>6, <1>7, <1>8, <1>9, <1>10, <1>11, <1>12, <1>13,
     <1>14, <1>15, <1>16, <1>17, <1>18, <1>19, <1>20, <1>21, <1>22, <1>23, <1>24, <1>25
     DEF Next, Dispatcher, Chooses, Ends, Peer

-----------------------------------------------------------------------------
(* Requests: the ways in which one step changes them.                     *)

Unborn == {"pool", "fork", "timeout", "dead"}
SameRequests == UNCHANGED <<nreq, source, called>> /\ \A x : Arrived(x)' <=> Arrived(x)
SameAnswered == UNCHANGED <<replies, errors, forgotten>>
InMode       == mode # "exited" /\ mode' # "exited" /\ (raised' = 0 => raised = 0)
\* The coroutines of requests go on, but for d.
OthersLive(d) ==
  /\ \A c \in Cos : c # d /\ request[c] # None => co'[c] \notin Unborn
  /\ \A c \in Cos : c # d /\ c \in responded => co'[c] # "pool"
\* A reply or an error for r, or its source is dead.
Replied(r) ==
  /\ UNCHANGED forgotten
  /\ \/ source[r] \in dead_service /\ UNCHANGED <<replies, errors>>
     \/ replies' = [replies EXCEPT ![r] = @ + 1] /\ UNCHANGED errors
     \/ errors' = [errors EXCEPT ![r] = @ + 1] /\ UNCHANGED replies

RequestsStay ==
  /\ SameRequests /\ SameAnswered /\ InMode /\ OthersLive(None)
  /\ UNCHANGED <<request, responded, unresponse, watching_service>>
  /\ dead_service \subseteq dead_service'
RequestTaken(r, c) ==
  /\ Arrived(r) /\ ~Arrived(r)' /\ co[c] = "pool" /\ request' = [request EXCEPT ![c] = r]
  /\ \A x : Arrived(x) => Arrived(x)' \/ x = r
  /\ \A x : Arrived(x)' => Arrived(x)
  /\ watching_service' = [watching_service EXCEPT ![source[r]] = @ + 1]
  /\ SameAnswered /\ InMode /\ OthersLive(c) /\ co'[c] = "run"
  /\ UNCHANGED <<nreq, source, called, responded, unresponse, dead_service>>
RetGiven ==
  /\ SameRequests /\ InMode /\ OthersLive(None)
  /\ UNCHANGED <<request, unresponse, watching_service, dead_service>>
  /\ request[cur] # None /\ cur \notin responded /\ responded' = responded \cup {cur}
  /\ co'[cur] = "run"
  /\ Replied(request[cur])
ResponseMade ==
  /\ SameRequests /\ SameAnswered /\ InMode /\ OthersLive(None)
  /\ UNCHANGED <<request, dead_service>>
  /\ request[cur] # None /\ cur \notin responded /\ responded' = responded \cup {cur}
  /\ co'[cur] = "run"
  /\ unresponse' = unresponse \cup {request[cur]}
  /\ watching_service' = [watching_service EXCEPT ![source[request[cur]]] = @ + 1]
ResponseGiven(r) ==
  /\ SameRequests /\ InMode /\ OthersLive(None)
  /\ UNCHANGED <<request, responded, dead_service>>
  /\ r \in unresponse /\ unresponse' = unresponse \ {r} /\ Release(source[r])
  /\ Replied(r)
CoroutineEnds ==
  /\ SameRequests /\ InMode /\ OthersLive(cur)
  /\ UNCHANGED <<unresponse, dead_service, replies, errors>>
  /\ IF request[cur] # None THEN Release(source[request[cur]]) ELSE UNCHANGED watching_service
  /\ request' = [request EXCEPT ![cur] = None] /\ responded' = responded \ {cur}
  /\ forgotten' = IF cur \in responded \/ request[cur] = None THEN forgotten
                  ELSE forgotten \cup {request[cur]}
CoroutineFails ==
  /\ SameRequests /\ InMode /\ OthersLive(cur)
  /\ UNCHANGED <<unresponse, dead_service, replies, forgotten, responded, watching_service>>
  /\ raised' = raised + 1 /\ co'[cur] = "dead" /\ request' = [request EXCEPT ![cur] = None]
  /\ errors' = IF request[cur] # None /\ called[request[cur]]
               THEN [errors EXCEPT ![request[cur]] = @ + 1] ELSE errors
RequestMade ==
  /\ nreq < MaxReq /\ nreq' = nreq + 1 /\ (\A x : Arrived(x)' <=> Arrived(x) \/ x = nreq + 1)
  /\ \E p \in Peers, b \in BOOLEAN : source' = Append(source, p) /\ called' = Append(called, b)
  /\ SameAnswered /\ InMode /\ OthersLive(None)
  /\ UNCHANGED <<request, responded, unresponse, watching_service, dead_service>>

ReqStep ==
  \/ RequestsStay \/ RetGiven \/ ResponseMade \/ CoroutineEnds \/ CoroutineFails \/ RequestMade
  \/ Exit
  \/ \E r \in 1..MaxReq, c \in Cos : RequestTaken(r, c)
  \/ \E r \in unresponse : ResponseGiven(r)

\* A coroutine that does not run now was not taken out of the pool, and goes on.
LEMMA CoOthers ==
  ASSUME LuaConstants, IInv, Next, mode \in {"idle", "wake", "error", "fork"}
  PROVE  /\ \A d \in Cos : co[d] \notin Unborn => co'[d] \notin Unborn
         /\ \A d \in Cos : co[d] # "pool" => co'[d] # "pool"
<1>0. CoFacts
  BY CoKnown
<1> USE <1>0 DEF CoFacts, CoNumbers
<1>c. CoStep
  BY CoSteps
<1> QED
  BY <1>c DEF CoStep, Still, Outside, KeepsCo, KeepsWaits, Resumed, Unmarked, Started,
     Forked, TimerSet, Begins, Finished, Yielded, StateTypes, Unborn, Running, Waiting

\* Every step changes the requests in one of a few ways.
LEMMA ReqSteps ==
  ASSUME LuaConstants, IInv, Next
  PROVE  ReqStep
<1>0. CoFacts /\ TypeOK /\ OtherTypes /\ RequestsRight
  BY CoKnown DEF IInv, SchedulerRight
<1>a. /\ StateTypes /\ RunsAlone /\ cur \in Cos /\ None \notin Cos
      /\ request \in [Cos -> 0..MaxReq]
      /\ raised \in Nat /\ co \in [Cos -> Waiting \cup {"pool", "run", "fork", "dead", "lost"}]
      /\ errors \in [1..MaxReq -> Nat] /\ Once(mbox) /\ \A x : Arrived(x) => x \in 1..nreq
  BY <1>0, Names DEF CoFacts, CoTypes, StateTypes, TypeOK, OtherTypes, RequestsRight
<1>b. /\ \A d \in Cos : request[d] # None => co[d] \notin Unborn
      /\ \A d \in responded : co[d] # "pool"
  BY <1>0 DEF RequestsRight, Unborn
<1>c. mode \in Running => co[cur] = "run"
  BY <1>a DEF RunsAlone, Running
<1>1. ASSUME NEW s \in Sessions, DispatchResponse(s) PROVE ReqStep
  <2>1. \A x : Arrived(x)' <=> Arrived(x)
    BY <1>0, <1>a, <1>1, TakesResponse
  <2>2. OthersLive(None)
    <3>1. mode \in {"idle", "wake", "error", "fork"} /\ UNCHANGED <<request, responded>>
      BY <1>1 DEF DispatchResponse, Take, reqVars
    <3>2. /\ \A d \in Cos : co[d] \notin Unborn => co'[d] \notin Unborn
          /\ \A d \in Cos : co[d] # "pool" => co'[d] # "pool"
      BY <3>1, CoOthers
    <3> QED
      BY <1>b, <3>1, <3>2 DEF OthersLive
  <2>3. RequestsStay
    BY <1>1, <2>1, <2>2 DEF DispatchResponse, Take, NoResume, Resume, TakesLock, Cleared,
       Runs, Dead, reqVars, envVars, ansVars, EnvStep, coVars, watchVars, Suspended,
       SameRequests, SameAnswered, InMode, RequestsStay
  <2> QED
    BY <2>3 DEF ReqStep
<1>2. ASSUME NEW r \in 1..MaxReq, DispatchRequest(r) PROVE ReqStep
  <2>1. /\ Arrived(r) /\ ~Arrived(r)'
        /\ \A x : Arrived(x) => Arrived(x)' \/ x = r
        /\ \A x : Arrived(x)' => Arrived(x)
    BY <1>0, <1>a, <1>2, TakesRequest
  <2>2. PICK c \in Cos : Free(c) /\ Runs(c, "run") /\ request' = [request EXCEPT ![c] = r]
    BY <1>2 DEF DispatchRequest
  <2>3. RequestTaken(r, c)
    BY <1>a, <1>b, <1>2, <2>1, <2>2 DEF DispatchRequest, Take, Free, Runs, envVars, ansVars,
       SameAnswered, InMode, OthersLive, RequestTaken
  <2> QED
    BY <2>3 DEF ReqStep
<1>3. ASSUME NEW p \in Peers, NEW s \in Sessions \cup {0}, DispatchError(p, s) PROVE ReqStep
  <2>1. \A x : Arrived(x)' <=> Arrived(x)
    BY <1>0, <1>a, <1>3, TakesError
  <2>2. OthersLive(None)
    <3>1. mode \in {"idle", "wake", "error", "fork"} /\ UNCHANGED <<request, responded>>
      BY <1>3 DEF DispatchError, Take, reqVars
    <3>2. /\ \A d \in Cos : co[d] \notin Unborn => co'[d] \notin Unborn
          /\ \A d \in Cos : co[d] # "pool" => co'[d] # "pool"
      BY <3>1, CoOthers
    <3> QED
      BY <1>b, <3>1, <3>2 DEF OthersLive
  <2>3. RequestsStay
    BY <1>3, <2>1, <2>2 DEF DispatchError, Take, NoResume, Resume, TakesLock, Cleared, Runs,
       Dead, reqVars, envVars, ansVars, EnvStep, coVars, watchVars, Suspended, SameRequests,
       SameAnswered, InMode, RequestsStay
  <2> QED
    BY <2>3 DEF ReqStep
<1>4. CASE DispatchWakeup
  <2>1. \A x : Arrived(x)' <=> Arrived(x)
    BY <1>4 DEF DispatchWakeup, Arrived
  <2>2. OthersLive(None)
    <3>1. mode \in {"idle", "wake", "error", "fork"} /\ UNCHANGED <<request, responded>>
      BY <1>4 DEF DispatchWakeup, Take, reqVars
    <3>2. /\ \A d \in Cos : co[d] \notin Unborn => co'[d] \notin Unborn
          /\ \A d \in Cos : co[d] # "pool" => co'[d] # "pool"
      BY <3>1, CoOthers
    <3> QED
      BY <1>b, <3>1, <3>2 DEF OthersLive
  <2>3. RequestsStay
    BY <1>4, <2>1, <2>2 DEF DispatchWakeup, Take, NoResume, Resume, TakesLock, Cleared,
       Runs, Dead, reqVars, envVars, ansVars, EnvStep, coVars, watchVars, Suspended,
       SameRequests, SameAnswered, InMode, RequestsStay
  <2> QED
    BY <2>3 DEF ReqStep
<1>5. CASE DispatchErrorQueue
  <2>1. \A x : Arrived(x)' <=> Arrived(x)
    BY <1>5 DEF DispatchErrorQueue, Arrived
  <2>2. OthersLive(None)
    <3>1. mode \in {"idle", "wake", "error", "fork"} /\ UNCHANGED <<request, responded>>
      BY <1>5 DEF DispatchErrorQueue, Take, reqVars
    <3>2. /\ \A d \in Cos : co[d] \notin Unborn => co'[d] \notin Unborn
          /\ \A d \in Cos : co[d] # "pool" => co'[d] # "pool"
      BY <3>1, CoOthers
    <3> QED
      BY <1>b, <3>1, <3>2 DEF OthersLive
  <2>3. RequestsStay
    BY <1>5, <2>1, <2>2 DEF DispatchErrorQueue, Take, NoResume, Resume, TakesLock, Cleared,
       Runs, Dead, reqVars, envVars, ansVars, EnvStep, coVars, watchVars, Suspended,
       SameRequests, SameAnswered, InMode, RequestsStay
  <2> QED
    BY <2>3 DEF ReqStep
<1>6. CASE DispatchFork
  <2>1. \A x : Arrived(x)' <=> Arrived(x)
    BY <1>6 DEF DispatchFork, Arrived
  <2>2. OthersLive(None)
    <3>1. mode \in {"idle", "wake", "error", "fork"} /\ UNCHANGED <<request, responded>>
      BY <1>6 DEF DispatchFork, Take, reqVars
    <3>2. /\ \A d \in Cos : co[d] \notin Unborn => co'[d] \notin Unborn
          /\ \A d \in Cos : co[d] # "pool" => co'[d] # "pool"
      BY <3>1, CoOthers
    <3> QED
      BY <1>b, <3>1, <3>2 DEF OthersLive
  <2>3. RequestsStay
    BY <1>6, <2>1, <2>2 DEF DispatchFork, Take, NoResume, Resume, TakesLock, Cleared, Runs,
       Dead, reqVars, envVars, ansVars, EnvStep, coVars, watchVars, Suspended, SameRequests,
       SameAnswered, InMode, RequestsStay
  <2> QED
    BY <2>3 DEF ReqStep
<1>7. CASE AssertFails
  <2>1. CoroutineFails
    BY <1>a, <1>b, <1>c, <1>7 DEF AssertFails, Uncaught, Refuse, ansVars, envVars,
       watchVars, SameRequests, InMode, OthersLive, Arrived, Unborn, Running, CoroutineFails
  <2> QED
    BY <2>1 DEF ReqStep
<1>8. ASSUME NEW p \in Peers, Call(p) PROVE ReqStep
  <2>1. RequestsStay
    BY <1>a, <1>b, <1>c, <1>8 DEF Call, Does, Yields, Watches, Asks, queueVars, Suspended,
       reqVars, envVars, ansVars, RequestsStay, SameRequests, SameAnswered, InMode,
       OthersLive, Arrived, Unborn, Running, Waiting
  <2> QED
    BY <2>1 DEF ReqStep
<1>9. CASE Sleep
  <2>1. RequestsStay
    BY <1>a, <1>b, <1>c, <1>9 DEF Sleep, Does, Yields, Asks, queueVars, Suspended, reqVars,
       envVars, ansVars, RequestsStay, SameRequests, SameAnswered, InMode, OthersLive,
       Arrived, Unborn, Running, Waiting
  <2> QED
    BY <2>1 DEF ReqStep
<1>10. CASE Wait
  <2>1. RequestsStay
    BY <1>a, <1>b, <1>c, <1>10 DEF Wait, Does, Yields, queueVars, Suspended, reqVars,
       envVars, ansVars, RequestsStay, SameRequests, SameAnswered, InMode, OthersLive,
       Arrived, Unborn, Running, Waiting
  <2> QED
    BY <2>1 DEF ReqStep
<1>11. CASE Timeout
  <2>1. RequestsStay
    BY <1>a, <1>b, <1>c, <1>11 DEF Timeout, Does, Free, Asks, watchVars, reqVars, queueVars,
       envVars, ansVars, RequestsStay, SameRequests, SameAnswered, InMode, OthersLive,
       Arrived, Unborn, Running, Waiting
  <2> QED
    BY <2>1 DEF ReqStep
<1>12. CASE Fork
  <2>1. RequestsStay
    BY <1>a, <1>b, <1>c, <1>12 DEF Fork, Does, Free, Stays, reqVars, queueVars, ansVars,
       envVars, RequestsStay, SameRequests, SameAnswered, InMode, OthersLive, Arrived,
       Unborn, Running, Waiting
  <2> QED
    BY <2>1 DEF ReqStep
<1>13. CASE Ret
  <2>1. RetGiven
    BY <1>a, <1>b, <1>c, <1>13 DEF Ret, Does, Second, ansVars, Reply, Stays, coVars,
       queueVars, envVars, RetGiven, SameRequests, SameAnswered, InMode, OthersLive,
       Arrived, Replied, Unborn, Running, Waiting
  <2> QED
    BY <2>1 DEF ReqStep
<1>14. CASE AnswerTwice
  <2>1. RequestsStay
    BY <1>a, <1>b, <1>c, <1>14 DEF AnswerTwice, Does, Second, schedVars, watchVars, reqVars,
       queueVars, envVars, ansVars, RequestsStay, SameRequests, SameAnswered, InMode,
       OthersLive, Arrived, Unborn, Running, Waiting
  <2> QED
    BY <2>1 DEF ReqStep
<1>15. CASE Response
  <2>1. ResponseMade
    BY <1>a, <1>b, <1>c, <1>15 DEF Response, Does, Second, Stays, coVars, queueVars,
       ansVars, envVars, ResponseMade, SameRequests, SameAnswered, InMode, OthersLive,
       Arrived, Unborn, Running, Waiting
  <2> QED
    BY <2>1 DEF ReqStep
<1>16. CASE Enter
  <2>1. RequestsStay
    BY <1>a, <1>b, <1>c, <1>16 DEF Enter, Does, Yields, Stays, reqVars, coVars, ansVars,
       Suspended, envVars, RequestsStay, SameRequests, SameAnswered, InMode, OthersLive,
       Arrived, Unborn, Running, Waiting
  <2> QED
    BY <2>1 DEF ReqStep
<1>17. CASE Raise
  <2>1. CoroutineFails
    BY <1>a, <1>b, <1>c, <1>17 DEF Raise, Uncaught, Refuse, ansVars, envVars, watchVars,
       SameRequests, InMode, OthersLive, Arrived, Unborn, Running, CoroutineFails
  <2> QED
    BY <2>1 DEF ReqStep
<1>18. CASE Exit
  BY <1>18 DEF ReqStep
<1>19. ASSUME NEW c \in Cos, Wakeup(c) PROVE ReqStep
  <2>1. RequestsStay
    BY <1>a, <1>b, <1>c, <1>19 DEF Wakeup, Does, Woken, Stays, reqVars, coVars, queueVars,
       ansVars, envVars, RequestsStay, SameRequests, SameAnswered, InMode, OthersLive,
       Arrived, Unborn, Running, Waiting
  <2> QED
    BY <2>1 DEF ReqStep
<1>20. ASSUME NEW r \in unresponse, Respond(r) PROVE ReqStep
  <2>1. ResponseGiven(r)
    BY <1>a, <1>b, <1>c, <1>20 DEF Respond, Does, ansVars, Reply, Refuse, Stays, coVars,
       queueVars, envVars, ResponseGiven, SameRequests, SameAnswered, InMode, OthersLive,
       Arrived, Replied, Unborn, Running, Waiting
  <2> QED
    BY <2>1 DEF ReqStep
<1>21. CASE Leave
  <2>1. RequestsStay
    BY <1>a, <1>b, <1>c, <1>21 DEF Leave, Stays, reqVars, coVars, ansVars, envVars,
       RequestsStay, SameRequests, SameAnswered, InMode, OthersLive, Arrived, Unborn,
       Running, Waiting
  <2> QED
    BY <2>1 DEF ReqStep
<1>22. CASE CoExit
  <2>1. CoroutineEnds
    BY <1>a, <1>b, <1>c, <1>22 DEF CoExit, Suspended, schedVars, queueVars, envVars,
       CoroutineEnds, SameRequests, SameAnswered, InMode, OthersLive, Arrived, Unborn,
       Running, Waiting
  <2> QED
    BY <2>1 DEF ReqStep
<1>23. ASSUME NEW p \in Peers, Die(p) PROVE ReqStep
  <2>1. \A x : Arrived(x)' <=> Arrived(x)
    BY <1>0, <1>a, <1>23, DieSends
  <2>2. RequestsStay
    BY <1>a, <1>b, <1>23, <2>1 DEF Die, Sends, EnvStep, watchVars, reqVars, coVars, ansVars,
       SameRequests, SameAnswered, InMode, OthersLive, RequestsStay
  <2> QED
    BY <2>2 DEF ReqStep
<1>24. ASSUME NEW p \in Peers, NEW b \in BOOLEAN, Ask(p, b) PROVE ReqStep
  <2>1. \A x : Arrived(x)' <=> Arrived(x) \/ x = nreq + 1
    BY <1>0, <1>a, <1>24, AskSends
  <2>2. RequestMade
    BY <1>a, <1>b, <1>24, <2>1 DEF Ask, Sends, EnvStep, watchVars, reqVars, coVars, ansVars,
       SameAnswered, InMode, OthersLive, RequestMade
  <2> QED
    BY <2>2 DEF ReqStep
<1>25. ASSUME NEW s \in Sessions, Answer(s) PROVE ReqStep
  <2>1. \A x : Arrived(x)' <=> Arrived(x)
    BY <1>0, <1>a, <1>25, AnswerSends
  <2>2. RequestsStay
    BY <1>a, <1>b, <1>25, <2>1 DEF Answer, Sends, EnvStep, watchVars, reqVars, coVars,
       ansVars, SameRequests, SameAnswered, InMode, OthersLive, RequestsStay
  <2> QED
    BY <2>2 DEF ReqStep
<1> QED
  BY <1>1, <1>2, <1>3, <1>4, <1>5, <1>6, <1>7, <1>8, <1>9, <1>10, <1>11, <1>12, <1>13,
     <1>14, <1>15, <1>16, <1>17, <1>18, <1>19, <1>20, <1>21, <1>22, <1>23, <1>24, <1>25
     DEF Next, Dispatcher, Chooses, Ends, Peer

ReqTypes ==
  /\ request \in [Cos -> 0..MaxReq] /\ responded \subseteq Cos /\ unresponse \subseteq 1..MaxReq
  /\ replies \in [1..MaxReq -> Nat] /\ errors \in [1..MaxReq -> Nat]
  /\ forgotten \subseteq 1..MaxReq
  /\ nreq \in 0..MaxReq
WatchTypes == watching_service \in [Peers -> Nat]
SourceTypes == source \in [1..nreq -> Peers] /\ called \in [1..nreq -> BOOLEAN]

\* The parts of RequestsRight.
Fresh == \A x : Arrived(x) => /\ x \in 1..nreq /\ x \notin unresponse /\ replies[x] = 0
                              /\ \A d \in Cos : request[d] # x
Held  == \A d \in Cos : request[d] # None => request[d] \in 1..nreq /\ co[d] \notin Unborn
Owed  == \A d \in Cos : request[d] # None /\ d \notin responded =>
                           request[d] \notin unresponse /\ replies[request[d]] = 0
Apart == \A d, e \in Cos : request[d] # None /\ request[e] = request[d] => d = e
Given == \A d \in responded : co[d] # "pool"
Open  == unresponse \subseteq 1..nreq /\ \A x \in unresponse : replies[x] = 0
Later == \A x \in 1..MaxReq : x > nreq => replies[x] = 0

\* RequestsRight in parts.
LEMMA RequestParts ==
  RequestsRight <=> Once(mbox) /\ Fresh /\ Held /\ Owed /\ Apart /\ Given /\ Open /\ Later
BY DEF RequestsRight, Fresh, Held, Owed, Apart, Given, Open, Later, Unborn

\* What IInv says about the requests.
LEMMA ReqKnown ==
  ASSUME LuaConstants, IInv
  PROVE  /\ ReqTypes /\ SourceTypes /\ WatchTypes /\ Fresh /\ Held /\ Owed /\ Apart
         /\ Given /\ Open /\ Later
         /\ cur \in Cos /\ None \notin Cos /\ None \notin 1..MaxReq /\ None \in 0..MaxReq
         /\ raised \in Nat
         /\ co \in [Cos -> Waiting \cup {"pool", "run", "fork", "dead", "lost"}]
         /\ 1..nreq \subseteq 1..MaxReq /\ 0 \notin 1..nreq /\ nreq \in Nat
         /\ (nreq < MaxReq => nreq + 1 \in 1..MaxReq /\ nreq + 1 \notin 1..nreq)
<1>1. /\ ReqTypes /\ SourceTypes /\ WatchTypes /\ cur \in Cos /\ raised \in Nat
      /\ co \in [Cos -> Waiting \cup {"pool", "run", "fork", "dead", "lost"}]
  BY DEF IInv, SchedulerRight, TypeOK, OtherTypes, ReqTypes, SourceTypes, WatchTypes
<1>2. Fresh /\ Held /\ Owed /\ Apart /\ Given /\ Open /\ Later
  BY RequestParts DEF IInv
<1>3. /\ None \notin Cos /\ None \notin 1..MaxReq /\ None \in 0..MaxReq
      /\ 1..nreq \subseteq 1..MaxReq
      /\ 0 \notin 1..nreq /\ nreq \in Nat
      /\ (nreq < MaxReq => nreq + 1 \in 1..MaxReq /\ nreq + 1 \notin 1..nreq)
  BY <1>1, Names DEF ReqTypes, LuaConstants, None
<1> QED
  BY <1>1, <1>2, <1>3

\* What the proofs about the shapes of ReqStep start from.
ReqFacts ==
  /\ ReqTypes /\ SourceTypes /\ WatchTypes
  /\ Fresh /\ Held /\ Owed /\ Apart /\ Given /\ Open /\ Later
  /\ cur \in Cos /\ None \notin Cos /\ None \notin 1..MaxReq /\ None \in 0..MaxReq
  /\ 1..nreq \subseteq 1..MaxReq /\ nreq \in Nat
  /\ nreq < MaxReq => nreq + 1 \in 1..MaxReq /\ nreq + 1 \notin 1..nreq
  /\ \A x \in 1..nreq : source[x] \in Peers /\ x \in 1..(nreq + 1) /\ ~(x > nreq)
  /\ \A x \in 1..MaxReq : x > nreq + 1 => x > nreq
  /\ \A d \in Cos : request[d] # None =>
        /\ request[d] \in 1..nreq /\ request[d] \in 1..MaxReq /\ source[request[d]] \in Peers
        /\ d \notin responded => replies[request[d]] = 0
  /\ \A x \in unresponse :
        x \in 1..MaxReq /\ x \in 1..nreq /\ source[x] \in Peers /\ replies[x] = 0
\* The same, with what the proofs need of it most often.
LEMMA ReqRight ==
  ASSUME LuaConstants, IInv
  PROVE  ReqFacts
<1>0. /\ ReqTypes /\ SourceTypes /\ WatchTypes
      /\ Fresh /\ Held /\ Owed /\ Apart /\ Given /\ Open /\ Later
      /\ cur \in Cos /\ None \notin Cos /\ None \notin 1..MaxReq /\ None \in 0..MaxReq
      /\ 1..nreq \subseteq 1..MaxReq /\ nreq \in Nat
      /\ nreq < MaxReq => nreq + 1 \in 1..MaxReq /\ nreq + 1 \notin 1..nreq
  BY ReqKnown
<1>1. /\ \A x \in 1..nreq : source[x] \in Peers
      /\ \A d \in Cos : request[d] # None =>
            /\ request[d] \in 1..nreq /\ request[d] \in 1..MaxReq
            /\ source[request[d]] \in Peers
            /\ d \notin responded => replies[request[d]] = 0
      /\ \A x \in unresponse :
            x \in 1..MaxReq /\ x \in 1..nreq /\ source[x] \in Peers /\ replies[x] = 0
  BY <1>0 DEF SourceTypes, Held, Owed, Open
<1>2. /\ \A x \in 1..nreq : x \in 1..(nreq + 1) /\ ~(x > nreq)
      /\ \A x \in 1..MaxReq : x > nreq + 1 => x > nreq
  BY <1>0
<1> QED
  BY <1>0, <1>1, <1>2 DEF ReqFacts

\* skynet.ret and the response function answer one request.
LEMMA RepliedDoes ==
  ASSUME ReqTypes, NEW r \in 1..MaxReq, replies[r] = 0, Replied(r)
  PROVE  /\ replies' \in [1..MaxReq -> Nat] /\ errors' \in [1..MaxReq -> Nat]
         /\ \A x \in 1..MaxReq : x # r => replies'[x] = replies[x]
         /\ replies'[r] <= 1 /\ UNCHANGED forgotten
         /\ \A x \in 1..MaxReq : replies[x] + errors[x] > 0 => replies'[x] + errors'[x] > 0
         /\ source[r] \in dead_service \/ replies'[r] + errors'[r] > 0
<1>0. replies \in [1..MaxReq -> Nat] /\ errors \in [1..MaxReq -> Nat]
  BY DEF ReqTypes
<1>1. CASE source[r] \in dead_service /\ UNCHANGED <<replies, errors>>
  BY <1>0, <1>1 DEF Replied
<1>2. CASE replies' = [replies EXCEPT ![r] = @ + 1] /\ UNCHANGED errors
  <2>1. /\ replies' \in [1..MaxReq -> Nat] /\ replies'[r] = 1
        /\ \A x \in 1..MaxReq : x # r => replies'[x] = replies[x]
    BY <1>0, <1>2
  <2> QED
    BY <1>0, <1>2, <2>1 DEF Replied
<1>3. CASE errors' = [errors EXCEPT ![r] = @ + 1] /\ UNCHANGED replies
  <2>1. /\ errors' \in [1..MaxReq -> Nat] /\ errors'[r] = errors[r] + 1
        /\ \A x \in 1..MaxReq : x # r => errors'[x] = errors[x]
    BY <1>0, <1>3
  <2> QED
    BY <1>0, <1>3, <2>1 DEF Replied
<1> QED
  BY <1>1, <1>2, <1>3 DEF Replied

\* A function on 1..n one value was appended to.
LEMMA AppendFun ==
  ASSUME NEW S, NEW n \in Nat, NEW f \in [1..n -> S], NEW y \in S
  PROVE  /\ Append(f, y) \in [1..(n + 1) -> S] /\ Append(f, y)[n + 1] = y
         /\ \A i \in 1..n : Append(f, y)[i] = f[i]
<1>1. f \in Seq(S) /\ Len(f) = n
  <2>1. f \in Seq(S)
    BY SeqDef
  <2>2. DOMAIN f = 1..n /\ DOMAIN f = 1..Len(f) /\ Len(f) \in Nat
    BY <2>1, LenProperties
  <2> QED
    BY <2>1, <2>2
<1>2. /\ Append(f, y) \in Seq(S) /\ Len(Append(f, y)) = n + 1 /\ Append(f, y)[n + 1] = y
      /\ \A i \in 1..n : Append(f, y)[i] = f[i]
  BY <1>1, AppendProperties
<1>3. Append(f, y) \in [1..(n + 1) -> S]
  <2>1. Append(f, y) = [i \in 1..(n + 1) |-> Append(f, y)[i]]
    BY <1>2, LenProperties
  <2>2. \A i \in 1..(n + 1) : Append(f, y)[i] \in S
    BY <1>2
  <2> QED
    BY <2>1, <2>2
<1> QED
  BY <1>2, <1>3

\* The tables of the requests keep their types.
LEMMA ReqTypesKept ==
  ASSUME LuaConstants, IInv, ReqStep
  PROVE  ReqTypes'
<1>0. ReqFacts
  BY ReqRight
<1> USE <1>0 DEF ReqFacts
<1>1. CASE RequestsStay
  BY <1>1 DEF RequestsStay, SameRequests, SameAnswered, InMode, OthersLive, ReqTypes
<1>2. CASE RetGiven
  <2>1. /\ replies' \in [1..MaxReq -> Nat] /\ errors' \in [1..MaxReq -> Nat]
        /\ \A x \in 1..MaxReq : x # request[cur] => replies'[x] = replies[x]
        /\ replies'[request[cur]] <= 1 /\ UNCHANGED forgotten
    BY <1>2, RepliedDoes DEF RetGiven
  <2> QED
    BY <1>2, <2>1 DEF RetGiven, SameRequests, OthersLive, ReqTypes
<1>3. CASE ResponseMade
  BY <1>3 DEF ResponseMade, SameRequests, SameAnswered, InMode, OthersLive, ReqTypes
<1>4. CASE CoroutineEnds
  BY <1>4 DEF CoroutineEnds, SameRequests, SameAnswered, InMode, OthersLive, Release,
     ReqTypes
<1>5. CASE CoroutineFails
  BY <1>5 DEF CoroutineFails, SameRequests, SameAnswered, InMode, OthersLive, ReqTypes
<1>6. CASE RequestMade
  BY <1>6 DEF RequestMade, SameRequests, SameAnswered, InMode, OthersLive, ReqTypes
<1>7. CASE Exit
  BY <1>7 DEF Exit, SameRequests, SameAnswered, InMode, OthersLive, schedVars, watchVars,
     coVars, queueVars, envVars, Arrived, ReqTypes
<1>8. ASSUME NEW r \in 1..MaxReq, NEW c \in Cos, RequestTaken(r, c) PROVE ReqTypes'
  BY <1>8 DEF RequestTaken, SameRequests, SameAnswered, InMode, OthersLive, ReqTypes
<1>9. ASSUME NEW r \in unresponse, ResponseGiven(r) PROVE ReqTypes'
  <2>1. /\ replies' \in [1..MaxReq -> Nat] /\ errors' \in [1..MaxReq -> Nat]
        /\ \A x \in 1..MaxReq : x # r => replies'[x] = replies[x]
        /\ replies'[r] <= 1 /\ UNCHANGED forgotten
    BY <1>9, RepliedDoes DEF ResponseGiven
  <2> QED
    BY <1>9, <2>1 DEF ResponseGiven, SameRequests, OthersLive, ReqTypes
<1> QED
  BY <1>1, <1>2, <1>3, <1>4, <1>5, <1>6, <1>7, <1>8, <1>9 DEF ReqStep

\* watching_service counts, and dead_service names peers.
LEMMA WatchTypesKept ==
  ASSUME LuaConstants, IInv, ReqStep
  PROVE  WatchTypes'
<1>0. ReqFacts
  BY ReqRight
<1> USE <1>0 DEF ReqFacts
<1>1. CASE RequestsStay
  BY <1>1 DEF RequestsStay, SameRequests, SameAnswered, InMode, OthersLive, WatchTypes
<1>2. CASE RetGiven
  BY <1>2 DEF RetGiven, SameRequests, SameAnswered, InMode, OthersLive, Replied, WatchTypes
<1>3. CASE ResponseMade
  BY <1>3 DEF ResponseMade, SameRequests, SameAnswered, InMode, OthersLive, WatchTypes
<1>4. CASE CoroutineEnds
  BY <1>4 DEF CoroutineEnds, SameRequests, SameAnswered, InMode, OthersLive, Release,
     WatchTypes
<1>5. CASE CoroutineFails
  BY <1>5 DEF CoroutineFails, SameRequests, SameAnswered, InMode, OthersLive, WatchTypes
<1>6. CASE RequestMade
  BY <1>6 DEF RequestMade, SameRequests, SameAnswered, InMode, OthersLive, WatchTypes
<1>7. CASE Exit
  BY <1>7 DEF Exit, SameRequests, SameAnswered, InMode, OthersLive, schedVars, watchVars,
     coVars, queueVars, envVars, Arrived, WatchTypes
<1>8. ASSUME NEW r \in 1..MaxReq, NEW c \in Cos, RequestTaken(r, c) PROVE WatchTypes'
  <2>1. source[r] \in Peers
    BY <1>8 DEF RequestTaken, Fresh
  <2> QED
    BY <1>8, <2>1 DEF RequestTaken, WatchTypes
<1>9. ASSUME NEW r \in unresponse, ResponseGiven(r) PROVE WatchTypes'
  BY <1>9 DEF ResponseGiven, SameRequests, SameAnswered, InMode, OthersLive, Replied,
     Release, WatchTypes
<1> QED
  BY <1>1, <1>2, <1>3, <1>4, <1>5, <1>6, <1>7, <1>8, <1>9 DEF ReqStep

\* Every request has a source and was a call or a send.
LEMMA SourceTypesKept ==
  ASSUME LuaConstants, IInv, ReqStep
  PROVE  SourceTypes'
<1>0. ReqFacts
  BY ReqRight
<1> USE <1>0 DEF ReqFacts
<1>1. CASE RequestsStay
  BY <1>1 DEF RequestsStay, SameRequests, SameAnswered, InMode, OthersLive, SourceTypes
<1>2. CASE RetGiven
  BY <1>2 DEF RetGiven, SameRequests, SameAnswered, InMode, OthersLive, Replied, SourceTypes
<1>3. CASE ResponseMade
  BY <1>3 DEF ResponseMade, SameRequests, SameAnswered, InMode, OthersLive, SourceTypes
<1>4. CASE CoroutineEnds
  BY <1>4 DEF CoroutineEnds, SameRequests, SameAnswered, InMode, OthersLive, Release,
     SourceTypes
<1>5. CASE CoroutineFails
  BY <1>5 DEF CoroutineFails, SameRequests, SameAnswered, InMode, OthersLive, SourceTypes
<1>6. CASE RequestMade
  <2>1. PICK p \in Peers, b \in BOOLEAN : source' = Append(source, p) /\ called' = Append(called, b)
    BY <1>6 DEF RequestMade
  <2>2. source' \in [1..(nreq + 1) -> Peers] /\ called' \in [1..(nreq + 1) -> BOOLEAN]
    BY <2>1, AppendFun DEF SourceTypes
  <2> QED
    BY <1>6, <2>2 DEF SourceTypes, RequestMade
<1>7. CASE Exit
  BY <1>7 DEF Exit, SameRequests, SameAnswered, InMode, OthersLive, schedVars, watchVars,
     coVars, queueVars, envVars, Arrived, SourceTypes
<1>8. ASSUME NEW r \in 1..MaxReq, NEW c \in Cos, RequestTaken(r, c) PROVE SourceTypes'
  BY <1>8 DEF RequestTaken, SameRequests, SameAnswered, InMode, OthersLive, SourceTypes
<1>9. ASSUME NEW r \in unresponse, ResponseGiven(r) PROVE SourceTypes'
  BY <1>9 DEF ResponseGiven, SameRequests, SameAnswered, InMode, OthersLive, Replied,
     Release, SourceTypes
<1> QED
  BY <1>1, <1>2, <1>3, <1>4, <1>5, <1>6, <1>7, <1>8, <1>9 DEF ReqStep

\* A request that has not arrived was not answered.
LEMMA FreshKept ==
  ASSUME LuaConstants, IInv, ReqStep
  PROVE  Fresh'
<1>0. ReqFacts
  BY ReqRight
<1> USE <1>0 DEF ReqFacts
<1>1. CASE RequestsStay
  BY <1>1 DEF RequestsStay, SameRequests, SameAnswered, InMode, OthersLive, ReqTypes, Fresh,
     Open
<1>2. CASE RetGiven
  BY <1>2 DEF RetGiven, SameRequests, SameAnswered, InMode, OthersLive, Replied, ReqTypes,
     Fresh, Open
<1>3. CASE ResponseMade
  BY <1>3 DEF ResponseMade, SameRequests, SameAnswered, InMode, OthersLive, ReqTypes, Fresh,
     Open
<1>4. CASE CoroutineEnds
  BY <1>4 DEF CoroutineEnds, SameRequests, SameAnswered, InMode, OthersLive, Release,
     ReqTypes, Fresh, Open
<1>5. CASE CoroutineFails
  BY <1>5 DEF CoroutineFails, SameRequests, SameAnswered, InMode, OthersLive, ReqTypes,
     Fresh, Open
<1>6. CASE RequestMade
  <2>1. replies[nreq + 1] = 0
    BY <1>6 DEF Later, RequestMade
  <2>2. nreq + 1 \notin unresponse /\ \A d \in Cos : request[d] # nreq + 1
    BY <1>6 DEF RequestMade, Open
  <2> QED
    BY <1>6, <2>1, <2>2 DEF RequestMade, SameAnswered, Fresh
<1>7. CASE Exit
  BY <1>7 DEF Exit, SameRequests, SameAnswered, InMode, OthersLive, schedVars, watchVars,
     coVars, queueVars, envVars, Arrived, ReqTypes, Fresh, Open
<1>8. ASSUME NEW r \in 1..MaxReq, NEW c \in Cos, RequestTaken(r, c) PROVE Fresh'
  BY <1>8 DEF RequestTaken, SameRequests, SameAnswered, InMode, OthersLive, ReqTypes, Fresh,
     Open
<1>9. ASSUME NEW r \in unresponse, ResponseGiven(r) PROVE Fresh'
  BY <1>9 DEF ResponseGiven, SameRequests, SameAnswered, InMode, OthersLive, Replied,
     Release, ReqTypes, Fresh, Open
<1> QED
  BY <1>1, <1>2, <1>3, <1>4, <1>5, <1>6, <1>7, <1>8, <1>9 DEF ReqStep

\* A coroutine serves a request that has arrived.
LEMMA HeldKept ==
  ASSUME LuaConstants, IInv, ReqStep
  PROVE  Held'
<1>0. ReqFacts
  BY ReqRight
<1> USE <1>0 DEF ReqFacts
<1>1. CASE RequestsStay
  BY <1>1 DEF RequestsStay, SameRequests, SameAnswered, InMode, OthersLive, ReqTypes, Held,
     Fresh, Unborn
<1>2. CASE RetGiven
  BY <1>2 DEF RetGiven, SameRequests, SameAnswered, InMode, OthersLive, Replied, ReqTypes,
     Held, Fresh, Unborn
<1>3. CASE ResponseMade
  BY <1>3 DEF ResponseMade, SameRequests, SameAnswered, InMode, OthersLive, ReqTypes, Held,
     Fresh, Unborn
<1>4. CASE CoroutineEnds
  BY <1>4 DEF CoroutineEnds, SameRequests, SameAnswered, InMode, OthersLive, Release,
     ReqTypes, Held, Fresh, Unborn
<1>5. CASE CoroutineFails
  BY <1>5 DEF CoroutineFails, SameRequests, SameAnswered, InMode, OthersLive, ReqTypes,
     Held, Fresh, Unborn
<1>6. CASE RequestMade
  BY <1>6 DEF RequestMade, SameRequests, SameAnswered, InMode, OthersLive, ReqTypes, Held,
     Fresh, Unborn
<1>7. CASE Exit
  BY <1>7 DEF Exit, SameRequests, SameAnswered, InMode, OthersLive, schedVars, watchVars,
     coVars, queueVars, envVars, Arrived, ReqTypes, Held, Fresh, Unborn
<1>8. ASSUME NEW r \in 1..MaxReq, NEW c \in Cos, RequestTaken(r, c) PROVE Held'
  BY <1>8 DEF RequestTaken, SameRequests, SameAnswered, InMode, OthersLive, ReqTypes, Held,
     Fresh, Unborn
<1>9. ASSUME NEW r \in unresponse, ResponseGiven(r) PROVE Held'
  BY <1>9 DEF ResponseGiven, SameRequests, SameAnswered, InMode, OthersLive, Replied,
     Release, ReqTypes, Held, Fresh, Unborn
<1> QED
  BY <1>1, <1>2, <1>3, <1>4, <1>5, <1>6, <1>7, <1>8, <1>9 DEF ReqStep

\* Whoever serves a request has not answered it before skynet.ret or skynet.response.
LEMMA OwedKept ==
  ASSUME LuaConstants, IInv, ReqStep
  PROVE  Owed'
<1>0. ReqFacts
  BY ReqRight
<1> USE <1>0 DEF ReqFacts
<1>1. CASE RequestsStay
  BY <1>1 DEF RequestsStay, SameRequests, SameAnswered, InMode, OthersLive, ReqTypes, Owed,
     Given, Fresh, Open, Apart, Held
<1>2. CASE RetGiven
  <2>1. /\ replies' \in [1..MaxReq -> Nat] /\ errors' \in [1..MaxReq -> Nat]
        /\ \A x \in 1..MaxReq : x # request[cur] => replies'[x] = replies[x]
        /\ replies'[request[cur]] <= 1 /\ UNCHANGED forgotten
    BY <1>2, RepliedDoes DEF RetGiven
  <2> QED
    BY <1>2, <2>1 DEF RetGiven, SameRequests, OthersLive, ReqTypes, Owed, Given, Fresh,
       Open, Apart, Held
<1>3. CASE ResponseMade
  BY <1>3 DEF ResponseMade, SameRequests, SameAnswered, InMode, OthersLive, ReqTypes, Owed,
     Given, Fresh, Open, Apart, Held
<1>4. CASE CoroutineEnds
  BY <1>4 DEF CoroutineEnds, SameRequests, SameAnswered, InMode, OthersLive, Release,
     ReqTypes, Owed, Given, Fresh, Open, Apart, Held
<1>5. CASE CoroutineFails
  BY <1>5 DEF CoroutineFails, SameRequests, SameAnswered, InMode, OthersLive, ReqTypes,
     Owed, Given, Fresh, Open, Apart, Held
<1>6. CASE RequestMade
  BY <1>6 DEF RequestMade, SameRequests, SameAnswered, InMode, OthersLive, ReqTypes, Owed,
     Given, Fresh, Open, Apart, Held
<1>7. CASE Exit
  BY <1>7 DEF Exit, SameRequests, SameAnswered, InMode, OthersLive, schedVars, watchVars,
     coVars, queueVars, envVars, Arrived, ReqTypes, Owed, Given, Fresh, Open, Apart, Held
<1>8. ASSUME NEW r \in 1..MaxReq, NEW c \in Cos, RequestTaken(r, c) PROVE Owed'
  BY <1>8 DEF RequestTaken, SameRequests, SameAnswered, InMode, OthersLive, ReqTypes, Owed,
     Given, Fresh, Open, Apart, Held
<1>9. ASSUME NEW r \in unresponse, ResponseGiven(r) PROVE Owed'
  <2>1. /\ replies' \in [1..MaxReq -> Nat] /\ errors' \in [1..MaxReq -> Nat]
        /\ \A x \in 1..MaxReq : x # r => replies'[x] = replies[x]
        /\ replies'[r] <= 1 /\ UNCHANGED forgotten
    BY <1>9, RepliedDoes DEF ResponseGiven
  <2> QED
    BY <1>9, <2>1 DEF ResponseGiven, SameRequests, OthersLive, ReqTypes, Owed, Given, Fresh,
       Open, Apart, Held
<1> QED
  BY <1>1, <1>2, <1>3, <1>4, <1>5, <1>6, <1>7, <1>8, <1>9 DEF ReqStep

\* Two coroutines serve two requests.
LEMMA ApartKept ==
  ASSUME LuaConstants, IInv, ReqStep
  PROVE  Apart'
<1>0. ReqFacts
  BY ReqRight
<1> USE <1>0 DEF ReqFacts
<1>1. CASE RequestsStay
  BY <1>1 DEF RequestsStay, SameRequests, SameAnswered, InMode, OthersLive, ReqTypes, Apart,
     Fresh
<1>2. CASE RetGiven
  BY <1>2 DEF RetGiven, SameRequests, SameAnswered, InMode, OthersLive, Replied, ReqTypes,
     Apart, Fresh
<1>3. CASE ResponseMade
  BY <1>3 DEF ResponseMade, SameRequests, SameAnswered, InMode, OthersLive, ReqTypes, Apart,
     Fresh
<1>4. CASE CoroutineEnds
  BY <1>4 DEF CoroutineEnds, SameRequests, SameAnswered, InMode, OthersLive, Release,
     ReqTypes, Apart, Fresh
<1>5. CASE CoroutineFails
  BY <1>5 DEF CoroutineFails, SameRequests, SameAnswered, InMode, OthersLive, ReqTypes,
     Apart, Fresh
<1>6. CASE RequestMade
  BY <1>6 DEF RequestMade, SameRequests, SameAnswered, InMode, OthersLive, ReqTypes, Apart,
     Fresh
<1>7. CASE Exit
  BY <1>7 DEF Exit, SameRequests, SameAnswered, InMode, OthersLive, schedVars, watchVars,
     coVars, queueVars, envVars, Arrived, ReqTypes, Apart, Fresh
<1>8. ASSUME NEW r \in 1..MaxReq, NEW c \in Cos, RequestTaken(r, c) PROVE Apart'
  BY <1>8 DEF RequestTaken, SameRequests, SameAnswered, InMode, OthersLive, ReqTypes, Apart,
     Fresh
<1>9. ASSUME NEW r \in unresponse, ResponseGiven(r) PROVE Apart'
  BY <1>9 DEF ResponseGiven, SameRequests, SameAnswered, InMode, OthersLive, Replied,
     Release, ReqTypes, Apart, Fresh
<1> QED
  BY <1>1, <1>2, <1>3, <1>4, <1>5, <1>6, <1>7, <1>8, <1>9 DEF ReqStep

\* A coroutine that goes back to the pool has no answer to give.
LEMMA GivenKept ==
  ASSUME LuaConstants, IInv, ReqStep
  PROVE  Given'
<1>0. ReqFacts
  BY ReqRight
<1> USE <1>0 DEF ReqFacts
<1>1. CASE RequestsStay
  BY <1>1 DEF RequestsStay, SameRequests, SameAnswered, InMode, OthersLive, ReqTypes, Given
<1>2. CASE RetGiven
  BY <1>2 DEF RetGiven, SameRequests, SameAnswered, InMode, OthersLive, Replied, ReqTypes,
     Given
<1>3. CASE ResponseMade
  BY <1>3 DEF ResponseMade, SameRequests, SameAnswered, InMode, OthersLive, ReqTypes, Given
<1>4. CASE CoroutineEnds
  BY <1>4 DEF CoroutineEnds, SameRequests, SameAnswered, InMode, OthersLive, Release,
     ReqTypes, Given
<1>5. CASE CoroutineFails
  BY <1>5 DEF CoroutineFails, SameRequests, SameAnswered, InMode, OthersLive, ReqTypes,
     Given
<1>6. CASE RequestMade
  BY <1>6 DEF RequestMade, SameRequests, SameAnswered, InMode, OthersLive, ReqTypes, Given
<1>7. CASE Exit
  BY <1>7 DEF Exit, SameRequests, SameAnswered, InMode, OthersLive, schedVars, watchVars,
     coVars, queueVars, envVars, Arrived, ReqTypes, Given
<1>8. ASSUME NEW r \in 1..MaxReq, NEW c \in Cos, RequestTaken(r, c) PROVE Given'
  BY <1>8 DEF RequestTaken, SameRequests, SameAnswered, InMode, OthersLive, ReqTypes, Given
<1>9. ASSUME NEW r \in unresponse, ResponseGiven(r) PROVE Given'
  BY <1>9 DEF ResponseGiven, SameRequests, SameAnswered, InMode, OthersLive, Replied,
     Release, ReqTypes, Given
<1> QED
  BY <1>1, <1>2, <1>3, <1>4, <1>5, <1>6, <1>7, <1>8, <1>9 DEF ReqStep

\* A response function that was not called has not answered.
LEMMA OpenKept ==
  ASSUME LuaConstants, IInv, ReqStep
  PROVE  Open'
<1>0. ReqFacts
  BY ReqRight
<1> USE <1>0 DEF ReqFacts
<1>1. CASE RequestsStay
  BY <1>1 DEF RequestsStay, SameRequests, SameAnswered, InMode, OthersLive, ReqTypes, Open,
     Held, Owed, Fresh
<1>2. CASE RetGiven
  <2>1. /\ replies' \in [1..MaxReq -> Nat] /\ errors' \in [1..MaxReq -> Nat]
        /\ \A x \in 1..MaxReq : x # request[cur] => replies'[x] = replies[x]
        /\ replies'[request[cur]] <= 1 /\ UNCHANGED forgotten
    BY <1>2, RepliedDoes DEF RetGiven
  <2> QED
    BY <1>2, <2>1 DEF RetGiven, SameRequests, OthersLive, ReqTypes, Open, Held, Owed, Fresh
<1>3. CASE ResponseMade
  BY <1>3 DEF ResponseMade, SameRequests, SameAnswered, InMode, OthersLive, ReqTypes, Open,
     Held, Owed, Fresh
<1>4. CASE CoroutineEnds
  BY <1>4 DEF CoroutineEnds, SameRequests, SameAnswered, InMode, OthersLive, Release,
     ReqTypes, Open, Held, Owed, Fresh
<1>5. CASE CoroutineFails
  BY <1>5 DEF CoroutineFails, SameRequests, SameAnswered, InMode, OthersLive, ReqTypes,
     Open, Held, Owed, Fresh
<1>6. CASE RequestMade
  BY <1>6 DEF RequestMade, SameRequests, SameAnswered, InMode, OthersLive, ReqTypes, Open,
     Held, Owed, Fresh
<1>7. CASE Exit
  BY <1>7 DEF Exit, SameRequests, SameAnswered, InMode, OthersLive, schedVars, watchVars,
     coVars, queueVars, envVars, Arrived, ReqTypes, Open, Held, Owed, Fresh
<1>8. ASSUME NEW r \in 1..MaxReq, NEW c \in Cos, RequestTaken(r, c) PROVE Open'
  BY <1>8 DEF RequestTaken, SameRequests, SameAnswered, InMode, OthersLive, ReqTypes, Open,
     Held, Owed, Fresh
<1>9. ASSUME NEW r \in unresponse, ResponseGiven(r) PROVE Open'
  <2>1. /\ replies' \in [1..MaxReq -> Nat] /\ errors' \in [1..MaxReq -> Nat]
        /\ \A x \in 1..MaxReq : x # r => replies'[x] = replies[x]
        /\ replies'[r] <= 1 /\ UNCHANGED forgotten
    BY <1>9, RepliedDoes DEF ResponseGiven
  <2> QED
    BY <1>9, <2>1 DEF ResponseGiven, SameRequests, OthersLive, ReqTypes, Open, Held, Owed,
       Fresh
<1> QED
  BY <1>1, <1>2, <1>3, <1>4, <1>5, <1>6, <1>7, <1>8, <1>9 DEF ReqStep

\* A request that was not made was not answered.
LEMMA LaterKept ==
  ASSUME LuaConstants, IInv, ReqStep
  PROVE  Later'
<1>0. ReqFacts
  BY ReqRight
<1> USE <1>0 DEF ReqFacts
<1>1. CASE RequestsStay
  BY <1>1 DEF RequestsStay, SameRequests, SameAnswered, InMode, OthersLive, ReqTypes, Later
<1>2. CASE RetGiven
  <2>1. /\ replies' \in [1..MaxReq -> Nat] /\ errors' \in [1..MaxReq -> Nat]
        /\ \A x \in 1..MaxReq : x # request[cur] => replies'[x] = replies[x]
        /\ replies'[request[cur]] <= 1 /\ UNCHANGED forgotten
    BY <1>2, RepliedDoes DEF RetGiven
  <2> QED
    BY <1>2, <2>1 DEF RetGiven, SameRequests, OthersLive, ReqTypes, Later
<1>3. CASE ResponseMade
  BY <1>3 DEF ResponseMade, SameRequests, SameAnswered, InMode, OthersLive, ReqTypes, Later
<1>4. CASE CoroutineEnds
  BY <1>4 DEF CoroutineEnds, SameRequests, SameAnswered, InMode, OthersLive, Release,
     ReqTypes, Later
<1>5. CASE CoroutineFails
  BY <1>5 DEF CoroutineFails, SameRequests, SameAnswered, InMode, OthersLive, ReqTypes,
     Later
<1>6. CASE RequestMade
  BY <1>6 DEF RequestMade, SameRequests, SameAnswered, InMode, OthersLive, ReqTypes, Later
<1>7. CASE Exit
  BY <1>7 DEF Exit, SameRequests, SameAnswered, InMode, OthersLive, schedVars, watchVars,
     coVars, queueVars, envVars, Arrived, ReqTypes, Later
<1>8. ASSUME NEW r \in 1..MaxReq, NEW c \in Cos, RequestTaken(r, c) PROVE Later'
  BY <1>8 DEF RequestTaken, SameRequests, SameAnswered, InMode, OthersLive, ReqTypes, Later
<1>9. ASSUME NEW r \in unresponse, ResponseGiven(r) PROVE Later'
  <2>1. /\ replies' \in [1..MaxReq -> Nat] /\ errors' \in [1..MaxReq -> Nat]
        /\ \A x \in 1..MaxReq : x # r => replies'[x] = replies[x]
        /\ replies'[r] <= 1 /\ UNCHANGED forgotten
    BY <1>9, RepliedDoes DEF ResponseGiven
  <2> QED
    BY <1>9, <2>1 DEF ResponseGiven, SameRequests, OthersLive, ReqTypes, Later
<1> QED
  BY <1>1, <1>2, <1>3, <1>4, <1>5, <1>6, <1>7, <1>8, <1>9 DEF ReqStep

\* skynet.ret, skynet.response and the functions it returns answer once.
LEMMA OneReplyKept ==
  ASSUME LuaConstants, IInv, ReqStep
  PROVE  OneReply'
<1>0. ReqFacts
  BY ReqRight
<1> USE <1>0 DEF ReqFacts
<1>c. OneReply
  BY DEF IInv, SchedulerRight
<1>1. CASE RequestsStay
  BY <1>c, <1>1 DEF RequestsStay, SameRequests, SameAnswered, InMode, OthersLive, ReqTypes,
     OneReply
<1>2. CASE RetGiven
  <2>1. /\ replies' \in [1..MaxReq -> Nat] /\ errors' \in [1..MaxReq -> Nat]
        /\ \A x \in 1..MaxReq : x # request[cur] => replies'[x] = replies[x]
        /\ replies'[request[cur]] <= 1 /\ UNCHANGED forgotten
    BY <1>2, RepliedDoes DEF RetGiven
  <2> QED
    BY <1>c, <1>2, <2>1 DEF RetGiven, SameRequests, OthersLive, ReqTypes, OneReply
<1>3. CASE ResponseMade
  BY <1>c, <1>3 DEF ResponseMade, SameRequests, SameAnswered, InMode, OthersLive, ReqTypes,
     OneReply
<1>4. CASE CoroutineEnds
  BY <1>c, <1>4 DEF CoroutineEnds, SameRequests, SameAnswered, InMode, OthersLive, Release,
     ReqTypes, OneReply
<1>5. CASE CoroutineFails
  BY <1>c, <1>5 DEF CoroutineFails, SameRequests, SameAnswered, InMode, OthersLive,
     ReqTypes, OneReply
<1>6. CASE RequestMade
  BY <1>c, <1>6 DEF RequestMade, SameRequests, SameAnswered, InMode, OthersLive, ReqTypes,
     OneReply
<1>7. CASE Exit
  BY <1>c, <1>7 DEF Exit, SameRequests, SameAnswered, InMode, OthersLive, schedVars,
     watchVars, coVars, queueVars, envVars, Arrived, ReqTypes, OneReply
<1>8. ASSUME NEW r \in 1..MaxReq, NEW c \in Cos, RequestTaken(r, c) PROVE OneReply'
  BY <1>c, <1>8 DEF RequestTaken, SameRequests, SameAnswered, InMode, OthersLive, ReqTypes,
     OneReply
<1>9. ASSUME NEW r \in unresponse, ResponseGiven(r) PROVE OneReply'
  <2>1. /\ replies' \in [1..MaxReq -> Nat] /\ errors' \in [1..MaxReq -> Nat]
        /\ \A x \in 1..MaxReq : x # r => replies'[x] = replies[x]
        /\ replies'[r] <= 1 /\ UNCHANGED forgotten
    BY <1>9, RepliedDoes DEF ResponseGiven
  <2> QED
    BY <1>c, <1>9, <2>1 DEF ResponseGiven, SameRequests, OthersLive, ReqTypes, OneReply
<1> QED
  BY <1>1, <1>2, <1>3, <1>4, <1>5, <1>6, <1>7, <1>8, <1>9 DEF ReqStep

-----------------------------------------------------------------------------
(* No caller is forgotten.                                                *)

\* The parts of Accounted.
Accounts == \A x \in 1..nreq : ~called[x] \/ Arrived(x) \/ (\E d \in Cos : request[d] = x)
                                 \/ x \in unresponse \/ Settled(x)
Answers  == \A d \in responded : request[d] # None =>
               request[d] \in unresponse \/ Settled(request[d])

\* Accounted in parts.
LEMMA AccountParts ==
  Accounted <=> (mode # "exited" => Accounts /\ Answers)
BY DEF Accounted, Accounts, Answers

\* Answers are not taken back.
LEMMA MoreStays ==
  ASSUME ReqTypes, ReqTypes',
         \A x \in 1..MaxReq : replies'[x] = replies[x] /\ errors'[x] >= errors[x]
  PROVE  \A x \in 1..MaxReq : replies[x] + errors[x] > 0 => replies'[x] + errors'[x] > 0
BY DEF ReqTypes

\* What is settled with a caller stays settled.
LEMMA SettledStays ==
  ASSUME LuaConstants, IInv, ReqStep
  PROVE  ReqTypes' /\ \A x \in 1..nreq : Settled(x) => Settled(x)'
<1>0. ReqFacts
  BY ReqRight
<1> USE <1>0 DEF ReqFacts
<1>c. /\ mode # "exited" => Accounts /\ Answers
      /\ \A x \in 1..MaxReq : replies[x] \in Nat /\ errors[x] \in Nat
  BY AccountParts DEF IInv, ReqTypes
<1>d. ReqTypes'
  BY ReqTypesKept
<1>1. CASE RequestsStay
  BY <1>d, <1>1 DEF RequestsStay, SameRequests, SameAnswered, InMode, OthersLive, Settled,
     ReqTypes
<1>2. CASE RetGiven
  <2>1. \A x \in 1..MaxReq : replies[x] + errors[x] > 0 => replies'[x] + errors'[x] > 0
    BY <1>2, RepliedDoes DEF RetGiven
  <2> QED
    BY <1>d, <1>2, <2>1 DEF RetGiven, Replied, SameRequests, Settled
<1>3. CASE ResponseMade
  BY <1>d, <1>3 DEF ResponseMade, SameRequests, SameAnswered, InMode, OthersLive, Settled,
     ReqTypes
<1>4. CASE CoroutineEnds
  BY <1>d, <1>4 DEF CoroutineEnds, SameRequests, SameAnswered, InMode, OthersLive, Release,
     Settled, ReqTypes
<1>5. CASE CoroutineFails
  <2>1. \A x \in 1..MaxReq : replies'[x] = replies[x] /\ errors'[x] >= errors[x]
    BY <1>c, <1>5 DEF CoroutineFails, ReqTypes
  <2>2. \A x \in 1..MaxReq : replies[x] + errors[x] > 0 => replies'[x] + errors'[x] > 0
    BY <1>c, <1>d, <2>1, MoreStays
  <2> QED
    BY <1>d, <1>5, <2>2 DEF CoroutineFails, SameRequests, Settled
<1>6. CASE RequestMade
  <2>1. PICK p \in Peers : source' = Append(source, p)
    BY <1>6 DEF RequestMade
  <2>2. \A x \in 1..nreq : source'[x] = source[x]
    BY <2>1, AppendFun DEF SourceTypes
  <2> QED
    BY <1>d, <1>6, <2>2 DEF RequestMade, SameAnswered, Settled
<1>7. CASE Exit
  <2>1. \A x \in 1..MaxReq : replies'[x] = replies[x] /\ errors'[x] >= errors[x]
    BY <1>c, <1>7 DEF Exit, ReqTypes
  <2>2. \A x \in 1..MaxReq : replies[x] + errors[x] > 0 => replies'[x] + errors'[x] > 0
    BY <1>c, <1>d, <2>1, MoreStays
  <2> QED
    BY <1>d, <1>7, <2>2 DEF Exit, envVars, watchVars, Settled
<1>8. ASSUME NEW r \in 1..MaxReq, NEW c \in Cos, RequestTaken(r, c)
      PROVE ReqTypes' /\ \A x \in 1..nreq : Settled(x) => Settled(x)'
  BY <1>d, <1>8 DEF RequestTaken, SameRequests, SameAnswered, InMode, OthersLive, Settled,
     ReqTypes
<1>9. ASSUME NEW r \in unresponse, ResponseGiven(r)
      PROVE ReqTypes' /\ \A x \in 1..nreq : Settled(x) => Settled(x)'
  <2>1. \A x \in 1..MaxReq : replies[x] + errors[x] > 0 => replies'[x] + errors'[x] > 0
    BY <1>9, RepliedDoes DEF ResponseGiven
  <2> QED
    BY <1>d, <1>9, <2>1 DEF ResponseGiven, Replied, SameRequests, Settled
<1> QED
  BY <1>1, <1>2, <1>3, <1>4, <1>5, <1>6, <1>7, <1>8, <1>9 DEF ReqStep

\* A call that is not answered is on its way, served, or owed by a response function.
LEMMA AccountsKept ==
  ASSUME LuaConstants, IInv, ReqStep
  PROVE  mode' # "exited" => Accounts'
<1>0. ReqFacts
  BY ReqRight
<1> USE <1>0 DEF ReqFacts
<1>c. /\ mode # "exited" => Accounts /\ Answers
      /\ \A x \in 1..MaxReq : replies[x] \in Nat /\ errors[x] \in Nat
  BY AccountParts DEF IInv, ReqTypes
<1>d. /\ ReqTypes' /\ \A x \in 1..nreq : Settled(x) => Settled(x)'
  BY SettledStays
<1>1. CASE RequestsStay
  BY <1>c, <1>d, <1>1 DEF RequestsStay, SameRequests, SameAnswered, InMode, OthersLive,
     Accounts
<1>2. CASE RetGiven
  BY <1>c, <1>d, <1>2 DEF RetGiven, SameRequests, SameAnswered, InMode, OthersLive, Replied,
     Accounts
<1>3. CASE ResponseMade
  BY <1>c, <1>d, <1>3 DEF ResponseMade, SameRequests, SameAnswered, InMode, OthersLive,
     Accounts
<1>4. CASE CoroutineEnds
  <2>1. Accounts /\ Answers /\ SameRequests
    BY <1>c, <1>4 DEF CoroutineEnds, InMode
  <2> PICK q : q = request[cur]
    OBVIOUS
  <2>2. q # None => q \in unresponse \/ Settled(q)'
    <3>1. CASE cur \in responded
      BY <1>d, <2>1, <3>1 DEF Answers
    <3>2. CASE cur \notin responded
      BY <1>4, <3>2 DEF CoroutineEnds, Settled
    <3> QED
      BY <3>1, <3>2
  <2>3. ASSUME NEW x \in 1..nreq, NEW d \in Cos, request[d] = x
        PROVE  (\E e \in Cos : request'[e] = x) \/ x \in unresponse \/ Settled(x)'
    <3>1. CASE d = cur
      <4>1. q = x /\ q # None
        BY <2>3, <3>1
      <4> QED
        BY <2>2, <4>1
    <3>2. CASE d # cur
      BY <1>4, <2>3, <3>2 DEF CoroutineEnds, ReqTypes
    <3> QED
      BY <3>1, <3>2
  <2> QED
    BY <1>d, <1>4, <2>1, <2>3 DEF CoroutineEnds, SameRequests, Accounts
<1>5. CASE CoroutineFails
  <2>1. Accounts /\ SameRequests
    BY <1>c, <1>5 DEF CoroutineFails, InMode
  <2> PICK q : q = request[cur]
    OBVIOUS
  <2>2. q # None => ~called[q] \/ Settled(q)'
    <3>1. CASE q # None /\ called[q]
      <4>1. errors'[q] > 0 /\ replies'[q] \in Nat /\ errors'[q] \in Nat
        BY <1>c, <1>d, <1>5, <3>1 DEF CoroutineFails, ReqTypes
      <4>2. replies'[q] + errors'[q] > 0
        BY <4>1
      <4> QED
        BY <4>2 DEF Settled
    <3> QED
      BY <3>1
  <2>3. ASSUME NEW x \in 1..nreq, NEW d \in Cos, request[d] = x
        PROVE  (\E e \in Cos : request'[e] = x) \/ ~called[x] \/ Settled(x)'
    <3>1. CASE d = cur
      <4>1. q = x /\ q # None
        BY <2>3, <3>1
      <4> QED
        BY <2>2, <4>1
    <3>2. CASE d # cur
      BY <1>5, <2>3, <3>2 DEF CoroutineFails, ReqTypes
    <3> QED
      BY <3>1, <3>2
  <2> QED
    BY <1>d, <1>5, <2>1, <2>3 DEF CoroutineFails, SameRequests, Accounts
<1>6. CASE RequestMade
  <2>1. PICK b \in BOOLEAN : called' = Append(called, b)
    BY <1>6 DEF RequestMade
  <2>2. \A x \in 1..nreq : called'[x] = called[x]
    BY <2>1, AppendFun DEF SourceTypes
  <2>3. Accounts
    BY <1>c, <1>6 DEF RequestMade, InMode
  <2>4. \A x \in 1..(nreq + 1) : x \in 1..nreq \/ x = nreq + 1
    OBVIOUS
  <2> QED
    BY <1>d, <1>6, <2>2, <2>3, <2>4 DEF RequestMade, Accounts
<1>7. CASE Exit
  BY <1>7 DEF Exit
<1>8. ASSUME NEW r \in 1..MaxReq, NEW c \in Cos, RequestTaken(r, c)
      PROVE mode' # "exited" => Accounts'
  <2>1. Accounts
    BY <1>c, <1>8 DEF RequestTaken, InMode
  <2>2. request[c] = None
    BY <1>8 DEF RequestTaken, Held, Unborn
  <2>3. \A x \in 1..nreq : (\E d \in Cos : request[d] = x) => \E d \in Cos : request'[d] = x
    BY <1>8, <2>2 DEF RequestTaken, ReqTypes
  <2>4. request'[c] = r
    BY <1>8 DEF RequestTaken, ReqTypes
  <2> QED
    BY <1>d, <1>8, <2>1, <2>3, <2>4 DEF RequestTaken, Accounts
<1>9. ASSUME NEW r \in unresponse, ResponseGiven(r) PROVE mode' # "exited" => Accounts'
  <2>1. Accounts /\ SameRequests
    BY <1>c, <1>9 DEF ResponseGiven, InMode
  <2>2. Settled(r)'
    <3>1. source[r] \in dead_service \/ replies'[r] + errors'[r] > 0
      BY <1>9, RepliedDoes DEF ResponseGiven
    <3> QED
      BY <1>9, <2>1, <3>1 DEF Settled, SameRequests, ResponseGiven
  <2> QED
    BY <1>d, <1>9, <2>1, <2>2 DEF ResponseGiven, SameRequests, Accounts
<1> QED
  BY <1>1, <1>2, <1>3, <1>4, <1>5, <1>6, <1>7, <1>8, <1>9 DEF ReqStep

\* A coroutine that has answered has answered its caller.
LEMMA AnswersKept ==
  ASSUME LuaConstants, IInv, ReqStep
  PROVE  mode' # "exited" => Answers'
<1>0. ReqFacts
  BY ReqRight
<1> USE <1>0 DEF ReqFacts
<1>c. /\ mode # "exited" => Accounts /\ Answers
      /\ \A x \in 1..MaxReq : replies[x] \in Nat /\ errors[x] \in Nat
  BY AccountParts DEF IInv, ReqTypes
<1>d. /\ ReqTypes' /\ \A x \in 1..nreq : Settled(x) => Settled(x)'
  BY SettledStays
<1>1. CASE RequestsStay
  BY <1>c, <1>d, <1>1 DEF RequestsStay, SameRequests, SameAnswered, InMode, OthersLive,
     Answers, ReqTypes
<1>2. CASE RetGiven
  <2>1. Answers /\ SameRequests
    BY <1>c, <1>2 DEF RetGiven, InMode
  <2> PICK q : q = request[cur]
    OBVIOUS
  <2>2. Settled(q)'
    <3>1. source[q] \in dead_service \/ replies'[q] + errors'[q] > 0
      BY <1>2, RepliedDoes DEF RetGiven
    <3> QED
      BY <1>2, <2>1, <3>1 DEF Settled, SameRequests, RetGiven
  <2> QED
    BY <1>d, <1>2, <2>1, <2>2 DEF RetGiven, Answers, ReqTypes
<1>3. CASE ResponseMade
  BY <1>c, <1>d, <1>3 DEF ResponseMade, SameRequests, SameAnswered, InMode, OthersLive,
     Answers, ReqTypes
<1>4. CASE CoroutineEnds
  BY <1>c, <1>d, <1>4 DEF CoroutineEnds, SameRequests, SameAnswered, InMode, OthersLive,
     Release, Answers, ReqTypes
<1>5. CASE CoroutineFails
  BY <1>c, <1>d, <1>5 DEF CoroutineFails, SameRequests, SameAnswered, InMode, OthersLive,
     Answers, ReqTypes
<1>6. CASE RequestMade
  BY <1>c, <1>d, <1>6 DEF RequestMade, SameRequests, SameAnswered, InMode, OthersLive,
     Answers, ReqTypes
<1>7. CASE Exit
  BY <1>7 DEF Exit
<1>8. ASSUME NEW r \in 1..MaxReq, NEW c \in Cos, RequestTaken(r, c)
      PROVE mode' # "exited" => Answers'
  <2>1. Answers
    BY <1>c, <1>8 DEF RequestTaken, InMode
  <2>2. c \notin responded
    BY <1>8 DEF RequestTaken, Given
  <2> QED
    BY <1>d, <1>8, <2>1, <2>2 DEF RequestTaken, Answers, ReqTypes
<1>9. ASSUME NEW r \in unresponse, ResponseGiven(r) PROVE mode' # "exited" => Answers'
  <2>1. Answers /\ SameRequests
    BY <1>c, <1>9 DEF ResponseGiven, InMode
  <2>2. Settled(r)'
    <3>1. source[r] \in dead_service \/ replies'[r] + errors'[r] > 0
      BY <1>9, RepliedDoes DEF ResponseGiven
    <3> QED
      BY <1>9, <2>1, <3>1 DEF Settled, SameRequests, ResponseGiven
  <2> QED
    BY <1>d, <1>9, <2>1, <2>2 DEF ResponseGiven, Answers, ReqTypes
<1> QED
  BY <1>1, <1>2, <1>3, <1>4, <1>5, <1>6, <1>7, <1>8, <1>9 DEF ReqStep

\* skynet.exit answers all who still wait.
LEMMA CallersKept ==
  ASSUME LuaConstants, IInv, ReqStep
  PROVE  CallersAnswered'
<1>0. ReqFacts
  BY ReqRight
<1> USE <1>0 DEF ReqFacts
<1>c. /\ mode # "exited" => Accounts /\ Answers
      /\ \A x \in 1..MaxReq : replies[x] \in Nat /\ errors[x] \in Nat
  BY AccountParts DEF IInv, ReqTypes
<1>d. /\ ReqTypes' /\ \A x \in 1..nreq : Settled(x) => Settled(x)'
  BY SettledStays
<1>e. CallersAnswered
  BY DEF IInv, SchedulerRight
<1>1. CASE RequestsStay
  BY <1>e, <1>1 DEF RequestsStay, SameRequests, SameAnswered, InMode, OthersLive,
     CallersAnswered
<1>2. CASE RetGiven
  BY <1>e, <1>2 DEF RetGiven, SameRequests, SameAnswered, InMode, OthersLive, Replied,
     CallersAnswered
<1>3. CASE ResponseMade
  BY <1>e, <1>3 DEF ResponseMade, SameRequests, SameAnswered, InMode, OthersLive,
     CallersAnswered
<1>4. CASE CoroutineEnds
  BY <1>e, <1>4 DEF CoroutineEnds, SameRequests, SameAnswered, InMode, OthersLive, Release,
     CallersAnswered
<1>5. CASE CoroutineFails
  BY <1>e, <1>5 DEF CoroutineFails, SameRequests, SameAnswered, InMode, OthersLive,
     CallersAnswered
<1>6. CASE RequestMade
  BY <1>e, <1>6 DEF RequestMade, SameRequests, SameAnswered, InMode, OthersLive,
     CallersAnswered
<1>7. CASE Exit
  <2>1. Accounts
    BY <1>c, <1>7 DEF Exit, Does
  <2>2. /\ UNCHANGED <<nreq, source, called, mbox, replies, forgotten, dead_service>>
        /\ errors' = [x \in 1..MaxReq |->
             errors[x] + (IF x \in Notified /\ called[x] THEN 1 ELSE 0)
                       + (IF x \in unresponse /\ source[x] \notin dead_service THEN 1 ELSE 0)]
    BY <1>7 DEF Exit, envVars, watchVars
  <2>3. ASSUME NEW x \in 1..nreq, called[x], ~Arrived(x)
        PROVE  replies'[x] + errors'[x] > 0 \/ x \in forgotten \/ source[x] \in dead_service
    <3>1. x \in 1..MaxReq /\ x # None /\ replies[x] \in Nat /\ errors[x] \in Nat
      BY <1>c
    <3>2. /\ x \in Notified => errors'[x] > 0
          /\ x \in unresponse /\ source[x] \notin dead_service => errors'[x] > 0
          /\ errors'[x] \in Nat /\ errors'[x] >= errors[x]
      BY <2>2, <2>3, <3>1
    <3>3. CASE \E d \in Cos : request[d] = x
      <4>1. x \in Notified
        BY <3>1, <3>3 DEF Notified
      <4> QED
        BY <2>2, <3>1, <3>2, <4>1
    <3>4. CASE x \in unresponse
      BY <2>2, <3>1, <3>2, <3>4
    <3>5. CASE Settled(x)
      BY <2>2, <3>1, <3>2, <3>5 DEF Settled
    <3> QED
      BY <2>1, <2>3, <3>3, <3>4, <3>5 DEF Accounts
  <2> QED
    BY <2>2, <2>3 DEF CallersAnswered, Arrived
<1>8. ASSUME NEW r \in 1..MaxReq, NEW c \in Cos, RequestTaken(r, c) PROVE CallersAnswered'
  BY <1>e, <1>8 DEF RequestTaken, SameRequests, SameAnswered, InMode, OthersLive,
     CallersAnswered
<1>9. ASSUME NEW r \in unresponse, ResponseGiven(r) PROVE CallersAnswered'
  BY <1>e, <1>9 DEF ResponseGiven, SameRequests, SameAnswered, InMode, OthersLive, Replied,
     Release, CallersAnswered
<1> QED
  BY <1>1, <1>2, <1>3, <1>4, <1>5, <1>6, <1>7, <1>8, <1>9 DEF ReqStep

-----------------------------------------------------------------------------
(* watching_service counts what is owed.                                  *)

Handles(p)  == {c \in Cos : request[c] # None /\ source[request[c]] = p}
Promised(p) == {r \in unresponse : source[r] = p}

\* What is owed to a peer is what coroutines and response functions owe it.
LEMMA OwesIs ==
  /\ \A p : Owes(p) = Cardinality(Handles(p)) + Cardinality(Promised(p))
  /\ \A p : Owes(p)' = Cardinality(Handles(p)') + Cardinality(Promised(p)')
BY DEF Owes, Handles, Promised

\* What is owed is finite.
LEMMA FiniteOwed ==
  ASSUME LuaConstants, ReqTypes, NEW p
  PROVE  /\ IsFiniteSet(Handles(p)) /\ IsFiniteSet(Promised(p))
         /\ Cardinality(Handles(p)) \in Nat /\ Cardinality(Promised(p)) \in Nat
<1>1. IsFiniteSet(Cos) /\ IsFiniteSet(1..MaxReq)
  BY FS_Interval DEF LuaConstants, Cos
<1>2. Handles(p) \subseteq Cos /\ Promised(p) \subseteq 1..MaxReq
  BY DEF Handles, Promised, ReqTypes
<1>3. IsFiniteSet(Handles(p)) /\ IsFiniteSet(Promised(p))
  BY <1>1, <1>2, FS_Subset
<1> QED
  BY <1>3, FS_CardinalityType

\* Counting with one more and with one less.
LEMMA AddOne ==
  ASSUME NEW T, IsFiniteSet(T), NEW x
  PROVE  /\ Cardinality(T) \in Nat
         /\ x \notin T => Cardinality(T \cup {x}) = Cardinality(T) + 1
         /\ x \in T => Cardinality(T \ {x}) = Cardinality(T) - 1 /\ Cardinality(T) > 0
<1>1. Cardinality(T) \in Nat
  BY FS_CardinalityType
<1>2. x \notin T => Cardinality(T \cup {x}) = Cardinality(T) + 1
  BY FS_AddElement
<1>3. ASSUME x \in T PROVE Cardinality(T \ {x}) = Cardinality(T) - 1 /\ Cardinality(T) > 0
  <2>1. Cardinality(T \ {x}) = Cardinality(T) - 1
    BY <1>3, FS_RemoveElement
  <2>2. Cardinality(T) # 0
    BY <1>3, FS_EmptySet
  <2> QED
    BY <1>1, <2>1, <2>2
<1> QED
  BY <1>1, <1>2, <1>3

\* One step for a peer: what the counter does and what is owed.
Balance(p) ==
  \/ /\ watching_service'[p] = watching_service[p]
     /\ Cardinality(Handles(p)') + Cardinality(Promised(p)')
          = Cardinality(Handles(p)) + Cardinality(Promised(p))
  \/ /\ watching_service'[p] = watching_service[p] + 1
     /\ Cardinality(Handles(p)') + Cardinality(Promised(p)')
          = Cardinality(Handles(p)) + Cardinality(Promised(p)) + 1
  \/ /\ watching_service'[p] = IF watching_service[p] > 0 THEN watching_service[p] - 1 ELSE 0
     /\ Cardinality(Handles(p)) + Cardinality(Promised(p)) > 0
     /\ Cardinality(Handles(p)') + Cardinality(Promised(p)')
          = Cardinality(Handles(p)) + Cardinality(Promised(p)) - 1
  \/ /\ watching_service'[p] = watching_service[p] /\ raised' = raised + 1
     /\ Cardinality(Handles(p)') + Cardinality(Promised(p)')
          <= Cardinality(Handles(p)) + Cardinality(Promised(p))

\* What is owed stays when the sources of the requests held and promised stay.
LEMMA SameOwed ==
  ASSUME NEW p, UNCHANGED request, UNCHANGED unresponse,
         \A d \in Cos : request[d] # None => source'[request[d]] = source[request[d]],
         \A x \in unresponse : source'[x] = source[x]
  PROVE  UNCHANGED <<Handles(p), Promised(p)>>
<1>1. UNCHANGED Handles(p)
  BY DEF Handles
<1>2. UNCHANGED Promised(p)
  BY DEF Promised
<1> QED
  BY <1>1, <1>2

\* A step changes watching_service by what it changes in what is owed.
LEMMA Balanced ==
  ASSUME LuaConstants, IInv, ReqStep, NEW q \in Peers
  PROVE  Balance(q) \/ mode' = "exited"
<1>0. ReqFacts
  BY ReqRight
<1> USE <1>0 DEF ReqFacts
<1>c. /\ IsFiniteSet(Handles(q)) /\ IsFiniteSet(Promised(q))
      /\ Cardinality(Handles(q)) \in Nat /\ Cardinality(Promised(q)) \in Nat
  BY FiniteOwed
<1>d. watching_service \in [Peers -> Nat]
  BY DEF WatchTypes
<1>1. CASE RequestsStay
  <2>1. UNCHANGED <<Handles(q), Promised(q)>>
    BY <1>1 DEF RequestsStay, SameRequests, Handles, Promised
  <2> QED
    BY <1>1, <2>1 DEF RequestsStay, Balance
<1>2. CASE RetGiven
  <2>1. UNCHANGED <<Handles(q), Promised(q)>>
    BY <1>2 DEF RetGiven, SameRequests, Handles, Promised
  <2> QED
    BY <1>2, <2>1 DEF RetGiven, Balance
<1>3. CASE ResponseMade
  <2>1. /\ request[cur] \notin unresponse /\ source[request[cur]] \in Peers
        /\ request[cur] \notin Promised(q)
    BY <1>3 DEF ResponseMade, Owed, Promised
  <2>2. UNCHANGED Handles(q)
    BY <1>3 DEF ResponseMade, SameRequests, Handles
  <2>3. CASE source[request[cur]] = q
    <3>1. Promised(q)' = Promised(q) \cup {request[cur]}
      BY <1>3, <2>3 DEF ResponseMade, SameRequests, Promised
    <3>2. Cardinality(Promised(q)') = Cardinality(Promised(q)) + 1
      BY <1>c, <2>1, <3>1, AddOne
    <3>3. watching_service'[q] = watching_service[q] + 1
      BY <1>d, <1>3, <2>3 DEF ResponseMade
    <3> QED
      BY <1>c, <2>2, <3>2, <3>3 DEF Balance
  <2>4. CASE source[request[cur]] # q
    <3>1. Promised(q)' = Promised(q)
      BY <1>3, <2>4 DEF ResponseMade, SameRequests, Promised
    <3>2. watching_service'[q] = watching_service[q]
      BY <1>d, <1>3, <2>1, <2>4 DEF ResponseMade
    <3> QED
      BY <1>c, <2>2, <3>1, <3>2 DEF Balance
  <2> QED
    BY <2>3, <2>4
<1>4. CASE CoroutineEnds
  <2>1. UNCHANGED Promised(q)
    BY <1>4 DEF CoroutineEnds, SameRequests, Promised
  <2>2. CASE request[cur] # None /\ source[request[cur]] = q
    <3>1. Handles(q)' = Handles(q) \ {cur} /\ cur \in Handles(q)
      BY <1>4, <2>2 DEF CoroutineEnds, SameRequests, Handles, ReqTypes
    <3>2. Cardinality(Handles(q)') = Cardinality(Handles(q)) - 1 /\ Cardinality(Handles(q)) > 0
      BY <1>c, <3>1, AddOne
    <3>3. watching_service'[q] = IF watching_service[q] > 0 THEN watching_service[q] - 1 ELSE 0
      BY <1>d, <1>4, <2>2 DEF CoroutineEnds, Release
    <3> QED
      BY <1>c, <2>1, <3>2, <3>3 DEF Balance
  <2>3. CASE ~(request[cur] # None /\ source[request[cur]] = q)
    <3>1. Handles(q)' = Handles(q)
      BY <1>4, <2>3 DEF CoroutineEnds, SameRequests, Handles, ReqTypes
    <3>2. watching_service'[q] = watching_service[q]
      BY <1>d, <1>4, <2>3 DEF CoroutineEnds, Release
    <3> QED
      BY <1>c, <2>1, <3>1, <3>2 DEF Balance
  <2> QED
    BY <2>2, <2>3
<1>5. CASE CoroutineFails
  <2>1. UNCHANGED Promised(q) /\ Handles(q)' \subseteq Handles(q)
    BY <1>5 DEF CoroutineFails, SameRequests, Promised, Handles, ReqTypes
  <2>2. Cardinality(Handles(q)') <= Cardinality(Handles(q)) /\ Cardinality(Handles(q)') \in Nat
    BY <1>c, <2>1, FS_Subset, FS_CardinalityType
  <2>3. watching_service'[q] = watching_service[q] /\ raised' = raised + 1
    BY <1>5 DEF CoroutineFails
  <2> QED
    BY <1>c, <2>1, <2>2, <2>3 DEF Balance
<1>6. CASE RequestMade
  <2>1. UNCHANGED <<Handles(q), Promised(q)>>
    <3>1. PICK p \in Peers : source' = Append(source, p)
      BY <1>6 DEF RequestMade
    <3>2. \A x \in 1..nreq : source'[x] = source[x]
      BY <3>1, AppendFun DEF SourceTypes
    <3>3. /\ UNCHANGED request /\ UNCHANGED unresponse
          /\ \A d \in Cos : request[d] # None => source'[request[d]] = source[request[d]]
          /\ \A x \in unresponse : source'[x] = source[x]
      BY <1>6, <3>2 DEF RequestMade
    <3> QED
      BY <3>3, SameOwed
  <2> QED
    BY <1>6, <2>1 DEF RequestMade, Balance
<1>7. CASE Exit
  BY <1>7 DEF Exit
<1>8. ASSUME NEW r \in 1..MaxReq, NEW c \in Cos, RequestTaken(r, c)
      PROVE Balance(q) \/ mode' = "exited"
  <2>1. c \notin Handles(q) /\ request[c] = None /\ source[r] \in Peers
    BY <1>8 DEF RequestTaken, Held, Unborn, Handles, Fresh
  <2>2. UNCHANGED Promised(q)
    BY <1>8 DEF RequestTaken, Promised
  <2>3. CASE source[r] = q
    <3>1. Handles(q)' = Handles(q) \cup {c}
      BY <1>8, <2>1, <2>3 DEF RequestTaken, Handles, ReqTypes
    <3>2. Cardinality(Handles(q)') = Cardinality(Handles(q)) + 1
      BY <1>c, <2>1, <3>1, AddOne
    <3>3. watching_service'[q] = watching_service[q] + 1
      BY <1>d, <1>8, <2>3 DEF RequestTaken
    <3> QED
      BY <1>c, <2>2, <3>2, <3>3 DEF Balance
  <2>4. CASE source[r] # q
    <3>1. Handles(q)' = Handles(q)
      BY <1>8, <2>1, <2>4 DEF RequestTaken, Handles, ReqTypes
    <3>2. watching_service'[q] = watching_service[q]
      BY <1>d, <1>8, <2>1, <2>4 DEF RequestTaken
    <3> QED
      BY <1>c, <2>2, <3>1, <3>2 DEF Balance
  <2> QED
    BY <2>3, <2>4
<1>9. ASSUME NEW r \in unresponse, ResponseGiven(r) PROVE Balance(q) \/ mode' = "exited"
  <2>1. UNCHANGED Handles(q) /\ source[r] \in Peers
    BY <1>9 DEF ResponseGiven, SameRequests, Handles
  <2>2. CASE source[r] = q
    <3>1. Promised(q)' = Promised(q) \ {r} /\ r \in Promised(q)
      BY <1>9, <2>2 DEF ResponseGiven, SameRequests, Promised
    <3>2. Cardinality(Promised(q)') = Cardinality(Promised(q)) - 1 /\ Cardinality(Promised(q)) > 0
      BY <1>c, <3>1, AddOne
    <3>3. watching_service'[q] = IF watching_service[q] > 0 THEN watching_service[q] - 1 ELSE 0
      BY <1>d, <1>9, <2>2 DEF ResponseGiven, Release
    <3> QED
      BY <1>c, <2>1, <3>2, <3>3 DEF Balance
  <2>3. CASE source[r] # q
    <3>1. Promised(q)' = Promised(q)
      BY <1>9, <2>3 DEF ResponseGiven, SameRequests, Promised
    <3>2. watching_service'[q] = watching_service[q]
      BY <1>d, <1>9, <2>1, <2>3 DEF ResponseGiven, Release
    <3> QED
      BY <1>c, <2>1, <3>1, <3>2 DEF Balance
  <2> QED
    BY <2>2, <2>3
<1> QED
  BY <1>1, <1>2, <1>3, <1>4, <1>5, <1>6, <1>7, <1>8, <1>9 DEF ReqStep

\* watching_service counts what is owed to a peer.
LEMMA WatchCountsKept ==
  ASSUME LuaConstants, IInv, ReqStep
  PROVE  WatchCounts'
<1>0. /\ ReqTypes' /\ WatchTypes' /\ ReqTypes /\ WatchTypes /\ raised \in Nat /\ WatchCounts
      /\ (mode' # "exited" => InMode)
  BY ReqTypesKept, WatchTypesKept, ReqKnown DEF IInv, SchedulerRight, ReqStep, RequestsStay,
     RequestTaken, RetGiven, ResponseMade, ResponseGiven, CoroutineEnds, CoroutineFails,
     RequestMade, Exit
<1> SUFFICES ASSUME mode' # "exited", NEW p \in Peers
             PROVE  watching_service'[p] >= Owes(p)' /\ (raised' = 0 => watching_service'[p] = Owes(p)')
  BY DEF WatchCounts
<1>1. Balance(p) /\ InMode
  BY <1>0, Balanced
<1>2. /\ watching_service[p] >= Cardinality(Handles(p)) + Cardinality(Promised(p))
      /\ raised = 0 => watching_service[p] = Cardinality(Handles(p)) + Cardinality(Promised(p))
  BY <1>0, <1>1, OwesIs DEF WatchCounts, InMode
<1>3. Cardinality(Handles(p)) \in Nat /\ Cardinality(Promised(p)) \in Nat
  BY <1>0, FiniteOwed
<1>4. Cardinality(Handles(p)') \in Nat /\ Cardinality(Promised(p)') \in Nat
  <2>1. IsFiniteSet(Cos) /\ IsFiniteSet(1..MaxReq)
    BY FS_Interval DEF LuaConstants, Cos
  <2>2. Handles(p)' \subseteq Cos /\ Promised(p)' \subseteq 1..MaxReq
    BY <1>0 DEF Handles, Promised, ReqTypes
  <2> QED
    BY <2>1, <2>2, FS_Subset, FS_CardinalityType
<1>5. watching_service[p] \in Nat
  BY <1>0 DEF WatchTypes
<1>6. raised' = 0 => raised = 0
  BY <1>1 DEF InMode
<1>7. raised' = raised + 1 => raised' # 0
  BY <1>0
<1>8. /\ watching_service'[p] >= Cardinality(Handles(p)') + Cardinality(Promised(p)')
      /\ raised' = 0 => watching_service'[p] = Cardinality(Handles(p)') + Cardinality(Promised(p)')
  BY <1>1, <1>2, <1>3, <1>4, <1>5, <1>6, <1>7 DEF Balance
<1> QED
  BY <1>8, OwesIs

-----------------------------------------------------------------------------
(* The invariant.                                                         *)

\* The bound on uncaught errors counts them.
LEMMA FlagsKept ==
  ASSUME LuaConstants, IInv, Next
  PROVE  raised' \in Nat /\ stale' \in BOOLEAN
<1>0. raised \in Nat /\ stale \in BOOLEAN
  BY DEF IInv, OtherTypes
<1>1. ASSUME NEW s \in Sessions, DispatchResponse(s) PROVE raised' \in Nat /\ stale' \in BOOLEAN
  BY <1>0, <1>1 DEF DispatchResponse, Take, coVars, queueVars, reqVars, envVars, ansVars
<1>2. ASSUME NEW r \in 1..MaxReq, DispatchRequest(r) PROVE raised' \in Nat /\ stale' \in BOOLEAN
  BY <1>0, <1>2 DEF DispatchRequest, Take, Free, schedVars, queueVars, envVars, ansVars
<1>3. ASSUME NEW p \in Peers, NEW s \in Sessions \cup {0}, DispatchError(p, s)
      PROVE raised' \in Nat /\ stale' \in BOOLEAN
  BY <1>0, <1>3 DEF DispatchError, Take, Dead, Suspended, NoResume, reqVars, envVars,
     ansVars, schedVars, coVars, queueVars
<1>4. CASE DispatchWakeup
  BY <1>0, <1>4 DEF DispatchWakeup, NoResume, coVars, queueVars, reqVars, envVars, ansVars,
     schedVars
<1>5. CASE DispatchErrorQueue
  BY <1>0, <1>5 DEF DispatchErrorQueue, NoResume, reqVars, envVars, ansVars, schedVars,
     coVars, queueVars
<1>6. CASE DispatchFork
  BY <1>0, <1>6 DEF DispatchFork, coVars, schedVars, watchVars, reqVars, queueVars, envVars,
     ansVars
<1>7. CASE AssertFails
  BY <1>0, <1>7 DEF AssertFails, Uncaught, queueVars, ansVars, watchVars, envVars
<1>8. ASSUME NEW p \in Peers, Call(p) PROVE raised' \in Nat /\ stale' \in BOOLEAN
  BY <1>0, <1>8 DEF Call, Does, Yields, Watches, Asks, queueVars, Suspended, reqVars,
     envVars, ansVars
<1>9. CASE Sleep
  BY <1>0, <1>9 DEF Sleep, Does, Yields, Asks, queueVars, Suspended, reqVars, envVars,
     ansVars
<1>10. CASE Wait
  BY <1>0, <1>10 DEF Wait, Does, Yields, queueVars, Suspended, reqVars, envVars, ansVars
<1>11. CASE Timeout
  BY <1>0, <1>11 DEF Timeout, Does, Free, Asks, watchVars, reqVars, queueVars, envVars,
     ansVars
<1>12. CASE Fork
  BY <1>0, <1>12 DEF Fork, Does, Free, Stays, reqVars, queueVars, ansVars, envVars
<1>13. CASE Ret
  BY <1>0, <1>13 DEF Ret, Does, Second, ansVars, Reply, Stays, coVars, queueVars, envVars
<1>14. CASE AnswerTwice
  BY <1>0, <1>14 DEF AnswerTwice, Does, Second, schedVars, watchVars, reqVars, queueVars,
     envVars, ansVars
<1>15. CASE Response
  BY <1>0, <1>15 DEF Response, Does, Second, Stays, coVars, queueVars, ansVars, envVars
<1>16. CASE Enter
  BY <1>0, <1>16 DEF Enter, Does, Yields, Stays, reqVars, coVars, ansVars, Suspended,
     envVars
<1>17. CASE Raise
  BY <1>0, <1>17 DEF Raise, Uncaught, queueVars, ansVars, watchVars, envVars
<1>18. CASE Exit
  BY <1>0, <1>18 DEF Exit, Does, schedVars, watchVars, coVars, queueVars, envVars
<1>19. ASSUME NEW c \in Cos, Wakeup(c) PROVE raised' \in Nat /\ stale' \in BOOLEAN
  BY <1>0, <1>19 DEF Wakeup, Does, Woken, Stays, reqVars, coVars, queueVars, ansVars,
     envVars
<1>20. ASSUME NEW r \in unresponse, Respond(r) PROVE raised' \in Nat /\ stale' \in BOOLEAN
  BY <1>0, <1>20 DEF Respond, Does, Release, ansVars, Reply, Stays, coVars, queueVars,
     envVars
<1>21. CASE Leave
  BY <1>0, <1>21 DEF Leave, Stays, reqVars, coVars, ansVars, envVars
<1>22. CASE CoExit
  BY <1>0, <1>22 DEF CoExit, Release, Suspended, schedVars, queueVars, envVars
<1>23. ASSUME NEW p \in Peers, Die(p) PROVE raised' \in Nat /\ stale' \in BOOLEAN
  BY <1>0, <1>23 DEF Die, Sends, Forget, EnvStep, schedVars, watchVars, reqVars, coVars,
     queueVars, ansVars
<1>24. ASSUME NEW p \in Peers, NEW b \in BOOLEAN, Ask(p, b)
      PROVE raised' \in Nat /\ stale' \in BOOLEAN
  BY <1>0, <1>24 DEF Ask, Sends, EnvStep, schedVars, watchVars, reqVars, coVars, queueVars,
     ansVars
<1>25. ASSUME NEW s \in Sessions, Answer(s) PROVE raised' \in Nat /\ stale' \in BOOLEAN
  BY <1>0, <1>25 DEF Answer, Sends, Forget, EnvStep, schedVars, watchVars, reqVars, coVars,
     queueVars, ansVars
<1> QED
  BY <1>1, <1>2, <1>3, <1>4, <1>5, <1>6, <1>7, <1>8, <1>9, <1>10, <1>11, <1>12, <1>13,
     <1>14, <1>15, <1>16, <1>17, <1>18, <1>19, <1>20, <1>21, <1>22, <1>23, <1>24, <1>25
     DEF Next, Dispatcher, Chooses, Ends, Peer

\* LockRight gives LockHeld.
LEMMA LockHolds ==
  ASSUME LuaConstants, LockTypes, LockRight
  PROVE  LockHeld
<1>1. ASSUME NEW c \in Cos, depth[c] > 0 PROVE current_thread = c /\ ref = depth[c]
  BY <1>1 DEF LockRight
<1> QED
  BY <1>1 DEF LockRight, LockHeld

\* IInv holds at the start.
LEMMA InitIInv ==
  ASSUME LuaConstants, Init
  PROVE  IInv
<1>0. /\ None \notin Cos /\ Break \notin Cos /\ None # Break /\ None \notin Sessions
      /\ "none" \notin Peers /\ None \in 0..MaxSession /\ MaxSession \in Nat
      /\ MaxReq \in Nat /\ 1 \in Cos
      /\ None \in 0..MaxReq /\ 0 \in 0..MaxReq /\ 0 \in 0..MaxSession
  BY Names DEF LuaConstants, Cos, None
<1>1. /\ ToSet(mbox) = {} /\ ToSet(error_queue) = {} /\ ToSet(thread_queue) = {}
      /\ Once(mbox) /\ Distinct(error_queue) /\ Distinct(thread_queue)
  BY DEF Init, ToSet, Once, Distinct
<1>2. TypeOK
  BY <1>0 DEF Init, TypeOK, Waiting
<1>3. OtherTypes
  <2>1. source \in [1..nreq -> Peers] /\ called \in [1..nreq -> BOOLEAN]
    BY DEF Init
  <2>2. /\ mbox \in Seq(Messages) /\ error_queue \in Seq(Sessions) /\ thread_queue \in Seq(Cos)
    BY <1>0 DEF Init
  <2>3. /\ sid \in 0..MaxSession /\ nreq \in 0..MaxReq /\ raised \in Nat /\ stale \in BOOLEAN
    BY <1>0 DEF Init
  <2>4. /\ DOMAIN asked \subseteq 1..sid
        /\ \A s \in DOMAIN asked : asked[s] \in Peers \cup {"timer"}
    BY DEF Init
  <2>5. replies \in [1..MaxReq -> Nat] /\ errors \in [1..MaxReq -> Nat]
    BY <1>0 DEF Init
  <2> QED
    BY <1>0, <2>1, <2>2, <2>3, <2>4, <2>5 DEF Init, OtherTypes
<1>4. WaitersMatch /\ RunsAlone
  BY <1>0 DEF Init, WaitersMatch, RunsAlone, Waiting
<1>5. SessionsRight
  BY <1>0, <1>1 DEF Init, SessionsRight, Answered, Ended
<1>6. NothingLeft /\ SuspendRight
  BY <1>0, <1>1 DEF Init, NothingLeft, SuspendRight
<1>7. RequestsRight
  BY <1>0, <1>1 DEF Init, RequestsRight, Arrived
<1>8. Accounted /\ CallersAnswered /\ OneReply
  BY <1>0, <1>1 DEF Init, Accounted, CallersAnswered, OneReply
<1>9. LockRight /\ LockHeld
  BY <1>0, <1>1 DEF Init, LockRight, LockHeld
<1>10. WatchCounts
  <2>1. ASSUME NEW p \in Peers PROVE Owes(p) = 0
    <3>1. Handles(p) = {} /\ Promised(p) = {}
      BY DEF Init, Handles, Promised
    <3>2. Cardinality(Handles(p)) = 0 /\ Cardinality(Promised(p)) = 0
      BY <3>1, FS_EmptySet
    <3> QED
      BY <3>2, OwesIs
  <2>2. \A p \in Peers : watching_service[p] = 0
    BY DEF Init
  <2>3. \A p \in Peers : watching_service[p] >= Owes(p) /\ watching_service[p] = Owes(p)
    <3>1. ASSUME NEW p \in Peers
          PROVE watching_service[p] >= Owes(p) /\ watching_service[p] = Owes(p)
      <4>1. watching_service[p] = 0 /\ Owes(p) = 0
        BY <2>1, <2>2
      <4> QED
        BY <4>1
    <3> QED
      BY <3>1
  <2> QED
    BY <2>3 DEF WatchCounts
<1> QED
  BY <1>2, <1>3, <1>4, <1>5, <1>6, <1>7, <1>8, <1>9, <1>10 DEF IInv, SchedulerRight

\* Every action keeps IInv.
LEMMA NextIInv ==
  ASSUME LuaConstants, IInv, Next
  PROVE  IInv'
<1>1. CoStep /\ LockStep /\ ReqStep
  BY CoSteps, LockSteps, ReqSteps
<1>2. /\ StateTypes' /\ TableTypes' /\ AskedTypes' /\ Forks' /\ RunsAlone' /\ Places'
      /\ Sleepers'
  BY <1>1, StateTypesKept, TableTypesKept, AskedTypesKept, ForksKept, RunsAloneKept,
     PlacesKept, SleepersKept
<1>3. LockTypes' /\ ReqTypes' /\ WatchTypes' /\ SourceTypes' /\ MailFacts'
  BY <1>1, LockTypesKept, ReqTypesKept, WatchTypesKept, SourceTypesKept, MailKept
<1>4. error_queue' \in Seq(Sessions) /\ QueueCalls'
  BY QueueCallsKept
<1>5. SessionsRight'
  <2>1. /\ Unused' /\ AnswersOld' /\ MarksTimed' /\ SleepTimed' /\ NoAnswerer' /\ WatchCalls'
    BY <1>1, UnusedKept, AnswersOldKept, MarksTimedKept, SleepTimedKept, NoAnswererKept,
       WatchCallsKept
  <2> QED
    BY <1>3, <1>4, <2>1 DEF SessionsRight, Unused, AnswersOld, MarksTimed, SleepTimed,
       NoAnswerer, WatchCalls, QueueCalls, MailFacts
<1>6. WaitersMatch'
  BY <1>2, <1>5 DEF Places, Sleepers, SessionsRight, WaitersMatch, Timed, Answered
<1>7. SuspendRight' /\ NothingLeft'
  <2>1. SuspendRight'
    BY SuspendRightKept
  <2> QED
    BY <2>1 DEF SuspendRight, NothingLeft
<1>8. RequestsRight' /\ OneReply'
  <2>1. Fresh' /\ Held' /\ Owed' /\ Apart' /\ Given' /\ Open' /\ Later' /\ OneReply'
    BY <1>1, FreshKept, HeldKept, OwedKept, ApartKept, GivenKept, OpenKept, LaterKept,
       OneReplyKept
  <2> QED
    BY <1>3, <2>1 DEF RequestsRight, Fresh, Held, Owed, Apart, Given, Open, Later, Unborn,
       MailFacts
<1>9. Accounted' /\ CallersAnswered' /\ WatchCounts'
  <2>1. mode' # "exited" => Accounts' /\ Answers'
    BY <1>1, AccountsKept, AnswersKept
  <2>2. CallersAnswered' /\ WatchCounts'
    BY <1>1, CallersKept, WatchCountsKept
  <2> QED
    BY <2>1, <2>2 DEF Accounted, Accounts, Answers
<1>10. LockRight' /\ LockHeld'
  <2>1. /\ Depths' /\ (raised' = 0 => ~stale' /\ ~early' /\ Turns')
        /\ (~early' => Distinct(thread_queue') /\ InQueue' /\ NextWoken')
    BY <1>1, DepthsKept, QueueKept, TurnsKept
  <2>2. LockRight'
    BY <2>1 DEF LockRight, Depths, InQueue, NextWoken, Turns
  <2>3. (LuaConstants /\ LockTypes /\ LockRight => LockHeld)'
    <3>1. ASSUME NEW c \in Cos, depth'[c] > 0 PROVE current_thread' = c /\ ref' = depth'[c]
      BY <2>2, <3>1 DEF LockRight
    <3> QED
      BY <2>2, <3>1 DEF LockRight, LockHeld
  <2> QED
    BY <1>3, <2>2, <2>3
<1>11. raised' \in Nat /\ stale' \in BOOLEAN
  BY FlagsKept
<1>12. TypeOK'
  BY <1>2, <1>3 DEF TypeOK, StateTypes, TableTypes, Forks, LockTypes, ReqTypes, WatchTypes,
     MailFacts
<1>13. OtherTypes'
  BY <1>2, <1>3, <1>4, <1>11 DEF OtherTypes, StateTypes, AskedTypes, LockTypes, ReqTypes,
     SourceTypes, MailFacts
<1> QED
  BY <1>2, <1>5, <1>6, <1>7, <1>8, <1>9, <1>10, <1>12, <1>13 DEF IInv, SchedulerRight

\* Every step keeps IInv.
LEMMA StepIInv ==
  ASSUME LuaConstants, IInv, [Next]_vars
  PROVE  IInv'
<1>1. CASE Next
  BY <1>1, NextIInv
<1>2. CASE UNCHANGED vars
  <2>1. /\ UNCHANGED <<mbox, session_id_coroutine, sleep_session, wakeup_session, watching_session>>
        /\ UNCHANGED <<watching_service, dead_service, error_queue, fork_queue, request, responded>>
        /\ UNCHANGED <<unresponse, co, waits, mode, cur, current_thread, ref, thread_queue, sid, nreq>>
        /\ UNCHANGED <<source, called, asked, alive, depth, replies, errors, raised, stale, early>>
        /\ UNCHANGED <<ops, forgotten>>
    BY <1>2 DEF vars, schedVars, watchVars, reqVars, coVars, queueVars, envVars, ansVars
  <2>2. TypeOK' /\ OtherTypes'
    BY <2>1 DEF IInv, SchedulerRight, TypeOK, OtherTypes
  <2>3. WaitersMatch' /\ RunsAlone' /\ LockHeld'
    BY <2>1 DEF IInv, SchedulerRight, WaitersMatch, RunsAlone, LockHeld
  <2>4. SessionsRight'
    BY <2>1 DEF IInv, SessionsRight, Answered, Timed, Calls, Ended
  <2>5. NothingLeft' /\ SuspendRight'
    BY <2>1 DEF IInv, SchedulerRight, NothingLeft, SuspendRight, Calls
  <2>6. WatchCounts'
    <3>1. \A p : Owes(p)' = Owes(p)
      BY <2>1 DEF Owes
    <3> QED
      BY <2>1, <3>1 DEF IInv, SchedulerRight, WatchCounts
  <2>7. OneReply' /\ CallersAnswered'
    BY <2>1 DEF IInv, SchedulerRight, OneReply, CallersAnswered
  <2>8. RequestsRight'
    BY <2>1 DEF IInv, RequestsRight, Arrived
  <2>9. Accounted'
    BY <2>1 DEF IInv, Accounted, Arrived, Settled
  <2>10. LockRight'
    BY <2>1 DEF IInv, LockRight
  <2> QED
    BY <2>2, <2>3, <2>4, <2>5, <2>6, <2>7, <2>8, <2>9, <2>10 DEF IInv, SchedulerRight
<1> QED
  BY <1>1, <1>2

\* The scheduler keeps every part of SchedulerRight, whatever its coroutines and peers do.
THEOREM Scheduler ==
  ASSUME LuaConstants
  PROVE  Spec => []SchedulerRight
<1>1. Init => IInv
  BY InitIInv
<1>2. IInv /\ [Next]_vars => IInv'
  BY StepIInv
<1>3. IInv => SchedulerRight
  BY DEF IInv
<1> QED
  BY <1>1, <1>2, <1>3, PTL DEF Spec
=============================================================================
