------------------------- MODULE MessageQueueProofs -------------------------
(***************************************************************************)
(* The circular buffer of a mailbox implements a first-in first-out queue *)
(* for every initial capacity and every set of messages.                  *)
(***************************************************************************)
EXTENDS MessageQueue, SequenceTheorems, TLAPS

Cells == Msgs \cup {Undef}

\* The index the code computes with % cap in expand_queue is the one reached
\* by going round the buffer once at most.
LEMMA ModOnce ==
  ASSUME NEW c \in Nat, c >= 2, NEW x \in Nat, x < 2 * c
  PROVE  x % c = IF x >= c THEN x - c ELSE x
<1>1. CASE x < c
  BY <1>1
<1>2. CASE x >= c
  BY <1>2
<1> QED
  BY <1>1, <1>2

\* Inside the buffer, the k-th message lies in a cell.
LEMMA AtCell ==
  ASSUME BufferOK
  PROVE  /\ Length \in Nat /\ Length < cap
         /\ \A k \in 1..Length : At(k) \in 0..(cap - 1) /\ At(k) # tail
         /\ Length + 1 <= cap => At(Length + 1) = tail
BY DEF BufferOK, Length, At

\* Contents is a sequence of Length cells.
ContentsOK == /\ Contents \in Seq(Cells)
              /\ Len(Contents) = Length
              /\ \A k \in 1..Length : Contents[k] = queue[At(k)]

\* The contents of a mailbox are a sequence of messages.
LEMMA ContentsSeq == BufferOK => ContentsOK
<1> SUFFICES ASSUME BufferOK PROVE ContentsOK
  OBVIOUS
<1>1. \A k \in 1..Length : queue[At(k)] \in Cells
  BY AtCell DEF BufferOK, Cells
<1> QED
  BY <1>1, AtCell DEF Contents, ContentsOK

\* A new mailbox has a buffer in order.
LEMMA InitBuffer == Init => BufferOK
BY QueueAssumption DEF Init, BufferOK

\* skynet_mq_push, with expand_queue, and skynet_mq_pop keep the buffer in order.
LEMMA NextBuffer == BufferOK /\ [Next]_vars => BufferOK'
<1> SUFFICES ASSUME BufferOK, [Next]_vars PROVE BufferOK'
  OBVIOUS
<1>1. ASSUME NEW m \in Msgs, Push(m) PROVE BufferOK'
  <2> DEFINE q == [queue EXCEPT ![tail] = m]
  <2>1. q \in [0..(cap - 1) -> Cells]
    BY DEF BufferOK, Cells
  <2>2. CASE head = Advance(tail)
    <3>1. Expanded(q) \in [0..(2 * cap - 1) -> Cells]
      <4>1. \A k \in 0..(cap - 1) : (head + k) % cap \in 0..(cap - 1)
        BY ModOnce DEF BufferOK
      <4> QED
        BY <2>1, <4>1 DEF Expanded, Cells, BufferOK
    <3>2. queue' = Expanded(q) /\ head' = 0 /\ tail' = cap /\ cap' = 2 * cap
      BY <1>1, <2>2 DEF Push
    <3>3. cap' \in Nat /\ cap' >= 2 /\ head' \in 0..(cap' - 1) /\ tail' \in 0..(cap' - 1)
      BY <3>2 DEF BufferOK
    <3> HIDE DEF q
    <3> QED
      BY <3>1, <3>2, <3>3 DEF BufferOK, Cells
  <2>3. CASE head # Advance(tail)
    <3>1. queue' = q /\ tail' = Advance(tail) /\ UNCHANGED <<head, cap>>
      BY <1>1, <2>3 DEF Push
    <3> QED
      BY <3>1, <2>1 DEF BufferOK, Advance, Cells
  <2> QED
    BY <2>2, <2>3
<1>2. CASE Pop
  BY <1>2 DEF Pop, BufferOK, Advance
<1>3. CASE UNCHANGED bufVars
  BY <1>3 DEF BufferOK, bufVars
<1> QED
  BY <1>1, <1>2, <1>3 DEF Next, PopEmpty, MqOverload, vars, bufVars

-----------------------------------------------------------------------------
(* Every step is a step of the queue.                                      *)

\* skynet_mq_push appends to the contents, whether or not the buffer wraps or grows.
LEMMA PushAppends ==
  ASSUME BufferOK, BufferOK', NEW m \in Msgs, Push(m)
  PROVE  Contents' = Append(Contents, m)
<1> DEFINE q == [queue EXCEPT ![tail] = m]
<1>1. /\ Length' = Length + 1
      /\ \A k \in 1..(Length + 1) :
            queue'[At(k)'] = IF k = Length + 1 THEN m ELSE queue[At(k)]
  <2>1. CASE head = Advance(tail)
    <3>1. queue' = Expanded(q) /\ head' = 0 /\ tail' = cap /\ cap' = 2 * cap
      BY <2>1 DEF Push
    <3>2. Length = cap - 1 /\ Length' = cap
      BY <2>1, <3>1 DEF Length, Advance, BufferOK
    <3>3. \A k \in 1..cap : At(k)' = k - 1
      BY <3>1 DEF At, BufferOK
    <3>6. \A k \in 1..cap : (head + (k - 1)) % cap = At(k)
      <4> SUFFICES ASSUME NEW k \in 1..cap PROVE (head + (k - 1)) % cap = At(k)
        OBVIOUS
      <4> DEFINE x == head + (k - 1)
      <4>1. x \in Nat /\ x < 2 * cap /\ cap \in Nat /\ cap >= 2
        BY DEF BufferOK
      <4>2. At(k) = IF x >= cap THEN x - cap ELSE x
        BY DEF At, BufferOK
      <4> HIDE DEF x
      <4>3. x % cap = IF x >= cap THEN x - cap ELSE x
        BY <4>1, ModOnce
      <4> QED
        BY <4>2, <4>3 DEF x
    <3>4. \A k \in 1..cap : queue'[k - 1] = q[At(k)]
      BY <3>1, <3>6 DEF Expanded, BufferOK
    <3>5. \A k \in 1..cap : q[At(k)] = IF k = cap THEN m ELSE queue[At(k)]
      BY <3>2, AtCell DEF BufferOK
    <3>7. \A k \in 1..cap : queue'[At(k)'] = IF k = cap THEN m ELSE queue[At(k)]
      BY <3>3, <3>4, <3>5
    <3>8. Length + 1 = cap
      BY <3>2 DEF BufferOK
    <3> QED
      BY <3>2, <3>7, <3>8
  <2>2. CASE head # Advance(tail)
    <3>1. queue' = q /\ tail' = Advance(tail) /\ UNCHANGED <<head, cap>>
      BY <2>2 DEF Push
    <3>2. Length' = Length + 1
      BY <2>2, <3>1 DEF Length, Advance, BufferOK
    <3>3. \A k \in 1..(Length + 1) : At(k)' = At(k)
      BY <3>1 DEF At
    <3>4. \A k \in 1..(Length + 1) : q[At(k)] = IF k = Length + 1 THEN m ELSE queue[At(k)]
      BY AtCell DEF BufferOK
    <3> QED
      BY <3>1, <3>2, <3>3, <3>4
  <2> QED
    BY <2>1, <2>2
<1>2. /\ Contents \in Seq(Cells) /\ Len(Contents) = Length /\ Length \in Nat
      /\ \A k \in 1..Length : Contents[k] = queue[At(k)]
  BY ContentsSeq, AtCell DEF ContentsOK
<1>3. /\ Contents' \in Seq(Cells) /\ Len(Contents') = Length'
      /\ \A k \in 1..Length' : Contents'[k] = queue'[At(k)']
  <2>1. ContentsOK'
    BY ContentsSeq, PTL
  <2> QED
    BY <2>1 DEF ContentsOK, Cells
<1>4. m \in Cells
  BY DEF Cells
<1> HIDE DEF q
<1> QED
  BY <1>1, <1>2, <1>3, <1>4

\* skynet_mq_pop takes the first message of the contents.
LEMMA PopTakesFirst ==
  ASSUME BufferOK, BufferOK', Pop
  PROVE  Contents # << >> /\ Contents' = Tail(Contents)
<1>1. head' = Advance(head) /\ head # tail /\ UNCHANGED <<queue, cap, tail>>
  BY DEF Pop
<1>2. Length > 0 /\ Length' = Length - 1
  BY <1>1 DEF Length, Advance, BufferOK
<1>3. \A k \in 1..(Length - 1) : At(k)' = At(k + 1)
  BY <1>1, <1>2 DEF At, Advance, Length, BufferOK
<1>4. /\ Contents \in Seq(Cells) /\ Len(Contents) = Length /\ Length \in Nat
      /\ \A k \in 1..Length : Contents[k] = queue[At(k)]
  BY ContentsSeq, AtCell DEF ContentsOK
<1>5. /\ Contents' \in Seq(Cells) /\ Len(Contents') = Length'
      /\ \A k \in 1..Length' : Contents'[k] = queue'[At(k)']
  <2>1. ContentsOK'
    BY ContentsSeq, PTL
  <2> QED
    BY <2>1 DEF ContentsOK, Cells
<1>6. Contents # << >>
  BY <1>2, <1>4
<1>7. /\ Tail(Contents) \in Seq(Cells) /\ Len(Tail(Contents)) = Length - 1
      /\ \A k \in 1..(Length - 1) : Tail(Contents)[k] = Contents[k + 1]
  BY <1>4, <1>6, HeadTailProperties
<1>8. \A k \in 1..Len(Contents') : Contents'[k] = Tail(Contents)[k]
  BY <1>1, <1>2, <1>3, <1>4, <1>5, <1>7
<1> QED
  BY <1>2, <1>5, <1>6, <1>7, <1>8, SeqEqual

\* The buffer and its growth are invisible: the mailbox of skynet_mq.c is the
\* queue of module Fifo.
THEOREM MailboxIsFifo == Spec => ImplementsFifo
<1>1. Spec => []BufferOK
  BY InitBuffer, NextBuffer, PTL DEF Spec
<1>2. Init => Mailbox!Init
  <2> SUFFICES ASSUME Init PROVE Contents = << >>
    BY DEF Mailbox!Init
  <2>1. Length = 0
    BY DEF Init, Length
  <2> QED
    BY <2>1, InitBuffer, ContentsSeq DEF ContentsOK
<1>3. BufferOK /\ BufferOK' /\ [Next]_vars => [Mailbox!Next]_Contents
  <2> SUFFICES ASSUME BufferOK, BufferOK', [Next]_vars
               PROVE  Mailbox!Next \/ UNCHANGED Contents
    OBVIOUS
  <2>1. ASSUME NEW m \in Msgs, Push(m) PROVE Mailbox!Next
    BY <2>1, PushAppends DEF Mailbox!Next, Mailbox!Push
  <2>2. CASE Pop
    BY <2>2, PopTakesFirst DEF Mailbox!Next, Mailbox!Pop
  <2>3. CASE UNCHANGED bufVars
    BY <2>3 DEF bufVars, Contents, Length, At
  <2> QED
    BY <2>1, <2>2, <2>3 DEF Next, PopEmpty, MqOverload, vars, bufVars
<1> QED
  BY <1>1, <1>2, <1>3, PTL DEF Spec, ImplementsFifo, Mailbox!Spec
=============================================================================
