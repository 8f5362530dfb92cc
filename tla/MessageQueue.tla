---------------------------- MODULE MessageQueue ----------------------------
(***************************************************************************)
(* One mailbox of skynet_mq.c: the circular buffer that doubles when it   *)
(* is full, and the overload report.  The steps are the critical sections *)
(* of q->lock; in_global, release and the global queue are the subject of *)
(* module SkynetServer, which takes a mailbox to be a sequence.           *)
(***************************************************************************)
EXTENDS Integers, Sequences

CONSTANTS
  Msgs,        \* messages
  InitCap,     \* DEFAULT_QUEUE_SIZE (64)
  Overload,    \* MQ_OVERLOAD (1024)
  Undef,       \* content of memory that was allocated and not written
  MaxLen       \* bound: messages in the mailbox

ASSUME QueueAssumption ==
  /\ InitCap \in Nat /\ InitCap >= 2
  /\ Overload \in Nat \ {0}
  /\ MaxLen \in Nat

VARIABLES
  queue,              \* the array q->queue, of q->cap elements
  cap, head, tail,
  overload, overload_threshold,
  reported            \* history: the last length reported since the mailbox was empty

bufVars == <<queue, cap, head, tail>>
vars == <<bufVars, overload, overload_threshold, reported>>

\* skynet_mq_length.
Length == IF head <= tail THEN tail - head ELSE tail + cap - head

-----------------------------------------------------------------------------
\* expand_queue, on the array q: the messages start at 0 again.
BadExpanded(q) == [k \in 0..(2 * cap - 1) |-> IF k < cap THEN q[k] ELSE Undef]
Expanded(q) == [k \in 0..(2 * cap - 1) |->
                  IF k < cap THEN q[(head + k) % cap] ELSE Undef]

\* The index after k, as skynet_mq_push and skynet_mq_pop advance it.
Advance(k) == IF k + 1 >= cap THEN 0 ELSE k + 1

\* skynet_mq_push.
Push(m) ==
  LET q == [queue EXCEPT ![tail] = m]
  IN  /\ IF head = Advance(tail)
         THEN /\ queue' = Expanded(q)
              /\ head' = 0 /\ tail' = cap /\ cap' = 2 * cap
         ELSE /\ queue' = q
              /\ tail' = Advance(tail)
              /\ UNCHANGED <<head, cap>>
      /\ UNCHANGED <<overload, overload_threshold, reported>>

\* The while loop of skynet_mq_pop: how far the threshold doubles.
Doubled(len) ==
  LET f[x \in Nat] == IF len > x THEN f[2 * x] ELSE x
  IN  f[overload_threshold]

\* skynet_mq_pop, and the skynet_mq_overload that follows it in
\* skynet_context_message_dispatch: a report is made and cleared at once.
Threshold(len)    == Doubled(len)
Pop ==
  LET h   == Advance(head)
      len == IF tail - h < 0 THEN tail - h + cap ELSE tail - h
  IN  /\ head # tail
      /\ head' = h
      /\ overload_threshold' = Threshold(len)
      /\ overload' = IF len > overload_threshold THEN len ELSE overload
      /\ UNCHANGED <<queue, cap, tail, reported>>

\* skynet_mq_pop on the empty mailbox.
PopEmpty ==
  /\ head = tail
  /\ overload_threshold' = Overload
  /\ reported' = 0
  /\ UNCHANGED <<bufVars, overload>>

\* skynet_mq_overload, by the worker that dispatches this mailbox.
MqOverload ==
  /\ overload # 0
  /\ overload' = 0
  /\ reported' = overload
  /\ UNCHANGED <<bufVars, overload_threshold>>

-----------------------------------------------------------------------------
Init ==
  /\ queue = [k \in 0..(InitCap - 1) |-> Undef]
  /\ cap = InitCap /\ head = 0 /\ tail = 0
  /\ overload = 0 /\ overload_threshold = Overload /\ reported = 0

\* A pop is followed by skynet_mq_overload before the next pop; pushes come
\* in between.
Next ==
  \/ \E m \in Msgs : Length < MaxLen /\ Push(m)
  \/ overload = 0 /\ (Pop \/ PopEmpty)
  \/ MqOverload

Spec == Init /\ [][Next]_vars

-----------------------------------------------------------------------------
(* Properties.                                                             *)

\* The buffer part of the type invariant.
BufferOK ==
  /\ cap \in Nat /\ cap >= 2
  /\ queue \in [0..(cap - 1) -> Msgs \cup {Undef}]
  /\ head \in 0..(cap - 1) /\ tail \in 0..(cap - 1)
TypeOK ==
  /\ BufferOK
  /\ overload \in Nat /\ overload_threshold \in Nat /\ reported \in Nat

\* The messages between head and tail, oldest first.
At(k)    == IF head + k - 1 >= cap THEN head + k - 1 - cap ELSE head + k - 1
Contents == [k \in 1..Length |-> queue[At(k)]]

\* The circular buffer is a queue: push, expand and pop act on Contents as on
\* the sequence of module Fifo (skynet_mq_push, expand_queue, skynet_mq_pop).
Mailbox == INSTANCE Fifo WITH items <- Contents
ImplementsFifo == Mailbox!Spec

\* Every cell between head and tail was written: no push or expansion leaves
\* a hole or overwrites an unread message with rubbish.
NoHoles == \A k \in 1..Length : queue[At(k)] \in Msgs

\* Overload reports grow: until the mailbox has been empty, a length is
\* reported only if it is larger than the one reported before, so a full
\* mailbox does not flood the log.
ReportsGrow == [][MqOverload => overload > reported]_vars
=============================================================================
