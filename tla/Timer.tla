------------------------------- MODULE Timer -------------------------------
(***************************************************************************)
(* The timer of a node (skynet_timer.c): a wheel of TIME_NEAR slots for   *)
(* the ticks ahead and four levels of TIME_LEVEL slots for the later      *)
(* ones, a clock that wraps, and the timer thread, which hands expired    *)
(* lists over without holding the lock.                                   *)
(*                                                                         *)
(* One step per critical section of T->lock; services call skynet_timeout *)
(* whenever the lock is free.  An event is identified by its session.     *)
(***************************************************************************)
EXTENDS Integers, Sequences, FiniteSets

CONSTANTS
  TimeNear,    \* TIME_NEAR (256 in the code)
  TimeLevel,   \* TIME_LEVEL (64)
  Events,      \* sessions that may be waiting
  Times,       \* arguments of skynet_timeout
  MaxDiff      \* bound: ticks that skynet_updatetime may find elapsed

\* The ticks that one slot of level lv stands for: the masks of the loops, each
\* shifted by TIME_LEVEL_SHIFT.  Those of level 4 would be the whole clock (2^32).
Span(lv) == CASE lv = 0 -> TimeNear
              [] lv = 1 -> TimeNear * TimeLevel
              [] lv = 2 -> TimeNear * TimeLevel * TimeLevel
              [] lv = 3 -> TimeNear * TimeLevel * TimeLevel * TimeLevel
              [] lv = 4 -> TimeNear * TimeLevel * TimeLevel * TimeLevel * TimeLevel
ClockMod == Span(4)
Clock    == 0..(ClockMod - 1)

\* An int is below half of the clock, and so is every timeout.
TimerConstants ==
  /\ TimeNear \in Nat \ {0} /\ TimeLevel \in Nat \ {0, 1} /\ MaxDiff \in Nat
  /\ Times \subseteq {ti \in Int : 2 * ti < ClockMod}

VARIABLES
  near, tv, time,  \* T->near, T->t, T->time
  pc,              \* the timer thread: "idle", or in timer_execute
  current,         \* the list dispatch_list walks
  owed,            \* iterations left of the loop of skynet_updatetime
  fired,           \* the events whose message the last step pushed
  waiting          \* history: what was asked for, [ev, left, before]: in how many
                   \* ticks it is due, and what had been asked for before it

vars == <<near, tv, time, pc, current, owed, fired, waiting>>

Nodes == [ev : Events, expire : Clock]

-----------------------------------------------------------------------------
(* add_node, move_list and timer_shift, on a wheel w = [near, tv].         *)

\* link(list, node).  An operator named Bad... is a plausible error in the one
\* after it.
Link(list, node)    == Append(list, node)

\* (a | (size - 1)) == (b | (size - 1)) for a power of two.
SameBlock(a, b, size) == a \div size = b \div size

\* The level of a node that is not near: the first whose block is shared with
\* the current time, else the last.
LevelOf(expire, now) ==
  LET ok == {lv \in 0..2 : SameBlock(expire, now, Span(lv + 1))}
  IN  IF ok = {} THEN 3 ELSE CHOOSE lv \in ok : \A k \in ok : lv <= k

Index(expire, lv) == (expire \div Span(lv)) % TimeLevel

AddNode(w, node, now) ==
  IF SameBlock(node.expire, now, TimeNear)
  THEN [w EXCEPT !.near[node.expire % TimeNear] = Link(@, node)]
  ELSE LET lv == LevelOf(node.expire, now)
       IN  [w EXCEPT !.tv[lv][Index(node.expire, lv)] = Link(@, node)]

\* move_list: the list is cleared, then its nodes are added again in order.
MoveList(w, lv, idx, now) ==
  LET list == w.tv[lv][idx]
      Moved[k \in 0..Len(list)] == IF k = 0 THEN [w EXCEPT !.tv[lv][idx] = << >>]
                                   ELSE AddNode(Moved[k - 1], list[k], now)
  IN  Moved[Len(list)]

\* timer_shift: at a boundary the list of the lowest level whose index is not
\* zero is redistributed; when the clock wraps it is list 0 of level 3.
BadShift(w, ct) ==
  LET due == {lv \in 0..3 : /\ ct % Span(lv) = 0
                            /\ Index(ct, lv) # 0}
  IN  IF due = {} THEN w
      ELSE LET lv == CHOOSE lv \in due : \A k \in due : lv <= k
           IN  MoveList(w, lv, Index(ct, lv), ct)
Shift(w, ct) ==
  LET due == {lv \in 0..3 : /\ ct % Span(lv) = 0
                            /\ Index(ct, lv) # 0}
  IN  IF ct = 0 THEN MoveList(w, 3, 0, ct)
      ELSE IF due = {} THEN w
      ELSE LET lv == CHOOSE lv \in due : \A k \in due : lv <= k
           IN  MoveList(w, lv, Index(ct, lv), ct)

-----------------------------------------------------------------------------
(* skynet_timeout.                                                         *)

\* node->expire = time + T->time, in 32 bits.
Expire(ti)    == (ti + time) % ClockMod

\* The lock is free unless the timer thread is inside timer_update and not in
\* dispatch_list.
LockFree == pc = "idle" \/ current # << >>

Free(ev) == \A e \in waiting : e.ev # ev

\* A service asks for a timeout; one of zero or less is sent at once.
Immediate(ti)    == ti <= 0
Timeout(ev, ti) ==
  /\ Free(ev)
  /\ IF Immediate(ti)
     THEN fired' = {ev} /\ UNCHANGED <<near, tv, waiting>>
     ELSE /\ LockFree
          /\ LET w == AddNode([near |-> near, tv |-> tv],
                              [ev |-> ev, expire |-> Expire(ti)], time)
             IN  near' = w.near /\ tv' = w.tv
          /\ waiting' = waiting \cup
                {[ev |-> ev, left |-> ti, before |-> {e.ev : e \in waiting}]}
          /\ fired' = {}
  /\ UNCHANGED <<time, pc, current, owed>>

-----------------------------------------------------------------------------
(* The timer thread: skynet_updatetime, timer_update.                      *)

\* skynet_updatetime finds diff > 0 ticks elapsed.  A clock that stands still
\* or goes back changes nothing here.
UpdateTime(diff) ==
  /\ pc = "idle" /\ owed = 0
  /\ owed' = diff
  /\ fired' = {}
  /\ UNCHANGED <<near, tv, time, pc, current, waiting>>

\* timer_update: the first timer_execute finds nothing (FirstExecuteIdle), then
\* timer_shift and the second timer_execute, which takes the list of this tick
\* off the wheel and gives up the lock if there is one.  In the history every
\* request comes one tick nearer.
TimerUpdate ==
  /\ pc = "idle" /\ owed > 0
  /\ LET ct   == (time + 1) % ClockMod
         w    == Shift([near |-> near, tv |-> tv], ct)
         list == w.near[ct % TimeNear]
     IN  /\ time' = ct
         /\ tv' = w.tv
         /\ near' = [w.near EXCEPT ![ct % TimeNear] = << >>]
         /\ current' = list
         /\ pc' = IF list # << >> THEN "execute" ELSE "idle"
         /\ owed' = IF list # << >> THEN owed ELSE owed - 1
  /\ waiting' = {[e EXCEPT !.left = @ - 1] : e \in waiting}
  /\ fired' = {}

\* dispatch_list pushes the message of one node, without the lock.
Dispatch ==
  /\ current # << >>
  /\ fired' = {Head(current).ev}
  /\ current' = Tail(current)
  /\ waiting' = {[e EXCEPT !.before = @ \ {Head(current).ev}] :
                   e \in {f \in waiting : f.ev # Head(current).ev}}
  /\ UNCHANGED <<near, tv, time, pc, owed>>

\* The loop of timer_execute takes the lock and looks again.
ExecuteAgain ==
  /\ pc = "execute" /\ current = << >>
  /\ LET list == near[time % TimeNear]
     IN  /\ current' = list
         /\ near' = [near EXCEPT ![time % TimeNear] = << >>]
         /\ pc' = IF list # << >> THEN "execute" ELSE "idle"
         /\ owed' = IF list # << >> THEN owed ELSE owed - 1
  /\ fired' = {}
  /\ UNCHANGED <<tv, time, waiting>>

-----------------------------------------------------------------------------
Init ==
  /\ near = [k \in 0..(TimeNear - 1) |-> << >>]
  /\ tv = [lv \in 0..3 |-> [k \in 0..(TimeLevel - 1) |-> << >>]]
  /\ time = 0 /\ pc = "idle" /\ current = << >> /\ owed = 0
  /\ fired = {} /\ waiting = {}

Next ==
  \/ \E ev \in Events, ti \in Times : Timeout(ev, ti)
  \/ \E diff \in 1..MaxDiff : UpdateTime(diff)
  \/ TimerUpdate \/ Dispatch \/ ExecuteAgain

Spec == Init /\ [][Next]_vars

-----------------------------------------------------------------------------
(* Properties.                                                             *)

TypeOK ==
  /\ near \in [0..(TimeNear - 1) -> Seq(Nodes)]
  /\ tv \in [0..3 -> [0..(TimeLevel - 1) -> Seq(Nodes)]]
  /\ time \in Clock /\ pc \in {"idle", "execute"}
  /\ current \in Seq(Nodes) /\ owed \in 0..MaxDiff
  /\ fired \subseteq Events
  /\ \A e \in waiting : /\ e.ev \in Events /\ e.left \in Nat /\ e.before \subseteq Events
                        /\ e = [ev |-> e.ev, left |-> e.left, before |-> e.before]

\* No timeout is lost, early or late, whatever level it was put on, across
\* cascades and across the wrap of the 32-bit clock: when timer_update gives
\* up the lock for the tick, the list it dispatches holds exactly the requests
\* whose time has come, and between ticks no overdue request is left.
FiresOnTime ==
  /\ current # << >> =>
       {current[k].ev : k \in DOMAIN current} = {e.ev : e \in {f \in waiting : f.left = 0}}
  /\ pc = "idle" => \A e \in waiting : e.left > 0

\* "try to dispatch timeout 0 (rare condition)": what the first timer_execute
\* of timer_update looks for is never there, because no timeout of 0 gets onto
\* the wheel and a request made while a list is being dispatched lies ahead.
FirstExecuteIdle == pc = "idle" => near[time % TimeNear] = << >>

\* Timeouts that expire in the same tick fire in the order they were asked
\* for, even if one of them came down from a higher level.
FiresInOrder ==
  \A a, b \in DOMAIN current : \A e \in waiting :
    a < b /\ e.ev = current[b].ev => current[a].ev \in e.before

TimerRight == TypeOK /\ FiresOnTime /\ FiresInOrder /\ FirstExecuteIdle

-----------------------------------------------------------------------------
(* The inductive invariant.                                                *)

\* The slots of the wheel; level -1 is T->near.
Slots == ({-1} \X (0..(TimeNear - 1))) \cup ((0..3) \X (0..(TimeLevel - 1)))
Wheel == [near |-> near, tv |-> tv]
List(w, s) == IF s[1] = -1 THEN w.near[s[2]] ELSE w.tv[s[1]][s[2]]

\* The slot where add_node puts a node that expires at that time.
Home(expire, now) ==
  IF SameBlock(expire, now, TimeNear) THEN <<-1, expire % TimeNear>>
  ELSE <<LevelOf(expire, now), Index(expire, LevelOf(expire, now))>>

\* The node of a request.
NodeOf(e) == [ev |-> e.ev, expire |-> Expire(e.left)]

\* Every request is on the wheel where add_node would put it now, or due and in
\* the list that is dispatched; nothing else is in either.
RequestOK(e) ==
  /\ 2 * e.left < ClockMod /\ e.ev \notin e.before
  /\ IF e.left > 0
     THEN LET list == List(Wheel, Home(Expire(e.left), time))
          IN  \E k \in DOMAIN list : list[k] = NodeOf(e)
     ELSE \E k \in DOMAIN current : current[k].ev = e.ev
SlotOK(s) ==
  LET list == List(Wheel, s)
  IN  \A k \in DOMAIN list :
        /\ s = Home(list[k].expire, time)
        /\ \E e \in waiting : e.left > 0 /\ list[k] = NodeOf(e)
CurrentOK == \A k \in DOMAIN current : \E e \in waiting : e.left = 0 /\ e.ev = current[k].ev

\* In every slot those of one tick are in the order they were asked for.
SlotInOrder(s) ==
  LET list == List(Wheel, s)
  IN  \A a, b \in DOMAIN list : \A e \in waiting :
        a < b /\ list[a].expire = list[b].expire /\ e.ev = list[b].ev
          => list[a].ev \in e.before

IInv ==
  /\ TypeOK
  /\ \A e, f \in waiting : e.ev = f.ev => e = f
  /\ \A e \in waiting : RequestOK(e)
  /\ \A s \in Slots : SlotOK(s) /\ SlotInOrder(s)
  /\ CurrentOK /\ FiresInOrder
  /\ IF pc = "idle" THEN current = << >> ELSE owed > 0
=============================================================================
