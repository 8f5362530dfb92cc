---------------------------- MODULE TimerProofs ----------------------------
(***************************************************************************)
(* Proofs about the timer wheel, for every number of slots, any set of    *)
(* sessions and every timeout below half of the clock.  First the blocks  *)
(* of ticks that the slots of a level stand for, then where add_node,     *)
(* move_list and timer_shift leave the nodes (a node is at home where     *)
(* add_node would put it now), then the invariant: Good says of a wheel,  *)
(* a time, the requests and the list being dispatched what IInv says of   *)
(* the variables, so that it can be shown of a wheel before it is stored. *)
(***************************************************************************)
EXTENDS Timer, WellFoundedInduction, NaturalsInduction, TLAPS

-----------------------------------------------------------------------------
(* Blocks of ticks.                                                        *)

\* Quotient and remainder.
LEMMA DivMod ==
  ASSUME NEW a \in Nat, NEW d \in Nat \ {0}
  PROVE  /\ a = (d * (a \div d)) + (a % d)
         /\ a % d \in 0..(d - 1) /\ a \div d \in Nat
BY SMT

\* They are unique.
LEMMA DivUnique ==
  ASSUME NEW a \in Nat, NEW d \in Nat \ {0}, NEW q \in Int, NEW r \in 0..(d - 1), a = d * q + r
  PROVE  a \div d = q /\ a % d = r
BY SMT

\* A block of a block.
LEMMA DivDiv ==
  ASSUME NEW a \in Nat, NEW d \in Nat \ {0}, NEW l \in Nat \ {0}
  PROVE  a \div (d * l) = (a \div d) \div l
BY SMT

\* Blocks come in the order of their ticks.
LEMMA DivMono ==
  ASSUME NEW a \in Nat, NEW b \in Nat, a <= b, NEW d \in Nat \ {0}
  PROVE  a \div d <= b \div d
BY SMT

\* The next tick is in the next block exactly at a multiple of the block size.
LEMMA DivNext ==
  ASSUME NEW a \in Nat, NEW d \in Nat \ {0}
  PROVE  IF (a + 1) % d = 0 THEN (a + 1) \div d = (a \div d) + 1
         ELSE (a + 1) \div d = a \div d
<1> DEFINE q == a \div d  r == a % d
<1>1. a = d * q + r /\ r \in 0..(d - 1) /\ q \in Nat
  BY DivMod
<1> HIDE DEF q, r
<1>2. CASE r = d - 1
  <2>1. a + 1 = d * (q + 1) + 0
    BY <1>1, <1>2
  <2>2. (a + 1) \div d = q + 1 /\ (a + 1) % d = 0
    BY <1>1, <2>1, DivUnique
  <2> QED
    BY <2>2 DEF q
<1>3. CASE r # d - 1
  <2>1. a + 1 = d * q + (r + 1) /\ r + 1 \in 0..(d - 1)
    BY <1>1, <1>3
  <2>2. (a + 1) \div d = q /\ (a + 1) % d = r + 1
    BY <1>1, <2>1, DivUnique
  <2> QED
    BY <2>2, <1>1 DEF q
<1> QED
  BY <1>2, <1>3

\* The sizes of the blocks, each TimeLevel times the one before.
LEMMA Spans ==
  ASSUME TimerConstants
  PROVE  /\ \A lv \in 0..4 : Span(lv) \in Nat \ {0}
         /\ \A lv \in 0..3 : Span(lv + 1) = Span(lv) * TimeLevel
         /\ Span(0) = TimeNear /\ ClockMod = Span(4) /\ ClockMod \in Nat \ {0}
         /\ TimeLevel \in Nat /\ TimeLevel >= 2
<1>0. TimeNear \in Nat \ {0} /\ TimeLevel \in Nat \ {0}
  BY DEF TimerConstants
<1>1. /\ Span(0) = TimeNear /\ Span(1) = Span(0) * TimeLevel /\ Span(2) = Span(1) * TimeLevel
      /\ Span(3) = Span(2) * TimeLevel /\ Span(4) = Span(3) * TimeLevel
  BY <1>0 DEF Span
<1>a. \A x, y \in Nat \ {0} : x * y \in Nat \ {0}
  OBVIOUS
<1>2. Span(0) \in Nat \ {0} /\ Span(1) \in Nat \ {0}
  BY <1>0, <1>1, <1>a
<1>3. Span(2) \in Nat \ {0} /\ Span(3) \in Nat \ {0}
  BY <1>0, <1>1, <1>2, <1>a
<1>4. Span(4) \in Nat \ {0}
  BY <1>0, <1>1, <1>3, <1>a
<1>5. \A lv \in 0..3 : Span(lv + 1) = Span(lv) * TimeLevel
  <2> TAKE lv \in 0..3
  <2>1. lv = 0 \/ lv = 1 \/ lv = 2 \/ lv = 3
    OBVIOUS
  <2>2. 0 + 1 = 1 /\ 1 + 1 = 2 /\ 2 + 1 = 3 /\ 3 + 1 = 4
    OBVIOUS
  <2> HIDE DEF Span
  <2> QED
    BY <1>1, <2>1, <2>2
<1>6. \A lv \in 0..4 : Span(lv) \in Nat \ {0}
  <2> TAKE lv \in 0..4
  <2>1. lv = 0 \/ lv = 1 \/ lv = 2 \/ lv = 3 \/ lv = 4
    OBVIOUS
  <2> QED
    BY <1>2, <1>3, <1>4, <2>1
<1>7. TimeLevel >= 2
  BY DEF TimerConstants
<1> QED
  BY <1>0, <1>1, <1>4, <1>5, <1>6, <1>7 DEF ClockMod

\* The number of the block of level lv in which a tick lies.
B(lv, a) == a \div Span(lv)

\* What the proofs use of them.
LEMMA Blocks ==
  ASSUME TimerConstants, NEW a \in Clock
  PROVE  /\ \A lv \in 0..4 : B(lv, a) \in Nat
         /\ \A lv \in 0..3 : B(lv + 1, a) = B(lv, a) \div TimeLevel
         /\ \A lv \in 0..3 : B(lv, a) = (TimeLevel * B(lv + 1, a)) + Index(a, lv)
         /\ \A lv \in 0..3 : Index(a, lv) \in 0..(TimeLevel - 1)
         /\ B(4, a) = 0
<1>0. a \in Nat /\ a < ClockMod
  BY Spans DEF Clock
<1>1. \A lv \in 0..4 : B(lv, a) \in Nat
  BY <1>0, Spans, DivMod DEF B
<1>2. \A lv \in 0..3 : B(lv + 1, a) = B(lv, a) \div TimeLevel
  <2> TAKE lv \in 0..3
  <2>1. Span(lv) \in Nat \ {0} /\ TimeLevel \in Nat \ {0} /\ Span(lv + 1) = Span(lv) * TimeLevel
    BY Spans
  <2> QED
    BY <1>0, <2>1, DivDiv DEF B
<1>3. \A lv \in 0..3 : /\ B(lv, a) = (TimeLevel * B(lv + 1, a)) + Index(a, lv)
                       /\ Index(a, lv) \in 0..(TimeLevel - 1)
  <2> TAKE lv \in 0..3
  <2>1. B(lv, a) \in Nat /\ TimeLevel \in Nat \ {0} /\ Index(a, lv) = B(lv, a) % TimeLevel
    BY <1>1, Spans DEF Index, B
  <2> QED
    BY <2>1, <1>2, DivMod
<1>4. B(4, a) = 0
  <2>1. a = Span(4) * 0 + a /\ a \in 0..(Span(4) - 1) /\ Span(4) \in Nat \ {0}
    BY <1>0, Spans
  <2> QED
    BY <1>0, <2>1, DivUnique DEF B
<1> QED
  BY <1>1, <1>2, <1>3, <1>4

\* Ticks in one block are in one block of the next level.
LEMMA BlocksUp ==
  ASSUME TimerConstants, NEW a \in Clock, NEW b \in Clock
  PROVE  \A i, j \in 0..4 : i <= j /\ B(i, a) = B(i, b) => B(j, a) = B(j, b)
<1>1. \A lv \in 0..3 : B(lv, a) = B(lv, b) => B(lv + 1, a) = B(lv + 1, b)
  BY Blocks
<1>2. /\ B(0, a) = B(0, b) => B(1, a) = B(1, b)
      /\ B(1, a) = B(1, b) => B(2, a) = B(2, b)
      /\ B(2, a) = B(2, b) => B(3, a) = B(3, b)
      /\ B(3, a) = B(3, b) => B(4, a) = B(4, b)
  <2>1. 0 + 1 = 1 /\ 1 + 1 = 2 /\ 2 + 1 = 3 /\ 3 + 1 = 4 /\ 0 \in 0..3 /\ 1 \in 0..3 /\ 2 \in 0..3 /\ 3 \in 0..3
    OBVIOUS
  <2> QED
    BY <1>1, <2>1
<1> SUFFICES ASSUME NEW i \in 0..4, NEW j \in 0..4, i <= j, B(i, a) = B(i, b) PROVE B(j, a) = B(j, b)
  OBVIOUS
<1>3. i = 0 \/ i = 1 \/ i = 2 \/ i = 3 \/ i = 4
  OBVIOUS
<1>4. j = 0 \/ j = 1 \/ j = 2 \/ j = 3 \/ j = 4
  OBVIOUS
<1> QED
  BY <1>2, <1>3, <1>4

\* Two ticks are in one block of all levels or there is a last level at which
\* they are not.
LEMMA LastLevel ==
  ASSUME TimerConstants, NEW a \in Clock, NEW b \in Clock
  PROVE  \/ B(0, a) = B(0, b)
         \/ \E lv \in 0..3 : B(lv, a) # B(lv, b) /\ B(lv + 1, a) = B(lv + 1, b)
<1>1. B(4, a) = B(4, b)
  BY Blocks
<1>2. 0 + 1 = 1 /\ 1 + 1 = 2 /\ 2 + 1 = 3 /\ 3 + 1 = 4
  OBVIOUS
<1> QED
  BY <1>1, <1>2

\* LevelOf, and so add_node, finds that level.
LEMMA HomeIs ==
  ASSUME TimerConstants, NEW a \in Clock, NEW now \in Clock
  PROVE  /\ B(0, a) = B(0, now) => Home(a, now) = <<-1, a % TimeNear>>
         /\ \A lv \in 0..3 : B(lv, a) # B(lv, now) /\ B(lv + 1, a) = B(lv + 1, now)
              => Home(a, now) = <<lv, Index(a, lv)>>
<1>1. SameBlock(a, now, TimeNear) <=> B(0, a) = B(0, now)
  BY Spans DEF SameBlock, B
<1>2. ASSUME NEW lv \in 0..3, B(lv, a) # B(lv, now), B(lv + 1, a) = B(lv + 1, now)
      PROVE  Home(a, now) = <<lv, Index(a, lv)>>
  <2>1. \A k \in 0..2 : SameBlock(a, now, Span(k + 1)) <=> B(k + 1, a) = B(k + 1, now)
    BY DEF SameBlock, B
  <2>2. \A i \in 0..4 : (i <= lv => B(i, a) # B(i, now)) /\ (i >= lv + 1 => B(i, a) = B(i, now))
    <3>1. lv \in 0..4 /\ lv + 1 \in 0..4
      OBVIOUS
    <3> QED
      BY <1>2, <3>1, BlocksUp
  <2>3. \A k \in 0..2 : SameBlock(a, now, Span(k + 1)) <=> k >= lv
    <3> TAKE k \in 0..2
    <3>1. k + 1 \in 0..4
      OBVIOUS
    <3> QED
      BY <2>1, <2>2, <3>1
  <2> DEFINE ok == {k \in 0..2 : SameBlock(a, now, Span(k + 1))}
  <2>4. ok = {k \in 0..2 : k >= lv}
    BY <2>3
  <2>5. LevelOf(a, now) = IF ok = {} THEN 3 ELSE CHOOSE k \in ok : \A j \in ok : k <= j
    BY DEF LevelOf
  <2> HIDE DEF ok
  <2>6. LevelOf(a, now) = lv
    <3>1. CASE lv = 3
      <4>1. ok = {}
        BY <2>4, <3>1
      <4> QED
        BY <2>5, <4>1, <3>1
    <3>2. CASE lv # 3
      <4>1. lv \in ok /\ \A j \in ok : j \in 0..2 /\ lv <= j
        BY <2>4, <3>2
      <4> DEFINE First(k) == \A j \in ok : k <= j
      <4>2. First(lv)
        BY <4>1
      <4> DEFINE c == CHOOSE k \in ok : First(k)
      <4> HIDE DEF First
      <4>3. c \in ok /\ First(c)
        BY <4>1, <4>2
      <4> HIDE DEF c
      <4>4. c = lv
        BY <4>1, <4>3 DEF First
      <4>5. LevelOf(a, now) = c
        BY <2>5, <4>1 DEF c, First
      <4> QED
        BY <4>4, <4>5
    <3> QED
      BY <3>1, <3>2
  <2>7. ~SameBlock(a, now, TimeNear)
    BY <1>1, <2>2
  <2> QED
    BY <2>6, <2>7 DEF Home
<1> QED
  BY <1>1, <1>2 DEF Home

\* A home is a slot.
LEMMA HomeSlot ==
  ASSUME TimerConstants, NEW a \in Clock, NEW now \in Clock
  PROVE  Home(a, now) \in Slots
<1>1. CASE B(0, a) = B(0, now)
  <2>1. a % TimeNear \in 0..(TimeNear - 1)
    BY Spans, DivMod DEF Clock, TimerConstants
  <2> QED
    BY <1>1, <2>1, HomeIs DEF Slots
<1>2. ASSUME NEW lv \in 0..3, B(lv, a) # B(lv, now), B(lv + 1, a) = B(lv + 1, now)
      PROVE  Home(a, now) \in Slots
  BY <1>2, HomeIs, Blocks DEF Slots
<1> QED
  BY <1>1, <1>2, LastLevel

\* The time of a request left ticks ahead, on a clock that wraps.
Ahead(a, now) == \E left \in Nat : left > 0 /\ 2 * left < ClockMod /\ a = (left + now) % ClockMod

\* Half of the clock ahead is either after now or, wrapped, far before it.
LEMMA AheadIs ==
  ASSUME TimerConstants, NEW a, NEW now \in Clock, Ahead(a, now)
  PROVE  a \in Clock /\ (a > now \/ 2 * a + ClockMod < 2 * now)
<1>1. PICK left \in Nat : left > 0 /\ 2 * left < ClockMod /\ a = (left + now) % ClockMod
  BY DEF Ahead
<1>2. ClockMod \in Nat \ {0} /\ now \in Nat /\ now < ClockMod
  BY Spans DEF Clock
<1>3. CASE left + now < ClockMod
  <2>1. left + now = ClockMod * 0 + (left + now) /\ left + now \in 0..(ClockMod - 1)
    BY <1>2, <1>3
  <2>2. a = left + now
    BY <1>1, <1>2, <2>1, DivUnique
  <2> QED
    BY <2>1, <2>2, <1>1, <1>2 DEF Clock
<1>4. CASE left + now >= ClockMod
  <2>1. left + now = ClockMod * 1 + (left + now - ClockMod) /\ left + now - ClockMod \in 0..(ClockMod - 1)
    BY <1>1, <1>2, <1>4
  <2>2. a = left + now - ClockMod
    BY <1>1, <1>2, <2>1, DivUnique
  <2> QED
    BY <2>1, <2>2, <1>1, <1>2 DEF Clock
<1> QED
  BY <1>2, <1>3, <1>4

\* Ticks at least half of the clock apart are in different blocks of the last level.
LEMMA FarApart ==
  ASSUME TimerConstants, NEW a \in Clock, NEW b \in Clock, 2 * a + ClockMod <= 2 * b
  PROVE  B(3, a) # B(3, b)
<1> DEFINE s == Span(3)
<1>1. s \in Nat \ {0} /\ ClockMod = s * TimeLevel /\ TimeLevel \in Nat /\ TimeLevel >= 2 /\ a \in Nat /\ b \in Nat
  <2>1. 3 + 1 = 4 /\ 3 \in 0..3 /\ 3 \in 0..4
    OBVIOUS
  <2> QED
    BY <2>1, Spans DEF Clock
<1>2. /\ a = s * B(3, a) + (a % s) /\ a % s \in 0..(s - 1)
      /\ b = s * B(3, b) + (b % s) /\ b % s \in 0..(s - 1)
      /\ B(3, a) \in Nat /\ B(3, b) \in Nat
  BY <1>1, DivMod DEF B
<1> HIDE DEF s
<1>3. ASSUME B(3, a) = B(3, b) PROVE FALSE
  <2> DEFINE p == s * B(3, a)  x == a % s  y == b % s
  <2>1. a = p + x /\ b = p + y /\ p \in Nat /\ x \in 0..(s - 1) /\ y \in 0..(s - 1)
    BY <1>1, <1>2, <1>3
  <2>2. ClockMod >= 2 * s
    BY <1>1
  <2>3. ClockMod \in Nat
    BY Spans
  <2> HIDE DEF p, x, y
  <2> QED
    BY <1>1, <2>1, <2>2, <2>3
<1> QED
  BY <1>3

-----------------------------------------------------------------------------
(* The tick.                                                               *)

\* The levels that timer_shift finds due at ct, the slot of the lowest.
Due(ct) == {lv \in 0..3 : ct % Span(lv) = 0 /\ Index(ct, lv) # 0}

\* A multiple of the block size of a level is one of those below.
LEMMA Multiples ==
  ASSUME TimerConstants, NEW ct \in Clock
  PROVE  \A i, j \in 0..4 : i <= j /\ ct % Span(j) = 0 => ct % Span(i) = 0
<1>1. ASSUME NEW lv \in 0..3, ct % Span(lv + 1) = 0 PROVE ct % Span(lv) = 0
  <2> DEFINE s == Span(lv)  t == Span(lv + 1)  q == ct \div t
  <2>1. s \in Nat \ {0} /\ t \in Nat \ {0} /\ t = s * TimeLevel /\ TimeLevel \in Nat /\ ct \in Nat
    <3>1. lv \in 0..4 /\ lv + 1 \in 0..4
      OBVIOUS
    <3> QED
      BY <3>1, Spans DEF Clock
  <2> HIDE DEF s, t
  <2>a. ct % t = 0
    BY <1>1 DEF t
  <2>b. ct = (t * q) + (ct % t) /\ q \in Nat
    BY <2>1, DivMod
  <2> HIDE DEF q
  <2>2. ct = t * q /\ q \in Nat
    BY <2>1, <2>a, <2>b
  <2>3. ct = s * (TimeLevel * q) + 0 /\ TimeLevel * q \in Int
    BY <2>1, <2>2
  <2>4. ct % s = 0
    BY <2>1, <2>3, DivUnique
  <2> QED
    BY <2>4 DEF s
<1>2. /\ ct % Span(1) = 0 => ct % Span(0) = 0
      /\ ct % Span(2) = 0 => ct % Span(1) = 0
      /\ ct % Span(3) = 0 => ct % Span(2) = 0
      /\ ct % Span(4) = 0 => ct % Span(3) = 0
  <2>1. 0 + 1 = 1 /\ 1 + 1 = 2 /\ 2 + 1 = 3 /\ 3 + 1 = 4 /\ 0 \in 0..3 /\ 1 \in 0..3 /\ 2 \in 0..3 /\ 3 \in 0..3
    OBVIOUS
  <2> QED
    BY <1>1, <2>1
<1> SUFFICES ASSUME NEW i \in 0..4, NEW j \in 0..4, i <= j, ct % Span(j) = 0 PROVE ct % Span(i) = 0
  OBVIOUS
<1>3. i = 0 \/ i = 1 \/ i = 2 \/ i = 3 \/ i = 4
  OBVIOUS
<1>4. j = 0 \/ j = 1 \/ j = 2 \/ j = 3 \/ j = 4
  OBVIOUS
<1> QED
  BY <1>2, <1>3, <1>4

\* At a multiple of the block size of level j all lower indices are zero.
LEMMA LowerZero ==
  ASSUME TimerConstants, NEW ct \in Clock, NEW i \in 0..3, NEW j \in 0..4, i < j, ct % Span(j) = 0
  PROVE  Index(ct, i) = 0
<1> DEFINE s == Span(i)  t == Span(i + 1)  q == ct \div t
<1>1. s \in Nat \ {0} /\ t \in Nat \ {0} /\ t = s * TimeLevel /\ TimeLevel \in Nat \ {0} /\ ct \in Nat
  <2>1. i \in 0..4 /\ i + 1 \in 0..4
    OBVIOUS
  <2> QED
    BY <2>1, Spans DEF Clock
<1>2. ct % t = 0
  <2>1. i + 1 \in 0..4 /\ i + 1 <= j
    OBVIOUS
  <2> QED
    BY <2>1, Multiples
<1> HIDE DEF s, t
<1>a. ct = (t * q) + (ct % t) /\ q \in Nat
  BY <1>1, DivMod
<1> HIDE DEF q
<1>3. ct = t * q /\ q \in Nat
  BY <1>1, <1>2, <1>a
<1>4. ct = s * (TimeLevel * q) + 0 /\ TimeLevel * q \in Nat
  BY <1>1, <1>3
<1>5. ct \div s = TimeLevel * q
  BY <1>1, <1>4, DivUnique
<1>6. TimeLevel * q = TimeLevel * q + 0 /\ 0 \in 0..(TimeLevel - 1)
  BY <1>1, <1>3
<1>7. (TimeLevel * q) % TimeLevel = 0
  BY <1>1, <1>3, <1>4, <1>6, DivUnique
<1> QED
  BY <1>5, <1>7 DEF Index, s

\* Nodes outside of the list that timer_shift redistributes are where add_node
\* would put them at the new time.  Before the clock wraps:
LEMMA Stays ==
  ASSUME TimerConstants, NEW now \in Clock, now + 1 < ClockMod, NEW a, Ahead(a, now),
         Home(a, now + 1) # Home(a, now)
  PROVE  \E lv \in Due(now + 1) : /\ \A k \in Due(now + 1) : lv <= k
                                  /\ Home(a, now) = <<lv, Index(now + 1, lv)>>
<1> DEFINE ct == now + 1
<1>1. a \in Clock /\ ct \in Clock /\ a \in Nat /\ now \in Nat /\ ClockMod \in Nat /\ ct > now
  BY AheadIs, Spans DEF Clock
<1>2. CASE 2 * a + ClockMod < 2 * now
  <2>1. 2 * a + ClockMod <= 2 * now /\ 2 * a + ClockMod <= 2 * ct
    BY <1>1, <1>2
  <2> HIDE DEF ct
  <2>2. B(3, a) # B(3, now) /\ B(3, a) # B(3, ct)
    BY <1>1, <2>1, FarApart
  <2>3. B(4, a) = B(4, now) /\ B(4, a) = B(4, ct)
    BY <1>1, Blocks
  <2>4. 3 \in 0..3 /\ 3 + 1 = 4
    OBVIOUS
  <2>5. Home(a, now) = <<3, Index(a, 3)>> /\ Home(a, ct) = <<3, Index(a, 3)>>
    BY <1>1, <2>2, <2>3, <2>4, HomeIs
  <2> QED
    BY <2>5 DEF ct
<1>3. CASE a > now
  <2>1. a >= ct
    BY <1>1, <1>3
  <2> HIDE DEF ct
  <2>2. ASSUME NEW j \in 0..4, B(j, a) = B(j, now) PROVE B(j, a) = B(j, ct)
    <3>1. B(j, now) <= B(j, ct) /\ B(j, ct) <= B(j, a)
      BY <1>1, <2>1, DivMono, Spans DEF B
    <3> QED
      BY <1>1, <2>2, <3>1, Blocks
  <2>3. B(0, a) # B(0, now)
    <3>1. CASE B(0, a) = B(0, now)
      <4>1. B(0, a) = B(0, ct)
        BY <2>2, <3>1
      <4> QED
        BY <1>1, <3>1, <4>1, HomeIs DEF ct
    <3> QED
      BY <3>1
  <2>4. PICK lv \in 0..3 : B(lv, a) # B(lv, now) /\ B(lv + 1, a) = B(lv + 1, now)
    BY <1>1, <2>3, LastLevel
  <2>a. lv \in 0..4 /\ lv + 1 \in 0..4
    OBVIOUS
  <2>5. Home(a, now) = <<lv, Index(a, lv)>>
    BY <1>1, <2>4, HomeIs
  <2>6. B(lv + 1, a) = B(lv + 1, ct)
    BY <2>2, <2>4, <2>a
  <2>7. B(lv, a) = B(lv, ct)
    <3>1. CASE B(lv, a) # B(lv, ct)
      <4>1. Home(a, ct) = <<lv, Index(a, lv)>>
        BY <1>1, <2>6, <3>1, HomeIs
      <4> QED
        BY <2>5, <4>1 DEF ct
    <3> QED
      BY <3>1
  <2>8. ct % Span(lv) = 0 /\ B(lv, ct) = B(lv, now) + 1
    BY <1>1, <2>4, <2>7, <2>a, DivNext, Spans DEF B, ct
  <2>9. Index(a, lv) = Index(ct, lv)
    BY <2>7 DEF Index, B
  <2>10. Index(ct, lv) # 0
    <3>1. ASSUME Index(ct, lv) = 0 PROVE FALSE
      <4> DEFINE p == B(lv + 1, ct)
      <4>1. B(lv, ct) = (TimeLevel * p) + 0 /\ p \in Nat
        BY <1>1, <3>1, <2>a, Blocks
      <4>2. B(lv, now) = (TimeLevel * p) + Index(now, lv) /\ Index(now, lv) \in 0..(TimeLevel - 1)
        BY <1>1, <2>a, <2>4, <2>6, Blocks
      <4> HIDE DEF p
      <4>3. TimeLevel \in Nat /\ TimeLevel * p \in Nat
        BY <4>1, Spans
      <4> QED
        BY <4>1, <4>2, <4>3, <2>8
    <3> QED
      BY <3>1
  <2>11. lv \in Due(ct)
    BY <2>8, <2>10 DEF Due
  <2>12. ASSUME NEW k \in Due(ct) PROVE lv <= k
    <3>1. k \in 0..3 /\ Index(ct, k) # 0
      BY <2>12 DEF Due
    <3>2. ~(k < lv)
      BY <1>1, <2>8, <2>a, <3>1, LowerZero
    <3> QED
      BY <3>1, <3>2
  <2> QED
    BY <2>5, <2>9, <2>11, <2>12 DEF ct
<1> QED
  BY <1>1, <1>2, <1>3, AheadIs

\* When the clock wraps, and timer_shift redistributes list 0 of level 3:
LEMMA StaysAtWrap ==
  ASSUME TimerConstants, NEW now \in Clock, now + 1 = ClockMod, NEW a, Ahead(a, now),
         Home(a, 0) # Home(a, now)
  PROVE  Home(a, now) = <<3, 0>>
<1>1. a \in Clock /\ 0 \in Clock /\ a \in Nat /\ ClockMod \in Nat \ {0} /\ 2 * a + ClockMod < 2 * now
  BY AheadIs, Spans DEF Clock
<1>a. 3 \in 0..3 /\ 3 \in 0..4 /\ 3 + 1 = 4
  OBVIOUS
<1>2. B(3, a) # B(3, now) /\ B(4, a) = B(4, now) /\ B(4, a) = B(4, 0)
  BY <1>1, FarApart, Blocks
<1>3. Home(a, now) = <<3, Index(a, 3)>>
  BY <1>1, <1>a, <1>2, HomeIs
<1>4. CASE B(3, a) # B(3, 0)
  BY <1>1, <1>a, <1>2, <1>3, <1>4, HomeIs
<1>5. CASE B(3, a) = B(3, 0)
  <2>1. B(3, 0) = 0
    <3>1. 0 = Span(3) * 0 + 0 /\ Span(3) \in Nat \ {0}
      BY <1>a, Spans
    <3> QED
      BY <3>1, DivUnique DEF B
  <2>2. B(3, a) = (TimeLevel * 0) + Index(a, 3)
    BY <1>1, <1>a, Blocks
  <2>3. Index(a, 3) = 0
    BY <1>1, <1>a, <1>5, <2>1, <2>2, Blocks, Spans
  <2> QED
    BY <1>3, <2>3
<1> QED
  BY <1>4, <1>5

-----------------------------------------------------------------------------
(* The lists of the wheel.                                                 *)

IsWheel(w) == /\ w = [near |-> w.near, tv |-> w.tv]
              /\ w.near \in [0..(TimeNear - 1) -> Seq(Nodes)]
              /\ w.tv \in [0..3 -> [0..(TimeLevel - 1) -> Seq(Nodes)]]

\* Every slot has a list.
LEMMA Lists ==
  ASSUME NEW w, IsWheel(w), NEW s \in Slots
  PROVE  /\ List(w, s) \in Seq(Nodes) /\ Len(List(w, s)) \in Nat
         /\ DOMAIN List(w, s) = 1..Len(List(w, s))
         /\ \A k \in DOMAIN List(w, s) : /\ List(w, s)[k] \in Nodes
                                         /\ List(w, s)[k].expire \in Clock
<1>1. List(w, s) \in Seq(Nodes)
  <2>1. CASE s \in {-1} \X (0..(TimeNear - 1))
    BY <2>1 DEF IsWheel, List
  <2>2. CASE s \in (0..3) \X (0..(TimeLevel - 1))
    <3>1. s[1] # -1 /\ s[1] \in 0..3 /\ s[2] \in 0..(TimeLevel - 1)
      BY <2>2
    <3> QED
      BY <3>1 DEF IsWheel, List
  <2> QED
    BY <2>1, <2>2 DEF Slots
<1>2. \A x \in Nodes : x.expire \in Clock
  BY DEF Nodes
<1> QED
  BY <1>1, <1>2

\* add_node puts the node at the end of its home list.
LEMMA AddNodePuts ==
  ASSUME TimerConstants, NEW w, IsWheel(w), NEW x \in Nodes, NEW now \in Clock
  PROVE  /\ IsWheel(AddNode(w, x, now))
         /\ \A s \in Slots : List(AddNode(w, x, now), s) =
              IF s = Home(x.expire, now) THEN Append(List(w, s), x) ELSE List(w, s)
<1> DEFINE h == Home(x.expire, now)  g == AddNode(w, x, now)
<1>1. x.expire \in Clock
  BY DEF Nodes
<1>2. h \in Slots
  BY <1>1, HomeSlot
<1>3. CASE SameBlock(x.expire, now, TimeNear)
  <2> DEFINE i == x.expire % TimeNear
  <2>1. h = <<-1, i>>
    BY <1>3 DEF Home
  <2>2. g = [w EXCEPT !.near[i] = Append(@, x)]
    BY <1>3 DEF AddNode, Link
  <2> HIDE DEF h, g, i
  <2>3. i \in 0..(TimeNear - 1)
    BY <1>2, <2>1 DEF Slots
  <2>c. w.near[i] \in Seq(Nodes)
    BY <2>3 DEF IsWheel
  <2>4. Append(w.near[i], x) \in Seq(Nodes)
    BY <2>c
  <2>5. g.near = [w.near EXCEPT ![i] = Append(w.near[i], x)] /\ g.tv = w.tv /\ g = [near |-> g.near, tv |-> g.tv]
    BY <2>2 DEF IsWheel
  <2>6. g.near \in [0..(TimeNear - 1) -> Seq(Nodes)]
    BY <2>3, <2>4, <2>5 DEF IsWheel
  <2>7. IsWheel(g)
    BY <2>5, <2>6 DEF IsWheel
  <2>8. ASSUME NEW s \in Slots
        PROVE  List(g, s) = IF s = h THEN Append(List(w, s), x) ELSE List(w, s)
    <3>1. CASE s[1] = -1
      <4>1. s[2] \in 0..(TimeNear - 1) /\ s = <<-1, s[2]>>
        BY <3>1 DEF Slots
      <4>2. g.near[s[2]] = IF s[2] = i THEN Append(w.near[s[2]], x) ELSE w.near[s[2]]
        BY <2>5, <4>1 DEF IsWheel
      <4> QED
        BY <2>1, <3>1, <4>1, <4>2 DEF List
    <3>2. CASE s[1] # -1
      BY <2>1, <2>5, <3>2 DEF List
    <3> QED
      BY <3>1, <3>2
  <2> QED
    BY <2>7, <2>8 DEF g, h
<1>4. CASE ~SameBlock(x.expire, now, TimeNear)
  <2> DEFINE lv == LevelOf(x.expire, now)  i == Index(x.expire, lv)
  <2>1. h = <<lv, i>>
    BY <1>4 DEF Home
  <2>2. g = [w EXCEPT !.tv[lv][i] = Append(@, x)]
    BY <1>4 DEF AddNode, Link
  <2>a. lv \in 0..3
    BY <1>4 DEF LevelOf
  <2> HIDE DEF h, g, i, lv
  <2>3. i \in 0..(TimeLevel - 1)
    BY <1>2, <2>1, <2>a DEF Slots
  <2>4. w.tv[lv] \in [0..(TimeLevel - 1) -> Seq(Nodes)] /\ w.tv[lv][i] \in Seq(Nodes)
    BY <2>3, <2>a DEF IsWheel
  <2>c. Append(w.tv[lv][i], x) \in Seq(Nodes)
    BY <2>4
  <2>5. /\ g.tv = [w.tv EXCEPT ![lv] = [w.tv[lv] EXCEPT ![i] = Append(w.tv[lv][i], x)]]
        /\ g.near = w.near /\ g = [near |-> g.near, tv |-> g.tv]
    BY <2>2 DEF IsWheel
  <2>b. [w.tv[lv] EXCEPT ![i] = Append(w.tv[lv][i], x)] \in [0..(TimeLevel - 1) -> Seq(Nodes)]
    BY <2>3, <2>4, <2>c
  <2>6. g.tv \in [0..3 -> [0..(TimeLevel - 1) -> Seq(Nodes)]]
    BY <2>a, <2>b, <2>5 DEF IsWheel
  <2>7. IsWheel(g)
    BY <2>5, <2>6 DEF IsWheel
  <2>8. ASSUME NEW s \in Slots
        PROVE  List(g, s) = IF s = h THEN Append(List(w, s), x) ELSE List(w, s)
    <3>1. CASE s[1] = -1
      BY <2>1, <2>a, <2>5, <3>1 DEF List
    <3>2. CASE s[1] # -1
      <4>1. s[1] \in 0..3 /\ s[2] \in 0..(TimeLevel - 1) /\ s = <<s[1], s[2]>>
        BY <3>2 DEF Slots
      <4>2. CASE s[1] = lv
        <5>1. g.tv[lv] = [w.tv[lv] EXCEPT ![i] = Append(w.tv[lv][i], x)]
          BY <2>5, <2>a DEF IsWheel
        <5>2. g.tv[lv][s[2]] = IF s[2] = i THEN Append(w.tv[lv][i], x) ELSE w.tv[lv][s[2]]
          BY <2>4, <4>1, <5>1
        <5> QED
          BY <2>1, <3>2, <4>1, <4>2, <5>2 DEF List
      <4>3. CASE s[1] # lv
        <5>1. g.tv[s[1]] = w.tv[s[1]]
          BY <2>5, <4>1, <4>3 DEF IsWheel
        <5> QED
          BY <2>1, <3>2, <4>1, <4>3, <5>1 DEF List
      <4> QED
        BY <4>2, <4>3
    <3> QED
      BY <3>1, <3>2
  <2> QED
    BY <2>7, <2>8 DEF g, h
<1> QED
  BY <1>3, <1>4

\* link_clear empties one list of a level.
LEMMA Clears ==
  ASSUME NEW w, IsWheel(w), NEW lv \in 0..3, NEW i \in 0..(TimeLevel - 1)
  PROVE  LET g == [w EXCEPT !.tv[lv][i] = << >>]
         IN  /\ IsWheel(g)
             /\ \A s \in Slots : List(g, s) = IF s = <<lv, i>> THEN << >> ELSE List(w, s)
<1> DEFINE g == [w EXCEPT !.tv[lv][i] = << >>]
<1>1. g = [w EXCEPT !.tv[lv][i] = << >>]
  OBVIOUS
<1> HIDE DEF g
<1>2. /\ g.tv = [w.tv EXCEPT ![lv] = [w.tv[lv] EXCEPT ![i] = << >>]]
      /\ g.near = w.near /\ g = [near |-> g.near, tv |-> g.tv]
  BY <1>1 DEF IsWheel
<1>3. w.tv[lv] \in [0..(TimeLevel - 1) -> Seq(Nodes)] /\ << >> \in Seq(Nodes)
  BY DEF IsWheel
<1>4. [w.tv[lv] EXCEPT ![i] = << >>] \in [0..(TimeLevel - 1) -> Seq(Nodes)]
  BY <1>3
<1>5. g.tv \in [0..3 -> [0..(TimeLevel - 1) -> Seq(Nodes)]]
  BY <1>2, <1>4 DEF IsWheel
<1>6. IsWheel(g)
  BY <1>2, <1>5 DEF IsWheel
<1>7. ASSUME NEW s \in Slots PROVE List(g, s) = IF s = <<lv, i>> THEN << >> ELSE List(w, s)
  <2>1. CASE s[1] = -1
    BY <1>2, <2>1 DEF List
  <2>2. CASE s[1] # -1
    <3>1. s[1] \in 0..3 /\ s[2] \in 0..(TimeLevel - 1) /\ s = <<s[1], s[2]>>
      BY <2>2 DEF Slots
    <3>2. CASE s[1] = lv
      <4>1. g.tv[lv] = [w.tv[lv] EXCEPT ![i] = << >>]
        BY <1>2 DEF IsWheel
      <4>2. g.tv[lv][s[2]] = IF s[2] = i THEN << >> ELSE w.tv[lv][s[2]]
        BY <1>3, <3>1, <4>1
      <4> QED
        BY <2>2, <3>1, <3>2, <4>2 DEF List
    <3>3. CASE s[1] # lv
      <4>1. g.tv[s[1]] = w.tv[s[1]]
        BY <1>2, <3>1, <3>3 DEF IsWheel
      <4> QED
        BY <2>2, <3>1, <3>3, <4>1 DEF List
    <3> QED
      BY <3>2, <3>3
  <2> QED
    BY <2>1, <2>2
<1> QED
  BY <1>6, <1>7 DEF g

-----------------------------------------------------------------------------
(* move_list.                                                              *)

\* A set of numbers has a least one.
LEMMA LeastNat ==
  ASSUME NEW T, T \subseteq Nat, T # {}
  PROVE  \E m \in T : \A k \in T : m <= k
<1>1. PICK m \in T : \A k \in T : ~(<<k, m>> \in OpToRel(<, Nat))
  BY NatLessThanWellFounded, WFMin
<1>2. \A k \in T : ~(k < m)
  BY <1>1 DEF OpToRel
<1> QED
  BY <1>2

\* The loop of move_list: the wheel after k nodes.
Moving(f, w, lv, idx, now, k) ==
  IF k = 0 THEN [w EXCEPT !.tv[lv][idx] = << >>]
           ELSE AddNode(f[k - 1], w.tv[lv][idx][k], now)

\* MoveList is the function that the loop defines, after the last node.
LEMMA MoveIs ==
  ASSUME NEW w, NEW lv, NEW idx, NEW now
  PROVE  MoveList(w, lv, idx, now) =
           (CHOOSE f : f = [k \in 0..Len(w.tv[lv][idx]) |-> Moving(f, w, lv, idx, now, k)])
             [Len(w.tv[lv][idx])]
BY Zenon DEF MoveList, Moving

\* There is a function that is the loop up to node m.
Ends(w, lv, idx, now, m) == \E f : \A k \in 0..m : f[k] = Moving(f, w, lv, idx, now, k)
LEMMA MoveEnds ==
  ASSUME NEW w, NEW lv, NEW idx, NEW now, NEW m \in Nat
  PROVE  Ends(w, lv, idx, now, m)
<1> DEFINE T == {j \in Nat : ~\E f : \A k \in 0..j : f[k] = Moving(f, w, lv, idx, now, k)}
<1> SUFFICES ASSUME T # {} PROVE FALSE
  BY DEF Ends
<1>1. PICK j \in T : \A k \in T : j <= k
  BY LeastNat
<1>2. j \in Nat /\ ~\E f : \A k \in 0..j : f[k] = Moving(f, w, lv, idx, now, k)
  BY <1>1
<1>3. CASE j = 0
  <2> DEFINE f == [k \in 0..0 |-> [w EXCEPT !.tv[lv][idx] = << >>]]
  <2>1. \A k \in 0..j : f[k] = Moving(f, w, lv, idx, now, k)
    BY <1>3 DEF Moving
  <2> QED
    BY <1>2, <2>1
<1>4. CASE j > 0
  <2>1. j - 1 \in Nat /\ ~(j <= j - 1)
    BY <1>2, <1>4
  <2>2. j - 1 \notin T
    BY <1>1, <2>1
  <2>3. PICK e : \A k \in 0..(j - 1) : e[k] = Moving(e, w, lv, idx, now, k)
    BY <2>1, <2>2
  <2> DEFINE f == [k \in 0..j |-> Moving(e, w, lv, idx, now, k)]
  <2>4. \A k \in 0..(j - 1) : f[k] = e[k]
    BY <2>3, <1>2
  <2>5. ASSUME NEW k \in 0..j PROVE f[k] = Moving(f, w, lv, idx, now, k)
    <3>1. f[k] = Moving(e, w, lv, idx, now, k)
      OBVIOUS
    <3>2. k # 0 => f[k - 1] = e[k - 1]
      <4> HIDE DEF f
      <4>1. k # 0 => k - 1 \in 0..(j - 1)
        BY <1>2
      <4> QED
        BY <2>4, <4>1
    <3> HIDE DEF f
    <3> QED
      BY <3>1, <3>2 DEF Moving
  <2> HIDE DEF f
  <2> QED
    BY <1>2, <2>5
<1> QED
  BY <1>2, <1>3, <1>4

\* MoveList is the loop after its last node.
LEMMA MoveLoops ==
  ASSUME NEW w, NEW lv, NEW idx, NEW now, Len(w.tv[lv][idx]) \in Nat
  PROVE  \E f : /\ \A k \in 0..Len(w.tv[lv][idx]) : f[k] = Moving(f, w, lv, idx, now, k)
                /\ MoveList(w, lv, idx, now) = f[Len(w.tv[lv][idx])]
<1> DEFINE m == Len(w.tv[lv][idx])
<1>a. m \in Nat
  OBVIOUS
<1>1. PICK e : \A k \in 0..m : e[k] = Moving(e, w, lv, idx, now, k)
  <2> HIDE DEF m
  <2>1. Ends(w, lv, idx, now, m)
    BY <1>a, MoveEnds
  <2> QED
    BY <2>1 DEF Ends
<1> DEFINE f == [k \in 0..m |-> e[k]]
<1>2. f = [k \in 0..m |-> Moving(f, w, lv, idx, now, k)]
  <2>1. \A k \in 0..m : f[k] = Moving(f, w, lv, idx, now, k)
    <3> TAKE k \in 0..m
    <3>1. f[k] = Moving(e, w, lv, idx, now, k) /\ (k # 0 => f[k - 1] = e[k - 1])
      BY <1>1
    <3> HIDE DEF f
    <3> QED
      BY <3>1 DEF Moving
  <2>2. f = [k \in 0..m |-> f[k]]
    OBVIOUS
  <2> HIDE DEF f
  <2> QED
    BY <2>1, <2>2
<1> DEFINE g == CHOOSE g : g = [k \in 0..m |-> Moving(g, w, lv, idx, now, k)]
<1>3. g = [k \in 0..m |-> Moving(g, w, lv, idx, now, k)]
  <2> HIDE DEF f
  <2> QED
    BY <1>2
<1>4. MoveList(w, lv, idx, now) = g[m]
  BY MoveIs
<1> HIDE DEF g
<1>5. \A k \in 0..m : [j \in 0..m |-> Moving(g, w, lv, idx, now, j)][k] = Moving(g, w, lv, idx, now, k)
  OBVIOUS
<1>6. \A k \in 0..m : g[k] = Moving(g, w, lv, idx, now, k)
  BY <1>3, <1>5
<1> QED
  BY <1>4, <1>6

\* A list in the order R: nodes that expire in the same tick are related by R.
InOrder(l, R) == \A a, b \in DOMAIN l : a < b /\ l[a].expire = l[b].expire => <<l[a], l[b]>> \in R
Has(l, x) == \E k \in DOMAIN l : l[k] = x

\* What Append does to a list.
LEMMA Appended ==
  ASSUME NEW l \in Seq(Nodes), NEW x \in Nodes
  PROVE  /\ Len(l) \in Nat /\ DOMAIN l = 1..Len(l)
         /\ DOMAIN Append(l, x) = 1..(Len(l) + 1)
         /\ \A k \in DOMAIN l : Append(l, x)[k] = l[k]
         /\ Append(l, x)[Len(l) + 1] = x
OBVIOUS

\* The wheel g in the loop over the list of slot src, after k of its nodes: all
\* lists in order, every node at its home, and none missing but those to come.
Half(g, k, w, src, now, R) ==
  LET list == List(w, src)
  IN  /\ IsWheel(g)
      /\ \A s \in Slots : \A a \in DOMAIN List(g, s) :
           /\ Home(List(g, s)[a].expire, now) = s
           /\ \/ s # src /\ Has(List(w, s), List(g, s)[a])
              \/ \E j \in 1..k : list[j] = List(g, s)[a]
      /\ \A s \in Slots \ {src} : \A a \in DOMAIN List(w, s) : Has(List(g, s), List(w, s)[a])
      /\ \A j \in 1..k : Has(List(g, Home(list[j].expire, now)), list[j])
      /\ \A s \in Slots : InOrder(List(g, s), R)

\* The wheel before: every node at its home of the time before; those in other
\* lists than src stay there.
Before(w, src, old, now, R) ==
  /\ IsWheel(w)
  /\ \A s \in Slots : \A a \in DOMAIN List(w, s) :
       /\ Home(List(w, s)[a].expire, old) = s
       /\ s # src => Home(List(w, s)[a].expire, now) = s
  /\ \A s \in Slots : InOrder(List(w, s), R)

\* After link_clear.
LEMMA HalfStart ==
  ASSUME NEW lv \in 0..3, NEW i \in 0..(TimeLevel - 1),
         NEW w, NEW old, NEW now, NEW R, Before(w, <<lv, i>>, old, now, R)
  PROVE  Half([w EXCEPT !.tv[lv][i] = << >>], 0, w, <<lv, i>>, now, R)
<1> DEFINE g == [w EXCEPT !.tv[lv][i] = << >>]  src == <<lv, i>>
<1>1. /\ IsWheel(g)
      /\ \A s \in Slots : List(g, s) = IF s = src THEN << >> ELSE List(w, s)
  BY Clears DEF Before
<1> HIDE DEF g
<1>2. src \in Slots /\ DOMAIN << >> = {}
  BY DEF Slots
<1> HIDE DEF src
<1>3. \A s \in Slots : \A a \in DOMAIN List(g, s) :
        s # src /\ Home(List(g, s)[a].expire, now) = s /\ Has(List(w, s), List(g, s)[a])
  BY <1>1, <1>2 DEF Before, Has, src
<1>4. \A s \in Slots \ {src} : \A a \in DOMAIN List(w, s) : Has(List(g, s), List(w, s)[a])
  BY <1>1 DEF Has
<1>5. \A s \in Slots : InOrder(List(g, s), R)
  BY <1>1, <1>2 DEF Before, InOrder, src
<1>6. 1..0 = {}
  OBVIOUS
<1> QED
  BY <1>1, <1>3, <1>4, <1>5, <1>6 DEF Half, g, src

\* One more node.
LEMMA HalfStep ==
  ASSUME TimerConstants, NEW src \in Slots, NEW w, NEW old \in Clock, NEW now \in Clock, NEW R,
         Before(w, src, old, now, R),
         NEW k \in Nat, k + 1 \in DOMAIN List(w, src), NEW g, Half(g, k, w, src, now, R)
  PROVE  Half(AddNode(g, List(w, src)[k + 1], now), k + 1, w, src, now, R)
<1> DEFINE list == List(w, src)  x == list[k + 1]  h == Home(x.expire, now)  f == AddNode(g, x, now)
<1>0. IsWheel(w) /\ IsWheel(g)
  BY DEF Before, Half
<1>1. x \in Nodes /\ x.expire \in Clock
  BY <1>0, Lists
<1>2. h \in Slots
  BY <1>1, HomeSlot
<1>3. /\ IsWheel(f)
      /\ \A s \in Slots : List(f, s) = IF s = h THEN Append(List(g, s), x) ELSE List(g, s)
  BY <1>0, <1>1, AddNodePuts
<1> DEFINE l == List(g, h)
<1>4. l \in Seq(Nodes)
  BY <1>0, <1>2, Lists
<1>5. /\ Len(l) \in Nat /\ DOMAIN l = 1..Len(l) /\ DOMAIN Append(l, x) = 1..(Len(l) + 1)
      /\ \A a \in DOMAIN l : Append(l, x)[a] = l[a]
      /\ Append(l, x)[Len(l) + 1] = x
  <2> HIDE DEF l, x
  <2> QED
    BY <1>1, <1>4, Appended
<1>6. List(f, h) = Append(l, x) /\ \A s \in Slots : s # h => List(f, s) = List(g, s)
  BY <1>2, <1>3
<1>7. list[k + 1] = x
  OBVIOUS
<1>8. /\ \A s \in Slots : \A a \in DOMAIN List(g, s) :
           /\ Home(List(g, s)[a].expire, now) = s
           /\ \/ s # src /\ Has(List(w, s), List(g, s)[a])
              \/ \E j \in 1..k : list[j] = List(g, s)[a]
      /\ \A s \in Slots \ {src} : \A a \in DOMAIN List(w, s) : Has(List(g, s), List(w, s)[a])
      /\ \A j \in 1..k : Has(List(g, Home(list[j].expire, now)), list[j])
      /\ \A s \in Slots : InOrder(List(g, s), R)
  BY DEF Half
<1>9. h = Home(x.expire, now)
  OBVIOUS
\* A node at home where x goes that expires with x came out of the same list before it.
<1>10. \A a \in DOMAIN l : l[a].expire = x.expire => \E j \in 1..k : list[j] = l[a]
  <2> TAKE a \in DOMAIN l
  <2> HAVE l[a].expire = x.expire
  <2>1. ASSUME h # src, Has(List(w, h), l[a]) PROVE FALSE
    <3>1. Home(x.expire, old) = h
      BY <1>2, <2>1 DEF Before, Has
    <3>2. Home(x.expire, old) = src
      BY DEF Before
    <3> QED
      BY <2>1, <3>1, <3>2
  <2>2. \/ h # src /\ Has(List(w, h), l[a])
        \/ \E j \in 1..k : list[j] = l[a]
    BY <1>2, <1>8
  <2> QED
    BY <2>1, <2>2
<1>11. \A a \in DOMAIN l : l[a].expire = x.expire => <<l[a], x>> \in R
  <2> TAKE a \in DOMAIN l
  <2> HAVE l[a].expire = x.expire
  <2>1. PICK j \in 1..k : list[j] = l[a]
    BY <1>10
  <2>2. DOMAIN list = 1..Len(list) /\ Len(list) \in Nat
    BY <1>0, Lists
  <2>3. j \in DOMAIN list /\ k + 1 \in DOMAIN list /\ j < k + 1
    BY <2>2
  <2>4. InOrder(list, R)
    BY DEF Before
  <2> HIDE DEF list
  <2> QED
    BY <1>7, <2>1, <2>3, <2>4 DEF InOrder
<1> HIDE DEF x, h, list, f, l
<1>12. InOrder(Append(l, x), R)
  <2>1. InOrder(l, R)
    BY <1>2, <1>8 DEF l
  <2> SUFFICES ASSUME NEW a \in 1..(Len(l) + 1), NEW b \in 1..(Len(l) + 1), a < b,
                      Append(l, x)[a].expire = Append(l, x)[b].expire
               PROVE  <<Append(l, x)[a], Append(l, x)[b]>> \in R
    BY <1>5 DEF InOrder
  <2>2. a \in DOMAIN l /\ Append(l, x)[a] = l[a]
    BY <1>5
  <2>3. CASE b = Len(l) + 1
    BY <1>5, <1>11, <2>2, <2>3
  <2>4. CASE b # Len(l) + 1
    <3>1. b \in DOMAIN l /\ Append(l, x)[b] = l[b]
      BY <1>5, <2>4
    <3> QED
      BY <2>1, <2>2, <3>1 DEF InOrder
  <2> QED
    BY <2>3, <2>4
<1>13. \A s \in Slots : InOrder(List(f, s), R)
  BY <1>2, <1>6, <1>8, <1>12
\* What a list had it still has.
<1>14. \A s \in Slots : \A y : Has(List(g, s), y) => Has(List(f, s), y)
  <2>1. \A y : Has(l, y) => Has(Append(l, x), y)
    <3>1. DOMAIN l \subseteq DOMAIN Append(l, x)
      BY <1>5
    <3> QED
      BY <1>5, <3>1 DEF Has
  <2> QED
    BY <1>6, <2>1 DEF l
<1>15. Has(List(f, h), x)
  <2>1. Len(l) + 1 \in DOMAIN Append(l, x)
    BY <1>5
  <2> QED
    BY <1>5, <1>6, <2>1 DEF Has
<1>16. \A j \in 1..(k + 1) : Has(List(f, Home(list[j].expire, now)), list[j])
  <2> TAKE j \in 1..(k + 1)
  <2>1. CASE j = k + 1
    BY <1>7, <1>9, <1>15, <2>1
  <2>2. CASE j # k + 1
    <3>1. j \in 1..k
      BY <2>2
    <3>2. Home(list[j].expire, now) \in Slots
      <4>1. j \in DOMAIN list
        <5>1. DOMAIN list = 1..Len(list) /\ Len(list) \in Nat /\ k + 1 \in DOMAIN list
          BY <1>0, Lists DEF list
        <5> QED
          BY <3>1, <5>1
      <4>2. list[j].expire \in Clock
        BY <1>0, <4>1, Lists DEF list
      <4> QED
        BY <4>2, HomeSlot
    <3> QED
      BY <1>8, <1>14, <3>1, <3>2
  <2> QED
    BY <2>1, <2>2
<1>17. \A s \in Slots \ {src} : \A a \in DOMAIN List(w, s) : Has(List(f, s), List(w, s)[a])
  BY <1>8, <1>14
<1>18. \A s \in Slots : \A a \in DOMAIN List(f, s) :
           /\ Home(List(f, s)[a].expire, now) = s
           /\ \/ s # src /\ Has(List(w, s), List(f, s)[a])
              \/ \E j \in 1..(k + 1) : list[j] = List(f, s)[a]
  <2> TAKE s \in Slots
  <2> TAKE a \in DOMAIN List(f, s)
  <2>1. CASE Has(List(g, s), List(f, s)[a])
    <3>1. PICK b \in DOMAIN List(g, s) : List(g, s)[b] = List(f, s)[a]
      BY <2>1 DEF Has
    <3>2. 1..k \subseteq 1..(k + 1)
      OBVIOUS
    <3>3. /\ Home(List(g, s)[b].expire, now) = s
          /\ \/ s # src /\ Has(List(w, s), List(g, s)[b])
             \/ \E j \in 1..k : list[j] = List(g, s)[b]
      BY <1>8
    <3> QED
      BY <3>1, <3>2, <3>3
  <2>2. CASE s = h /\ List(f, s)[a] = x
    <3>1. k + 1 \in 1..(k + 1)
      OBVIOUS
    <3> QED
      BY <1>7, <1>9, <2>2, <3>1
  <2>3. Has(List(g, s), List(f, s)[a]) \/ (s = h /\ List(f, s)[a] = x)
    <3>1. CASE s # h
      BY <1>6, <3>1 DEF Has
    <3>2. CASE s = h
      <4>1. a \in 1..(Len(l) + 1) /\ List(f, s) = Append(l, x)
        BY <1>5, <1>6, <3>2
      <4>2. CASE a = Len(l) + 1
        BY <1>5, <4>1, <4>2, <3>2
      <4>3. CASE a # Len(l) + 1
        <5>1. a \in DOMAIN l /\ Append(l, x)[a] = l[a]
          BY <1>5, <4>1, <4>3
        <5> QED
          BY <4>1, <5>1, <3>2 DEF Has, l
      <4> QED
        BY <4>2, <4>3
    <3> QED
      BY <3>1, <3>2
  <2> QED
    BY <2>1, <2>2, <2>3
<1> QED
  BY <1>3, <1>13, <1>16, <1>17, <1>18 DEF Half, f, list, x

\* The wheel g holds the nodes of w, each at its home at the new time, and in order.
Settled(w, g, now, R) ==
  /\ IsWheel(g)
  /\ \A s \in Slots : \A a \in DOMAIN List(g, s) :
       /\ Home(List(g, s)[a].expire, now) = s
       /\ \E t \in Slots : Has(List(w, t), List(g, s)[a])
  /\ \A s \in Slots : \A a \in DOMAIN List(w, s) :
       Has(List(g, Home(List(w, s)[a].expire, now)), List(w, s)[a])
  /\ \A s \in Slots : InOrder(List(g, s), R)

\* move_list brings the nodes of one list home and leaves the others there.
LEMMA MoveSettles ==
  ASSUME TimerConstants, NEW lv \in 0..3, NEW i \in 0..(TimeLevel - 1),
         NEW w, NEW old \in Clock, NEW now \in Clock, NEW R, Before(w, <<lv, i>>, old, now, R)
  PROVE  Settled(w, MoveList(w, lv, i, now), now, R)
<1> DEFINE src == <<lv, i>>  list == List(w, src)  m == Len(list)
<1>1. src \in Slots /\ list = w.tv[lv][i]
  BY DEF Slots, List
<1>2. m \in Nat /\ DOMAIN list = 1..m
  <2>1. IsWheel(w)
    BY DEF Before
  <2> QED
    BY <1>1, <2>1, Lists
<1>3. PICK f : /\ \A k \in 0..m : f[k] = Moving(f, w, lv, i, now, k)
               /\ MoveList(w, lv, i, now) = f[m]
  <2>1. Len(w.tv[lv][i]) \in Nat /\ m = Len(w.tv[lv][i])
    BY <1>1, <1>2
  <2> QED
    BY <2>1, MoveLoops
<1>4. f[0] = [w EXCEPT !.tv[lv][i] = << >>]
  BY <1>2, <1>3 DEF Moving
<1>5. \A k \in 1..m : f[k] = AddNode(f[k - 1], list[k], now)
  <2> TAKE k \in 1..m
  <2>1. k \in 0..m /\ k # 0
    BY <1>2
  <2>2. f[k] = AddNode(f[k - 1], w.tv[lv][i][k], now)
    BY <1>3, <2>1 DEF Moving
  <2> QED
    BY <1>1, <2>2
<1>6. Before(w, src, old, now, R)
  OBVIOUS
<1>7. Half(f[0], 0, w, src, now, R)
  <2>1. Half([w EXCEPT !.tv[lv][i] = << >>], 0, w, <<lv, i>>, now, R)
    BY HalfStart
  <2> QED
    BY <2>1, <1>4
<1> HIDE DEF src, list, m
<1> DEFINE T == {k \in 0..m : ~Half(f[k], k, w, src, now, R)}
<1>8. T = {}
  <2> SUFFICES ASSUME T # {} PROVE FALSE
    OBVIOUS
  <2>1. T \subseteq Nat
    BY <1>2
  <2>2. PICK k \in T : \A j \in T : k <= j
    BY <2>1, LeastNat
  <2>3. k \in 0..m /\ ~Half(f[k], k, w, src, now, R)
    BY <2>2
  <2>4. k # 0
    BY <1>7, <2>3
  <2>5. k - 1 \in 0..m /\ k - 1 \in Nat /\ ~(k <= k - 1) /\ k \in 1..m /\ (k - 1) + 1 = k
    BY <1>2, <2>3, <2>4
  <2>6. k - 1 \notin T
    BY <2>2, <2>5
  <2>7. Half(f[k - 1], k - 1, w, src, now, R)
    BY <2>5, <2>6
  <2> DEFINE j == k - 1
  <2>8. j \in Nat /\ j + 1 \in DOMAIN List(w, src) /\ Half(f[j], j, w, src, now, R) /\ j + 1 = k
    BY <1>2, <2>5, <2>7 DEF list
  <2> HIDE DEF j
  <2>9. Half(AddNode(f[j], List(w, src)[j + 1], now), j + 1, w, src, now, R)
    BY <1>1, <1>6, <2>8, HalfStep
  <2>10. f[k] = AddNode(f[j], List(w, src)[j + 1], now)
    BY <1>5, <2>5, <2>8 DEF list, j
  <2> QED
    BY <2>3, <2>8, <2>9, <2>10
<1>9. Half(f[m], m, w, src, now, R)
  <2>1. m \in 0..m
    BY <1>2
  <2> QED
    BY <1>8, <2>1
<1> DEFINE g == f[m]
<1> HIDE DEF g
<1>10. /\ IsWheel(g)
       /\ \A s \in Slots : \A a \in DOMAIN List(g, s) :
            /\ Home(List(g, s)[a].expire, now) = s
            /\ \/ s # src /\ Has(List(w, s), List(g, s)[a])
               \/ \E j \in 1..m : list[j] = List(g, s)[a]
       /\ \A s \in Slots \ {src} : \A a \in DOMAIN List(w, s) : Has(List(g, s), List(w, s)[a])
       /\ \A j \in 1..m : Has(List(g, Home(list[j].expire, now)), list[j])
       /\ \A s \in Slots : InOrder(List(g, s), R)
  BY <1>9 DEF Half, g, list
<1>11. \A s \in Slots : \A a \in DOMAIN List(g, s) : \E t \in Slots : Has(List(w, t), List(g, s)[a])
  <2> TAKE s \in Slots
  <2> TAKE a \in DOMAIN List(g, s)
  <2>1. ASSUME NEW j \in 1..m, list[j] = List(g, s)[a] PROVE Has(List(w, src), List(g, s)[a])
    BY <1>2, <2>1 DEF Has, list
  <2> QED
    BY <1>1, <1>10, <2>1
<1>12. \A s \in Slots : \A a \in DOMAIN List(w, s) :
         Has(List(g, Home(List(w, s)[a].expire, now)), List(w, s)[a])
  <2> TAKE s \in Slots
  <2> TAKE a \in DOMAIN List(w, s)
  <2>1. CASE s = src
    BY <1>2, <1>10, <2>1 DEF list
  <2>2. CASE s # src
    <3>1. Home(List(w, s)[a].expire, now) = s
      BY <1>6, <2>2 DEF Before
    <3> QED
      BY <1>10, <2>2, <3>1
  <2> QED
    BY <2>1, <2>2
<1> QED
  BY <1>3, <1>10, <1>11, <1>12 DEF Settled, g

\* timer_shift brings every node home at the new time, across all levels and
\* when the clock wraps.
LEMMA ShiftSettles ==
  ASSUME TimerConstants, NEW w, IsWheel(w), NEW now \in Clock, NEW R,
         \A s \in Slots : \A a \in DOMAIN List(w, s) :
            Home(List(w, s)[a].expire, now) = s /\ Ahead(List(w, s)[a].expire, now),
         \A s \in Slots : InOrder(List(w, s), R)
  PROVE  Settled(w, Shift(w, (now + 1) % ClockMod), (now + 1) % ClockMod, R)
<1> DEFINE ct == (now + 1) % ClockMod
<1>1. now \in Nat /\ now < ClockMod /\ ClockMod \in Nat \ {0}
  BY Spans DEF Clock
<1>2. CASE now + 1 = ClockMod
  <2>1. ct = 0
    <3>1. now + 1 = ClockMod * 1 + 0 /\ 0 \in 0..(ClockMod - 1)
      BY <1>1, <1>2
    <3> QED
      BY <1>1, <3>1, DivUnique
  <2> HIDE DEF ct
  <2>2. Shift(w, ct) = MoveList(w, 3, 0, 0)
    BY <2>1 DEF Shift
  <2>3. \A s \in Slots : \A a \in DOMAIN List(w, s) :
          s # <<3, 0>> => Home(List(w, s)[a].expire, 0) = s
    BY <1>2, StaysAtWrap
  <2>4. Before(w, <<3, 0>>, now, 0, R)
    BY <2>3 DEF Before
  <2>5. 3 \in 0..3 /\ 0 \in 0..(TimeLevel - 1) /\ 0 \in Clock
    BY <1>1, Spans DEF Clock
  <2> QED
    BY <2>1, <2>2, <2>4, <2>5, MoveSettles DEF ct
<1>3. CASE now + 1 # ClockMod
  <2>1. now + 1 < ClockMod /\ now + 1 \in Clock
    BY <1>1, <1>3 DEF Clock
  <2>2. ct = now + 1
    <3>1. now + 1 = ClockMod * 0 + (now + 1) /\ now + 1 \in 0..(ClockMod - 1)
      BY <1>1, <2>1
    <3> QED
      BY <1>1, <3>1, DivUnique
  <2> HIDE DEF ct
  <2>3. ct \in Clock /\ ct # 0
    BY <1>1, <2>1, <2>2
  <2>4. \A s \in Slots : \A a \in DOMAIN List(w, s) :
          \/ Home(List(w, s)[a].expire, ct) = s
          \/ \E lv \in Due(ct) : /\ \A k \in Due(ct) : lv <= k
                                 /\ s = <<lv, Index(ct, lv)>>
    <3> TAKE s \in Slots
    <3> TAKE a \in DOMAIN List(w, s)
    <3> DEFINE e == List(w, s)[a].expire
    <3>1. Home(e, now) = s /\ Ahead(e, now)
      OBVIOUS
    <3> HIDE DEF e
    <3>2. Home(e, ct) # Home(e, now) =>
            \E lv \in Due(ct) : /\ \A k \in Due(ct) : lv <= k
                                /\ Home(e, now) = <<lv, Index(ct, lv)>>
      BY <2>1, <2>2, <3>1, Stays
    <3> QED
      BY <3>1, <3>2 DEF e
  <2>5. Shift(w, ct) = IF Due(ct) = {} THEN w
                       ELSE LET lv == CHOOSE lv \in Due(ct) : \A k \in Due(ct) : lv <= k
                            IN  MoveList(w, lv, Index(ct, lv), ct)
    BY <2>3, Zenon DEF Shift, Due
  <2>6. CASE Due(ct) = {}
    <3>1. \A s \in Slots : \A a \in DOMAIN List(w, s) : Home(List(w, s)[a].expire, ct) = s
      BY <2>4, <2>6
    <3>2. \A s \in Slots : \A a \in DOMAIN List(w, s) : Has(List(w, s), List(w, s)[a])
      BY DEF Has
    <3>3. Settled(w, w, ct, R)
      BY <3>1, <3>2 DEF Settled
    <3> QED
      BY <2>5, <2>6, <3>3 DEF ct
  <2>7. CASE Due(ct) # {}
    <3> DEFINE First(lv) == \A k \in Due(ct) : lv <= k
               low == CHOOSE lv \in Due(ct) : First(lv)
    <3>1. Due(ct) \subseteq 0..3
      BY DEF Due
    <3>2. \E lv \in Due(ct) : First(lv)
      <4>1. Due(ct) \subseteq Nat
        BY <3>1
      <4> QED
        BY <2>7, <4>1, LeastNat
    <3> HIDE DEF First
    <3>3. low \in Due(ct) /\ First(low)
      BY <3>2
    <3>4. Shift(w, ct) = MoveList(w, low, Index(ct, low), ct)
      BY <2>5, <2>7 DEF First
    <3> HIDE DEF low
    <3>5. \A lv \in Due(ct) : First(lv) => lv = low
      BY <3>1, <3>3 DEF First
    <3>6. \A s \in Slots : \A a \in DOMAIN List(w, s) :
            s # <<low, Index(ct, low)>> => Home(List(w, s)[a].expire, ct) = s
      BY <2>4, <3>5 DEF First
    <3>7. Before(w, <<low, Index(ct, low)>>, now, ct, R)
      BY <3>6 DEF Before
    <3>8. low \in 0..3 /\ Index(ct, low) \in 0..(TimeLevel - 1)
      BY <2>3, <3>1, <3>3, Blocks
    <3>9. Settled(w, MoveList(w, low, Index(ct, low), ct), ct, R)
      BY <2>3, <3>7, <3>8, MoveSettles
    <3> QED
      BY <3>4, <3>9 DEF ct
  <2> QED
    BY <2>6, <2>7
<1> QED
  BY <1>2, <1>3

-----------------------------------------------------------------------------
(* The requests and their nodes.                                           *)

\* The tick of a request is on the clock and stays the same while time goes on.
LEMMA Ticks ==
  ASSUME TimerConstants, NEW now \in Clock, NEW left \in Nat, 2 * left < ClockMod
  PROVE  /\ (left + now) % ClockMod \in Clock
         /\ left > 0 => Ahead((left + now) % ClockMod, now)
         /\ left > 0 => ((left - 1) + ((now + 1) % ClockMod)) % ClockMod = (left + now) % ClockMod
<1>1. now \in Nat /\ now < ClockMod /\ ClockMod \in Nat \ {0}
  BY Spans DEF Clock
<1>2. (left + now) % ClockMod \in Clock
  <2>1. left + now \in Nat
    BY <1>1
  <2> QED
    BY <1>1, <2>1, DivMod DEF Clock
<1>3. ASSUME left > 0
      PROVE  ((left - 1) + ((now + 1) % ClockMod)) % ClockMod = (left + now) % ClockMod
  <2> DEFINE c == (now + 1) % ClockMod  left1 == (left - 1) + c
  <2> SUFFICES left1 % ClockMod = (left + now) % ClockMod
    OBVIOUS
  <2>1. CASE now + 1 = ClockMod
    <3>1. now + 1 = ClockMod * 1 + 0 /\ 0 \in 0..(ClockMod - 1) /\ now + 1 \in Nat
      BY <1>1, <2>1
    <3>2. c = 0
      BY <1>1, <3>1, DivUnique
    <3>3. left + now = ClockMod * 1 + (left - 1) /\ left - 1 \in 0..(ClockMod - 1) /\ left + now \in Nat
      BY <1>1, <1>3, <2>1
    <3>4. (left + now) % ClockMod = left - 1
      BY <1>1, <3>3, DivUnique
    <3>5. left - 1 = ClockMod * 0 + (left - 1) /\ left - 1 \in Nat
      BY <1>1, <3>3
    <3>6. (left - 1) % ClockMod = left - 1
      BY <1>1, <3>3, <3>5, DivUnique
    <3> HIDE DEF c
    <3>7. left1 = left - 1
      BY <3>2, <1>3
    <3> HIDE DEF left1
    <3> QED
      BY <3>4, <3>6, <3>7
  <2>2. CASE now + 1 # ClockMod
    <3>1. now + 1 = ClockMod * 0 + (now + 1) /\ now + 1 \in 0..(ClockMod - 1) /\ now + 1 \in Nat
      BY <1>1, <2>2
    <3>2. c = now + 1
      BY <1>1, <3>1, DivUnique
    <3> HIDE DEF c
    <3>3. left1 = left + now
      BY <1>1, <3>2
    <3> HIDE DEF left1
    <3> QED
      BY <3>3
  <2> QED
    BY <2>1, <2>2
<1> QED
  BY <1>2, <1>3 DEF Ahead

\* A request is due exactly when its node belongs into the slot of this tick.
LEMMA DueNow ==
  ASSUME TimerConstants, NEW now \in Clock, NEW left \in Nat, 2 * left < ClockMod
  PROVE  /\ left = 0 <=> Home((left + now) % ClockMod, now) = <<-1, now % TimeNear>>
         /\ left = 0 => (left + now) % ClockMod = now
<1> DEFINE a == (left + now) % ClockMod
<1>1. now \in Nat /\ now < ClockMod /\ ClockMod \in Nat \ {0} /\ a \in Clock /\ a \in Nat
  BY Ticks, Spans DEF Clock
<1>2. CASE left = 0
  <2>1. left + now = ClockMod * 0 + now /\ now \in 0..(ClockMod - 1) /\ left + now \in Nat
    BY <1>1, <1>2
  <2>2. a = now
    BY <1>1, <2>1, DivUnique
  <2> QED
    BY <1>1, <1>2, <2>2, HomeIs
<1>3. CASE left # 0
  <2>1. Ahead(a, now)
    BY <1>3, Ticks
  <2> HIDE DEF a
  <2>2. a # now
    BY <1>1, <2>1, AheadIs
  <2>3. ASSUME Home(a, now) = <<-1, now % TimeNear>> PROVE FALSE
    <3>1. B(0, a) = B(0, now)
      <4>1. ASSUME NEW lv \in 0..3, B(lv, a) # B(lv, now), B(lv + 1, a) = B(lv + 1, now) PROVE FALSE
        <5>1. Home(a, now) = <<lv, Index(a, lv)>>
          BY <1>1, <4>1, HomeIs
        <5> QED
          BY <2>3, <5>1
      <4> QED
        BY <1>1, <4>1, LastLevel
    <3>2. a % TimeNear = now % TimeNear
      BY <1>1, <2>3, <3>1, HomeIs
    <3>3. TimeNear \in Nat \ {0} /\ a \div TimeNear = now \div TimeNear
      BY <3>1, Spans DEF B, TimerConstants
    <3>4. /\ a = (TimeNear * (a \div TimeNear)) + (a % TimeNear)
          /\ now = (TimeNear * (now \div TimeNear)) + (now % TimeNear)
      BY <1>1, <3>3, DivMod
    <3> QED
      BY <2>2, <3>2, <3>3, <3>4
  <2> QED
    BY <1>3, <2>3 DEF a
<1> QED
  BY <1>2, <1>3

\* The node of a request, and what had been asked for before.
NodeAt(e, now) == [ev |-> e.ev, expire |-> (e.left + now) % ClockMod]
Order(reqs) == {p \in Nodes \X Nodes : \A e \in reqs : e.ev = p[2].ev => p[1].ev \in e.before}
IsRequest(e) ==
  /\ e.ev \in Events /\ e.left \in Nat /\ e.before \subseteq Events
  /\ e = [ev |-> e.ev, left |-> e.left, before |-> e.before]
  /\ 2 * e.left < ClockMod /\ e.ev \notin e.before

\* The invariant, of a wheel w, a time, a set of requests and a list in dispatch.
Good(w, now, reqs, cur) ==
  /\ IsWheel(w) /\ now \in Clock /\ cur \in Seq(Nodes)
  /\ \A e \in reqs : IsRequest(e)
  /\ \A e, f \in reqs : e.ev = f.ev => e = f
  /\ \A e \in reqs : IF e.left > 0 THEN Has(List(w, Home(NodeAt(e, now).expire, now)), NodeAt(e, now))
                                   ELSE \E k \in DOMAIN cur : cur[k].ev = e.ev
  /\ \A s \in Slots : \A k \in DOMAIN List(w, s) :
       /\ Home(List(w, s)[k].expire, now) = s
       /\ \E e \in reqs : e.left > 0 /\ List(w, s)[k] = NodeAt(e, now)
  /\ \A s \in Slots : InOrder(List(w, s), Order(reqs))
  /\ \A k \in DOMAIN cur : \E e \in reqs : e.left = 0 /\ e.ev = cur[k].ev
  /\ \A a, b \in DOMAIN cur : a < b => <<cur[a], cur[b]>> \in Order(reqs)

\* It is the inductive invariant.
LEMMA IInvGood ==
  IInv <=> /\ TypeOK /\ Good(Wheel, time, waiting, current)
           /\ IF pc = "idle" THEN current = << >> ELSE owed > 0
<1>1. TypeOK => IsWheel(Wheel) /\ time \in Clock /\ current \in Seq(Nodes)
  BY DEF TypeOK, IsWheel, Wheel
<1>2. \A e : NodeOf(e) = NodeAt(e, time) /\ Expire(e.left) = NodeAt(e, time).expire
  BY DEF NodeOf, NodeAt, Expire
<1>3. ASSUME TypeOK PROVE FiresInOrder <=> \A a, b \in DOMAIN current : a < b => <<current[a], current[b]>> \in Order(waiting)
  <2>1. \A a \in DOMAIN current : current[a] \in Nodes
    BY <1>1, <1>3
  <2>2. \A a, b \in DOMAIN current : <<current[a], current[b]>> \in Order(waiting)
          <=> \A e \in waiting : e.ev = current[b].ev => current[a].ev \in e.before
    BY <2>1 DEF Order
  <2> QED
    BY <2>2 DEF FiresInOrder
<1>4. ASSUME TypeOK, NEW s \in Slots PROVE SlotInOrder(s) <=> InOrder(List(Wheel, s), Order(waiting))
  <2> DEFINE l == List(Wheel, s)
  <2>1. \A a \in DOMAIN l : l[a] \in Nodes
    BY <1>1, <1>4, Lists
  <2>3. SlotInOrder(s) <=>
          \A a, b \in DOMAIN l : \A e \in waiting :
            a < b /\ l[a].expire = l[b].expire /\ e.ev = l[b].ev => l[a].ev \in e.before
    BY DEF SlotInOrder
  <2> HIDE DEF l
  <2>2. \A a, b \in DOMAIN l : <<l[a], l[b]>> \in Order(waiting)
          <=> \A e \in waiting : e.ev = l[b].ev => l[a].ev \in e.before
    BY <2>1 DEF Order
  <2>4. InOrder(l, Order(waiting)) <=>
          \A a, b \in DOMAIN l : a < b /\ l[a].expire = l[b].expire => <<l[a], l[b]>> \in Order(waiting)
    BY DEF InOrder
  <2> QED
    BY <2>2, <2>3, <2>4 DEF l
<1>5. \A s \in Slots : SlotOK(s) <=>
        \A k \in DOMAIN List(Wheel, s) :
          /\ Home(List(Wheel, s)[k].expire, time) = s
          /\ \E e \in waiting : e.left > 0 /\ List(Wheel, s)[k] = NodeAt(e, time)
  BY <1>2 DEF SlotOK
<1>6. ASSUME TypeOK, NEW e \in waiting
      PROVE  RequestOK(e) <=>
               /\ IsRequest(e)
               /\ IF e.left > 0 THEN Has(List(Wheel, Home(NodeAt(e, time).expire, time)), NodeAt(e, time))
                                ELSE \E k \in DOMAIN current : current[k].ev = e.ev
  <2>1. /\ e.ev \in Events /\ e.left \in Nat /\ e.before \subseteq Events
        /\ e = [ev |-> e.ev, left |-> e.left, before |-> e.before]
    BY <1>6 DEF TypeOK
  <2>2. IsRequest(e) <=> 2 * e.left < ClockMod /\ e.ev \notin e.before
    BY <2>1 DEF IsRequest
  <2> QED
    BY <1>2, <2>2 DEF RequestOK, Has
<1>7. CurrentOK <=> \A k \in DOMAIN current : \E e \in waiting : e.left = 0 /\ e.ev = current[k].ev
  BY DEF CurrentOK
<1>8. CASE ~TypeOK
  BY <1>8 DEF IInv
<1>9. CASE TypeOK
  <2>1. Good(Wheel, time, waiting, current) <=>
          /\ \A e \in waiting : RequestOK(e)
          /\ \A e, f \in waiting : e.ev = f.ev => e = f
          /\ \A s \in Slots : SlotOK(s)
          /\ \A s \in Slots : SlotInOrder(s)
          /\ CurrentOK /\ FiresInOrder
    BY <1>1, <1>3, <1>4, <1>5, <1>6, <1>7, <1>9 DEF Good
  <2> QED
    BY <1>9, <2>1 DEF IInv
<1> QED
  BY <1>8, <1>9

\* What Good says of the nodes on the wheel and of the requests.
LEMMA OnWheel ==
  ASSUME TimerConstants, NEW w, NEW now, NEW reqs, NEW cur, Good(w, now, reqs, cur),
         NEW s \in Slots, NEW k \in DOMAIN List(w, s)
  PROVE  /\ List(w, s)[k] \in Nodes /\ Ahead(List(w, s)[k].expire, now)
         /\ \E e \in reqs : e.left > 0 /\ e.ev = List(w, s)[k].ev
<1>1. List(w, s)[k] \in Nodes
  BY Lists DEF Good
<1>2. PICK e \in reqs : e.left > 0 /\ List(w, s)[k] = NodeAt(e, now)
  BY DEF Good
<1>3. e.left \in Nat /\ 2 * e.left < ClockMod /\ now \in Clock
  BY DEF Good, IsRequest
<1>4. Ahead((e.left + now) % ClockMod, now)
  BY <1>2, <1>3, Ticks
<1> QED
  BY <1>1, <1>2, <1>4 DEF NodeAt

\* The slot of the current tick is empty.
LEMMA SlotOfNow ==
  ASSUME TimerConstants, NEW w, NEW now, NEW reqs, NEW cur, Good(w, now, reqs, cur)
  PROVE  w.near[now % TimeNear] = << >> /\ now % TimeNear \in 0..(TimeNear - 1)
<1> DEFINE s == <<-1, now % TimeNear>>
<1>1. now % TimeNear \in 0..(TimeNear - 1)
  BY Spans, DivMod DEF Good, Clock, TimerConstants
<1>2. s \in Slots /\ List(w, s) = w.near[now % TimeNear]
  BY <1>1 DEF Slots, List
<1>3. ASSUME NEW k \in DOMAIN List(w, s) PROVE FALSE
  <2>1. PICK e \in reqs : e.left > 0 /\ List(w, s)[k] = NodeAt(e, now) /\ Home(List(w, s)[k].expire, now) = s
    BY <1>2, <1>3 DEF Good
  <2>2. e.left \in Nat /\ 2 * e.left < ClockMod /\ now \in Clock
    BY DEF Good, IsRequest
  <2>3. Home((e.left + now) % ClockMod, now) = <<-1, now % TimeNear>>
    BY <2>1 DEF NodeAt
  <2> QED
    BY <2>1, <2>2, <2>3, DueNow
<1>4. List(w, s) \in Seq(Nodes)
  BY <1>2, Lists DEF Good
<1>5. List(w, s) = << >>
  <2> DEFINE l == List(w, s)
  <2>1. l \in Seq(Nodes) /\ DOMAIN l = {}
    BY <1>3, <1>4
  <2> HIDE DEF l
  <2>2. l = << >>
    BY <2>1
  <2> QED
    BY <2>2 DEF l
<1> QED
  BY <1>1, <1>2, <1>5

\* skynet_timeout puts the request on the wheel.
LEMMA GoodAdd ==
  ASSUME TimerConstants, NEW w, NEW now, NEW reqs, NEW cur, Good(w, now, reqs, cur),
         NEW ev \in Events, \A e \in reqs : e.ev # ev,
         NEW ti \in Nat, ti > 0, 2 * ti < ClockMod
  PROVE  LET new == [ev |-> ev, left |-> ti, before |-> {e.ev : e \in reqs}]
         IN  Good(AddNode(w, NodeAt(new, now), now), now, reqs \cup {new}, cur)
<1> DEFINE new == [ev |-> ev, left |-> ti, before |-> {e.ev : e \in reqs}]
           x == NodeAt(new, now)  g == AddNode(w, x, now)  all == reqs \cup {new}
           h == Home(x.expire, now)
<1>1. IsWheel(w) /\ now \in Clock /\ cur \in Seq(Nodes) /\ \A e \in reqs : IsRequest(e)
  BY DEF Good
<1>2. x \in Nodes /\ x.ev = ev /\ x.expire \in Clock
  <2>1. (ti + now) % ClockMod \in Clock
    BY <1>1, Ticks
  <2> QED
    BY <2>1 DEF NodeAt, Nodes
<1>3. /\ IsWheel(g)
      /\ \A s \in Slots : List(g, s) = IF s = h THEN Append(List(w, s), x) ELSE List(w, s)
  BY <1>1, <1>2, AddNodePuts
<1>4. h \in Slots
  BY <1>1, <1>2, HomeSlot
<1>5. IsRequest(new)
  BY <1>1 DEF IsRequest
<1>6. new.ev = ev /\ new.left = ti /\ new.before = {e.ev : e \in reqs}
  OBVIOUS
<1>7. all = reqs \cup {new} /\ x = NodeAt(new, now) /\ h = Home(x.expire, now)
  OBVIOUS
<1> HIDE DEF new, x, g, all, h
<1> DEFINE l == List(w, h)
<1>8. l \in Seq(Nodes)
  BY <1>1, <1>4, Lists
<1>9. /\ Len(l) \in Nat /\ DOMAIN l = 1..Len(l) /\ DOMAIN Append(l, x) = 1..(Len(l) + 1)
      /\ \A a \in DOMAIN l : Append(l, x)[a] = l[a]
      /\ Append(l, x)[Len(l) + 1] = x
  <2> HIDE DEF l
  <2> QED
    BY <1>2, <1>8, Appended
<1>10. List(g, h) = Append(l, x) /\ \A s \in Slots : s # h => List(g, s) = List(w, s)
  BY <1>3, <1>4
\* The nodes that were there are ordered as before, the new one comes after them.
<1>11. \A y, z \in Nodes : <<y, z>> \in Order(reqs) /\ z.ev # ev => <<y, z>> \in Order(all)
  BY <1>6, <1>7 DEF Order
<1>12. \A y \in Nodes : (\E e \in reqs : e.ev = y.ev) => <<y, x>> \in Order(all)
  BY <1>2, <1>6, <1>7 DEF Order
<1>13. ASSUME NEW s \in Slots, NEW k \in DOMAIN List(w, s)
       PROVE  List(w, s)[k] \in Nodes /\ List(w, s)[k].ev # ev /\ \E e \in reqs : e.ev = List(w, s)[k].ev
  BY <1>13, OnWheel
<1>14. \A s \in Slots : InOrder(List(w, s), Order(all))
  <2> TAKE s \in Slots
  <2>1. InOrder(List(w, s), Order(reqs))
    BY DEF Good
  <2> QED
    BY <1>11, <1>13, <2>1 DEF InOrder
<1>15. InOrder(Append(l, x), Order(all))
  <2> SUFFICES ASSUME NEW a \in 1..(Len(l) + 1), NEW b \in 1..(Len(l) + 1), a < b,
                      Append(l, x)[a].expire = Append(l, x)[b].expire
               PROVE  <<Append(l, x)[a], Append(l, x)[b]>> \in Order(all)
    BY <1>9 DEF InOrder
  <2>2. a \in DOMAIN l /\ Append(l, x)[a] = l[a]
    BY <1>9
  <2>3. CASE b = Len(l) + 1
    BY <1>4, <1>9, <1>12, <1>13, <2>2, <2>3
  <2>4. CASE b # Len(l) + 1
    <3>1. b \in DOMAIN l /\ Append(l, x)[b] = l[b]
      BY <1>9, <2>4
    <3>2. InOrder(l, Order(all))
      BY <1>4, <1>14
    <3> QED
      BY <2>2, <3>1, <3>2 DEF InOrder
  <2> QED
    BY <2>3, <2>4
<1>16. \A s \in Slots : InOrder(List(g, s), Order(all))
  BY <1>4, <1>10, <1>14, <1>15
<1>17. \A s \in Slots : \A y : Has(List(w, s), y) => Has(List(g, s), y)
  <2>1. \A y : Has(l, y) => Has(Append(l, x), y)
    <3>1. DOMAIN l \subseteq DOMAIN Append(l, x)
      BY <1>9
    <3> QED
      BY <1>9, <3>1 DEF Has
  <2> QED
    BY <1>10, <2>1
<1>18. Has(List(g, h), x)
  <2>1. Len(l) + 1 \in DOMAIN Append(l, x)
    BY <1>9
  <2> QED
    BY <1>9, <1>10, <2>1 DEF Has
<1>19. \A e \in all : IF e.left > 0 THEN Has(List(g, Home(NodeAt(e, now).expire, now)), NodeAt(e, now))
                                    ELSE \E k \in DOMAIN cur : cur[k].ev = e.ev
  <2> TAKE e \in all
  <2>1. CASE e = new
    BY <1>6, <1>7, <1>18, <2>1
  <2>2. CASE e \in reqs
    <3>1. NodeAt(e, now).expire \in Clock
      <4>1. e.left \in Nat /\ 2 * e.left < ClockMod
        BY <1>1, <2>2 DEF IsRequest
      <4> QED
        BY <1>1, <4>1, Ticks DEF NodeAt
    <3>2. Home(NodeAt(e, now).expire, now) \in Slots
      BY <1>1, <3>1, HomeSlot
    <3>3. IF e.left > 0 THEN Has(List(w, Home(NodeAt(e, now).expire, now)), NodeAt(e, now))
                        ELSE \E k \in DOMAIN cur : cur[k].ev = e.ev
      BY <2>2 DEF Good
    <3> QED
      BY <1>17, <3>2, <3>3
  <2> QED
    BY <1>7, <2>1, <2>2
<1>20. \A s \in Slots : \A k \in DOMAIN List(g, s) :
         /\ Home(List(g, s)[k].expire, now) = s
         /\ \E e \in all : e.left > 0 /\ List(g, s)[k] = NodeAt(e, now)
  <2> TAKE s \in Slots
  <2> TAKE k \in DOMAIN List(g, s)
  <2>1. CASE Has(List(w, s), List(g, s)[k])
    <3>1. PICK b \in DOMAIN List(w, s) : List(w, s)[b] = List(g, s)[k]
      BY <2>1 DEF Has
    <3>2. Home(List(w, s)[b].expire, now) = s /\ \E e \in reqs : e.left > 0 /\ List(w, s)[b] = NodeAt(e, now)
      BY DEF Good
    <3> QED
      BY <1>7, <3>1, <3>2
  <2>2. CASE s = h /\ List(g, s)[k] = x
    BY <1>6, <1>7, <2>2
  <2>3. CASE s = h
    <3>1. k \in 1..(Len(l) + 1) /\ List(g, s) = Append(l, x)
      BY <1>9, <1>10, <2>3
    <3>2. CASE k = Len(l) + 1
      BY <1>9, <2>2, <2>3, <3>1, <3>2
    <3>3. CASE k # Len(l) + 1
      <4>1. k \in DOMAIN l /\ Append(l, x)[k] = l[k]
        BY <1>9, <3>1, <3>3
      <4>2. Has(List(w, s), List(g, s)[k])
        BY <2>3, <3>1, <4>1 DEF Has
      <4> QED
        BY <2>1, <4>2
    <3> QED
      BY <3>2, <3>3
  <2>4. CASE s # h
    BY <1>10, <2>1, <2>4 DEF Has
  <2> QED
    BY <2>3, <2>4
<1>21. \A k \in DOMAIN cur : \E e \in all : e.left = 0 /\ e.ev = cur[k].ev
  BY <1>7 DEF Good
<1>22. \A a, b \in DOMAIN cur : a < b => <<cur[a], cur[b]>> \in Order(all)
  <2>1. \A b \in DOMAIN cur : cur[b] \in Nodes /\ cur[b].ev # ev
    BY <1>1 DEF Good
  <2> QED
    BY <1>11, <2>1 DEF Good
<1>23. (\A e \in all : IsRequest(e)) /\ \A e, f \in all : e.ev = f.ev => e = f
  BY <1>1, <1>5, <1>6, <1>7 DEF Good
<1> QED
  BY <1>1, <1>3, <1>16, <1>19, <1>20, <1>21, <1>22, <1>23 DEF Good, g, x, new, all

\* timer_update takes the list of the tick off the wheel: it holds the requests
\* that are due, in order, and all others stay.
LEMMA GoodTick ==
  ASSUME TimerConstants, NEW w, NEW now, NEW reqs, Good(w, now, reqs, << >>)
  PROVE  LET ct   == (now + 1) % ClockMod
             g    == Shift(w, ct)
             slot == ct % TimeNear
         IN  /\ slot \in 0..(TimeNear - 1) /\ g.near[slot] \in Seq(Nodes)
             /\ Good([near |-> [g.near EXCEPT ![slot] = << >>], tv |-> g.tv], ct,
                     {[e EXCEPT !.left = @ - 1] : e \in reqs}, g.near[slot])
             /\ g.near[slot] = << >> => \A e \in reqs : e.left > 1
<1> DEFINE ct == (now + 1) % ClockMod  g == Shift(w, ct)  slot == ct % TimeNear  cur == g.near[slot]
           all == {[e EXCEPT !.left = @ - 1] : e \in reqs}
           f == [near |-> [g.near EXCEPT ![slot] = << >>], tv |-> g.tv]  here == <<-1, slot>>
           R == Order(reqs)  R2 == Order(all)
<1>1. IsWheel(w) /\ now \in Clock /\ (\A e \in reqs : IsRequest(e))
  BY DEF Good
<1>2. ct \in Clock /\ slot \in 0..(TimeNear - 1)
  <2>1. now + 1 \in Nat /\ ClockMod \in Nat \ {0} /\ TimeNear \in Nat \ {0}
    BY <1>1, Spans DEF Clock, TimerConstants
  <2>2. ct \in 0..(ClockMod - 1)
    BY <2>1, DivMod
  <2> HIDE DEF ct
  <2> QED
    BY <2>1, <2>2, DivMod DEF Clock
<1>3. Settled(w, g, ct, R)
  <2>1. \A s \in Slots : \A a \in DOMAIN List(w, s) :
          Home(List(w, s)[a].expire, now) = s /\ Ahead(List(w, s)[a].expire, now)
    <3>1. \A s \in Slots : \A a \in DOMAIN List(w, s) : Home(List(w, s)[a].expire, now) = s
      BY DEF Good
    <3>2. \A s \in Slots : \A a \in DOMAIN List(w, s) : Ahead(List(w, s)[a].expire, now)
      BY OnWheel
    <3> QED
      BY <3>1, <3>2
  <2>2. \A s \in Slots : InOrder(List(w, s), R)
    BY DEF Good
  <2> HIDE DEF R
  <2> QED
    BY <1>1, <2>1, <2>2, ShiftSettles
<1>4. all = {[e EXCEPT !.left = @ - 1] : e \in reqs}
  OBVIOUS
<1>5. /\ cur = g.near[slot] /\ here = <<-1, slot>>
      /\ f = [near |-> [g.near EXCEPT ![slot] = << >>], tv |-> g.tv]
      /\ R = Order(reqs) /\ R2 = Order(all)
  OBVIOUS
<1>6. \A left \in Nat : 2 * left < ClockMod =>
        /\ left > 0 => ((left - 1) + ct) % ClockMod = (left + now) % ClockMod
        /\ left = 0 <=> Home((left + ct) % ClockMod, ct) = <<-1, slot>>
        /\ left = 0 => (left + ct) % ClockMod = ct
  <2> TAKE left \in Nat
  <2> HAVE 2 * left < ClockMod
  <2>1. left > 0 => ((left - 1) + ct) % ClockMod = (left + now) % ClockMod
    BY <1>1, Ticks
  <2> HIDE DEF ct
  <2> QED
    BY <1>2, <2>1, DueNow
<1> HIDE DEF ct, g, slot, cur, all, f, here, R, R2
<1>7. \A e \in reqs : e.left > 0
  BY DEF Good
\* One tick nearer, with the same node.
<1>8. ASSUME NEW e \in reqs, NEW e2, e2 = [e EXCEPT !.left = @ - 1]
      PROVE  /\ IsRequest(e2) /\ e2.left = e.left - 1 /\ e2.ev = e.ev /\ e2.before = e.before
             /\ NodeAt(e2, ct) = NodeAt(e, now) /\ e2.left \in Nat
             /\ e2.left = 0 <=> Home(NodeAt(e2, ct).expire, ct) = here
             /\ e2.left = 0 => NodeAt(e2, ct).expire = ct
  <2>1. /\ e.ev \in Events /\ e.left \in Nat /\ e.left > 0 /\ e.before \subseteq Events
        /\ e = [ev |-> e.ev, left |-> e.left, before |-> e.before]
        /\ 2 * e.left < ClockMod /\ e.ev \notin e.before
    BY <1>1, <1>7 DEF IsRequest
  <2>2. e2 = [ev |-> e.ev, left |-> e.left - 1, before |-> e.before]
    BY <1>8, <2>1
  <2>3. e2.left = e.left - 1 /\ e2.ev = e.ev /\ e2.before = e.before
    BY <2>2
  <2>a. e.left - 1 \in Nat /\ 2 * (e.left - 1) < ClockMod
    <3>1. ClockMod \in Nat
      BY Spans
    <3> QED
      BY <2>1, <3>1
  <2>4. e2.left \in Nat /\ 2 * e2.left < ClockMod
    BY <2>a, <2>3
  <2>5. IsRequest(e2)
    BY <2>1, <2>2, <2>3, <2>4 DEF IsRequest
  <2>6. (e2.left + ct) % ClockMod = (e.left + now) % ClockMod
    BY <1>6, <2>1, <2>3
  <2>7. /\ e2.left = 0 <=> Home((e2.left + ct) % ClockMod, ct) = <<-1, slot>>
        /\ e2.left = 0 => (e2.left + ct) % ClockMod = ct
    BY <1>6, <2>4
  <2>8. NodeAt(e2, ct) = NodeAt(e, now)
    BY <2>3, <2>6 DEF NodeAt
  <2>9. NodeAt(e2, ct).expire = (e2.left + ct) % ClockMod
    BY DEF NodeAt
  <2> QED
    BY <1>5, <2>3, <2>4, <2>5, <2>7, <2>8, <2>9
<1>9. \A e2 \in all : \E e \in reqs : e2 = [e EXCEPT !.left = @ - 1]
  BY <1>4
<1>10. \A e \in reqs : \E e2 \in all : e2 = [e EXCEPT !.left = @ - 1]
  BY <1>4
<1>11. R = R2
  <2>1. ASSUME NEW p \in Nodes \X Nodes
        PROVE  (\A e \in reqs : e.ev = p[2].ev => p[1].ev \in e.before)
                 <=> \A e \in all : e.ev = p[2].ev => p[1].ev \in e.before
    BY <1>8, <1>9, <1>10
  <2> QED
    BY <1>5, <2>1 DEF Order
<1>12. /\ IsWheel(g)
       /\ \A s \in Slots : \A a \in DOMAIN List(g, s) :
            /\ Home(List(g, s)[a].expire, ct) = s
            /\ \E t \in Slots : Has(List(w, t), List(g, s)[a])
       /\ \A s \in Slots : \A a \in DOMAIN List(w, s) :
            Has(List(g, Home(List(w, s)[a].expire, ct)), List(w, s)[a])
       /\ \A s \in Slots : InOrder(List(g, s), R)
  BY <1>3 DEF Settled
<1>13. here \in Slots /\ List(g, here) = cur /\ cur \in Seq(Nodes)
  <2>1. here \in Slots /\ List(g, here) = cur
    BY <1>2, <1>5 DEF Slots, List
  <2> QED
    BY <1>12, <2>1, Lists
<1>14. IsWheel(f) /\ \A s \in Slots : List(f, s) = IF s = here THEN << >> ELSE List(g, s)
  <2>1. f.near = [g.near EXCEPT ![slot] = << >>] /\ f.tv = g.tv /\ f = [near |-> f.near, tv |-> f.tv]
    BY <1>5
  <2>2. << >> \in Seq(Nodes)
    OBVIOUS
  <2>3. f.near \in [0..(TimeNear - 1) -> Seq(Nodes)]
    BY <1>2, <1>12, <2>1, <2>2 DEF IsWheel
  <2>4. IsWheel(f)
    BY <1>12, <2>1, <2>3 DEF IsWheel
  <2>5. ASSUME NEW s \in Slots PROVE List(f, s) = IF s = here THEN << >> ELSE List(g, s)
    <3>1. CASE s[1] = -1
      <4>1. s[2] \in 0..(TimeNear - 1) /\ s = <<-1, s[2]>>
        BY <3>1 DEF Slots
      <4>2. f.near[s[2]] = IF s[2] = slot THEN << >> ELSE g.near[s[2]]
        BY <1>12, <2>1, <4>1 DEF IsWheel
      <4> QED
        BY <1>5, <3>1, <4>1, <4>2 DEF List
    <3>2. CASE s[1] # -1
      BY <1>5, <2>1, <3>2 DEF List
    <3> QED
      BY <3>1, <3>2
  <2> QED
    BY <2>4, <2>5
\* Every node on the wheel is that of a request, and every request has one.
<1>15. \A s \in Slots : \A a \in DOMAIN List(g, s) :
         \E e2 \in all : List(g, s)[a] = NodeAt(e2, ct) /\ (e2.left = 0 <=> s = here) /\ e2.left \in Nat
  <2> TAKE s \in Slots
  <2> TAKE a \in DOMAIN List(g, s)
  <2> DEFINE x == List(g, s)[a]
  <2>1. Home(x.expire, ct) = s
    BY <1>12
  <2>2. PICK t \in Slots : Has(List(w, t), x)
    BY <1>12
  <2> HIDE DEF x
  <2>3. PICK k \in DOMAIN List(w, t) : List(w, t)[k] = x
    BY <2>2 DEF Has
  <2>4. PICK e \in reqs : x = NodeAt(e, now)
    BY <2>3 DEF Good
  <2>5. PICK e2 \in all : e2 = [e EXCEPT !.left = @ - 1]
    BY <1>10
  <2>6. /\ NodeAt(e2, ct) = NodeAt(e, now) /\ e2.left \in Nat
        /\ e2.left = 0 <=> Home(NodeAt(e2, ct).expire, ct) = here
    BY <1>8, <2>5
  <2> QED
    BY <2>1, <2>4, <2>6 DEF x
<1>16. \A e2 \in all : Has(List(g, Home(NodeAt(e2, ct).expire, ct)), NodeAt(e2, ct))
  <2> TAKE e2 \in all
  <2>1. PICK e \in reqs : e2 = [e EXCEPT !.left = @ - 1]
    BY <1>9
  <2>2. NodeAt(e2, ct) = NodeAt(e, now)
    BY <1>8, <2>1
  <2>3. Has(List(w, Home(NodeAt(e, now).expire, now)), NodeAt(e, now))
    BY <1>7 DEF Good
  <2>4. Home(NodeAt(e, now).expire, now) \in Slots
    <3>1. NodeAt(e, now).expire \in Clock
      <4>1. e.left \in Nat /\ 2 * e.left < ClockMod
        BY <1>1 DEF IsRequest
      <4> QED
        BY <1>1, <4>1, Ticks DEF NodeAt
    <3> QED
      BY <1>1, <3>1, HomeSlot
  <2> QED
    BY <1>12, <2>2, <2>3, <2>4 DEF Has
<1>17. \A e2 \in all : IF e2.left > 0 THEN Has(List(f, Home(NodeAt(e2, ct).expire, ct)), NodeAt(e2, ct))
                                      ELSE \E k \in DOMAIN cur : cur[k].ev = e2.ev
  <2> TAKE e2 \in all
  <2>1. PICK e \in reqs : e2 = [e EXCEPT !.left = @ - 1]
    BY <1>9
  <2>2. /\ e2.left \in Nat /\ IsRequest(e2)
        /\ e2.left = 0 <=> Home(NodeAt(e2, ct).expire, ct) = here
    BY <1>8, <2>1
  <2>3. Has(List(g, Home(NodeAt(e2, ct).expire, ct)), NodeAt(e2, ct))
    BY <1>16
  <2>4. CASE e2.left = 0
    <3>1. Has(cur, NodeAt(e2, ct)) /\ NodeAt(e2, ct).ev = e2.ev
      BY <1>13, <2>2, <2>3, <2>4 DEF NodeAt
    <3> QED
      BY <2>4, <3>1 DEF Has
  <2>5. CASE e2.left # 0
    <3>1. Home(NodeAt(e2, ct).expire, ct) \in Slots
      <4>1. NodeAt(e2, ct).expire \in Clock
        <5>1. e2.left \in Nat /\ 2 * e2.left < ClockMod
          BY <2>2 DEF IsRequest
        <5> QED
          BY <1>2, <5>1, Ticks DEF NodeAt
      <4> QED
        BY <1>2, <4>1, HomeSlot
    <3> QED
      BY <1>14, <2>2, <2>3, <2>5, <3>1
  <2> QED
    BY <2>4, <2>5
<1>18. \A s \in Slots : \A k \in DOMAIN List(f, s) :
         /\ Home(List(f, s)[k].expire, ct) = s
         /\ \E e \in all : e.left > 0 /\ List(f, s)[k] = NodeAt(e, ct)
  <2> TAKE s \in Slots
  <2> TAKE k \in DOMAIN List(f, s)
  <2>1. CASE s = here
    <3>1. DOMAIN List(f, s) = {}
      BY <1>14, <2>1
    <3> QED
      BY <3>1
  <2>2. CASE s # here
    <3>1. List(f, s) = List(g, s)
      BY <1>14, <2>2
    <3> QED
      BY <1>12, <1>15, <2>2, <3>1
  <2> QED
    BY <2>1, <2>2
<1>19. \A s \in Slots : InOrder(List(f, s), R2)
  <2>1. InOrder(<< >>, R2)
    BY DEF InOrder
  <2> QED
    BY <1>11, <1>12, <1>14, <2>1
<1>20. \A k \in DOMAIN cur : /\ \E e \in all : e.left = 0 /\ e.ev = cur[k].ev
                             /\ cur[k].expire = ct
  <2> TAKE k \in DOMAIN cur
  <2>1. PICK e2 \in all : cur[k] = NodeAt(e2, ct) /\ e2.left = 0
    BY <1>13, <1>15
  <2>2. PICK e \in reqs : e2 = [e EXCEPT !.left = @ - 1]
    BY <1>9
  <2>3. NodeAt(e2, ct).expire = ct
    BY <1>8, <2>1, <2>2
  <2> QED
    BY <2>1, <2>3 DEF NodeAt
<1>21. \A a, b \in DOMAIN cur : a < b => <<cur[a], cur[b]>> \in R2
  <2>1. InOrder(cur, R2)
    BY <1>11, <1>12, <1>13
  <2> QED
    BY <1>20, <2>1 DEF InOrder
<1>22. (\A e \in all : IsRequest(e)) /\ \A e, b \in all : e.ev = b.ev => e = b
  <2>1. ASSUME NEW e2 \in all, NEW b2 \in all, e2.ev = b2.ev PROVE e2 = b2
    <3>1. PICK e \in reqs : e2 = [e EXCEPT !.left = @ - 1]
      BY <1>9
    <3>2. PICK b \in reqs : b2 = [b EXCEPT !.left = @ - 1]
      BY <1>9
    <3>3. e2.ev = e.ev /\ b2.ev = b.ev
      BY <1>8, <3>1, <3>2
    <3>4. e = b
      BY <2>1, <3>3 DEF Good
    <3> QED
      BY <3>1, <3>2, <3>4
  <2> QED
    BY <1>8, <1>9, <2>1
<1>23. Good(f, ct, all, cur)
  BY <1>2, <1>5, <1>13, <1>14, <1>17, <1>18, <1>19, <1>20, <1>21, <1>22 DEF Good
<1>24. cur = << >> => \A e \in reqs : e.left > 1
  <2> SUFFICES ASSUME cur = << >>, NEW e \in reqs PROVE e.left > 1
    OBVIOUS
  <2>1. PICK e2 \in all : e2 = [e EXCEPT !.left = @ - 1]
    BY <1>10
  <2>2. e2.left \in Nat /\ e2.left = e.left - 1
    BY <1>8, <2>1
  <2>3. e2.left > 0
    BY <1>17, <2>2
  <2>4. e.left \in Nat
    BY <1>1 DEF IsRequest
  <2> QED
    BY <2>2, <2>3, <2>4
<1> QED
  BY <1>2, <1>13, <1>23, <1>24 DEF f, ct, all, cur, g, slot

\* dispatch_list sends the message of the first node, which is then done.
LEMMA GoodDispatch ==
  ASSUME TimerConstants, NEW w, NEW now, NEW reqs, NEW cur, Good(w, now, reqs, cur), cur # << >>
  PROVE  /\ Head(cur) \in Nodes
         /\ Good(w, now, {[e EXCEPT !.before = @ \ {Head(cur).ev}] :
                             e \in {f \in reqs : f.ev # Head(cur).ev}}, Tail(cur))
<1> DEFINE h == Head(cur).ev
           all == {[e EXCEPT !.before = @ \ {h}] : e \in {f \in reqs : f.ev # h}}
           rest == Tail(cur)
<1>1. /\ IsWheel(w) /\ now \in Clock /\ cur \in Seq(Nodes) /\ \A e \in reqs : IsRequest(e)
      /\ \A e, f \in reqs : e.ev = f.ev => e = f
  BY DEF Good
<1>2. /\ Head(cur) \in Nodes /\ Head(cur) = cur[1] /\ rest \in Seq(Nodes)
      /\ Len(cur) \in Nat \ {0} /\ DOMAIN cur = 1..Len(cur) /\ DOMAIN rest = 1..(Len(cur) - 1)
      /\ \A k \in 1..(Len(cur) - 1) : rest[k] = cur[k + 1]
  BY <1>1
<1>3. all = {[e EXCEPT !.before = @ \ {h}] : e \in {f \in reqs : f.ev # h}} /\ h = cur[1].ev
  BY <1>2
<1> HIDE DEF h, all, rest
<1>4. PICK r \in reqs : r.left = 0 /\ r.ev = h
  <2>1. 1 \in DOMAIN cur
    BY <1>2
  <2> QED
    BY <1>3, <2>1 DEF Good
<1>5. \A e2 \in all : \E e \in reqs : e.ev # h /\ e2 = [e EXCEPT !.before = @ \ {h}]
  BY <1>3
<1>6. \A e \in reqs : e.ev # h => \E e2 \in all : e2 = [e EXCEPT !.before = @ \ {h}]
  BY <1>3
<1>7. ASSUME NEW e \in reqs, NEW e2, e2 = [e EXCEPT !.before = @ \ {h}]
      PROVE  /\ IsRequest(e2) /\ e2.left = e.left /\ e2.ev = e.ev /\ e2.before = e.before \ {h}
             /\ NodeAt(e2, now) = NodeAt(e, now)
  <2>1. /\ e.ev \in Events /\ e.left \in Nat /\ e.before \subseteq Events
        /\ e = [ev |-> e.ev, left |-> e.left, before |-> e.before]
        /\ 2 * e.left < ClockMod /\ e.ev \notin e.before
    BY <1>1 DEF IsRequest
  <2>2. e2 = [ev |-> e.ev, left |-> e.left, before |-> e.before \ {h}]
    BY <1>7, <2>1
  <2>3. e2.left = e.left /\ e2.ev = e.ev /\ e2.before = e.before \ {h}
    BY <2>2
  <2>4. IsRequest(e2)
    BY <2>1, <2>2, <2>3 DEF IsRequest
  <2>5. NodeAt(e2, now) = NodeAt(e, now)
    BY <2>3 DEF NodeAt
  <2> QED
    BY <2>3, <2>4, <2>5
<1>8. \A p \in Order(reqs) : p[1].ev # h => p \in Order(all)
  <2> TAKE p \in Order(reqs)
  <2> HAVE p[1].ev # h
  <2>1. ASSUME NEW e2 \in all, e2.ev = p[2].ev PROVE p[1].ev \in e2.before
    <3>1. PICK e \in reqs : e2 = [e EXCEPT !.before = @ \ {h}]
      BY <1>5
    <3>2. e2.ev = e.ev /\ e2.before = e.before \ {h}
      BY <1>7, <3>1
    <3> QED
      BY <2>1, <3>2 DEF Order
  <2> QED
    BY <2>1 DEF Order
\* The request that is done is on the wheel no more.
<1>9. ASSUME NEW s \in Slots, NEW k \in DOMAIN List(w, s) PROVE List(w, s)[k].ev # h
  <2>1. PICK e \in reqs : e.left > 0 /\ e.ev = List(w, s)[k].ev
    BY <1>9, OnWheel
  <2> QED
    BY <1>4, <2>1 DEF Good
<1>10. \A k \in DOMAIN cur : k > 1 => cur[k].ev # h
  <2> SUFFICES ASSUME NEW k \in DOMAIN cur, k > 1, cur[k].ev = h PROVE FALSE
    OBVIOUS
  <2>1. 1 \in DOMAIN cur
    BY <1>2
  <2>2. <<cur[1], cur[k]>> \in Order(reqs)
    BY <2>1 DEF Good
  <2>3. cur[1].ev \in r.before
    BY <1>4, <2>2 DEF Order
  <2>4. r.ev \notin r.before
    BY <1>1 DEF IsRequest
  <2> QED
    BY <1>3, <1>4, <2>3, <2>4
<1>11. \A s \in Slots : InOrder(List(w, s), Order(all))
  <2> TAKE s \in Slots
  <2>1. InOrder(List(w, s), Order(reqs))
    BY DEF Good
  <2> SUFFICES ASSUME NEW a \in DOMAIN List(w, s), NEW b \in DOMAIN List(w, s), a < b,
                      List(w, s)[a].expire = List(w, s)[b].expire
               PROVE  <<List(w, s)[a], List(w, s)[b]>> \in Order(all)
    BY DEF InOrder
  <2>2. <<List(w, s)[a], List(w, s)[b]>> \in Order(reqs)
    BY <2>1 DEF InOrder
  <2> QED
    BY <1>8, <1>9, <2>2
<1>12. \A e2 \in all : IF e2.left > 0 THEN Has(List(w, Home(NodeAt(e2, now).expire, now)), NodeAt(e2, now))
                                      ELSE \E k \in DOMAIN rest : rest[k].ev = e2.ev
  <2> TAKE e2 \in all
  <2>1. PICK e \in reqs : e.ev # h /\ e2 = [e EXCEPT !.before = @ \ {h}]
    BY <1>5
  <2>2. e2.left = e.left /\ e2.ev = e.ev /\ NodeAt(e2, now) = NodeAt(e, now)
    BY <1>7, <2>1
  <2>3. CASE e2.left > 0
    BY <2>2, <2>3 DEF Good
  <2>4. CASE ~(e2.left > 0)
    <3>1. PICK k \in DOMAIN cur : cur[k].ev = e.ev
      BY <2>2, <2>4 DEF Good
    <3>2. k # 1
      BY <1>3, <2>1, <3>1
    <3>3. k - 1 \in 1..(Len(cur) - 1) /\ (k - 1) + 1 = k
      BY <1>2, <3>1, <3>2
    <3>4. rest[k - 1] = cur[k]
      BY <1>2, <3>3
    <3> QED
      BY <1>2, <2>2, <2>4, <3>1, <3>3, <3>4
  <2> QED
    BY <2>3, <2>4
<1>13. \A s \in Slots : \A k \in DOMAIN List(w, s) :
         /\ Home(List(w, s)[k].expire, now) = s
         /\ \E e \in all : e.left > 0 /\ List(w, s)[k] = NodeAt(e, now)
  <2> TAKE s \in Slots
  <2> TAKE k \in DOMAIN List(w, s)
  <2>1. PICK e \in reqs : e.left > 0 /\ List(w, s)[k] = NodeAt(e, now) /\ Home(List(w, s)[k].expire, now) = s
    BY DEF Good
  <2>2. e.ev # h
    BY <1>9, <2>1 DEF NodeAt
  <2>3. PICK e2 \in all : e2 = [e EXCEPT !.before = @ \ {h}]
    BY <1>6, <2>2
  <2> QED
    BY <1>7, <2>1, <2>3
<1>14. \A k \in DOMAIN rest : \E e \in all : e.left = 0 /\ e.ev = rest[k].ev
  <2> TAKE k \in DOMAIN rest
  <2>1. k + 1 \in DOMAIN cur /\ rest[k] = cur[k + 1] /\ k + 1 > 1
    BY <1>2
  <2>2. PICK e \in reqs : e.left = 0 /\ e.ev = cur[k + 1].ev
    BY <2>1 DEF Good
  <2>3. e.ev # h
    BY <1>10, <2>1, <2>2
  <2>4. PICK e2 \in all : e2 = [e EXCEPT !.before = @ \ {h}]
    BY <1>6, <2>3
  <2> QED
    BY <1>7, <2>1, <2>2, <2>4
<1>15. \A a, b \in DOMAIN rest : a < b => <<rest[a], rest[b]>> \in Order(all)
  <2> SUFFICES ASSUME NEW a \in DOMAIN rest, NEW b \in DOMAIN rest, a < b
               PROVE  <<rest[a], rest[b]>> \in Order(all)
    OBVIOUS
  <2>1. /\ a + 1 \in DOMAIN cur /\ b + 1 \in DOMAIN cur /\ a + 1 < b + 1 /\ a + 1 > 1
        /\ rest[a] = cur[a + 1] /\ rest[b] = cur[b + 1]
    BY <1>2
  <2>2. <<cur[a + 1], cur[b + 1]>> \in Order(reqs)
    BY <2>1 DEF Good
  <2>3. cur[a + 1].ev # h
    BY <1>10, <2>1
  <2> QED
    BY <1>8, <2>1, <2>2, <2>3
<1>16. (\A e \in all : IsRequest(e)) /\ \A e, b \in all : e.ev = b.ev => e = b
  <2>1. ASSUME NEW e2 \in all, NEW b2 \in all, e2.ev = b2.ev PROVE e2 = b2
    <3>1. PICK e \in reqs : e2 = [e EXCEPT !.before = @ \ {h}]
      BY <1>5
    <3>2. PICK b \in reqs : b2 = [b EXCEPT !.before = @ \ {h}]
      BY <1>5
    <3>3. e2.ev = e.ev /\ b2.ev = b.ev
      BY <1>7, <3>1, <3>2
    <3>4. e = b
      BY <1>1, <2>1, <3>3
    <3> QED
      BY <3>1, <3>2, <3>4
  <2> QED
    BY <1>5, <1>7, <2>1
<1>17. Good(w, now, all, rest)
  BY <1>1, <1>2, <1>11, <1>12, <1>13, <1>14, <1>15, <1>16 DEF Good
<1> QED
  BY <1>2, <1>17 DEF all, rest, h

-----------------------------------------------------------------------------
(* The steps.                                                              *)

\* IInv holds at the start: the wheel is empty.
LEMMA InitIInv == TimerConstants /\ Init => IInv
<1> SUFFICES ASSUME TimerConstants, Init PROVE IInv
  OBVIOUS
<1>1. TypeOK
  <2>1. << >> \in Seq(Nodes)
    OBVIOUS
  <2>2. 0 \in Clock
    BY Spans DEF Clock
  <2> QED
    BY <2>1, <2>2 DEF Init, TypeOK, TimerConstants
<1>2. \A s \in Slots : List(Wheel, s) = << >>
  <2> TAKE s \in Slots
  <2>1. CASE s[1] = -1
    <3>1. s[2] \in 0..(TimeNear - 1)
      BY <2>1 DEF Slots
    <3> QED
      BY <2>1, <3>1 DEF Init, Wheel, List
  <2>2. CASE s[1] # -1
    <3>1. s[1] \in 0..3 /\ s[2] \in 0..(TimeLevel - 1)
      BY <2>2 DEF Slots
    <3> QED
      BY <2>2, <3>1 DEF Init, Wheel, List
  <2> QED
    BY <2>1, <2>2
<1>3. IsWheel(Wheel)
  BY <1>1 DEF TypeOK, IsWheel, Wheel
<1>4. DOMAIN << >> = {} /\ << >> \in Seq(Nodes)
  OBVIOUS
<1>5. waiting = {} /\ current = << >> /\ time \in Clock /\ pc = "idle"
  BY <1>1 DEF Init, TypeOK
<1>6. Good(Wheel, time, waiting, current)
  BY <1>2, <1>3, <1>4, <1>5 DEF Good, InOrder
<1> QED
  BY <1>1, <1>5, <1>6, IInvGood

\* What has to be shown of a step.
LEMMA NextIInv ==
  ASSUME Good(Wheel', time', waiting', current'),
         pc' \in {"idle", "execute"}, owed' \in 0..MaxDiff, fired' \subseteq Events,
         IF pc' = "idle" THEN current' = << >> ELSE owed' > 0
  PROVE  IInv'
<1>1. near' \in [0..(TimeNear - 1) -> Seq(Nodes)] /\ tv' \in [0..3 -> [0..(TimeLevel - 1) -> Seq(Nodes)]]
  BY DEF Good, IsWheel, Wheel
<1>2. time' \in Clock /\ current' \in Seq(Nodes) /\ \A e \in waiting' : IsRequest(e)
  BY DEF Good
<1>3. TypeOK'
  BY <1>1, <1>2 DEF TypeOK, IsRequest
<1>4. (IInv <=> /\ TypeOK /\ Good(Wheel, time, waiting, current)
                /\ IF pc = "idle" THEN current = << >> ELSE owed > 0)'
  BY IInvGood, PTL
<1> QED
  BY <1>3, <1>4

\* Every step preserves the inductive invariant.
LEMMA StepIInv == TimerConstants /\ IInv /\ [Next]_vars => IInv'
<1> SUFFICES ASSUME TimerConstants, IInv, [Next]_vars PROVE IInv'
  OBVIOUS
<1>1. /\ Good(Wheel, time, waiting, current) /\ time \in Clock
      /\ pc \in {"idle", "execute"} /\ owed \in 0..MaxDiff /\ fired \subseteq Events
      /\ IF pc = "idle" THEN current = << >> ELSE owed > 0
  BY IInvGood DEF TypeOK
<1>2. CASE UNCHANGED vars
  BY <1>1, <1>2, NextIInv DEF vars, Wheel
<1>3. ASSUME NEW ev \in Events, NEW ti \in Times, Timeout(ev, ti) PROVE IInv'
  <2>1. UNCHANGED <<time, pc, current, owed>> /\ (\A e \in waiting : e.ev # ev)
    BY <1>3 DEF Timeout, Free
  <2>2. CASE Immediate(ti)
    <3>1. fired' = {ev} /\ UNCHANGED <<near, tv, waiting>>
      BY <1>3, <2>2 DEF Timeout
    <3> QED
      BY <1>1, <2>1, <3>1, NextIInv DEF Wheel
  <2>3. CASE ~Immediate(ti)
    <3>1. ti \in Nat /\ ti > 0 /\ 2 * ti < ClockMod
      BY <2>3 DEF Immediate, TimerConstants
    <3> DEFINE new == [ev |-> ev, left |-> ti, before |-> {e.ev : e \in waiting}]
               w == AddNode([near |-> near, tv |-> tv], [ev |-> ev, expire |-> Expire(ti)], time)
    <3>2. /\ near' = w.near /\ tv' = w.tv /\ waiting' = waiting \cup {new} /\ fired' = {}
      BY <1>3, <2>3 DEF Timeout
    <3>3. w = AddNode(Wheel, NodeAt(new, time), time)
      BY DEF Wheel, NodeAt, Expire
    <3>4. Good(w, time, waiting \cup {new}, current)
      BY <1>1, <2>1, <3>1, <3>3, GoodAdd
    <3> HIDE DEF w, new
    <3>5. Wheel' = w
      BY <3>2, <3>4 DEF Wheel, Good, IsWheel
    <3> QED
      BY <1>1, <2>1, <3>2, <3>4, <3>5, NextIInv
  <2> QED
    BY <2>2, <2>3
<1>4. ASSUME NEW diff \in 1..MaxDiff, UpdateTime(diff) PROVE IInv'
  <2>1. /\ owed' = diff /\ fired' = {} /\ UNCHANGED <<near, tv, time, pc, current, waiting>>
    BY <1>4 DEF UpdateTime
  <2>2. owed' \in 0..MaxDiff
    BY <2>1 DEF TimerConstants
  <2> QED
    BY <1>1, <2>1, <2>2, NextIInv DEF Wheel
<1>5. CASE TimerUpdate
  <2> DEFINE ct == (time + 1) % ClockMod  w == Shift([near |-> near, tv |-> tv], ct)
             slot == ct % TimeNear  list == w.near[slot]
             all == {[e EXCEPT !.left = @ - 1] : e \in waiting}
             f == [near |-> [w.near EXCEPT ![slot] = << >>], tv |-> w.tv]
  <2>1. pc = "idle" /\ owed > 0 /\ current = << >>
    BY <1>1, <1>5 DEF TimerUpdate
  <2>2. /\ time' = ct /\ tv' = w.tv /\ near' = [w.near EXCEPT ![slot] = << >>]
        /\ current' = list /\ waiting' = all /\ fired' = {}
        /\ pc' = IF list # << >> THEN "execute" ELSE "idle"
        /\ owed' = IF list # << >> THEN owed ELSE owed - 1
    BY <1>5 DEF TimerUpdate
  <2>3. Good(Wheel, time, waiting, << >>)
    BY <1>1, <2>1
  <2>4. Good(f, ct, all, list)
    BY <2>3, GoodTick DEF Wheel
  <2>5. Wheel' = f
    BY <2>2 DEF Wheel
  <2> HIDE DEF f, ct, all, list, w, slot
  <2>6. owed' \in 0..MaxDiff /\ pc' \in {"idle", "execute"}
    BY <1>1, <2>1, <2>2 DEF TimerConstants
  <2>7. IF pc' = "idle" THEN current' = << >> ELSE owed' > 0
    BY <2>1, <2>2
  <2>8. Good(Wheel', time', waiting', current') /\ fired' \subseteq Events
    BY <2>2, <2>4, <2>5
  <2> QED
    BY <2>6, <2>7, <2>8, NextIInv
<1>6. CASE Dispatch
  <2>1. /\ current # << >> /\ fired' = {Head(current).ev} /\ current' = Tail(current)
        /\ waiting' = {[e EXCEPT !.before = @ \ {Head(current).ev}] :
                         e \in {f \in waiting : f.ev # Head(current).ev}}
        /\ UNCHANGED <<near, tv, time, pc, owed>>
    BY <1>6 DEF Dispatch
  <2>2. Head(current) \in Nodes /\ Good(Wheel, time, waiting', current')
    BY <1>1, <2>1, GoodDispatch
  <2>3. fired' \subseteq Events
    BY <2>1, <2>2 DEF Nodes
  <2>4. Wheel' = Wheel /\ pc # "idle"
    BY <1>1, <2>1 DEF Wheel
  <2> QED
    BY <1>1, <2>1, <2>2, <2>3, <2>4, NextIInv
<1>7. CASE ExecuteAgain
  <2>1. near[time % TimeNear] = << >> /\ time % TimeNear \in 0..(TimeNear - 1)
    BY <1>1, SlotOfNow DEF Wheel
  <2>2. /\ current = << >> /\ pc = "execute"
        /\ current' = << >> /\ pc' = "idle" /\ owed' = owed - 1 /\ fired' = {}
        /\ near' = [near EXCEPT ![time % TimeNear] = << >>] /\ UNCHANGED <<tv, time, waiting>>
    BY <1>7, <2>1 DEF ExecuteAgain
  <2>3. near' = near
    BY <1>1, <2>1, <2>2 DEF Good, IsWheel, Wheel
  <2>4. owed' \in 0..MaxDiff
    BY <1>1, <2>2 DEF TimerConstants
  <2> QED
    BY <1>1, <2>2, <2>3, <2>4, NextIInv DEF Wheel
<1> QED
  BY <1>2, <1>3, <1>4, <1>5, <1>6, <1>7 DEF Next

\* IInv gives what is promised of the timer.
LEMMA IInvRight == TimerConstants /\ IInv => TimerRight
<1> SUFFICES ASSUME TimerConstants, IInv PROVE TimerRight
  OBVIOUS
<1>1. /\ Good(Wheel, time, waiting, current) /\ TypeOK /\ FiresInOrder
      /\ pc = "idle" => current = << >>
  BY IInvGood DEF IInv
<1>2. FirstExecuteIdle
  BY <1>1, SlotOfNow DEF FirstExecuteIdle, Wheel
<1>3. \A e \in waiting : e.left \in Nat /\ (e.left = 0 => \E k \in DOMAIN current : current[k].ev = e.ev)
  BY <1>1 DEF Good, IsRequest
<1>4. \A k \in DOMAIN current : \E e \in waiting : e.left = 0 /\ e.ev = current[k].ev
  BY <1>1 DEF Good
<1>5. {current[k].ev : k \in DOMAIN current} = {e.ev : e \in {f \in waiting : f.left = 0}}
  BY <1>3, <1>4
<1>6. pc = "idle" => \A e \in waiting : e.left > 0
  <2> SUFFICES ASSUME pc = "idle", NEW e \in waiting PROVE e.left > 0
    OBVIOUS
  <2>1. DOMAIN current = {}
    BY <1>1
  <2>2. e.left \in Nat /\ e.left # 0
    BY <1>3, <2>1
  <2> QED
    BY <2>2
<1> QED
  BY <1>1, <1>2, <1>5, <1>6 DEF TimerRight, FiresOnTime

\* skynet_timer.c loses no timeout and fires none early, late or out of order, for
\* every size of the wheel and any number of requests.
THEOREM TimerSafe == ASSUME TimerConstants PROVE Spec => [](TimerRight /\ IInv)
<1>1. Spec => []IInv
  BY InitIInv, StepIInv, PTL DEF Spec
<1>2. IInv => TimerRight /\ IInv
  BY IInvRight
<1> QED
  BY <1>1, <1>2, PTL
=============================================================================
