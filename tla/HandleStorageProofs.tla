------------------------- MODULE HandleStorageProofs -------------------------
(***************************************************************************)
(* Proofs about the handle storage (skynet_handle.c), for one thread that  *)
(* creates services and any number that retire, name and abort: a live     *)
(* service is found under its handle, no handle is given out twice before  *)
(* handle_index has gone round, the binary search of the names is right,   *)
(* and skynet_handle_retireall misses nobody.                              *)
(***************************************************************************)
EXTENDS HandleStorage, SequenceTheorems, FiniteSetTheorems, WellFoundedInduction, TLAPS

-----------------------------------------------------------------------------
(* Remainders, by which a handle is hashed.                                *)

\* What % and \div are.
LEMMA DivMod ==
  ASSUME NEW a \in Int, NEW b \in Nat \ {0}
  PROVE  a % b \in 0..(b - 1) /\ a \div b \in Int /\ a = b * (a \div b) + (a % b)
OBVIOUS

\* A remainder is the only one there is.
LEMMA ModUnique ==
  ASSUME NEW a \in Int, NEW b \in Nat \ {0}, NEW q \in Int, NEW r \in 0..(b - 1), a = b * q + r
  PROVE  a % b = r
<1>1. a % b \in 0..(b - 1) /\ a \div b \in Int /\ a = b * (a \div b) + (a % b)
  BY DivMod
<1>2. ASSUME NEW x \in Int, NEW y \in Int, x < y PROVE b * x + b <= b * y
  BY <1>2
<1>3. ~(q < a \div b)
  BY <1>1, <1>2
<1>4. ~(a \div b < q)
  BY <1>1, <1>2
<1> QED
  BY <1>1, <1>3, <1>4

\* The remainder by a divisor s of M does not change with the remainder by M.
LEMMA ModMod ==
  ASSUME NEW M \in Nat \ {0}, NEW s \in Nat \ {0}, M % s = 0, NEW x \in Int
  PROVE  (x % M) % s = x % s
<1>1. M = s * (M \div s) /\ M \div s \in Int
  BY DivMod
<1>2. x = M * (x \div M) + (x % M) /\ x \div M \in Int /\ x % M \in Int
  BY DivMod
<1>3. x % M = s * ((x % M) \div s) + ((x % M) % s) /\ (x % M) \div s \in Int /\ (x % M) % s \in 0..(s - 1)
  BY <1>2, DivMod
<1> DEFINE d == M \div s  q == x \div M  e == (x % M) \div s  r == (x % M) % s
           y == x % M
<1>a. d \in Int /\ q \in Int /\ e \in Int /\ r \in Int /\ y \in Int
  BY <1>1, <1>2, <1>3
<1>b. M = s * d /\ x = M * q + y /\ y = s * e + r
  BY <1>1, <1>2, <1>3
<1> HIDE DEF d, q, e, r, y
<1>4. x = (s * d) * q + (s * e + r) /\ d \in Int /\ q \in Int /\ e \in Int /\ r \in Int
  BY <1>a, <1>b
<1>5. x = s * (d * q + e) + r /\ d * q + e \in Int
  <2>1. (s * d) * q = s * (d * q) /\ d * q \in Int
    BY <1>4
  <2> QED
    BY <1>4, <2>1
<1>6. r \in 0..(s - 1)
  BY <1>3 DEF r, y
<1>7. x % s = r
  BY <1>5, <1>6, ModUnique
<1> QED
  BY <1>7 DEF r, y

\* A handle hashes to one of two slots of a table twice as large.
LEMMA HashDoubles ==
  ASSUME NEW h \in Int, NEW s \in Nat \ {0}
  PROVE  h % (2 * s) = h % s \/ h % (2 * s) = (h % s) + s
<1> DEFINE y == h % (2 * s)  q == h \div (2 * s)
<1>1. y \in 0..(2 * s - 1) /\ q \in Int /\ h = (2 * s) * q + y
  <2>1. 2 * s \in Nat \ {0}
    OBVIOUS
  <2> QED
    BY <2>1, DivMod
<1> HIDE DEF y, q
<1>2. CASE y < s
  <2>1. h = s * (2 * q) + y /\ y \in 0..(s - 1) /\ 2 * q \in Int
    BY <1>1, <1>2
  <2> QED
    BY <2>1, ModUnique DEF y
<1>3. CASE y >= s
  <2>1. h = s * (2 * q + 1) + (y - s) /\ y - s \in 0..(s - 1) /\ 2 * q + 1 \in Int
    BY <1>1, <1>3
  <2>2. h % s = y - s
    BY <2>1, ModUnique
  <2> QED
    BY <1>1, <2>2 DEF y
<1> QED
  BY <1>1, <1>2, <1>3

\* The loop over the handles of register comes past every slot.
LEMMA Reach ==
  ASSUME NEW m \in Nat \ {0}, NEW x \in Int, NEW p \in 0..(m - 1)
  PROVE  \E k \in 0..(m - 1) : (k + x) % m = p
<1> DEFINE r == x % m  q == x \div m
<1>1. r \in 0..(m - 1) /\ q \in Int /\ x = m * q + r
  BY DivMod
<1> HIDE DEF r, q
<1>2. CASE p >= r
  <2>1. p - r \in 0..(m - 1) /\ (p - r) + x = m * q + p
    BY <1>1, <1>2
  <2>2. ((p - r) + x) % m = p
    BY <1>1, <2>1, ModUnique
  <2> QED
    BY <2>1, <2>2
<1>3. CASE p < r
  <2>1. p - r + m \in 0..(m - 1) /\ (p - r + m) + x = m * (q + 1) + p
    BY <1>1, <1>3
  <2>2. q + 1 \in Int /\ (p - r + m) + x \in Int
    BY <1>1
  <2>3. ((p - r + m) + x) % m = p
    BY <2>1, <2>2, ModUnique
  <2> QED
    BY <2>1, <2>3
<1> QED
  BY <1>1, <1>2, <1>3

-----------------------------------------------------------------------------
(* Induction over numbers, by the least counterexample.                    *)

\* A set of numbers has a least one.
LEMMA LeastNat ==
  ASSUME NEW T, T \subseteq Nat, T # {}
  PROVE  \E m \in T : \A k \in T : m <= k
<1>1. PICK m \in T : \A k \in T : ~(<<k, m>> \in OpToRel(<, Nat))
  BY NatLessThanWellFounded, WFMin
<1>2. \A k \in T : ~(k < m)
  BY <1>1 DEF OpToRel
<1> QED
  BY <1>2

-----------------------------------------------------------------------------
(* The binary search.                                                      *)

\* The pairs begin, end of the loop, and its body.
Dom == (0..Len(name)) \X (-1..(Len(name) - 1))
Body(f, nm, be) ==
  LET mid == (be[1] + be[2]) \div 2
      c   == name[mid + 1].name
  IN  IF be[1] > be[2] THEN [found |-> FALSE, at |-> be[1]]
      ELSE IF c = nm THEN [found |-> TRUE, at |-> mid]
      ELSE IF c < nm THEN f[<<mid + 1, be[2]>>]
      ELSE f[<<be[1], mid - 1>>]

\* Search is the function that the loop defines, on the whole array.
LEMMA SearchIs ==
  ASSUME NEW nm
  PROVE  Search(nm) = (CHOOSE f : f = [be \in Dom |-> Body(f, nm, be)])[<<0, Len(name) - 1>>]
BY Zenon DEF Search, Dom, Body

\* The loop goes on with a smaller part of the array.
LEMMA Smaller ==
  ASSUME Len(name) \in Nat, NEW be \in Dom, be[1] <= be[2], NEW mid, mid = (be[1] + be[2]) \div 2
  PROVE  /\ mid \in Int /\ be[1] <= mid /\ mid <= be[2]
         /\ <<mid + 1, be[2]>> \in Dom /\ <<be[1], mid - 1>> \in Dom
<1>1. be[1] \in 0..Len(name) /\ be[2] \in -1..(Len(name) - 1)
  BY DEF Dom
<1>2. mid \in Int /\ be[1] <= mid /\ mid <= be[2]
  BY <1>1
<1>3. mid + 1 \in 0..Len(name) /\ mid - 1 \in -1..(Len(name) - 1)
  BY <1>1, <1>2
<1> QED
  BY <1>1, <1>2, <1>3 DEF Dom

\* A function that is the loop on all parts of at most m entries.
Loops(f, nm, m) == \A be \in Dom : be[2] - be[1] + 1 <= m => f[be] = Body(f, nm, be)

\* There is one for every m.
LEMMA SearchEnds ==
  ASSUME Len(name) \in Nat, NEW nm, NEW m \in Nat
  PROVE  \E f : Loops(f, nm, m)
<1> DEFINE T == {k \in Nat : ~\E f : Loops(f, nm, k)}
<1> SUFFICES ASSUME T # {} PROVE FALSE
  OBVIOUS
<1>1. PICK k \in T : \A j \in T : k <= j
  BY LeastNat
<1>2. k \in Nat /\ ~\E f : Loops(f, nm, k)
  BY <1>1
<1>3. CASE k = 0
  <2> DEFINE f == [be \in Dom |-> [found |-> FALSE, at |-> be[1]]]
  <2>1. ASSUME NEW be \in Dom, be[2] - be[1] + 1 <= 0 PROVE f[be] = Body(f, nm, be)
    <3>1. be[1] > be[2]
      BY <2>1 DEF Dom
    <3> QED
      BY <3>1 DEF Body
  <2>2. Loops(f, nm, k)
    BY <1>3, <2>1 DEF Loops
  <2> QED
    BY <1>2, <2>2
<1>4. CASE k > 0
  <2>1. k - 1 \in Nat /\ ~(k <= k - 1)
    BY <1>2, <1>4
  <2>2. k - 1 \notin T
    BY <1>1, <2>1
  <2>3. PICK f : Loops(f, nm, k - 1)
    BY <2>1, <2>2
  <2> DEFINE g == [be \in Dom |-> Body(f, nm, be)]
  <2>4. ASSUME NEW be \in Dom, be[2] - be[1] + 1 <= k - 1 PROVE g[be] = f[be]
    BY <2>3, <2>4 DEF Loops
  <2>5. ASSUME NEW be \in Dom, be[2] - be[1] + 1 <= k PROVE g[be] = Body(g, nm, be)
    <3>1. g[be] = Body(f, nm, be)
      OBVIOUS
    <3>2. CASE be[1] > be[2]
      BY <3>1, <3>2 DEF Body
    <3>3. CASE be[1] <= be[2]
      <4>1. PICK mid : mid = (be[1] + be[2]) \div 2
        OBVIOUS
      <4>2. /\ mid \in Int /\ be[1] <= mid /\ mid <= be[2]
            /\ <<mid + 1, be[2]>> \in Dom /\ <<be[1], mid - 1>> \in Dom
        BY <3>3, <4>1, Smaller
      <4>3. be[1] \in Int /\ be[2] \in Int
        BY DEF Dom
      <4>4. g[<<mid + 1, be[2]>>] = f[<<mid + 1, be[2]>>]
        <5>1. be[2] - (mid + 1) + 1 <= k - 1
          BY <1>2, <2>5, <4>2, <4>3
        <5> QED
          BY <2>4, <4>2, <5>1
      <4>5. g[<<be[1], mid - 1>>] = f[<<be[1], mid - 1>>]
        <5>1. (mid - 1) - be[1] + 1 <= k - 1
          BY <1>2, <2>5, <4>2, <4>3
        <5> QED
          BY <2>4, <4>2, <5>1
      <4> HIDE DEF g
      <4>6. ~(be[1] > be[2])
        BY <3>3, <4>3
      <4> QED
        BY <3>1, <4>1, <4>4, <4>5, <4>6 DEF Body
    <3>4. be[1] > be[2] \/ be[1] <= be[2]
      BY DEF Dom
    <3> QED
      BY <3>2, <3>3, <3>4
  <2>6. Loops(g, nm, k)
    BY <2>5 DEF Loops
  <2> QED
    BY <1>2, <2>6
<1> QED
  BY <1>2, <1>3, <1>4

\* Search is a function that is the loop everywhere, on the whole array.
LEMMA SearchLoops ==
  ASSUME Len(name) \in Nat, NEW nm
  PROVE  \E f : /\ \A be \in Dom : f[be] = Body(f, nm, be)
                /\ Search(nm) = f[<<0, Len(name) - 1>>]
<1>1. PICK g : Loops(g, nm, Len(name))
  BY SearchEnds
<1>2. \A be \in Dom : be[2] - be[1] + 1 <= Len(name)
  BY DEF Dom
<1>3. \A be \in Dom : g[be] = Body(g, nm, be)
  BY <1>1, <1>2 DEF Loops
<1> DEFINE h == [be \in Dom |-> g[be]]
<1>4. ASSUME NEW be \in Dom PROVE h[be] = Body(h, nm, be)
  <2>1. h[be] = Body(g, nm, be)
    BY <1>3
  <2>2. CASE be[1] > be[2]
    BY <2>1, <2>2 DEF Body
  <2>3. CASE be[1] <= be[2]
    <3>1. PICK mid : mid = (be[1] + be[2]) \div 2
      OBVIOUS
    <3>2. <<mid + 1, be[2]>> \in Dom /\ <<be[1], mid - 1>> \in Dom
      BY <2>3, <3>1, Smaller
    <3>3. h[<<mid + 1, be[2]>>] = g[<<mid + 1, be[2]>>] /\ h[<<be[1], mid - 1>>] = g[<<be[1], mid - 1>>]
      BY <3>2
    <3> HIDE DEF h
    <3>4. ~(be[1] > be[2])
      BY <2>3 DEF Dom
    <3> QED
      BY <2>1, <3>1, <3>3, <3>4 DEF Body
  <2>4. be[1] > be[2] \/ be[1] <= be[2]
    BY DEF Dom
  <2> QED
    BY <2>2, <2>3, <2>4
<1>5. h = [be \in Dom |-> Body(h, nm, be)]
  <2>1. h = [be \in Dom |-> h[be]]
    OBVIOUS
  <2> HIDE DEF h
  <2> QED
    BY <1>4, <2>1
<1> DEFINE f == CHOOSE f : f = [be \in Dom |-> Body(f, nm, be)]
<1>6. f = [be \in Dom |-> Body(f, nm, be)]
  <2> HIDE DEF h
  <2> QED
    BY <1>5
<1>7. Search(nm) = f[<<0, Len(name) - 1>>]
  BY SearchIs
<1> HIDE DEF f
<1>8. \A be \in Dom : f[be] = Body(f, nm, be)
  <2>1. \A be \in Dom : [b \in Dom |-> Body(f, nm, b)][be] = Body(f, nm, be)
    OBVIOUS
  <2> QED
    BY <1>6, <2>1
<1> QED
  BY <1>7, <1>8

\* What the binary search finds: the place of a name, or the one where it belongs.
Right(s, nm) ==
  /\ s.found => s.at + 1 \in 1..Len(name) /\ name[s.at + 1].name = nm
  /\ ~s.found => /\ s.at \in 0..Len(name)
                 /\ \A k \in 1..Len(name) : /\ k <= s.at => name[k].name < nm
                                            /\ k > s.at => nm < name[k].name

\* The part of the array where it can still be.
Fits(be, nm) ==
  /\ be[1] <= be[2] + 1
  /\ \A k \in 1..Len(name) : /\ k <= be[1] => name[k].name < nm
                             /\ k > be[2] + 1 => nm < name[k].name

\* The entries of H->name.
LEMMA NamesInt ==
  ASSUME HandleConstants, TypeOK
  PROVE  /\ Len(name) \in Nat /\ DOMAIN name = 1..Len(name)
         /\ \A k \in 1..Len(name) : name[k] \in Entry /\ name[k].name \in Names /\ name[k].name \in Int
<1>1. name \in Seq(Entry) /\ Names \subseteq Int
  BY DEF HandleConstants, TypeOK
<1>2. Len(name) \in Nat /\ DOMAIN name = 1..Len(name) /\ \A k \in 1..Len(name) : name[k] \in Entry
  BY <1>1
<1> QED
  BY <1>1, <1>2 DEF Entry

\* The binary search of skynet_handle_findname and _insert_name is right on every sorted
\* array: induction over the length of the part that is left.
LEMMA SearchRight ==
  ASSUME HandleConstants, TypeOK, NamesSorted, NEW nm \in Names
  PROVE  Right(Search(nm), nm)
<1>1. /\ Len(name) \in Nat /\ nm \in Int
      /\ \A k \in 1..Len(name) : name[k].name \in Int
      /\ \A j, k \in 1..Len(name) : j < k => name[j].name < name[k].name
  BY NamesInt DEF NamesSorted, HandleConstants
<1>2. PICK f : (\A be \in Dom : f[be] = Body(f, nm, be)) /\ Search(nm) = f[<<0, Len(name) - 1>>]
  BY <1>1, SearchLoops
<1> DEFINE T == {m \in Nat : \E be \in Dom : Fits(be, nm) /\ be[2] - be[1] + 1 = m /\ ~Right(f[be], nm)}
<1>3. T = {}
  <2> SUFFICES ASSUME T # {} PROVE FALSE
    OBVIOUS
  <2>1. PICK m \in T : \A j \in T : m <= j
    BY LeastNat
  <2>2. PICK be \in Dom : Fits(be, nm) /\ be[2] - be[1] + 1 = m /\ ~Right(f[be], nm)
    BY <2>1
  <2>3. ASSUME NEW sub \in Dom, Fits(sub, nm), sub[2] - sub[1] + 1 < m PROVE Right(f[sub], nm)
    <3>a. m \in Nat
      BY <2>1
    <3>b. sub[1] \in 0..Len(name) /\ sub[2] \in -1..(Len(name) - 1)
      BY DEF Dom
    <3>c. sub[1] <= sub[2] + 1
      BY <2>3 DEF Fits
    <3>1. sub[2] - sub[1] + 1 \in Nat /\ m \in Nat
      BY <1>1, <3>a, <3>b, <3>c
    <3>2. sub[2] - sub[1] + 1 \notin T
      BY <2>1, <2>3, <3>1
    <3> QED
      BY <2>3, <3>1, <3>2
  <2> HIDE DEF T
  <2>4. f[be] = Body(f, nm, be) /\ be[1] \in 0..Len(name) /\ be[2] \in -1..(Len(name) - 1)
    BY <1>2 DEF Dom
  <2>5. CASE be[1] > be[2]
    <3>1. f[be] = [found |-> FALSE, at |-> be[1]]
      BY <2>4, <2>5 DEF Body
    <3>2. be[1] = be[2] + 1
      BY <2>2, <2>4, <2>5 DEF Fits
    <3>3. Right([found |-> FALSE, at |-> be[1]], nm)
      BY <2>2, <2>4, <3>2 DEF Fits, Right
    <3> QED
      BY <2>2, <3>1, <3>3
  <2>6. CASE be[1] <= be[2]
    <3>1. PICK mid : mid = (be[1] + be[2]) \div 2
      OBVIOUS
    <3>2. /\ mid \in Int /\ be[1] <= mid /\ mid <= be[2]
          /\ <<mid + 1, be[2]>> \in Dom /\ <<be[1], mid - 1>> \in Dom
      BY <1>1, <2>6, <3>1, Smaller
    <3>3. mid + 1 \in 1..Len(name) /\ ~(be[1] > be[2])
      BY <2>4, <2>6, <3>2
    <3> DEFINE c == name[mid + 1].name
    <3>4. CASE c = nm
      <4>1. f[be] = [found |-> TRUE, at |-> mid]
        BY <2>4, <3>1, <3>3, <3>4 DEF Body
      <4>2. Right([found |-> TRUE, at |-> mid], nm)
        BY <3>3, <3>4 DEF Right
      <4> QED
        BY <2>2, <4>1, <4>2
    <3>5. CASE c < nm
      <4>1. c # nm
        BY <1>1, <3>3, <3>5
      <4>2. f[be] = f[<<mid + 1, be[2]>>]
        BY <2>4, <3>1, <3>3, <3>5, <4>1 DEF Body
      <4>3. \A k \in 1..Len(name) : k <= mid + 1 => name[k].name < nm
        <5> TAKE k \in 1..Len(name)
        <5> HAVE k <= mid + 1
        <5>1. CASE k = mid + 1
          BY <3>5, <5>1
        <5>2. CASE k < mid + 1
          <6>1. name[k].name < c /\ name[k].name \in Int /\ c \in Int
            BY <1>1, <3>3, <5>2
          <6> QED
            BY <1>1, <3>5, <6>1
        <5> QED
          BY <3>2, <5>1, <5>2
      <4>4. Fits(<<mid + 1, be[2]>>, nm)
        BY <2>2, <2>4, <3>2, <4>3 DEF Fits
      <4>5. be[2] - (mid + 1) + 1 < m
        BY <2>2, <2>4, <3>2
      <4>6. Right(f[<<mid + 1, be[2]>>], nm)
        BY <2>3, <3>2, <4>4, <4>5
      <4> QED
        BY <2>2, <4>2, <4>6
    <3>6. CASE nm < c
      <4>1. c # nm /\ ~(c < nm)
        BY <1>1, <3>3, <3>6
      <4>2. f[be] = f[<<be[1], mid - 1>>]
        BY <2>4, <3>1, <3>3, <4>1 DEF Body
      <4>3. \A k \in 1..Len(name) : k > mid => nm < name[k].name
        <5> TAKE k \in 1..Len(name)
        <5> HAVE k > mid
        <5>1. k = mid + 1 \/ c < name[k].name
          BY <1>1, <3>2, <3>3
        <5> QED
          BY <1>1, <3>3, <3>6, <5>1
      <4>4. Fits(<<be[1], mid - 1>>, nm)
        BY <2>2, <2>4, <3>2, <4>3 DEF Fits
      <4>5. (mid - 1) - be[1] + 1 < m
        BY <2>2, <2>4, <3>2
      <4>6. Right(f[<<be[1], mid - 1>>], nm)
        BY <2>3, <3>2, <4>4, <4>5
      <4> QED
        BY <2>2, <4>2, <4>6
    <3>7. c = nm \/ c < nm \/ nm < c
      BY <1>1, <3>3
    <3> QED
      BY <3>4, <3>5, <3>6, <3>7
  <2> QED
    BY <2>4, <2>5, <2>6
<1> DEFINE all == <<0, Len(name) - 1>>
<1>4. all \in Dom /\ Fits(all, nm) /\ all[2] - all[1] + 1 \in Nat
  BY <1>1 DEF Dom, Fits
<1> QED
  BY <1>2, <1>3, <1>4

-----------------------------------------------------------------------------
(* The names that a retire keeps, and where a new one goes.                *)

\* The loop over the names of skynet_handle_retire: iteration k.
Kept(g, h, k) == IF k = 0 THEN << >>
                 ELSE IF name[k].handle = h THEN g[k - 1] ELSE Append(g[k - 1], name[k])

\* KeptNames is the function that the loop defines, after its last iteration.
LEMMA KeptIs ==
  ASSUME NEW h
  PROVE  KeptNames(h) = (CHOOSE g : g = [k \in 0..Len(name) |-> Kept(g, h, k)])[Len(name)]
BY Zenon DEF KeptNames, Kept

\* There is a function that is the loop up to iteration m.
LEMMA KeptEnds ==
  ASSUME NEW h, NEW m \in Nat
  PROVE  \E g : \A k \in 0..m : g[k] = Kept(g, h, k)
<1> DEFINE T == {j \in Nat : ~\E g : \A k \in 0..j : g[k] = Kept(g, h, k)}
<1> SUFFICES ASSUME T # {} PROVE FALSE
  OBVIOUS
<1>1. PICK j \in T : \A k \in T : j <= k
  BY LeastNat
<1>2. j \in Nat /\ ~\E g : \A k \in 0..j : g[k] = Kept(g, h, k)
  BY <1>1
<1>3. CASE j = 0
  <2> DEFINE g == [k \in 0..0 |-> << >>]
  <2>1. \A k \in 0..j : g[k] = Kept(g, h, k)
    BY <1>3 DEF Kept
  <2> QED
    BY <1>2, <2>1
<1>4. CASE j > 0
  <2>1. j - 1 \in Nat /\ ~(j <= j - 1)
    BY <1>2, <1>4
  <2>2. j - 1 \notin T
    BY <1>1, <2>1
  <2>3. PICK f : \A k \in 0..(j - 1) : f[k] = Kept(f, h, k)
    BY <2>1, <2>2
  <2> DEFINE g == [k \in 0..j |-> Kept(f, h, k)]
  <2>4. \A k \in 0..(j - 1) : g[k] = f[k]
    BY <2>3, <1>2
  <2>5. ASSUME NEW k \in 0..j PROVE g[k] = Kept(g, h, k)
    <3>1. g[k] = Kept(f, h, k)
      OBVIOUS
    <3>2. k # 0 => g[k - 1] = f[k - 1]
      <4> HIDE DEF g
      <4>1. k # 0 => k - 1 \in 0..(j - 1)
        BY <1>2
      <4> QED
        BY <2>4, <4>1
    <3> HIDE DEF g
    <3> QED
      BY <3>1, <3>2 DEF Kept
  <2> HIDE DEF g
  <2> QED
    BY <1>2, <2>5
<1> QED
  BY <1>2, <1>3, <1>4

\* KeptNames is the loop after its last iteration.
LEMMA KeptLoops ==
  ASSUME Len(name) \in Nat, NEW h
  PROVE  \E g : /\ \A k \in 0..Len(name) : g[k] = Kept(g, h, k)
                /\ KeptNames(h) = g[Len(name)]
<1>1. PICK e : \A k \in 0..Len(name) : e[k] = Kept(e, h, k)
  BY KeptEnds
<1> DEFINE f == [k \in 0..Len(name) |-> e[k]]
<1>2. f = [k \in 0..Len(name) |-> Kept(f, h, k)]
  <2>1. \A k \in 0..Len(name) : f[k] = Kept(f, h, k)
    <3> TAKE k \in 0..Len(name)
    <3>1. f[k] = Kept(e, h, k) /\ (k # 0 => f[k - 1] = e[k - 1])
      BY <1>1
    <3> HIDE DEF f
    <3> QED
      BY <3>1 DEF Kept
  <2>2. f = [k \in 0..Len(name) |-> f[k]]
    OBVIOUS
  <2> HIDE DEF f
  <2> QED
    BY <2>1, <2>2
<1> DEFINE g == CHOOSE g : g = [k \in 0..Len(name) |-> Kept(g, h, k)]
<1>3. g = [k \in 0..Len(name) |-> Kept(g, h, k)]
  <2> HIDE DEF f
  <2> QED
    BY <1>2
<1>4. KeptNames(h) = g[Len(name)]
  BY KeptIs
<1> HIDE DEF g
<1>5. \A k \in 0..Len(name) : [j \in 0..Len(name) |-> Kept(g, h, j)][k] = Kept(g, h, k)
  OBVIOUS
<1>6. \A k \in 0..Len(name) : g[k] = Kept(g, h, k)
  BY <1>3, <1>5
<1> QED
  BY <1>4, <1>6

\* A sequence of names in order, below a bound.
Ordered(s) == /\ s \in Seq(Entry)
              /\ \A j, k \in 1..Len(s) : j < k => s[j].name < s[k].name

\* What is kept is in order.
LEMMA KeptOrdered ==
  ASSUME HandleConstants, TypeOK, NamesSorted, NEW h
  PROVE  Ordered(KeptNames(h))
<1>1. /\ Len(name) \in Nat
      /\ \A k \in 1..Len(name) : name[k] \in Entry /\ name[k].name \in Int
      /\ \A j, k \in 1..Len(name) : j < k => name[j].name < name[k].name
  BY NamesInt DEF NamesSorted
<1>2. PICK g : (\A k \in 0..Len(name) : g[k] = Kept(g, h, k)) /\ KeptNames(h) = g[Len(name)]
  BY <1>1, KeptLoops
<1> DEFINE Fine(k) == /\ Ordered(g[k])
                      /\ \A a \in 1..Len(g[k]) : \E b \in 1..k : g[k][a] = name[b]
           T == {k \in 0..Len(name) : ~Fine(k)}
<1>3. T = {}
  <2> SUFFICES ASSUME T # {} PROVE FALSE
    OBVIOUS
  <2>a. T \subseteq Nat
    BY <1>1
  <2> HIDE DEF Fine
  <2>1. PICK k \in T : \A j \in T : k <= j
    BY <2>a, LeastNat
  <2>2. k \in 0..Len(name) /\ ~Fine(k) /\ g[k] = Kept(g, h, k)
    BY <1>2, <2>1
  <2>3. CASE k = 0
    <3>1. g[k] = << >>
      BY <2>2, <2>3 DEF Kept
    <3>2. << >> \in Seq(Entry) /\ Len(<< >>) = 0
      OBVIOUS
    <3> QED
      BY <2>2, <3>1, <3>2 DEF Ordered, Fine
  <2>4. CASE k # 0
    <3>1. k - 1 \in 0..Len(name) /\ k - 1 \in Nat /\ k \in 1..Len(name) /\ ~(k <= k - 1)
      BY <1>1, <2>2, <2>4
    <3>2. k - 1 \notin T
      BY <2>1, <3>1
    <3>3. Fine(k - 1)
      BY <3>1, <3>2
    <3> HIDE DEF T
    <3>4. PICK s : s = g[k - 1]
      OBVIOUS
    <3>5. /\ s \in Seq(Entry) /\ Len(s) \in Nat
          /\ \A a, b \in 1..Len(s) : a < b => s[a].name < s[b].name
          /\ \A a \in 1..Len(s) : \E b \in 1..(k - 1) : s[a] = name[b]
      BY <3>3, <3>4 DEF Fine, Ordered
    <3>6. CASE name[k].handle = h
      <4>1. g[k] = s
        BY <2>2, <2>4, <3>4, <3>6 DEF Kept
      <4>2. \A a \in 1..Len(s) : \E b \in 1..k : s[a] = name[b]
        BY <3>1, <3>5
      <4> QED
        BY <2>2, <3>5, <4>1, <4>2 DEF Fine, Ordered
    <3>7. CASE name[k].handle # h
      <4>1. PICK r : r = Append(s, name[k])
        OBVIOUS
      <4>2. g[k] = r
        BY <2>2, <2>4, <3>4, <3>7, <4>1 DEF Kept
      <4>3. /\ r \in Seq(Entry) /\ Len(r) = Len(s) + 1
            /\ \A a \in 1..Len(s) : r[a] = s[a]
            /\ r[Len(s) + 1] = name[k]
        BY <1>1, <3>1, <3>5, <4>1
      <4>4. \A a \in 1..Len(r) : \E b \in 1..k : r[a] = name[b]
        BY <3>1, <3>5, <4>3
      <4>5. ASSUME NEW a \in 1..Len(r), NEW b \in 1..Len(r), a < b PROVE r[a].name < r[b].name
        <5>1. a \in 1..Len(s) /\ r[a] = s[a]
          BY <3>5, <4>3, <4>5
        <5>2. CASE b \in 1..Len(s)
          BY <3>5, <4>3, <4>5, <5>1, <5>2
        <5>3. CASE b = Len(s) + 1
          <6>1. PICK c \in 1..(k - 1) : s[a] = name[c]
            BY <3>5, <5>1
          <6>2. c \in 1..Len(name) /\ c < k
            BY <1>1, <3>1, <6>1
          <6>3. name[c].name < name[k].name
            BY <1>1, <3>1, <6>2
          <6> QED
            BY <4>3, <5>1, <5>3, <6>1, <6>3
        <5> QED
          BY <3>5, <4>3, <5>2, <5>3
      <4> QED
        BY <2>2, <4>2, <4>3, <4>4, <4>5 DEF Fine, Ordered
    <3> QED
      BY <3>6, <3>7
  <2> QED
    BY <2>3, <2>4
<1> QED
  BY <1>1, <1>2, <1>3

\* A new name goes where the search says.
LEMMA InsertOrdered ==
  ASSUME HandleConstants, TypeOK, NamesSorted, NEW nm \in Names, NEW h \in Handles,
         ~Search(nm).found
  PROVE  Ordered(InsertBefore(nm, h, Search(nm).at))
<1>1. /\ name \in Seq(Entry) /\ Len(name) \in Nat /\ nm \in Int
      /\ \A k \in 1..Len(name) : name[k] \in Entry /\ name[k].name \in Int
      /\ \A j, k \in 1..Len(name) : j < k => name[j].name < name[k].name
  BY NamesInt DEF NamesSorted, HandleConstants, TypeOK
<1>2. PICK at : at = Search(nm).at
  OBVIOUS
<1>3. /\ at \in 0..Len(name)
      /\ \A k \in 1..Len(name) : /\ k <= at => name[k].name < nm
                                 /\ k > at => nm < name[k].name
  BY <1>2, SearchRight DEF Right
<1>4. PICK e : e = [name |-> nm, handle |-> h]
  OBVIOUS
<1>5. e \in Entry /\ e.name = nm
  BY <1>4 DEF Entry
<1>6. PICK a : a = SubSeq(name, 1, at)
  OBVIOUS
<1>7. PICK b : b = SubSeq(name, at + 1, Len(name))
  OBVIOUS
<1>8. a \in Seq(Entry) /\ Len(a) = at /\ \A k \in 1..at : a[k] = name[k]
  <2>1. \A k \in 1..at : k \in 1..Len(name)
    BY <1>1, <1>3
  <2>2. \A k \in 1..at : name[k] \in Entry
    BY <1>1, <2>1
  <2> QED
    BY <1>1, <1>3, <1>6, <2>1, <2>2, SubSeqProperties
<1>9. b \in Seq(Entry) /\ Len(b) = Len(name) - at /\ \A k \in 1..(Len(name) - at) : b[k] = name[at + k]
  <2>1. \A k \in (at + 1)..Len(name) : k \in 1..Len(name)
    BY <1>1, <1>3
  <2>2. \A k \in (at + 1)..Len(name) : name[k] \in Entry
    BY <1>1, <2>1
  <2> QED
    BY <1>1, <1>3, <1>7, <2>1, <2>2, SubSeqProperties
<1>10. PICK r : r = (a \o <<e>>) \o b
  OBVIOUS
<1>11. InsertBefore(nm, h, Search(nm).at) = r
  <2>1. (at + 1) - 1 = at
    BY <1>3
  <2>2. InsertAt(name, at + 1, e) = (SubSeq(name, 1, (at + 1) - 1) \o <<e>>) \o SubSeq(name, at + 1, Len(name))
    BY DEF InsertAt
  <2>3. InsertBefore(nm, h, Search(nm).at) = InsertAt(name, at + 1, e)
    BY <1>2, <1>4 DEF InsertBefore
  <2> QED
    BY Zenon, <1>6, <1>7, <1>10, <2>1, <2>2, <2>3
<1>12. /\ a \o <<e>> \in Seq(Entry) /\ Len(a \o <<e>>) = at + 1
       /\ \A k \in 1..at : (a \o <<e>>)[k] = name[k]
       /\ (a \o <<e>>)[at + 1] = e
  BY <1>3, <1>5, <1>8
<1>13. /\ r \in Seq(Entry) /\ Len(r) = Len(name) + 1
       /\ \A k \in 1..at : r[k] = name[k]
       /\ r[at + 1] = e
       /\ \A k \in 1..(Len(name) - at) : r[at + 1 + k] = name[at + k]
  <2> HIDE DEF Entry
  <2>1. PICK c : c = a \o <<e>>
    OBVIOUS
  <2>2. /\ c \in Seq(Entry) /\ Len(c) = at + 1 /\ \A k \in 1..at : c[k] = name[k]
        /\ c[at + 1] = e
    BY <1>12, <2>1
  <2>a. r = c \o b
    BY <1>10, <2>1
  <2>b. /\ r \in Seq(Entry) /\ Len(r) = Len(c) + Len(b)
        /\ \A k \in 1..(Len(c) + Len(b)) : r[k] = IF k <= Len(c) THEN c[k] ELSE b[k - Len(c)]
    BY <1>9, <2>2, <2>a, ConcatProperties
  <2>c. Len(c) = at + 1 /\ Len(b) = Len(name) - at /\ Len(c) + Len(b) = Len(name) + 1
    BY <1>1, <1>3, <1>9, <2>2
  <2>d. \A k \in 1..(at + 1) : r[k] = c[k]
    BY <1>1, <1>3, <2>b, <2>c
  <2>e. ASSUME NEW k \in 1..(Len(name) - at) PROVE r[at + 1 + k] = b[k]
    <3>1. at + 1 + k \in 1..(Len(c) + Len(b)) /\ ~(at + 1 + k <= Len(c)) /\ at + 1 + k - Len(c) = k
      BY <1>1, <1>3, <2>c
    <3>2. PICK p \in Int : p = at + 1 + k
      BY <1>3
    <3>3. p \in 1..(Len(c) + Len(b)) /\ ~(p <= Len(c)) /\ p - Len(c) = k
      BY <1>1, <1>3, <2>c, <3>2
    <3>4. r[p] = b[p - Len(c)]
      BY <2>b, <3>3
    <3> QED
      BY <3>2, <3>3, <3>4
  <2>3. r \in Seq(Entry) /\ Len(r) = at + 1 + (Len(name) - at)
        /\ (\A k \in 1..(at + 1) : r[k] = c[k])
        /\ \A k \in 1..(Len(name) - at) : r[at + 1 + k] = b[k]
    BY <1>1, <1>3, <2>b, <2>c, <2>d, <2>e
  <2> QED
    BY <1>1, <1>3, <1>9, <2>2, <2>3
<1>14. ASSUME NEW k \in (at + 2)..(Len(name) + 1)
       PROVE  k - 1 \in 1..Len(name) /\ k - 1 > at /\ r[k] = name[k - 1]
  <2>1. k - 1 \in 1..Len(name) /\ k - 1 > at /\ k - 1 - at \in 1..(Len(name) - at)
        /\ at + 1 + (k - 1 - at) = k /\ at + (k - 1 - at) = k - 1
    BY <1>1, <1>3
  <2> QED
    BY <1>13, <2>1
<1>15. ASSUME NEW j \in 1..Len(r), NEW k \in 1..Len(r), j < k PROVE r[j].name < r[k].name
  <2>1. CASE k <= at
    BY <1>1, <1>3, <1>13, <1>15, <2>1
  <2>2. CASE k = at + 1
    BY <1>1, <1>3, <1>5, <1>13, <1>15, <2>2
  <2>3. CASE k > at + 1
    <3>1. k - 1 \in 1..Len(name) /\ k - 1 > at /\ r[k] = name[k - 1]
      BY <1>1, <1>3, <1>13, <1>14, <2>3
    <3>2. CASE j <= at
      <4>1. j \in 1..Len(name) /\ j < k - 1 /\ r[j] = name[j]
        BY <1>1, <1>3, <1>13, <1>15, <2>3, <3>2
      <4> QED
        BY <1>1, <3>1, <4>1
    <3>3. CASE j = at + 1
      BY <1>3, <1>5, <1>13, <3>1, <3>3
    <3>4. CASE j > at + 1
      <4>1. j - 1 \in 1..Len(name) /\ r[j] = name[j - 1] /\ j - 1 < k - 1
        BY <1>1, <1>3, <1>13, <1>14, <1>15, <3>4
      <4> QED
        BY <1>1, <3>1, <4>1
    <3> QED
      BY <1>3, <3>2, <3>3, <3>4
  <2> QED
    BY <1>3, <1>13, <2>1, <2>2, <2>3
<1> QED
  BY <1>11, <1>13, <1>15 DEF Ordered

\* skynet_handle_findname finds what is there.
LEMMA FindRight ==
  ASSUME HandleConstants, TypeOK, NamesSorted
  PROVE  FindNameCorrect
<1> SUFFICES ASSUME NEW nm \in Names
             PROVE  LET hs == {name[k].handle : k \in {j \in DOMAIN name : name[j].name = nm}}
                    IN  /\ Cardinality(hs) <= 1
                        /\ skynet_handle_findname(nm) \in (IF hs = {} THEN {0} ELSE hs)
  BY Zenon DEF FindNameCorrect
<1> DEFINE hs == {name[k].handle : k \in {j \in DOMAIN name : name[j].name = nm}}
<1>1. /\ Len(name) \in Nat /\ nm \in Int /\ DOMAIN name = 1..Len(name)
      /\ \A k \in 1..Len(name) : name[k].name \in Int
      /\ \A j, k \in 1..Len(name) : j < k => name[j].name < name[k].name
  BY NamesInt DEF NamesSorted, HandleConstants
<1>2. PICK s : s = Search(nm)
  OBVIOUS
<1>3. Right(s, nm) /\ skynet_handle_findname(nm) = IF s.found THEN name[s.at + 1].handle ELSE 0
  BY <1>2, SearchRight DEF skynet_handle_findname
<1>4. CASE s.found
  <2>1. PICK k \in 1..Len(name) : k = s.at + 1 /\ name[k].name = nm
    BY <1>3, <1>4 DEF Right
  <2>2. \A j \in 1..Len(name) : name[j].name = nm => j = k
    <3> TAKE j \in 1..Len(name)
    <3>1. j < k => name[j].name < name[k].name
      BY <1>1
    <3>2. k < j => name[k].name < name[j].name
      BY <1>1
    <3> QED
      BY <1>1, <2>1, <3>1, <3>2
  <2>3. hs = {name[k].handle}
    BY <1>1, <2>1, <2>2
  <2> HIDE DEF hs
  <2>4. Cardinality(hs) = 1
    BY <2>3, FS_Singleton
  <2> QED
    BY <1>3, <1>4, <2>1, <2>3, <2>4 DEF hs
<1>5. CASE ~s.found
  <2>1. \A k \in 1..Len(name) : name[k].name # nm
    <3> TAKE k \in 1..Len(name)
    <3>1. s.at \in Nat /\ (k <= s.at => name[k].name < nm) /\ (k > s.at => nm < name[k].name)
      BY <1>3, <1>5 DEF Right
    <3> QED
      BY <1>1, <3>1
  <2>2. hs = {}
    BY <1>1, <2>1
  <2> HIDE DEF hs
  <2>3. Cardinality(hs) = 0
    BY <2>2, FS_EmptySet
  <2> QED
    BY <1>3, <1>5, <2>2, <2>3 DEF hs
<1> QED
  BY <1>4, <1>5

-----------------------------------------------------------------------------
(* The table.                                                              *)

\* A table of z slots.
IsTable(s, z) == /\ z \in 1..HandleMod /\ InitSize <= z /\ HandleMod % z = 0
                 /\ s \in [0..(z - 1) -> Ctxs \cup {NoCtx}]

\* A table of z slots has z slots.
LEMMA TableSize ==
  ASSUME HandleConstants, NEW z, NEW s, IsTable(s, z)
  PROVE  /\ Cardinality(DOMAIN s) = z /\ DOMAIN s = 0..(z - 1)
         /\ z \in Nat \ {0} /\ \A k \in 0..(z - 1) : s[k] \in Ctxs \cup {NoCtx}
<1>1. DOMAIN s = 0..(z - 1) /\ z \in Nat \ {0} /\ \A k \in 0..(z - 1) : s[k] \in Ctxs \cup {NoCtx}
  BY DEF IsTable, HandleConstants
<1>2. Cardinality(0..(z - 1)) = z
  <2>1. 0 \in Int /\ z - 1 \in Int /\ ~(0 > z - 1)
    BY <1>1
  <2>2. Cardinality(0..(z - 1)) = (z - 1) - 0 + 1
    BY <2>1, FS_Interval
  <2> QED
    BY <1>1, <2>2
<1> QED
  BY <1>1, <1>2

\* H->slot is a table of slot_size slots.
LEMMA Table ==
  ASSUME HandleConstants, TypeOK
  PROVE  IsTable(slot, slot_size)
<1>1. PICK z : IsTable(slot, z)
  BY DEF TypeOK, IsTable
<1>2. slot_size = z
  BY <1>1, TableSize DEF slot_size
<1> QED
  BY <1>1, <1>2

\* So it is after a step.
LEMMA TablePrimed ==
  ASSUME HandleConstants, NEW z, IsTable(slot', z)
  PROVE  slot_size' = z
BY TableSize DEF slot_size

\* The state before skynet_handle_register.
Idle(t) == t \in Creators /\ pc[t] = "idle" /\ created < MaxCtx

\* Table s of z slots holds those the table of the state holds, each in the slot of its
\* handle, and in no slot before the one it had.
Moved(s, z) ==
  /\ IsTable(s, z) /\ slot_size <= z
  /\ \A k \in 0..(z - 1) : s[k] # NoCtx =>
       /\ s[k] <= created /\ Hash(handle[s[k]], z) = k
       /\ k < slot_size => slot[k] = s[k]
       /\ \E j \in 0..(slot_size - 1) : j <= k /\ slot[j] = s[k]
  /\ \A c \in Ctxs : InTable(c) => \E k \in 0..(z - 1) : s[k] = c

\* With one creator nobody else is between register and assign.
LEMMA NobodyAssigns ==
  ASSUME OneCreator, PlacesRight, NEW t \in Callers, Idle(t)
  PROVE  \A u \in Callers : ~Assigning(u)
BY DEF OneCreator, PlacesRight, Idle, Assigning

\* The table itself, when there is a free slot.
LEMMA SlotMoved ==
  ASSUME HandleConstants, OneCreator, TypeOK, PlacesRight, NEW t \in Callers, Idle(t)
  PROVE  Moved(slot, slot_size)
<1>1. IsTable(slot, slot_size) /\ slot_size \in Nat \ {0} /\ DOMAIN slot = 0..(slot_size - 1)
  BY Table, TableSize
<1>2. \A u \in Creators : ~Assigning(u)
  BY NobodyAssigns DEF Callers
<1>3. \A k \in DOMAIN slot : slot[k] # NoCtx => slot[k] <= created /\ Hash(handle[slot[k]], slot_size) = k
  BY <1>2 DEF PlacesRight
<1>4. slot_size <= slot_size /\ \A k \in 0..(slot_size - 1) : k <= k
  BY <1>1
<1> QED
  BY <1>1, <1>3, <1>4 DEF Moved, InTable

\* Who claims slot k of the larger table is in slot k % slot_size.
LEMMA ClaimsRight ==
  ASSUME HandleConstants, OneCreator, TypeOK, PlacesRight, NEW t \in Callers, Idle(t),
         NEW k \in 0..(2 * slot_size - 1)
  PROVE  /\ k % slot_size \in 0..(slot_size - 1)
         /\ Claims(k) \subseteq {slot[k % slot_size]}
<1>1. PICK z : z = slot_size
  OBVIOUS
<1>2. z \in Nat \ {0} /\ DOMAIN slot = 0..(z - 1)
  BY <1>1, Table, TableSize
<1>3. Moved(slot, z)
  BY <1>1, SlotMoved
<1>4. k \in Int /\ k % z \in 0..(z - 1)
  BY <1>1, <1>2, DivMod
<1>5. ASSUME NEW c \in Claims(k) PROVE c = slot[k % z]
  <2>1. PICK j \in 0..(z - 1) : slot[j] = c /\ c \in Ctxs /\ handle[c] % (2 * z) = k
    BY <1>1, <1>2 DEF Claims, Hash
  <2>2. c # NoCtx /\ handle[c] \in Int
    <3>1. c # NoCtx
      BY <2>1 DEF Ctxs, NoCtx
    <3>2. handle[c] \in Handles
      BY <2>1 DEF TypeOK
    <3> QED
      BY <3>1, <3>2 DEF Handles
  <2>3. handle[c] % z = j
    BY <1>3, <2>1, <2>2 DEF Moved, Hash
  <2>4. (handle[c] % (2 * z)) % z = handle[c] % z
    <3>1. 2 * z \in Nat \ {0} /\ (2 * z) % z = 0
      <4>1. 2 * z = z * 2 + 0 /\ 0 \in 0..(z - 1) /\ 2 * z \in Int
        BY <1>2
      <4> QED
        BY <1>2, <4>1, ModUnique
    <3> QED
      BY <1>2, <2>2, <3>1, ModMod
  <2> QED
    BY <2>1, <2>3, <2>4
<1> QED
  BY <1>1, <1>4, <1>5

\* So assert(new_slot[hash] == NULL) does not fail.
LEMMA NoRehash ==
  ASSUME HandleConstants, OneCreator, TypeOK, PlacesRight, NEW t \in Callers, Idle(t),
         NEW k \in 0..(2 * slot_size - 1)
  PROVE  ~(Cardinality(Claims(k)) > 1)
<1>1. PICK c : Claims(k) \subseteq {c}
  BY ClaimsRight
<1>2. Claims(k) = {} \/ Claims(k) = {c}
  BY <1>1
<1>3. CASE Claims(k) = {}
  <2>1. Cardinality(Claims(k)) = 0
    BY <1>3, FS_EmptySet
  <2> QED
    BY <2>1
<1>4. CASE Claims(k) = {c}
  <2>1. Cardinality(Claims(k)) = 1
    BY <1>4, FS_Singleton
  <2> QED
    BY <2>1
<1> QED
  BY <1>2, <1>3, <1>4

\* A table with an empty slot has room.
LEMMA HasRoom ==
  ASSUME HandleConstants, TypeOK, NEW s, NEW z, IsTable(s, z), NEW p \in 0..(z - 1), s[p] = NoCtx
  PROVE  FreeAt(s) # {}
<1>1. Cardinality(DOMAIN s) = z /\ DOMAIN s = 0..(z - 1) /\ z \in Nat \ {0}
  BY TableSize
<1>2. handle_index \in Int
  BY DEF TypeOK
<1>3. PICK k \in 0..(z - 1) : (k + handle_index) % z = p
  BY <1>1, <1>2, Reach
<1>4. ((k + handle_index) % HandleMod) % z = (k + handle_index) % z
  <2>1. HandleMod \in Nat \ {0} /\ HandleMod % z = 0 /\ k + handle_index \in Int
    BY <1>2 DEF HandleConstants, IsTable
  <2> QED
    BY <1>1, <2>1, ModMod
<1>5. s[Hash(Candidate(k), Cardinality(DOMAIN s))] = NoCtx
  BY <1>1, <1>3, <1>4 DEF Hash, Candidate
<1> QED
  BY <1>1, <1>5 DEF FreeAt

\* The table twice as large holds whom the old one held, and has room: slots 0 and slot_size
\* cannot both be claimed.
LEMMA GrownMoved ==
  ASSUME HandleConstants, OneCreator, TypeOK, PlacesRight, NEW t \in Callers, Idle(t),
         2 * slot_size <= HandleMod
  PROVE  Moved(Grown, 2 * slot_size) /\ FreeAt(Grown) # {}
<1>1. PICK z : z = slot_size
  OBVIOUS
<1>2. /\ IsTable(slot, z) /\ z \in Nat \ {0} /\ DOMAIN slot = 0..(z - 1) /\ z <= 2 * z
  <2>1. IsTable(slot, z) /\ z \in Nat \ {0} /\ DOMAIN slot = 0..(z - 1)
    BY <1>1, Table, TableSize
  <2> QED
    BY <2>1
<1>3. Moved(slot, z)
  BY <1>1, SlotMoved
<1>4. PICK g : g = Grown
  OBVIOUS
<1>5. \A k \in 0..(2 * z - 1) : g[k] = IF Claims(k) = {} THEN NoCtx ELSE CHOOSE c \in Claims(k) : TRUE
  BY <1>1, <1>4 DEF Grown
<1>6. ASSUME NEW k \in 0..(2 * z - 1)
      PROVE  /\ k % z \in 0..(z - 1) /\ g[k] \in Ctxs \cup {NoCtx}
             /\ g[k] = NoCtx <=> Claims(k) = {}
             /\ g[k] # NoCtx => g[k] \in Claims(k) /\ g[k] = slot[k % z] /\ handle[g[k]] % (2 * z) = k
  <2>1. k % z \in 0..(z - 1) /\ Claims(k) \subseteq {slot[k % z]}
    BY <1>1, ClaimsRight
  <2>2. \A c \in Claims(k) : c \in Ctxs /\ c # NoCtx /\ handle[c] % (2 * z) = k
    BY <1>1 DEF Claims, Hash, Ctxs, NoCtx
  <2>3. CASE Claims(k) = {}
    BY <1>5, <2>1, <2>3
  <2>4. CASE Claims(k) # {}
    <3>1. g[k] \in Claims(k)
      BY <1>5, <2>4
    <3> QED
      BY <2>1, <2>2, <2>4, <3>1
  <2> QED
    BY <2>3, <2>4
<1>7. IsTable(g, 2 * z)
  <2>1. g \in [0..(2 * z - 1) -> Ctxs \cup {NoCtx}]
    <3>1. g = [k \in 0..(2 * z - 1) |-> g[k]]
      BY <1>1, <1>4 DEF Grown
    <3> QED
      BY <1>6, <3>1
  <2>2. 2 * z \in 1..HandleMod /\ InitSize <= 2 * z
    BY <1>1, <1>2 DEF HandleConstants, IsTable
  <2>3. HandleMod % (2 * z) = 0
    BY <1>1, <1>2 DEF HandleConstants, IsTable
  <2> QED
    BY <2>1, <2>2, <2>3 DEF IsTable
<1>8. ASSUME NEW k \in 0..(2 * z - 1), g[k] # NoCtx
      PROVE  /\ g[k] <= created /\ Hash(handle[g[k]], 2 * z) = k
             /\ k < z => slot[k] = g[k]
             /\ \E j \in 0..(z - 1) : j <= k /\ slot[j] = g[k]
  <2>1. k % z \in 0..(z - 1) /\ g[k] = slot[k % z] /\ handle[g[k]] % (2 * z) = k
    BY <1>6, <1>8
  <2>2. g[k] <= created
    BY <1>3, <1>8, <2>1 DEF Moved
  <2>3. k < z => k % z = k
    <3> SUFFICES ASSUME k < z PROVE k % z = k
      OBVIOUS
    <3>1. k \in 0..(z - 1) /\ k = z * 0 + k /\ k \in Int
      BY <1>2
    <3> QED
      BY <1>2, <3>1, ModUnique
  <2>4. k % z <= k
    <3>1. k \in Int /\ k >= 0 /\ (k < z \/ k >= z)
      BY <1>2
    <3>2. k % z < z /\ k % z \in Int
      BY <1>2, <2>1
    <3> QED
      BY <1>2, <2>3, <3>1, <3>2
  <2> QED
    BY <2>1, <2>2, <2>3, <2>4 DEF Hash
<1>9. ASSUME NEW c \in Ctxs, InTable(c) PROVE \E k \in 0..(2 * z - 1) : g[k] = c
  <2>1. PICK k : k = handle[c] % (2 * z)
    OBVIOUS
  <2>2. k \in 0..(2 * z - 1)
    <3>1. handle[c] \in Int /\ 2 * z \in Nat \ {0}
      BY <1>2 DEF TypeOK, Handles
    <3> QED
      BY <2>1, <3>1, DivMod
  <2>3. c \in Claims(k)
    BY <1>1, <1>9, <2>1 DEF Claims, Hash, InTable
  <2>4. g[k] \in Claims(k) /\ g[k] = slot[k % z] /\ Claims(k) \subseteq {slot[k % z]}
    <3>1. Claims(k) \subseteq {slot[k % z]}
      BY <1>1, <2>2, ClaimsRight
    <3> QED
      BY <1>6, <2>2, <2>3, <3>1
  <2> QED
    BY <2>2, <2>3, <2>4
<1>10. \E p \in 0..(2 * z - 1) : g[p] = NoCtx
  <2>1. 0 \in 0..(2 * z - 1) /\ z \in 0..(2 * z - 1) /\ z # 0
    BY <1>2
  <2>2. 0 % z = 0 /\ z % z = 0
    <3>1. 0 = z * 0 + 0 /\ z = z * 1 + 0 /\ 0 \in 0..(z - 1)
      BY <1>2
    <3>2. 0 % z = 0
      BY <1>2, <3>1, ModUnique
    <3>3. z % z = 0
      BY <1>2, <3>1, ModUnique
    <3> QED
      BY <3>2, <3>3
  <2>3. g[0] # NoCtx => g[0] = slot[0] /\ handle[g[0]] % (2 * z) = 0
    BY <1>6, <2>1, <2>2
  <2>4. g[z] # NoCtx => g[z] = slot[0] /\ handle[g[z]] % (2 * z) = z
    BY <1>6, <2>1, <2>2
  <2>5. g[0] = NoCtx \/ g[z] = NoCtx
    BY <2>1, <2>3, <2>4
  <2> QED
    BY <2>1, <2>5
<1>11. FreeAt(g) # {}
  BY <1>7, <1>10, HasRoom
<1>12. Moved(g, 2 * z)
  <2>1. slot_size <= 2 * z /\ \A c \in Ctxs : InTable(c) => \E k \in 0..(2 * z - 1) : g[k] = c
    BY <1>1, <1>2, <1>9
  <2>2. \A k \in 0..(2 * z - 1) : g[k] # NoCtx =>
       /\ g[k] <= created /\ Hash(handle[g[k]], 2 * z) = k
       /\ k < slot_size => slot[k] = g[k]
       /\ \E j \in 0..(slot_size - 1) : j <= k /\ slot[j] = g[k]
    BY <1>1, <1>8
  <2> QED
    BY <1>7, <2>1, <2>2 DEF Moved
<1> QED
  BY <1>1, <1>4, <1>11, <1>12

-----------------------------------------------------------------------------
(* Register.                                                               *)

\* What PlaceIn does: the context created + 1 is put in slot p with handle h.
Places(t, s, z, p, h) ==
  /\ p \in 0..(z - 1) /\ s[p] = NoCtx /\ h \in Handles /\ p = Hash(h, z)
  /\ slot' = [s EXCEPT ![p] = created + 1]
  /\ handle_index' = h + 1
  /\ laps' \in Nat /\ (laps' = 0 => laps = 0 /\ h >= handle_index)
  /\ created' = created + 1
  /\ st' = [st EXCEPT ![created + 1] = "registered"]
  /\ pend' = [pend EXCEPT ![t] = <<created + 1, h>>]
  /\ pc' = [pc EXCEPT ![t] = "assign"]
  /\ UNCHANGED <<handle, abort>>

\* The first free handle of PlaceIn exists, and only grows on the first lap.
LEMMA Placed ==
  ASSUME HandleConstants, TypeOK, NEW t, NEW s, NEW z, IsTable(s, z), FreeAt(s) # {},
         PlaceIn(t, s)
  PROVE  \E p, h : Places(t, s, z, p, h)
<1>1. Cardinality(DOMAIN s) = z /\ DOMAIN s = 0..(z - 1) /\ z \in Nat \ {0}
  BY TableSize
<1>2. handle_index \in 1..HandleMod /\ laps \in Nat /\ HandleMod \in Nat \ {0} /\ HandleMod % z = 0
  BY DEF TypeOK, HandleConstants, IsTable
<1>3. FreeAt(s) \subseteq Nat /\ FreeAt(s) \subseteq 0..(z - 1)
  BY <1>1 DEF FreeAt
<1>4. PICK k : k = CHOOSE m \in FreeAt(s) : \A j \in FreeAt(s) : m <= j
  OBVIOUS
<1>5. k \in FreeAt(s)
  <2>1. \E m \in FreeAt(s) : \A j \in FreeAt(s) : m <= j
    BY <1>3, LeastNat
  <2> QED
    BY <1>4, <2>1
<1>6. PICK h : h = Candidate(k)
  OBVIOUS
<1>7. k \in 0..(z - 1) /\ s[Hash(h, z)] = NoCtx
  BY <1>1, <1>3, <1>5, <1>6 DEF FreeAt
<1> DEFINE sum == k + handle_index
<1>8. sum \in Nat /\ sum >= handle_index
  BY <1>1, <1>2, <1>7
<1>9. h = sum % HandleMod
  BY <1>6 DEF Candidate
<1> HIDE DEF sum
<1>10. h \in 0..(HandleMod - 1) /\ sum \div HandleMod \in Int /\ sum = HandleMod * (sum \div HandleMod) + h
  <2>1. sum \in Int /\ HandleMod \in Nat \ {0}
    BY <1>2, <1>8
  <2>2. /\ sum % HandleMod \in 0..(HandleMod - 1) /\ sum \div HandleMod \in Int
        /\ sum = HandleMod * (sum \div HandleMod) + (sum % HandleMod)
    BY <2>1, DivMod
  <2> QED
    BY <1>9, <2>2
<1>11. h \in Handles /\ h \in Int
  BY <1>2, <1>10 DEF Handles
<1>12. Hash(h, z) \in 0..(z - 1)
  BY <1>1, <1>11, DivMod DEF Hash
<1>13. sum \div HandleMod \in Nat
  <2> DEFINE q == sum \div HandleMod
  <2>1. q \in Int /\ sum = HandleMod * q + h /\ h < HandleMod
    BY <1>2, <1>10
  <2> HIDE DEF q
  <2>2. q < 0 => HandleMod * q <= -HandleMod
    <3>1. q < 0 => q + 1 <= 0
      BY <2>1
    <3>2. q + 1 <= 0 => HandleMod * (q + 1) <= 0
      BY <1>2, <2>1
    <3>3. HandleMod * (q + 1) = HandleMod * q + HandleMod /\ HandleMod * q \in Int
      BY <1>2, <2>1
    <3> QED
      BY <1>2, <2>1, <3>1, <3>2, <3>3
  <2>3. HandleMod * q \in Int
    BY <1>2, <2>1
  <2>4. q >= 0
    BY <1>2, <1>8, <1>11, <2>1, <2>2, <2>3
  <2> QED
    BY <2>1, <2>4 DEF q
<1>14. laps' = laps + sum \div HandleMod
  BY <1>4 DEF PlaceIn, sum
<1>15. laps' \in Nat /\ (laps' = 0 => laps = 0 /\ sum \div HandleMod = 0)
  BY <1>2, <1>13, <1>14
<1>16. laps' = 0 => laps = 0 /\ h >= handle_index
  <2>1. laps' = 0 => sum = HandleMod * 0 + h
    BY <1>10, <1>15
  <2>2. HandleMod * 0 + h = h
    BY <1>2, <1>11
  <2> QED
    BY <1>8, <1>15, <2>1, <2>2
<1>17. /\ slot' = [s EXCEPT ![Hash(h, z)] = created + 1]
       /\ handle_index' = h + 1
       /\ created' = created + 1
       /\ st' = [st EXCEPT ![created + 1] = "registered"]
       /\ pend' = [pend EXCEPT ![t] = <<created + 1, h>>]
       /\ pc' = [pc EXCEPT ![t] = "assign"]
       /\ UNCHANGED <<handle, abort>>
  BY Zenon, <1>1, <1>4, <1>6 DEF PlaceIn, NextIndex
<1> QED
  BY <1>7, <1>11, <1>12, <1>15, <1>16, <1>17 DEF Places

\* The state a registration leaves, for the tables of both cases.
LEMMA PlaceKeeps ==
  ASSUME HandleConstants, OneCreator, IInv, NEW t \in Callers, Idle(t),
         UNCHANGED <<name, ops, i, n, todo>>,
         NEW s, NEW z, Moved(s, z), FreeAt(s) # {}, PlaceIn(t, s)
  PROVE  IInv'
<1>1. TypeOK /\ PlacesRight /\ FirstLap /\ PassRight /\ NamesSorted /\ abort # "rehash"
  BY DEF IInv
<1>2. /\ IsTable(s, z) /\ DOMAIN s = 0..(z - 1) /\ z \in Nat \ {0}
      /\ \A k \in 0..(z - 1) : s[k] \in Ctxs \cup {NoCtx}
  BY TableSize DEF Moved
<1>3. PICK p, h : Places(t, s, z, p, h)
  BY <1>1, <1>2, Placed
<1>4. PICK c : c = created + 1
  OBVIOUS
<1>5. c \in Ctxs /\ c \in Nat /\ created \in Nat /\ c > created /\ c # NoCtx /\ c > 0
  BY <1>1, <1>4 DEF TypeOK, HandleConstants, Ctxs, Idle, NoCtx
<1>6. \A u \in Callers : ~Assigning(u)
  BY <1>1, NobodyAssigns
<1>7. /\ p \in 0..(z - 1) /\ s[p] = NoCtx /\ h \in Handles /\ p = Hash(h, z)
      /\ slot' = [s EXCEPT ![p] = c]
      /\ handle_index' = h + 1
      /\ laps' \in Nat /\ (laps' = 0 => laps = 0 /\ h >= handle_index)
      /\ created' = c
      /\ st' = [st EXCEPT ![c] = "registered"]
      /\ pend' = [pend EXCEPT ![t] = <<c, h>>]
      /\ pc' = [pc EXCEPT ![t] = "assign"]
      /\ handle' = handle /\ abort' = abort
  BY <1>3, <1>4 DEF Places
<1>8. IsTable(slot', z) /\ slot_size' = z /\ DOMAIN slot' = 0..(z - 1)
  <2>1. slot' \in [0..(z - 1) -> Ctxs \cup {NoCtx}] /\ DOMAIN slot' = 0..(z - 1)
    BY <1>2, <1>5, <1>7 DEF IsTable
  <2>2. IsTable(slot', z)
    BY <1>2, <2>1 DEF IsTable
  <2> QED
    BY <2>1, <2>2, TablePrimed
<1>9. slot'[p] = c /\ \A k \in 0..(z - 1) : k # p => slot'[k] = s[k]
  BY <1>2, <1>7
<1>10. slot_size \in Nat \ {0} /\ DOMAIN slot = 0..(slot_size - 1) /\ slot_size <= z
  BY <1>1, Table, TableSize DEF Moved
<1>11. pend'[t] = <<c, h>> /\ pc'[t] = "assign" /\ \A u \in Callers : u # t => pend'[u] = pend[u] /\ pc'[u] = pc[u]
  BY <1>1, <1>7 DEF TypeOK
<1>12. \A u \in Callers : Assigning(u)' => u = t
  BY <1>6, <1>11 DEF Assigning
<1>13. handle[c] = 0 /\ st[c] = "none" /\ \A d \in Ctxs : d # c => st'[d] = st[d]
  BY <1>1, <1>5, <1>7 DEF PlacesRight, TypeOK
<1>14. st'[c] = "registered"
  BY <1>1, <1>5, <1>7 DEF TypeOK
<1>15. \A k \in 0..(z - 1) : s[k] # NoCtx => s[k] <= created /\ s[k] # c /\ Hash(handle[s[k]], z) = k
  <2>1. \A k \in 0..(z - 1) : s[k] # NoCtx => s[k] <= created /\ Hash(handle[s[k]], z) = k
    BY DEF Moved
  <2>2. \A k \in 0..(z - 1) : s[k] <= created => s[k] # c
    BY <1>2, <1>5 DEF Ctxs, NoCtx
  <2> QED
    BY <2>1, <2>2
<1>16. TypeOK'
  <2>1. \E size \in 1..HandleMod :
           /\ InitSize <= size /\ HandleMod % size = 0
           /\ slot' \in [0..(size - 1) -> Ctxs \cup {NoCtx}]
    BY <1>8 DEF IsTable
  <2>2. handle_index' \in 1..HandleMod
    BY <1>7 DEF Handles, HandleConstants
  <2>3. created' \in 0..MaxCtx
    BY <1>5, <1>7 DEF Ctxs, HandleConstants
  <2>4. st' \in [Ctxs -> {"none", "registered", "live", "retired"}]
    BY <1>1, <1>7 DEF TypeOK
  <2>5. pc' \in [Callers -> {"idle", "assign", "scan", "retire"}]
    BY <1>1, <1>7 DEF TypeOK
  <2>6. pend' \in [Callers -> (Ctxs \cup {NoCtx}) \X Handles]
    <3>1. <<c, h>> \in (Ctxs \cup {NoCtx}) \X Handles
      BY <1>5, <1>7
    <3>2. pend \in [Callers -> (Ctxs \cup {NoCtx}) \X Handles]
      BY <1>1 DEF TypeOK
    <3> HIDE DEF Handles, Ctxs
    <3> QED
      BY <1>7, <3>1, <3>2
  <2>7. /\ name' \in Seq(Entry) /\ handle' \in [Ctxs -> Handles] /\ ops' \in 0..MaxOps
        /\ abort' \in {"no", "full", "rehash"}
        /\ i' \in [Callers -> Nat] /\ n' \in [Callers -> Nat] /\ todo' \in [Callers -> SUBSET Ctxs]
    BY <1>1, <1>7 DEF TypeOK
  <2> QED
    BY <1>7, <2>1, <2>2, <2>3, <2>4, <2>5, <2>6, <2>7 DEF TypeOK
<1>17. PlacesRight'
  <2>1. ASSUME NEW u \in Callers, Assigning(u)'
        PROVE  /\ u \in Creators /\ created' > 0 /\ pend'[u][1] = created'
               /\ handle'[created'] = 0 /\ st'[created'] \in {"registered", "retired"}
               /\ \A k \in DOMAIN slot' : slot'[k] = created' => k = Hash(pend'[u][2], slot_size')
    <3>1. u = t /\ t \in Creators /\ pend'[u] = <<c, h>>
      BY <1>11, <1>12, <2>1 DEF Idle
    <3>2. \A k \in 0..(z - 1) : slot'[k] = c => k = Hash(h, z)
      BY <1>5, <1>7, <1>9, <1>15
    <3> QED
      BY <1>5, <1>7, <1>8, <1>13, <1>14, <3>1, <3>2
  <2>2. ASSUME NEW k \in DOMAIN slot', slot'[k] # NoCtx
        PROVE  /\ slot'[k] <= created'
               /\ \/ Hash(handle'[slot'[k]], slot_size') = k
                  \/ slot'[k] = created' /\ \E u \in Creators : Assigning(u)'
    <3>1. CASE k = p
      <4>1. t \in Creators /\ Assigning(t)'
        BY <1>11 DEF Idle, Assigning
      <4> QED
        BY <1>5, <1>7, <1>9, <3>1, <4>1
    <3>2. CASE k # p
      <4>1. slot'[k] = s[k] /\ k \in 0..(z - 1)
        BY <1>8, <1>9, <3>2
      <4>2. s[k] <= created /\ Hash(handle[s[k]], z) = k /\ s[k] \in Int
        BY <1>2, <1>15, <2>2, <4>1 DEF Ctxs, NoCtx
      <4> QED
        BY <1>5, <1>7, <1>8, <4>1, <4>2
    <3> QED
      BY <3>1, <3>2
  <2>3. ASSUME NEW d \in Ctxs, d > created' PROVE handle'[d] = 0 /\ st'[d] = "none"
    <3>1. d > created /\ d # c
      BY <1>5, <1>7, <2>3 DEF Ctxs
    <3> QED
      BY <1>1, <1>7, <1>13, <3>1 DEF PlacesRight
  <2> QED
    BY <2>1, <2>2, <2>3 DEF PlacesRight, Assigning
<1>18. FirstLap'
  <2> SUFFICES ASSUME laps' = 0
               PROVE  /\ NoReuseBeforeWrap'
                      /\ \A d \in Ctxs : /\ handle'[d] < handle_index'
                                         /\ st'[d] \in {"live", "retired"} => handle'[d] # 0
                                         /\ st'[d] \in {"live", "registered"} => InTable(d)'
                      /\ \A u \in Callers : Assigning(u)' =>
                           /\ pend'[u][2] < handle_index' /\ st'[created'] = "registered"
                           /\ \A d \in Ctxs : handle'[d] < pend'[u][2]
    BY DEF FirstLap
  <2>1. laps = 0 /\ h >= handle_index /\ handle_index \in Nat /\ h \in Nat
    BY <1>1, <1>7 DEF TypeOK, Handles
  <2>2. /\ NoReuseBeforeWrap
        /\ \A d \in Ctxs : /\ handle[d] < handle_index
                           /\ st[d] \in {"live", "retired"} => handle[d] # 0
                           /\ st[d] \in {"live", "registered"} => InTable(d)
    BY <1>1, <2>1 DEF FirstLap
  <2>3. \A d \in Ctxs : handle[d] \in Nat /\ handle[d] < h /\ handle[d] < h + 1
    <3>1. \A d \in Ctxs : handle[d] \in Nat
      BY <1>1 DEF TypeOK, Handles
    <3> QED
      BY <2>1, <2>2, <3>1
  <2>4. NoReuseBeforeWrap'
    BY <1>7, <2>1, <2>2 DEF NoReuseBeforeWrap
  <2>5. ASSUME NEW d \in Ctxs, st'[d] \in {"live", "registered"} PROVE InTable(d)'
    <3>1. CASE d = c
      BY <1>7, <1>8, <1>9, <3>1 DEF InTable
    <3>2. CASE d # c
      <4>1. InTable(d)
        BY <1>13, <2>2, <2>5, <3>2
      <4>2. PICK k \in 0..(z - 1) : s[k] = d
        BY <4>1 DEF Moved
      <4>3. k # p
        BY <1>7, <4>2 DEF Ctxs, NoCtx
      <4> QED
        BY <1>8, <1>9, <4>2, <4>3 DEF InTable
    <3> QED
      BY <3>1, <3>2
  <2>6. ASSUME NEW d \in Ctxs, st'[d] \in {"live", "retired"} PROVE handle'[d] # 0
    <3>1. d # c
      BY <1>14, <2>6
    <3> QED
      BY <1>7, <1>13, <2>2, <2>6, <3>1
  <2>7. ASSUME NEW u \in Callers, Assigning(u)'
        PROVE  /\ pend'[u][2] < handle_index' /\ st'[created'] = "registered"
               /\ \A d \in Ctxs : handle'[d] < pend'[u][2]
    <3>1. pend'[u] = <<c, h>>
      BY <1>11, <1>12, <2>7
    <3> QED
      BY <1>7, <1>14, <2>1, <2>3, <3>1
  <2> QED
    BY <1>7, <2>3, <2>4, <2>5, <2>6, <2>7
<1>19. PassRight'
  <2> SUFFICES ASSUME NEW u \in Callers, pc'[u] \in {"scan", "retire"}
               PROVE  /\ \A d \in todo'[u] : handle'[d] # 0
                      /\ n'[u] = 0 => \A k \in DOMAIN slot' : slot'[k] \in todo'[u] => k >= i'[u]
                      /\ pc'[u] = "retire" =>
                           /\ pend'[u][2] # 0 /\ i'[u] \in DOMAIN slot'
                           /\ slot'[i'[u]] \in todo'[u] => handle'[slot'[i'[u]]] = pend'[u][2]
    BY DEF PassRight
  <2>1. u # t /\ pc[u] = pc'[u] /\ pend'[u] = pend[u]
    BY <1>11
  <2>2. /\ \A d \in todo[u] : handle[d] # 0
        /\ n[u] = 0 => \A k \in DOMAIN slot : slot[k] \in todo[u] => k >= i[u]
        /\ pc[u] = "retire" =>
             /\ pend[u][2] # 0 /\ i[u] \in DOMAIN slot
             /\ slot[i[u]] \in todo[u] => handle[slot[i[u]]] = pend[u][2]
    BY <1>1, <2>1 DEF PassRight
  <2>3. c \notin todo[u] /\ NoCtx \notin todo[u] /\ i[u] \in Nat
    BY <1>1, <1>13, <2>2 DEF TypeOK, Ctxs, NoCtx
  <2>4. ASSUME NEW k \in 0..(z - 1), slot'[k] \in todo[u]
        PROVE  /\ k < slot_size => slot[k] = slot'[k]
               /\ \E j \in 0..(slot_size - 1) : j <= k /\ slot[j] = slot'[k]
    <3>1. slot'[k] = s[k] /\ s[k] # NoCtx
      BY <1>9, <2>3, <2>4
    <3> QED
      BY <3>1 DEF Moved
  <2>5. n[u] = 0 => \A k \in 0..(z - 1) : slot'[k] \in todo[u] => k >= i[u]
    <3> SUFFICES ASSUME n[u] = 0, NEW k \in 0..(z - 1), slot'[k] \in todo[u] PROVE k >= i[u]
      OBVIOUS
    <3>1. PICK j \in 0..(slot_size - 1) : j <= k /\ slot[j] = slot'[k]
      BY <2>4
    <3>2. j >= i[u]
      BY <1>10, <2>2, <3>1
    <3> QED
      BY <1>10, <2>3, <3>1, <3>2
  <2>6. pc[u] = "retire" => i[u] \in 0..(z - 1) /\ i[u] < slot_size
    BY <1>2, <1>10, <2>2, <2>3
  <2>7. pc[u] = "retire" => (slot'[i[u]] \in todo[u] => handle[slot'[i[u]]] = pend[u][2])
    BY <2>2, <2>4, <2>6
  <2> QED
    BY <1>7, <1>8, <2>1, <2>2, <2>5, <2>6, <2>7
<1>20. NamesSorted'
  BY <1>1 DEF NamesSorted
<1> QED
  BY <1>1, <1>7, <1>16, <1>17, <1>18, <1>19, <1>20 DEF IInv

\* skynet_handle_register finds a free slot.
LEMMA StepRegister ==
  ASSUME HandleConstants, OneCreator, IInv, NEW t \in Callers, Register(t)
  PROVE  IInv'
<1>1. Idle(t) /\ FreeAt(slot) # {} /\ PlaceIn(t, slot) /\ UNCHANGED <<name, ops, i, n, todo>>
  BY DEF Register, BeforeRegister, Idle
<1>2. Moved(slot, slot_size)
  BY <1>1, SlotMoved DEF IInv
<1> QED
  BY <1>1, <1>2, PlaceKeeps

\* It doubles the table.
LEMMA StepRegisterGrow ==
  ASSUME HandleConstants, OneCreator, IInv, NEW t \in Callers, RegisterGrow(t)
  PROVE  IInv'
<1>1. /\ Idle(t) /\ 2 * slot_size <= HandleMod /\ UNCHANGED <<name, ops, i, n, todo>>
      /\ IF \E k \in 0..(2 * slot_size - 1) : Cardinality(Claims(k)) > 1
         THEN Crash("rehash")
         ELSE PlaceIn(t, Grown)
  BY DEF RegisterGrow, BeforeRegister, Idle
<1>2. ~\E k \in 0..(2 * slot_size - 1) : Cardinality(Claims(k)) > 1
  BY <1>1, NoRehash DEF IInv
<1>3. Moved(Grown, 2 * slot_size) /\ FreeAt(Grown) # {}
  BY <1>1, GrownMoved DEF IInv
<1> QED
  BY <1>1, <1>2, <1>3, PlaceKeeps

-----------------------------------------------------------------------------
(* Assign and retire.                                                      *)

\* assert((s->slot_size*2 - 1) <= HANDLE_MASK) ends the process.
LEMMA FullEnds ==
  ASSUME IInv, NEW t \in Callers, RegisterFull(t)
  PROVE  IInv'
<1>1. /\ abort' = "full" /\ slot' = slot /\ handle_index' = handle_index /\ laps' = laps
      /\ created' = created /\ st' = st /\ pend' = pend /\ pc' = pc /\ handle' = handle
      /\ name' = name /\ ops' = ops /\ i' = i /\ n' = n /\ todo' = todo
  BY DEF RegisterFull, BeforeRegister, Crash
<1>2. TypeOK /\ PlacesRight /\ FirstLap /\ PassRight /\ NamesSorted
  BY DEF IInv
<1>3. TypeOK'
  BY <1>1, <1>2 DEF TypeOK
<1>4. PlacesRight'
  BY <1>1, <1>2 DEF PlacesRight, Assigning, slot_size
<1>5. FirstLap'
  BY <1>1, <1>2 DEF FirstLap, Assigning, NoReuseBeforeWrap, InTable
<1>6. PassRight'
  BY <1>1, <1>2 DEF PassRight
<1>7. NamesSorted'
  BY <1>1, <1>2 DEF NamesSorted
<1> QED
  BY <1>1, <1>3, <1>4, <1>5, <1>6, <1>7 DEF IInv

\* skynet_context_new stores the handle.
LEMMA StepAssign ==
  ASSUME HandleConstants, OneCreator, IInv, NEW t \in Callers, Assign(t)
  PROVE  IInv'
<1>1. TypeOK /\ PlacesRight /\ FirstLap /\ PassRight /\ NamesSorted /\ abort # "rehash"
  BY DEF IInv
<1>2. Assigning(t)
  BY DEF Assign, Assigning
<1>3. PICK c, h : c = pend[t][1] /\ h = pend[t][2]
  OBVIOUS
<1>4. /\ t \in Creators /\ created > 0 /\ c = created
      /\ handle[created] = 0 /\ st[created] \in {"registered", "retired"}
      /\ \A k \in DOMAIN slot : slot[k] = created => k = Hash(h, slot_size)
  BY <1>1, <1>2, <1>3 DEF PlacesRight
<1>5. c \in Ctxs /\ h \in Handles
  <2>1. pend[t] \in (Ctxs \cup {NoCtx}) \X Handles
    BY <1>1 DEF TypeOK
  <2>2. c # NoCtx
    BY <1>4 DEF NoCtx
  <2> QED
    BY <1>3, <2>1, <2>2
<1>6. /\ handle' = [handle EXCEPT ![c] = h]
      /\ st' = [st EXCEPT ![c] = "live"]
      /\ pc' = [pc EXCEPT ![t] = "idle"]
      /\ pend' = [pend EXCEPT ![t] = <<NoCtx, 0>>]
      /\ slot' = slot /\ handle_index' = handle_index /\ created' = created /\ abort' = abort
      /\ laps' = laps /\ name' = name /\ ops' = ops /\ i' = i /\ n' = n /\ todo' = todo
  BY <1>3 DEF Assign
<1>7. /\ handle'[c] = h /\ \A d \in Ctxs : d # c => handle'[d] = handle[d]
      /\ st'[c] = "live" /\ \A d \in Ctxs : d # c => st'[d] = st[d]
      /\ pc'[t] = "idle" /\ \A u \in Callers : u # t => pc'[u] = pc[u] /\ pend'[u] = pend[u]
  BY <1>1, <1>5, <1>6 DEF TypeOK
<1>8. \A u \in Callers : u \notin Creators \/ ~Assigning(u)'
  BY <1>4, <1>7 DEF OneCreator, Assigning
<1>9. \A u \in Callers : ~Assigning(u)'
  BY <1>1, <1>7, <1>8 DEF PlacesRight, Assigning
<1>10. TypeOK'
  <2>1. handle' \in [Ctxs -> Handles] /\ st' \in [Ctxs -> {"none", "registered", "live", "retired"}]
    BY <1>1, <1>5, <1>6 DEF TypeOK
  <2>2. pc' \in [Callers -> {"idle", "assign", "scan", "retire"}]
    BY <1>1, <1>6 DEF TypeOK
  <2>3. pend' \in [Callers -> (Ctxs \cup {NoCtx}) \X Handles]
    <3>1. <<NoCtx, 0>> \in (Ctxs \cup {NoCtx}) \X Handles
      BY DEF Handles, HandleConstants
    <3>2. pend \in [Callers -> (Ctxs \cup {NoCtx}) \X Handles]
      BY <1>1 DEF TypeOK
    <3> HIDE DEF Handles, Ctxs
    <3> QED
      BY <1>6, <3>1, <3>2
  <2>4. /\ \E size \in 1..HandleMod :
              /\ InitSize <= size /\ HandleMod % size = 0
              /\ slot' \in [0..(size - 1) -> Ctxs \cup {NoCtx}]
        /\ handle_index' \in 1..HandleMod /\ name' \in Seq(Entry)
        /\ created' \in 0..MaxCtx /\ ops' \in 0..MaxOps /\ laps' \in Nat
        /\ abort' \in {"no", "full", "rehash"}
        /\ i' \in [Callers -> Nat] /\ n' \in [Callers -> Nat] /\ todo' \in [Callers -> SUBSET Ctxs]
    BY <1>1, <1>6 DEF TypeOK
  <2> QED
    BY <2>1, <2>2, <2>3, <2>4 DEF TypeOK
<1>11. PlacesRight'
  <2>1. ASSUME NEW k \in DOMAIN slot, slot[k] # NoCtx
        PROVE  slot[k] <= created /\ Hash(handle'[slot[k]], slot_size) = k
    <3>1. /\ slot[k] <= created /\ slot[k] \in Ctxs
          /\ Hash(handle[slot[k]], slot_size) = k \/ slot[k] = created
      BY <1>1, <2>1, Table, TableSize DEF PlacesRight
    <3>2. CASE slot[k] = c
      BY <1>4, <1>7, <3>1, <3>2
    <3>3. CASE slot[k] # c
      BY <1>4, <1>7, <3>1, <3>3
    <3> QED
      BY <3>2, <3>3
  <2>2. slot_size' = slot_size
    BY <1>6 DEF slot_size
  <2>3. \A d \in Ctxs : d > created => handle'[d] = 0 /\ st'[d] = "none"
    <3>1. \A d \in Ctxs : d > created => d # c
      BY <1>4, <1>5 DEF Ctxs
    <3> QED
      BY <1>1, <1>7, <3>1 DEF PlacesRight
  <2> QED
    BY <1>6, <1>9, <2>1, <2>2, <2>3 DEF PlacesRight
<1>12. FirstLap'
  <2> SUFFICES ASSUME laps = 0
               PROVE  /\ NoReuseBeforeWrap'
                      /\ \A d \in Ctxs : /\ handle'[d] < handle_index
                                         /\ st'[d] \in {"live", "retired"} => handle'[d] # 0
                                         /\ st'[d] \in {"live", "registered"} => InTable(d)
    BY <1>6, <1>9 DEF FirstLap, InTable
  <2>1. /\ h < handle_index /\ st[c] = "registered"
        /\ \A d \in Ctxs : handle[d] < h
        /\ NoReuseBeforeWrap
        /\ \A d \in Ctxs : /\ handle[d] < handle_index
                           /\ st[d] \in {"live", "retired"} => handle[d] # 0
                           /\ st[d] \in {"live", "registered"} => InTable(d)
    BY <1>1, <1>2, <1>3, <1>4 DEF FirstLap
  <2>2. \A d \in Ctxs : handle[d] # h
    <3>1. \A d \in Ctxs : handle[d] \in Int
      BY <1>1 DEF TypeOK, Handles
    <3>2. h \in Int
      BY <1>5 DEF Handles
    <3> QED
      BY <2>1, <3>1, <3>2
  <2>3. h # 0
    BY <1>4, <1>5, <2>2
  <2>4. NoReuseBeforeWrap'
    <3> SUFFICES ASSUME NEW d \in Ctxs, NEW e \in Ctxs, d # e, handle'[d] # 0, handle'[e] # 0
                 PROVE  handle'[d] # handle'[e]
      BY DEF NoReuseBeforeWrap
    <3>1. \A x, y \in Ctxs : x # y /\ handle[x] # 0 /\ handle[y] # 0 => handle[x] # handle[y]
      BY <2>1 DEF NoReuseBeforeWrap
    <3> QED
      BY <1>7, <2>2, <3>1
  <2>5. \A d \in Ctxs : handle'[d] < handle_index
    BY <1>7, <2>1
  <2>6. ASSUME NEW d \in Ctxs
        PROVE  /\ st'[d] \in {"live", "retired"} => handle'[d] # 0
               /\ st'[d] \in {"live", "registered"} => InTable(d)
    <3>1. CASE d = c
      BY <1>7, <2>1, <2>3, <3>1
    <3>2. CASE d # c
      BY <1>7, <2>1, <3>2
    <3> QED
      BY <3>1, <3>2
  <2> QED
    BY <2>4, <2>5, <2>6
<1>13. PassRight'
  <2> SUFFICES ASSUME NEW u \in Callers, pc'[u] \in {"scan", "retire"}
               PROVE  /\ \A d \in todo[u] : handle'[d] # 0
                      /\ n[u] = 0 => \A k \in DOMAIN slot : slot[k] \in todo[u] => k >= i[u]
                      /\ pc'[u] = "retire" =>
                           /\ pend'[u][2] # 0 /\ i[u] \in DOMAIN slot
                           /\ slot[i[u]] \in todo[u] => handle'[slot[i[u]]] = pend'[u][2]
    BY <1>6 DEF PassRight
  <2>1. u # t /\ pc'[u] = pc[u] /\ pend'[u] = pend[u]
    BY <1>7
  <2>2. /\ \A d \in todo[u] : handle[d] # 0
        /\ n[u] = 0 => \A k \in DOMAIN slot : slot[k] \in todo[u] => k >= i[u]
        /\ pc[u] = "retire" =>
             /\ pend[u][2] # 0 /\ i[u] \in DOMAIN slot
             /\ slot[i[u]] \in todo[u] => handle[slot[i[u]]] = pend[u][2]
    BY <1>1, <2>1 DEF PassRight
  <2>3. \A d \in todo[u] : d \in Ctxs /\ d # c
    BY <1>1, <1>4, <2>2 DEF TypeOK
  <2>4. \A d \in todo[u] : handle'[d] = handle[d]
    BY <1>7, <2>3
  <2> QED
    BY <2>1, <2>2, <2>4
<1>14. NamesSorted'
  BY <1>1, <1>6 DEF NamesSorted
<1> QED
  BY <1>1, <1>6, <1>10, <1>11, <1>12, <1>13, <1>14 DEF IInv

\* The context found for a handle.
LEMMA Found ==
  ASSUME HandleConstants, TypeOK, NEW h \in Handles
  PROVE  /\ Hash(h, slot_size) \in DOMAIN slot
         /\ Lookup(h) # NoCtx => Lookup(h) = slot[Hash(h, slot_size)] /\ Lookup(h) \in Ctxs /\ handle[Lookup(h)] = h
<1>1. slot_size \in Nat \ {0} /\ DOMAIN slot = 0..(slot_size - 1) /\ \A k \in 0..(slot_size - 1) : slot[k] \in Ctxs \cup {NoCtx}
  BY Table, TableSize
<1>2. h \in Int
  BY DEF Handles
<1>3. Hash(h, slot_size) \in DOMAIN slot
  BY <1>1, <1>2, DivMod DEF Hash
<1> QED
  BY <1>1, <1>3 DEF Lookup

\* A context that has its handle is found under it.
LEMMA Meets ==
  ASSUME HandleConstants, TypeOK, PlacesRight, NEW k \in DOMAIN slot, slot[k] # NoCtx,
         handle[slot[k]] # 0
  PROVE  Lookup(handle[slot[k]]) = slot[k]
<1>1. Hash(handle[slot[k]], slot_size) = k
  BY DEF PlacesRight, Callers
<1> QED
  BY <1>1 DEF Lookup

\* skynet_handle_retire: what it leaves of the table and the names.
LEMMA RetireKeeps ==
  ASSUME HandleConstants, IInv, NEW h \in Handles, laps = 0 => h # 0,
         DoRetire(h), UNCHANGED <<handle_index, handle, created, abort, laps>>,
         \A u \in Callers : /\ Assigning(u)' <=> Assigning(u)
                            /\ Assigning(u) => pend'[u] = pend[u]
  PROVE  /\ \E size \in 1..HandleMod :
              /\ InitSize <= size /\ HandleMod % size = 0
              /\ slot' \in [0..(size - 1) -> Ctxs \cup {NoCtx}]
         /\ st' \in [Ctxs -> {"none", "registered", "live", "retired"}]
         /\ name' \in Seq(Entry) /\ NamesSorted'
         /\ PlacesRight' /\ FirstLap'
         /\ DOMAIN slot' = DOMAIN slot
         /\ \A k \in DOMAIN slot : slot'[k] = slot[k] \/ slot'[k] = NoCtx
<1>1. TypeOK /\ PlacesRight /\ FirstLap /\ NamesSorted
  BY DEF IInv
<1>2. IsTable(slot, slot_size) /\ slot_size \in Nat \ {0} /\ DOMAIN slot = 0..(slot_size - 1)
  BY <1>1, Table, TableSize
<1>3. CASE Lookup(h) = NoCtx
  <2>1. slot' = slot /\ st' = st /\ name' = name
    BY <1>3 DEF DoRetire
  <2>2. slot_size' = slot_size
    BY <2>1 DEF slot_size
  <2>3. PlacesRight'
    <3>1. \A u \in Callers : Assigning(u)' =>
             /\ u \in Creators /\ created > 0 /\ pend'[u][1] = created
             /\ handle[created] = 0 /\ st[created] \in {"registered", "retired"}
             /\ \A k \in DOMAIN slot : slot[k] = created => k = Hash(pend'[u][2], slot_size)
      BY <1>1 DEF PlacesRight
    <3>2. \A k \in DOMAIN slot : slot[k] # NoCtx =>
            /\ slot[k] <= created
            /\ \/ Hash(handle[slot[k]], slot_size) = k
               \/ slot[k] = created /\ \E u \in Creators : Assigning(u)'
      BY <1>1 DEF PlacesRight, Callers
    <3>3. \A c \in Ctxs : c > created => handle[c] = 0 /\ st[c] = "none"
      BY <1>1 DEF PlacesRight
    <3> QED
      BY <2>1, <2>2, <3>1, <3>2, <3>3 DEF PlacesRight
  <2>4. FirstLap'
    BY <1>1, <2>1 DEF FirstLap, NoReuseBeforeWrap, InTable
  <2>5. NamesSorted' /\ name' \in Seq(Entry) /\ st' \in [Ctxs -> {"none", "registered", "live", "retired"}]
    BY <1>1, <2>1 DEF NamesSorted, TypeOK
  <2>6. \E size \in 1..HandleMod :
              /\ InitSize <= size /\ HandleMod % size = 0
              /\ slot' \in [0..(size - 1) -> Ctxs \cup {NoCtx}]
    BY <1>1, <2>1 DEF TypeOK
  <2> QED
    BY <2>1, <2>3, <2>4, <2>5, <2>6
<1>4. CASE Lookup(h) # NoCtx
  <2>1. PICK c, p : c = Lookup(h) /\ p = Hash(h, slot_size)
    OBVIOUS
  <2>2. p \in DOMAIN slot /\ slot[p] = c /\ c \in Ctxs /\ handle[c] = h /\ c # NoCtx
    BY <1>1, <1>4, <2>1, Found
  <2>3. slot' = [slot EXCEPT ![p] = NoCtx] /\ st' = [st EXCEPT ![c] = "retired"] /\ name' = KeptNames(h)
    BY <1>4, <2>1 DEF DoRetire
  <2>4. /\ IsTable(slot', slot_size) /\ DOMAIN slot' = DOMAIN slot
        /\ slot'[p] = NoCtx /\ \A k \in DOMAIN slot : k # p => slot'[k] = slot[k]
    BY <1>2, <2>2, <2>3 DEF IsTable
  <2>5. slot_size' = slot_size
    BY <2>4, TablePrimed
  <2>6. st'[c] = "retired" /\ \A d \in Ctxs : d # c => st'[d] = st[d]
    BY <1>1, <2>2, <2>3 DEF TypeOK
  <2>7. st' \in [Ctxs -> {"none", "registered", "live", "retired"}]
    BY <1>1, <2>3 DEF TypeOK
  <2>8. name' \in Seq(Entry) /\ NamesSorted'
    <3>1. Ordered(KeptNames(h))
      BY <1>1, KeptOrdered
    <3>2. PICK s : s = KeptNames(h)
      OBVIOUS
    <3>3. s \in Seq(Entry) /\ DOMAIN s = 1..Len(s) /\ \A j, k \in 1..Len(s) : j < k => s[j].name < s[k].name
      BY <3>1, <3>2 DEF Ordered
    <3> QED
      BY <2>3, <3>2, <3>3 DEF NamesSorted
  <2>9. PlacesRight'
    <3>1. ASSUME NEW u \in Callers, Assigning(u)'
          PROVE /\ u \in Creators /\ created > 0 /\ pend'[u][1] = created
                /\ handle[created] = 0 /\ st'[created] \in {"registered", "retired"}
                /\ \A k \in DOMAIN slot' : slot'[k] = created => k = Hash(pend'[u][2], slot_size)
      <4>1. Assigning(u) /\ pend'[u] = pend[u]
        BY <3>1
      <4>2. /\ u \in Creators /\ created > 0 /\ pend[u][1] = created
            /\ handle[created] = 0 /\ st[created] \in {"registered", "retired"}
            /\ \A k \in DOMAIN slot : slot[k] = created => k = Hash(pend[u][2], slot_size)
        BY <1>1, <4>1 DEF PlacesRight
      <4>3. created \in Ctxs /\ created # NoCtx
        BY <1>1, <4>2 DEF TypeOK, Ctxs, NoCtx, HandleConstants
      <4>4. st'[created] \in {"registered", "retired"}
        BY <2>6, <4>2, <4>3
      <4>5. \A k \in DOMAIN slot' : slot'[k] = created => slot[k] = created
        BY <2>4, <4>3
      <4> QED
        BY <2>4, <4>1, <4>2, <4>4, <4>5
    <3>2. ASSUME NEW k \in DOMAIN slot', slot'[k] # NoCtx
          PROVE  /\ slot'[k] <= created
                 /\ \/ Hash(handle[slot'[k]], slot_size) = k
                    \/ slot'[k] = created /\ \E u \in Creators : Assigning(u)'
      <4>1. k \in DOMAIN slot /\ slot'[k] = slot[k]
        BY <2>4, <3>2
      <4>2. /\ slot[k] <= created
            /\ \/ Hash(handle[slot[k]], slot_size) = k
               \/ slot[k] = created /\ \E u \in Creators : Assigning(u)
        BY <1>1, <3>2, <4>1 DEF PlacesRight
      <4> QED
        BY <4>1, <4>2 DEF Callers
    <3>3. ASSUME NEW d \in Ctxs, d > created PROVE handle[d] = 0 /\ st'[d] = "none"
      <4>1. c <= created /\ c \in Int /\ d \in Int /\ created \in Int
        BY <1>1, <2>2 DEF PlacesRight, Ctxs, TypeOK
      <4>2. d # c
        BY <3>3, <4>1
      <4> QED
        BY <1>1, <2>6, <3>3, <4>2 DEF PlacesRight
    <3> QED
      BY <2>5, <3>1, <3>2, <3>3 DEF PlacesRight
  <2>10. FirstLap'
    <3> SUFFICES ASSUME laps = 0
                 PROVE  /\ NoReuseBeforeWrap'
                        /\ \A d \in Ctxs : /\ handle[d] < handle_index
                                           /\ st'[d] \in {"live", "retired"} => handle[d] # 0
                                           /\ st'[d] \in {"live", "registered"} => InTable(d)'
                        /\ \A u \in Callers : Assigning(u)' =>
                             /\ pend'[u][2] < handle_index /\ st'[created] = "registered"
                             /\ \A d \in Ctxs : handle[d] < pend'[u][2]
      BY DEF FirstLap
    <3>1. /\ NoReuseBeforeWrap
          /\ \A d \in Ctxs : /\ handle[d] < handle_index
                             /\ st[d] \in {"live", "retired"} => handle[d] # 0
                             /\ st[d] \in {"live", "registered"} => InTable(d)
          /\ \A u \in Callers : Assigning(u) =>
               /\ pend[u][2] < handle_index /\ st[created] = "registered"
               /\ \A d \in Ctxs : handle[d] < pend[u][2]
      BY <1>1 DEF FirstLap
    <3>2. NoReuseBeforeWrap'
      BY <3>1 DEF NoReuseBeforeWrap
    <3>3. ASSUME NEW d \in Ctxs
          PROVE  /\ st'[d] \in {"live", "retired"} => handle[d] # 0
                 /\ st'[d] \in {"live", "registered"} => InTable(d)'
      <4>1. CASE d = c
        BY <2>2, <2>6, <4>1
      <4>2. CASE d # c
        <5>1. st'[d] = st[d]
          BY <2>6, <4>2
        <5>2. InTable(d) => InTable(d)'
          BY <2>2, <2>4, <4>2 DEF InTable
        <5> QED
          BY <3>1, <5>1, <5>2
      <4> QED
        BY <4>1, <4>2
    <3>4. ASSUME NEW u \in Callers, Assigning(u)'
          PROVE  /\ pend'[u][2] < handle_index /\ st'[created] = "registered"
                 /\ \A d \in Ctxs : handle[d] < pend'[u][2]
      <4>1. Assigning(u) /\ pend'[u] = pend[u]
        BY <3>4
      <4>2. handle[created] = 0 /\ created > 0
        BY <1>1, <4>1 DEF PlacesRight
      <4>3. created \in Ctxs /\ created # c
        BY <1>1, <2>2, <4>2 DEF TypeOK, Ctxs, HandleConstants
      <4> QED
        BY <2>6, <3>1, <4>1, <4>3
    <3> QED
      BY <3>1, <3>2, <3>3, <3>4
  <2>11. \E size \in 1..HandleMod :
              /\ InitSize <= size /\ HandleMod % size = 0
              /\ slot' \in [0..(size - 1) -> Ctxs \cup {NoCtx}]
    BY <2>4 DEF IsTable
  <2>12. \A k \in DOMAIN slot : slot'[k] = slot[k] \/ slot'[k] = NoCtx
    BY <2>4
  <2> QED
    BY <2>4, <2>7, <2>8, <2>9, <2>10, <2>11, <2>12
<1> QED
  BY <1>3, <1>4

\* What a retire leaves of a pass of somebody else.
LEMMA PassKept ==
  ASSUME TypeOK, PassRight, handle' = handle, DOMAIN slot' = DOMAIN slot,
         \A k \in DOMAIN slot : slot'[k] = slot[k] \/ slot'[k] = NoCtx,
         NEW u \in Callers, pc'[u] \in {"scan", "retire"}, pc'[u] = pc[u], pend'[u] = pend[u],
         i'[u] = i[u], n'[u] = n[u], todo'[u] = todo[u]
  PROVE  /\ \A c \in todo'[u] : handle'[c] # 0
         /\ n'[u] = 0 => \A k \in DOMAIN slot' : slot'[k] \in todo'[u] => k >= i'[u]
         /\ pc'[u] = "retire" =>
              /\ pend'[u][2] # 0 /\ i'[u] \in DOMAIN slot'
              /\ slot'[i'[u]] \in todo'[u] => handle'[slot'[i'[u]]] = pend'[u][2]
<1>1. /\ \A d \in todo[u] : handle[d] # 0
      /\ n[u] = 0 => \A k \in DOMAIN slot : slot[k] \in todo[u] => k >= i[u]
      /\ pc[u] = "retire" =>
           /\ pend[u][2] # 0 /\ i[u] \in DOMAIN slot
           /\ slot[i[u]] \in todo[u] => handle[slot[i[u]]] = pend[u][2]
  BY DEF PassRight
<1>2. NoCtx \notin todo[u]
  BY DEF TypeOK, Ctxs, NoCtx
<1>3. \A k \in DOMAIN slot : slot'[k] \in todo[u] => slot'[k] = slot[k]
  BY <1>2
<1> QED
  BY <1>1, <1>3

\* KILL and EXIT.
LEMMA StepRetire ==
  ASSUME HandleConstants, IInv, NEW t \in Callers, NEW c \in Ctxs, Retire(t, c)
  PROVE  IInv'
<1>1. TypeOK /\ PlacesRight /\ FirstLap /\ PassRight /\ abort # "rehash"
  BY DEF IInv
<1>2. /\ st[c] \in {"live", "retired"} /\ DoRetire(handle[c])
      /\ UNCHANGED <<handle_index, handle, created, abort, laps>>
      /\ ops' = ops /\ pc' = pc /\ pend' = pend /\ i' = i /\ n' = n /\ todo' = todo
  BY DEF Retire
<1>3. handle[c] \in Handles /\ (laps = 0 => handle[c] # 0)
  BY <1>1, <1>2 DEF TypeOK, FirstLap
<1>4. \A u \in Callers : /\ Assigning(u)' <=> Assigning(u)
                         /\ Assigning(u) => pend'[u] = pend[u]
  BY <1>2 DEF Assigning
<1>5. /\ \E size \in 1..HandleMod :
              /\ InitSize <= size /\ HandleMod % size = 0
              /\ slot' \in [0..(size - 1) -> Ctxs \cup {NoCtx}]
      /\ st' \in [Ctxs -> {"none", "registered", "live", "retired"}]
      /\ name' \in Seq(Entry) /\ NamesSorted'
      /\ PlacesRight' /\ FirstLap'
      /\ DOMAIN slot' = DOMAIN slot
      /\ \A k \in DOMAIN slot : slot'[k] = slot[k] \/ slot'[k] = NoCtx
  BY <1>2, <1>3, <1>4, RetireKeeps
<1>6. TypeOK'
  BY <1>1, <1>2, <1>5 DEF TypeOK
<1>7. PassRight'
  BY <1>1, <1>2, <1>5, PassKept DEF PassRight
<1> QED
  BY <1>1, <1>2, <1>5, <1>6, <1>7 DEF IInv

\* skynet_handle_retireall retires the handle it has read.
LEMMA StepScanRetire ==
  ASSUME HandleConstants, IInv, NEW t \in Callers, ScanRetire(t)
  PROVE  IInv'
<1>1. TypeOK /\ PlacesRight /\ FirstLap /\ PassRight /\ abort # "rehash"
  BY DEF IInv
<1>2. PICK h : h = pend[t][2]
  OBVIOUS
<1>3. /\ pc[t] = "retire" /\ DoRetire(h)
      /\ n' = [n EXCEPT ![t] = IF Lookup(h) # NoCtx THEN @ + 1 ELSE @]
      /\ i' = [i EXCEPT ![t] = @ + 1]
      /\ pc' = [pc EXCEPT ![t] = "scan"]
      /\ pend' = [pend EXCEPT ![t] = <<NoCtx, 0>>]
      /\ UNCHANGED <<handle_index, handle, created, abort, laps>>
      /\ ops' = ops /\ todo' = todo
  BY <1>2 DEF ScanRetire
<1>4. h \in Handles
  <2>1. pend[t] \in (Ctxs \cup {NoCtx}) \X Handles
    BY <1>1 DEF TypeOK
  <2> QED
    BY <1>2, <2>1
<1>5. /\ h # 0 /\ i[t] \in DOMAIN slot
      /\ slot[i[t]] \in todo[t] => handle[slot[i[t]]] = h
      /\ \A c \in todo[t] : handle[c] # 0
      /\ n[t] = 0 => \A k \in DOMAIN slot : slot[k] \in todo[t] => k >= i[t]
  BY <1>1, <1>2, <1>3 DEF PassRight
<1>6. /\ pc'[t] = "scan" /\ \A u \in Callers : u # t => pc'[u] = pc[u] /\ pend'[u] = pend[u]
      /\ \A u \in Callers : u # t => i'[u] = i[u] /\ n'[u] = n[u]
      /\ i'[t] = i[t] + 1 /\ n'[t] = IF Lookup(h) # NoCtx THEN n[t] + 1 ELSE n[t]
      /\ i[t] \in Nat /\ n[t] \in Nat
  BY <1>1, <1>3 DEF TypeOK
<1>7. \A u \in Callers : /\ Assigning(u)' <=> Assigning(u)
                         /\ Assigning(u) => pend'[u] = pend[u]
  <2> TAKE u \in Callers
  <2>1. CASE u = t
    BY <1>3, <1>6, <2>1 DEF Assigning
  <2>2. CASE u # t
    BY <1>6, <2>2 DEF Assigning
  <2> QED
    BY <2>1, <2>2
<1>8. /\ \E size \in 1..HandleMod :
              /\ InitSize <= size /\ HandleMod % size = 0
              /\ slot' \in [0..(size - 1) -> Ctxs \cup {NoCtx}]
      /\ st' \in [Ctxs -> {"none", "registered", "live", "retired"}]
      /\ name' \in Seq(Entry) /\ NamesSorted'
      /\ PlacesRight' /\ FirstLap'
      /\ DOMAIN slot' = DOMAIN slot
      /\ \A k \in DOMAIN slot : slot'[k] = slot[k] \/ slot'[k] = NoCtx
  BY <1>3, <1>4, <1>5, <1>7, RetireKeeps
<1>9. TypeOK'
  <2>1. pend' \in [Callers -> (Ctxs \cup {NoCtx}) \X Handles]
    <3>1. <<NoCtx, 0>> \in (Ctxs \cup {NoCtx}) \X Handles
      BY DEF Handles, HandleConstants
    <3>2. pend \in [Callers -> (Ctxs \cup {NoCtx}) \X Handles]
      BY <1>1 DEF TypeOK
    <3> HIDE DEF Handles, Ctxs
    <3> QED
      BY <1>3, <3>1, <3>2
  <2>2. pc' \in [Callers -> {"idle", "assign", "scan", "retire"}]
    BY <1>1, <1>3 DEF TypeOK
  <2>3. i' \in [Callers -> Nat] /\ n' \in [Callers -> Nat]
    <3>1. i \in [Callers -> Nat] /\ n \in [Callers -> Nat]
      BY <1>1 DEF TypeOK
    <3> QED
      BY <1>3, <3>1
  <2>4. /\ handle_index' \in 1..HandleMod /\ handle' \in [Ctxs -> Handles]
        /\ created' \in 0..MaxCtx /\ ops' \in 0..MaxOps /\ laps' \in Nat
        /\ abort' \in {"no", "full", "rehash"} /\ todo' \in [Callers -> SUBSET Ctxs]
    BY <1>1, <1>3 DEF TypeOK
  <2> QED
    BY <1>8, <2>1, <2>2, <2>3, <2>4 DEF TypeOK
<1>10. n'[t] = 0 => \A k \in DOMAIN slot' : slot'[k] \in todo'[t] => k >= i'[t]
  <2> SUFFICES ASSUME n'[t] = 0, NEW k \in DOMAIN slot', slot'[k] \in todo[t] PROVE k >= i[t] + 1
    BY <1>3, <1>6
  <2>1. Lookup(h) = NoCtx /\ n[t] = 0
    BY <1>6
  <2>2. slot[k] \in todo[t] /\ k \in DOMAIN slot /\ slot[k] # NoCtx
    <3>1. NoCtx \notin todo[t]
      BY <1>1 DEF TypeOK, Ctxs, NoCtx
    <3> QED
      BY <1>8, <3>1
  <2>3. k >= i[t]
    BY <1>5, <2>1, <2>2
  <2>4. k # i[t]
    <3> SUFFICES ASSUME k = i[t] PROVE FALSE
      OBVIOUS
    <3>1. handle[slot[k]] = h
      BY <1>5, <2>2
    <3>2. Lookup(h) = slot[k]
      BY <1>1, <1>5, <2>2, <3>1, Meets
    <3> QED
      BY <2>1, <2>2, <3>2
  <2>5. k \in Nat
    BY <1>1, <2>2, Table, TableSize
  <2> QED
    BY <1>6, <2>3, <2>4, <2>5
<1>11. PassRight'
  <2> SUFFICES ASSUME NEW u \in Callers, pc'[u] \in {"scan", "retire"}
               PROVE  /\ \A c \in todo'[u] : handle'[c] # 0
                      /\ n'[u] = 0 => \A k \in DOMAIN slot' : slot'[k] \in todo'[u] => k >= i'[u]
                      /\ pc'[u] = "retire" =>
                           /\ pend'[u][2] # 0 /\ i'[u] \in DOMAIN slot'
                           /\ slot'[i'[u]] \in todo'[u] => handle'[slot'[i'[u]]] = pend'[u][2]
    BY DEF PassRight
  <2>1. CASE u = t
    BY <1>3, <1>5, <1>6, <1>10, <2>1
  <2>2. CASE u # t
    BY <1>1, <1>3, <1>6, <1>8, <2>2, PassKept
  <2> QED
    BY <2>1, <2>2
<1> QED
  BY <1>1, <1>3, <1>8, <1>9, <1>11 DEF IInv

\* The steps of skynet_handle_retireall that change nothing in the table, and those of the
\* names.
LEMMA PassSteps ==
  ASSUME HandleConstants, IInv, UNCHANGED tabVars,
         name' \in Seq(Entry), NamesSorted', ops' \in 0..MaxOps,
         pc' \in [Callers -> {"idle", "assign", "scan", "retire"}],
         pend' \in [Callers -> (Ctxs \cup {NoCtx}) \X Handles],
         i' \in [Callers -> Nat], n' \in [Callers -> Nat], todo' \in [Callers -> SUBSET Ctxs],
         \A u \in Callers : /\ Assigning(u)' <=> Assigning(u)
                            /\ Assigning(u) => pend'[u] = pend[u],
         PassRight'
  PROVE  IInv'
<1>1. TypeOK /\ PlacesRight /\ FirstLap /\ abort # "rehash"
  BY DEF IInv
<1>2. /\ slot' = slot /\ handle_index' = handle_index /\ handle' = handle /\ st' = st
      /\ created' = created /\ abort' = abort /\ laps' = laps
  BY DEF tabVars
<1>3. slot_size' = slot_size
  BY <1>2 DEF slot_size
<1>4. TypeOK'
  <2>1. \E size \in 1..HandleMod :
           /\ InitSize <= size /\ HandleMod % size = 0
           /\ slot' \in [0..(size - 1) -> Ctxs \cup {NoCtx}]
    BY <1>1, <1>2 DEF TypeOK
  <2>2. /\ handle_index' \in 1..HandleMod /\ handle' \in [Ctxs -> Handles]
        /\ st' \in [Ctxs -> {"none", "registered", "live", "retired"}]
        /\ created' \in 0..MaxCtx /\ laps' \in Nat
        /\ abort' \in {"no", "full", "rehash"}
    BY <1>1, <1>2 DEF TypeOK
  <2> QED
    BY Zenon, <2>1, <2>2 DEF TypeOK
<1>5. PlacesRight'
  <2>1. ASSUME NEW u \in Callers, Assigning(u)'
        PROVE  /\ u \in Creators /\ created > 0 /\ pend'[u][1] = created
               /\ handle[created] = 0 /\ st[created] \in {"registered", "retired"}
               /\ \A k \in DOMAIN slot : slot[k] = created => k = Hash(pend'[u][2], slot_size)
    <3>1. Assigning(u) /\ pend'[u] = pend[u]
      BY <2>1
    <3>2. /\ u \in Creators /\ created > 0 /\ pend[u][1] = created
          /\ handle[created] = 0 /\ st[created] \in {"registered", "retired"}
          /\ \A k \in DOMAIN slot : slot[k] = created => k = Hash(pend[u][2], slot_size)
      BY <1>1, <3>1 DEF PlacesRight
    <3> QED
      BY <3>1, <3>2
  <2>2. \A k \in DOMAIN slot : slot[k] # NoCtx =>
          /\ slot[k] <= created
          /\ \/ Hash(handle[slot[k]], slot_size) = k
             \/ slot[k] = created /\ \E u \in Creators : Assigning(u)'
    BY <1>1 DEF PlacesRight, Callers
  <2>3. \A c \in Ctxs : c > created => handle[c] = 0 /\ st[c] = "none"
    BY <1>1 DEF PlacesRight
  <2> QED
    BY <1>2, <1>3, <2>1, <2>2, <2>3 DEF PlacesRight
<1>6. FirstLap'
  BY <1>1, <1>2 DEF FirstLap, NoReuseBeforeWrap, InTable
<1> QED
  BY <1>1, <1>2, <1>4, <1>5, <1>6 DEF IInv

\* A pass begins.
LEMMA PassBegins ==
  ASSUME HandleConstants, IInv, NEW t \in Callers, pc[t] \in {"idle", "scan"}, NewPass(t),
         UNCHANGED <<tabVars, name, pend>>, ops' \in 0..MaxOps, pc' = [pc EXCEPT ![t] = "scan"]
  PROVE  IInv'
<1>1. TypeOK /\ PassRight /\ NamesSorted
  BY DEF IInv
<1>2. /\ slot' = slot /\ handle' = handle /\ name' = name /\ pend' = pend
      /\ i' = [i EXCEPT ![t] = 0] /\ n' = [n EXCEPT ![t] = 0] /\ todo' = [todo EXCEPT ![t] = Present]
  BY DEF tabVars, NewPass
<1>3. Present \in SUBSET Ctxs /\ \A c \in Present : handle[c] # 0
  BY DEF Present
<1>4. /\ pc' \in [Callers -> {"idle", "assign", "scan", "retire"}]
      /\ i' \in [Callers -> Nat] /\ n' \in [Callers -> Nat]
  BY <1>1, <1>2 DEF TypeOK
<1>5. todo' \in [Callers -> SUBSET Ctxs]
  BY <1>1, <1>2, <1>3 DEF TypeOK
<1>6. /\ pc'[t] = "scan" /\ i'[t] = 0 /\ todo'[t] = Present
      /\ \A u \in Callers : u # t => pc'[u] = pc[u] /\ i'[u] = i[u] /\ n'[u] = n[u] /\ todo'[u] = todo[u]
  BY <1>1, <1>2 DEF TypeOK
<1>7. \A u \in Callers : /\ Assigning(u)' <=> Assigning(u)
                         /\ Assigning(u) => pend'[u] = pend[u]
  BY <1>2, <1>6 DEF Assigning
<1>8. \A k \in DOMAIN slot : k >= 0
  BY <1>1, Table, TableSize
<1>9. PassRight'
  <2> SUFFICES ASSUME NEW u \in Callers, pc'[u] \in {"scan", "retire"}
               PROVE  /\ \A c \in todo'[u] : handle'[c] # 0
                      /\ n'[u] = 0 => \A k \in DOMAIN slot' : slot'[k] \in todo'[u] => k >= i'[u]
                      /\ pc'[u] = "retire" =>
                           /\ pend'[u][2] # 0 /\ i'[u] \in DOMAIN slot'
                           /\ slot'[i'[u]] \in todo'[u] => handle'[slot'[i'[u]]] = pend'[u][2]
    BY DEF PassRight
  <2>1. CASE u = t
    BY <1>2, <1>3, <1>6, <1>8, <2>1
  <2>2. CASE u # t
    BY <1>1, <1>2, <1>6, <2>2, PassKept
  <2> QED
    BY <2>1, <2>2
<1>10. NamesSorted' /\ name' \in Seq(Entry) /\ pend' \in [Callers -> (Ctxs \cup {NoCtx}) \X Handles]
  BY <1>1, <1>2 DEF NamesSorted, TypeOK
<1>11. UNCHANGED tabVars
  OBVIOUS
<1> QED
  BY <1>4, <1>5, <1>7, <1>9, <1>10, <1>11, PassSteps

\* skynet_handle_retireall is called.
LEMMA StepRetireAll ==
  ASSUME HandleConstants, IInv, NEW t \in Callers, RetireAll(t)
  PROVE  IInv'
<1>1. /\ pc[t] = "idle" /\ NewPass(t) /\ UNCHANGED <<tabVars, name, pend>>
      /\ pc' = [pc EXCEPT ![t] = "scan"] /\ ops < MaxOps /\ ops' = ops + 1
  BY DEF RetireAll
<1>2. ops' \in 0..MaxOps
  BY <1>1 DEF IInv, TypeOK, HandleConstants
<1> QED
  BY <1>1, <1>2, PassBegins

\* It begins another pass.
LEMMA StepScanAgain ==
  ASSUME HandleConstants, IInv, NEW t \in Callers, ScanAgain(t)
  PROVE  IInv'
<1>1. /\ pc[t] = "scan" /\ NewPass(t) /\ UNCHANGED <<tabVars, name, pend>>
      /\ pc' = pc /\ ops' = ops
  BY DEF ScanAgain
<1>2. ops' \in 0..MaxOps /\ pc \in [Callers -> {"idle", "assign", "scan", "retire"}]
  BY <1>1 DEF IInv, TypeOK
<1>3. pc' = [pc EXCEPT ![t] = "scan"]
  BY <1>1, <1>2
<1> QED
  BY <1>1, <1>2, <1>3, PassBegins

\* It looks at a slot.
LEMMA StepScanSlot ==
  ASSUME HandleConstants, IInv, NEW t \in Callers, ScanSlot(t)
  PROVE  IInv'
<1>1. TypeOK /\ PassRight /\ NamesSorted
  BY DEF IInv
<1>2. /\ pc[t] = "scan" /\ i[t] < slot_size /\ UNCHANGED tabVars
      /\ slot' = slot /\ handle' = handle /\ name' = name /\ ops' = ops /\ n' = n /\ todo' = todo
  BY DEF ScanSlot, MoreSlots, tabVars
<1>3. PICK h : h = IF slot[i[t]] = NoCtx THEN 0 ELSE handle[slot[i[t]]]
  OBVIOUS
<1>4. IF h # 0
      THEN /\ pc' = [pc EXCEPT ![t] = "retire"]
           /\ pend' = [pend EXCEPT ![t] = <<NoCtx, h>>]
           /\ i' = i
      ELSE i' = [i EXCEPT ![t] = @ + 1] /\ pc' = pc /\ pend' = pend
  BY <1>3 DEF ScanSlot
<1>5. /\ slot_size \in Nat /\ DOMAIN slot = 0..(slot_size - 1) /\ i[t] \in Nat
      /\ \A k \in 0..(slot_size - 1) : slot[k] \in Ctxs \cup {NoCtx}
  BY <1>1, Table, TableSize DEF TypeOK
<1>6. i[t] \in DOMAIN slot /\ slot[i[t]] \in Ctxs \cup {NoCtx}
  BY <1>2, <1>5
<1>7. h \in Handles
  <2>1. 0 \in Handles
    BY DEF Handles, HandleConstants
  <2>2. slot[i[t]] # NoCtx => handle[slot[i[t]]] \in Handles
    BY <1>1, <1>6 DEF TypeOK
  <2> QED
    BY <1>3, <2>1, <2>2
<1>8. \A u \in Callers : u # t => pc'[u] = pc[u] /\ pend'[u] = pend[u] /\ i'[u] = i[u]
  BY <1>1, <1>4 DEF TypeOK
<1>9. pc' \in [Callers -> {"idle", "assign", "scan", "retire"}] /\ pc'[t] \in {"scan", "retire"}
  BY <1>1, <1>2, <1>4 DEF TypeOK
<1>10. pend' \in [Callers -> (Ctxs \cup {NoCtx}) \X Handles]
  <2>1. <<NoCtx, h>> \in (Ctxs \cup {NoCtx}) \X Handles
    BY <1>7
  <2>2. pend \in [Callers -> (Ctxs \cup {NoCtx}) \X Handles]
    BY <1>1 DEF TypeOK
  <2> HIDE DEF Handles, Ctxs
  <2> QED
    BY <1>4, <2>1, <2>2
<1>11. i' \in [Callers -> Nat]
  <2>1. i \in [Callers -> Nat]
    BY <1>1 DEF TypeOK
  <2> QED
    BY <1>4, <2>1
<1>12. \A u \in Callers : /\ Assigning(u)' <=> Assigning(u)
                          /\ Assigning(u) => pend'[u] = pend[u]
  <2> TAKE u \in Callers
  <2>1. CASE u = t
    BY <1>2, <1>9, <2>1 DEF Assigning
  <2>2. CASE u # t
    BY <1>8, <2>2 DEF Assigning
  <2> QED
    BY <2>1, <2>2
<1>13. /\ \A c \in todo[t] : handle[c] # 0
       /\ n[t] = 0 => \A k \in DOMAIN slot : slot[k] \in todo[t] => k >= i[t]
  BY <1>1, <1>2 DEF PassRight
<1>14. NoCtx \notin todo[t]
  BY <1>1 DEF TypeOK, Ctxs, NoCtx
<1>15. /\ n[t] = 0 => \A k \in DOMAIN slot : slot[k] \in todo[t] => k >= i'[t]
       /\ pc'[t] = "retire" =>
            /\ pend'[t][2] # 0 /\ i'[t] \in DOMAIN slot
            /\ slot[i'[t]] \in todo[t] => handle[slot[i'[t]]] = pend'[t][2]
  <2>1. CASE h # 0
    <3>1. pend'[t] = <<NoCtx, h>> /\ i'[t] = i[t]
      BY <1>1, <1>4, <2>1 DEF TypeOK
    <3>2. slot[i[t]] \in todo[t] => handle[slot[i[t]]] = h
      BY <1>3, <1>14
    <3> QED
      BY <1>6, <1>13, <2>1, <3>1, <3>2
  <2>2. CASE h = 0
    <3>1. pc'[t] = "scan" /\ i'[t] = i[t] + 1
      BY <1>1, <1>2, <1>4, <2>2 DEF TypeOK
    <3>2. slot[i[t]] \notin todo[t]
      BY <1>3, <1>13, <1>14, <2>2
    <3>3. ASSUME n[t] = 0, NEW k \in DOMAIN slot, slot[k] \in todo[t] PROVE k >= i[t] + 1
      <4>1. k >= i[t] /\ k # i[t] /\ k \in Nat
        BY <1>5, <1>13, <3>2, <3>3
      <4> QED
        BY <1>5, <4>1
    <3> QED
      BY <3>1, <3>3
  <2> QED
    BY <2>1, <2>2
<1>16. PassRight'
  <2> SUFFICES ASSUME NEW u \in Callers, pc'[u] \in {"scan", "retire"}
               PROVE  /\ \A c \in todo'[u] : handle'[c] # 0
                      /\ n'[u] = 0 => \A k \in DOMAIN slot' : slot'[k] \in todo'[u] => k >= i'[u]
                      /\ pc'[u] = "retire" =>
                           /\ pend'[u][2] # 0 /\ i'[u] \in DOMAIN slot'
                           /\ slot'[i'[u]] \in todo'[u] => handle'[slot'[i'[u]]] = pend'[u][2]
    BY DEF PassRight
  <2>1. CASE u = t
    BY <1>2, <1>13, <1>15, <2>1
  <2>2. CASE u # t
    BY <1>1, <1>2, <1>8, <2>2, PassKept
  <2> QED
    BY <2>1, <2>2
<1>17. /\ NamesSorted' /\ name' \in Seq(Entry) /\ ops' \in 0..MaxOps
       /\ n' \in [Callers -> Nat] /\ todo' \in [Callers -> SUBSET Ctxs]
  BY <1>1, <1>2 DEF NamesSorted, TypeOK
<1> QED
  BY <1>2, <1>9, <1>10, <1>11, <1>12, <1>16, <1>17, PassSteps

\* It returns.
LEMMA StepScanReturn ==
  ASSUME HandleConstants, IInv, NEW t \in Callers, ScanReturn(t)
  PROVE  IInv'
<1>1. TypeOK /\ PassRight /\ NamesSorted
  BY DEF IInv
<1>2. /\ pc[t] = "scan" /\ UNCHANGED tabVars /\ slot' = slot /\ handle' = handle
      /\ pc' = [pc EXCEPT ![t] = "idle"] /\ todo' = [todo EXCEPT ![t] = {}]
      /\ name' = name /\ ops' = ops /\ pend' = pend /\ i' = i /\ n' = n
  BY DEF ScanReturn, tabVars
<1>3. /\ pc'[t] = "idle" /\ \A u \in Callers : u # t => pc'[u] = pc[u] /\ todo'[u] = todo[u]
      /\ pc' \in [Callers -> {"idle", "assign", "scan", "retire"}] /\ todo' \in [Callers -> SUBSET Ctxs]
  BY <1>1, <1>2 DEF TypeOK
<1>4. \A u \in Callers : /\ Assigning(u)' <=> Assigning(u)
                         /\ Assigning(u) => pend'[u] = pend[u]
  BY <1>2, <1>3 DEF Assigning
<1>5. PassRight'
  <2> SUFFICES ASSUME NEW u \in Callers, pc'[u] \in {"scan", "retire"}
               PROVE  /\ \A c \in todo'[u] : handle'[c] # 0
                      /\ n'[u] = 0 => \A k \in DOMAIN slot' : slot'[k] \in todo'[u] => k >= i'[u]
                      /\ pc'[u] = "retire" =>
                           /\ pend'[u][2] # 0 /\ i'[u] \in DOMAIN slot'
                           /\ slot'[i'[u]] \in todo'[u] => handle'[slot'[i'[u]]] = pend'[u][2]
    BY DEF PassRight
  <2>1. u # t
    BY <1>3
  <2> QED
    BY <1>1, <1>2, <1>3, <2>1, PassKept
<1>6. /\ NamesSorted' /\ name' \in Seq(Entry) /\ ops' \in 0..MaxOps
      /\ pend' \in [Callers -> (Ctxs \cup {NoCtx}) \X Handles]
      /\ i' \in [Callers -> Nat] /\ n' \in [Callers -> Nat]
  BY <1>1, <1>2 DEF NamesSorted, TypeOK
<1> QED
  BY <1>2, <1>3, <1>4, <1>5, <1>6, PassSteps

\* REG and NAME.
LEMMA StepNameHandle ==
  ASSUME HandleConstants, IInv, NEW t \in Callers, NEW nm \in Names, NEW c \in Ctxs,
         NameHandle(t, nm, c)
  PROVE  IInv'
<1>1. TypeOK /\ PassRight /\ NamesSorted
  BY DEF IInv
<1>2. /\ ops < MaxOps /\ ops' = ops + 1 /\ UNCHANGED tabVars /\ slot' = slot /\ handle' = handle
      /\ pc' = pc /\ pend' = pend /\ i' = i /\ n' = n /\ todo' = todo
      /\ name' = IF Search(nm).found THEN name ELSE InsertBefore(nm, handle[c], Search(nm).at)
  BY DEF NameHandle, tabVars
<1>3. ops' \in 0..MaxOps /\ handle[c] \in Handles
  BY <1>1, <1>2 DEF TypeOK, HandleConstants
<1>4. name' \in Seq(Entry) /\ NamesSorted'
  <2>1. CASE Search(nm).found
    BY <1>1, <1>2, <2>1 DEF NamesSorted, TypeOK
  <2>2. CASE ~Search(nm).found
    <3>1. PICK s : s = InsertBefore(nm, handle[c], Search(nm).at)
      OBVIOUS
    <3>2. Ordered(s)
      BY <1>1, <1>3, <2>2, <3>1, InsertOrdered
    <3>3. s \in Seq(Entry) /\ DOMAIN s = 1..Len(s) /\ \A j, k \in 1..Len(s) : j < k => s[j].name < s[k].name
      BY <3>2 DEF Ordered
    <3> QED
      BY <1>2, <2>2, <3>1, <3>3 DEF NamesSorted
  <2> QED
    BY <2>1, <2>2
<1>5. PassRight'
  BY <1>1, <1>2 DEF PassRight
<1>6. \A u \in Callers : /\ Assigning(u)' <=> Assigning(u)
                         /\ Assigning(u) => pend'[u] = pend[u]
  BY <1>2 DEF Assigning
<1>7. /\ pc' \in [Callers -> {"idle", "assign", "scan", "retire"}]
      /\ pend' \in [Callers -> (Ctxs \cup {NoCtx}) \X Handles]
      /\ i' \in [Callers -> Nat] /\ n' \in [Callers -> Nat] /\ todo' \in [Callers -> SUBSET Ctxs]
  BY <1>1, <1>2 DEF TypeOK
<1> QED
  BY <1>2, <1>3, <1>4, <1>5, <1>6, <1>7, PassSteps

-----------------------------------------------------------------------------
(* The theorems.                                                           *)

\* The invariant holds at the start.
LEMMA InitIInv ==
  ASSUME HandleConstants, Init
  PROVE  IInv
<1>1. /\ slot = [k \in 0..(InitSize - 1) |-> NoCtx] /\ DOMAIN slot = 0..(InitSize - 1)
      /\ \A k \in DOMAIN slot : slot[k] = NoCtx
      /\ InitSize \in 1..HandleMod /\ HandleMod % InitSize = 0 /\ HandleMod \in Nat \ {0}
  BY DEF Init, HandleConstants
<1>2. /\ \A t \in Callers : pc[t] = "idle"
      /\ \A c \in Ctxs : handle[c] = 0 /\ st[c] = "none"
      /\ name = << >> /\ handle_index = 1 /\ created = 0 /\ abort = "no" /\ laps = 0
  BY DEF Init
<1>3. TypeOK
  <2>1. \E size \in 1..HandleMod :
           /\ InitSize <= size /\ HandleMod % size = 0
           /\ slot \in [0..(size - 1) -> Ctxs \cup {NoCtx}]
    BY <1>1
  <2>2. handle \in [Ctxs -> Handles]
    BY <1>1 DEF Init, Handles
  <2>3. pend \in [Callers -> (Ctxs \cup {NoCtx}) \X Handles]
    <3>1. <<NoCtx, 0>> \in (Ctxs \cup {NoCtx}) \X Handles
      BY <1>1 DEF Handles
    <3> HIDE DEF Handles, Ctxs
    <3> QED
      BY <3>1 DEF Init
  <2>4. name \in Seq(Entry)
    BY <1>2
  <2>5. /\ st \in [Ctxs -> {"none", "registered", "live", "retired"}]
        /\ pc \in [Callers -> {"idle", "assign", "scan", "retire"}]
        /\ i \in [Callers -> Nat] /\ n \in [Callers -> Nat] /\ todo \in [Callers -> SUBSET Ctxs]
    BY DEF Init
  <2>6. created \in 0..MaxCtx /\ ops \in 0..MaxOps /\ laps \in Nat /\ handle_index \in 1..HandleMod
    BY <1>1 DEF Init, HandleConstants
  <2> QED
    BY <1>2, <2>1, <2>2, <2>3, <2>4, <2>5, <2>6 DEF TypeOK
<1>4. PlacesRight
  BY <1>1, <1>2 DEF PlacesRight, Assigning
<1>5. FirstLap
  BY <1>1, <1>2 DEF FirstLap, NoReuseBeforeWrap, Assigning
<1>6. PassRight
  BY <1>2 DEF PassRight
<1>7. NamesSorted
  BY <1>2 DEF NamesSorted
<1> QED
  BY <1>2, <1>3, <1>4, <1>5, <1>6, <1>7 DEF IInv

\* Every step keeps it.
LEMMA StepIInv ==
  ASSUME HandleConstants, OneCreator, IInv, [Next]_vars
  PROVE  IInv'
<1>1. ASSUME NEW t \in Callers,
             \/ Register(t) \/ RegisterGrow(t) \/ RegisterFull(t) \/ Assign(t)
             \/ \E c \in Ctxs : Retire(t, c)
             \/ RetireAll(t) \/ ScanSlot(t) \/ ScanRetire(t) \/ ScanAgain(t) \/ ScanReturn(t)
             \/ \E nm \in Names, c \in Ctxs : NameHandle(t, nm, c)
      PROVE  IInv'
  BY Zenon, <1>1, StepRegister, StepRegisterGrow, FullEnds, StepAssign, StepRetire, StepRetireAll,
     StepScanSlot, StepScanRetire, StepScanAgain, StepScanReturn, StepNameHandle
<1>2. ASSUME UNCHANGED vars PROVE IInv'
  <2>1. UNCHANGED <<tabVars, name, ops, pc, pend, i, n, todo>>
    BY <1>2 DEF vars
  <2>2. TypeOK /\ PassRight /\ NamesSorted
    BY DEF IInv
  <2>3. PassRight'
    BY <2>1, <2>2 DEF PassRight, tabVars
  <2>4. NamesSorted'
    BY <2>1, <2>2 DEF NamesSorted
  <2>5. \A u \in Callers : /\ Assigning(u)' <=> Assigning(u)
                           /\ Assigning(u) => pend'[u] = pend[u]
    BY <2>1 DEF Assigning
  <2>6. /\ name' \in Seq(Entry) /\ ops' \in 0..MaxOps
        /\ pc' \in [Callers -> {"idle", "assign", "scan", "retire"}]
        /\ pend' \in [Callers -> (Ctxs \cup {NoCtx}) \X Handles]
        /\ i' \in [Callers -> Nat] /\ n' \in [Callers -> Nat] /\ todo' \in [Callers -> SUBSET Ctxs]
    BY <2>1, <2>2 DEF TypeOK
  <2> QED
    BY <2>1, <2>3, <2>4, <2>5, <2>6, PassSteps
<1> QED
  BY <1>1, <1>2 DEF Next

\* It implies what is promised.
LEMMA IInvRight ==
  ASSUME HandleConstants, IInv
  PROVE  HandlesRight
<1>1. TypeOK /\ PlacesRight /\ FirstLap /\ NamesSorted
  BY DEF IInv
<1>2. FindNameCorrect
  BY <1>1, FindRight
<1>3. NoReuseBeforeWrap
  BY <1>1 DEF FirstLap, NoReuseBeforeWrap
<1>4. LiveIsFound
  <2> SUFFICES ASSUME NEW c \in Ctxs, laps = 0, st[c] = "live" PROVE Lookup(handle[c]) = c
    BY DEF LiveIsFound
  <2>1. InTable(c) /\ handle[c] # 0
    BY <1>1 DEF FirstLap
  <2>2. PICK k \in DOMAIN slot : slot[k] = c
    BY <2>1 DEF InTable
  <2>3. c # NoCtx
    BY DEF Ctxs, NoCtx
  <2> QED
    BY <1>1, <2>1, <2>2, <2>3, Meets
<1> QED
  BY <1>1, <1>2, <1>3, <1>4 DEF HandlesRight

\* When skynet_handle_retireall returns, nobody of its last pass is left in the table.
LEMMA IInvAbort ==
  ASSUME HandleConstants, IInv, NEW t \in Callers, ScanReturn(t)
  PROVE  todo[t] \cap Present' = {}
<1>1. TypeOK /\ PassRight
  BY DEF IInv
<1>2. pc[t] = "scan" /\ ~(i[t] < slot_size) /\ n[t] = 0 /\ slot' = slot /\ handle' = handle
  BY DEF ScanReturn, MoreSlots, tabVars
<1>3. slot_size \in Nat /\ DOMAIN slot = 0..(slot_size - 1) /\ i[t] \in Nat
  BY <1>1, Table, TableSize DEF TypeOK
<1>4. \A k \in DOMAIN slot : slot[k] \in todo[t] => k >= i[t]
  BY <1>1, <1>2 DEF PassRight
<1>5. \A k \in DOMAIN slot : slot[k] \notin todo[t]
  BY <1>2, <1>3, <1>4
<1> QED
  BY <1>2, <1>5 DEF Present

\* With one thread that creates services, a live service is found under its handle and no
\* handle is given out twice before handle_index has gone round, and a name is found by the
\* binary search exactly when it is there.
THEOREM HandlesSafe ==
  ASSUME HandleConstants, OneCreator
  PROVE  Spec => []HandlesRight
<1>1. Init => IInv
  BY InitIInv
<1>2. IInv /\ [Next]_vars => IInv'
  BY StepIInv
<1>3. IInv => HandlesRight
  BY IInvRight
<1> QED
  BY <1>1, <1>2, <1>3, PTL DEF Spec

\* With one creator, skynet_handle_retireall returns only when everybody who was in the table
\* with a handle when its last pass began has been retired, however the table has grown.
THEOREM NobodyMissed ==
  ASSUME HandleConstants, OneCreator
  PROVE  Spec => AbortRetiresAll
<1>1. Init => IInv
  BY InitIInv
<1>2. IInv /\ [Next]_vars => IInv'
  BY StepIInv
<1>3. IInv => [\A t \in Callers : ScanReturn(t) => todo[t] \cap Present' = {}]_vars
  BY IInvAbort
<1> QED
  BY <1>1, <1>2, <1>3, PTL DEF Spec, AbortRetiresAll
==============================================================================
