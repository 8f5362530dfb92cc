----------------------------- MODULE ShareTable -----------------------------
(***************************************************************************)
(* lua-sharedata.c: a Lua table is converted into a structure of C that    *)
(* all services read: an array and a hash table, where entries with the    *)
(* same place are chained, and strings are kept by index.                  *)
(***************************************************************************)
EXTENDS Integers, Sequences
LOCAL INSTANCE SequencesExt

CONSTANT IntMod     \* 2^32: the keys of type int

\* What Lua has: a string is given with its calchash, a table with its length and with its
\* pairs in the order of lua_next.
Value(t, v) == [t |-> t, v |-> v]
Nil == Value("nil", 0)
Integer(v) == Value("integer", v)
Str(s, hash) == [t |-> "string", v |-> s, hash |-> hash]
Table(len, pairs) == [t |-> "table", len |-> len, pairs |-> pairs]

\* struct node; what is not assigned yet is Junk.  next is 0 for -1.
Junk == -1
NilNode == [value |-> Nil, keytype |-> "junk", key |-> Junk, keyhash |-> Junk, next |-> Junk,
            nocolliding |-> FALSE]
IsNil(n) == n.value.t = "nil"

\* The strings of ctx->L; the first place is for the dirty flag.
NoStrings == <<Value("state", 0)>>
AddString(strings, s) == IF s \in {strings[i] : i \in 1..Len(strings)} THEN strings ELSE Append(strings, s)
StringIndex(strings, s) == CHOOSE i \in 1..Len(strings) : strings[i] = s

\* lua_tointeger of a key, as int
ToInt(v) == ((v + (IntMod \div 2)) % IntMod) - (IntMod \div 2)
IsHashKey(tbl, k) == k.t # "integer" \/ ToInt(k.v) \notin 1..Len(tbl.array)
KeyHash(k) == IF k.t = "integer" THEN k.v % IntMod ELSE k.hash
AddKey(strings, k) == IF k.t = "string" THEN AddString(strings, k) ELSE strings
KeyOf(strings, k) == IF k.t = "string" THEN StringIndex(strings, k) ELSE ToInt(k.v)
MainPos(tbl, k) == (KeyHash(k) % Len(tbl.hash)) + 1

\* countsize, and its error
InvalidKey(t) == \E i \in 1..Len(t.pairs) : t.pairs[i][1].t \notin {"integer", "string", "table"}
SizeHash(t) ==
  Len(SelectSeq(t.pairs, LAMBDA p : ~(p[1].t = "integer" /\ p[1].v \in 1..t.len)))

Failed == [ok |-> FALSE, strings |-> <<>>, tbl |-> [array |-> <<>>, hash |-> <<>>], v |-> Nil]

RECURSIVE ConvTable(_, _), SetValue(_, _), SetArray(_, _, _), FillNoColliding(_, _), FillColliding(_, _)

SetValue(strings, x) ==
  CASE x.t = "string" ->
         [ok |-> TRUE, strings |-> AddString(strings, x),
          v |-> Value("string", StringIndex(AddString(strings, x), x))]
    [] x.t = "table" ->
         LET c == ConvTable(strings, x)
         IN  [ok |-> c.ok, strings |-> c.strings, v |-> Value("table", c.tbl)]
    [] x.t \in {"nil", "integer", "real", "boolean"} -> [ok |-> TRUE, strings |-> strings, v |-> x]
    [] OTHER -> Failed

SetArray(c, key, x) ==
  LET v == SetValue(c.strings, x)
  IN  [ok |-> v.ok, strings |-> v.strings, tbl |-> [c.tbl EXCEPT !.array[key] = v.v]]

\* The node is filled; its value may be a table that adds strings.
Fill(c, i, k, next, nocolliding, x) ==
  LET v == SetValue(c.strings, x)
      node == [value |-> v.v, keytype |-> k.t, key |-> KeyOf(c.strings, k), keyhash |-> KeyHash(k),
               next |-> next, nocolliding |-> nocolliding]
  IN  [ok |-> v.ok, strings |-> v.strings, tbl |-> [c.tbl EXCEPT !.hash[i] = node]]

\* First the array, and of the keys with one main position the first.
FillNoColliding(c, pair) ==
  LET k == pair[1]
      d == [c EXCEPT !.strings = AddKey(@, k)]
      i == MainPos(c.tbl, k)
  IN  IF ~c.ok THEN c
      ELSE IF ~IsHashKey(c.tbl, k) THEN SetArray(c, ToInt(k.v), pair[2])
      ELSE IF IsNil(c.tbl.hash[i]) THEN Fill(d, i, k, 0, TRUE, pair[2]) ELSE d

\* Then the others, in the empty slots, each behind the one in its main position.
FillColliding(c, pair) ==
  LET k == pair[1]
      d == [c EXCEPT !.strings = AddKey(@, k)]
      i == MainPos(c.tbl, k)
      mainpos == c.tbl.hash[i]
      empty == {j \in 1..Len(c.tbl.hash) : IsNil(c.tbl.hash[j])}
      n == CHOOSE j \in empty : \A m \in empty : j <= m
  IN  IF ~c.ok \/ ~IsHashKey(c.tbl, k) THEN c
      ELSE IF mainpos.keytype = k.t /\ mainpos.key = KeyOf(d.strings, k) THEN d
      ELSE Fill([d EXCEPT !.tbl.hash[i].next = n, !.tbl.hash[i].nocolliding = FALSE],
                n, k, mainpos.next, FALSE, pair[2])

ConvTable(strings, t) ==
  LET tbl == [array |-> [i \in 1..t.len |-> Nil], hash |-> [i \in 1..SizeHash(t) |-> NilNode]]
      c == [ok |-> TRUE, strings |-> strings, tbl |-> tbl]
      At(i) == LET p == SelectSeq(t.pairs, LAMBDA q : q[1] = Integer(i))
               IN  IF p = <<>> THEN Nil ELSE p[1][2]
  IN  IF InvalidKey(t) THEN Failed
      ELSE IF tbl.hash # <<>>
           THEN FoldLeft(FillColliding, FoldLeft(FillNoColliding, c, t.pairs), t.pairs)
           ELSE FoldLeft(LAMBDA d, i : IF d.ok THEN SetArray(d, i, At(i)) ELSE d, c,
                         [i \in 1..t.len |-> i])

\* lnewconf
New(t) == ConvTable(NoStrings, t)

-----------------------------------------------------------------------------
(* The client.                                                             *)
\* lookup_key: the place of a key, 0 for NULL.
SameKey(strings, n, k, keyhash) ==
  /\ n.keyhash = keyhash /\ n.keytype = k.t
  /\ IF k.t = "integer" THEN n.key = ToInt(k.v) ELSE strings[n.key] = k
RECURSIVE InChain(_, _, _, _)
InChain(strings, tbl, i, k) ==
  LET n == tbl.hash[i]
  IN  IF SameKey(strings, n, k, KeyHash(k)) THEN i
      ELSE IF n.next = 0 THEN 0 ELSE InChain(strings, tbl, n.next, k)
LookupKey(strings, tbl, k) ==
  IF tbl.hash = <<>> THEN 0
  ELSE LET n == tbl.hash[MainPos(tbl, k)]
       IN  IF KeyHash(k) # n.keyhash /\ n.nocolliding THEN 0
           ELSE InChain(strings, tbl, MainPos(tbl, k), k)

\* lindexconf
Index(strings, tbl, k) ==
  IF ~IsHashKey(tbl, k) THEN tbl.array[ToInt(k.v)]
  ELSE LET i == LookupKey(strings, tbl, k) IN IF i = 0 THEN Nil ELSE tbl.hash[i].value

\* lnextkey; it begins, and ends, with nil.
PushKey(strings, n) == IF n.keytype = "integer" THEN Integer(n.key) ELSE strings[n.key]
FirstHash(strings, tbl) == IF tbl.hash = <<>> THEN Nil ELSE PushKey(strings, tbl.hash[1])
NextKey(strings, tbl, k) ==
  LET from  == IF k.t = "nil" THEN 0 ELSE ToInt(k.v)
      later == {i \in from + 1..Len(tbl.array) : tbl.array[i].t # "nil"}
      i     == LookupKey(strings, tbl, k)
  IN  IF k.t = "nil" \/ ~IsHashKey(tbl, k)
      THEN IF later = {} THEN FirstHash(strings, tbl)
           ELSE Integer(CHOOSE j \in later : \A m \in later : j <= m)
      ELSE IF i = 0 \/ i = Len(tbl.hash) THEN Nil ELSE PushKey(strings, tbl.hash[i + 1])

\* pairs, cut off after n keys
RECURSIVE Walk(_, _, _, _)
Walk(strings, tbl, k, n) ==
  LET next == NextKey(strings, tbl, k)
  IN  IF next.t = "nil" \/ n = 0 THEN <<>> ELSE <<next>> \o Walk(strings, tbl, next, n - 1)

\* What pushvalue gives, tables with all that is found in them.
RECURSIVE PushValue(_, _)
PushValue(strings, v) ==
  CASE v.t = "string" -> strings[v.v]
    [] v.t = "table" ->
         LET walk == Walk(strings, v.v, Nil, 2 * (Len(v.v.array) + Len(v.v.hash)))
         IN  [t |-> "table", walk |-> walk,
              get |-> [i \in 1..Len(walk) |-> PushValue(strings, Index(strings, v.v, walk[i]))]]
    [] OTHER -> v
\* The same value
RECURSIVE Same(_, _)
Same(x, r) ==
  /\ x.t = r.t
  /\ IF x.t # "table" THEN x = r
     ELSE /\ Len(r.walk) = Len(x.pairs)
          /\ \A i \in 1..Len(x.pairs) : \E j \in 1..Len(r.walk) :
               x.pairs[i][1] = r.walk[j] /\ Same(x.pairs[i][2], r.get[j])
=============================================================================
