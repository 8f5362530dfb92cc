-------------------------------- MODULE Seri --------------------------------
\* lua-seri.c: Lua values are packed into blocks, copied into one buffer, and unpacked.
\* A byte of data is a number below Base; the numbers of bytes are those of the code, the
\* limits are scaled with Base and MaxCookie.
EXTENDS Integers, Sequences

CONSTANTS
  Base,       \* the number of values of a byte of data (256)
  MaxCookie,  \* MAX_COOKIE
  BlockSize,  \* BLOCK_SIZE
  MaxDepth    \* MAX_DEPTH

\* A Lua value: an integer or what stands for one (v), a string of bytes (s), a table with
\* a length and the pairs in the order of lua_next; "metatable" is a table with __pairs.
Value(t, v) == [t |-> t, v |-> v, s |-> <<>>, pairs |-> <<>>]
NilValue == Value("nil", 0)
Integer(v) == Value("integer", v)
Str(s) == [NilValue EXCEPT !.t = "string", !.s = s]
Table(t, n, pairs) == [NilValue EXCEPT !.t = t, !.v = n, !.pairs = pairs]

TYPE_NIL == 0
TYPE_BOOLEAN == 1
TYPE_NUMBER == 2
TYPE_USERDATA == 3
TYPE_SHORT_STRING == 4
TYPE_LONG_STRING == 5
TYPE_TABLE == 6
TYPE_NUMBER_REAL == 8
Combine(type, cookie) == type + 8 * cookie

\* The sz bytes of v, the lowest first, and back; a signed number of sz bytes.
Bytes(v, sz) == [i \in 1..sz |-> (v \div Base ^ (i - 1)) % Base]
Unsigned(b) == LET U[i \in 0..Len(b)] == IF i = 0 THEN 0 ELSE U[i - 1] + b[i] * Base ^ (i - 1)
               IN  U[Len(b)]
Signed(b) == IF 2 * Unsigned(b) >= Base ^ Len(b) THEN Unsigned(b) - Base ^ Len(b)
             ELSE Unsigned(b)
IsInt32(v) == 2 * v >= -(Base ^ 4) /\ 2 * v < Base ^ 4

-----------------------------------------------------------------------------
\* Writing: the blocks, the last of which is the current one, the number of bytes, and
\* whether an error was raised.
NewWb == [blocks |-> << <<>> >>, len |-> 0, error |-> FALSE]

RECURSIVE WbPush(_, _)
WbPush(wb, b) ==
  LET full  == Len(wb.blocks[Len(wb.blocks)]) = BlockSize
      into  == IF full THEN Append(wb.blocks, <<>>) ELSE wb.blocks
      cur   == into[Len(into)]
      room  == BlockSize - Len(cur)
      copy  == IF Len(b) <= room THEN Len(b) ELSE room
      wb2   == [wb EXCEPT !.blocks = [into EXCEPT ![Len(into)] = cur \o SubSeq(b, 1, copy)],
                          !.len = @ + copy]
  IN  IF copy = Len(b) THEN wb2 ELSE WbPush(wb2, SubSeq(b, copy + 1, Len(b)))

WbTag(wb, type, cookie) == WbPush(wb, <<Combine(type, cookie)>>)

WbInteger(wb, v) ==
  LET sz == CASE v = 0 -> 0
              [] ~IsInt32(v) -> 8
              [] IsInt32(v) /\ (v < 0 \/ v >= Base ^ 2) -> 4
              [] v > 0 /\ v < Base -> 1
              [] v >= Base /\ v < Base ^ 2 -> 2
      cookie == IF sz = 8 THEN 6 ELSE sz
  IN  IF sz = 0 THEN WbTag(wb, TYPE_NUMBER, 0)
      ELSE WbPush(WbTag(wb, TYPE_NUMBER, cookie), Bytes(v, sz))

WbString(wb, s) ==
  LET len == Len(s)
      sz  == IF len < Base ^ 2 THEN 2 ELSE 4
  IN  IF len < MaxCookie
      THEN LET tag == WbTag(wb, TYPE_SHORT_STRING, len)
           IN  IF len > 0 THEN WbPush(tag, s) ELSE tag
      ELSE WbPush(WbPush(WbTag(wb, TYPE_LONG_STRING, sz), Bytes(len, sz)), s)

\* lua_rawgeti
RawGet(x, i) ==
  LET hit == {p \in 1..Len(x.pairs) : x.pairs[p][1] = Integer(i)}
  IN  IF hit = {} THEN NilValue ELSE x.pairs[CHOOSE p \in hit : TRUE][2]

\* The values of a table in the order in which they are packed: an array and then the
\* other pairs; with __pairs there is no array.
ArrayPart(x) == IF x.t = "metatable" THEN <<>> ELSE [i \in 1..x.v |-> RawGet(x, i)]
InArray(x, k) == x.t = "table" /\ k.t = "integer" /\ k.v > 0 /\ k.v <= x.v
HashPart(x) == SelectSeq(x.pairs, LAMBDA p : ~InArray(x, p[1]))

RECURSIVE PackOne(_, _, _), PackAll(_, _, _)
PackTable(wb, x, depth) ==
  LET array == ArrayPart(x)
      hash  == HashPart(x)
      size  == IF Len(array) >= MaxCookie - 1
               THEN WbInteger(WbTag(wb, TYPE_TABLE, MaxCookie - 1), Len(array))
               ELSE WbTag(wb, TYPE_TABLE, Len(array))
      flat  == [i \in 1..2 * Len(hash) |-> hash[(i + 1) \div 2][IF i % 2 = 1 THEN 1 ELSE 2]]
      body  == PackAll(size, array \o flat, depth)
  IN  IF body.error THEN body ELSE WbTag(body, TYPE_NIL, 0)

PackOne(wb, x, depth) ==
  IF depth > MaxDepth THEN [NewWb EXCEPT !.error = TRUE]
  ELSE CASE x.t = "nil" -> WbTag(wb, TYPE_NIL, 0)
         [] x.t = "integer" -> WbInteger(wb, x.v)
         [] x.t = "real" -> WbPush(WbTag(wb, TYPE_NUMBER, TYPE_NUMBER_REAL), Bytes(x.v, 8))
         [] x.t = "boolean" -> WbTag(wb, TYPE_BOOLEAN, x.v)
         [] x.t = "string" -> WbString(wb, x.s)
         [] x.t = "pointer" -> WbPush(WbTag(wb, TYPE_USERDATA, 0), Bytes(x.v, 8))
         [] x.t \in {"table", "metatable"} -> PackTable(wb, x, depth + 1)
         [] OTHER -> [NewWb EXCEPT !.error = TRUE]

PackAll(wb, xs, depth) ==
  IF xs = <<>> \/ wb.error THEN wb ELSE PackAll(PackOne(wb, Head(xs), depth), Tail(xs), depth)

\* seri: len bytes are copied, block by block.
RECURSIVE Seri(_, _)
Seri(blocks, len) ==
  IF len <= 0 THEN <<>>
  ELSE IF len >= BlockSize THEN blocks[1] \o Seri(Tail(blocks), len - BlockSize)
  ELSE SubSeq(blocks[1], 1, len)

\* luaseri_pack
Pack(xs) ==
  LET wb == PackAll(NewWb, xs, 0)
  IN  IF wb.error THEN [ok |-> FALSE, wire |-> <<>>]
      ELSE [ok |-> TRUE, wire |-> Seri(wb.blocks, wb.len)]

-----------------------------------------------------------------------------
\* Reading: what is left of the buffer, and the value read; ok is FALSE after an error.
Read(rb, x) == [ok |-> TRUE, x |-> x, rb |-> rb]
Invalid == [ok |-> FALSE, x |-> NilValue, rb |-> <<>>]

\* rb_read of sz bytes, of which Value is made.
RbRead(rb, sz, Make(_)) ==
  IF Len(rb) < sz THEN Invalid
  ELSE Read(SubSeq(rb, sz + 1, Len(rb)), Make(SubSeq(rb, 1, sz)))

GetInteger(rb, cookie) ==
  CASE cookie = 0 -> Read(rb, Integer(0))
    [] cookie \in {1, 2} -> RbRead(rb, cookie, LAMBDA b : Integer(Unsigned(b)))
    [] cookie = 4 -> RbRead(rb, 4, LAMBDA b : Integer(Signed(b)))
    [] cookie = 6 -> RbRead(rb, 8, LAMBDA b : Integer(Signed(b)))
    [] OTHER -> Invalid

GetBuffer(rb, len) == RbRead(rb, len, Str)

LongString(rb, cookie) ==
  IF cookie \notin {2, 4} THEN Invalid
  ELSE LET len == RbRead(rb, cookie, LAMBDA b : Integer(Unsigned(b)))
       IN  IF len.ok THEN GetBuffer(len.rb, len.x.v) ELSE Invalid

\* lua_rawset: the pair is added, or takes the place of the one with this key.
RawSet(x, k, v) ==
  LET others == SelectSeq(x.pairs, LAMBDA p : p[1] # k)
  IN  [x EXCEPT !.pairs = IF v.t = "nil" THEN others ELSE Append(others, <<k, v>>)]

RECURSIVE UnpackOne(_), UnpackArray(_, _, _, _), UnpackHash(_, _)
UnpackArray(rb, x, i, size) ==
  IF i > size THEN UnpackHash(rb, x)
  ELSE LET r == UnpackOne(rb)
       IN  IF r.ok THEN UnpackArray(r.rb, RawSet(x, Integer(i), r.x), i + 1, size) ELSE Invalid

UnpackHash(rb, x) ==
  LET k == UnpackOne(rb)
      v == UnpackOne(k.rb)
  IN  IF ~k.ok THEN Invalid
      ELSE IF k.x.t = "nil" THEN Read(k.rb, x)
      ELSE IF v.ok THEN UnpackHash(v.rb, RawSet(x, k.x, v.x)) ELSE Invalid

UnpackTable(rb, cookie) ==
  LET type == RbRead(rb, 1, LAMBDA b : Integer(b[1]))
      size == GetInteger(type.rb, type.x.v \div 8)
  IN  IF cookie # MaxCookie - 1 THEN UnpackArray(rb, Table("table", cookie, <<>>), 1, cookie)
      ELSE IF ~type.ok \/ type.x.v % 8 # TYPE_NUMBER \/ ~size.ok THEN Invalid
      ELSE UnpackArray(size.rb, Table("table", size.x.v, <<>>), 1, size.x.v)

PushValue(rb, type, cookie) ==
  CASE type = TYPE_NIL -> Read(rb, NilValue)
    [] type = TYPE_BOOLEAN -> Read(rb, Value("boolean", cookie))
    [] type = TYPE_NUMBER ->
         IF cookie = TYPE_NUMBER_REAL THEN RbRead(rb, 8, LAMBDA b : Value("real", Unsigned(b)))
         ELSE GetInteger(rb, cookie)
    [] type = TYPE_USERDATA -> RbRead(rb, 8, LAMBDA b : Value("pointer", Unsigned(b)))
    [] type = TYPE_SHORT_STRING -> GetBuffer(rb, cookie)
    [] type = TYPE_LONG_STRING -> LongString(rb, cookie)
    [] type = TYPE_TABLE -> UnpackTable(rb, cookie)
    [] OTHER -> Invalid

UnpackOne(rb) ==
  IF rb = <<>> THEN Invalid ELSE PushValue(Tail(rb), Head(rb) % 8, Head(rb) \div 8)

\* luaseri_unpack: values until nothing is left.
RECURSIVE UnpackAll(_, _)
UnpackAll(rb, xs) ==
  IF rb = <<>> THEN [ok |-> TRUE, xs |-> xs]
  ELSE LET r == UnpackOne(rb)
       IN  IF r.ok THEN UnpackAll(r.rb, Append(xs, r.x)) ELSE [ok |-> FALSE, xs |-> <<>>]
Unpack(wire) == UnpackAll(wire, <<>>)

-----------------------------------------------------------------------------
\* What a value means: of a table, the set of its pairs.
RECURSIVE Meaning(_)
Meaning(x) ==
  IF x.t \notin {"table", "metatable"} THEN <<x.t, x.v, x.s, {}>>
  ELSE <<"table", 0, <<>>, {<<Meaning(x.pairs[p][1]), Meaning(x.pairs[p][2])>> :
                              p \in 1..Len(x.pairs)}>>
Same(xs, ys) == Len(xs) = Len(ys) /\ \A i \in 1..Len(xs) : Meaning(xs[i]) = Meaning(ys[i])

\* How deep a value is, and whether it can be packed.
RECURSIVE Packs(_, _)
Packs(x, depth) ==
  /\ depth <= MaxDepth /\ x.t # "function"
  /\ \A p \in 1..Len(x.pairs) : Packs(x.pairs[p][1], depth + 1) /\ Packs(x.pairs[p][2], depth + 1)
=============================================================================
