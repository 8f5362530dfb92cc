------------------------------- MODULE Sproto -------------------------------
\* sprotoparser.lua writes a schema into a bundle; sproto.c reads the bundle, and encodes
\* and decodes objects of its types; lsproto.c gives it the fields of Lua tables.  A byte
\* of data is a number below Base, and the limits of a word and of a dword scale with it.
EXTENDS Integers, Sequences
LOCAL INSTANCE SequencesExt

CONSTANTS
  Base,      \* the number of values of a byte (256)
  DeepLevel, \* ENCODE_DEEPLEVEL
  MaxSize    \* ENCODE_MAXSIZE

Bytes(v, sz) == [i \in 1..sz |-> (v \div Base ^ (i - 1)) % Base]
ToWord(s) == s[1] + Base * s[2]
ToDword(s) == s[1] + Base * s[2] + Base ^ 2 * s[3] + Base ^ 3 * s[4]
\* n bytes of s after the first at; and all after them
Sub(s, at, n) == SubSeq(s, at + 1, at + n)
After(s, at) == SubSeq(s, at + 1, Len(s))
\* packbytes, fill_size: the length and the bytes
Sized(s) == Bytes(Len(s), 4) \o s
PackValue(id) == Bytes((id + 1) * 2, 2)

\* A Lua value: an integer, boolean or string, an array or map (a) in the order of
\* lua_next, or a table with fields (f).
Lua(t) == [t |-> t, v |-> 0, s |-> <<>>, a |-> <<>>, f |-> <<>>]
Nil == Lua("nil")
Integer(v) == [Lua("integer") EXCEPT !.v = v]
Boolean(v) == [Lua("boolean") EXCEPT !.v = v]
String(s) == [Lua("string") EXCEPT !.s = s]
Array(a) == [Lua("array") EXCEPT !.a = a]
Object(f) == [Lua("object") EXCEPT !.f = f]
Get(x, name) == IF name \in DOMAIN x.f THEN x.f[name] ELSE Nil

\* buildin_types; and a type of the schema
TInteger == 0
TBoolean == 1
TString == 2
TStruct == 3
\* A field of a type: st is the index of its type, key the tag of the main index.
Field(name, tag, type, st, array, key) ==
  [name |-> name, tag |-> tag, type |-> type, st |-> st, array |-> array, key |-> key]

-----------------------------------------------------------------------------
\* The bundle.  A schema has types, sorted by name, and protocols, sorted by tag.
PackField(f) ==
  LET fields == IF ~f.array THEN 4 ELSE IF f.key < 0 THEN 5 ELSE 6
      kind   == IF f.type # TStruct THEN PackValue(f.type) \o Bytes(1, 2)
                ELSE Bytes(1, 2) \o PackValue(f.st)
  IN  Sized(Bytes(fields, 2) \o Bytes(0, 2) \o kind \o PackValue(f.tag)
            \o (IF f.array THEN PackValue(1) ELSE <<>>)
            \o (IF f.key >= 0 THEN PackValue(f.key) ELSE <<>>) \o Sized(f.name))

PackType(t) ==
  IF t.f = <<>> THEN Sized(Bytes(1, 2) \o Bytes(0, 2) \o Sized(t.name))
  ELSE Sized(Bytes(2, 2) \o Bytes(0, 4) \o Sized(t.name)
             \o Sized(FlattenSeq([i \in 1..Len(t.f) |-> PackField(t.f[i])])))

\* The type of a request or response; -1 if there is none.
PackProto(p) ==
  LET none   == p.request = -1 /\ p.response = -1
      fields == IF none THEN 2 ELSE IF p.response = -1 THEN 3 ELSE 4
      types  == IF none THEN <<>>
                ELSE (IF p.request # -1 THEN PackValue(p.request) ELSE Bytes(1, 2))
                     \o (IF p.response # -1 THEN PackValue(p.response) ELSE <<>>)
  IN  Sized(Bytes(fields, 2) \o Bytes(0, 2) \o PackValue(p.tag) \o types \o Sized(p.name))

PackGroup(types, protos) ==
  LET tt == Sized(FlattenSeq([i \in 1..Len(types) |-> PackType(types[i])]))
      tp == Sized(FlattenSeq([i \in 1..Len(protos) |-> PackProto(protos[i])]))
  IN  IF types = <<>> THEN Bytes(0, 2)
      ELSE IF protos = <<>> THEN Bytes(1, 2) \o Bytes(0, 2) \o tt
      ELSE Bytes(2, 2) \o Bytes(0, 4) \o tt \o tp

-----------------------------------------------------------------------------
\* struct_field, and the loop over the fields in sproto_decode: the fields that are not
\* skips, each with its index and tag, its value, and its data if the value is -1; and how
\* many bytes they take.
NoFields == [ok |-> FALSE, fn |-> -1, recs |-> <<>>, used |-> 0]
RECURSIVE Walk(_, _, _, _, _, _)
Walk(s, fn, i, tag, at, recs) ==
  LET value == ToWord(Sub(s, 2 + 2 * i, 2))
      rec   == [i |-> i, tag |-> tag + 1, value |-> value \div 2 - 1, data |-> <<>>]
      dsz   == ToDword(Sub(s, at, 4))
  IN  IF i = fn THEN [ok |-> TRUE, fn |-> fn, recs |-> recs, used |-> at]
      ELSE IF value % 2 = 1 THEN Walk(s, fn, i + 1, tag + 1 + value \div 2, at, recs)
      ELSE IF value # 0 THEN Walk(s, fn, i + 1, tag + 1, at, Append(recs, rec))
      ELSE IF Len(s) - at < 4 THEN NoFields
      ELSE IF Len(s) - at < 4 + dsz THEN NoFields
      ELSE Walk(s, fn, i + 1, tag + 1, at + 4 + dsz,
                Append(recs, [rec EXCEPT !.data = Sub(s, at + 4, dsz)]))

Fields(s, least) ==
  IF Len(s) < least THEN NoFields
  ELSE LET fn == ToWord(s)
       IN  IF Len(s) < 2 + 2 * fn THEN NoFields ELSE Walk(s, fn, 0, -1, 2 + 2 * fn, <<>>)
StructField(s) == Fields(s, 4)

\* count_array, decode_array_object: the elements of an array; ok is FALSE if they do not
\* fit in it.
RECURSIVE Elements(_, _)
Elements(s, acc) ==
  IF s = <<>> THEN [ok |-> TRUE, e |-> acc]
  ELSE IF Len(s) < 4 THEN [ok |-> FALSE, e |-> <<>>]
  ELSE IF ToDword(s) > Len(s) - 4 THEN [ok |-> FALSE, e |-> <<>>]
  ELSE Elements(After(s, 4 + ToDword(s)), Append(acc, Sub(s, 4, ToDword(s))))

\* A value of the record at this tag, or default.
ValueAt(p, tag, default) ==
  IF \E k \in 1..Len(p.recs) : p.recs[k].tag = tag
  THEN p.recs[CHOOSE k \in 1..Len(p.recs) : p.recs[k].tag = tag].value ELSE default

FieldOf(p, type_n) ==
  LET type == IF ValueAt(p, 2, -1) >= 0 THEN TStruct ELSE ValueAt(p, 1, -1)
      f    == Field(p.recs[1].data, ValueAt(p, 3, -1), type, ValueAt(p, 2, -1),
                    ValueAt(p, 4, 0) # 0, ValueAt(p, 5, -1))
  IN  [ok |-> /\ p.ok
              /\ p.recs # <<>> /\ p.recs[1].tag = 0
              /\ \A k \in 1..Len(p.recs) :
                   LET r == p.recs[k] IN
                   /\ r.tag = 0 <=> r.value = -1
                   /\ r.tag <= 5
                   /\ r.tag = 1 => r.value < TStruct
                   /\ r.tag = 2 => r.value < type_n /\ ValueAt(p, 1, -1) = -1
              /\ f.tag >= 0 /\ type >= 0,
       f  |-> f]
ImportField(s, type_n) == FieldOf(StructField(s), type_n)

NoType == [ok |-> FALSE, t |-> [name |-> <<>>, base |-> 0, maxn |-> 0, f |-> <<>>]]
TypeWith(name, fields) ==
  LET n     == Len(fields)
      Tag(i) == fields[i].f.tag
      last  == [i \in 1..n |-> IF i = 1 THEN -1 ELSE Tag(i - 1)]
      gaps  == Len(SelectSeq([i \in 1..n |-> Tag(i) > last[i] + 1], LAMBDA b : b))
  IN  [ok |-> \A i \in 1..n : fields[i].ok /\ Tag(i) > last[i],
       t  |-> [name |-> name, maxn |-> n + gaps, f |-> [i \in 1..n |-> fields[i].f],
               base |-> IF Tag(n) - Tag(1) + 1 = n THEN Tag(1) ELSE -1]]
TypeOf(p, es, type_n) ==
  IF p.fn \notin {1, 2} \/ (\E k \in 1..Len(p.recs) : p.recs[k].value # -1) THEN NoType
  ELSE IF p.fn = 1 THEN [ok |-> TRUE, t |-> [NoType.t EXCEPT !.name = p.recs[1].data]]
  ELSE IF ~es.ok THEN NoType
  ELSE TypeWith(p.recs[1].data, [i \in 1..Len(es.e) |-> ImportField(es.e[i], type_n)])
TypeFrom(p, type_n) == TypeOf(p, Elements(p.recs[2].data, <<>>), type_n)
ImportType(s, type_n) == TypeFrom(StructField(s), type_n)

\* The fields are told apart by their index, not by their tag.
ProtocolOf(p, type_n) ==
  LET At(i) == SelectSeq(p.recs, LAMBDA r : r.i = i)
      Or(i) == IF At(i) = <<>> THEN -1 ELSE At(i)[1].value
  IN  [ok |-> /\ p.ok /\ p.recs # <<>>
              /\ \A k \in 1..Len(p.recs) :
                   LET r == p.recs[k] IN
                   /\ r.i <= 3
                   /\ r.i = 0 <=> r.value = -1
                   /\ r.i \in {2, 3} => r.value < type_n
              /\ At(0) # <<>> /\ Or(1) >= 0,
       p  |-> [name |-> p.recs[1].data, tag |-> Or(1), request |-> Or(2), response |-> Or(3)]]
ImportProtocol(s, type_n) == ProtocolOf(StructField(s), type_n)

\* create_from_bundle: the groups of the bundle, then what is in them
Bundle(ok, ts, ps) ==
  LET all == /\ ok
             /\ \A i \in 1..Len(ts) : ts[i].ok
             /\ \A i \in 1..Len(ps) : ps[i].ok
  IN  [ok |-> all, types |-> IF all THEN [i \in 1..Len(ts) |-> ts[i].t] ELSE <<>>,
       protos |-> IF all THEN [i \in 1..Len(ps) |-> ps[i].p] ELSE <<>>]
BundleOf(p, es) ==
  LET n == IF p.fn > 0 THEN Len(es[1].e) ELSE 0
  IN  Bundle(/\ p.ok /\ p.fn <= 2 /\ Len(p.recs) = p.fn
             /\ \A i \in 1..p.fn : p.recs[i].value = -1 /\ es[i].ok,
             [i \in 1..n |-> ImportType(es[1].e[i], n)],
             [i \in 1..(IF p.fn = 2 THEN Len(es[2].e) ELSE 0) |-> ImportProtocol(es[2].e[i], n)])
CreateFrom(p) == BundleOf(p, [i \in 1..Len(p.recs) |-> Elements(p.recs[i].data, <<>>)])
Create(s) == CreateFrom(StructField(s))

\* The binary search of findtag and query_proto: the index of the entry with this tag, 0 if
\* there is none.
RECURSIVE Search(_, _, _, _)
Search(x, tag, begin, end) ==
  LET mid == (begin + end) \div 2
      t   == x[mid + 1].tag
  IN  IF begin >= end THEN 0
      ELSE IF t = tag THEN mid + 1
      ELSE IF tag > t THEN Search(x, tag, mid + 1, end) ELSE Search(x, tag, begin, mid)
QueryProto(sp, tag) == Search(sp.protos, tag, 0, Len(sp.protos))
FindTag(t, tag) ==
  IF t.base >= 0 THEN IF tag - t.base \in 0..Len(t.f) - 1 THEN tag - t.base + 1 ELSE 0
  ELSE Search(t.f, tag, 0, Len(t.f))
-----------------------------------------------------------------------------
\* Encoding.  The value of a field is skipped, stored in its record, or stored as data; or
\* there is no room in the buffer, or an error is raised.
IsInt32(v) == 2 * v >= -(Base ^ 4) /\ 2 * v < Base ^ 4
Inline == Base ^ 2 \div 2 - 1
Skip == [st |-> "skip", value |-> 0, b |-> <<>>]
NoRoom == [Skip EXCEPT !.st = "noroom"]
Raise == [Skip EXCEPT !.st = "raise"]
InRecord(v) == [st |-> "inline", value |-> v, b |-> <<>>]
Data(b) == [st |-> "data", value |-> 0, b |-> b]

EncodeInteger(v, size) ==
  LET sz  == IF IsInt32(v) THEN 4 ELSE 8
      u   == v % Base ^ sz
  IN  IF sz = 4 /\ u < Inline THEN InRecord((u + 1) * 2)
      ELSE IF size < 4 + sz THEN NoRoom ELSE Data(Sized(Bytes(u, sz)))

\* Not so: the upper halves are filled with zeros.
BadWiden(b) == [i \in 1..2 * Len(b) |->
                  LET e == (i - 1) \div 8
                      k == (i - 1) % 8
                  IN  IF k < 4 THEN b[4 * e + k + 1] ELSE 0]

\* encode_integer_array: of four bytes each until one needs eight; the ones before it are
\* then widened in place.
Widen(b) == [i \in 1..2 * Len(b) |->
               LET e == (i - 1) \div 8
                   k == (i - 1) % 8
               IN  IF k < 4 THEN b[4 * e + k + 1]
                   ELSE IF 2 * b[4 * e + 4] >= Base THEN Base - 1 ELSE 0]
RECURSIVE IntegerArray(_, _, _, _, _)
IntegerArray(a, i, intlen, size, b) ==
  IF i > Len(a) THEN Data(IF b = <<>> THEN b ELSE <<intlen>> \o b)
  ELSE IF a[i].t # "integer" THEN Raise
  ELSE LET v    == a[i].v
           wide == ~IsInt32(v)
           left == IF wide /\ intlen = 4 THEN size - 4 * (i - 1) ELSE size
           len  == IF wide THEN 8 ELSE intlen
           head == IF wide /\ intlen = 4 THEN Widen(b) ELSE b
       IN  IF size < 8 \/ left < 8 THEN NoRoom
           ELSE IntegerArray(a, i + 1, len, left - len, head \o Bytes(v % Base ^ len, len))

RECURSIVE BooleanArray(_, _, _, _)
BooleanArray(a, i, size, b) ==
  IF i > Len(a) THEN Data(b)
  ELSE IF a[i].t # "boolean" THEN Raise
  ELSE IF size < 1 THEN NoRoom ELSE BooleanArray(a, i + 1, size - 1, Append(b, a[i].v))

RECURSIVE Encode(_, _, _, _, _), ObjectArray(_, _, _, _, _, _, _),
          OneObject(_, _, _, _, _, _, _, _), EncodeFields(_, _, _, _, _, _, _)
\* encode of a string or of a table, as far as there is room
EncodeValue(sp, f, x, size, deep) ==
  IF f.type = TString
  THEN IF x.t # "string" THEN Raise ELSE IF Len(x.s) > size THEN NoRoom ELSE Data(x.s)
  ELSE IF x.t # "object" THEN Raise
  ELSE Encode(sp, sp.types[f.st + 1], x, size, deep + 1)

ObjectArray(sp, f, a, i, size, deep, b) ==
  IF size < 4 THEN NoRoom
  ELSE IF i > Len(a) THEN Data(b)
  ELSE OneObject(sp, f, a, i, size - 4, deep, b, EncodeValue(sp, f, a[i], size - 4, deep))
OneObject(sp, f, a, i, size, deep, b, e) ==
  IF e.st # "data" THEN e
  ELSE ObjectArray(sp, f, a, i + 1, size - Len(e.b), deep, b \o Sized(e.b))

SizedData(r) == IF r.st = "data" THEN Data(Sized(r.b)) ELSE r
EncodeArray(sp, f, x, size, deep) ==
  LET r == CASE f.type = TInteger -> IntegerArray(x.a, 1, 4, size - 5, <<>>)
             [] f.type = TBoolean -> BooleanArray(x.a, 1, size - 4, <<>>)
             [] OTHER -> ObjectArray(sp, f, x.a, 1, size - 4, deep, <<>>)
  IN  IF size < 4 \/ (f.type = TInteger /\ size < 5) \/ (f.type >= TString /\ size < 8) THEN NoRoom
      ELSE IF x.t = "nil" THEN Skip
      ELSE IF x.t # "array" THEN Raise
      ELSE SizedData(r)

EncodeField(sp, f, x, size, deep) ==
  IF deep >= DeepLevel THEN Raise
  ELSE IF f.array THEN EncodeArray(sp, f, x, size, deep)
  ELSE IF f.type >= TString /\ size < 4 THEN NoRoom
  ELSE IF x.t = "nil" THEN Skip
  ELSE CASE f.type = TInteger -> IF x.t = "integer" THEN EncodeInteger(x.v, size) ELSE Raise
         [] f.type = TBoolean -> IF x.t = "boolean" THEN EncodeInteger(x.v, size) ELSE Raise
         [] OTHER -> SizedData(EncodeValue(sp, f, x, size - 4, deep))

\* The fields from the i-th: the records so far, the tag of the last one, and the data.
AddField(f, acc, r) ==
  LET gap  == f.tag - acc.last - 1
      skip == IF gap > 0 THEN <<(gap - 1) * 2 + 1>> ELSE <<>>
  IN  IF r.st \in {"noroom", "raise"} THEN [acc EXCEPT !.st = r.st]
      ELSE IF r.st = "skip" THEN acc
      ELSE IF gap > 0 /\ skip[1] >= Base ^ 2 THEN [acc EXCEPT !.st = "noroom"]
      ELSE [acc EXCEPT !.recs = @ \o skip \o <<r.value>>, !.last = f.tag, !.b = @ \o r.b]
EncodeFields(sp, t, x, i, size, deep, acc) ==
  IF i > Len(t.f) \/ acc.st # "data" THEN acc
  ELSE EncodeFields(sp, t, x, i + 1, size, deep,
         AddField(t.f[i], acc,
           EncodeField(sp, t.f[i], Get(x, t.f[i].name), size - Len(acc.b), deep)))

\* sproto_encode, with room for maxn records before the data; a record more would be
\* written over the data.
Records(t, r) ==
  IF r.st # "data" THEN [Skip EXCEPT !.st = r.st]
  ELSE IF Len(r.recs) > t.maxn THEN [Skip EXCEPT !.st = "overrun"]
  ELSE Data(Bytes(Len(r.recs), 2)
            \o FlattenSeq([i \in 1..Len(r.recs) |-> Bytes(r.recs[i], 2)]) \o r.b)
Encode(sp, t, x, size, deep) ==
  LET header == 2 + 2 * t.maxn
      none   == [st |-> "data", recs |-> <<>>, last |-> -1, b |-> <<>>]
  IN  IF size < header THEN NoRoom
      ELSE Records(t, EncodeFields(sp, t, x, 1, size - header, deep, none))

\* lencode, expand_buffer: the buffer is doubled until the object fits.
RECURSIVE LEncode(_, _, _, _), Expand(_, _, _, _, _)
Expand(sp, t, x, size, r) ==
  IF r.st # "noroom" THEN [st |-> r.st, b |-> r.b, size |-> size]
  ELSE IF size * 2 > MaxSize THEN [st |-> "raise", b |-> <<>>, size |-> size]
  ELSE LEncode(sp, t, x, size * 2)
LEncode(sp, t, x, size) == Expand(sp, t, x, size, Encode(sp, t, x, size, 0))

-----------------------------------------------------------------------------
\* Decoding.  The bytes the object takes, -1 after an error, and the object.
Failed == [used |-> -1, x |-> Nil]
ToInteger(s) == LET u == ToDword(s) + Base ^ 4 * (IF Len(s) = 8 THEN ToDword(After(s, 4)) ELSE 0)
                IN  IF 2 * s[Len(s)] >= Base THEN Integer(u - Base ^ Len(s)) ELSE Integer(u)

RECURSIVE Decode(_, _, _, _), DecodeFields(_, _, _, _, _, _)
\* A string, or a table whose bytes are all used; its main index must be there.
Ok(x) == [ok |-> TRUE, x |-> x]
No == [ok |-> FALSE, x |-> Nil]
DecodeValue(sp, f, s, deep) ==
  LET r == Decode(sp, sp.types[f.st + 1], s, deep + 1)
  IN  IF f.type = TString THEN Ok(String(s))
      ELSE IF r.used # Len(s) THEN No ELSE Ok(r.x)

\* The name of the field with the main index of f.
KeyName(sp, f) == LET t == sp.types[f.st + 1] IN t.f[FindTag(t, f.key)].name

\* decode_array; of the elements of a map the last one with a key stays.
Decoded(sp, f, e) ==
  LET Key(i) == Get(e[i].x, KeyName(sp, f))
      kept == SelectSeq([i \in 1..Len(e) |-> i],
                        LAMBDA i : ~\E j \in i + 1..Len(e) : Key(j) = Key(i))
  IN  IF \E i \in 1..Len(e) : ~e[i].ok THEN No
      ELSE IF f.key < 0 THEN Ok(Array([i \in 1..Len(e) |-> e[i].x]))
      ELSE IF \E i \in 1..Len(e) : Key(i) = Nil THEN No
      ELSE Ok(Array([i \in 1..Len(kept) |-> e[kept[i]].x]))
DecodeElements(sp, f, es, deep) ==
  IF ~es.ok THEN No
  ELSE Decoded(sp, f, [i \in 1..Len(es.e) |-> DecodeValue(sp, f, es.e[i], deep)])
DecodeArray(sp, f, s, deep) ==
  LET len  == s[1]
      ints == [i \in 1..(Len(s) - 1) \div len |-> ToInteger(Sub(s, 1 + (i - 1) * len, len))]
  IN  IF s = <<>> THEN Ok(Array(<<>>))
      ELSE CASE f.type = TInteger ->
                  IF len \in {4, 8} /\ (Len(s) - 1) % len = 0 THEN Ok(Array(ints)) ELSE No
             [] f.type = TBoolean -> Ok(Array([i \in 1..Len(s) |-> Boolean(s[i])]))
             [] OTHER -> DecodeElements(sp, f, Elements(s, <<>>), deep)

DecodeField(sp, f, r, deep) ==
  IF deep >= DeepLevel THEN No
  ELSE IF r.value >= 0
  THEN IF f.type \notin {TInteger, TBoolean} \/ f.array THEN No
       ELSE Ok(IF f.type = TInteger THEN Integer(r.value) ELSE Boolean(r.value))
  ELSE IF f.array THEN DecodeArray(sp, f, r.data, deep)
  ELSE CASE f.type = TInteger ->
              IF Len(r.data) \in {4, 8} THEN Ok(ToInteger(r.data)) ELSE No
         [] f.type = TBoolean -> No
         [] OTHER -> DecodeValue(sp, f, r.data, deep)

\* A field whose tag the type does not have is left out.
DecodeFields(sp, t, recs, i, deep, f) ==
  IF i > Len(recs) THEN Ok(Object(f))
  ELSE LET k == FindTag(t, recs[i].tag)
           v == DecodeField(sp, t.f[k], recs[i], deep)
           g == [n \in DOMAIN f \cup {t.f[k].name} |-> IF n = t.f[k].name THEN v.x ELSE f[n]]
       IN  IF k = 0 THEN DecodeFields(sp, t, recs, i + 1, deep, f)
           ELSE IF ~v.ok THEN No ELSE DecodeFields(sp, t, recs, i + 1, deep, g)

Decode(sp, t, s, deep) ==
  LET p == Fields(s, 2)
      r == DecodeFields(sp, t, p.recs, 1, deep, <<>>)
  IN  IF p.ok /\ r.ok THEN [used |-> p.used, x |-> r.x] ELSE Failed

-----------------------------------------------------------------------------
\* What of a value a type stands for: the fields that are there, of a map the last element
\* with each main index.
RECURSIVE Meaning(_, _, _)
Meaning(sp, t, x) ==
  [k \in {i \in 1..Len(t.f) : Get(x, t.f[i].name) # Nil} |->
     LET f == t.f[k]
         y == Get(x, f.name)
         Elem(z) == IF f.type = TStruct THEN Meaning(sp, sp.types[f.st + 1], z) ELSE <<z.v, z.s>>
     IN  IF ~f.array THEN Elem(y)
         ELSE IF f.key < 0 THEN [i \in 1..Len(y.a) |-> Elem(y.a[i])]
         ELSE {Elem(y.a[i]) : i \in 1..Len(y.a)}]
=============================================================================
