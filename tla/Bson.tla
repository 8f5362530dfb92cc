-------------------------------- MODULE Bson --------------------------------
\* lua-bson.c: Lua tables become BSON documents and come back; fields of fixed size are
\* replaced in place through an index.  A byte of data is a number below Base; the types,
\* and the character that stands for a number used as a key, are numbers of their own.
EXTENDS Integers, Sequences
LOCAL INSTANCE SequencesExt

CONSTANTS
  Base,     \* the number of values of a byte (256)
  Second,   \* the milliseconds of a second (1000)
  MaxDepth  \* MAX_DEPTH

REAL == 1
STRING_ == 2
DOCUMENT == 3
ARRAY == 4
BINARY == 5
OBJECTID == 7
BOOLEAN_ == 8
DATE == 9
NULL == 10
REGEX == 11
DBPOINTER == 12
JSCODE == 13
SYMBOL == 14
CODEWS == 15
INT32 == 16
TIMESTAMP == 17
INT64 == 18
MINKEY == 255
MAXKEY == 127

\* A Lua value.  A string that begins with a zero and a type is a special value of that
\* type.  A table has its pairs in the order of lua_next; v is its raw length.
Value(t, v) == [t |-> t, v |-> v, s |-> <<>>, pairs |-> <<>>]
Nil == Value("nil", 0)
Integer(v) == Value("integer", v)
Number(v) == Value("number", v)
Boolean(v) == Value("boolean", v)
String(s) == [Nil EXCEPT !.t = "string", !.s = s]
Special(type, s) == String(<<0, type>> \o s)
Table(t, n, pairs) == [Nil EXCEPT !.t = t, !.v = n, !.pairs = pairs]
Userdata(doc) == [Nil EXCEPT !.t = "userdata", !.s = doc]

Bytes(v, sz) == [i \in 1..sz |-> (v \div Base ^ (i - 1)) % Base]
Unsigned(b) == LET U[i \in 0..Len(b)] == IF i = 0 THEN 0 ELSE U[i - 1] + b[i] * Base ^ (i - 1)
               IN  U[Len(b)]
Signed(b) == IF 2 * b[Len(b)] >= Base THEN Unsigned(b) - Base ^ Len(b) ELSE Unsigned(b)
Is32Bit(v) == 2 * v >= -(Base ^ 4) /\ 2 * v < Base ^ 4

\* bson_numstr, strtol
Digits == 1000
NumStr(i) == <<Digits + i>>
StrTol(key) == IF Len(key) = 1 /\ key[1] >= Digits THEN key[1] - Digits ELSE 0

\* ldate, ltimestamp, lregex, lbinary
Date(d) == Special(DATE, Bytes(d, 4))
Timestamp(d, inc) == Special(TIMESTAMP, Bytes(inc, 4) \o Bytes(d, 4))
Regex(r1, r2) == Special(REGEX, r1 \o <<0>> \o r2 \o <<0>>)
Binary(s) == Special(BINARY, <<0>> \o s)

-----------------------------------------------------------------------------
\* Encoding; <<-1>> after an error.
Error == <<-1>>
IsError(b) == b # <<>> /\ b[Len(b)] = -1
CString(s) == s \o <<0>>
Key(type, key) == <<type>> \o CString(key)

\* Where the two parts of a regular expression meet: after the last zero but the final one.
Split(s) == CHOOSE i \in 1..Len(s) : s[i] = 0 /\ \A j \in i + 1..Len(s) : s[j] # 0

AppendNumber(key, x) ==
  IF x.t = "number" THEN Key(REAL, key) \o Bytes(x.v, 8)
  ELSE IF Is32Bit(x.v) THEN Key(INT32, key) \o Bytes(x.v % Base ^ 4, 4)
  ELSE Key(INT64, key) \o Bytes(x.v, 8)

AppendSpecial(key, type, s) ==
  LET body == CASE type = BINARY -> Bytes(Len(s) - 1, 4) \o s
                [] type = OBJECTID -> IF Len(s) = 12 THEN s ELSE Error
                [] type \in {JSCODE, DBPOINTER, SYMBOL, CODEWS} -> s
                [] type = DATE -> IF Len(s) = 4 THEN Bytes(Unsigned(s) * Second, 8) ELSE Error
                [] type = TIMESTAMP -> IF Len(s) = 8 THEN s ELSE Error
                [] type = REGEX -> LET r == SubSeq(s, 1, Len(s) - 1)
                                   IN  CString(SubSeq(r, 1, Split(r) - 1))
                                       \o CString(SubSeq(r, Split(r) + 1, Len(r)))
                [] type \in {MINKEY, MAXKEY, NULL} -> <<>>
                [] OTHER -> Error
  IN  IF IsError(body) THEN Error ELSE Key(type, key) \o body

AppendString(key, s) ==
  IF Len(s) > 1 /\ s[1] = 0 THEN AppendSpecial(key, s[2], SubSeq(s, 3, Len(s)))
  ELSE Key(STRING_, key) \o Bytes(Len(s) + 1, 4) \o CString(s)

\* The length of a document includes itself and the zero at the end.
Document(body) == IF IsError(body) THEN Error ELSE Bytes(Len(body) + 5, 4) \o body \o <<0>>

\* is_rawarray: no key follows the last one of the array in the order of lua_next.
IsRawArray(x) == x.v > 0 /\ x.pairs[Len(x.pairs)][1] = Integer(x.v)
RawGet(x, i) ==
  LET hit == {p \in 1..Len(x.pairs) : x.pairs[p][1] = Integer(i)}
  IN  IF hit = {} THEN Nil ELSE x.pairs[CHOOSE p \in hit : TRUE][2]

RECURSIVE AppendOne(_, _, _), PackPairs(_, _)
\* pack_array, pack_dict_data: the fields one after the other, up to an error
PackArray(x, n, depth) == PackPairs([i \in 1..n |-> <<NumStr(i - 1), RawGet(x, i)>>], depth)
PackDict(x, depth) ==
  IF \E p \in 1..Len(x.pairs) : x.pairs[p][1].t \notin {"integer", "string"} THEN Error
  ELSE PackPairs([p \in 1..Len(x.pairs) |->
                    LET k == x.pairs[p][1]
                    IN  <<IF k.t = "integer" THEN NumStr(k.v) ELSE k.s, x.pairs[p][2]>>], depth)
PackPairs(fields, depth) ==
  IF fields = <<>> THEN <<>>
  ELSE LET one  == AppendOne(Head(fields)[1], Head(fields)[2], depth)
           rest == PackPairs(Tail(fields), depth)
       IN  IF IsError(one) \/ IsError(rest) THEN Error ELSE one \o rest

AppendTable(key, x, depth) ==
  LET array == x.t = "len" \/ (x.t = "table" /\ IsRawArray(x))
      body  == Document(IF array THEN PackArray(x, x.v, depth) ELSE PackDict(x, depth))
  IN  IF depth > MaxDepth \/ IsError(body) THEN Error
      ELSE Key(IF array THEN ARRAY ELSE DOCUMENT, key) \o body

AppendOne(key, x, depth) ==
  CASE x.t \in {"integer", "number"} -> AppendNumber(key, x)
    [] x.t = "userdata" -> Key(DOCUMENT, key) \o x.s
    [] x.t = "string" -> AppendString(key, x.s)
    [] x.t \in {"table", "len", "pairs"} -> AppendTable(key, x, depth + 1)
    [] x.t = "boolean" -> Key(BOOLEAN_, key) \o <<x.v>>
    [] OTHER -> Error

\* lencode, pack_simple_dict, pack_meta_dict; and lencode_order, of keys and values in turn
Encode(x) == Document(PackDict(x, 0))
EncodeOrder(fields) == Document(PackPairs(fields, 0))

-----------------------------------------------------------------------------
\* Decoding: what is left of the block, and the value; ok is FALSE after an error.
Read(rb, x) == [ok |-> TRUE, x |-> x, rb |-> rb]
Invalid == [ok |-> FALSE, x |-> Nil, rb |-> <<>>]
After(rb, sz) == SubSeq(rb, sz + 1, Len(rb))
\* sz bytes, of which a value is made
ReadBytes(rb, sz, Make(_)) ==
  IF Len(rb) < sz THEN Invalid ELSE Read(After(rb, sz), Make(SubSeq(rb, 1, sz)))
\* read_cstring
ReadCString(rb) ==
  IF \A i \in 1..Len(rb) : rb[i] # 0 THEN Invalid
  ELSE LET i == CHOOSE i \in 1..Len(rb) : rb[i] = 0 /\ \A j \in 1..i - 1 : rb[j] # 0
       IN  Read(After(rb, i), String(SubSeq(rb, 1, i - 1)))
\* read_int32, and then as many bytes and more
ReadSized(rb, more, Make(_)) ==
  IF Len(rb) < 4 THEN Invalid ELSE ReadBytes(After(rb, 4), Signed(SubSeq(rb, 1, 4)) + more, Make)
\* The same with the length in front.
ReadObject(rb, type, more) ==
  IF Len(rb) < 4 THEN Invalid
  ELSE ReadBytes(rb, 4 + Signed(SubSeq(rb, 1, 4)) + more, LAMBDA b : Special(type, b))
\* A date is read as a number of 32 bits again.
UnDate(b) == Date((Unsigned(b) \div Second) % Base ^ 4)

ReadRegex(rb) ==
  LET r1 == ReadCString(rb)
      r2 == ReadCString(r1.rb)
  IN  IF r1.ok /\ r2.ok THEN Read(r2.rb, Regex(r1.x.s, r2.x.s)) ELSE Invalid

\* lua_rawset: the pair is added, or takes the place of the one with this key.
RawSet(x, k, v) == [x EXCEPT !.pairs = Append(SelectSeq(@, LAMBDA p : p[1] # k), <<k, v>>)]

RECURSIVE UnpackDict(_, _), UnpackFields(_, _, _)
UnpackValue(rb, bt) ==
  CASE bt = REAL -> ReadBytes(rb, 8, LAMBDA b : Number(Unsigned(b)))
    [] bt = BOOLEAN_ -> ReadBytes(rb, 1, LAMBDA b : Boolean(b[1]))
    [] bt = STRING_ ->
         IF Len(rb) >= 4 /\ Signed(SubSeq(rb, 1, 4)) <= 0 THEN Invalid
         ELSE ReadSized(rb, 0, LAMBDA b : String(SubSeq(b, 1, Len(b) - 1)))
    [] bt = DOCUMENT -> UnpackDict(rb, FALSE)
    [] bt = ARRAY -> UnpackDict(rb, TRUE)
    [] bt = BINARY -> ReadSized(rb, 1, LAMBDA b : Special(BINARY, b))
    [] bt = OBJECTID -> ReadBytes(rb, 12, LAMBDA b : Special(OBJECTID, b))
    [] bt = DATE -> ReadBytes(rb, 8, UnDate)
    [] bt \in {MINKEY, MAXKEY, NULL} -> Read(rb, Special(bt, <<>>))
    [] bt = REGEX -> ReadRegex(rb)
    [] bt = INT32 -> ReadBytes(rb, 4, LAMBDA b : Integer(Signed(b)))
    [] bt = TIMESTAMP -> ReadBytes(rb, 8, LAMBDA b : Special(TIMESTAMP, b))
    [] bt = INT64 -> ReadBytes(rb, 8, LAMBDA b : Integer(Signed(b)))
    [] bt = DBPOINTER -> ReadObject(rb, bt, 12)
    [] bt \in {JSCODE, SYMBOL} -> ReadObject(rb, bt, 0)
    [] bt = CODEWS -> ReadObject(rb, bt, -4)
    [] OTHER -> Invalid

UnpackFields(rb, x, array) ==
  IF rb = <<>> THEN Read(rb, x)
  ELSE LET key == ReadCString(Tail(rb))
           v   == UnpackValue(key.rb, Head(rb))
           k   == IF array THEN Integer(StrTol(key.x.s) + 1) ELSE key.x
       IN  IF key.ok /\ v.ok THEN UnpackFields(v.rb, RawSet(x, k, v.x), array) ELSE Invalid

UnpackDict(rb, array) ==
  LET sz   == Signed(SubSeq(rb, 1, 4))
      body == UnpackFields(SubSeq(rb, 5, sz - 1), Table("table", 0, <<>>), array)
  IN  IF Len(rb) < 4 \/ sz < 5 \/ Len(rb) < sz \/ rb[sz] # 0 \/ ~body.ok THEN Invalid
      ELSE Read(After(rb, sz), [body.x EXCEPT !.v = IF array THEN Len(body.x.pairs) ELSE 0])

\* ldecode
Decode(doc) == UnpackDict(doc, FALSE)
-----------------------------------------------------------------------------
\* lmakeindex: where the fields of fixed size are, and their types.
FieldSize(bt) == CASE bt \in {INT64, TIMESTAMP, DATE, REAL} -> 8 [] bt = BOOLEAN_ -> 1
                   [] bt = OBJECTID -> 12 [] bt = INT32 -> 4 [] OTHER -> 0
\* How many bytes the other fields take; -1 after an error.
VarSize(rb, bt) ==
  LET sz == Signed(SubSeq(rb, 1, 4))
      r1 == ReadCString(rb)
      r2 == ReadCString(r1.rb)
      n  == CASE bt \in {JSCODE, SYMBOL, STRING_} -> 4 + sz
              [] bt \in {CODEWS, ARRAY, DOCUMENT} -> sz
              [] bt = BINARY -> 4 + sz + 1
              [] bt = DBPOINTER -> 4 + sz + 12
              [] OTHER -> -1
  IN  IF bt \in {MINKEY, MAXKEY, NULL} THEN 0
      ELSE IF bt = REGEX THEN IF r1.ok /\ r2.ok THEN Len(rb) - Len(r2.rb) ELSE -1
      ELSE IF Len(rb) < 4 \/ n > Len(rb) THEN -1 ELSE n

\* at is how many bytes of the document were read; it ends before its last zero.
RECURSIVE IndexFrom(_, _, _)
IndexFrom(doc, at, index) ==
  LET rb   == SubSeq(doc, at + 1, Len(doc) - 1)
      key  == ReadCString(Tail(rb))
      pos  == Len(doc) - 1 - Len(key.rb)
      size == IF FieldSize(Head(rb)) > 0 THEN FieldSize(Head(rb)) ELSE VarSize(key.rb, Head(rb))
      item == IF FieldSize(Head(rb)) > 0 THEN {[key |-> key.x.s, type |-> Head(rb), at |-> pos]} ELSE {}
  IN  IF rb = <<>> THEN index
      ELSE IndexFrom(doc, pos + size, {e \in index : e.key # key.x.s} \cup item)
MakeIndex(doc) == IndexFrom(doc, 4, {})

\* lreplace: the bytes that are written for a value of this type
Replacement(type, x) ==
  CASE type = REAL /\ x.t \in {"number", "integer"} -> Bytes(x.v, 8)
    [] type = BOOLEAN_ -> <<IF x.t = "boolean" THEN x.v ELSE IF x.t = "nil" THEN 0 ELSE 1>>
    [] type = INT32 /\ x.t = "integer" -> Bytes(x.v % Base ^ 4, 4)
    [] type = INT64 /\ x.t = "integer" -> Bytes(x.v, 8)
    [] type \in {OBJECTID, DATE, TIMESTAMP} /\ x.t = "string" ->
         IF Len(x.s) < 6 \/ x.s[1] # 0 \/ x.s[2] # type THEN Error
         ELSE LET field == AppendSpecial(<<>>, type, SubSeq(x.s, 3, Len(x.s)))
              IN  IF IsError(field) THEN Error ELSE SubSeq(field, 3, Len(field))
    [] OTHER -> Error
Replace(doc, key, x) ==
  LET hit == {e \in MakeIndex(doc) : e.key = key}
      e   == CHOOSE e \in hit : TRUE
      b   == Replacement(e.type, x)
  IN  IF hit = {} \/ IsError(b) THEN Error
      ELSE [i \in 1..Len(doc) |-> IF i - e.at \in 1..Len(b) THEN b[i - e.at] ELSE doc[i]]

-----------------------------------------------------------------------------
\* ltype, lsubtype: the name of the type of a value, and what it consists of
TypeOf(x) ==
  LET s == SubSeq(x.s, 3, Len(x.s))
      r == SubSeq(s, 1, Len(s) - 1)
  IN  CASE x.t \in {"integer", "number"} -> <<"number", x.v>>
        [] x.t \in {"table", "len", "pairs"} -> <<"table">>
        [] x.t # "string" -> <<x.t, x.v>>
        [] x.t = "string" /\ ~(Len(x.s) >= 2 /\ x.s[1] = 0) -> <<"string", x.s>>
        [] OTHER ->
             CASE x.s[2] = BINARY -> <<"binary", Tail(s), s[1]>>
               [] x.s[2] = OBJECTID -> <<"objectid", s>>
               [] x.s[2] = DATE -> <<"date", Signed(s)>>
               [] x.s[2] = TIMESTAMP -> <<"timestamp", Unsigned(SubSeq(s, 5, 8)), Unsigned(SubSeq(s, 1, 4))>>
               [] x.s[2] = REGEX -> <<"regex", SubSeq(r, 1, Split(r) - 1), SubSeq(r, Split(r) + 1, Len(r))>>
               [] x.s[2] = MINKEY -> <<"minkey">>
               [] x.s[2] = MAXKEY -> <<"maxkey">>
               [] x.s[2] = NULL -> <<"nil">>
               [] OTHER -> <<"unsupported", s>>

\* What a value means: of a table the set of its pairs, with the keys of a document as
\* strings and those of an array as numbers.
RECURSIVE Meaning(_)
Meaning(x) ==
  LET array == x.t = "len" \/ (x.t = "table" /\ IsRawArray(x))
  IN  IF x.t = "userdata" THEN Meaning(Decode(x.s).x)
      ELSE IF x.t \notin {"table", "len", "pairs"} THEN <<x.t, x.v, x.s, {}>>
      ELSE <<"table", 0, <<>>,
             {<<Meaning(IF p[1].t = "integer" /\ ~array THEN String(NumStr(p[1].v)) ELSE p[1]),
                Meaning(p[2])>> : p \in {x.pairs[i] : i \in 1..Len(x.pairs)}}>>
=============================================================================
