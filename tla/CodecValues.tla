---------------------------- MODULE CodecValues ----------------------------
\* The codecs with small limits, and what is written by them.
EXTENDS Integers, Sequences
LOCAL INSTANCE Functions

Seri == INSTANCE Seri WITH Base <- 4, MaxCookie <- 4, BlockSize <- 5, MaxDepth <- 2
Sproto == INSTANCE Sproto WITH Base <- 6, DeepLevel <- 3, MaxSize <- 400
Words == INSTANCE ZeroPack WITH Seg <- 4, MaxRun <- 2, Beyond <- 7
Zero == INSTANCE ZeroPack WITH Seg <- 8, MaxRun <- 3, Beyond <- 1
Bson == INSTANCE Bson WITH Base <- 4, Second <- 3, MaxDepth <- 2
Share == INSTANCE ShareTable WITH IntMod <- 16
Crypt == INSTANCE Crypt WITH W <- 64, P <- 61, G <- 5, Block <- 3, Rounds <- 2

\* Values at the edges of every length and form
SeriValues ==
  LET I(v) == Seri!Integer(v)
      S(s) == Seri!Str(s)
      T(n, pairs) == Seri!Table("table", n, pairs)
      Deep == T(1, << <<I(1), T(0, << <<S(<<1>>), T(0, <<>>)>> >>)>> >>)
  IN  << Seri!NilValue, I(0), I(1), I(3), I(4), I(15), I(16), I(-1), I(127), I(128), I(-128),
         I(-129), Seri!Value("real", 77), Seri!Value("boolean", 1), Seri!Value("pointer", 99),
         S(<<>>), S(<<1, 2, 3>>), S(<<1, 2, 3, 0>>), S([i \in 1..17 |-> i % 4]),
         T(0, <<>>), T(2, << <<I(1), I(7)>>, <<S(<<2>>), I(4)>>, <<I(2), S(<<1>>)>> >>),
         T(3, << <<I(1), I(7)>>, <<I(2), I(8)>>, <<I(3), I(9)>>, <<I(5), I(6)>> >>),
         Seri!Table("metatable", 0, << <<I(1), I(7)>>, <<S(<<2>>), I(4)>> >>),
         Deep, T(1, << <<I(1), Deep>> >>), Seri!Value("function", 0) >>

BsonKey(n) == Bson!String(<<n>>)
BsonValues ==
  LET I(v) == Bson!Integer(v)
      T(t, n, pairs) == Bson!Table(t, n, pairs)
      Twelve == [i \in 1..12 |-> i % 4]
      Object == T("table", 0, << <<BsonKey(1), I(7)>> >>)
  IN  << I(0), I(-1), I(127), I(128), I(-128), I(-129), Bson!Number(9), Bson!Boolean(1),
         Bson!String(<<>>), Bson!String(<<0>>), Bson!String(<<1, 0, 2>>), Bson!Binary(<<3, 0>>),
         Bson!Special(Bson!OBJECTID, Twelve), Bson!Date(5), Bson!Date(-3), Bson!Timestamp(7, 9),
         Bson!Regex(<<1, 2>>, <<3>>), Bson!Regex(<<>>, <<>>), Bson!Special(Bson!NULL, <<>>),
         Bson!Special(Bson!MINKEY, <<>>), Bson!Special(Bson!JSCODE, Bson!Bytes(2, 4) \o <<1, 0>>),
         Bson!Special(Bson!CODEWS, Bson!Bytes(6, 4) \o <<1, 0>>),
         Bson!Special(Bson!DBPOINTER, Bson!Bytes(2, 4) \o <<1, 0>> \o Twelve),
         T("table", 0, <<>>), T("table", 2, << <<I(1), I(5)>>, <<I(2), BsonKey(3)>> >>),
         T("table", 0, << <<BsonKey(1), T("table", 1, << <<I(1), BsonKey(2)>> >>)>>, <<I(7), I(1)>> >>),
         T("len", 1, << <<I(1), I(5)>> >>), T("pairs", 0, << <<BsonKey(1), I(5)>> >>),
         Bson!Userdata(Bson!Encode(Object)), Bson!Value("function", 0) >>
BsonDoc(x, y) == Bson!Table("table", 0, << <<BsonKey(1), x>>, <<BsonKey(2), y>> >>)

\* A schema with the types of fields there are, and a later one that lacks some of them
SprotoTypes ==
  LET F(n, tag, type) == Sproto!Field(<<n>>, tag, type, -1, FALSE, -1)
      S(n, tag, st) == Sproto!Field(<<n>>, tag, Sproto!TStruct, st, FALSE, -1)
      A(f) == [f EXCEPT !.array = TRUE]
      M(f, key) == [A(f) EXCEPT !.key = key]
  IN  << [name |-> <<1>>, f |-> <<F(1, 0, Sproto!TInteger), F(2, 1, Sproto!TBoolean), F(3, 4, Sproto!TString)>>],
         [name |-> <<2>>, f |-> <<A(F(1, 0, Sproto!TInteger)), A(F(2, 1, Sproto!TBoolean)), A(S(3, 2, 0)),
                                  M(S(4, 4, 0), 0), S(5, 6, 1), A(F(6, 7, Sproto!TString))>>],
         [name |-> <<3>>, f |-> <<F(2, 1, Sproto!TBoolean), F(4, 2, Sproto!TInteger)>>],
         [name |-> <<4>>, f |-> <<A(F(1, 0, Sproto!TInteger)), M(S(4, 4, 0), 0), S(5, 6, 3)>>],
         [name |-> <<5>>, f |-> <<>>] >>
SprotoProtos == << [name |-> <<1>>, tag |-> 1, request |-> 0, response |-> -1],
                   [name |-> <<2>>, tag |-> 2, request |-> -1, response |-> 1],
                   [name |-> <<3>>, tag |-> 5, request |-> -1, response |-> -1],
                   [name |-> <<4>>, tag |-> 7, request |-> 2, response |-> 1] >>
Schema == Sproto!Create(Sproto!PackGroup(SprotoTypes, SprotoProtos))

\* Objects of the first two types
SprotoObjects ==
  LET I(v) == Sproto!Integer(v)
      Obj(names, f(_)) == Sproto!Object([n \in {<<m>> : m \in names} |-> f(n[1])])
      One(n, x) == Obj({n}, LAMBDA m : x)
      Small(names) == Obj(names, LAMBDA m : CASE m = 1 -> I(17) [] m = 2 -> Sproto!Boolean(1)
                                              [] m = 3 -> Sproto!String(<<1, 2, 3>>))
      Ints == {-648, -649, -1, 0, 16, 17, 647, 648}
      Arr(n, a) == <<2, One(n, Sproto!Array(a))>>
  IN  {<<1, Small(names)>> : names \in SUBSET {1, 2, 3}} \cup {<<1, One(1, I(i))>> : i \in Ints}
      \cup {Arr(1, <<I(-2), I(i), I(1)>>) : i \in Ints} \cup {Arr(1, <<>>)}
      \cup {Arr(2, <<Sproto!Boolean(1), Sproto!Boolean(0)>>)}
      \cup {Arr(n, <<Small({1, 3}), [Small({1}) EXCEPT !.f[<<1>>] = I(3)]>>) : n \in {3, 4}}
      \cup {Arr(6, <<Sproto!String(<<>>), Sproto!String(<<5>>)>>), Arr(4, <<Small({2})>>)}
      \cup {<<2, One(5, One(5, One(1, Sproto!Array(<<I(4)>>))))>>,
            <<2, One(5, One(5, One(5, One(5, Sproto!Nil))))>>, <<1, One(1, Sproto!Nil)>>, <<1, One(3, I(2))>>}

\* Tables with up to four entries in every order: numbers in and out of the array, three
\* strings two of which have one hash, and strings and tables as values
ShareKeys == {Share!Integer(-1), Share!Integer(1), Share!Integer(2), Share!Integer(5),
              Share!Str("a", 5), Share!Str("b", 2), Share!Str("c", 5)}
ShareTables ==
  LET V(k) == CASE k = Share!Integer(5) -> Share!Table(1, << <<Share!Integer(1), Share!Str("c", 5)>>, <<Share!Str("d", 9), Share!Integer(0)>> >>)
                [] k = Share!Str("a", 5) -> Share!Str("b", 2)
                [] OTHER -> Share!Value("boolean", 0)
      Has(ks, n) == \E i \in 1..Len(ks) : ks[i] = Share!Integer(n)
      Border(ks, n) == (n = 0 \/ Has(ks, n)) /\ ~Has(ks, n + 1)
  IN  {Share!Table(n, [i \in 1..Len(ks) |-> <<ks[i], V(ks[i])>>]) :
         <<n, ks>> \in {p \in (0..5) \X UNION {{ks \in [1..m -> ShareKeys] : IsInjective(ks)} : m \in 0..4} :
                         Border(p[2], p[1])}}
      \cup {Share!Table(0, << <<k, V(Share!Integer(5))>>, <<Share!Integer(2), Share!Value(t, 0)>> >>) :
              k \in {Share!Value("boolean", 1), Share!Str("a", 5)}, t \in {"real", "function"}}

Texts == UNION {[1..n -> {0, 3, 255}] : n \in 0..4}
=============================================================================
