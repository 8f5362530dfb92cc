------------------------------- MODULE Codecs -------------------------------
\* The codecs written in C, each between one that writes and one that reads: a value is
\* written into bytes, the bytes arrive whole or, in a stream that ended, are cut off, and
\* are read.  A codec keeps its buffer, of any size that earlier messages left.
EXTENDS CodecValues

VARIABLES
  step,   \* how far the message is
  codec,
  value,  \* what was written
  wire,   \* the bytes
  result  \* what was read

vars == <<step, codec, value, wire, result>>

Init ==
  /\ step = "idle" /\ codec = "none" /\ value = <<>> /\ wire = <<>> /\ result = <<>>

\* A message is written, or an error is raised instead.
Write(c, v, ok, bytes) ==
  /\ step = "idle"
  /\ step' = IF ok THEN "written" ELSE "refused"
  /\ codec' = c /\ value' = v
  /\ wire' = IF ok THEN bytes ELSE <<>>
  /\ UNCHANGED result

\* What arrives is read.
Read(c, r) ==
  /\ step = "written" /\ codec = c
  /\ step' = "read"
  /\ result' = r
  /\ UNCHANGED <<codec, value>>

\* lua-seri.c: what is left of a message is read, up to any byte.
PackSeri ==
  \E i \in 1..Len(SeriValues) :
    LET xs == <<SeriValues[i], SeriValues[((i * 5) % Len(SeriValues)) + 1]>>
    IN  Write("seri", xs, Seri!Pack(xs).ok, Seri!Pack(xs).wire)
UnpackSeri ==
  \E cut \in 0..Len(wire) :
    Read("seri", Seri!Unpack(SubSeq(wire, 1, cut))) /\ wire' = SubSeq(wire, 1, cut)

\* lua-bson.c: a document is encoded; a field may be replaced by a value of its type, which
\* for an integer of 32 bits is one of 32 bits; and it is decoded.
Alike(old, x) == /\ x.t = old.t /\ Bson!TypeOf(x)[1] = Bson!TypeOf(old)[1]
                 /\ x.t = "integer" => (Bson!Is32Bit(old.v) => Bson!Is32Bit(x.v))
EncodeBson ==
  \E i \in 1..Len(BsonValues) :
    LET doc == BsonDoc(BsonValues[i], BsonValues[((i * 7) % Len(BsonValues)) + 1])
    IN  /\ Write("bson", doc, ~Bson!IsError(Bson!Encode(doc)), Bson!Encode(doc))
ReplaceBson ==
  \E k \in 1..2, i \in 1..Len(BsonValues) :
    LET x == BsonValues[i]
        b == Bson!Replace(wire, <<k>>, x)
    IN  /\ step = "written" /\ codec = "bson" /\ ~Bson!IsError(b) /\ Alike(value.pairs[k][2], x)
        /\ step' = "written" /\ codec' = "replaced"
        /\ value' = [value EXCEPT !.pairs[k][2] = x]
        /\ wire' = b
        /\ UNCHANGED <<result>>
DecodeBson ==
  /\ codec \in {"bson", "replaced"}
  /\ \E cut \in IF codec = "bson" THEN 0..Len(wire) ELSE {Len(wire)} :
       Read(codec, Bson!Decode(SubSeq(wire, 1, cut))) /\ wire' = SubSeq(wire, 1, cut)

\* lsproto.c: an object is encoded into a buffer that is doubled when it is too small, and
\* decoded with the same type or with the one of another version of the schema.
EncodeSproto ==
  LET sp == Schema IN
  \E o \in SprotoObjects, size \in {4, 16, 64} :
    LET e == Sproto!LEncode(sp, sp.types[o[1]], o[2], size)
    IN  Write("sproto", o, e.st = "data", e.b)
DecodeSproto ==
  /\ codec = "sproto" /\ step = "written"
  /\ LET sp == Schema IN
     \E cut \in 0..Len(wire), t \in IF value[1] = 1 THEN {1, 3} ELSE {2, 4} :
       LET d == Sproto!Decode(sp, sp.types[t], SubSeq(wire, 1, cut), 0)
       IN  Read("sproto", <<t, d>>) /\ wire' = SubSeq(wire, 1, cut)

\* pencode and pdecode: what was encoded is packed; after the object there is padding.
PackSproto ==
  /\ step = "written" /\ codec = "sproto"
  /\ step' = "written" /\ codec' = "packed"
  /\ wire' = Zero!Pack(wire).wire
  /\ UNCHANGED <<value, result>>
UnpackSproto ==
  \E size \in {8, 16} :
    LET u == Zero!Unpack(wire, size)
    IN  /\ codec = "packed"
        /\ Read("packed", <<value[1], Sproto!Decode(Schema, Schema.types[value[1]], u.out, 0)>>)
        /\ UNCHANGED wire

\* sproto_pack and sproto_unpack of any bytes, and of a size of buffer
PackWords ==
  \E n \in 0..9 : \E s \in [1..n -> {0, 1}] :
    Write("words", s, Words!Pack(s).ok, Words!Pack(s).wire)
UnpackWords ==
  \E size \in {4, 8} : Read("words", Words!Unpack(wire, size)) /\ UNCHANGED wire

\* lua-crypt.c: a text in base 64, in which line breaks are put, or in hexadecimal digits,
\* combined with a key twice, or padded and encrypted by blocks.
EncodeBase64 == \E s \in Texts : Write("base64", s, TRUE, Crypt!B64Encode(s))
BreakLine ==
  \E i \in 0..Len(wire) :
    /\ step = "written" /\ codec = "base64" /\ Crypt!Other \notin {wire[j] : j \in 1..Len(wire)}
    /\ wire' = SubSeq(wire, 1, i) \o <<Crypt!Other>> \o SubSeq(wire, i + 1, Len(wire))
    /\ UNCHANGED <<step, codec, value, result>>
DecodeBase64 == Read("base64", Crypt!B64Decode(wire)) /\ UNCHANGED wire
EncodeHex == \E s \in Texts : Write("hex", s, TRUE, Crypt!ToHex(s))
DecodeHex == Read("hex", Crypt!FromHex(wire)) /\ UNCHANGED wire
Combine   == \E s \in Texts : Write("xor", s, TRUE, Crypt!XorStr(s, <<3, 129>>))
Recombine == Read("xor", Crypt!Done(Crypt!XorStr(wire, <<3, 129>>))) /\ UNCHANGED wire
PadText   == \E s \in Texts : Write("des", s, TRUE, Crypt!Padded(s))
UnpadText == Read("des", Crypt!Unpadded(wire)) /\ UNCHANGED wire

\* A block is encrypted and decrypted; two peers exchange keys and compute their secret.
Encrypt ==
  \E key \in 0..9, x, y \in 0..1 :
    Write("block", <<key, <<x, y>>>>, TRUE, Crypt!DesCrypt(Crypt!Subkeys(key), <<x, y>>))
Decrypt ==
  /\ codec = "block"
  /\ Read("block", Crypt!DesCrypt(Crypt!Reversed(Crypt!Subkeys(value[1])), wire))
  /\ UNCHANGED wire
Exchange ==
  \E a, b \in {1, 2, 7, 30, 60, 61, 63} :
    Write("keys", <<a, b>>, TRUE, <<Crypt!DhExchange(a), Crypt!DhExchange(b)>>)
Secret ==
  Read("keys", <<Crypt!DhSecret(wire[2], value[1]), Crypt!DhSecret(wire[1], value[2])>>)
  /\ UNCHANGED wire

\* lua-sharedata.c: a table is converted, and what is found in it read.
NewShare ==
  /\ step = "idle"
  /\ \E t \in ShareTables : Write("share", t, Share!New(t).ok, <<Share!New(t)>>)
ReadShare ==
  Read("share", Share!PushValue(wire[1].strings, Share!Value("table", wire[1].tbl)))
  /\ UNCHANGED wire

Next ==
  \/ NewShare \/ ReadShare
  \/ PackSeri \/ UnpackSeri \/ EncodeBson \/ ReplaceBson \/ DecodeBson
  \/ EncodeSproto \/ DecodeSproto \/ PackSproto \/ UnpackSproto \/ PackWords \/ UnpackWords
  \/ EncodeBase64 \/ BreakLine \/ DecodeBase64 \/ EncodeHex \/ DecodeHex
  \/ Combine \/ Recombine \/ PadText \/ UnpadText \/ Encrypt \/ Decrypt \/ Exchange \/ Secret

Spec == Init /\ [][Next]_vars
-----------------------------------------------------------------------------
\* lua-seri.c: what was packed is read as it was; what is left of it yields an error or the
\* values that are whole; and only a value that is too deep or of no known type is refused.
SeriRight ==
  codec = "seri" =>
    /\ step = "refused" <=> \E i \in 1..Len(value) : ~Seri!Packs(value[i], 0)
    /\ step = "read" =>
         /\ result.ok => /\ Len(result.xs) <= Len(value)
                         /\ Seri!Same(result.xs, SubSeq(value, 1, Len(result.xs)))
         /\ wire = Seri!Pack(value).wire => result.ok /\ Len(result.xs) = Len(value)

\* lua-bson.c: both encoders write the same; a document that is whole, and no other, is decoded
\* as it was encoded, with the fields that were replaced in place.
BsonRight ==
  /\ codec = "bson" /\ step = "written" =>
       wire = Bson!EncodeOrder([k \in 1..2 |-> <<<<k>>, value.pairs[k][2]>>])
  /\ codec \in {"bson", "replaced"} /\ step = "read" =>
       LET whole == codec = "replaced" \/ wire = Bson!Encode(value)
       IN  /\ result.ok <=> whole
           /\ whole => result.rb = <<>> /\ Bson!Meaning(result.x) = Bson!Meaning(value)

\* sproto: the schema is what was bundled; the bytes of an object do not depend on the size of
\* the buffer; an object that is whole, and no other, is decoded, with the fields that both
\* versions have; but for maps with elements that lack the main index.
Encoded(sp, o) == Sproto!Encode(sp, sp.types[o[1]], o[2], 400, 0)
Keyed(o) == \A n \in DOMAIN o[2].f : o[1] = 2 /\ n = <<4>> =>
              \A i \in 1..Len(o[2].f[n].a) : Sproto!Get(o[2].f[n].a[i], <<1>>) # Sproto!Nil
SprotoRight ==
  LET sp == Schema
      e  == Encoded(sp, value)
  IN
  /\ codec = "none" =>
       /\ sp.ok /\ sp.protos = SprotoProtos
       /\ \A i \in 1..Len(SprotoTypes) : sp.types[i].f = SprotoTypes[i].f
       /\ \A tag \in 0..8 : LET i == Sproto!QueryProto(sp, tag)
                            IN  IF i = 0 THEN \A j \in 1..4 : SprotoProtos[j].tag # tag
                                ELSE SprotoProtos[i].tag = tag
  /\ codec = "sproto" =>
       /\ e.st \in {"data", "raise"}
       /\ step = "refused" <=> e.st = "raise"
       /\ step = "written" => wire = e.b
  /\ codec \in {"sproto", "packed"} /\ step = "read" =>
       LET whole == codec = "packed" \/ wire = e.b
           t     == sp.types[result[1]]
           d     == result[2]
       IN  /\ d.used = IF whole /\ Keyed(value) THEN Len(e.b) ELSE -1
           /\ d.used >= 0 => Sproto!Meaning(sp, t, d.x) = Sproto!Meaning(sp, t, value[2])

\* sproto_pack: the bound of lpack suffices, every byte is written, and what is unpacked is
\* the source, filled up to a segment with zeros, or with what was read behind its end when
\* its last segment completes a run.
WordsRight ==
  codec = "words" =>
    /\ step # "refused"
    /\ \A i \in 1..Len(wire) : wire[i] # Words!Junk
    /\ step = "read" =>
         /\ Len(result.out) = result.size /\ result.size = Words!Round(Len(value))
         /\ SubSeq(result.out, 1, Len(value)) = value
         /\ \A i \in Len(value) + 1..result.size : result.out[i] \in {0, 7}

\* lua-crypt.c: texts come back as they were: in base 64 unless a line break is at the end,
\* in hexadecimal digits when they have an even number of bytes; and both peers compute one
\* secret.
CryptRight ==
  step = "read" =>
    /\ codec = "base64" => result = IF wire # <<>> /\ wire[Len(wire)] = Crypt!Other THEN Crypt!Failed
                                    ELSE Crypt!Done(value)
    /\ codec = "hex" => /\ result.ok => result.s = value
                        /\ Len(value) % 2 = 0 => result.ok
    /\ codec \in {"xor", "des"} => result = Crypt!Done(value)
    /\ codec = "block" => result = value[2]
    /\ codec = "keys" => result[1] = result[2] /\ result[1] # 0

\* lua-sharedata.c: every entry is found, with its value, under its key and under no other,
\* and pairs goes through all of them once; a key or a value of another type is refused.
ShareRight ==
  codec = "share" =>
    /\ step = "refused" <=> \E i \in 1..Len(value.pairs) :
         value.pairs[i][1].t = "boolean" \/ value.pairs[i][2].t = "function"
    /\ step = "read" =>
         /\ Share!Same(value, result)
         /\ \A k \in ShareKeys : Share!Index(wire[1].strings, wire[1].tbl, k).t # "nil" =>
              \E i \in 1..Len(value.pairs) : value.pairs[i][1] = k
=============================================================================
