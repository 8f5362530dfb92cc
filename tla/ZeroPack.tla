------------------------------ MODULE ZeroPack ------------------------------
\* The 0-packing of sproto.c: of each segment of bytes the zeros are left out, and runs of
\* segments with few zeros are copied as they are.  Buffers are written where the code
\* writes them, so that their sizes matter.
EXTENDS Integers, Sequences

CONSTANTS
  Seg,     \* the bytes of a segment: the bits of a byte (8)
  MaxRun,  \* the segments of a run: the values of a byte (256)
  Beyond   \* what is read behind the end of the source

FF == 2 ^ Seg - 1
\* A byte that was never written
Junk == -1

\* b is written at offset at of out, as far as room allows.
Put(out, at, b, room) ==
  [i \in 1..Len(out) |-> IF i - at \in 1..Len(b) /\ i - at <= room THEN b[i - at] ELSE out[i]]
NonZero(seg) == SelectSeq(seg, LAMBDA b : b # 0)
Header(seg) == LET H[i \in 0..Seg] == IF i = 0 THEN 0
                                      ELSE H[i - 1] + (IF seg[i] # 0 THEN 2 ^ (i - 1) ELSE 0)
               IN  H[Seg]
Round(n) == ((n + Seg - 1) \div Seg) * Seg

\* pack_seg of a segment met with n segments in the current run: whether it is copied in a
\* run; and what is returned.
Copied(seg, n) ==
  LET notzero == Len(NonZero(seg))
  IN  notzero = Seg \/ (notzero \in {Seg - 1, Seg - 2} /\ n > 0)
PackSeg(seg, n) ==
  IF ~Copied(seg, n) THEN Len(NonZero(seg)) + 1 ELSE IF n > 0 THEN Seg ELSE Seg + 2

\* write_ff of n bytes of the source from offset from
WriteFF(out, src, from, des, n) ==
  LET pad == Round(n) - n
      b   == [i \in 1..n |-> IF from + i <= Len(src) THEN src[from + i] ELSE Beyond]
  IN  Put(out, des, <<FF, Round(n) \div Seg - 1>> \o b \o [i \in 1..pad |-> 0], Len(out))

\* sproto_pack, from segment i on: p has the output, what is left of its size, where the next
\* segment goes, and the current run: where it starts in the source and in the output, and
\* its length.
RECURSIVE PackFrom(_, _, _)
PackFrom(src, i, p) ==
  LET seg == [k \in 1..Seg |-> IF i + k <= Len(src) THEN src[i + k] ELSE 0]
      n   == PackSeg(seg, p.run)
      out == LET body == Put(p.out, p.at + 1, NonZero(seg), p.room - 1)
             IN  IF Copied(seg, p.run) THEN body ELSE Put(body, p.at, <<Header(seg)>>, p.room)
      q   == [p EXCEPT !.out = out, !.room = @ - n, !.at = @ + n]
      Flush(len) == IF q.room >= 0 THEN WriteFF(out, src, p.from, p.des, len) ELSE out
      next == IF n = Seg + 2 THEN [q EXCEPT !.from = i, !.des = p.at, !.run = 1]
              ELSE IF n = Seg /\ p.run > 0
              THEN IF p.run + 1 = MaxRun THEN [q EXCEPT !.out = Flush(MaxRun * Seg), !.run = 0]
                   ELSE [q EXCEPT !.run = @ + 1]
              ELSE IF p.run > 0 THEN [q EXCEPT !.out = Flush(p.run * Seg), !.run = 0]
              ELSE q
      rest == IF p.run = 1 THEN Seg ELSE Len(src) - p.from
  IN  IF i < Len(src) THEN PackFrom(src, i + Seg, next)
      ELSE IF p.room >= 0 /\ p.run > 0 THEN [p EXCEPT !.out = WriteFF(@, src, p.from, p.des, rest)]
      ELSE p

\* lpack: at most two bytes per MaxRun segments are added.
MaxSz(sz) == ((sz + MaxRun * Seg - 1) \div (MaxRun * Seg)) * 2 + sz + 2
Pack(src) ==
  LET maxsz == MaxSz(Len(src))
      p     == PackFrom(src, 0, [out |-> [i \in 1..maxsz |-> Junk], room |-> maxsz, at |-> 0,
                                 from |-> 0, des |-> 0, run |-> 0])
  IN  [ok |-> p.at <= maxsz, wire |-> SubSeq(p.out, 1, IF p.at <= maxsz THEN p.at ELSE maxsz)]

-----------------------------------------------------------------------------
\* sproto_unpack into a buffer of bufsz bytes: how many bytes there are, and those written.
RECURSIVE UnpackFrom(_, _, _, _)
UnpackFrom(src, out, size, bufsz) ==
  LET header == Head(src)
      n      == (src[2] + 1) * Seg
      nz     == [i \in 1..Seg |-> (header \div 2 ^ (i - 1)) % 2]
      Used[i \in 0..Seg] == IF i = 0 THEN 0 ELSE Used[i - 1] + nz[i]
      seg    == [i \in 1..Seg |-> IF nz[i] = 1 THEN src[1 + Used[i]] ELSE 0]
      room   == IF bufsz < 0 THEN 0 ELSE bufsz
  IN  IF src = <<>> THEN [size |-> size, out |-> out]
      ELSE IF header = FF
      THEN IF Len(src) < n + 2 THEN [size |-> -1, out |-> <<>>]
           ELSE UnpackFrom(SubSeq(src, n + 3, Len(src)),
                           IF bufsz >= n THEN out \o SubSeq(src, 3, n + 2) ELSE out,
                           size + n, bufsz - n)
      ELSE UnpackFrom(SubSeq(src, Used[Seg] + 2, Len(src)),
                      out \o SubSeq(seg, 1, IF room < Seg THEN room ELSE Seg),
                      size + Seg, bufsz - (IF room < Seg THEN room ELSE Seg))

\* lunpack: once more with a larger buffer if the first, of osz bytes, was too small
Unpack(wire, osz) ==
  LET first == UnpackFrom(wire, <<>>, 0, osz)
  IN  IF first.size > osz THEN UnpackFrom(wire, <<>>, 0, first.size) ELSE first
=============================================================================
