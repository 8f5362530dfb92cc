-------------------------------- MODULE Crypt --------------------------------
\* lua-crypt.c: texts as hexadecimal digits and in base 64, blocks that are encrypted and
\* padded, and the exchange of keys.  The arithmetic of the key exchange has W values
\* instead of 2^64; the rounds of the block cipher use any function of a subkey and half.
EXTENDS Integers, Sequences
LOCAL INSTANCE SequencesExt

CONSTANTS
  W,       \* the number of values of a word (2^64)
  P,       \* the biggest prime of a word
  G,       \* G
  Block,   \* the bytes of a block (8)
  Rounds   \* the pairs of rounds of the block cipher (8)

Failed == [ok |-> FALSE, s |-> <<>>]
Done(s) == [ok |-> TRUE, s |-> s]

-----------------------------------------------------------------------------
\* ltohex, lfromhex: a digit is its value; another character has a larger one.
ToHex(s) == [i \in 1..2 * Len(s) |-> LET b == s[(i + 1) \div 2]
                                     IN  IF i % 2 = 1 THEN b \div 16 ELSE b % 16]
\* The test of the length is one of its bit for 2; sz may be odd, and the zero at the end of
\* the string is then read, which is no digit.
FromHex(s) ==
  IF (Len(s) \div 2) % 2 = 1 \/ Len(s) % 2 = 1 \/ (\E i \in 1..Len(s) : s[i] > 16) THEN Failed
  ELSE Done([i \in 1..Len(s) \div 2 |-> (16 * s[2 * i - 1] + s[2 * i]) % 256])

\* lxor_str, with the key repeated
Xor(a, b) == LET X[n \in 0..8] == IF n = 0 THEN 0
                                  ELSE X[n - 1] + 2 ^ (n - 1) * (((a \div 2 ^ (n - 1)) + (b \div 2 ^ (n - 1))) % 2)
             IN  X[8]
XorStr(s, key) == [i \in 1..Len(s) |-> Xor(s[i], key[((i - 1) % Len(key)) + 1])]

-----------------------------------------------------------------------------
\* lb64encode: a character is its index; Pad is "=", and Other is one that does not count.
Pad == -2
Other == -1
RECURSIVE B64Encode(_)
B64Encode(s) ==
  LET v3 == s[1] * 65536 + s[2] * 256 + s[3]
      v2 == s[1] * 256 + s[2]
  IN  CASE s = <<>> -> <<>>
        [] Len(s) = 1 -> <<s[1] \div 4, (s[1] % 4) * 16, Pad, Pad>>
        [] Len(s) = 2 -> <<v2 \div 1024, (v2 \div 16) % 64, (v2 % 16) * 4, Pad>>
        [] OTHER -> <<v3 \div 262144, (v3 \div 4096) % 64, (v3 \div 64) % 64, v3 % 64>>
                    \o B64Encode(SubSeq(s, 4, Len(s)))

\* lb64decode: groups of four characters that count; nothing may follow the last group.
Group(c) ==
  LET padding == Len(SelectSeq(c, LAMBDA x : x = Pad))
  IN  CASE padding = 0 -> LET v == c[1] * 262144 + c[2] * 4096 + c[3] * 64 + c[4]
                          IN  Done(<<v \div 65536, (v \div 256) % 256, v % 256>>)
        [] padding = 1 -> IF c[4] # Pad \/ c[3] % 4 # 0 THEN Failed
                          ELSE LET v == c[1] * 1024 + c[2] * 16 + c[3] \div 4
                               IN  Done(<<(v \div 256) % 256, v % 256>>)
        [] padding = 2 -> IF c[4] # Pad \/ c[3] # Pad \/ c[2] % 16 # 0 THEN Failed
                          ELSE Done(<<(c[1] * 4 + c[2] \div 16) % 256>>)
        [] OTHER -> Failed
B64Decode(text) ==
  LET c      == SelectSeq(text, LAMBDA x : x # Other)
      groups == [i \in 1..Len(c) \div 4 |-> Group(SubSeq(c, 4 * i - 3, 4 * i))]
  IN  IF \/ Len(c) % 4 # 0
         \/ text # <<>> /\ text[Len(text)] = Other
         \/ \E i \in 1..Len(groups) : ~groups[i].ok
      THEN Failed
      ELSE Done(FlattenSeq([i \in 1..Len(groups) |-> groups[i].s]))

-----------------------------------------------------------------------------
\* des_crypt: a block is two halves of one bit; the function of a round, and the subkeys of
\* a key, of which ldesdecode takes the pairs the other way round.
RoundOf(subkey, half) == (subkey \div (half + 1)) % 2
Subkeys(key) == [i \in 1..4 * Rounds |-> (key * i) % 5]
Reversed(sk) ==
  [i \in 1..Len(sk) |-> IF i % 2 = 1 THEN sk[Len(sk) - i] ELSE sk[Len(sk) - i + 2]]

\* DES_ROUND with the pair of subkeys that is next; the halves take turns, and come out
\* exchanged.
RECURSIVE DesRounds(_, _, _, _)
DesRounds(sk, i, x, y) ==
  LET F(half) == (RoundOf(sk[i], half) + RoundOf(sk[i + 1], half)) % 2
  IN  IF i > Len(sk) THEN <<y, x>> ELSE DesRounds(sk, i + 2, y, (x + F(y)) % 2)
DesCrypt(sk, block) == DesRounds(sk, 1, block[1], block[2])

\* ldesencode, of texts in units of half a block: after the text comes a mark and then zeros,
\* up to a whole block.
Mark == 128
Padded(text) ==
  LET chunk == (Len(text) \div Block + 1) * Block
  IN  [i \in 1..chunk |-> IF i <= Len(text) THEN text[i] ELSE IF i = Len(text) + 1 THEN Mark ELSE 0]
\* The text from what was decrypted; with an error when there is no mark in the last block.
Unpadded(b) ==
  LET zeros == {i \in Len(b) - Block + 1..Len(b) : \A j \in i..Len(b) : b[j] = 0}
      last  == Len(b) - (IF zeros = {} THEN 0 ELSE Len(b) - (CHOOSE i \in zeros : \A j \in zeros : i <= j) + 1)
  IN  IF Len(b) = 0 \/ Len(b) % Block # 0 \/ last <= Len(b) - Block THEN Failed
      ELSE IF b[last] # Mark THEN Failed ELSE Done(SubSeq(b, 1, last - 1))

-----------------------------------------------------------------------------
\* mul_mod_p, in which nothing may pass W
RECURSIVE MulFrom(_, _, _)
MulFrom(m, a, b) ==
  IF b = 0 THEN m
  ELSE LET t == P - a
           n == IF b % 2 = 0 THEN m ELSE IF m >= t THEN m - t ELSE (m + a) % W
       IN  MulFrom(n, IF a >= P - a THEN (a * 2 - P) % W ELSE (a * 2) % W, b \div 2)
MulModP(a, b) == MulFrom(0, a, b)

RECURSIVE PowModP(_, _)
PowModP(a, b) ==
  IF b = 1 THEN a
  ELSE LET t == PowModP(a, b \div 2)
           s == MulModP(t, t)
       IN  IF b % 2 = 1 THEN MulModP(s, a) ELSE s
\* powmodp, ldhsecret, ldhexchange; neither argument is 0.
DhSecret(x, y) == PowModP(IF x > P THEN x % P ELSE x, y)
DhExchange(x) == DhSecret(G, x)
=============================================================================
