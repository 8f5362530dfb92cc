--------------------------- MODULE MCSkynetServer ---------------------------
(* Small instances of SkynetServer for TLC.                                *)
EXTENDS SkynetServer

CONSTANTS w1, w2, o1, h1, h2

\* The first worker has weight -1 (one message per turn), the others weight 0
\* (the whole mailbox), as in the table of start().
MCWeight == [w \in Workers |-> IF w = w1 THEN -1 ELSE 0]
=============================================================================
