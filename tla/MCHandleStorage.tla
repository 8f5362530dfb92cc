--------------------------- MODULE MCHandleStorage ---------------------------
(* Small instances of HandleStorage for TLC.                               *)
EXTENDS HandleStorage
CONSTANTS t1, t2, t3
=============================================================================
