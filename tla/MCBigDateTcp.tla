--------------------------- MODULE MCBigDateTcp ---------------------------
(* Seven bytes and a buffer of three: partial sends and reads, a last buffer *)
(* that is not full, and reads that span two sends.                          *)
EXTENDS BigDateTcp
=============================================================================
