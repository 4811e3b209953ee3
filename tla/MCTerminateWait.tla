--------------------------- MODULE MCTerminateWait ---------------------------
(* A subscriber by itself: the samples it is asked for may reach it before   *)
(* run() has cleared stop_.                                                  *)
EXTENDS TerminateWait
=============================================================================
