--------------------------- MODULE ByteTransfer ---------------------------
(***************************************************************************)
(* What the two programs of BigDateTCP promise together: bytes are only    *)
(* received after they were sent, never more than Total of them, and each  *)
(* side ends with one verdict, which says whether ITS count is complete.   *)
(***************************************************************************)
EXTENDS Naturals

CONSTANT Total

VARIABLES
    sent, received,       \* bytes
    sverdict, rverdict    \* what the sender and the receiver have reported

vars == <<sent, received, sverdict, rverdict>>

Verdict(n) == IF n = Total THEN "ok" ELSE "failed"

Init ==
    /\ sent = 0 /\ received = 0
    /\ sverdict = "none" /\ rverdict = "none"

Send ==
    /\ sverdict = "none"
    /\ sent' \in (sent + 1)..Total
    /\ UNCHANGED <<received, sverdict, rverdict>>

Receive ==
    /\ rverdict = "none"
    /\ received' \in (received + 1)..sent
    /\ UNCHANGED <<sent, sverdict, rverdict>>

SenderReports ==
    /\ sverdict = "none"
    /\ sverdict' = Verdict(sent)
    /\ UNCHANGED <<sent, received, rverdict>>

ReceiverReports ==
    /\ rverdict = "none"
    /\ rverdict' = Verdict(received)
    /\ UNCHANGED <<sent, received, sverdict>>

Next == Send \/ Receive \/ SenderReports \/ ReceiverReports

Spec == Init /\ [][Next]_vars
=============================================================================
