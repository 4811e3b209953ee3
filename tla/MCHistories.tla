----------------------------- MODULE MCHistories -----------------------------
(***************************************************************************)
(* The two examples about what is left in a history; a behaviour has one:  *)
(*  "past":     HistoryKind: six samples for twenty, a depth of two for    *)
(*              ten, so that the KEEP_LAST reader overwrites and the       *)
(*              writer does not;                                           *)
(*  "lifespan": the lifespan example, with a lifespan below and one above  *)
(*              the sleeps on either side.                                 *)
(***************************************************************************)
EXTENDS Lifespan, PastSamples

VARIABLE part

MCInit ==
    /\ Init /\ PastInit
    /\ \/ part = "past" /\ lifespan = 2 /\ sub_lifespan = 2
       \/ part = "lifespan"

MCNext ==
    /\ UNCHANGED part
    /\ \/ part = "past" /\ PastNext /\ UNCHANGED vars
       \/ part = "lifespan" /\ Next /\ UNCHANGED pastVars

MCSpec == MCInit /\ [][MCNext]_<<part, vars, pastVars>>
=============================================================================
