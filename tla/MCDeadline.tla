------------------------------ MODULE MCDeadline ------------------------------
(***************************************************************************)
(* What a sample is made of, and when it is written; a behaviour has one   *)
(* of the two:                                                             *)
(*  "timers":   the deadlines of the keyed example;                        *)
(*  "exchange": samples of every generated type, with values on both sides *)
(*              of the boundaries: a key whose bytes differ only in order, *)
(*              a string of 255 and of 300 characters, a sequence of 100   *)
(*              and of 300 octets.                                         *)
(***************************************************************************)
EXTENDS Deadline, SampleExchange

VARIABLE part

MCTypes == DOMAIN Generated

Texts == {255, 300}

MCValues == [octet |-> {1, 2}, ushort |-> {1, 256}, ulong |-> {1, 2},
             ulonglong |-> {1, 2}, string |-> Texts, string256 |-> Texts,
             octets |-> {100, 300}]

MCInit ==
    /\ DeadlineInit /\ ExchangeInit
    /\ \/ /\ part = "timers"
          /\ type = "HelloMsg" /\ cdr = "XCDRv1"
          /\ writerBuild = "fastcdr2" /\ readerBuild = "fastcdr2"
       \/ part = "exchange" /\ samples = 0

MCNext ==
    /\ UNCHANGED part
    /\ \/ part = "timers" /\ DeadlineNext /\ UNCHANGED exchangeVars
       \/ part = "exchange" /\ ExchangeNext /\ UNCHANGED deadlineVars

MCSpec == MCInit /\ [][MCNext]_<<part, deadlineVars, exchangeVars>>
=============================================================================
