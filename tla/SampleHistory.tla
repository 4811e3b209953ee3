---------------------------- MODULE SampleHistory ----------------------------
(***************************************************************************)
(* The history of one DataWriter and those of its DataReaders, as Fast DDS *)
(* keeps them under the QoS the programs of this repository choose.        *)
(*                                                                         *)
(* A sample is its number, which grows with every write().  A sample that  *)
(* was accepted but not delivered is pending: a RELIABLE reader gets it,   *)
(* however often the network loses it, unless the writer has replaced it   *)
(* in the meantime; a BEST_EFFORT reader may miss it.  A reader never gets *)
(* a sample older than one it has got.                                     *)
(***************************************************************************)
EXTENDS Integers, FiniteSets

CONSTANT Readers

(* What the endpoints were created with; no operator here changes it.      *)
VARIABLES WriterQos,  \* [keepAll, max, ...], as in TestTypes
          ReaderQos   \* the same for every reader

VARIABLES accepted,  \* samples for which write() returned true
          history,   \* those the writer still has
          link,      \* per reader: has it met the writer, is it parted from it?
          pending,   \* per reader: accepted samples on their way to it
          got,       \* per reader: samples that reached its history, ever
          held       \* those that are still there

Oldest(x, S) == x \in S /\ \A y \in S : x <= y

HistoryInit ==
  /\ accepted = {}
  /\ history = {}
  /\ link = [r \in Readers |-> "new"]
  /\ pending = [r \in Readers |-> {}]
  /\ got = [r \in Readers |-> {}]
  /\ held = [r \in Readers |-> {}]

Matched == {r \in Readers : link[r] = "matched"}

-----------------------------------------------------------------------------
(* The writer.  A full KEEP_ALL history gives up its oldest sample only if *)
(* every RELIABLE reader has it; otherwise write() waits max_blocking_time *)
(* and returns false.  A KEEP_LAST history always gives up the oldest.     *)
WriterFull == Cardinality(history) >= WriterQos.max

Replaceable_bug(x) == Oldest(x, history)

Replaceable(x) ==
  /\ Oldest(x, history)
  /\ WriterQos.keepAll => \A r \in Matched : ReaderQos[r].reliable => x \notin pending[r]

Store(x, kept) ==
  /\ history' = kept \cup {x}
  /\ accepted' = accepted \cup {x}
  /\ pending' = [r \in Readers |-> IF r \in Matched THEN pending[r] \cup {x}
                                                    ELSE pending[r]]
  /\ UNCHANGED <<link, got, held>>

Accept(x) ==
  \/ ~WriterFull /\ Store(x, history)
  \/ WriterFull /\ \E y \in history : Replaceable(y) /\ Store(x, history \ {y})

Refuse ==
  /\ WriterFull
  /\ ~ \E y \in history : Replaceable(y)
  /\ UNCHANGED <<accepted, history, link, pending, got, held>>

(* delete_datawriter: what was not delivered is gone with the writer.      *)
DeleteWriter ==
  /\ history' = {}
  /\ pending' = [r \in Readers |-> {}]
  /\ link' = [r \in Readers |-> IF link[r] = "matched" THEN "parted" ELSE link[r]]
  /\ UNCHANGED <<accepted, got, held>>

-----------------------------------------------------------------------------
(* A TRANSIENT_LOCAL reader is sent what the writer has; every writer here *)
(* offers TRANSIENT_LOCAL.                                                 *)
Meet_bug(r) ==
  /\ link[r] = "new"
  /\ link' = [link EXCEPT ![r] = "matched"]
  /\ pending' = [pending EXCEPT ![r] = {}]
  /\ UNCHANGED <<accepted, history, got, held>>

Meet(r) ==
  /\ link[r] = "new"
  /\ link' = [link EXCEPT ![r] = "matched"]
  /\ pending' = [pending EXCEPT ![r] = IF ReaderQos[r].durable THEN history ELSE {}]
  /\ UNCHANGED <<accepted, history, got, held>>

ReaderFull_bug(r) == Cardinality(held[r]) > ReaderQos[r].max

ReaderFull(r) == Cardinality(held[r]) >= ReaderQos[r].max

(* The next pending sample reaches the reader's history.  A full KEEP_ALL  *)
(* history refuses it, and it is sent again; a full KEEP_LAST history      *)
(* gives up its oldest sample.                                             *)
Kept(r, kept) ==
  \/ ~ReaderFull(r) /\ kept = held[r]
  \/ /\ ReaderFull(r)
     /\ ~ReaderQos[r].keepAll
     /\ \E y \in held[r] : Oldest(y, held[r]) /\ kept = held[r] \ {y}

NextPending_bug(r, x) == x \in pending[r]

NextPending(r, x) == Oldest(x, pending[r])

Deliver(r) ==
  \E x \in pending[r], kept \in SUBSET held[r] :
    /\ NextPending(r, x)
    /\ Kept(r, kept)
    /\ held' = [held EXCEPT ![r] = kept \cup {x}]
    /\ got' = [got EXCEPT ![r] = @ \cup {x}]
    /\ pending' = [pending EXCEPT ![r] = @ \ {x}]
    /\ UNCHANGED <<accepted, history, link>>

(* The network loses a sample that will not be sent again.                 *)
Lose(r) ==
  \E x \in pending[r] :
    /\ ReaderQos[r].reliable => x \notin history
    /\ pending' = [pending EXCEPT ![r] = @ \ {x}]
    /\ UNCHANGED <<accepted, history, link, got, held>>

TakeNext_newest_bug(r, x) ==
  /\ x \in held[r] /\ \A y \in held[r] : y <= x
  /\ held' = [held EXCEPT ![r] = @ \ {x}]
  /\ UNCHANGED <<accepted, history, link, pending, got>>

(* take_next_sample: the oldest sample of the reader's history leaves it.  *)
TakeNext(r, x) ==
  /\ Oldest(x, held[r])
  /\ held' = [held EXCEPT ![r] = @ \ {x}]
  /\ UNCHANGED <<accepted, history, link, pending, got>>

(* The reader's process ends.                                              *)
Leave(r) ==
  /\ link[r] # "left"
  /\ link' = [link EXCEPT ![r] = "left"]
  /\ pending' = [pending EXCEPT ![r] = {}]
  /\ held' = [held EXCEPT ![r] = {}]
  /\ UNCHANGED <<accepted, history, got>>

-----------------------------------------------------------------------------
HistoryTypeOK(Sample) ==
  /\ accepted \subseteq Sample
  /\ history \subseteq accepted
  /\ link \in [Readers -> {"new", "matched", "parted", "left"}]
  /\ pending \in [Readers -> SUBSET accepted]
  /\ got \in [Readers -> SUBSET accepted]
  /\ held \in [Readers -> SUBSET accepted]
  /\ \A r \in Readers : held[r] \subseteq got[r]
=============================================================================
