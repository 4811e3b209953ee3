--------------------------- MODULE TargetTransfer ---------------------------
(***************************************************************************)
(* Main::RunPublisher or Main::RunPubDataChunk against any number of       *)
(* Main::RunSubscriber, all started with the same QoS word.                *)
(*                                                                         *)
(* The publisher waits until a reader is matched (RunPubDataChunk does     *)
(* not), writes its samples in one loop that ignores what write() returns, *)
(* and then stays or deletes its writer, by type.  The subscriber takes    *)
(* and prints every sample in on_data_available.                           *)
(***************************************************************************)
EXTENDS TestTypes, FiniteSets

CONSTANTS Types,        \* the words that the processes may be started with
          Readers,      \* the subscribers
          Count,        \* samples of the loop of SendMsg: 200
          total_chunks  \* samples of the loop of RunPubDataChunk

ASSUME TypeAssumption == Types \subseteq TestType \ {"Test", "Grpc"}
ASSUME CountAssumption ==
  {Count, total_chunks, SmallMax, LargeMax} \subseteq Nat \ {0}

VARIABLES m_type,     \* the word of this publisher and these subscribers
          pc,         \* the publisher: wait, send, stay or exited
          index,      \* the number of the next sample
          printed,    \* per subscriber: samples that on_data_available took
          accepted, history, link, pending, got, held

INSTANCE SampleHistory
  WITH WriterQos <- initPubType(m_type),
       ReaderQos <- [r \in Readers |-> initSubType(m_type)]

middleware == <<accepted, history, link, pending, got, held>>

vars == <<m_type, pc, index, printed, middleware>>

Total ==
  CASE m_type = "Default" -> 1
    [] m_type = "BigData" -> total_chunks
    [] OTHER              -> Count

Sample == 0 .. Total

(* RunPubDataChunk sleeps a second instead of waiting for a match.         *)
Init ==
  /\ HistoryInit
  /\ m_type \in Types
  /\ pc = IF m_type = "BigData" THEN "send" ELSE "wait"
  /\ index = 0
  /\ printed = [r \in Readers |-> {}]

-----------------------------------------------------------------------------
TargetMatched == Matched # {}

(* RunPublisher polls TargetMatched().                                     *)
StartSending ==
  /\ pc = "wait"
  /\ TargetMatched
  /\ pc' = "send"
  /\ UNCHANGED <<m_type, index, printed, middleware>>

(* One turn of the loop of SendMsg, or of RunPubDataChunk.                 *)
SendMsg ==
  /\ pc = "send"
  /\ index < Total
  /\ Accept(index) \/ Refuse
  /\ index' = index + 1
  /\ UNCHANGED <<m_type, pc, printed>>

Stays == m_type \in {"Durability", "ResourceLimits", "BigData"}

EndSending ==
  /\ pc = "send"
  /\ index = Total
  /\ IF Stays THEN pc' = "stay" /\ UNCHANGED middleware
              ELSE pc' = "exited" /\ DeleteWriter
  /\ UNCHANGED <<m_type, index, printed>>

(* The loop of on_data_available.                                          *)
on_data_available(r) ==
  /\ \E x \in held[r] :
       /\ TakeNext(r, x)
       /\ printed' = [printed EXCEPT ![r] = @ \cup {x}]
  /\ UNCHANGED <<m_type, pc, index>>

on_publication_matched(r) ==
  /\ pc # "exited"
  /\ Meet(r)
  /\ UNCHANGED <<m_type, pc, index, printed>>

Arrive(r) == Deliver(r) /\ UNCHANGED <<m_type, pc, index, printed>>
Miss(r)   == Lose(r) /\ UNCHANGED <<m_type, pc, index, printed>>
Quit(r)   == Leave(r) /\ UNCHANGED <<m_type, pc, index, printed>>

Publish == StartSending \/ SendMsg \/ EndSending

Next ==
  \/ Publish
  \/ \E r \in Readers :
       \/ on_publication_matched(r)
       \/ Arrive(r)
       \/ Miss(r)
       \/ on_data_available(r)
       \/ Quit(r)

(* Threads run; a lost sample of a reliable pair is sent again.            *)
Fairness ==
  /\ WF_vars(Publish)
  /\ \A r \in Readers : WF_vars(Arrive(r)) /\ WF_vars(on_data_available(r))

Spec == Init /\ [][Next]_vars /\ Fairness

-----------------------------------------------------------------------------
(* The flag and the two times of a DataChunk transfer: the subscriber sets *)
(* startTime at flag 1 and endTime at flag 2.  The last chunk's flag wins. *)
Flag_bug(i) == IF i + 2 = Total THEN 2 ELSE IF i = 0 THEN 1 ELSE 0

Flag(i) == IF i + 1 = Total THEN 2 ELSE IF i = 0 THEN 1 ELSE 0

startTimeSet(r) == \E i \in printed[r] : Flag(i) = 1
endTimeSet(r)   == \E i \in printed[r] : Flag(i) = 2

-----------------------------------------------------------------------------
(* Every variable has its type; a reader prints only what it got.          *)
TypeOK ==
  /\ HistoryTypeOK(Sample)
  /\ m_type \in Types
  /\ pc \in {"wait", "send", "stay", "exited"}
  /\ index \in Sample
  /\ accepted \subseteq 0 .. index - 1
  /\ printed \in [Readers -> SUBSET accepted]
  /\ \A r \in Readers : printed[r] \subseteq got[r] /\ held[r] \cap printed[r] = {}

(* Types that keep all: whatever was refused by write(), replaced, or      *)
(* thrown away when RunPublisher deleted its writer, a subscriber prints   *)
(* an unbroken piece of what the writer accepted.                          *)
Unbroken(S, T) ==
  \A x \in S, z \in S, y \in T : x < y /\ y < z => y \in S

NoGap ==
  m_type \in KeepsLarge \cup KeepsSmall
    => \A r \in Readers : Unbroken(got[r], accepted) /\ Unbroken(printed[r], accepted)

(* A sample printed is newer than all that were printed before it, for all *)
(* types, loss and late joining included.                                  *)
PrintedInOrder ==
  [][\A r \in Readers : \A x \in printed'[r] \ printed[r], y \in printed[r] : y < x]_vars

(* A subscriber of a publisher that stays gets all the writer still has,   *)
(* however late it joined.                                                 *)
LateJoinersCatchUp ==
  \A r \in Readers :
    link[r] = "matched" /\ pc = "stay" ~> history \subseteq printed[r] \/ link[r] = "left"

(* If a subscriber has both times of a BigData transfer, it has printed    *)
(* every chunk that the writer accepted: the interval is the transfer's.   *)
TimesSpanTransfer ==
  m_type = "BigData"
    => \A r \in Readers : startTimeSet(r) /\ endTimeSet(r) => printed[r] = accepted
=============================================================================
