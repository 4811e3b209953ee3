------------------------------ MODULE TestTypes ------------------------------
(***************************************************************************)
(* The QoS that ddsQos gives its endpoints: what a word on the command     *)
(* line makes of m_type, which topic a program creates, and the tables of  *)
(* MainPublisher::initPubType and MainSubscriber::initSubType.             *)
(*                                                                         *)
(* Only the policies that decide whether two endpoints match, and what     *)
(* their histories keep, are in the records.  SmallMax and LargeMax stand  *)
(* for the max_samples 100 and 1000 of the source.                         *)
(***************************************************************************)
EXTENDS Integers

CONSTANTS SmallMax,   \* max_samples of History and ResourceLimits (100)
          LargeMax    \* max_samples of Durability and BigData (1000)

TestType == {"Durability", "Deadline", "ReliablityBestEffort",
             "ReliablityReliable", "Lifespan", "History", "ResourceLimits",
             "Ownership", "PartitionA", "PartitionB", "Test", "BigData",
             "Grpc", "Default"}

(* Words of the second argument that main() knows but looks for under the  *)
(* wrong initial, or does not look for at all: there are none but the      *)
(* unreachable BigData under 'R'.  Any other word leaves m_type unset: it  *)
(* then holds any bits, "Garbage" standing for those that no case has.     *)
Word == TestType \cup {"Other"}

TypesOf(word) == IF word \in TestType THEN {word} ELSE TestType \cup {"Garbage"}

-----------------------------------------------------------------------------
(* The topic of the endpoint that a program creates from its m_type.  The  *)
(* second publisher or subscriber of Test and Grpc is not made here.       *)
PublisherTopic(type) ==
  CASE type = "BigData" -> "DataChunkTopic"
    [] type = "Grpc"    -> "GrpcInfoTopic"
    [] OTHER            -> "TargetTopic"

SubscriberTopic_bug(type) == IF type = "Grpc" THEN "GrpcInfoTopic" ELSE "TargetTopic"

SubscriberTopic(type) ==
  CASE type = "BigData" -> "DataChunkTopic"
    [] type = "Grpc"    -> "GrpcInfoTopic"
    [] OTHER            -> "TargetTopic"

Partition(type) == IF type \in {"PartitionA", "PartitionB"} THEN type ELSE ""

-----------------------------------------------------------------------------
(* A deadline period is 1 when the code sets 1.0, and Infinite otherwise.  *)
Infinite == 2

(* What Fast DDS gives an endpoint whose policies the code leaves alone: a *)
(* writer is RELIABLE and TRANSIENT_LOCAL, a reader is neither.            *)
DefaultWriter == [keepAll |-> FALSE, max |-> 1, reliable |-> TRUE,
                  durable |-> TRUE, deadline |-> Infinite]
DefaultReader == [keepAll |-> FALSE, max |-> 1, reliable |-> FALSE,
                  durable |-> FALSE, deadline |-> Infinite]

KeepingAll(qos, max) ==
  [qos EXCEPT !.keepAll = TRUE, !.max = max, !.reliable = TRUE, !.durable = TRUE]

KeepsLarge == {"Durability", "BigData"}
KeepsSmall == {"History", "ResourceLimits"}

initPubType(type) ==
  CASE type \in KeepsLarge           -> KeepingAll(DefaultWriter, LargeMax)
    [] type \in KeepsSmall           -> KeepingAll(DefaultWriter, SmallMax)
    [] type = "Deadline"             -> [DefaultWriter EXCEPT !.deadline = 1]
    [] type = "ReliablityBestEffort" -> [DefaultWriter EXCEPT !.reliable = FALSE]
    [] OTHER                         -> DefaultWriter

initSubType(type) ==
  CASE type \in KeepsLarge           -> KeepingAll(DefaultReader, LargeMax)
    [] type \in KeepsSmall           -> KeepingAll(DefaultReader, SmallMax)
    [] type = "Deadline"             -> [DefaultReader EXCEPT !.deadline = 1]
    [] type = "ReliablityReliable"   -> [DefaultReader EXCEPT !.reliable = TRUE]
    [] OTHER                         -> DefaultReader

-----------------------------------------------------------------------------
(* Fast DDS matches a writer and a reader of one topic and one partition   *)
(* when the writer offers what the reader requests.                        *)
Offers_bug(offered, requested) == TRUE

Offers(offered, requested) ==
  /\ requested.reliable => offered.reliable
  /\ requested.durable  => offered.durable
  /\ offered.deadline <= requested.deadline

Matches(pub, sub) ==
  /\ PublisherTopic(pub) = SubscriberTopic(sub)
  /\ Partition(pub) = Partition(sub)
  /\ Offers(initPubType(pub), initSubType(sub))
=============================================================================
