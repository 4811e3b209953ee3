----------------------------- MODULE PastSamples -----------------------------
(***************************************************************************)
(* pastsamples() of HistoryKind: one process with a KEEP_ALL writer, a     *)
(* KEEP_ALL reader and a KEEP_LAST reader.  It writes without waiting for  *)
(* discovery, sleeps, reads (does not take) what each reader holds, and    *)
(* deletes everything.  Any creation may fail; the pointers to the writer  *)
(* and the readers are not checked.  Discovery and delivery go on in the   *)
(* middleware's threads all the time, so the sleep may end before or after *)
(* them, and a history may change while it is being read.                  *)
(***************************************************************************)
EXTENDS Integers, FiniteSets, Sequences

CONSTANTS Count,        \* samples written: 20
          Depth,        \* depth of the KEEP_LAST reader: 10
          MaxSamples    \* max_samples of writer and KEEP_ALL reader: 100

ASSUME SizeAssumption ==
  /\ Count \in Nat \ {0} /\ Depth \in Nat \ {0} /\ MaxSamples \in Nat
  /\ Depth <= Count /\ Count <= MaxSamples

KeepAllReader  == "myReader1"
KeepLastReader == "myReader2"
Readers == {KeepAllReader, KeepLastReader}

wqos == [keepAll |-> TRUE, max |-> MaxSamples]

rqos ==
  [r \in Readers |->
     [keepAll |-> r = KeepAllReader,
      max |-> IF r = KeepAllReader THEN MaxSamples ELSE Depth,
      reliable |-> TRUE, durable |-> TRUE]]

(* What is created, in this order; without one of the unchecked ones the   *)
(* program goes on.                                                        *)
Creations == <<"PubParticipant", "myPub", "myTopic", "myWriter",
               "SubParticipant", "mySub1", "myTopic2", KeepAllReader,
               "mySub2", KeepLastReader>>
Unchecked == {"myWriter"} \cup Readers

VARIABLES pc,       \* create, write, sleep, the reader being read, delete,
                    \* end or crash
          step,     \* the next of Creations
          made,     \* what was created
          j,        \* the counter of the write loop
          shown,    \* per reader: what read_next_sample returned so far
          inTime,   \* had everything arrived when the sleep ended?
          accepted, history, link, pending, got, held

INSTANCE SampleHistory WITH WriterQos <- wqos, ReaderQos <- rqos

middleware == <<accepted, history, link, pending, got, held>>
created == <<step, made>>
pastVars == <<pc, j, shown, inTime, created, middleware>>

PastInit ==
  /\ HistoryInit
  /\ pc = "create"
  /\ step = 1
  /\ made = {}
  /\ j = 0
  /\ shown = [r \in Readers |-> {}]
  /\ inTime = FALSE

-----------------------------------------------------------------------------
(* A failure that is looked at ends the program, and nothing is deleted.   *)
Create ==
  /\ pc = "create"
  /\ step' = step + 1
  /\ \/ /\ made' = made \cup {Creations[step]}
        /\ pc' = IF step = Len(Creations) THEN "write" ELSE "create"
     \/ /\ Creations[step] \in Unchecked
        /\ pc' = IF step = Len(Creations) THEN "write" ELSE "create"
        /\ UNCHANGED made
     \/ /\ Creations[step] \notin Unchecked
        /\ pc' = "end"
        /\ UNCHANGED made
  /\ UNCHANGED <<j, shown, inTime, middleware>>

(* write() or read_next_sample() through a null pointer.                   *)
Crash ==
  /\ \/ pc = "write" /\ "myWriter" \notin made
     \/ pc \in Readers \ made
  /\ pc' = "crash"
  /\ UNCHANGED <<j, shown, inTime, created, middleware>>

(* my_sample.index(j + 1).  What write() returns is ignored; it is true,   *)
(* as the writer's limit is not reached.                                   *)
WriteSample ==
  /\ pc = "write" /\ "myWriter" \in made
  /\ j < Count
  /\ Accept(j + 1)
  /\ j' = j + 1
  /\ UNCHANGED <<pc, shown, inTime, created>>

WriteLoopEnds ==
  /\ pc = "write"
  /\ j = Count
  /\ pc' = "sleep"
  /\ UNCHANGED <<j, shown, inTime, created, middleware>>

SleepEnds ==
  /\ pc = "sleep"
  /\ pc' = KeepAllReader
  /\ inTime' = (\A r \in Readers : got[r] = accepted)
  /\ UNCHANGED <<j, shown, created, middleware>>

(* read_next_sample: the oldest sample not read yet; it stays.             *)
Unread(r) == held[r] \ shown[r]

ReadNext ==
  /\ pc \in Readers \cap made
  /\ \E x \in Unread(pc) :
       /\ Oldest(x, Unread(pc))
       /\ shown' = [shown EXCEPT ![pc] = @ \cup {x}]
  /\ UNCHANGED <<pc, j, inTime, created, middleware>>

ReadLoopEnds ==
  /\ pc \in Readers \cap made
  /\ Unread(pc) = {}
  /\ pc' = IF pc = KeepAllReader THEN KeepLastReader ELSE "delete"
  /\ UNCHANGED <<j, shown, inTime, created, middleware>>

DeleteAll ==
  /\ pc = "delete"
  /\ pc' = "end"
  /\ DeleteWriter
  /\ UNCHANGED <<j, shown, inTime, created>>

Discovery(r) ==
  /\ pc \notin {"end", "crash"} /\ {"myWriter", r} \subseteq made
  /\ Meet(r)
  /\ UNCHANGED <<pc, j, shown, inTime, created>>

Arrive(r) ==
  /\ pc # "crash"
  /\ Deliver(r)
  /\ UNCHANGED <<pc, j, shown, inTime, created>>

PastNext ==
  \/ Create \/ Crash \/ WriteSample \/ WriteLoopEnds \/ SleepEnds
  \/ ReadNext \/ ReadLoopEnds \/ DeleteAll
  \/ \E r \in Readers : Discovery(r) \/ Arrive(r)

PastSpec == PastInit /\ [][PastNext]_pastVars

-----------------------------------------------------------------------------
(* If everything arrived during the sleep, the program prints what         *)
(* README.txt of the example announces: all samples for the KEEP_ALL       *)
(* reader, the last Depth of them for the other.                           *)
PrintsWhatReadmeSays ==
  inTime /\ pc \in {"delete", "end"}
    => /\ shown[KeepAllReader] = 1 .. Count
       /\ shown[KeepLastReader] = Count - Depth + 1 .. Count

(* At every moment, however early: the KEEP_LAST reader holds exactly the  *)
(* newest samples it got, Depth of them or all if it got fewer; what it    *)
(* got has no gap, so the holding is a run of consecutive samples.         *)
HoldsTheNewest ==
  /\ \A x \in held[KeepLastReader], y \in got[KeepLastReader] \ held[KeepLastReader] : y < x
  /\ \/ held[KeepLastReader] = got[KeepLastReader]
     \/ Cardinality(held[KeepLastReader]) = Depth
  /\ \A r \in Readers : got[r] = 1 .. Cardinality(got[r])
=============================================================================
