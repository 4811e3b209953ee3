---------------------------- MODULE HistoryProofs ---------------------------
(***************************************************************************)
(* What is left in histories, for all their sizes.  Lifespan: how many     *)
(* samples clear_history finds and whether the subscriber takes any, for   *)
(* all durations, numbers of samples and oversleepings.  PastSamples: what *)
(* a KEEP_ALL and a KEEP_LAST reader hold and print.                       *)
(***************************************************************************)
EXTENDS Lifespan, PastSamples, FiniteSetTheorems, TLAPS

(* What the argument needs of the types.                                   *)
PubTypes ==
  /\ lifespan \in lifespans
  /\ now \in Nat /\ pub_wake \in Nat
  /\ born \in [Sample -> Nat]
  /\ index \in 0 .. samples
  /\ pub_pc \in {"loop", "sleep", "cleared"}
  /\ writer_history \subseteq 1 .. index

(* Time: no sample overstays, no sleeper oversleeps by more than Slack,    *)
(* and the publisher's wake-up time keeps its distance from every sample.  *)
Timing ==
  /\ \A x \in writer_history : now <= born[x] + lifespan
  /\ \A x \in 1 .. index : born[x] <= now
  /\ pub_pc = "loop" => \A x \in 1 .. index : born[x] + write_sleep <= pub_wake
  /\ pub_pc = "sleep" => \A x \in 1 .. index : born[x] + write_sleep + sleep <= pub_wake
  /\ pub_pc # "cleared" => now <= pub_wake + Slack

(* The last sample: it is in the history until its lifespan is over, and   *)
(* the publisher comes back within a known time of it.                     *)
LastSample ==
  /\ pub_pc = "loop" /\ index = samples => pub_wake = born[samples] + write_sleep
  /\ pub_pc = "sleep" => /\ index = samples
                         /\ pub_wake <= born[samples] + write_sleep + Slack + sleep
  /\ index = samples /\ pub_pc # "cleared"
       => samples \in writer_history \/ now >= born[samples] + lifespan

Removal ==
  /\ removed \in Nat
  /\ RemovesNothingIfShort
  /\ RemovesIfLong

TimeInv == PubTypes /\ Timing /\ LastSample /\ Removal

LEMMA Durations ==
  /\ samples \in Nat /\ samples >= 1
  /\ lifespans \subseteq Nat /\ write_sleep \in Nat /\ sleep \in Nat /\ Slack \in Nat
BY SampleAssumption, TimeAssumption

THEOREM TimeInvInit == Init => TimeInv
BY Durations
   DEF Init, TimeInv, PubTypes, Timing, LastSample, Removal, Sample,
       RemovesNothingIfShort, RemovesIfLong

LEMMA PublishTurnKeepsTime ==
  TimeInv /\ PublishTurn /\ lifespan' = lifespan => TimeInv'
<1> SUFFICES ASSUME TimeInv, PublishTurn, lifespan' = lifespan PROVE TimeInv'
  OBVIOUS
<1>t. /\ PubTypes /\ Timing /\ LastSample /\ Removal
      /\ lifespan \in Nat /\ lifespan' = lifespan
  BY Durations DEF TimeInv, PubTypes
<1>u. /\ pub_pc = "loop" /\ pub_pc' = "loop" /\ now' = now /\ removed' = removed
      /\ index < samples /\ pub_wake' = now + write_sleep
  BY DEF PublishTurn
<1>r. Removal'
  BY <1>t, <1>u DEF Removal, RemovesNothingIfShort, RemovesIfLong
<1>1. CASE first_connected
  <2>1. /\ index' = index + 1 /\ index' \in 1 .. samples
        /\ born' = [born EXCEPT ![index'] = now]
        /\ writer_history' = writer_history \cup {index'}
    BY <1>1, <1>t, <1>u, Durations DEF PublishTurn, PubTypes
  <2>2. born' \in [Sample -> Nat] /\ born'[index'] = now
        /\ \A x \in 1 .. index : born'[x] = born[x] /\ x \in 1 .. index'
    BY <2>1, <1>t, Durations DEF PubTypes, Sample
  <2>3. \A x \in 1 .. index' : x = index' \/ x \in 1 .. index
    BY <2>1, <1>t, Durations DEF PubTypes
  <2>4. PubTypes'
    <3>1. writer_history' \subseteq 1 .. index'
      BY <2>1, <2>2, <1>t DEF PubTypes
    <3> QED
      BY <1>t, <1>u, <2>1, <2>2, <3>1, Durations DEF PubTypes
  <2>5. Timing'
    <3>1. \A x \in 1 .. index' : born'[x] <= now /\ born'[x] \in Nat
      <4> SUFFICES ASSUME NEW x \in 1 .. index' PROVE born'[x] <= now /\ born'[x] \in Nat
        OBVIOUS
      <4>1. now \in Nat /\ now <= now
        BY <1>t DEF PubTypes
      <4>2. x \in Sample
        BY <2>1, Durations DEF Sample
      <4>3. born'[x] \in Nat
        BY <2>2, <4>2
      <4>4. CASE x = index'
        BY <2>2, <4>1, <4>4
      <4>5. CASE x \in 1 .. index
        BY <2>2, <4>3, <4>5, <1>t DEF Timing
      <4> QED
        BY <2>3, <4>3, <4>4, <4>5
    <3>2. \A x \in writer_history' : now <= born'[x] + lifespan
      <4>1. \A x \in writer_history : born'[x] = born[x]
        BY <2>2, <1>t DEF PubTypes
      <4> QED
        BY <4>1, <1>t, <2>1, <2>2, Durations DEF PubTypes, Timing
    <3>3. \A x \in 1 .. index' : born'[x] + write_sleep <= pub_wake'
      BY <3>1, <1>t, <1>u, Durations DEF PubTypes
    <3>4. now' <= pub_wake' + Slack
      BY <1>t, <1>u, Durations DEF PubTypes
    <3> QED
      BY <1>u, <3>1, <3>2, <3>3, <3>4 DEF Timing
  <2>6. LastSample'
    BY <1>u, <2>1, <2>2 DEF LastSample
  <2> QED
    BY <1>r, <2>4, <2>5, <2>6 DEF TimeInv
<1>2. CASE ~first_connected
  <2>1. UNCHANGED <<index, born, writer_history>>
    BY <1>2 DEF PublishTurn
  <2>2. PubTypes'
    BY <1>t, <1>u, <2>1, Durations DEF PubTypes
  <2>3. Timing'
    <3>1. \A x \in 1 .. index : born[x] <= now /\ born[x] \in Nat
      BY <1>t, Durations DEF PubTypes, Timing, Sample
    <3>2. \A x \in 1 .. index : born[x] + write_sleep <= now + write_sleep
      BY <3>1, <1>t, Durations DEF PubTypes
    <3> QED
      BY <3>2, <1>t, <1>u, <2>1, Durations DEF PubTypes, Timing
  <2>4. LastSample'
    BY <1>t, <1>u, <2>1, Durations DEF LastSample, PubTypes
  <2> QED
    BY <1>r, <2>2, <2>3, <2>4 DEF TimeInv
<1> QED
  BY <1>1, <1>2

LEMMA SleepsKeepTime ==
  ASSUME TimeInv, PublishLoopEnds \/ clear_history, lifespan' = lifespan
  PROVE  TimeInv'
<1>t. /\ PubTypes /\ Timing /\ LastSample /\ Removal
      /\ lifespan \in Nat /\ lifespan' = lifespan
  BY Durations DEF TimeInv, PubTypes
<1>b. \A x \in 1 .. index : born[x] \in Nat /\ born[x] <= now
  BY <1>t, Durations DEF PubTypes, Timing, Sample
<1>1. CASE PublishLoopEnds
  <2>1. /\ pub_pc = "loop" /\ now >= pub_wake /\ index = samples
        /\ pub_pc' = "sleep" /\ pub_wake' = now + sleep
        /\ UNCHANGED <<now, index, born, removed, writer_history>>
    BY <1>1 DEF PublishLoopEnds
  <2>2. PubTypes'
    BY <1>t, <2>1, Durations DEF PubTypes
  <2>3. Timing'
    <3>1. \A x \in 1 .. index : born[x] + write_sleep + sleep <= now + sleep
      BY <1>b, <1>t, <2>1, Durations DEF PubTypes, Timing
    <3> QED
      BY <3>1, <1>t, <2>1, Durations DEF PubTypes, Timing
  <2>4. LastSample'
    <3>1. samples \in 1 .. index /\ born[samples] \in Nat
      BY <1>b, <2>1, Durations
    <3>2. now <= born[samples] + write_sleep + Slack
      BY <1>t, <2>1, <3>1, Durations DEF PubTypes, Timing, LastSample
    <3>3. pub_wake' <= born[samples] + write_sleep + Slack + sleep
      BY <1>t, <2>1, <3>1, <3>2, Durations DEF PubTypes
    <3> QED
      BY <1>t, <2>1, <3>3 DEF LastSample
  <2>5. Removal'
    BY <1>t, <2>1 DEF Removal, RemovesNothingIfShort, RemovesIfLong
  <2> QED
    BY <2>2, <2>3, <2>4, <2>5 DEF TimeInv
<1>2. CASE clear_history
  <2>1. /\ pub_pc = "sleep" /\ now >= pub_wake
        /\ removed' = Cardinality(writer_history) /\ writer_history' = {}
        /\ pub_pc' = "cleared"
        /\ UNCHANGED <<now, pub_wake, index, born>>
    BY <1>2 DEF clear_history
  <2>2. IsFiniteSet(writer_history) /\ removed' \in Nat
    <3>1. IsFiniteSet(1 .. index)
      BY <1>t, FS_Interval DEF PubTypes
    <3> QED
      BY <3>1, <1>t, <2>1, FS_Subset, FS_CardinalityType DEF PubTypes
  <2>3. lifespan < write_sleep + sleep => removed' = 0
    <3> SUFFICES ASSUME lifespan < write_sleep + sleep PROVE writer_history = {}
      BY <2>1, FS_EmptySet
    <3>1. ASSUME NEW x \in writer_history PROVE FALSE
      <4>1. x \in 1 .. index /\ born[x] \in Nat /\ now <= born[x] + lifespan
        BY <1>t, <1>b DEF PubTypes, Timing
      <4>2. born[x] + write_sleep + sleep <= now
        BY <1>t, <2>1, <4>1, Durations DEF PubTypes, Timing
      <4> QED
        BY <4>1, <4>2, <1>t, Durations DEF PubTypes
    <3> QED
      BY <3>1
  <2>4. lifespan > write_sleep + sleep + 2 * Slack => removed' > 0
    <3> SUFFICES ASSUME lifespan > write_sleep + sleep + 2 * Slack
                 PROVE  samples \in writer_history
      BY <2>1, <2>2, FS_EmptySet
    <3>1. index = samples /\ born[samples] \in Nat
      BY <1>b, <1>t, <2>1, Durations DEF LastSample
    <3>2. now <= born[samples] + write_sleep + sleep + 2 * Slack
      BY <1>t, <2>1, <3>1, Durations DEF PubTypes, Timing, LastSample
    <3> QED
      BY <1>t, <2>1, <3>1, <3>2, Durations DEF PubTypes, LastSample
  <2>5. Removal'
    BY <2>1, <2>2, <2>3, <2>4 DEF Removal, RemovesNothingIfShort, RemovesIfLong
  <2>6. PubTypes' /\ Timing' /\ LastSample'
    BY <1>t, <2>1 DEF PubTypes, Timing, LastSample
  <2> QED
    BY <2>5, <2>6 DEF TimeInv
<1> QED
  BY <1>1, <1>2

LEMMA TickKeepsTime == TimeInv /\ Tick /\ lifespan' = lifespan => TimeInv'
<1> SUFFICES ASSUME TimeInv, Tick, lifespan' = lifespan PROVE TimeInv'
  OBVIOUS
<1>t. /\ PubTypes /\ Timing /\ LastSample /\ Removal
      /\ lifespan \in Nat /\ lifespan' = lifespan
  BY Durations DEF TimeInv, PubTypes
<1>1. /\ now' = now + 1
      /\ \A x \in writer_history : ~(now >= born[x] + lifespan)
      /\ pub_pc \in {"loop", "sleep"} => now < pub_wake + Slack
      /\ UNCHANGED <<pub_pc, pub_wake, index, born, removed, writer_history>>
  BY DEF Tick, ExpiredAtWriter, pubVars
<1>b. \A x \in 1 .. index : born[x] \in Nat /\ born[x] <= now /\ x \in Sample
  BY <1>t, Durations DEF PubTypes, Timing, Sample
<1>2. PubTypes'
  BY <1>t, <1>1 DEF PubTypes
<1>3. Timing'
  BY <1>t, <1>1, <1>b, Durations DEF PubTypes, Timing
<1>4. LastSample'
  <2>1. index = samples => born[samples] \in Nat
    BY <1>b, Durations
  <2> QED
    BY <1>t, <1>1, <2>1, Durations DEF PubTypes, LastSample
<1>5. Removal'
  BY <1>t, <1>1 DEF Removal, RemovesNothingIfShort, RemovesIfLong
<1> QED
  BY <1>2, <1>3, <1>4, <1>5 DEF TimeInv

THEOREM TimeInvInductive == TimeInv /\ [Next]_vars => TimeInv'
<1> SUFFICES ASSUME TimeInv, [Next]_vars PROVE TimeInv'
  OBVIOUS
<1>t. /\ PubTypes /\ Timing /\ LastSample /\ Removal
      /\ lifespan \in Nat /\ lifespan' = lifespan
  BY Durations DEF TimeInv, PubTypes, Next, vars
<1>1. CASE PublishTurn
  BY <1>1, <1>t, PublishTurnKeepsTime
<1>2. CASE PublishLoopEnds \/ clear_history
  BY <1>2, <1>t, SleepsKeepTime
<1>3. CASE Tick
  BY <1>3, <1>t, TickKeepsTime
<1>4. CASE WriterExpires
  <2>1. PICK x \in writer_history :
          /\ now >= born[x] + lifespan
          /\ writer_history' = writer_history \ {x}
          /\ UNCHANGED <<now, pub_pc, pub_wake, index, born, removed>>
    BY <1>4 DEF WriterExpires, ExpiredAtWriter, pubVars
  <2> QED
    BY <1>t, <2>1
       DEF TimeInv, PubTypes, Timing, LastSample, Removal, RemovesNothingIfShort, RemovesIfLong
<1>5. CASE UNCHANGED <<now, pub_pc, pub_wake, index, born, removed, writer_history>>
  BY <1>t, <1>5
     DEF TimeInv, PubTypes, Timing, LastSample, Removal, RemovesNothingIfShort, RemovesIfLong
<1>6. CASE Subscriber \/ on_publication_matched \/ ReaderExpires \/ on_data_available
           \/ NeverArrives \/ UNCHANGED vars
  BY <1>5, <1>6
     DEF Subscriber, SubscriberPolls, SubscriberWakes, TakeTurn, TakeLoopEnds,
         on_publication_matched, ReaderExpires, on_data_available, NeverArrives,
         vars, pubVars
<1> QED
  BY <1>1, <1>2, <1>3, <1>4, <1>6 DEF Next, Publisher, Middleware

LEMMA TimeInvAlways == Spec => []TimeInv
BY TimeInvInit, TimeInvInductive, PTL DEF Spec

(* clear_history removes nothing if the lifespan is over within the two    *)
(* sleeps that separate it from the last sample.                           *)
THEOREM ShortLifespanRemovesNothing == Spec => []RemovesNothingIfShort
<1>1. TimeInv => RemovesNothingIfShort
  BY DEF TimeInv, Removal
<1> QED
  BY <1>1, TimeInvAlways, PTL

(* It removes a sample if the lifespan outlasts both sleeps with their     *)
(* oversleeping.                                                           *)
THEOREM LongLifespanRemoves == Spec => []RemovesIfLong
<1>1. TimeInv => RemovesIfLong
  BY DEF TimeInv, Removal
<1> QED
  BY <1>1, TimeInvAlways, PTL

-----------------------------------------------------------------------------
(* The subscriber.                                                         *)
SubTypes ==
  /\ sub_lifespan \in lifespans
  /\ sub_wake \in Nat /\ n_samples \in Nat
  /\ sub_pc \in {"poll", "sleep", "take", "end"}
  /\ inflight \subseteq 1 .. index /\ reader_history \subseteq 1 .. index

(* Every call of on_data_available brought a sample at least, so that as   *)
(* many calls as there are samples mean that all have arrived.             *)
Counting == n_samples + Cardinality(inflight) <= index

AllArrived ==
  samples <= number /\ sub_pc # "poll" => index = samples /\ inflight = {}

(* No sample overstays at the reader, and each is older than the sleep     *)
(* when it is over.                                                        *)
ReaderTiming ==
  /\ \A x \in reader_history : now <= born[x] + sub_lifespan
  /\ samples <= number /\ sub_pc = "sleep"
       => \A x \in 1 .. index : born[x] + sub_sleep <= sub_wake

NothingLeft ==
  samples <= number /\ sub_lifespan < sub_sleep /\ sub_pc \in {"take", "end"}
    => reader_history = {}

SubInv ==
  /\ SubTypes /\ Counting /\ AllArrived /\ ReaderTiming /\ NothingLeft
  /\ TakesNothingIfShort

LEMMA SubDurations ==
  /\ samples \in Nat /\ number \in Nat /\ number >= 1
  /\ lifespans \subseteq Nat /\ sub_sleep \in Nat /\ poll_sleep \in Nat
BY SampleAssumption, TimeAssumption

LEMMA SubInvInit == Init => SubInv
<1> SUFFICES ASSUME Init PROVE SubInv
  OBVIOUS
<1>1. SubTypes /\ AllArrived /\ ReaderTiming /\ NothingLeft /\ TakesNothingIfShort
  BY DEF Init, SubTypes, AllArrived, ReaderTiming, NothingLeft, TakesNothingIfShort
<1>2. Counting
  BY FS_EmptySet DEF Init, Counting
<1> QED
  BY <1>1, <1>2 DEF SubInv

(* What the steps of the publisher and of time need to know.               *)
LEMMA InFlight ==
  ASSUME SubTypes, index \in 0 .. samples
  PROVE  IsFiniteSet(inflight) /\ Cardinality(inflight) \in Nat
<1>1. index \in Int /\ 1 \in Int
  BY SubDurations
<1>2. IsFiniteSet(1 .. index)
  BY <1>1, FS_Interval
<1> QED
  BY <1>2, FS_Subset, FS_CardinalityType DEF SubTypes

(* A step that leaves the subscriber, the samples and the clock alone.     *)
LEMMA SubUntouched ==
  ASSUME SubInv,
         UNCHANGED <<sub_lifespan, sub_wake, n_samples, sub_pc, taken, inflight,
                     reader_history, index, born, now>>
  PROVE  SubInv'
BY DEF SubInv, SubTypes, Counting, AllArrived, ReaderTiming, NothingLeft, TakesNothingIfShort

LEMMA PublishTurnKeepsSub ==
  ASSUME TimeInv, SubInv, PublishTurn, first_connected, sub_lifespan' = sub_lifespan
  PROVE  SubInv'
<1>1. /\ index < samples /\ index' = index + 1
      /\ born' = [born EXCEPT ![index'] = now]
      /\ inflight' = inflight \cup {index'}
      /\ UNCHANGED <<sub_lifespan, sub_wake, n_samples, sub_pc, taken, reader_history, now>>
  BY DEF PublishTurn, subVars
<1>2. /\ index \in 0 .. samples /\ born \in [Sample -> Nat] /\ now \in Nat
  BY DEF TimeInv, PubTypes
<1>3. SubTypes'
  BY <1>1, <1>2, SubDurations DEF SubInv, SubTypes
<1>4. Counting'
  <2>1. index' \notin inflight
    BY <1>1, <1>2, SubDurations DEF SubInv, SubTypes
  <2>2. Cardinality(inflight') = Cardinality(inflight) + 1
    BY <1>1, <1>2, <2>1, InFlight, FS_AddElement DEF SubInv
  <2> QED
    BY <1>1, <1>2, <2>2, InFlight, SubDurations DEF SubInv, SubTypes, Counting
<1>5. samples <= number => sub_pc = "poll"
  BY <1>1, <1>2, SubDurations DEF SubInv, AllArrived
<1>6. \A x \in reader_history : born'[x] = born[x]
  BY <1>1, <1>2, SubDurations DEF SubInv, SubTypes, Sample
<1>7. AllArrived' /\ ReaderTiming' /\ NothingLeft'
  BY <1>1, <1>5, <1>6 DEF SubInv, AllArrived, ReaderTiming, NothingLeft
<1> QED
  BY <1>1, <1>3, <1>4, <1>7 DEF SubInv, TakesNothingIfShort

LEMMA DataAvailableKeepsSub ==
  ASSUME TimeInv, SubInv, on_data_available, sub_lifespan' = sub_lifespan
  PROVE  SubInv'
<1>1. PICK arrived \in (SUBSET inflight) \ {{}} :
        /\ inflight' = inflight \ arrived
        /\ reader_history' = reader_history \cup {x \in arrived : ~ExpiredAtReader(x)}
        /\ n_samples' \in {n_samples, n_samples + 1}
  BY DEF on_data_available
<1>2. UNCHANGED <<sub_lifespan, sub_wake, sub_pc, taken, index, born, now>>
  BY DEF on_data_available, pubVars, subVars
<1>3. /\ index \in 0 .. samples /\ born \in [Sample -> Nat] /\ now \in Nat
      /\ sub_lifespan \in Nat /\ n_samples \in Nat
  BY SubDurations DEF TimeInv, PubTypes, SubInv, SubTypes
<1>4. inflight # {} /\ inflight' \subseteq inflight /\ inflight' # inflight
  <2>1. PICK x \in arrived : x \in inflight
    OBVIOUS
  <2>2. x \notin inflight' /\ inflight' \subseteq inflight
    BY <1>1, <2>1
  <2> QED
    BY <2>1, <2>2
<1>5. samples <= number => sub_pc = "poll"
  BY <1>4 DEF SubInv, AllArrived
<1>6. SubTypes'
  <2>1. n_samples' \in Nat /\ reader_history' \subseteq reader_history \cup inflight
    BY <1>1, <1>3
  <2> QED
    BY <1>2, <1>4, <2>1 DEF SubInv, SubTypes
<1>7. Counting'
  <2>1. /\ Cardinality(inflight') \in Nat
        /\ Cardinality(inflight') < Cardinality(inflight)
    <3>1. IsFiniteSet(inflight) /\ Cardinality(inflight) \in Nat
      BY <1>3, InFlight DEF SubInv
    <3>2. IsFiniteSet(inflight') /\ Cardinality(inflight') <= Cardinality(inflight)
          /\ Cardinality(inflight) # Cardinality(inflight')
      BY <1>4, <3>1, FS_Subset
    <3>3. Cardinality(inflight') \in Nat
      BY <3>2, FS_CardinalityType
    <3> QED
      BY <3>1, <3>2, <3>3
  <2>2. Cardinality(inflight) \in Nat
    BY <1>3, InFlight DEF SubInv
  <2> QED
    BY <1>1, <1>2, <1>3, <2>1, <2>2, SubDurations DEF SubInv, Counting
<1>8. \A x \in reader_history' : now <= born[x] + sub_lifespan
  <2> SUFFICES ASSUME NEW x \in reader_history' PROVE now <= born[x] + sub_lifespan
    OBVIOUS
  <2>1. CASE x \in reader_history
    BY <2>1 DEF SubInv, ReaderTiming
  <2>2. CASE x \notin reader_history
    <3>1. ~(now >= born[x] + sub_lifespan) /\ x \in inflight
      BY <1>1, <2>2 DEF ExpiredAtReader
    <3>2. born[x] \in Nat
      BY <1>3, <3>1, SubDurations DEF SubInv, SubTypes, Sample
    <3> QED
      BY <1>3, <3>1, <3>2
  <2> QED
    BY <2>1, <2>2
<1>9. AllArrived' /\ ReaderTiming' /\ NothingLeft'
  BY <1>2, <1>5, <1>8 DEF SubInv, AllArrived, ReaderTiming, NothingLeft
<1> QED
  BY <1>2, <1>6, <1>7, <1>9 DEF SubInv, TakesNothingIfShort

(* The subscriber's own steps: it goes to sleep when all samples are there *)
(* and wakes up when the lifespan of each is over.                         *)
LEMMA SubscriberKeepsSub ==
  ASSUME TimeInv, SubInv, Subscriber, sub_lifespan' = sub_lifespan
  PROVE  SubInv'
<1>1. UNCHANGED <<sub_lifespan, index, born, now, inflight, n_samples>>
  BY DEF Subscriber, SubscriberPolls, SubscriberWakes, TakeTurn, TakeLoopEnds, pubVars
<1>2. /\ index \in 0 .. samples /\ now \in Nat /\ sub_lifespan \in Nat
      /\ \A x \in 1 .. index : born[x] \in Nat /\ born[x] <= now
  BY SubDurations DEF TimeInv, PubTypes, Timing, SubInv, SubTypes, Sample
<1>c. Counting'
  BY <1>1 DEF SubInv, Counting
<1>3. CASE SubscriberPolls
  <2>1. /\ sub_pc = "poll" /\ UNCHANGED <<taken, reader_history>>
        /\ \/ number > n_samples /\ sub_wake' = now + poll_sleep /\ sub_pc' = "poll"
           \/ ~(number > n_samples) /\ sub_wake' = now + sub_sleep /\ sub_pc' = "sleep"
    BY <1>3 DEF SubscriberPolls
  <2>2. SubTypes'
    BY <1>1, <1>2, <2>1, SubDurations DEF SubInv, SubTypes
  <2>3. AllArrived'
    <3> SUFFICES ASSUME samples <= number, ~(number > n_samples)
                 PROVE  index = samples /\ inflight = {}
      BY <1>1, <2>1 DEF AllArrived
    <3>1. IsFiniteSet(inflight) /\ Cardinality(inflight) \in Nat
      BY <1>2, InFlight DEF SubInv
    <3>2. index = samples /\ Cardinality(inflight) = 0
      BY <1>2, <3>1, SubDurations DEF SubInv, SubTypes, Counting
    <3> QED
      BY <3>1, <3>2, FS_EmptySet
  <2>4. \A x \in 1 .. index : born[x] + sub_sleep <= now + sub_sleep
    BY <1>2, SubDurations
  <2>5. ReaderTiming' /\ NothingLeft'
    BY <1>1, <2>1, <2>4 DEF SubInv, ReaderTiming, NothingLeft
  <2> QED
    BY <1>1, <1>c, <2>1, <2>2, <2>3, <2>5 DEF SubInv, TakesNothingIfShort
<1>4. CASE SubscriberWakes
  <2>1. /\ sub_pc = "sleep" /\ sub_pc' = "take" /\ now >= sub_wake
        /\ UNCHANGED <<sub_wake, taken, reader_history>>
    BY <1>4 DEF SubscriberWakes
  <2>2. SubTypes'
    BY <1>1, <2>1 DEF SubInv, SubTypes
  <2>3. NothingLeft'
    <3> SUFFICES ASSUME samples <= number, sub_lifespan < sub_sleep,
                        NEW x \in reader_history
                 PROVE  FALSE
      BY <1>1, <2>1 DEF NothingLeft
    <3>1. x \in 1 .. index /\ born[x] \in Nat
      BY <1>2 DEF SubInv, SubTypes
    <3>2. born[x] + sub_sleep <= sub_wake /\ now <= born[x] + sub_lifespan
      BY <2>1, <3>1 DEF SubInv, ReaderTiming
    <3> QED
      BY <1>2, <2>1, <3>1, <3>2, SubDurations DEF SubInv, SubTypes
  <2> QED
    BY <1>1, <1>c, <2>1, <2>2, <2>3
       DEF SubInv, AllArrived, ReaderTiming, TakesNothingIfShort
<1>5. CASE TakeTurn \/ TakeLoopEnds
  <2>1. /\ sub_pc = "take" /\ sub_pc' \in {"take", "end"}
        /\ UNCHANGED sub_wake /\ reader_history' \subseteq reader_history
        /\ reader_history = {} => taken' = taken
    BY <1>5 DEF TakeTurn, TakeLoopEnds
  <2>2. SubTypes'
    BY <1>1, <2>1 DEF SubInv, SubTypes
  <2>3. AllArrived' /\ ReaderTiming' /\ NothingLeft'
    BY <1>1, <2>1 DEF SubInv, AllArrived, ReaderTiming, NothingLeft
  <2>4. TakesNothingIfShort'
    BY <1>1, <2>1 DEF SubInv, NothingLeft, TakesNothingIfShort
  <2> QED
    BY <1>c, <2>2, <2>3, <2>4 DEF SubInv
<1> QED
  BY <1>3, <1>4, <1>5 DEF Subscriber

LEMMA SubInvInductive == TimeInv /\ SubInv /\ [Next]_vars => SubInv'
<1> SUFFICES ASSUME TimeInv, SubInv, [Next]_vars PROVE SubInv'
  OBVIOUS
<1>0. sub_lifespan' = sub_lifespan
  BY DEF Next, vars
<1>t. /\ index \in 0 .. samples /\ born \in [Sample -> Nat] /\ now \in Nat
      /\ sub_lifespan \in Nat
  BY SubDurations DEF TimeInv, PubTypes, SubInv, SubTypes
<1>1. CASE PublishTurn /\ first_connected
  BY <1>0, <1>1, PublishTurnKeepsSub
<1>2. CASE on_data_available
  BY <1>0, <1>2, DataAvailableKeepsSub
<1>3. CASE Subscriber
  BY <1>0, <1>3, SubscriberKeepsSub
<1>4. CASE (PublishTurn /\ ~first_connected) \/ PublishLoopEnds \/ clear_history
           \/ on_publication_matched \/ WriterExpires \/ UNCHANGED vars
  BY <1>0, <1>4, SubUntouched
     DEF PublishTurn, PublishLoopEnds, clear_history, on_publication_matched,
         WriterExpires, vars, pubVars, subVars
<1>5. CASE ReaderExpires
  <2>1. /\ reader_history' \subseteq reader_history
        /\ UNCHANGED <<sub_lifespan, sub_wake, n_samples, sub_pc, taken, inflight,
                       index, born, now>>
    BY <1>0, <1>5 DEF ReaderExpires, pubVars, subVars
  <2> QED
    BY <2>1 DEF SubInv, SubTypes, Counting, AllArrived, ReaderTiming, NothingLeft,
                TakesNothingIfShort
<1>6. CASE NeverArrives
  <2>1. PICK x \in inflight : inflight' = inflight \ {x}
    BY <1>6 DEF NeverArrives
  <2>2. UNCHANGED <<sub_lifespan, sub_wake, n_samples, sub_pc, taken, reader_history,
                    index, born, now>>
    BY <1>0, <1>6 DEF NeverArrives, pubVars, subVars
  <2>3. Counting'
    <3>1. IsFiniteSet(inflight) /\ Cardinality(inflight) \in Nat
      BY <1>t, InFlight DEF SubInv
    <3>2. Cardinality(inflight') = Cardinality(inflight) - 1
      BY <2>1, <3>1, FS_RemoveElement
    <3> QED
      BY <1>t, <2>2, <3>1, <3>2, SubDurations DEF SubInv, SubTypes, Counting
  <2>4. SubTypes' /\ AllArrived'
    BY <2>1, <2>2 DEF SubInv, SubTypes, AllArrived
  <2> QED
    BY <2>2, <2>3, <2>4 DEF SubInv, ReaderTiming, NothingLeft, TakesNothingIfShort
<1>7. CASE Tick
  <2>1. /\ now' = now + 1
        /\ \A x \in reader_history : ~(now >= born[x] + sub_lifespan)
        /\ UNCHANGED <<sub_lifespan, sub_wake, n_samples, sub_pc, taken, inflight,
                       reader_history, index, born>>
    BY <1>0, <1>7 DEF Tick, ExpiredAtReader, pubVars, subVars
  <2>2. \A x \in reader_history : born[x] \in Nat
    BY <1>t, SubDurations DEF SubInv, SubTypes, Sample
  <2>3. ReaderTiming'
    BY <1>t, <2>1, <2>2 DEF SubInv, ReaderTiming
  <2> QED
    BY <2>1, <2>3 DEF SubInv, SubTypes, Counting, AllArrived, NothingLeft,
                      TakesNothingIfShort
<1> QED
  BY <1>1, <1>2, <1>3, <1>4, <1>5, <1>6, <1>7 DEF Next, Publisher, Middleware

(* A subscriber that waits for all the samples of its publisher, and then  *)
(* for longer than their lifespan, takes none, for any number of samples   *)
(* and however calls of on_data_available are saved.                       *)
THEOREM ShortLifespanTakesNothing == Spec => []TakesNothingIfShort
<1>1. SubInv => TakesNothingIfShort
  BY DEF SubInv
<1> QED
  BY <1>1, TimeInvAlways, SubInvInit, SubInvInductive, PTL DEF Spec

-----------------------------------------------------------------------------
(* PastSamples: what a reader holds once the first n samples have arrived. *)
Arrived(r, n) == IF r = KeepLastReader /\ n > Depth THEN n - Depth + 1 .. n ELSE 1 .. n

(* The writer has all it wrote until it is deleted; a reader has got a     *)
(* beginning of it, and a matched one is on its way to the rest.           *)
WriterInv ==
  /\ j \in 0 .. Count
  /\ accepted = 1 .. j
  /\ pc # "end" => history = 1 .. j
  /\ pc \in {"create", "write", "sleep", "delete", "end", "crash"} \cup Readers
  /\ pc \in {"sleep", "delete"} \cup Readers => j = Count

ReaderHas(r, n) ==
  /\ got[r] = 1 .. n
  /\ held[r] = Arrived(r, n)
  /\ pending[r] = IF link[r] = "matched" THEN n + 1 .. j ELSE {}
  /\ link[r] = "new" => n = 0

ReadersInv ==
  /\ DOMAIN got = Readers /\ DOMAIN held = Readers
  /\ DOMAIN pending = Readers /\ DOMAIN link = Readers
  /\ \A r \in Readers : \E n \in 0 .. j : ReaderHas(r, n)

(* When all arrived in time nothing changes any more while it is read: the *)
(* loops have shown a part of it, and all of it when they are over.        *)
ShownInv ==
  /\ DOMAIN shown = Readers
  /\ pc \in {"create", "write", "sleep"} =>
       /\ ~inTime
       /\ \A r \in Readers : shown[r] = {}
  /\ inTime => /\ j = Count
               /\ \A r \in Readers : got[r] = 1 .. Count /\ shown[r] \subseteq held[r]
               /\ pc \in {KeepLastReader, "delete", "end"} =>
                    shown[KeepAllReader] = held[KeepAllReader]
               /\ pc \in {"delete", "end"} =>
                    shown[KeepLastReader] = held[KeepLastReader]

PastInv == WriterInv /\ ReadersInv /\ ShownInv

LEMMA PastQos ==
  /\ KeepAllReader # KeepLastReader /\ Readers = {KeepAllReader, KeepLastReader}
  /\ rqos[KeepAllReader].keepAll /\ rqos[KeepAllReader].max = MaxSamples
  /\ ~rqos[KeepLastReader].keepAll /\ rqos[KeepLastReader].max = Depth
  /\ wqos.max = MaxSamples
  /\ \A r \in Readers : rqos[r].durable
BY DEF KeepAllReader, KeepLastReader, Readers, rqos, wqos

LEMMA PastSizes ==
  /\ Count \in Nat /\ Count > 0 /\ Depth \in Nat /\ Depth > 0 /\ MaxSamples \in Nat
  /\ Depth <= Count /\ Count <= MaxSamples
BY SizeAssumption

LEMMA UpTo == ASSUME NEW n \in Nat PROVE Cardinality(1 .. n) = n
BY FS_Interval

(* A sample that arrives is the next one; if the history is full, the      *)
(* oldest one makes room for it.                                           *)
LEMMA NextArrives ==
  ASSUME WriterInv, NEW r \in Readers, NEW n \in 0 .. j, ReaderHas(r, n), Deliver(r)
  PROVE  /\ link[r] = "matched" /\ n < j
         /\ got' = [got EXCEPT ![r] = 1 .. n + 1]
         /\ held' = [held EXCEPT ![r] = Arrived(r, n + 1)]
         /\ pending' = [pending EXCEPT ![r] = n + 2 .. j]
         /\ accepted' = accepted /\ history' = history /\ link' = link
<1>1. PICK x \in pending[r], kept \in SUBSET held[r] :
        /\ Oldest(x, pending[r])
        /\ Kept(r, kept)
        /\ held' = [held EXCEPT ![r] = kept \cup {x}]
        /\ got' = [got EXCEPT ![r] = got[r] \cup {x}]
        /\ pending' = [pending EXCEPT ![r] = pending[r] \ {x}]
        /\ accepted' = accepted /\ history' = history /\ link' = link
  BY DEF Deliver, NextPending
<1>2. n \in Nat /\ j \in Nat /\ j <= Count
  BY PastSizes DEF WriterInv
<1>3. link[r] = "matched" /\ pending[r] = n + 1 .. j
  BY <1>1 DEF ReaderHas
<1>4. x = n + 1 /\ n < j
  <2>1. x \in n + 1 .. j /\ \A y \in n + 1 .. j : x <= y
    BY <1>1, <1>3 DEF Oldest
  <2>2. n < j /\ x \in Nat /\ n + 1 <= x
    BY <1>2, <2>1
  <2>3. n + 1 \in n + 1 .. j
    BY <1>2, <2>2
  <2>4. x <= n + 1
    BY <2>1, <2>3
  <2> QED
    BY <1>2, <2>2, <2>4
<1>5. got[r] \cup {x} = 1 .. n + 1
  BY <1>2, <1>4 DEF ReaderHas
<1>6. pending[r] \ {x} = n + 2 .. j
  BY <1>2, <1>3, <1>4
<1>7. kept \cup {x} = Arrived(r, n + 1)
  <2>1. CASE r = KeepAllReader
    <3>1. held[r] = 1 .. n
      BY <2>1, PastQos DEF ReaderHas, Arrived
    <3>2. ~ReaderFull(r)
      BY <1>2, <1>4, <2>1, <3>1, UpTo, PastQos, PastSizes DEF ReaderFull
    <3>3. kept = 1 .. n
      BY <1>1, <3>1, <3>2 DEF Kept
    <3>4. Arrived(r, n + 1) = 1 .. n + 1
      BY <2>1, PastQos DEF Arrived
    <3> QED
      BY <1>2, <1>4, <3>3, <3>4
  <2>2. CASE r = KeepLastReader /\ n < Depth
    <3>1. held[r] = 1 .. n
      BY <1>2, <2>2, PastSizes DEF ReaderHas, Arrived
    <3>2. ~ReaderFull(r)
      BY <1>2, <2>2, <3>1, UpTo, PastQos, PastSizes DEF ReaderFull
    <3>3. kept = 1 .. n
      BY <1>1, <3>1, <3>2 DEF Kept
    <3>4. Arrived(r, n + 1) = 1 .. n + 1
      BY <1>2, <2>2, PastSizes DEF Arrived
    <3> QED
      BY <1>2, <1>4, <3>3, <3>4
  <2>3. CASE r = KeepLastReader /\ n >= Depth
    <3>1. held[r] = n - Depth + 1 .. n
      BY <1>2, <2>3, PastSizes DEF ReaderHas, Arrived
    <3>2. Cardinality(n - Depth + 1 .. n) = Depth
      BY <1>2, <2>3, PastSizes, FS_Interval
    <3>3. ReaderFull(r)
      BY <2>3, <3>1, <3>2, PastQos, PastSizes DEF ReaderFull
    <3>4. PICK y \in held[r] : Oldest(y, held[r]) /\ kept = held[r] \ {y}
      BY <1>1, <3>3 DEF Kept
    <3>5. y = n - Depth + 1
      BY <1>2, <2>3, <3>1, <3>4, PastSizes DEF Oldest
    <3>6. kept = n - Depth + 2 .. n
      BY <1>2, <3>1, <3>4, <3>5, PastSizes
    <3>7. Arrived(r, n + 1) = n - Depth + 2 .. n + 1
      BY <1>2, <2>3, PastSizes DEF Arrived
    <3> QED
      BY <1>2, <1>4, <2>3, <3>6, <3>7, PastSizes
  <2> QED
    BY <1>2, <2>1, <2>2, <2>3, PastQos, PastSizes
<1> QED
  BY <1>1, <1>3, <1>4, <1>5, <1>6, <1>7

LEMMA PastInvInit == PastInit => PastInv
<1> SUFFICES ASSUME PastInit PROVE PastInv
  OBVIOUS
<1>1. WriterInv
  <2>1. pc = "create" /\ j = 0 /\ accepted = {} /\ history = {}
    BY DEF PastInit, HistoryInit
  <2>2. pc \notin {"sleep", "delete"} \cup Readers
    BY <2>1 DEF Readers, KeepAllReader, KeepLastReader
  <2> QED
    BY <2>1, <2>2, PastSizes DEF WriterInv
<1>2. \A r \in Readers : ReaderHas(r, 0)
  BY PastSizes DEF PastInit, HistoryInit, ReaderHas, Arrived
<1>3. ReadersInv
  BY <1>2 DEF PastInit, HistoryInit, ReadersInv
<1>4. ShownInv
  BY DEF PastInit, ShownInv
<1> QED
  BY <1>1, <1>3, <1>4 DEF PastInv

(* Between its creation and its end the writer fills its history.          *)
LEMMA WriteKeeps == ASSUME PastInv, WriteSample PROVE PastInv'
<1>1. /\ pc = "write" /\ j < Count /\ Accept(j + 1) /\ j' = j + 1
      /\ pc' = pc /\ shown' = shown /\ inTime' = inTime
  BY DEF WriteSample
<1>2. j \in Nat /\ Count \in Nat /\ history = 1 .. j /\ accepted = 1 .. j /\ ~inTime
  BY <1>1, PastSizes DEF PastInv, WriterInv, ShownInv
<1>3. ~WriterFull
  BY <1>1, <1>2, UpTo, PastQos, PastSizes DEF WriterFull
<1>4. Store(j + 1, history)
  BY <1>1, <1>3 DEF Accept
<1>5. /\ history' = history \cup {j + 1} /\ accepted' = accepted \cup {j + 1}
      /\ pending' = [r \in Readers |-> IF r \in Matched THEN pending[r] \cup {j + 1}
                                                        ELSE pending[r]]
      /\ link' = link /\ got' = got /\ held' = held
  BY <1>4 DEF Store
<1>6. WriterInv'
  <2>1. 1 .. j' = (1 .. j) \cup {j + 1}
    BY <1>1, <1>2
  <2>2. j' \in 0 .. Count
    BY <1>1, <1>2
  <2>3. pc' = "write" /\ "write" \notin {"sleep", "delete"} \cup Readers
    BY <1>1 DEF Readers, KeepAllReader, KeepLastReader
  <2> QED
    BY <1>2, <1>5, <2>1, <2>2, <2>3 DEF WriterInv
<1>7. ReadersInv'
  <2>1. ASSUME NEW r \in Readers PROVE \E n \in 0 .. j' : ReaderHas(r, n)'
    <3>1. PICK n \in 0 .. j : ReaderHas(r, n)
      BY DEF PastInv, ReadersInv
    <3>2. n \in 0 .. j' /\ (n + 1 .. j) \cup {j + 1} = n + 1 .. j'
      BY <1>1, <1>2
    <3>3. pending'[r] = IF link'[r] = "matched" THEN n + 1 .. j' ELSE {}
      BY <1>5, <3>1, <3>2 DEF ReaderHas, Matched
    <3> QED
      BY <1>5, <3>1, <3>2, <3>3 DEF ReaderHas, Arrived
  <2> QED
    BY <1>5, <2>1 DEF PastInv, ReadersInv
<1>8. ShownInv'
  BY <1>1, <1>2 DEF PastInv, ShownInv
<1> QED
  BY <1>6, <1>7, <1>8 DEF PastInv

LEMMA ArriveKeeps == ASSUME PastInv, NEW r \in Readers, Arrive(r) PROVE PastInv'
<1>1. PICK n \in 0 .. j : ReaderHas(r, n)
  BY DEF PastInv, ReadersInv
<1>2. /\ pc' = pc /\ j' = j /\ shown' = shown /\ inTime' = inTime
      /\ link[r] = "matched" /\ n < j
      /\ got' = [got EXCEPT ![r] = 1 .. n + 1]
      /\ held' = [held EXCEPT ![r] = Arrived(r, n + 1)]
      /\ pending' = [pending EXCEPT ![r] = n + 2 .. j]
      /\ accepted' = accepted /\ history' = history /\ link' = link
  BY <1>1, NextArrives DEF Arrive, PastInv
<1>3. j \in Nat /\ Count \in Nat
  BY PastSizes DEF PastInv, WriterInv
<1>4. WriterInv'
  BY <1>2 DEF PastInv, WriterInv
<1>5. ReadersInv'
  <2>1. n + 1 \in 0 .. j' /\ ReaderHas(r, n + 1)'
    <3>1. n + 1 \in 0 .. j' /\ (n + 1) + 1 = n + 2
      BY <1>2, <1>3
    <3>2. /\ got'[r] = 1 .. n + 1 /\ held'[r] = Arrived(r, n + 1)
          /\ pending'[r] = (n + 1) + 1 .. j' /\ link'[r] = "matched"
      BY <1>2, <3>1 DEF PastInv, ReadersInv
    <3> QED
      BY <3>1, <3>2 DEF ReaderHas, Arrived
  <2>2. ASSUME NEW q \in Readers, q # r, NEW m \in 0 .. j, ReaderHas(q, m)
        PROVE  ReaderHas(q, m)'
    BY <1>2, <2>2 DEF ReaderHas, Arrived
  <2> QED
    BY <1>2, <2>1, <2>2 DEF PastInv, ReadersInv
<1>6. ShownInv'
  <2>1. ~inTime
    <3>1. 1 .. n # 1 .. j
      BY <1>2, <1>3
    <3> QED
      BY <1>1, <3>1 DEF ReaderHas, PastInv, ShownInv
  <2> QED
    BY <1>2, <2>1 DEF PastInv, ShownInv
<1> QED
  BY <1>4, <1>5, <1>6 DEF PastInv

LEMMA DiscoveryKeeps == ASSUME PastInv, NEW r \in Readers, Discovery(r) PROVE PastInv'
<1>1. /\ pc \notin {"end", "crash"} /\ link[r] = "new"
      /\ link' = [link EXCEPT ![r] = "matched"]
      /\ pending' = [pending EXCEPT ![r] = history]
      /\ accepted' = accepted /\ history' = history /\ got' = got /\ held' = held
      /\ pc' = pc /\ j' = j /\ shown' = shown /\ inTime' = inTime
  BY PastQos DEF Discovery, Meet
<1>2. j \in Nat /\ history = 1 .. j
  BY <1>1 DEF PastInv, WriterInv
<1>3. WriterInv' /\ ShownInv'
  BY <1>1 DEF PastInv, WriterInv, ShownInv
<1>4. ReadersInv'
  <2>1. ASSUME NEW q \in Readers, NEW m \in 0 .. j, ReaderHas(q, m)
        PROVE  ReaderHas(q, m)'
    <3>1. CASE q = r
      <4>1. m = 0 /\ got[r] = 1 .. 0 /\ held[r] = Arrived(r, 0)
        BY <1>1, <2>1, <3>1 DEF ReaderHas
      <4>2. pending'[r] = 0 + 1 .. j /\ link'[r] = "matched"
        BY <1>1, <1>2 DEF PastInv, ReadersInv
      <4> QED
        BY <1>1, <3>1, <4>1, <4>2 DEF ReaderHas, Arrived
    <3>2. CASE q # r
      BY <1>1, <2>1, <3>2 DEF ReaderHas, Arrived
    <3> QED
      BY <3>1, <3>2
  <2> QED
    BY <1>1, <2>1 DEF PastInv, ReadersInv
<1> QED
  BY <1>3, <1>4 DEF PastInv

(* The writer's samples that have not arrived are gone with it.            *)
LEMMA DeleteKeeps == ASSUME PastInv, DeleteAll PROVE PastInv'
<1>1. /\ pc = "delete" /\ pc' = "end" /\ j' = j /\ shown' = shown /\ inTime' = inTime
      /\ pending' = [r \in Readers |-> {}]
      /\ link' = [r \in Readers |-> IF link[r] = "matched" THEN "parted" ELSE link[r]]
      /\ accepted' = accepted /\ got' = got /\ held' = held
  BY DEF DeleteAll, DeleteWriter
<1>2. WriterInv'
  <2>1. pc' = "end" /\ "end" \notin {"sleep", "delete"} \cup Readers
    BY <1>1 DEF Readers, KeepAllReader, KeepLastReader
  <2> QED
    BY <1>1, <2>1 DEF PastInv, WriterInv
<1>3. ShownInv'
  BY <1>1 DEF PastInv, ShownInv
<1>4. ReadersInv'
  <2>1. ASSUME NEW r \in Readers, NEW n \in 0 .. j, ReaderHas(r, n)
        PROVE  ReaderHas(r, n)'
    BY <1>1, <2>1 DEF ReaderHas, Arrived
  <2> QED
    BY <1>1, <2>1 DEF PastInv, ReadersInv
<1> QED
  BY <1>2, <1>3, <1>4 DEF PastInv

(* The other steps leave the histories alone.                              *)
LEMMA SameHistories ==
  ASSUME PastInv, UNCHANGED middleware, j' = j PROVE ReadersInv'
<1>1. /\ accepted' = accepted /\ history' = history /\ link' = link
      /\ pending' = pending /\ got' = got /\ held' = held
  BY DEF middleware
<1>2. ASSUME NEW r \in Readers, NEW n \in 0 .. j, ReaderHas(r, n)
      PROVE  ReaderHas(r, n)'
  BY <1>1, <1>2 DEF ReaderHas, Arrived
<1> QED
  BY <1>1, <1>2 DEF PastInv, ReadersInv

LEMMA OthersKeep ==
  ASSUME PastInv,
         Create \/ Crash \/ WriteLoopEnds \/ SleepEnds \/ ReadNext \/ ReadLoopEnds
  PROVE  PastInv'
<1>1. UNCHANGED middleware /\ j' = j /\ ReadersInv'
  BY SameHistories DEF Create, Crash, WriteLoopEnds, SleepEnds, ReadNext, ReadLoopEnds
<1>2. accepted' = accepted /\ history' = history /\ got' = got /\ held' = held
  BY <1>1 DEF middleware
<1> USE DEF Readers, KeepAllReader, KeepLastReader
<1>3. WriterInv'
  <2> SUFFICES /\ pc' \in {"create", "write", "sleep", "delete", "end", "crash"} \cup Readers
               /\ pc' \in {"sleep", "delete"} \cup Readers => j' = Count
               /\ pc # "end"
    BY <1>1, <1>2 DEF PastInv, WriterInv
  <2> QED
    BY <1>1 DEF Create, Crash, WriteLoopEnds, SleepEnds, ReadNext, ReadLoopEnds,
                PastInv, WriterInv
<1>4. CASE Create
  <2>1. pc = "create" /\ pc' \in {"create", "write", "end"} /\ shown' = shown /\ inTime' = inTime
    BY <1>4 DEF Create
  <2> QED
    BY <1>1, <1>2, <1>3, <2>1 DEF PastInv, ShownInv
<1>5. CASE Crash
  <2>1. pc' = "crash" /\ shown' = shown /\ inTime' = inTime
    BY <1>5 DEF Crash
  <2> QED
    BY <1>1, <1>2, <1>3, <2>1 DEF PastInv, ShownInv
<1>6. CASE WriteLoopEnds
  <2>1. pc = "write" /\ pc' = "sleep" /\ shown' = shown /\ inTime' = inTime
    BY <1>6 DEF WriteLoopEnds
  <2> QED
    BY <1>1, <1>2, <1>3, <2>1 DEF PastInv, ShownInv
<1>7. CASE SleepEnds
  <2>1. /\ pc = "sleep" /\ pc' = KeepAllReader /\ shown' = shown
        /\ inTime' = (\A r \in Readers : got[r] = accepted)
    BY <1>7 DEF SleepEnds
  <2>2. j = Count /\ accepted = 1 .. Count
    BY <2>1 DEF PastInv, WriterInv
  <2>3. inTime' => \A r \in Readers : got[r] = 1 .. Count
    BY <2>1, <2>2
  <2>4. ShownInv'
    BY <1>1, <1>2, <2>1, <2>2, <2>3 DEF PastInv, ShownInv
  <2> QED
    BY <1>1, <1>3, <2>4 DEF PastInv
<1>8. CASE ReadNext
  <2>1. PICK x \in held[pc] : shown' = [shown EXCEPT ![pc] = shown[pc] \cup {x}]
    BY <1>8 DEF ReadNext, Unread
  <2>2. pc \in Readers /\ pc' = pc /\ inTime' = inTime
    BY <1>8 DEF ReadNext
  <2> QED
    BY <1>1, <1>2, <1>3, <2>1, <2>2 DEF PastInv, ShownInv
<1>9. CASE ReadLoopEnds
  <2>1. /\ pc \in Readers /\ held[pc] \subseteq shown[pc] /\ shown' = shown
        /\ inTime' = inTime
        /\ pc' = IF pc = KeepAllReader THEN KeepLastReader ELSE "delete"
    BY <1>9 DEF ReadLoopEnds, Unread
  <2>2. ShownInv'
    BY <1>1, <1>2, <2>1 DEF PastInv, ShownInv
  <2> QED
    BY <1>1, <1>3, <2>2 DEF PastInv
<1> QED
  BY <1>1, <1>3, <1>4, <1>5, <1>6, <1>7, <1>8, <1>9 DEF PastInv

LEMMA PastInvInductive == PastInv /\ [PastNext]_pastVars => PastInv'
<1>1. ASSUME PastInv, PastNext PROVE PastInv'
  BY <1>1, WriteKeeps, ArriveKeeps, DiscoveryKeeps, DeleteKeeps, OthersKeep DEF PastNext
<1>2. ASSUME PastInv, UNCHANGED pastVars PROVE PastInv'
  <2>1. /\ UNCHANGED middleware /\ pc' = pc /\ j' = j /\ shown' = shown /\ inTime' = inTime
    BY <1>2 DEF pastVars
  <2>2. ReadersInv'
    BY <1>2, <2>1, SameHistories
  <2>3. WriterInv' /\ ShownInv'
    BY <1>2, <2>1 DEF PastInv, WriterInv, ShownInv, middleware
  <2> QED
    BY <2>2, <2>3 DEF PastInv
<1> QED
  BY <1>1, <1>2

(* At every moment a KEEP_LAST reader holds the newest it got, and what a  *)
(* reader got has no gap.                                                  *)
THEOREM NewestHeld == PastSpec => []HoldsTheNewest
<1>1. PastInv => HoldsTheNewest
  <2> SUFFICES ASSUME PastInv PROVE HoldsTheNewest
    OBVIOUS
  <2>1. j \in Nat
    BY DEF PastInv, WriterInv
  <2>2. \A r \in Readers : got[r] = 1 .. Cardinality(got[r])
    <3> SUFFICES ASSUME NEW r \in Readers PROVE got[r] = 1 .. Cardinality(got[r])
      OBVIOUS
    <3>1. PICK n \in 0 .. j : got[r] = 1 .. n
      BY DEF PastInv, ReadersInv, ReaderHas
    <3> QED
      BY <2>1, <3>1, UpTo
  <2>3. PICK n \in 0 .. j : /\ got[KeepLastReader] = 1 .. n
                            /\ held[KeepLastReader] = Arrived(KeepLastReader, n)
    BY DEF PastInv, ReadersInv, ReaderHas, Readers
  <2>4. CASE n > Depth
    <3>1. held[KeepLastReader] = n - Depth + 1 .. n
      BY <2>3, <2>4 DEF Arrived
    <3>2. Cardinality(n - Depth + 1 .. n) = Depth
      BY <2>1, <2>4, PastSizes, FS_Interval
    <3>3. \A x \in n - Depth + 1 .. n, y \in (1 .. n) \ (n - Depth + 1 .. n) : y < x
      BY <2>1, <2>4, PastSizes
    <3> QED
      BY <2>2, <2>3, <3>1, <3>2, <3>3 DEF HoldsTheNewest
  <2>5. CASE ~(n > Depth)
    <3>1. held[KeepLastReader] = got[KeepLastReader]
      BY <2>3, <2>5 DEF Arrived
    <3> QED
      BY <2>2, <3>1 DEF HoldsTheNewest
  <2> QED
    BY <2>4, <2>5
<1> QED
  BY <1>1, PastInvInit, PastInvInductive, PTL DEF PastSpec

(* If all samples arrive during the sleep, the program prints all of them  *)
(* and the last Depth of them, as its README announces.                    *)
THEOREM PrintsAsAnnounced == PastSpec => []PrintsWhatReadmeSays
<1>1. PastInv => PrintsWhatReadmeSays
  <2> SUFFICES ASSUME PastInv, inTime, pc \in {"delete", "end"}
               PROVE  /\ shown[KeepAllReader] = 1 .. Count
                      /\ shown[KeepLastReader] = Count - Depth + 1 .. Count
    BY DEF PrintsWhatReadmeSays
  <2>1. /\ j = Count
        /\ \A r \in Readers : shown[r] = held[r] /\ got[r] = 1 .. Count
    BY DEF PastInv, ShownInv, Readers
  <2>2. \A r \in Readers : held[r] = Arrived(r, Count)
    <3> SUFFICES ASSUME NEW r \in Readers PROVE held[r] = Arrived(r, Count)
      OBVIOUS
    <3>1. PICK n \in 0 .. j : got[r] = 1 .. n /\ held[r] = Arrived(r, n)
      BY DEF PastInv, ReadersInv, ReaderHas
    <3>2. Cardinality(1 .. n) = n /\ Cardinality(1 .. Count) = Count
      BY <2>1, UpTo, PastSizes
    <3> QED
      BY <2>1, <3>1, <3>2
  <2>3. /\ Arrived(KeepAllReader, Count) = 1 .. Count
        /\ Arrived(KeepLastReader, Count) = Count - Depth + 1 .. Count
    BY PastSizes, PastQos DEF Arrived
  <2> QED
    BY <2>1, <2>2, <2>3 DEF Readers
<1> QED
  BY <1>1, PastInvInit, PastInvInductive, PTL DEF PastSpec
=============================================================================
