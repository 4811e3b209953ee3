------------------------- MODULE TerminateWaitProofs -------------------------
(***************************************************************************)
(* For any callers of stop(), any max_messages_ and any number of samples: *)
(* run() returns for a reason, and counts one sample too many at the most. *)
(* The same in the company of a publisher, which in its turn sends what it *)
(* was asked for, whatever the width of its index.                         *)
(***************************************************************************)
EXTENDS HelloWorldRun, TLAPS

\* No sample is counted that was not taken; without a data thread, none is.
InboxInv ==
    /\ inbox + samples_ <= arrived
    /\ "data" \notin Stoppers => samples_ = 0

\* The data thread calls stop() only when it has counted enough.
DataStopInv ==
    "data" \in Stoppers /\ stopping["data"] \in {"set", "notify"} =>
        max_messages_ > 0 /\ samples_ >= max_messages_

\* Once run() has cleared it, stop_ is set only by a call of stop().
StopInv == stop_ /\ mpc # "init" => 
    \/ \E c \in Stoppers \ {"data"} : stopping[c] \in {"notify", "over"}
    \/ max_messages_ > 0 /\ samples_ >= max_messages_

\* After the count has been passed, or reached before run(), stop_ is set or
\* about to be; only run() itself ever clears it.
CountInv ==
    max_messages_ > 0 =>
        /\ samples_ <= max_messages_ + 1
        /\ mpc = "init" => samples_ <= max_messages_
        /\ samples_ > max_messages_ \/ (mpc = "init" /\ samples_ = max_messages_)
              => stop_ \/ ("data" \in Stoppers /\ stopping["data"] = "set")

IInv == TypeOK /\ InboxInv /\ DataStopInv /\ StopInv /\ CountInv /\ ReturnsForAReason

LEMMA InitIInv == Init => IInv
  <1> SUFFICES ASSUME Init PROVE IInv
    OBVIOUS
  <1>1. TypeOK /\ InboxInv
    <2>1. stopping \in [Stoppers -> {"idle", "set", "notify", "over"}]
      BY DEF Init
    <2>2. inbox \in 0..Sent /\ arrived \in 0..Sent /\ samples_ \in 0..Sent
      BY CountsAssumption DEF Init
    <2>3. TypeOK
      BY <2>1, <2>2 DEF Init, TypeOK
    <2>4. InboxInv
      BY DEF Init, InboxInv
    <2>5. QED
      BY <2>3, <2>4
  <1>2. DataStopInv
    BY DEF Init, DataStopInv
  <1>3. StopInv /\ ReturnsForAReason
    BY DEF Init, StopInv, ReturnsForAReason
  <1>4. CountInv
    BY CountsAssumption DEF Init, CountInv
  <1>5. QED
    BY <1>1, <1>2, <1>3, <1>4 DEF IInv

LEMMA NextIInv == IInv /\ [Next]_vars => IInv'
  <1> SUFFICES ASSUME IInv, [Next]_vars PROVE IInv'
    OBVIOUS
  <1> USE CountsAssumption, StoppersAssumption
      DEF IInv, TypeOK, InboxInv, DataStopInv, StopInv, CountInv,
          ReturnsForAReason, mainVars, readerVars
  <1>1. CASE Reset
    <2>1. /\ mpc = "init" /\ mpc' = "installing" /\ stop_' = FALSE
          /\ UNCHANGED <<stopping, inbox, arrived, samples_>>
      BY <1>1 DEF Reset
    <2>2. TypeOK' /\ InboxInv' /\ DataStopInv'
      BY <2>1
    <2>3. StopInv' /\ ReturnsForAReason'
      BY <2>1
    <2>4. CountInv'
      BY <2>1
    <2>5. QED
      BY <2>2, <2>3, <2>4
  <1>2. CASE Install
    BY <1>2 DEF Install
  <1>3. CASE Check
    BY <1>3 DEF Check
  <1>4. CASE Block
    BY <1>4 DEF Block
  <1>5. CASE SpuriousWakeup
    BY <1>5 DEF SpuriousWakeup
  <1>6. CASE Arrive
    BY <1>6 DEF Arrive
  <1>7. CASE Take
    <2>1. /\ "data" \in Stoppers /\ stopping["data"] = "idle" /\ inbox > 0
          /\ inbox' = inbox - 1 /\ mpc # "done"
          /\ UNCHANGED <<stop_, mpc, arrived>>
      BY <1>7 DEF Take, TakeNextSample
    <2>2. CASE UNCHANGED <<samples_, stopping>>
      BY <2>1, <2>2
    <2>3. CASE /\ ~stop_ /\ samples_' = samples_ + 1
               /\ stopping' = IF max_messages_ > 0 /\ samples_' >= max_messages_
                              THEN [stopping EXCEPT !["data"] = "set"]
                              ELSE stopping
      <3>1. TypeOK' /\ InboxInv' /\ DataStopInv'
        BY <2>1, <2>3
      <3>2. StopInv' /\ ReturnsForAReason'
        BY <2>1, <2>3
      <3>3. CountInv'
        BY <2>1, <2>3
      <3>4. QED
        BY <3>1, <3>2, <3>3
    <2>4. QED
      BY <1>7, <2>2, <2>3 DEF Take, Enough
  <1>8. ASSUME NEW c \in Stoppers, Trigger(c) PROVE IInv'
    <2>1. /\ c # "data" /\ stopping[c] = "idle"
          /\ stopping' = [stopping EXCEPT ![c] = "set"]
          /\ UNCHANGED <<stop_, mpc, inbox, arrived, samples_>>
      BY <1>8 DEF Trigger
    <2>2. TypeOK' /\ InboxInv' /\ DataStopInv' /\ CountInv'
      BY <2>1
    <2>3. StopInv' /\ ReturnsForAReason'
      BY <2>1
    <2>4. QED
      BY <2>2, <2>3
  <1>9. ASSUME NEW c \in Stoppers, SetStop(c) PROVE IInv'
    <2>1. /\ stopping[c] = "set" /\ stop_' = TRUE
          /\ stopping' = [stopping EXCEPT ![c] = "notify"]
          /\ UNCHANGED <<mpc, inbox, arrived, samples_>>
      BY <1>9 DEF SetStop
    <2>2. TypeOK' /\ InboxInv' /\ DataStopInv' /\ CountInv'
      BY <2>1
    <2>3. StopInv' /\ ReturnsForAReason'
      <3>1. CASE c = "data"
        BY <2>1, <3>1
      <3>2. CASE c # "data"
        BY <2>1, <3>2
      <3>3. QED
        BY <3>1, <3>2
    <2>4. QED
      BY <2>2, <2>3
  <1>10. ASSUME NEW c \in Stoppers, Notify(c) PROVE IInv'
    <2>1. /\ stopping[c] = "notify"
          /\ mpc' = IF mpc = "blocked" THEN "check" ELSE mpc
          /\ stopping' = [stopping EXCEPT ![c] =
                             IF c = "data" THEN "idle" ELSE "over"]
          /\ UNCHANGED <<stop_, inbox, arrived, samples_>>
      BY <1>10 DEF Notify
    <2>2. TypeOK' /\ InboxInv' /\ DataStopInv' /\ CountInv'
      BY <2>1
    <2>3. StopInv' /\ ReturnsForAReason'
      BY <2>1
    <2>4. QED
      BY <2>2, <2>3
  <1>11. CASE UNCHANGED vars
    BY <1>11 DEF vars
  <1>12. QED
    BY <1>1, <1>2, <1>3, <1>4, <1>5, <1>6, <1>7, <1>8, <1>9, <1>10, <1>11
    DEF Next, MainStep, StopStep

\* Type correctness, for any callers of stop().
THEOREM TypeCorrect == Spec => []TypeOK
  <1>1. IInv => TypeOK
    BY DEF IInv
  <1>2. QED
    BY <1>1, InitIInv, NextIInv, PTL DEF Spec

\* run() returns only because somebody called stop() for a reason.
THEOREM RunReturnsForAReason == Spec => []ReturnsForAReason
  <1>1. IInv => ReturnsForAReason
    BY DEF IInv
  <1>2. QED
    BY <1>1, InitIInv, NextIInv, PTL DEF Spec

\* The race between run() and the data thread costs one sample at the most.
THEOREM CountsOneTooManyAtMost == Spec => []OneTooManyAtMost
  <1>1. IInv => OneTooManyAtMost
    BY DEF IInv, CountInv, OneTooManyAtMost
  <1>2. QED
    BY <1>1, InitIInv, NextIInv, PTL DEF Spec

-----------------------------------------------------------------------------
(* HelloWorldRun: the publisher.                                           *)

\* Where the threads of the publisher are, and what its index may be; without
\* a limit the index wraps around.
PublisherTypes ==
    /\ samples \in 0..(Width - 1) /\ index \in 0..(Width - 1) /\ late \in Nat
    /\ pub_stop \in BOOLEAN /\ handler \in BOOLEAN
    /\ pub_main \in {"start", "started", "join", "done", "killed"}
    /\ worker \in {"none", "check", "publish", "sleep", "over"}

\* The thread runs between start and end of run(), and stop_ is only set when
\* the handler is there, that is, after run() has cleared it.
ThreadInv ==
    /\ pub_main = "start" => worker = "none"
    /\ pub_main = "done" => worker = "over"
    /\ handler <=> pub_main \in {"join", "done"}
    /\ pub_stop => handler

\* No turn begins with all samples out, and the thread ends for a reason.
IndexInv ==
    samples # 0 =>
        /\ index <= samples
        /\ worker = "publish" => index < samples
ReasonInv == worker = "over" => pub_stop \/ AllSent

\* At most the turn that SIGINT interrupted is finished.
LateInv ==
    /\ late <= 1
    /\ late = 1 => pub_stop /\ worker # "publish"

PublisherInv == PublisherTypes /\ ThreadInv /\ IndexInv /\ ReasonInv /\ LateInv

LEMMA InitPublisherInv == HelloInit => PublisherInv
  <1> SUFFICES ASSUME PublisherInit PROVE PublisherInv
    BY DEF HelloInit
  <1>0. samples \in 0..(Width - 1) /\ 0 \in 0..(Width - 1)
    BY WidthAssumption DEF PublisherInit
  <1>1. PublisherTypes
    BY <1>0 DEF PublisherInit, PublisherTypes
  <1>2. ThreadInv /\ IndexInv /\ ReasonInv /\ LateInv
    BY <1>1 DEF PublisherInit, PublisherTypes, ThreadInv, IndexInv, ReasonInv, LateInv
  <1>3. QED
    BY <1>1, <1>2 DEF PublisherInv

LEMMA NextPublisherInv == PublisherInv /\ [HelloNext]_helloVars => PublisherInv'
  <1> SUFFICES ASSUME PublisherInv, [HelloNext]_helloVars PROVE PublisherInv'
    OBVIOUS
  <1> USE WidthAssumption
      DEF PublisherInv, PublisherTypes, ThreadInv, IndexInv, ReasonInv, LateInv, AllSent
  <1>1. CASE StartThread
    BY <1>1 DEF StartThread
  <1>2. CASE InstallHandler
    BY <1>2 DEF InstallHandler
  <1>3. CASE Join
    BY <1>3 DEF Join
  <1>4. CASE CheckLoop
    BY <1>4 DEF CheckLoop
  <1>5. CASE Publish
    <2>1. /\ worker = "publish" /\ worker' = "sleep"
          /\ index' = (index + 1) % Width
          /\ late' = IF pub_stop THEN late + 1 ELSE late
          /\ UNCHANGED <<samples, pub_stop, pub_main, handler>>
      BY <1>5 DEF Publish
    <2>2. index' \in 0..(Width - 1)
      BY <2>1
    <2>3. index + 1 < Width => index' = index + 1
      BY <2>1
    <2>4. PublisherTypes' /\ ThreadInv' /\ ReasonInv' /\ LateInv'
      BY <2>1, <2>2
    <2>5. IndexInv'
      BY <2>1, <2>3
    <2>6. QED
      BY <2>4, <2>5
  <1>6. CASE Wake
    BY <1>6 DEF Wake
  <1>7. CASE Sigint
    BY <1>7 DEF Sigint
  <1>8. CASE UNCHANGED publisherVars
    BY <1>8 DEF publisherVars
  <1>9. QED
    BY <1>1, <1>2, <1>3, <1>4, <1>5, <1>6, <1>7, <1>8
    DEF HelloNext, SubscriberStep, PublisherMain, Worker, helloVars

\* run() of the publisher returns because of SIGINT or because just the number
\* of samples asked for is out, and one more sample at the most is written
\* after SIGINT: for any width of the index and any number of samples.
THEOREM PublisherEndsAsAsked == HelloSpec => []EndsAsAsked
  <1>1. PublisherInv => EndsAsAsked
    BY DEF PublisherInv, PublisherTypes, ThreadInv, IndexInv, ReasonInv, LateInv,
           AllSent, EndsAsAsked
  <1>2. QED
    BY <1>1, InitPublisherInv, NextPublisherInv, PTL DEF HelloSpec

\* The subscriber of the pair behaves as TerminateWait says: every step of the
\* two is one of its steps or leaves it alone.
THEOREM PairContainsSubscriber == HelloSpec => Spec
  <1>1. HelloInit => Init
    BY DEF HelloInit
  <1>2. [HelloNext]_helloVars => [Next]_vars
    BY DEF HelloNext, SubscriberStep, helloVars
  <1>3. QED
    BY <1>1, <1>2, PTL DEF HelloSpec, Spec

\* So what holds of it alone holds of it in the pair, whatever the publisher
\* sends and however it ends.
THEOREM PairReturnsForAReason == HelloSpec => []ReturnsForAReason
  BY PairContainsSubscriber, RunReturnsForAReason, PTL

THEOREM PairCountsOneTooManyAtMost == HelloSpec => []OneTooManyAtMost
  BY PairContainsSubscriber, CountsOneTooManyAtMost, PTL
=============================================================================
