---------------------- MODULE OwnershipDeadlineProofs ----------------------
(***************************************************************************)
(* OwnershipStrength, for any publishers, strengths and number of          *)
(* messages: the types, and who may take ownership of the topic.           *)
(* Deadline, for any periods and oversleeping: which keys miss theirs.     *)
(***************************************************************************)
EXTENDS OwnershipStrength, Deadline, TLAPS

\* No more messages can arrive than were written.
WireInv == \A p \in Publishers : wire[p] <= written[p]

IInv == TypeOK /\ WireInv

LEMMA InitIInv == Init => IInv
  BY PublishersAssumption, MaxSamplesAssumption DEF Init, IInv, TypeOK, WireInv

LEMMA NextIInv == IInv /\ [Next]_vars => IInv'
  <1> SUFFICES ASSUME IInv, [Next]_vars PROVE IInv'
    OBVIOUS
  <1> USE PublishersAssumption, MaxSamplesAssumption DEF IInv, TypeOK, WireInv
  <1>1. ASSUME NEW p \in Publishers, Write(p) PROVE IInv'
    <2>1. /\ written[p] \in 0..MaxSamples /\ wire[p] \in 0..MaxSamples
          /\ written[p] < MaxSamples /\ wire[p] <= written[p]
          /\ written' = [written EXCEPT ![p] = @ + 1]
          /\ wire' = IF p \in matched THEN [wire EXCEPT ![p] = @ + 1] ELSE wire
      BY <1>1 DEF Write
    <2>2. /\ written' \in [Publishers -> 0..MaxSamples]
          /\ wire' \in [Publishers -> 0..MaxSamples]
          /\ WireInv'
      BY <2>1
    <2>3. QED
      BY <1>1, <2>2 DEF Write, hierarchy
  <1>2. ASSUME NEW p \in Publishers, Stop(p) PROVE IInv'
    BY <1>2 DEF Stop, hierarchy
  <1>3. ASSUME NEW p \in Publishers, Lose(p) PROVE IInv'
    BY <1>3 DEF Lose, hierarchy
  <1>4. ASSUME NEW p \in Publishers, Match(p) PROVE IInv'
    BY <1>4 DEF Match, hierarchy, dataVars
  <1>5. ASSUME NEW p \in Publishers, Unmatch(p) PROVE IInv'
    BY <1>5 DEF Unmatch, hierarchy
  <1>6. ASSUME NEW p \in Publishers, DeregisterPublisher(p) PROVE IInv'
    BY <1>6 DEF DeregisterPublisher, Kept, LevelsKept, dataVars
  <1>7. ASSUME NEW p \in Publishers, TakeSample(p) PROVE IInv'
    BY <1>7 DEF TakeSample, hierarchy
  <1>8. ASSUME NEW p \in Publishers, IsMessageStrong(p) PROVE IInv'
    <2>1. levels' \subseteq Strengths
      BY <1>8 DEF IsMessageStrong, Strengths
    <2>2. n_msg' \in Nat /\ owner' \subseteq Publishers
      BY <1>8 DEF IsMessageStrong
    <2>3. registered' \subseteq Publishers
          /\ \A q \in registered' : Strength[q] \in levels'
      BY <1>8 DEF IsMessageStrong
    <2>4. QED
      BY <1>8, <2>1, <2>2, <2>3 DEF IsMessageStrong, dataVars
  <1>9. ASSUME UNCHANGED vars PROVE IInv'
    BY <1>9 DEF vars, dataVars, hierarchy
  <1>10. QED
    BY <1>1, <1>2, <1>3, <1>4, <1>5, <1>6, <1>7, <1>8, <1>9 DEF Next

\* Type correctness, for any publishers and strengths.
THEOREM TypeCorrect == Spec => []TypeOK
  <1>1. IInv => TypeOK
    BY DEF IInv
  <1>2. QED
    BY <1>1, InitIInv, NextIInv, PTL DEF Spec

-----------------------------------------------------------------------------
(* Only IsMessageStrong accepts a message, and it takes the lowest GUID of  *)
(* the strongest level; whoever is registered stands at or below it.        *)

\* Ownership moves to a publisher that outranks the registered owner, unless
\* the strongest level is deserted.
THEOREM OwnershipMovesUpward == Spec => HandoverUpward
  <1>1. ASSUME IInv, [Next]_vars,
               n_msg' # n_msg, owner \subseteq registered, ~TopDeserted',
               NEW q \in owner, NEW p \in owner'
        PROVE  Outranks(p, q)
    <2> USE PublishersAssumption DEF IInv, TypeOK
    <2>1. PICK w \in Publishers : IsMessageStrong(w)
      BY <1>1 DEF Next, vars, dataVars, hierarchy, Write, Stop, Lose, Match,
         Unmatch, DeregisterPublisher, Kept, LevelsKept, TakeSample
    <2>2. PICK top \in levels', strong \in BOOLEAN :
             /\ IsTop(top, levels')
             /\ Level(top)' # {} => strong = IsLowest(w, Level(top)')
             /\ n_msg' = IF strong THEN n_msg + 1 ELSE n_msg
             /\ owner' = IF strong THEN {w} ELSE owner
      BY <2>1 DEF IsMessageStrong
    <2>3. p = w /\ strong
      BY <1>1, <2>2
    <2>4. Level(top)' # {}
      BY <1>1, <2>2 DEF TopDeserted
    <2>5. IsLowest(w, Level(top)')
      BY <2>2, <2>3, <2>4
    <2>6. w \in Publishers /\ Strength[w] = top
          /\ \A r \in Level(top)' : w <= r
      BY <2>5 DEF IsLowest, Level
    <2>7. q \in registered' /\ Strength[q] \in levels'
      BY <1>1, <2>1 DEF IsMessageStrong
    <2>8. Strength[q] <= top
      BY <2>2, <2>7 DEF IsTop
    <2>9. CASE Strength[q] = top
      BY <2>3, <2>6, <2>7, <2>9 DEF Level, Outranks
    <2>10. CASE Strength[q] # top
      <3>1. Strength[q] \in Nat /\ top \in Nat
        BY <1>1, <2>6
      <3>2. QED
        BY <2>3, <2>6, <2>8, <2>10, <3>1 DEF Outranks
    <2>11. QED
      BY <2>9, <2>10
  <1>2. IInv /\ [Next]_vars =>
           [n_msg' # n_msg /\ owner \subseteq registered /\ ~TopDeserted' =>
               \A p \in owner, q \in owner' : Outranks(q, p)]_vars
    BY <1>1
  <1>3. QED
    BY <1>2, InitIInv, NextIInv, PTL DEF Spec, HandoverUpward

\* A deserted strongest level stays deserted until a message at least as
\* strong comes: weaker publishers cannot end it.
THEOREM WeakerCannotRevive == Spec => DesertedUntilAsStrong
  <1>1. ASSUME IInv, [Next]_vars, TopDeserted, ~TopDeserted'
        PROVE  \E p \in taken : \A k \in levels : Strength[p] >= k
    <2> USE PublishersAssumption DEF IInv, TypeOK
    <2>1. PICK top \in levels : IsTop(top, levels) /\ Level(top) = {}
      BY <1>1 DEF TopDeserted
    <2>2. ASSUME levels' = levels, registered' \subseteq registered
          PROVE  FALSE
      BY <1>1, <2>1, <2>2 DEF TopDeserted, IsTop, Level
    <2>3. PICK w \in Publishers : IsMessageStrong(w)
      BY <1>1, <2>2 DEF Next, vars, dataVars, hierarchy, Write, Stop, Lose,
         Match, Unmatch, DeregisterPublisher, Kept, LevelsKept, TakeSample
    <2>4. /\ w \in taken /\ levels' = levels \cup {Strength[w]}
          /\ registered' = registered \cup {w}
      BY <2>3 DEF IsMessageStrong
    <2>5. levels \subseteq Nat /\ Strength[w] \in Nat
      BY <1>1 DEF Strengths
    <2>6. Strength[w] >= top
      <3>1. SUFFICES ASSUME Strength[w] < top PROVE FALSE
        BY <2>1, <2>5
      <3>2. IsTop(top, levels')
        BY <2>1, <2>4, <2>5, <3>1 DEF IsTop
      <3>3. Level(top)' = {}
        BY <2>1, <2>4, <2>5, <3>1 DEF Level
      <3>4. QED
        BY <1>1, <2>1, <2>4, <3>2, <3>3 DEF TopDeserted
    <2>7. QED
      BY <2>1, <2>4, <2>5, <2>6 DEF IsTop
  <1>2. IInv /\ [Next]_vars =>
           [TopDeserted /\ ~TopDeserted' =>
               \E p \in taken : \A k \in levels : Strength[p] >= k]_vars
    BY <1>1
  <1>3. QED
    BY <1>2, InitIInv, NextIInv, PTL DEF Spec, DesertedUntilAsStrong

(* Whose sample is in the data thread's hands is accounted for as well:    *)
(* matched, about to be deregistered, or overtaken.                        *)
Accounted ==
    /\ registered \cup taken \subseteq matched \cup notifying \cup overtaken
    /\ \A p, q \in notifying : p = q

LEMMA AccountedInductive == Accounted /\ [Next]_vars => Accounted'
  <1> SUFFICES ASSUME Accounted, [Next]_vars PROVE Accounted'
    OBVIOUS
  <1> USE DEF Accounted
  <1>1. ASSUME NEW p \in Publishers, Write(p) \/ Stop(p) \/ Lose(p) PROVE Accounted'
    BY <1>1 DEF Write, Stop, Lose, hierarchy
  <1>2. ASSUME NEW p \in Publishers, Match(p) PROVE Accounted'
    BY <1>2 DEF Match, hierarchy
  <1>3. ASSUME NEW p \in Publishers, Unmatch(p) PROVE Accounted'
    BY <1>3 DEF Unmatch, hierarchy
  <1>4. ASSUME NEW p \in Publishers, DeregisterPublisher(p) PROVE Accounted'
    <2>0. notifying = {p} /\ notifying' = {}
      BY <1>4 DEF DeregisterPublisher
    <2>1. /\ registered' = registered \ {p} /\ taken' = taken /\ matched' = matched
          /\ overtaken' = overtaken \cup (taken \cap ({p} \ matched))
      BY <1>4 DEF DeregisterPublisher, Kept
    <2>2. \A q \in registered' : q \in matched' \cup overtaken'
      BY <2>0, <2>1
    <2>3. \A q \in taken' : q \in matched' \cup overtaken'
      BY <2>0, <2>1
    <2> QED
      BY <2>0, <2>2, <2>3
  <1>5. ASSUME NEW p \in Publishers, TakeSample(p) PROVE Accounted'
    BY <1>5 DEF TakeSample, hierarchy
  <1>6. ASSUME NEW p \in Publishers, IsMessageStrong(p) PROVE Accounted'
    BY <1>6 DEF IsMessageStrong
  <1>7. CASE UNCHANGED vars
    BY <1>7 DEF vars, hierarchy
  <1> QED
    BY <1>1, <1>2, <1>3, <1>4, <1>5, <1>6, <1>7 DEF Next

\* A publisher stays registered without being matched only because a sample of
\* it was judged after it had been deregistered.
THEOREM OvertakenAloneStay == Spec => []OnlyOvertakenStay
  <1>1. Init => Accounted
    BY DEF Init, Accounted
  <1>2. Accounted => OnlyOvertakenStay
    BY DEF Accounted, OnlyOvertakenStay
  <1>3. QED
    BY <1>1, <1>2, AccountedInductive, PTL DEF Spec

-----------------------------------------------------------------------------
(* Deadline: types; the clock never runs past the time by which the        *)
(* publisher must have woken up, nor past a deadline that is running.      *)
DeadlineTypes ==
  /\ samples \in Nat /\ sample \in Nat /\ double_time \in BOOLEAN
  /\ now \in Nat /\ wake \in Nat
  /\ writes \in [Key -> Nat] /\ missed \in [Key -> Nat]
  /\ due \in [Key -> Nat \cup {None}]
  /\ pc \in {"wait", "loop"}

ClockInv ==
  /\ now <= wake + Slack
  /\ \A k \in Key : due[k] # None => now <= due[k]
  /\ pc = "wait" => /\ ~double_time
                    /\ \A k \in Key : writes[k] = 0 /\ due[k] = None

(* While samples are sent, the deadline of a frequent key falls after the  *)
(* latest moment at which the publisher writes it again.                   *)
FrequentInv ==
  sleep + Slack < deadline /\ ~AllSent =>
    \A k \in {0, 1} : missed[k] = 0 /\ (due[k] # None => wake + Slack < due[k])

(* The rare key: its deadline, unless it was missed since the last write,  *)
(* falls one or two turns before the publisher's next one.                 *)
RareInv ==
  /\ due[2] = None <=> writes[2] = 0
  /\ 2 * sleep > deadline =>
       /\ missed[2] >= writes[2] - 1
       /\ double_time => missed[2] >= writes[2] \/ due[2] <= wake - sleep + deadline
       /\ ~double_time => missed[2] >= writes[2] \/ due[2] <= wake - 2 * sleep + deadline

DeadlineInv == DeadlineTypes /\ ClockInv /\ FrequentInv /\ RareInv

LEMMA DeadlineInvInit == DeadlineInit => DeadlineInv
<1> SUFFICES ASSUME DeadlineInit PROVE DeadlineInv
  OBVIOUS
<1>1. /\ Samples \subseteq Nat /\ sleep \in Nat /\ Slack \in Nat /\ deadline \in Nat
      /\ samples \in Samples /\ double_time = FALSE
  BY DeadlineAssumption DEF DeadlineInit
<1>2. DeadlineTypes
  BY <1>1 DEF DeadlineInit, DeadlineTypes
<1>3. ~double_time
  BY <1>1
<1>4. ClockInv
  BY <1>1, <1>3 DEF DeadlineInit, ClockInv
<1>5. FrequentInv
  BY DEF DeadlineInit, FrequentInv, Key
<1>6. RareInv
  BY <1>1, <1>3 DEF DeadlineInit, RareInv, Key
<1> QED
  BY <1>2, <1>4, <1>5, <1>6 DEF DeadlineInv

LEMMA DeadlineInvInductive == DeadlineInv /\ [DeadlineNext]_deadlineVars => DeadlineInv'
<1> SUFFICES ASSUME DeadlineInv, [DeadlineNext]_deadlineVars PROVE DeadlineInv'
  OBVIOUS
<1>0. /\ sleep \in Nat /\ poll \in Nat /\ Slack \in Nat /\ MaxTime \in Nat
      /\ deadline \in Nat /\ deadline > 0
  BY DeadlineAssumption
<1>1. CASE on_publication_matched /\ samples' = samples
  BY <1>1 DEF on_publication_matched, DeadlineInv, DeadlineTypes, ClockInv, FrequentInv,
              RareInv, AllSent
<1>2. CASE WaitTurn /\ samples' = samples
  <2>1. /\ pc = "wait" /\ wake' \in {now + poll, now + sleep} /\ pc' \in {"wait", "loop"}
        /\ now' = now /\ sample' = sample /\ double_time' = double_time
        /\ writes' = writes /\ due' = due /\ missed' = missed /\ samples' = samples
    BY <1>2 DEF WaitTurn
  <2>2. wake' \in Nat /\ now <= wake' + Slack
    <3>1. now \in Nat
      BY DEF DeadlineInv, DeadlineTypes
    <3>2. wake' = now + poll \/ wake' = now + sleep
      BY <2>1
    <3> QED
      BY <1>0, <3>1, <3>2
  <2>3. DeadlineTypes'
    BY <2>1, <2>2 DEF DeadlineInv, DeadlineTypes
  <2>4. /\ ~double_time /\ ~double_time'
        /\ \A k \in Key : due[k] = None /\ writes[k] = 0
    BY <2>1 DEF DeadlineInv, ClockInv
  <2>5. ClockInv'
    BY <2>1, <2>2, <2>4 DEF ClockInv
  <2>6. FrequentInv'
    BY <2>1, <2>4 DEF DeadlineInv, FrequentInv, AllSent, Key
  <2>7. RareInv'
    BY <2>1, <2>4 DEF DeadlineInv, DeadlineTypes, ClockInv, RareInv, Key
  <2> QED
    BY <2>3, <2>5, <2>6, <2>7 DEF DeadlineInv
<1>3. CASE WriteTurn /\ samples' = samples
  <2>1. /\ pc = "loop" /\ now >= wake /\ ~AllSent /\ double_time' = ~double_time
        /\ sample' \in {sample, sample + 1} /\ wake' = now + sleep
        /\ writes' = [k \in Key |-> IF k \in KeysOfTurn THEN writes[k] + 1 ELSE writes[k]]
        /\ due' = [k \in Key |-> IF k \in KeysOfTurn THEN now + deadline ELSE due[k]]
        /\ now' = now /\ pc' = pc /\ missed' = missed /\ samples' = samples
    BY <1>3 DEF WriteTurn, NextDeadline
  <2>2. 0 \in KeysOfTurn /\ 1 \in KeysOfTurn /\ (2 \in KeysOfTurn <=> ~double_time)
    BY DEF KeysOfTurn
  <2>3. DeadlineTypes'
    BY <1>0, <2>1 DEF DeadlineInv, DeadlineTypes
  <2>4. ClockInv'
    BY <1>0, <2>1 DEF DeadlineInv, DeadlineTypes, ClockInv
  <2>5. FrequentInv'
    BY <1>0, <2>1, <2>2 DEF DeadlineInv, DeadlineTypes, FrequentInv, Key
  <2>6. RareInv'
    <3>1. CASE double_time
      <4>0. ~double_time' /\ 2 \notin KeysOfTurn
        BY <2>1, <2>2, <3>1
      <4>1. due'[2] = due[2] /\ writes'[2] = writes[2]
        BY <2>1, <4>0 DEF Key
      <4> QED
        BY <1>0, <2>1, <3>1, <4>0, <4>1 DEF DeadlineInv, DeadlineTypes, RareInv, Key, None
    <3>2. CASE ~double_time
      <4>0. double_time' /\ 2 \in KeysOfTurn
        BY <2>1, <2>2, <3>2
      <4>1. due'[2] = now + deadline /\ writes'[2] = writes[2] + 1
        BY <2>1, <4>0 DEF Key
      <4>2. ASSUME 2 * sleep > deadline PROVE missed[2] >= writes[2]
        BY <1>0, <2>1, <3>2, <4>2 DEF DeadlineInv, DeadlineTypes, ClockInv, RareInv, Key, None
      <4> QED
        BY <1>0, <2>1, <4>0, <4>1, <4>2 DEF DeadlineInv, DeadlineTypes, RareInv, Key, None
    <3> QED
      BY <3>1, <3>2 DEF DeadlineInv, DeadlineTypes
  <2> QED
    BY <2>3, <2>4, <2>5, <2>6 DEF DeadlineInv
<1>4. CASE IdleTurn /\ samples' = samples
  <2>1. /\ pc = "loop" /\ now >= wake /\ AllSent /\ wake' = now + sleep
        /\ now' = now /\ pc' = pc /\ sample' = sample /\ double_time' = double_time
        /\ writes' = writes /\ due' = due /\ missed' = missed /\ samples' = samples
    BY <1>4 DEF IdleTurn
  <2>2. DeadlineTypes' /\ ClockInv'
    BY <1>0, <2>1 DEF DeadlineInv, DeadlineTypes, ClockInv
  <2>3. FrequentInv'
    BY <2>1 DEF FrequentInv, AllSent
  <2>4. RareInv'
    BY <1>0, <2>1 DEF DeadlineInv, DeadlineTypes, RareInv, Key, None
  <2> QED
    BY <2>2, <2>3, <2>4 DEF DeadlineInv
<1>5. CASE on_offered_deadline_missed /\ samples' = samples
  <2>1. PICK k \in Key :
          /\ due[k] # None /\ now >= due[k]
          /\ missed' = [missed EXCEPT ![k] = missed[k] + 1]
          /\ due' = [due EXCEPT ![k] = due[k] + deadline]
          /\ now' = now /\ pc' = pc /\ wake' = wake /\ sample' = sample
          /\ double_time' = double_time /\ writes' = writes /\ samples' = samples
    BY <1>5 DEF on_offered_deadline_missed
  <2>2. DeadlineTypes'
    BY <1>0, <2>1 DEF DeadlineInv, DeadlineTypes, None
  <2>3. ClockInv'
    BY <1>0, <2>1 DEF DeadlineInv, DeadlineTypes, ClockInv, None
  <2>4. FrequentInv'
    BY <1>0, <2>1 DEF DeadlineInv, DeadlineTypes, ClockInv, FrequentInv, AllSent, Key, None
  <2>5. RareInv'
    BY <1>0, <2>1 DEF DeadlineInv, DeadlineTypes, RareInv, Key, None
  <2> QED
    BY <2>2, <2>3, <2>4, <2>5 DEF DeadlineInv
<1>6. CASE Tick /\ samples' = samples
  <2>1. /\ now < wake + Slack /\ \A k \in Key : due[k] = None \/ now < due[k]
        /\ now' = now + 1 /\ pc' = pc /\ wake' = wake /\ sample' = sample
        /\ double_time' = double_time /\ writes' = writes /\ due' = due
        /\ missed' = missed /\ samples' = samples
    BY <1>6 DEF Tick
  <2>2. DeadlineTypes' /\ FrequentInv' /\ RareInv'
    BY <2>1 DEF DeadlineInv, DeadlineTypes, FrequentInv, RareInv, AllSent
  <2>3. ClockInv'
    BY <1>0, <2>1 DEF DeadlineInv, DeadlineTypes, ClockInv, None
  <2> QED
    BY <2>2, <2>3 DEF DeadlineInv
<1>7. CASE UNCHANGED deadlineVars
  BY <1>7 DEF deadlineVars, DeadlineInv, DeadlineTypes, ClockInv, FrequentInv, RareInv, AllSent
<1> QED
  BY <1>1, <1>2, <1>3, <1>4, <1>5, <1>6, <1>7 DEF DeadlineNext

(* While samples are sent, the two frequent keys miss no deadline, if a    *)
(* turn is shorter than the deadline even when it is overslept.            *)
THEOREM FrequentKeysAlwaysMeet == DeadlineSpec => []FrequentKeysMeetDeadline
<1>1. DeadlineInv => FrequentKeysMeetDeadline
  BY DEF DeadlineInv, FrequentInv, FrequentKeysMeetDeadline
<1> QED
  BY <1>1, DeadlineInvInit, DeadlineInvInductive, PTL DEF DeadlineSpec

(* The rare key misses one between any two of its samples, if two turns    *)
(* are longer than the deadline.                                           *)
THEOREM RareKeyAlwaysMisses == DeadlineSpec => []RareKeyMisses
<1>1. DeadlineInv => RareKeyMisses
  BY DEF DeadlineInv, RareInv, RareKeyMisses
<1> QED
  BY <1>1, DeadlineInvInit, DeadlineInvInductive, PTL DEF DeadlineSpec
=============================================================================
