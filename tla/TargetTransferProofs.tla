------------------------ MODULE TargetTransferProofs ------------------------
(***************************************************************************)
(* For every number of subscribers and samples and every pair of limits.   *)
(***************************************************************************)
EXTENDS TargetTransfer, TLAPS

(* The three stages a sample passes on its way, oldest samples first:      *)
(* printed, then in the reader's history, then pending.                    *)
StagesOrdered ==
  \A r \in Readers :
    /\ \A x \in got[r], y \in pending[r] : x < y
    /\ \A x \in printed[r], y \in held[r] : x < y
    /\ link[r] = "new" => got[r] = {} /\ pending[r] = {}

OrderInv == TypeOK /\ StagesOrdered

LEMMA TotalPositive == Total \in Nat \ {0}
BY CountAssumption DEF Total

(* No step changes the word that the programs were started with.           *)
LEMMA WordStays ==
  ASSUME [Next]_vars
  PROVE  m_type' = m_type /\ Total' = Total /\ Sample' = Sample
<1>1. m_type' = m_type
  BY DEF Next, vars, Publish, StartSending, SendMsg, EndSending,
         on_publication_matched, Arrive, Miss, on_data_available, Quit
<1> QED
  BY <1>1 DEF Total, Sample

LEMMA SentSoFar ==
  ASSUME TypeOK
  PROVE  /\ accepted \subseteq Nat
         /\ \A x \in accepted : x < index
         /\ index \in Nat
         /\ \A r \in Readers : pending[r] \subseteq accepted /\ got[r] \subseteq accepted
                               /\ held[r] \subseteq got[r] /\ printed[r] \subseteq got[r]
BY TotalPositive DEF TypeOK, HistoryTypeOK, Sample

THEOREM OrderInvInit == Init => OrderInv
BY TotalPositive
   DEF Init, HistoryInit, OrderInv, TypeOK, HistoryTypeOK, StagesOrdered, Sample

LEMMA SendKeepsOrder == OrderInv /\ SendMsg => OrderInv'
<1> SUFFICES ASSUME OrderInv, SendMsg PROVE OrderInv'
  OBVIOUS
<1>t. TypeOK /\ StagesOrdered
  BY DEF OrderInv
<1>w. m_type' = m_type /\ Sample' = Sample
  BY WordStays DEF Next, Publish
<1>i. index \in Nat /\ index < Total /\ index' = index + 1 /\ index' \in Sample
      /\ pc' = pc /\ printed' = printed
  BY <1>t, TotalPositive DEF SendMsg, TypeOK, Sample
<1>1. CASE \E kept \in SUBSET history : Store(index, kept)
  <2>1. PICK kept \in SUBSET history : Store(index, kept)
    BY <1>1
  <2>2. /\ accepted' = accepted \cup {index}
        /\ history' = kept \cup {index}
        /\ link' = link /\ got' = got /\ held' = held
        /\ pending' \in [Readers -> SUBSET accepted']
        /\ \A r \in Readers : /\ pending'[r] \subseteq pending[r] \cup {index}
                              /\ link[r] # "matched" => pending'[r] = pending[r]
    BY <2>1, <1>t DEF Store, TypeOK, HistoryTypeOK, Matched
  <2>3. TypeOK'
    <3>1. index \in Sample /\ accepted' \subseteq 0 .. index' - 1
      <4>1. index \in 0 .. index' - 1 /\ 0 .. index - 1 \subseteq 0 .. index' - 1
        BY <1>i
      <4>2. index \in Sample
        BY <1>i, TotalPositive DEF Sample
      <4> QED
        BY <4>1, <4>2, <1>t, <2>2 DEF TypeOK
    <3> QED
      BY <1>t, <1>i, <1>w, <2>2, <3>1 DEF TypeOK, HistoryTypeOK
  <2>4. StagesOrdered'
    <3> SUFFICES ASSUME NEW r \in Readers
                 PROVE  /\ \A x \in got[r], y \in pending'[r] : x < y
                        /\ \A x \in printed[r], y \in held[r] : x < y
                        /\ link[r] = "new" => got[r] = {} /\ pending'[r] = {}
      BY <1>i, <2>2 DEF StagesOrdered
    <3>1. \A x \in got[r] : x < index
      BY <1>t, SentSoFar
    <3>2. pending'[r] \subseteq pending[r] \cup {index}
          /\ (link[r] # "matched" => pending'[r] = pending[r])
      BY <2>2
    <3>3. \A x \in got[r], y \in pending'[r] : x < y
      <4> SUFFICES ASSUME NEW x \in got[r], NEW y \in pending'[r] PROVE x < y
        OBVIOUS
      <4>1. CASE y = index
        BY <4>1, <3>1
      <4>2. CASE y \in pending[r]
        BY <4>2, <1>t DEF StagesOrdered
      <4> QED
        BY <4>1, <4>2, <3>2
    <3>4. link[r] = "new" => got[r] = {} /\ pending'[r] = {}
      BY <1>t, <3>2 DEF StagesOrdered
    <3> QED
      BY <1>t, <3>3, <3>4 DEF StagesOrdered
  <2> QED
    BY <2>3, <2>4 DEF OrderInv
<1>2. CASE Refuse
  <2>1. UNCHANGED middleware
    BY <1>2 DEF Refuse, middleware
  <2>2. TypeOK'
    <3>1. 0 .. index - 1 \subseteq 0 .. index' - 1
      BY <1>i
    <3> QED
      BY <1>t, <1>i, <1>w, <2>1, <3>1 DEF TypeOK, HistoryTypeOK, middleware
  <2> QED
    BY <1>t, <1>i, <2>1, <2>2 DEF OrderInv, StagesOrdered, middleware
<1> QED
  BY <1>1, <1>2 DEF SendMsg, Accept

LEMMA ReaderKeepsOrder ==
  ASSUME OrderInv, NEW r \in Readers,
         \/ on_publication_matched(r) \/ Arrive(r) \/ Miss(r)
         \/ on_data_available(r) \/ Quit(r)
  PROVE  OrderInv'
<1>t. TypeOK /\ StagesOrdered
  BY DEF OrderInv
<1>w. m_type' = m_type /\ Sample' = Sample
  BY WordStays DEF Next
<1>1. CASE on_publication_matched(r)
  <2>1. TypeOK'
    BY <1>t, <1>w, <1>1 DEF on_publication_matched, Meet, TypeOK, HistoryTypeOK
  <2>2. StagesOrdered'
    BY <1>t, <1>1 DEF on_publication_matched, Meet, StagesOrdered, TypeOK, HistoryTypeOK
  <2> QED
    BY <2>1, <2>2 DEF OrderInv
<1>2. CASE Arrive(r)
  <2>1. PICK x \in pending[r], kept \in SUBSET held[r] :
          /\ Oldest(x, pending[r])
          /\ held' = [held EXCEPT ![r] = kept \cup {x}]
          /\ got' = [got EXCEPT ![r] = @ \cup {x}]
          /\ pending' = [pending EXCEPT ![r] = @ \ {x}]
          /\ UNCHANGED <<accepted, history, link>>
    BY <1>2 DEF Arrive, Deliver, NextPending
  <2>u. UNCHANGED <<m_type, pc, index, printed>>
    BY <1>2 DEF Arrive
  <2>2. x \notin printed[r] /\ x \in accepted
    <3>1. x \in accepted /\ ~(x < x)
      BY <1>t, SentSoFar
    <3> QED
      BY <1>t, <3>1, SentSoFar DEF StagesOrdered
  <2>3. TypeOK'
    BY <1>t, <1>w, <2>1, <2>2, <2>u DEF TypeOK, HistoryTypeOK
  <2>4. link[r] # "new"
    BY <1>t, <2>1 DEF StagesOrdered
  <2>5. StagesOrdered'
    BY <1>t, <2>1, <2>4, <2>u, SentSoFar DEF StagesOrdered, Oldest, TypeOK, HistoryTypeOK
  <2> QED
    BY <2>3, <2>5 DEF OrderInv
<1>3. CASE Miss(r)
  <2>1. TypeOK'
    BY <1>t, <1>w, <1>3 DEF Miss, Lose, TypeOK, HistoryTypeOK
  <2>2. StagesOrdered'
    BY <1>t, <1>3 DEF Miss, Lose, StagesOrdered
  <2> QED
    BY <2>1, <2>2 DEF OrderInv
<1>4. CASE on_data_available(r)
  <2>1. PICK x \in held[r] :
          /\ Oldest(x, held[r])
          /\ held' = [held EXCEPT ![r] = @ \ {x}]
          /\ printed' = [printed EXCEPT ![r] = @ \cup {x}]
          /\ UNCHANGED <<m_type, pc, index, accepted, history, link, pending, got>>
    BY <1>4 DEF on_data_available, TakeNext
  <2>2. TypeOK'
    BY <1>t, <1>w, <2>1 DEF TypeOK, HistoryTypeOK
  <2>3. StagesOrdered'
    BY <1>t, <2>1, SentSoFar DEF StagesOrdered, Oldest, TypeOK, HistoryTypeOK
  <2> QED
    BY <2>2, <2>3 DEF OrderInv
<1>5. CASE Quit(r)
  <2>1. TypeOK'
    BY <1>t, <1>w, <1>5 DEF Quit, Leave, TypeOK, HistoryTypeOK
  <2>2. StagesOrdered'
    BY <1>t, <1>5 DEF Quit, Leave, StagesOrdered
  <2> QED
    BY <2>1, <2>2 DEF OrderInv
<1> QED
  BY <1>1, <1>2, <1>3, <1>4, <1>5

THEOREM OrderInvInductive == OrderInv /\ [Next]_vars => OrderInv'
<1> SUFFICES ASSUME OrderInv, [Next]_vars PROVE OrderInv'
  OBVIOUS
<1>t. TypeOK /\ StagesOrdered
  BY DEF OrderInv
<1>w. m_type' = m_type /\ Sample' = Sample
  BY WordStays
<1>1. CASE StartSending
  BY <1>t, <1>w, <1>1 DEF StartSending, middleware, OrderInv, TypeOK, HistoryTypeOK, StagesOrdered
<1>2. CASE SendMsg
  BY <1>2, SendKeepsOrder
<1>3. CASE EndSending
  <2>1. CASE DeleteWriter /\ pc' = "exited"
    BY <1>t, <1>w, <1>3, <2>1
       DEF EndSending, DeleteWriter, OrderInv, TypeOK, HistoryTypeOK, StagesOrdered
  <2>2. CASE UNCHANGED middleware /\ pc' = "stay"
    BY <1>t, <1>w, <1>3, <2>2
       DEF EndSending, middleware, OrderInv, TypeOK, HistoryTypeOK, StagesOrdered
  <2> QED
    BY <1>3, <2>1, <2>2 DEF EndSending
<1>4. CASE \E r \in Readers : \/ on_publication_matched(r) \/ Arrive(r) \/ Miss(r)
                              \/ on_data_available(r) \/ Quit(r)
  BY <1>4, ReaderKeepsOrder
<1>5. CASE UNCHANGED vars
  BY <1>t, <1>w, <1>5 DEF vars, middleware, OrderInv, TypeOK, HistoryTypeOK, StagesOrdered
<1> QED
  BY <1>1, <1>2, <1>3, <1>4, <1>5 DEF Next, Publish

(* The counts and histories keep their types for every type of QoS.        *)
THEOREM TypeCorrect == Spec => []TypeOK
<1>1. OrderInv => TypeOK
  BY DEF OrderInv
<1> QED
  BY <1>1, OrderInvInit, OrderInvInductive, PTL DEF Spec

(* No subscriber prints a sample after a newer one, whatever is lost,      *)
(* replaced or refused, and for every type of QoS.                         *)
THEOREM PrintsInOrder == Spec => PrintedInOrder
<1>1. OrderInv /\ [Next]_vars
        => [\A r \in Readers : \A x \in printed'[r] \ printed[r], y \in printed[r] : y < x]_vars
  <2> SUFFICES ASSUME OrderInv, Next, NEW r \in Readers,
                      NEW x \in printed'[r] \ printed[r], NEW y \in printed[r]
               PROVE  y < x
    OBVIOUS
  <2>1. \E q \in Readers : on_data_available(q)
    BY DEF Next, Publish, StartSending, SendMsg, EndSending, on_publication_matched,
           Arrive, Miss, Quit
  <2>2. x \in held[r]
    BY <2>1 DEF on_data_available, OrderInv, TypeOK
  <2> QED
    BY <2>2 DEF OrderInv, StagesOrdered
<1> QED
  BY <1>1, OrderInvInit, OrderInvInductive, PTL DEF Spec, PrintedInOrder

-----------------------------------------------------------------------------
(* The types that keep all.  What a matched subscriber has got or will get *)
(* is closed upwards in what was accepted, because a pending sample is     *)
(* never replaced; the order of the stages then leaves no gap.             *)
KeepAllType == m_type \in KeepsLarge \cup KeepsSmall

GapParts ==
  /\ \A x \in history, y \in accepted : x < y => y \in history
  /\ \A r \in Readers :
       /\ pending[r] \subseteq history
       /\ link[r] # "matched" => pending[r] = {}
       /\ link[r] = "matched"
            => \A x \in got[r] \cup pending[r], y \in accepted :
                 x < y => y \in got[r] \cup pending[r]
       /\ link[r] = "left" => held[r] = {}
       /\ link[r] # "left" => got[r] = printed[r] \cup held[r]
       /\ Unbroken(got[r], accepted)
       /\ Unbroken(printed[r], accepted)

GapInv == OrderInv /\ (KeepAllType => GapParts)

LEMMA KeepAllQos ==
  ASSUME KeepAllType
  PROVE  /\ initPubType(m_type).keepAll
         /\ initSubType(m_type).reliable
         /\ initSubType(m_type).durable
         /\ initSubType(m_type).keepAll
BY DEF KeepAllType, initPubType, initSubType, KeepsLarge, KeepsSmall, KeepingAll,
       DefaultWriter, DefaultReader

LEMMA GapPartsInit == Init => GapParts
BY DEF Init, HistoryInit, GapParts, Unbroken

LEMMA SendLeavesNoGap ==
  ASSUME KeepAllType, OrderInv, GapParts, SendMsg
  PROVE  GapParts'
<1>t. TypeOK /\ StagesOrdered
  BY DEF OrderInv
<1>i. index \in Nat /\ printed' = printed /\ \A y \in accepted : y \in Nat /\ y < index
  BY <1>t, SentSoFar DEF SendMsg
<1>1. ASSUME NEW kept \in SUBSET history, Store(index, kept),
             \A x \in kept, y \in history : x < y => y \in kept,
             \A r \in Readers : pending[r] \subseteq kept
      PROVE  GapParts'
  <2>1. /\ accepted' = accepted \cup {index}
        /\ history' = kept \cup {index}
        /\ link' = link /\ got' = got /\ held' = held
        /\ pending' = [r \in Readers |-> IF link[r] = "matched" THEN pending[r] \cup {index}
                                                              ELSE pending[r]]
    BY <1>1 DEF Store, Matched
  <2>2. \A x \in history', y \in accepted' : x < y => y \in history'
    BY <1>t, <1>i, <1>1, <2>1 DEF GapParts, TypeOK, HistoryTypeOK
  <2>3. ASSUME NEW r \in Readers
        PROVE  /\ pending'[r] \subseteq history'
               /\ link[r] # "matched" => pending'[r] = {}
               /\ link[r] = "matched"
                    => \A x \in got[r] \cup pending'[r], y \in accepted' :
                         x < y => y \in got[r] \cup pending'[r]
    <3>1. CASE link[r] = "matched"
      <4>1. pending'[r] = pending[r] \cup {index}
        BY <2>1, <3>1
      <4>2. got[r] \subseteq accepted /\ pending[r] \subseteq accepted
        BY <1>t, SentSoFar
      <4>3. \A x \in got[r] \cup pending[r], y \in accepted :
              x < y => y \in got[r] \cup pending[r]
        BY <3>1 DEF GapParts
      <4> QED
        BY <1>1, <1>i, <2>1, <3>1, <4>1, <4>2, <4>3
    <3>2. CASE link[r] # "matched"
      BY <1>1, <2>1, <3>2 DEF GapParts
    <3> QED
      BY <3>1, <3>2
  <2>4. ASSUME NEW S \in SUBSET accepted, Unbroken(S, accepted)
        PROVE  Unbroken(S, accepted')
    BY <1>i, <2>1, <2>4 DEF Unbroken
  <2>5. \A r \in Readers : Unbroken(got[r], accepted') /\ Unbroken(printed[r], accepted')
    BY <1>t, <2>4, SentSoFar DEF GapParts
  <2> QED
    BY <1>i, <2>1, <2>2, <2>3, <2>5 DEF GapParts
<1>2. CASE \E y \in history : Replaceable(y) /\ Store(index, history \ {y})
  <2>1. PICK y \in history : Replaceable(y) /\ Store(index, history \ {y})
    BY <1>2
  <2>2. \A x \in history \ {y}, z \in history : x < z => z \in history \ {y}
    <3>1. \A x \in history : y <= x /\ x \in Nat
      BY <1>t, <1>i, <2>1 DEF Replaceable, Oldest, TypeOK, HistoryTypeOK
    <3> QED
      BY <3>1
  <2>3. \A r \in Readers : pending[r] \subseteq history \ {y}
    BY <2>1, KeepAllQos DEF Replaceable, GapParts, Matched
  <2> QED
    BY <1>1, <2>1, <2>2, <2>3
<1>3. CASE Store(index, history)
  BY <1>1, <1>3 DEF GapParts
<1>4. CASE Refuse
  BY <1>i, <1>4 DEF Refuse, GapParts
<1> QED
  BY <1>2, <1>3, <1>4 DEF SendMsg, Accept

LEMMA ClosedIsUnbroken ==
  ASSUME NEW S \in SUBSET Nat, NEW P, NEW T,
         \A x \in S \cup P, y \in T : x < y => y \in S \cup P,
         \A x \in S, y \in P : x < y,
         T \subseteq Nat, P \subseteq Nat
  PROVE  Unbroken(S, T)
BY DEF Unbroken

LEMMA ReaderLeavesNoGap ==
  ASSUME KeepAllType, OrderInv, GapParts, OrderInv', NEW r \in Readers,
         \/ on_publication_matched(r) \/ Arrive(r) \/ Miss(r)
         \/ on_data_available(r) \/ Quit(r)
  PROVE  GapParts'
<1>t. TypeOK /\ StagesOrdered /\ TypeOK' /\ StagesOrdered'
  BY DEF OrderInv
<1>a. accepted \subseteq Nat /\ accepted' \subseteq Nat
  BY <1>t DEF TypeOK, HistoryTypeOK, Sample
<1>1. CASE on_publication_matched(r)
  <2>1. /\ link[r] = "new" /\ link' = [link EXCEPT ![r] = "matched"]
        /\ pending' = [pending EXCEPT ![r] = history]
        /\ UNCHANGED <<accepted, history, got, held, printed>>
    BY <1>1, KeepAllQos DEF on_publication_matched, Meet
  <2> QED
    BY <1>t, <2>1 DEF GapParts, StagesOrdered, TypeOK, HistoryTypeOK
<1>2. CASE Arrive(r)
  <2>1. PICK x \in pending[r] :
          /\ held' = [held EXCEPT ![r] = @ \cup {x}]
          /\ got' = [got EXCEPT ![r] = @ \cup {x}]
          /\ pending' = [pending EXCEPT ![r] = @ \ {x}]
          /\ UNCHANGED <<accepted, history, link, printed>>
    BY <1>2, <1>t, KeepAllQos DEF Arrive, Deliver, Kept, TypeOK, HistoryTypeOK
  <2>2. link[r] = "matched"
    BY <2>1 DEF GapParts
  <2>3. got'[r] \cup pending'[r] = got[r] \cup pending[r]
    BY <1>t, <2>1 DEF TypeOK, HistoryTypeOK
  <2>4. Unbroken(got'[r], accepted')
    <3>1. /\ got'[r] \in SUBSET Nat /\ pending'[r] \subseteq Nat
          /\ \A y \in got'[r], z \in pending'[r] : y < z
      BY <1>t, <1>a DEF TypeOK, HistoryTypeOK, StagesOrdered
    <3>2. \A y \in got'[r] \cup pending'[r], z \in accepted' :
            y < z => z \in got'[r] \cup pending'[r]
      BY <2>1, <2>2, <2>3 DEF GapParts
    <3> QED
      BY <3>1, <3>2, <1>a, ClosedIsUnbroken
  <2>5. got'[r] = printed'[r] \cup held'[r] /\ pending'[r] \subseteq history'
    BY <1>t, <2>1, <2>2 DEF GapParts, TypeOK, HistoryTypeOK
  <2>6. ASSUME NEW q \in Readers \ {r}
        PROVE  got'[q] = got[q] /\ held'[q] = held[q] /\ pending'[q] = pending[q]
    BY <2>1, <1>t DEF TypeOK, HistoryTypeOK
  <2> QED
    BY <2>1, <2>2, <2>3, <2>4, <2>5, <2>6 DEF GapParts
<1>3. CASE Miss(r)
  <2>1. PICK x \in pending[r] : x \notin history
    BY <1>3, KeepAllQos DEF Miss, Lose
  <2> QED
    BY <2>1 DEF GapParts
<1>4. CASE on_data_available(r)
  <2>1. PICK x \in held[r] :
          /\ held' = [held EXCEPT ![r] = @ \ {x}]
          /\ printed' = [printed EXCEPT ![r] = @ \cup {x}]
          /\ UNCHANGED <<accepted, history, link, pending, got>>
    BY <1>4 DEF on_data_available, TakeNext
  <2>2. link[r] # "left"
    BY <2>1 DEF GapParts
  <2>3. got'[r] = printed'[r] \cup held'[r]
    BY <1>t, <2>1, <2>2 DEF GapParts, TypeOK, HistoryTypeOK
  <2>4. Unbroken(printed'[r], accepted')
    <3> SUFFICES ASSUME NEW u \in printed'[r], NEW z \in printed'[r], NEW y \in accepted',
                        u < y, y < z
                 PROVE  y \in printed'[r]
      BY DEF Unbroken
    <3>1. Unbroken(got'[r], accepted')
      BY <2>1 DEF GapParts
    <3>2. y \in got'[r]
      BY <2>3, <3>1 DEF Unbroken
    <3>3. y \notin held'[r]
      <4>1. y \in held'[r] => z < y
        BY <1>t DEF StagesOrdered
      <4>2. y \in Nat /\ z \in Nat
        BY <1>t, <1>a DEF TypeOK, HistoryTypeOK
      <4> QED
        BY <4>1, <4>2
    <3> QED
      BY <2>3, <3>2, <3>3
  <2>5. ASSUME NEW q \in Readers \ {r}
        PROVE  printed'[q] = printed[q] /\ held'[q] = held[q]
    BY <2>1, <1>t DEF TypeOK, HistoryTypeOK
  <2> QED
    BY <2>1, <2>2, <2>3, <2>4, <2>5 DEF GapParts
<1>5. CASE Quit(r)
  BY <1>t, <1>5 DEF Quit, Leave, GapParts, TypeOK, HistoryTypeOK
<1> QED
  BY <1>1, <1>2, <1>3, <1>4, <1>5

THEOREM GapInvInductive == GapInv /\ [Next]_vars => GapInv'
<1> SUFFICES ASSUME GapInv, [Next]_vars PROVE GapInv'
  OBVIOUS
<1>o. OrderInv /\ OrderInv'
  BY OrderInvInductive DEF GapInv
<1>k. KeepAllType' = KeepAllType
  BY WordStays DEF KeepAllType
<1> SUFFICES ASSUME KeepAllType PROVE GapParts'
  BY <1>o, <1>k DEF GapInv
<1>g. GapParts
  BY DEF GapInv
<1>1. CASE StartSending
  BY <1>g, <1>1 DEF StartSending, middleware, GapParts
<1>2. CASE SendMsg
  BY <1>g, <1>o, <1>2, SendLeavesNoGap
<1>3. CASE EndSending
  <2>1. CASE DeleteWriter
    BY <1>g, <1>3, <2>1 DEF EndSending, DeleteWriter, GapParts
  <2>2. CASE UNCHANGED middleware
    BY <1>g, <1>3, <2>2 DEF EndSending, middleware, GapParts
  <2> QED
    BY <1>3, <2>1, <2>2 DEF EndSending
<1>4. CASE \E r \in Readers : \/ on_publication_matched(r) \/ Arrive(r) \/ Miss(r)
                              \/ on_data_available(r) \/ Quit(r)
  BY <1>g, <1>o, <1>4, ReaderLeavesNoGap
<1>5. CASE UNCHANGED vars
  BY <1>g, <1>5 DEF vars, middleware, GapParts
<1> QED
  BY <1>1, <1>2, <1>3, <1>4, <1>5 DEF Next, Publish

LEMMA GapInvAlways == Spec => []GapInv
<1>1. Init => GapInv
  BY OrderInvInit, GapPartsInit DEF GapInv
<1> QED
  BY <1>1, GapInvInductive, PTL DEF Spec

(* Under the types that keep all, a subscriber prints an unbroken piece of *)
(* what the writer accepted.                                               *)
THEOREM KeepAllLeavesNoGap == Spec => []NoGap
<1>1. GapInv => NoGap
  BY DEF GapInv, GapParts, NoGap, KeepAllType
<1> QED
  BY <1>1, GapInvAlways, PTL

(* A subscriber with both times of a BigData transfer has printed every    *)
(* chunk that was accepted.                                                *)
THEOREM TimesSpan == Spec => []TimesSpanTransfer
<1>1. GapInv => TimesSpanTransfer
  <2> SUFFICES ASSUME GapInv, m_type = "BigData", NEW r \in Readers,
                      startTimeSet(r), endTimeSet(r)
               PROVE  printed[r] = accepted
    BY DEF TimesSpanTransfer
  <2>1. OrderInv /\ TypeOK /\ Unbroken(printed[r], accepted)
    BY DEF GapInv, GapParts, KeepAllType, KeepsLarge, OrderInv
  <2>2. PICK i \in printed[r] : Flag(i) = 1
    BY DEF startTimeSet
  <2>3. PICK j \in printed[r] : Flag(j) = 2
    BY DEF endTimeSet
  <2>4. i = 0 /\ j + 1 = Total
    BY <2>2, <2>3 DEF Flag
  <2>5. printed[r] \subseteq accepted /\ accepted \subseteq 0 .. index - 1 /\ index \in 0 .. Total
    BY <2>1 DEF TypeOK, Sample
  <2>6. ASSUME NEW y \in accepted PROVE y \in printed[r]
    <3>1. y = i \/ y = j \/ (i < y /\ y < j)
      <4>1. y \in 0 .. index - 1 /\ j \in 0 .. index - 1 /\ index \in 0 .. Total
        BY <2>3, <2>5
      <4>2. y \in Int /\ j \in Int /\ index \in Int /\ Total \in Int
            /\ 0 <= y /\ y <= index - 1 /\ index <= Total
        BY <4>1, TotalPositive
      <4> QED
        BY <4>2, <2>4
    <3> QED
      BY <3>1, <2>1, <2>2, <2>3 DEF Unbroken
  <2> QED
    BY <2>5, <2>6
<1> QED
  BY <1>1, GapInvAlways, PTL
=============================================================================
