----------------------- MODULE EntityLifecycleProofs -----------------------
(***************************************************************************)
(* For any number of objects, topics and slots: types, no endpoint outlives *)
(* its object (every class), no participant leaks (the classes whose       *)
(* destructor deletes the endpoint first), and every participant that got  *)
(* an endpoint leaks (the other classes).                                  *)
(***************************************************************************)
EXTENDS EntityLifecycle, TLAPS

-----------------------------------------------------------------------------
\* The four programs the destructors run.
MainDtor == <<"entries", "group", "participant">>
GroupBeforeTopic == <<"endpoint", "group", "topic", "participant">>
TopicBeforeGroup == <<"endpoint", "topic", "group", "participant">>
TopicBeforeEndpoint == <<"topic", "endpoint", "group", "participant">>

\* What every such program has in common: at most four calls, the participant
\* last and only last, the endpoints dealt with somewhere before it, by a loop
\* exactly in the classes with many topics.
WellShaped(d, many) ==
    /\ Len(d) \in {3, 4}
    /\ d[Len(d)] = "participant"
    /\ \A i \in 1..Len(d) : d[i] = "participant" => i = Len(d)
    /\ \E i \in 1..(Len(d) - 1) : d[i] \in {"entries", "endpoint"}
    /\ \A i \in 1..Len(d) : d[i] = "entries" => many
    /\ \A i \in 1..Len(d) : d[i] = "endpoint" => ~many

LEMMA ClassKinds ==
    ASSUME NEW c \in AllClasses
    PROVE  \/ c.dtor = MainDtor /\ c.many = TRUE
           \/ c.dtor = GroupBeforeTopic /\ c.many = FALSE
           \/ c.dtor = TopicBeforeGroup /\ c.many = FALSE
           \/ c.dtor = TopicBeforeEndpoint /\ c.many = FALSE
  BY DEF AllClasses, TopicFirst, EndpointFirst, MainPublisher, MainSubscriber,
         HelloWorldPublisher, HelloWorldSubscriber,
         OwnershipStrengthPublisher, OwnershipStrengthSubscriber,
         LifespanPublisher, LifespanSubscriber,
         deadlinepayloadPublisher, deadlinepayloadSubscriber,
         MainDtor, GroupBeforeTopic, TopicBeforeGroup, TopicBeforeEndpoint

LEMMA DtorShape ==
    ASSUME NEW c \in AllClasses
    PROVE  c.many \in BOOLEAN /\ WellShaped(c.dtor, c.many)
  <1>1. WellShaped(MainDtor, TRUE)
    BY DEF WellShaped, MainDtor
  <1>2. WellShaped(GroupBeforeTopic, FALSE)
    BY DEF WellShaped, GroupBeforeTopic
  <1>3. WellShaped(TopicBeforeGroup, FALSE)
    BY DEF WellShaped, TopicBeforeGroup
  <1>4. WellShaped(TopicBeforeEndpoint, FALSE)
    BY DEF WellShaped, TopicBeforeEndpoint
  <1>5. QED
    BY <1>1, <1>2, <1>3, <1>4, ClassKinds

\* In the classes that delete the endpoint first, the topic and the group are
\* each deleted in a call after it.
EndpointLeads(d) ==
    /\ d[1] = "endpoint"
    /\ \A i \in 2..Len(d) : d[i] # "endpoint"
    /\ \E i \in 2..(Len(d) - 1) : d[i] = "topic"
    /\ \E i \in 2..(Len(d) - 1) : d[i] = "group"

LEMMA EndpointFirstShape ==
    ASSUME NEW c \in EndpointFirst
    PROVE  ~c.many /\ EndpointLeads(c.dtor)
  <1>1. \/ c.dtor = GroupBeforeTopic /\ c.many = FALSE
        \/ c.dtor = TopicBeforeGroup /\ c.many = FALSE
    BY DEF EndpointFirst, HelloWorldPublisher,
           OwnershipStrengthPublisher, OwnershipStrengthSubscriber,
           LifespanPublisher, LifespanSubscriber,
           deadlinepayloadPublisher, deadlinepayloadSubscriber,
           GroupBeforeTopic, TopicBeforeGroup
  <1>2. EndpointLeads(GroupBeforeTopic)
    BY DEF EndpointLeads, GroupBeforeTopic
  <1>3. EndpointLeads(TopicBeforeGroup)
    BY DEF EndpointLeads, TopicBeforeGroup
  <1>4. QED
    BY <1>1, <1>2, <1>3

-----------------------------------------------------------------------------
\* What the calls of Fast DDS do to one participant.
LEMMA Created ==
    ASSUME NEW p \in Participant, NEW q,
           q \in {AfterCreateParticipant(p), AfterCreateGroup(p)}
    PROVE  /\ q \in Participant
           /\ q.endpoints = p.endpoints
           /\ q.topics = p.topics
  BY DEF Participant, AfterCreateParticipant, AfterCreateGroup

LEMMA CreatedTopic ==
    ASSUME NEW p \in Participant, NEW t \in Topics, NEW q,
           q = AfterCreateTopic(p, t)
    PROVE  /\ q \in Participant
           /\ q.endpoints = p.endpoints
           /\ q.topics = p.topics \cup {t}
  BY DEF Participant, AfterCreateTopic

LEMMA CreatedBoth ==
    ASSUME NEW p \in Participant, NEW t \in Topics, NEW q,
           q = AfterCreateEndpoint(AfterCreateTopic(p, t), t)
    PROVE  /\ q \in Participant
           /\ q.endpoints = p.endpoints \cup {t}
           /\ q.topics = p.topics \cup {t}
  BY DEF Participant, AfterCreateTopic, AfterCreateEndpoint

LEMMA Deleted ==
    ASSUME NEW p \in Participant, NEW t
    PROVE  /\ AfterDeleteTopic(p, t) \in Participant
           /\ AfterDeleteTopic(p, t).endpoints = p.endpoints
           /\ AfterDeleteTopic(p, t).topics \subseteq p.topics
           /\ AfterDeleteEndpoint(p, t) \in Participant
           /\ AfterDeleteEndpoint(p, t).endpoints = p.endpoints \ {t}
           /\ AfterDeleteEndpoint(p, t).topics = p.topics
           /\ AfterDeleteGroup(p) \in Participant
           /\ AfterDeleteGroup(p).endpoints = p.endpoints
           /\ AfterDeleteGroup(p).topics = p.topics
           /\ AfterDeleteParticipant(p) \in Participant
           /\ AfterDeleteParticipant(p).endpoints \subseteq p.endpoints
           /\ AfterDeleteParticipant(p).topics \subseteq p.topics
  BY DEF Participant, AfterDeleteTopic, AfterDeleteEndpoint,
         AfterDeleteGroup, AfterDeleteParticipant, NoParticipant

LEMMA DeletedEntry ==
    ASSUME NEW p \in Participant, NEW t, NEW r,
           r = AfterDeleteEndpoint(AfterDeleteTopic(p, t), t)
    PROVE  /\ r \in Participant
           /\ r.endpoints = p.endpoints \ {t}
           /\ r.topics \subseteq p.topics
  BY DEF Participant, AfterDeleteTopic, AfterDeleteEndpoint

-----------------------------------------------------------------------------
(* The inductive invariant, object by object: where the object is in its   *)
(* program, that every endpoint is recorded, and that the calls already    *)
(* made have removed all of them.                                          *)

Single(o) ==
    \E t \in Topics : /\ pending[o] \subseteq {t} /\ entries[o] \subseteq {t}
                      /\ part[o].topics \subseteq {t}

Position(o) ==
    /\ pc[o] \in {"new", "group", "topics", "built", "crashed"} => at[o] = 1
    /\ pc[o] = "dtor" => at[o] \in 1..Len(class[o].dtor)
    /\ pc[o] = "freed" => at[o] = Len(class[o].dtor) + 1

EndpointsGone(o) ==
    \A i \in 1..(at[o] - 1) :
        class[o].dtor[i] \in {"entries", "endpoint"} => part[o].endpoints = {}

ObjectInv(o) ==
    /\ Position(o)
    /\ ~class[o].many => Single(o)
    /\ part[o].endpoints \subseteq entries[o]
    /\ EndpointsGone(o)

IInv == TypeOK /\ \A o \in Objects : ObjectInv(o)

LEMMA InitIInv == Init => IInv
  <1> SUFFICES ASSUME Init PROVE IInv
    OBVIOUS
  <1>1. TypeOK
    BY DEF Init, TypeOK, PcStates, NoParticipant, Participant
  <1>2. ASSUME NEW o \in Objects
        PROVE  ObjectInv(o)
    BY <1>2 DEF Init, ObjectInv, Position, Single, EndpointsGone,
                NoParticipant
  <1>3. QED
    BY <1>1, <1>2 DEF IInv

\* An object that a step leaves alone keeps its part of the invariant.
LEMMA Untouched ==
    ASSUME NEW o \in Objects, ObjectInv(o),
           class'[o] = class[o], pending'[o] = pending[o], pc'[o] = pc[o],
           at'[o] = at[o], entries'[o] = entries[o], part'[o] = part[o]
    PROVE  ObjectInv(o)'
  BY DEF ObjectInv, Position, Single, EndpointsGone

\* One more call made: the endpoints are gone if they were, or if that call
\* was the one to remove them.
LEMMA Advance ==
    ASSUME NEW o \in Objects, EndpointsGone(o), at[o] \in Nat,
           class'[o] = class[o], at'[o] = at[o] + 1,
           part'[o].endpoints \subseteq part[o].endpoints,
           class[o].dtor[at[o]] \in {"entries", "endpoint"} =>
              part'[o].endpoints = {}
    PROVE  EndpointsGone(o)'
  <1> SUFFICES ASSUME NEW i \in 1..at[o],
                      class[o].dtor[i] \in {"entries", "endpoint"}
               PROVE  part'[o].endpoints = {}
    BY DEF EndpointsGone
  <1>1. CASE i = at[o]
    BY <1>1
  <1>2. CASE i \in 1..(at[o] - 1)
    BY <1>2 DEF EndpointsGone
  <1>3. QED
    BY <1>1, <1>2

LEMMA NextIInv == IInv /\ [Next]_vars => IInv'
  <1> SUFFICES ASSUME IInv, [Next]_vars PROVE IInv'
    OBVIOUS
  <1>0. \A o \in Objects :
           class[o] \in AllClasses /\ WellShaped(class[o].dtor, class[o].many)
    BY ClassesAssumption, DtorShape DEF IInv, TypeOK
  <1>1. ASSUME NEW o \in Objects, CreateParticipant(o)
        PROVE  IInv'
    <2> part[o] \in Participant /\ at[o] \in 1..5 /\ ObjectInv(o)
      BY DEF IInv, TypeOK
    <2>a. \/ part' = part
          \/ part' = [part EXCEPT ![o] = AfterCreateParticipant(part[o])]
      BY <1>1 DEF CreateParticipant
    <2>b. AfterCreateParticipant(part[o]) \in Participant
      BY Created
    <2>c. part' \in [Objects -> Participant]
      BY <2>a, <2>b DEF IInv, TypeOK
    <2>d. /\ part'[o].endpoints = part[o].endpoints
          /\ part'[o].topics = part[o].topics
      BY <2>a, Created DEF IInv, TypeOK
    <2>1. TypeOK'
      BY <1>1, <2>c DEF IInv, TypeOK, CreateParticipant, PcStates
    <2>2. ObjectInv(o)'
      BY <1>1, <2>d DEF IInv, TypeOK, CreateParticipant, ObjectInv, Position, Single, EndpointsGone
    <2>3. ASSUME NEW p \in Objects, p # o PROVE ObjectInv(p)'
      BY <1>1, <2>3, Untouched DEF IInv, TypeOK, CreateParticipant
    <2>4. QED
      BY <2>1, <2>2, <2>3 DEF IInv
  <1>2. ASSUME NEW o \in Objects, CreateGroup(o)
        PROVE  IInv'
    <2> part[o] \in Participant /\ at[o] \in 1..5 /\ ObjectInv(o)
      BY DEF IInv, TypeOK
    <2>a. \/ part' = part
          \/ part' = [part EXCEPT ![o] = AfterCreateGroup(part[o])]
      BY <1>2 DEF CreateGroup
    <2>b. AfterCreateGroup(part[o]) \in Participant
      BY Created
    <2>c. part' \in [Objects -> Participant]
      BY <2>a, <2>b DEF IInv, TypeOK
    <2>d. /\ part'[o].endpoints = part[o].endpoints
          /\ part'[o].topics = part[o].topics
      BY <2>a, Created DEF IInv, TypeOK
    <2>1. TypeOK'
      BY <1>2, <2>c DEF IInv, TypeOK, CreateGroup, PcStates
    <2>2. ObjectInv(o)'
      BY <1>2, <2>d DEF IInv, TypeOK, CreateGroup, ObjectInv, Position, Single, EndpointsGone
    <2>3. ASSUME NEW p \in Objects, p # o PROVE ObjectInv(p)'
      BY <1>2, <2>3, Untouched DEF IInv, TypeOK, CreateGroup
    <2>4. QED
      BY <2>1, <2>2, <2>3 DEF IInv
  <1>3. ASSUME NEW o \in Objects, NEW t \in Topics, InitType(o, t)
        PROVE  IInv'
    <2> part[o] \in Participant /\ at[o] \in 1..5 /\ ObjectInv(o)
      BY DEF IInv, TypeOK
    <2> DEFINE withTopic == AfterCreateTopic(part[o], t)
               withBoth == AfterCreateEndpoint(withTopic, t)
    <2>a. \/ part' = part /\ entries' = entries
          \/ part' = [part EXCEPT ![o] = withTopic] /\ entries' = entries
          \/ /\ part' = [part EXCEPT ![o] = withBoth]
             /\ entries' = [entries EXCEPT ![o] = @ \cup {t}]
      BY <1>3 DEF InitType
    <2>b. /\ withTopic \in Participant
          /\ withTopic.endpoints = part[o].endpoints
          /\ withTopic.topics = part[o].topics \cup {t}
      BY CreatedTopic
    <2>c. /\ withBoth \in Participant
          /\ withBoth.endpoints = part[o].endpoints \cup {t}
          /\ withBoth.topics = part[o].topics \cup {t}
      BY CreatedBoth
    <2> HIDE DEF withTopic, withBoth
    <2>d. /\ part' \in [Objects -> Participant]
          /\ entries' \in [Objects -> SUBSET Topics]
          /\ part'[o].topics \subseteq part[o].topics \cup {t}
          /\ entries'[o] \subseteq entries[o] \cup {t}
          /\ part'[o].endpoints \subseteq entries'[o]
      BY <2>a, <2>b, <2>c DEF IInv, TypeOK, ObjectInv
    <2>e. /\ pc[o] = "topics" /\ t \in pending[o]
          /\ pending' = [pending EXCEPT ![o] = @ \ {t}]
          /\ \E x \in {"built", "topics", "crashed"} :
                 pc' = [pc EXCEPT ![o] = x]
          /\ UNCHANGED <<class, at, groupPtr>>
      BY <1>3 DEF InitType
    <2>f. at'[o] = 1
      BY <2>e DEF ObjectInv, Position
    <2>1. TypeOK'
      BY <2>d, <2>e DEF IInv, TypeOK, PcStates
    <2>2. ObjectInv(o)'
      BY <2>d, <2>e, <2>f DEF IInv, TypeOK, ObjectInv, Position, Single, EndpointsGone
    <2>3. ASSUME NEW p \in Objects, p # o PROVE ObjectInv(p)'
      BY <1>3, <2>3, Untouched DEF IInv, TypeOK, InitType
    <2>4. QED
      BY <2>1, <2>2, <2>3 DEF IInv
  <1>4. ASSUME NEW o \in Objects, Destroy(o)
        PROVE  IInv'
    <2> part[o] \in Participant /\ at[o] \in 1..5 /\ ObjectInv(o)
      BY DEF IInv, TypeOK
    <2>1. TypeOK'
      BY <1>4 DEF IInv, TypeOK, Destroy, PcStates
    <2>2. ObjectInv(o)'
      BY <1>4, <1>0 DEF IInv, TypeOK, Destroy, WellShaped, ObjectInv, Position, Single, EndpointsGone
    <2>3. ASSUME NEW p \in Objects, p # o PROVE ObjectInv(p)'
      BY <1>4, <2>3, Untouched DEF IInv, TypeOK, Destroy
    <2>4. QED
      BY <2>1, <2>2, <2>3 DEF IInv
  <1>5. ASSUME NEW o \in Objects, NEW t \in Topics, DeleteEntry(o, t)
        PROVE  IInv'
    <2> part[o] \in Participant /\ at[o] \in 1..5 /\ ObjectInv(o)
      BY DEF IInv, TypeOK
    <2> DEFINE r == AfterDeleteEndpoint(AfterDeleteTopic(part[o], t), t)
    <2>a. part' = [part EXCEPT ![o] = r]
      BY <1>5 DEF DeleteEntry
    <2>c. /\ r \in Participant /\ r.endpoints = part[o].endpoints \ {t}
          /\ r.topics \subseteq part[o].topics
      BY DeletedEntry
    <2> HIDE DEF r
    <2>d. /\ part' \in [Objects -> Participant] /\ part'[o] = r
      BY <2>a, <2>c DEF IInv, TypeOK
    <2>1. TypeOK'
      BY <1>5, <2>d DEF IInv, TypeOK, DeleteEntry
    <2>2. ObjectInv(o)'
      BY <1>5, <2>c, <2>d DEF IInv, TypeOK, DeleteEntry, ObjectInv, Position, Single, EndpointsGone
    <2>3. ASSUME NEW p \in Objects, p # o PROVE ObjectInv(p)'
      BY <1>5, <2>3, Untouched DEF IInv, TypeOK, DeleteEntry
    <2>4. QED
      BY <2>1, <2>2, <2>3 DEF IInv
  <1>6. ASSUME NEW o \in Objects, LoopDone(o)
        PROVE  IInv'
    <2> part[o] \in Participant /\ at[o] \in 1..5 /\ ObjectInv(o)
      BY DEF IInv, TypeOK
    <2>0. /\ at[o] + 1 \in 2..Len(class[o].dtor) /\ at[o] + 1 \in 1..5
          /\ at' = [at EXCEPT ![o] = @ + 1]
      BY <1>6, <1>0 DEF LoopDone, NextCall, Position, ObjectInv, WellShaped
    <2>0a. at' \in [Objects -> 1..5] /\ at'[o] = at[o] + 1
      BY <2>0 DEF IInv, TypeOK
    <2>d. EndpointsGone(o)'
      BY <1>6, <2>0a, Advance DEF LoopDone, NextCall, ObjectInv
    <2>1. TypeOK'
      BY <1>6, <2>0a DEF IInv, TypeOK, LoopDone
    <2>2. ObjectInv(o)'
      BY <1>6, <2>0, <2>0a, <2>d DEF IInv, TypeOK, LoopDone, ObjectInv, Position, Single
    <2>3. ASSUME NEW p \in Objects, p # o PROVE ObjectInv(p)'
      BY <1>6, <2>3, Untouched DEF IInv, TypeOK, LoopDone
    <2>4. QED
      BY <2>1, <2>2, <2>3 DEF IInv
  <1>7. ASSUME NEW o \in Objects, DeleteEndpoint(o)
        PROVE  IInv'
    <2> part[o] \in Participant /\ at[o] \in 1..5 /\ ObjectInv(o)
      BY DEF IInv, TypeOK
    <2>y. /\ pc[o] = "dtor" /\ class[o].dtor[at[o]] = "endpoint"
          /\ at' = [at EXCEPT ![o] = @ + 1]
          /\ UNCHANGED <<class, pending, pc, entries, groupPtr>>
      BY <1>7 DEF DeleteEndpoint, NextCall
    <2>0. /\ at[o] + 1 \in 2..Len(class[o].dtor) /\ at[o] + 1 \in 1..5
          /\ at' = [at EXCEPT ![o] = @ + 1]
      <3> DEFINE d == class[o].dtor
      <3>1. at[o] \in 1..Len(d) /\ Len(d) \in {3, 4} /\ d[Len(d)] = "participant"
        BY <1>0, <2>y DEF Position, ObjectInv, WellShaped
      <3>2. at[o] # Len(d)
        BY <2>y, <3>1
      <3> HIDE DEF d
      <3>3. at[o] + 1 \in 2..Len(d) /\ at[o] + 1 \in 1..5
        BY <3>1, <3>2
      <3>4. QED
        BY <2>y, <3>3 DEF d
    <2>0a. at' \in [Objects -> 1..5] /\ at'[o] = at[o] + 1
      BY <2>0 DEF IInv, TypeOK
    <2> DEFINE u == CHOOSE t \in entries[o] : TRUE
    <2>z. part[o].endpoints \subseteq {u} /\ part[o].endpoints \subseteq entries[o]
      BY <1>7, <1>0
      DEF DeleteEndpoint, NextCall, ObjectInv, Position, Single, WellShaped
    <2> DEFINE q == AfterDeleteEndpoint(part[o], u)
    <2>a. part' = [part EXCEPT ![o] = IF entries[o] = {} THEN @ ELSE q]
      BY <1>7 DEF DeleteEndpoint
    <2> HIDE DEF u
    <2>b. /\ q \in Participant /\ q.endpoints = part[o].endpoints \ {u}
          /\ q.topics \subseteq part[o].topics
      BY Deleted
    <2> HIDE DEF q
    <2>c. /\ part' \in [Objects -> Participant]
          /\ part'[o] = IF entries[o] = {} THEN part[o] ELSE q
      BY <2>a, <2>b DEF IInv, TypeOK
    <2>d. EndpointsGone(o)'
      BY <2>y, <2>0a, <2>b, <2>c, Advance, <2>z DEF ObjectInv
    <2>1. TypeOK'
      BY <2>y, <2>0a, <2>c DEF IInv, TypeOK
    <2>2. ObjectInv(o)'
      BY <2>y, <2>0, <2>0a, <2>b, <2>c, <2>d, <2>z
      DEF IInv, TypeOK, ObjectInv, Position, Single
    <2>3. ASSUME NEW p \in Objects, p # o PROVE ObjectInv(p)'
      BY <1>7, <2>3, Untouched DEF IInv, TypeOK, DeleteEndpoint
    <2>4. QED
      BY <2>1, <2>2, <2>3 DEF IInv
  <1>8. ASSUME NEW o \in Objects, DeleteTopic(o)
        PROVE  IInv'
    <2> part[o] \in Participant /\ at[o] \in 1..5 /\ ObjectInv(o)
      BY DEF IInv, TypeOK
    <2>y. /\ pc[o] = "dtor" /\ class[o].dtor[at[o]] = "topic"
          /\ at' = [at EXCEPT ![o] = @ + 1]
          /\ UNCHANGED <<class, pending, pc, entries, groupPtr>>
      BY <1>8 DEF DeleteTopic, NextCall
    <2>0. /\ at[o] + 1 \in 2..Len(class[o].dtor) /\ at[o] + 1 \in 1..5
          /\ at' = [at EXCEPT ![o] = @ + 1]
      <3> DEFINE d == class[o].dtor
      <3>1. at[o] \in 1..Len(d) /\ Len(d) \in {3, 4} /\ d[Len(d)] = "participant"
        BY <1>0, <2>y DEF Position, ObjectInv, WellShaped
      <3>2. at[o] # Len(d)
        BY <2>y, <3>1
      <3> HIDE DEF d
      <3>3. at[o] + 1 \in 2..Len(d) /\ at[o] + 1 \in 1..5
        BY <3>1, <3>2
      <3>4. QED
        BY <2>y, <3>3 DEF d
    <2>0a. at' \in [Objects -> 1..5] /\ at'[o] = at[o] + 1
      BY <2>0 DEF IInv, TypeOK
    <2> DEFINE u == CHOOSE t \in part[o].topics : TRUE
               q == AfterDeleteTopic(part[o], u)
    <2>a. part' = [part EXCEPT ![o] = IF part[o].topics = {} THEN @ ELSE q]
      BY <1>8 DEF DeleteTopic
    <2> HIDE DEF u
    <2>b. q \in Participant /\ q.endpoints = part[o].endpoints /\ q.topics \subseteq part[o].topics
      BY Deleted
    <2> HIDE DEF q
    <2>c. /\ part' \in [Objects -> Participant]
          /\ part'[o] = IF part[o].topics = {} THEN part[o] ELSE q
      BY <2>a, <2>b DEF IInv, TypeOK
    <2>d. EndpointsGone(o)'
      BY <2>y, <2>0a, <2>b, <2>c, Advance DEF ObjectInv
    <2>1. TypeOK'
      BY <2>y, <2>0a, <2>c DEF IInv, TypeOK
    <2>2. ObjectInv(o)'
      BY <2>y, <2>0, <2>0a, <2>b, <2>c, <2>d
      DEF IInv, TypeOK, ObjectInv, Position, Single
    <2>3. ASSUME NEW p \in Objects, p # o PROVE ObjectInv(p)'
      BY <1>8, <2>3, Untouched DEF IInv, TypeOK, DeleteTopic
    <2>4. QED
      BY <2>1, <2>2, <2>3 DEF IInv
  <1>9. ASSUME NEW o \in Objects, DeleteGroup(o)
        PROVE  IInv'
    <2> part[o] \in Participant /\ at[o] \in 1..5 /\ ObjectInv(o)
      BY DEF IInv, TypeOK
    <2>y. /\ pc[o] = "dtor" /\ class[o].dtor[at[o]] = "group"
          /\ at' = [at EXCEPT ![o] = @ + 1]
          /\ UNCHANGED <<class, pending, pc, entries, groupPtr>>
      BY <1>9 DEF DeleteGroup, NextCall
    <2>0. /\ at[o] + 1 \in 2..Len(class[o].dtor) /\ at[o] + 1 \in 1..5
          /\ at' = [at EXCEPT ![o] = @ + 1]
      <3> DEFINE d == class[o].dtor
      <3>1. at[o] \in 1..Len(d) /\ Len(d) \in {3, 4} /\ d[Len(d)] = "participant"
        BY <1>0, <2>y DEF Position, ObjectInv, WellShaped
      <3>2. at[o] # Len(d)
        BY <2>y, <3>1
      <3> HIDE DEF d
      <3>3. at[o] + 1 \in 2..Len(d) /\ at[o] + 1 \in 1..5
        BY <3>1, <3>2
      <3>4. QED
        BY <2>y, <3>3 DEF d
    <2>0a. at' \in [Objects -> 1..5] /\ at'[o] = at[o] + 1
      BY <2>0 DEF IInv, TypeOK
    <2> DEFINE q == AfterDeleteGroup(part[o])
    <2>a. part' = [part EXCEPT ![o] = IF ~groupPtr[o] THEN @ ELSE q]
      BY <1>9 DEF DeleteGroup
    <2>b. q \in Participant /\ q.endpoints = part[o].endpoints /\ q.topics \subseteq part[o].topics
      BY Deleted
    <2> HIDE DEF q
    <2>c. /\ part' \in [Objects -> Participant]
          /\ part'[o] = IF ~groupPtr[o] THEN part[o] ELSE q
      BY <2>a, <2>b DEF IInv, TypeOK
    <2>d. EndpointsGone(o)'
      BY <2>y, <2>0a, <2>b, <2>c, Advance DEF ObjectInv
    <2>1. TypeOK'
      BY <2>y, <2>0a, <2>c DEF IInv, TypeOK
    <2>2. ObjectInv(o)'
      BY <2>y, <2>0, <2>0a, <2>b, <2>c, <2>d
      DEF IInv, TypeOK, ObjectInv, Position, Single
    <2>3. ASSUME NEW p \in Objects, p # o PROVE ObjectInv(p)'
      BY <1>9, <2>3, Untouched DEF IInv, TypeOK, DeleteGroup
    <2>4. QED
      BY <2>1, <2>2, <2>3 DEF IInv
  <1>10. ASSUME NEW o \in Objects, DeleteParticipant(o)
        PROVE  IInv'
    <2> part[o] \in Participant /\ at[o] \in 1..5 /\ ObjectInv(o)
      BY DEF IInv, TypeOK
    <2>0. /\ at[o] = Len(class[o].dtor) /\ at[o] + 1 \in 1..5
          /\ at' = [at EXCEPT ![o] = @ + 1]
      BY <1>10, <1>0
      DEF DeleteParticipant, NextCall, Position, ObjectInv, WellShaped
    <2>0a. at' \in [Objects -> 1..5] /\ at'[o] = at[o] + 1
      BY <2>0 DEF IInv, TypeOK
    <2> DEFINE q == AfterDeleteParticipant(part[o])
    <2>a. part' = [part EXCEPT ![o] = q]
      BY <1>10 DEF DeleteParticipant
    <2>b. /\ q \in Participant /\ q.endpoints \subseteq part[o].endpoints
          /\ q.topics \subseteq part[o].topics
      BY Deleted
    <2> HIDE DEF q
    <2>c. part' \in [Objects -> Participant] /\ part'[o] = q
      BY <2>a, <2>b DEF IInv, TypeOK
    <2>d. EndpointsGone(o)'
      BY <1>10, <2>0a, <2>b, <2>c, Advance
      DEF DeleteParticipant, NextCall, ObjectInv
    <2>1. TypeOK'
      BY <1>10, <2>0a, <2>c DEF IInv, TypeOK, DeleteParticipant, PcStates
    <2>2. ObjectInv(o)'
      BY <1>10, <2>0, <2>0a, <2>b, <2>c, <2>d DEF IInv, TypeOK, DeleteParticipant, ObjectInv, Position, Single
    <2>3. ASSUME NEW p \in Objects, p # o PROVE ObjectInv(p)'
      BY <1>10, <2>3, Untouched DEF IInv, TypeOK, DeleteParticipant
    <2>4. QED
      BY <2>1, <2>2, <2>3 DEF IInv
  <1>11. ASSUME UNCHANGED vars PROVE IInv'
    BY <1>11 DEF IInv, TypeOK, vars, ObjectInv, Position, Single,
                 EndpointsGone
  <1>12. QED
    BY <1>1, <1>2, <1>3, <1>4, <1>5, <1>6, <1>7, <1>8, <1>9, <1>10, <1>11
    DEF Next

\* Type correctness of the specification, for any set of objects and topics.
THEOREM TypeCorrect == Spec => []TypeOK
  <1>1. IInv => TypeOK
    BY DEF IInv
  <1>2. QED
    BY <1>1, InitIInv, NextIInv, PTL DEF Spec

\* No endpoint outlives the object whose listener it calls, in every class and
\* whatever calls of init() failed.
THEOREM ListenerSafe == Spec => []NoListenerAfterFree
  <1>1. IInv => NoListenerAfterFree
    <2> SUFFICES ASSUME IInv, NEW o \in Objects, pc[o] = "freed"
                 PROVE  part[o].endpoints = {}
      BY DEF NoListenerAfterFree
    <2>1. ObjectInv(o) /\ class[o] \in AllClasses
      BY ClassesAssumption DEF IInv, TypeOK
    <2>2. PICK i \in 1..(Len(class[o].dtor) - 1) :
             class[o].dtor[i] \in {"entries", "endpoint"}
      BY <2>1, DtorShape DEF WellShaped
    <2>3. at[o] = Len(class[o].dtor) + 1 /\ Len(class[o].dtor) \in {3, 4}
      BY <2>1, DtorShape DEF ObjectInv, Position, WellShaped
    <2>4. QED
      BY <2>1, <2>2, <2>3 DEF ObjectInv, EndpointsGone
  <1>2. QED
    BY <1>1, InitIInv, NextIInv, PTL DEF Spec

-----------------------------------------------------------------------------
(* The classes that delete the endpoint first release their participant.   *)

\* What the calls do to the group of a participant, and when the last call
\* releases it.
LEMMA GroupAfter ==
    ASSUME NEW p \in Participant, NEW t
    PROVE  /\ AfterCreateParticipant(p).group = p.group
           /\ AfterCreateTopic(p, t).group = p.group
           /\ AfterCreateEndpoint(AfterCreateTopic(p, t), t).group = p.group
           /\ AfterDeleteTopic(p, t).group = p.group
           /\ AfterDeleteEndpoint(p, t).group = p.group
           /\ AfterDeleteGroup(p).live = p.live
           /\ p.endpoints = {} => ~AfterDeleteGroup(p).group
           /\ ~p.group /\ p.topics = {} => AfterDeleteParticipant(p) = NoParticipant
           /\ p.endpoints = {} => AfterDeleteTopic(p, t).topics = p.topics \ {t}
  BY DEF Participant, AfterCreateParticipant, AfterCreateTopic,
         AfterCreateEndpoint, AfterDeleteTopic, AfterDeleteEndpoint,
         AfterDeleteGroup, AfterDeleteParticipant, NoParticipant

Released(o) ==
    /\ part[o].group => groupPtr[o]
    /\ \A i \in 1..(at[o] - 1) :
          /\ class[o].dtor[i] = "topic" => part[o].topics = {}
          /\ class[o].dtor[i] = "group" => ~part[o].group
    /\ pc[o] = "freed" => ~part[o].live

\* The objects of these classes; the others may leak beside them.
Ours == {o \in Objects : class[o] \in EndpointFirst}

LInv == IInv /\ \A o \in Ours : Released(o)

LEMMA ReleasedUntouched ==
    ASSUME NEW o \in Objects, Released(o),
           class'[o] = class[o], pc'[o] = pc[o], at'[o] = at[o],
           groupPtr'[o] = groupPtr[o], part'[o] = part[o]
    PROVE  Released(o)'
  BY DEF Released

Step(o) ==
    \/ CreateParticipant(o) \/ CreateGroup(o) \/ Destroy(o)
    \/ \E t \in Topics : InitType(o, t)
    \/ \E t \in Topics : DeleteEntry(o, t)
    \/ LoopDone(o) \/ DeleteEndpoint(o) \/ DeleteTopic(o)
    \/ DeleteGroup(o) \/ DeleteParticipant(o)

\* A step of one object leaves the others alone.
LEMMA OthersReleased ==
    ASSUME IInv, NEW o \in Objects, Step(o),
           NEW p \in Objects, p # o, Released(p)
    PROVE  Released(p)'
  <1> TypeOK
    BY DEF IInv
  <1>1. CASE CreateParticipant(o) \/ CreateGroup(o) \/ Destroy(o) \/ \E t \in Topics : InitType(o, t)
    BY <1>1, ReleasedUntouched
    DEF CreateParticipant, CreateGroup, Destroy, InitType, TypeOK
  <1>2. CASE LoopDone(o) \/ \E t \in Topics : DeleteEntry(o, t)
    BY <1>2, ReleasedUntouched DEF LoopDone, DeleteEntry, TypeOK
  <1>3. CASE DeleteEndpoint(o)
    BY <1>3, ReleasedUntouched DEF DeleteEndpoint, TypeOK
  <1>4. CASE DeleteTopic(o)
    BY <1>4, ReleasedUntouched DEF DeleteTopic, TypeOK
  <1>5. CASE DeleteGroup(o)
    BY <1>5, ReleasedUntouched DEF DeleteGroup, TypeOK
  <1>6. CASE DeleteParticipant(o)
    BY <1>6, ReleasedUntouched DEF DeleteParticipant, TypeOK
  <1>7. QED
    BY <1>1, <1>2, <1>3, <1>4, <1>5, <1>6 DEF Step

LEMMA NextReleased ==
    ASSUME LInv, NEW o \in Ours, Step(o)
    PROVE  Released(o)'
  <1> IInv /\ TypeOK
    BY DEF LInv, IInv
  <1> o \in Objects
    BY DEF Ours
  <1>0. /\ class[o] \in AllClasses /\ ~class[o].many
        /\ WellShaped(class[o].dtor, class[o].many)
        /\ EndpointLeads(class[o].dtor)
        /\ part[o] \in Participant /\ at[o] \in 1..5
        /\ ObjectInv(o) /\ Released(o)
    BY DtorShape, EndpointFirstShape
    DEF Ours, AllClasses, LInv, IInv, TypeOK
  \* Before the destructor nothing has been deleted yet.
  <1>1. ASSUME \/ CreateParticipant(o) \/ CreateGroup(o) \/ Destroy(o)
               \/ \E t \in Topics : InitType(o, t)
        PROVE  Released(o)'
    <2>1. at'[o] = 1 /\ pc'[o] # "freed"
      <3>1. pc[o] \in {"new", "group", "topics", "built"} /\ at' = at
            /\ pc'[o] \in {"group", "topics", "built", "crashed", "dtor"}
        BY <1>1 DEF CreateParticipant, CreateGroup, Destroy, InitType, TypeOK
      <3>2. QED
        BY <3>1, <1>0 DEF ObjectInv, Position
    <2>2. (part[o].group => groupPtr[o])'
      <3>1. CASE CreateParticipant(o)
        BY <3>1, <1>0, GroupAfter DEF CreateParticipant, Released, TypeOK
      <3>2. CASE CreateGroup(o)
        BY <3>2, <1>0 DEF CreateGroup, Released, TypeOK
      <3>3. CASE Destroy(o)
        BY <3>3, <1>0 DEF Destroy, Released
      <3>4. ASSUME NEW t \in Topics, InitType(o, t)
            PROVE  (part[o].group => groupPtr[o])'
        <4>1. /\ UNCHANGED groupPtr
              /\ \/ part' = part
                 \/ part' = [part EXCEPT ![o] = AfterCreateTopic(@, t)]
                 \/ part' = [part EXCEPT ![o] =
                        AfterCreateEndpoint(AfterCreateTopic(@, t), t)]
          BY <3>4 DEF InitType
        <4>2. part'[o].group = part[o].group
          BY <4>1, <1>0, GroupAfter DEF TypeOK
        <4>3. QED
          BY <4>1, <4>2, <1>0 DEF Released
      <3>5. QED
        BY <1>1, <3>1, <3>2, <3>3, <3>4
    <2>3. QED
      BY <2>1, <2>2 DEF Released
  <1>2. ASSUME DeleteEndpoint(o) PROVE Released(o)'
    <2>1. /\ at[o] = 1 /\ at'[o] = 2 /\ pc'[o] # "freed"
          /\ class' = class /\ groupPtr' = groupPtr
          /\ class[o].dtor[1] = "endpoint"
      BY <1>2, <1>0
      DEF DeleteEndpoint, NextCall, EndpointLeads, ObjectInv, Position, TypeOK
    <2>2. part'[o].group = part[o].group
      BY <1>2, <1>0, GroupAfter DEF DeleteEndpoint, TypeOK
    <2>3. QED
      BY <1>0, <2>1, <2>2 DEF Released
  <1>3. ASSUME at[o] > 1 PROVE part[o].endpoints = {}
    BY <1>3, <1>0 DEF ObjectInv, EndpointsGone, EndpointLeads
  <1>4. ASSUME DeleteTopic(o) PROVE Released(o)'
    <2>1. /\ class[o].dtor[at[o]] = "topic" /\ pc[o] = "dtor"
          /\ at' = [at EXCEPT ![o] = @ + 1]
          /\ UNCHANGED <<class, pc, groupPtr>>
      BY <1>4 DEF DeleteTopic, NextCall
    <2>2. at[o] > 1 /\ at'[o] = at[o] + 1
      BY <1>0, <2>1 DEF EndpointLeads, TypeOK
    <2> DEFINE u == CHOOSE t \in part[o].topics : TRUE
    <2>3. part[o].topics \subseteq {u}
      BY <1>0 DEF ObjectInv, Single
    <2>4. part' = [part EXCEPT ![o] =
                     IF @.topics = {} THEN @ ELSE AfterDeleteTopic(@, u)]
      BY <1>4 DEF DeleteTopic
    <2> HIDE DEF u
    <2>5. part'[o].topics = {} /\ part'[o].group = part[o].group
      BY <1>0, <1>3, <2>2, <2>3, <2>4, GroupAfter DEF TypeOK
    <2>6. QED
      BY <1>0, <2>1, <2>2, <2>5 DEF Released
  <1>5. ASSUME DeleteGroup(o) PROVE Released(o)'
    <2>1. /\ class[o].dtor[at[o]] = "group" /\ pc[o] = "dtor"
          /\ at' = [at EXCEPT ![o] = @ + 1]
          /\ part' = [part EXCEPT ![o] =
                        IF groupPtr[o] THEN AfterDeleteGroup(@) ELSE @]
          /\ UNCHANGED <<class, pc, groupPtr>>
      BY <1>5 DEF DeleteGroup, NextCall
    <2>2. at[o] > 1 /\ at'[o] = at[o] + 1
      BY <1>0, <2>1 DEF EndpointLeads, TypeOK
    <2>3. ~part'[o].group /\ part'[o].topics = part[o].topics
      BY <1>0, <1>3, <2>1, <2>2, GroupAfter, Deleted DEF TypeOK, Released
    <2>4. QED
      BY <1>0, <2>1, <2>2, <2>3 DEF Released
  <1>6. ASSUME DeleteParticipant(o) PROVE Released(o)'
    <2>1. at[o] = Len(class[o].dtor) /\ Len(class[o].dtor) \in {3, 4}
      BY <1>6, <1>0
      DEF DeleteParticipant, NextCall, ObjectInv, Position, WellShaped
    <2>2. part[o].topics = {} /\ ~part[o].group
      <3>1. PICK i \in 2..(Len(class[o].dtor) - 1) :
               class[o].dtor[i] = "topic"
        BY <1>0 DEF EndpointLeads
      <3>2. PICK j \in 2..(Len(class[o].dtor) - 1) :
               class[o].dtor[j] = "group"
        BY <1>0 DEF EndpointLeads
      <3>3. i \in 1..(at[o] - 1) /\ j \in 1..(at[o] - 1)
        BY <2>1, <3>1, <3>2
      <3>4. QED
        BY <1>0, <3>1, <3>2, <3>3 DEF Released
    <2>3. /\ UNCHANGED <<class, groupPtr>>
          /\ part' = [part EXCEPT ![o] = AfterDeleteParticipant(@)]
      BY <1>6 DEF DeleteParticipant
    <2>4. part'[o] = NoParticipant
      BY <1>0, <2>2, <2>3, GroupAfter DEF TypeOK
    <2>5. QED
      BY <2>4 DEF Released, NoParticipant
  <1>7. ASSUME LoopDone(o) \/ \E t \in Topics : DeleteEntry(o, t)
        PROVE  FALSE
    BY <1>7, <1>0
    DEF LoopDone, DeleteEntry, NextCall, ObjectInv, Position, WellShaped
  <1>8. QED
    BY <1>1, <1>2, <1>4, <1>5, <1>6, <1>7 DEF Step

LEMMA NextLInv ==
    ASSUME LInv, [Next]_vars
    PROVE  LInv'
  <1>0. IInv /\ IInv'
    BY NextIInv DEF LInv
  <1>1. ASSUME NEW o \in Objects, Step(o) PROVE LInv'
    <2>1. class' = class
      BY <1>1 DEF Step, CreateParticipant, CreateGroup, Destroy, InitType,
                  DeleteEntry, LoopDone, DeleteEndpoint, DeleteTopic,
                  DeleteGroup, DeleteParticipant
    <2>2. ASSUME NEW p \in Ours PROVE Released(p)'
      BY <1>0, <1>1, <2>2, NextReleased, OthersReleased DEF Ours, LInv
    <2>3. QED
      BY <1>0, <2>1, <2>2 DEF LInv, Ours
  <1>2. ASSUME UNCHANGED vars PROVE LInv'
    BY <1>0, <1>2 DEF vars, LInv, Ours, Released
  <1>3. QED
    BY <1>1, <1>2 DEF Next, Step

\* In a program that creates objects of any classes, every freed object whose
\* destructor deletes the endpoint before the topic has given its participant,
\* and with it its slot, back: whatever failed in its init().
THEOREM EndpointFirstReleases == Spec => []NoLeak
  <1>1. Init => LInv
    BY InitIInv DEF LInv, Ours, Init, Released, NoParticipant
  <1>2. LInv /\ [Next]_vars => LInv'
    BY NextLInv
  <1>3. LInv => NoLeak
    BY DEF LInv, Ours, Released, NoLeak
  <1>4. QED
    BY <1>1, <1>2, <1>3, PTL DEF Spec

-----------------------------------------------------------------------------
(* The classes that ask for the topic first keep their participant.        *)

LEMMA TopicFirstShape ==
    ASSUME NEW c \in TopicFirst
    PROVE  \/ c.dtor = MainDtor /\ c.many = TRUE
           \/ c.dtor = TopicBeforeEndpoint /\ c.many = FALSE
  BY DEF TopicFirst, MainPublisher, MainSubscriber, HelloWorldSubscriber,
         MainDtor, TopicBeforeEndpoint

\* No call but the last one ends a participant, and that one not while a topic
\* is left; a topic with an endpoint is not deleted.
LEMMA LiveAfter ==
    ASSUME NEW p \in Participant, NEW t
    PROVE  /\ AfterCreateParticipant(p).live
           /\ AfterCreateGroup(p).live = p.live
           /\ AfterCreateTopic(p, t).live = p.live
           /\ AfterCreateEndpoint(AfterCreateTopic(p, t), t).live = p.live
           /\ AfterDeleteTopic(p, t).live = p.live
           /\ AfterDeleteEndpoint(p, t).live = p.live
           /\ AfterDeleteEndpoint(AfterDeleteTopic(p, t), t).live = p.live
           /\ AfterDeleteGroup(p).live = p.live
           /\ p.topics # {} => AfterDeleteParticipant(p) = p
           /\ t \in p.endpoints => AfterDeleteTopic(p, t) = p
  BY DEF Participant, AfterCreateParticipant, AfterCreateGroup,
         AfterCreateTopic, AfterCreateEndpoint, AfterDeleteTopic,
         AfterDeleteEndpoint, AfterDeleteGroup, AfterDeleteParticipant,
         NoParticipant

\* While init() is at work there is a participant to work with.
LiveInv(o) ==
    /\ pc[o] \in {"group", "topics"} => part[o].live
    /\ part[o].endpoints # {} => part[o].live

\* The destructor has already asked for topic t, and will not ask again.
AskedFor(o, t) ==
    /\ pc[o] \in {"dtor", "freed"}
    /\ IF class[o].many THEN t \notin entries[o] ELSE at[o] > 1

\* A topic that is there for good: its endpoint is still to be deleted, or was
\* deleted after the topic had been asked for.
Kept(o) ==
    /\ class[o] \in TopicFirst /\ part[o].live
    /\ \E t \in part[o].topics : t \in part[o].endpoints \/ AskedFor(o, t)

KInv == IInv /\ \A o \in Objects : LiveInv(o)

\* What a step of one object leaves of the others.
LEMMA OthersAlone ==
    ASSUME TypeOK, NEW o \in Objects, Step(o), NEW p \in Objects, p # o
    PROVE  /\ class'[p] = class[p] /\ pc'[p] = pc[p] /\ at'[p] = at[p]
           /\ entries'[p] = entries[p] /\ part'[p] = part[p]
  <1>1. CASE CreateParticipant(o) \/ CreateGroup(o) \/ Destroy(o) \/ \E t \in Topics : InitType(o, t)
    BY <1>1 DEF CreateParticipant, CreateGroup, Destroy, InitType, TypeOK
  <1>2. CASE LoopDone(o) \/ \E t \in Topics : DeleteEntry(o, t)
    BY <1>2 DEF LoopDone, DeleteEntry, TypeOK
  <1>3. CASE DeleteEndpoint(o)
    BY <1>3 DEF DeleteEndpoint, TypeOK
  <1>4. CASE DeleteTopic(o)
    BY <1>4 DEF DeleteTopic, TypeOK
  <1>5. CASE DeleteGroup(o) \/ DeleteParticipant(o)
    BY <1>5 DEF DeleteGroup, DeleteParticipant, TypeOK
  <1>6. QED
    BY <1>1, <1>2, <1>3, <1>4, <1>5 DEF Step

\* What a step of init() makes of its participant.
LEMMA InitStep ==
    ASSUME TypeOK, NEW o \in Objects,
           \/ CreateParticipant(o) \/ CreateGroup(o) \/ Destroy(o)
           \/ \E t \in Topics : InitType(o, t)
    PROVE  /\ part[o].topics \subseteq part'[o].topics
           /\ part[o].endpoints \subseteq part'[o].endpoints
           /\ part[o].live => part'[o].live
           /\ pc[o] \notin {"dtor", "freed"} /\ class' = class
           /\ LiveInv(o) => LiveInv(o)'
  <1> part[o] \in Participant /\ pc[o] \in PcStates
    BY DEF TypeOK
  <1>1. CASE CreateParticipant(o)
    <2>1. /\ pc[o] = "new" /\ class' = class
          /\ \/ part'[o] = AfterCreateParticipant(part[o])
             \/ part'[o] = part[o] /\ pc'[o] = "built"
      BY <1>1 DEF CreateParticipant, TypeOK
    <2>2. QED
      BY <2>1, LiveAfter, Created DEF LiveInv
  <1>2. CASE CreateGroup(o)
    <2>1. /\ pc[o] = "group" /\ class' = class
          /\ \/ part'[o] = AfterCreateGroup(part[o])
             \/ part'[o] = part[o]
      BY <1>2 DEF CreateGroup, TypeOK
    <2>2. QED
      BY <2>1, LiveAfter, Created DEF LiveInv
  <1>3. CASE Destroy(o)
    BY <1>3 DEF Destroy, LiveInv, TypeOK
  <1>4. ASSUME NEW t \in Topics, InitType(o, t)
        PROVE  /\ part[o].topics \subseteq part'[o].topics
               /\ part[o].endpoints \subseteq part'[o].endpoints
               /\ part[o].live => part'[o].live
               /\ pc[o] \notin {"dtor", "freed"} /\ class' = class
               /\ LiveInv(o) => LiveInv(o)'
    <2>1. /\ pc[o] = "topics" /\ class' = class
          /\ \/ part'[o] = part[o]
             \/ part'[o] = AfterCreateTopic(part[o], t)
             \/ part'[o] = AfterCreateEndpoint(AfterCreateTopic(part[o], t), t)
      BY <1>4 DEF InitType, TypeOK
    <2>2. /\ part[o].topics \subseteq part'[o].topics
          /\ part[o].endpoints \subseteq part'[o].endpoints
      BY <2>1, CreatedTopic, CreatedBoth
    <2>3. part'[o].live = part[o].live
      BY <2>1, LiveAfter
    <2>4. QED
      BY <2>1, <2>2, <2>3 DEF LiveInv
  <1>5. QED
    BY <1>1, <1>2, <1>3, <1>4

\* What a call of the destructor makes of it.
LEMMA DtorStep ==
    ASSUME TypeOK, NEW o \in Objects,
           \/ \E t \in Topics : DeleteEntry(o, t)
           \/ LoopDone(o) \/ DeleteEndpoint(o) \/ DeleteTopic(o)
           \/ DeleteGroup(o) \/ DeleteParticipant(o)
    PROVE  /\ pc[o] = "dtor" /\ pc'[o] \in {"dtor", "freed"} /\ class' = class
           /\ (at[o] > 1 => at'[o] > 1) /\ entries'[o] \subseteq entries[o]
           /\ part[o].topics # {} \/ ~DeleteParticipant(o)
                => part'[o].live = part[o].live
           /\ part'[o].endpoints \subseteq part[o].endpoints
  <1> part[o] \in Participant /\ at[o] \in 1..5
    BY DEF TypeOK
  <1>1. ASSUME NEW t \in Topics, DeleteEntry(o, t)
        PROVE  /\ pc[o] = "dtor" /\ pc'[o] \in {"dtor", "freed"} /\ class' = class
               /\ (at[o] > 1 => at'[o] > 1) /\ entries'[o] \subseteq entries[o]
               /\ part'[o].live = part[o].live
               /\ part'[o].endpoints \subseteq part[o].endpoints
    <2>1. /\ pc[o] = "dtor" /\ pc' = pc /\ class' = class /\ at' = at
          /\ entries'[o] = entries[o] \ {t}
          /\ part'[o] = AfterDeleteEndpoint(AfterDeleteTopic(part[o], t), t)
      BY <1>1 DEF DeleteEntry, TypeOK
    <2>2. QED
      BY <2>1, LiveAfter, DeletedEntry
  <1>2. CASE LoopDone(o)
    BY <1>2 DEF LoopDone, TypeOK
  <1>3. CASE DeleteEndpoint(o)
    <2>1. PICK t : \/ part'[o] = part[o]
                   \/ part'[o] = AfterDeleteEndpoint(part[o], t)
      BY <1>3 DEF DeleteEndpoint, TypeOK
    <2>2. /\ pc[o] = "dtor" /\ UNCHANGED <<class, pc, entries>>
          /\ at'[o] = at[o] + 1
      BY <1>3 DEF DeleteEndpoint, TypeOK
    <2>3. QED
      BY <2>1, <2>2, LiveAfter, Deleted
  <1>4. CASE DeleteTopic(o)
    <2>1. PICK t : \/ part'[o] = part[o]
                   \/ part'[o] = AfterDeleteTopic(part[o], t)
      BY <1>4 DEF DeleteTopic, TypeOK
    <2>2. /\ pc[o] = "dtor" /\ UNCHANGED <<class, pc, entries>>
          /\ at'[o] = at[o] + 1
      BY <1>4 DEF DeleteTopic, TypeOK
    <2>3. QED
      BY <2>1, <2>2, LiveAfter, Deleted
  <1>5. CASE DeleteGroup(o)
    <2>1. \/ part'[o] = part[o]
          \/ part'[o] = AfterDeleteGroup(part[o])
      BY <1>5 DEF DeleteGroup, TypeOK
    <2>2. /\ pc[o] = "dtor" /\ UNCHANGED <<class, pc, entries>>
          /\ at'[o] = at[o] + 1
      BY <1>5 DEF DeleteGroup, TypeOK
    <2>3. QED
      BY <2>1, <2>2, LiveAfter, Deleted
  <1>6. CASE DeleteParticipant(o)
    <2>1. /\ pc[o] = "dtor" /\ pc'[o] = "freed" /\ UNCHANGED <<class, entries>>
          /\ at'[o] = at[o] + 1
          /\ part'[o] = AfterDeleteParticipant(part[o])
      BY <1>6 DEF DeleteParticipant, TypeOK
    <2>2. QED
      BY <1>6, <2>1, LiveAfter, Deleted
  <1>7. QED
    BY <1>1, <1>2, <1>3, <1>4, <1>5, <1>6

LEMMA NextKInv == KInv /\ [Next]_vars => KInv'
  <1> SUFFICES ASSUME KInv, [Next]_vars PROVE KInv'
    OBVIOUS
  <1>0. IInv' /\ TypeOK
    BY NextIInv DEF KInv, IInv
  <1>1. ASSUME NEW o \in Objects, Step(o), NEW p \in Objects PROVE LiveInv(p)'
    <2>1. CASE p # o
      BY <1>0, <1>1, <2>1, OthersAlone DEF KInv, LiveInv
    <2>2. CASE p = o /\ (\/ CreateParticipant(o) \/ CreateGroup(o) \/ Destroy(o)
                         \/ \E t \in Topics : InitType(o, t))
      BY <1>0, <2>2, InitStep DEF KInv
    <2>3. CASE p = o /\ (\/ \E t \in Topics : DeleteEntry(o, t)
                         \/ LoopDone(o) \/ DeleteEndpoint(o) \/ DeleteTopic(o)
                         \/ DeleteGroup(o) \/ DeleteParticipant(o))
      <3>1. part[o] \in Participant
        BY <1>0 DEF TypeOK
      <3>2. part[o].endpoints # {} => part[o].topics # {}
        BY <3>1 DEF Participant
      <3>3. QED
        BY <1>0, <2>3, <3>2, DtorStep DEF KInv, LiveInv
    <2>4. QED
      BY <1>1, <2>1, <2>2, <2>3 DEF Step
  <1>2. CASE UNCHANGED vars
    BY <1>0, <1>2 DEF vars, KInv, LiveInv
  <1>3. QED
    BY <1>0, <1>1, <1>2 DEF Next, Step, KInv

\* The topic that is kept survives every call of the destructor.
LEMMA DtorKeeps ==
    ASSUME KInv, NEW o \in Objects, Kept(o),
           \/ \E t \in Topics : DeleteEntry(o, t)
           \/ LoopDone(o) \/ DeleteEndpoint(o) \/ DeleteTopic(o)
           \/ DeleteGroup(o) \/ DeleteParticipant(o)
    PROVE  Kept(o)'
  <1> IInv /\ TypeOK /\ ObjectInv(o) /\ part[o] \in Participant /\ at[o] \in 1..5
    BY DEF KInv, IInv, TypeOK
  <1>0. PICK t \in part[o].topics : t \in part[o].endpoints \/ AskedFor(o, t)
    BY DEF Kept
  <1>1. /\ pc[o] = "dtor" /\ pc'[o] \in {"dtor", "freed"} /\ class' = class
        /\ (at[o] > 1 => at'[o] > 1) /\ entries'[o] \subseteq entries[o]
        /\ part'[o].live /\ part'[o].endpoints \subseteq part[o].endpoints
    BY <1>0, DtorStep DEF Kept
  <1>2. AskedFor(o, t) => AskedFor(o, t)'
    BY <1>1 DEF AskedFor
  <1>3. SUFFICES /\ t \in part'[o].topics
                 /\ t \in part'[o].endpoints \/ AskedFor(o, t)'
    BY <1>1 DEF Kept
  <1>4. \/ class[o].dtor = MainDtor /\ class[o].many = TRUE
        \/ class[o].dtor = TopicBeforeEndpoint /\ class[o].many = FALSE
    BY TopicFirstShape DEF Kept
  <1>5. ASSUME NEW u \in Topics, DeleteEntry(o, u)
        PROVE  /\ t \in part'[o].topics
               /\ t \in part'[o].endpoints \/ AskedFor(o, t)'
    <2>1. /\ u \in entries[o] /\ entries'[o] = entries[o] \ {u}
          /\ part'[o] = AfterDeleteEndpoint(AfterDeleteTopic(part[o], u), u)
      BY <1>5 DEF DeleteEntry, TypeOK
    <2>2. class[o].many
      BY <1>4, <1>5 DEF DeleteEntry, NextCall, TopicBeforeEndpoint, ObjectInv, Position
    <2>3. CASE u = t
      <3>1. t \in part[o].endpoints
        BY <1>0, <2>1, <2>2, <2>3 DEF AskedFor
      <3>2. part'[o] = AfterDeleteEndpoint(part[o], t)
        BY <2>1, <2>3, <3>1, LiveAfter
      <3>3. t \in part'[o].topics
        BY <3>2, Deleted
      <3>4. AskedFor(o, t)'
        BY <1>1, <2>1, <2>2, <2>3 DEF AskedFor
      <3>5. QED
        BY <3>3, <3>4
    <2>4. CASE u # t
      <3>1. /\ t \in part'[o].topics
            /\ t \in part[o].endpoints => t \in part'[o].endpoints
        BY <2>1, <2>4 DEF Participant, AfterDeleteTopic, AfterDeleteEndpoint
      <3>2. QED
        BY <1>0, <1>2, <3>1
    <2>5. QED
      BY <2>3, <2>4
  <1>6. CASE LoopDone(o)
    BY <1>0, <1>2, <1>6 DEF LoopDone
  <1>7. CASE DeleteEndpoint(o)
    <2>1. PICK u : part'[o] \in {part[o], AfterDeleteEndpoint(part[o], u)}
      BY <1>7 DEF DeleteEndpoint, TypeOK
    <2>2. t \in part'[o].topics
      BY <2>1, Deleted
    <2>3. ~class[o].many /\ at[o] > 1
      <3>1. class[o].dtor[at[o]] = "endpoint" /\ at[o] \in 1..Len(class[o].dtor)
        BY <1>7 DEF DeleteEndpoint, NextCall, ObjectInv, Position
      <3>2. QED
        BY <1>4, <3>1 DEF MainDtor, TopicBeforeEndpoint
    <2>4. AskedFor(o, t)'
      BY <1>1, <2>3 DEF AskedFor
    <2>5. QED
      BY <2>2, <2>4
  <1>8. CASE DeleteTopic(o)
    <2>1. ~class[o].many /\ at[o] = 1
      <3>1. class[o].dtor[at[o]] = "topic" /\ at[o] \in 1..Len(class[o].dtor)
        BY <1>8 DEF DeleteTopic, NextCall, ObjectInv, Position
      <3>2. QED
        BY <1>4, <3>1 DEF MainDtor, TopicBeforeEndpoint
    <2>2. t \in part[o].endpoints
      BY <1>0, <2>1 DEF AskedFor
    <2>3. \A u \in part[o].topics : u = t
      BY <2>1 DEF ObjectInv, Single
    <2>4. part'[o] = part[o]
      <3> DEFINE u == CHOOSE x \in part[o].topics : TRUE
      <3>1. u = t
        BY <2>3
      <3>2. part'[o] = AfterDeleteTopic(part[o], u)
        BY <1>8 DEF DeleteTopic, TypeOK
      <3> HIDE DEF u
      <3>3. QED
        BY <2>2, <3>1, <3>2, LiveAfter
    <2>5. QED
      BY <2>2, <2>4
  <1>9. CASE DeleteGroup(o)
    <2>1. part'[o] \in {part[o], AfterDeleteGroup(part[o])}
      BY <1>9 DEF DeleteGroup, TypeOK
    <2>2. QED
      BY <1>0, <1>2, <2>1, Deleted
  <1>10. CASE DeleteParticipant(o)
    <2>1. part'[o] = AfterDeleteParticipant(part[o])
      BY <1>10 DEF DeleteParticipant, TypeOK
    <2>2. part'[o] = part[o]
      BY <2>1, LiveAfter
    <2>3. QED
      BY <1>0, <1>2, <2>2
  <1>11. QED
    BY <1>5, <1>6, <1>7, <1>8, <1>9, <1>10

LEMMA NextKept ==
    ASSUME NEW o \in Objects
    PROVE  KInv /\ Kept(o) /\ [Next]_vars => Kept(o)'
  <1> SUFFICES ASSUME KInv, Kept(o), [Next]_vars PROVE Kept(o)'
    OBVIOUS
  <1>0. TypeOK
    BY DEF KInv, IInv
  <1>1. ASSUME NEW x \in Objects, Step(x) PROVE Kept(o)'
    <2>1. CASE x # o
      BY <1>0, <1>1, <2>1, OthersAlone DEF Kept, AskedFor
    <2>2. CASE x = o /\ (\/ CreateParticipant(o) \/ CreateGroup(o) \/ Destroy(o)
                         \/ \E t \in Topics : InitType(o, t))
      BY <1>0, <2>2, InitStep DEF Kept, AskedFor
    <2>3. CASE x = o /\ (\/ \E t \in Topics : DeleteEntry(o, t)
                         \/ LoopDone(o) \/ DeleteEndpoint(o) \/ DeleteTopic(o)
                         \/ DeleteGroup(o) \/ DeleteParticipant(o))
      BY <2>3, DtorKeeps
    <2>4. QED
      BY <1>1, <2>1, <2>2, <2>3 DEF Step
  <1>2. CASE UNCHANGED vars
    BY <1>2 DEF vars, Kept, AskedFor
  <1>3. QED
    BY <1>1, <1>2 DEF Next, Step

LEMMA KInvAlways == Spec => []KInv
  <1>1. Init => KInv
    BY InitIInv DEF KInv, LiveInv, Init, NoParticipant
  <1>2. QED
    BY <1>1, NextKInv, PTL DEF Spec

\* The converse of EndpointFirstReleases: a destructor that asks for the topic
\* first keeps the participant of an object that ever had an endpoint, and with
\* it the slot, for good.
THEOREM TopicFirstKeeps == Spec => TopicFirstNeverReleases
  <1> SUFFICES ASSUME NEW o \in Objects
               PROVE  Spec => [](class[o] \in TopicFirst /\ part[o].endpoints # {}
                                    => []part[o].live)
    BY DEF TopicFirstNeverReleases
  <1>1. KInv /\ class[o] \in TopicFirst /\ part[o].endpoints # {} => Kept(o)
    BY DEF KInv, IInv, TypeOK, Participant, LiveInv, Kept
  <1>2. Kept(o) => part[o].live
    BY DEF Kept
  <1>3. KInv /\ Kept(o) /\ [Next]_vars => Kept(o)'
    BY NextKept
  <1>4. QED
    BY <1>1, <1>2, <1>3, KInvAlways, PTL DEF Spec
=============================================================================
