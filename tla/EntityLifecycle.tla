-------------------------- MODULE EntityLifecycle --------------------------
(***************************************************************************)
(* The life of one C++ object that owns DDS entities: its init() builds a  *)
(* participant, a publisher or subscriber ("group"), and per topic a Topic *)
(* and a DataWriter or DataReader ("endpoint"); its destructor takes them  *)
(* down call by call.  Fast DDS refuses to delete a topic that an endpoint *)
(* still uses, a group that still has endpoints and a participant that     *)
(* still has entities, and none of the destructors looks at the result:    *)
(* the ORDER of the calls decides whether the participant survives its     *)
(* owner.  The classes of the repository use three orders.                 *)
(*                                                                         *)
(* Objects of one process share the participant slots of the factory, so a *)
(* participant that is never released is missing for a later object.       *)
(***************************************************************************)
EXTENDS Naturals, FiniteSets, Sequences

CONSTANTS
    Objects,   \* the C++ objects one process creates in its life
    Topics,    \* topic names: the keys of pair_topics
    Classes,   \* the classes an object may have, of AllClasses
    Slots      \* participants that one process can hold at a time

VARIABLES
    class,     \* class of each object
    pending,   \* topics init() has still to set up
    pc,        \* where each object is in its life
    at,        \* next call of its destructor
    entries,   \* m_writers / m_readers: topics whose endpoint is recorded
    groupPtr,  \* m_publisher / m_subscriber is not null
    part       \* the factory's participant created for each object

vars == <<class, pending, pc, at, entries, groupPtr, part>>

-----------------------------------------------------------------------------
(* The classes.  dtor is the order of the destructor's calls ("entries" is *)
(* the loop that deletes the topic and then the endpoint of each entry);   *)
(* groupChecked: init() returns when the group could not be created;       *)
(* many: init() sets up every topic of pair_topics and ignores failures.   *)

\* Definitions whose name ends in _bug are variants with a plausible mistake in
\* them; no action uses them.  They show that the properties can fail.

MainPublisher ==
    [dtor |-> <<"entries", "group", "participant">>,
     groupChecked |-> FALSE, many |-> TRUE]

MainSubscriber ==
    [dtor |-> <<"entries", "group", "participant">>,
     groupChecked |-> TRUE, many |-> TRUE]

HelloWorldPublisher ==
    [dtor |-> <<"endpoint", "group", "topic", "participant">>,
     groupChecked |-> TRUE, many |-> FALSE]

HelloWorldSubscriber ==
    [dtor |-> <<"topic", "endpoint", "group", "participant">>,
     groupChecked |-> TRUE, many |-> FALSE]

OwnershipStrengthPublisher ==
    [dtor |-> <<"endpoint", "group", "topic", "participant">>,
     groupChecked |-> TRUE, many |-> FALSE]

OwnershipStrengthSubscriber ==
    [dtor |-> <<"endpoint", "topic", "group", "participant">>,
     groupChecked |-> TRUE, many |-> FALSE]

\* The topic goes before the writer.
LifespanPublisher_bug ==
    [dtor |-> <<"topic", "endpoint", "group", "participant">>,
     groupChecked |-> TRUE, many |-> FALSE]

LifespanPublisher ==
    [dtor |-> <<"endpoint", "group", "topic", "participant">>,
     groupChecked |-> TRUE, many |-> FALSE]

LifespanSubscriber ==
    [dtor |-> <<"endpoint", "topic", "group", "participant">>,
     groupChecked |-> TRUE, many |-> FALSE]

deadlinepayloadPublisher ==
    [dtor |-> <<"endpoint", "group", "topic", "participant">>,
     groupChecked |-> TRUE, many |-> FALSE]

deadlinepayloadSubscriber ==
    [dtor |-> <<"endpoint", "topic", "group", "participant">>,
     groupChecked |-> TRUE, many |-> FALSE]

TopicFirst == {MainPublisher, MainSubscriber, HelloWorldSubscriber}

EndpointFirst ==
    {HelloWorldPublisher, OwnershipStrengthPublisher,
     OwnershipStrengthSubscriber, LifespanPublisher, LifespanSubscriber,
     deadlinepayloadPublisher, deadlinepayloadSubscriber}

AllClasses == TopicFirst \cup EndpointFirst

ASSUME ClassesAssumption == Classes \subseteq AllClasses
ASSUME SlotsAssumption == Slots \in Nat
ASSUME ObjectsAssumption == IsFiniteSet(Objects)

-----------------------------------------------------------------------------
(* Fast DDS: what exists for one participant, and when a deletion works.   *)

\* An endpoint never loses its topic.
Participant ==
    {p \in [live : BOOLEAN, group : BOOLEAN,
            topics : SUBSET Topics, endpoints : SUBSET Topics] :
        p.endpoints \subseteq p.topics}

NoParticipant == [live |-> FALSE, group |-> FALSE,
                  topics |-> {}, endpoints |-> {}]

AfterCreateParticipant(p) == [p EXCEPT !.live = TRUE]

AfterCreateGroup(p) == [p EXCEPT !.group = TRUE]

AfterCreateTopic(p, t) == [p EXCEPT !.topics = @ \cup {t}]

AfterCreateEndpoint(p, t) == [p EXCEPT !.endpoints = @ \cup {t}]

AfterDeleteTopic(p, t) ==
    IF t \in p.endpoints THEN p ELSE [p EXCEPT !.topics = @ \ {t}]

AfterDeleteEndpoint(p, t) == [p EXCEPT !.endpoints = @ \ {t}]

AfterDeleteGroup(p) ==
    IF p.endpoints # {} THEN p ELSE [p EXCEPT !.group = FALSE]

AfterDeleteParticipant(p) ==
    IF p.group \/ p.topics # {} THEN p ELSE NoParticipant

Held == {o \in Objects : part[o].live}

-----------------------------------------------------------------------------
PcStates == {"new", "group", "topics", "built", "dtor", "freed", "crashed"}

TypeOK ==
    /\ class \in [Objects -> Classes]
    /\ pending \in [Objects -> SUBSET Topics]
    /\ pc \in [Objects -> PcStates]
    /\ at \in [Objects -> 1..5]
    /\ entries \in [Objects -> SUBSET Topics]
    /\ groupPtr \in [Objects -> BOOLEAN]
    /\ part \in [Objects -> Participant]

Init ==
    /\ class \in [Objects -> Classes]
    /\ pending \in [Objects -> (SUBSET Topics) \ {{}}]
    /\ \A o \in Objects : class[o].many \/ \E t \in Topics : pending[o] = {t}
    /\ pc = [o \in Objects |-> "new"]
    /\ at = [o \in Objects |-> 1]
    /\ entries = [o \in Objects |-> {}]
    /\ groupPtr = [o \in Objects |-> FALSE]
    /\ part = [o \in Objects |-> NoParticipant]

Running == \A o \in Objects : pc[o] # "crashed"

\* create_participant: refused when every slot is taken, and for any other
\* reason (unresolvable server address, no free port).  init() returns FALSE
\* then; the object lives on until its destructor.
CreateParticipant(o) ==
    /\ pc[o] = "new"
    /\ \/ /\ Cardinality(Held) < Slots
          /\ part' = [part EXCEPT ![o] = AfterCreateParticipant(@)]
          /\ pc' = [pc EXCEPT ![o] = "group"]
       \/ /\ pc' = [pc EXCEPT ![o] = "built"]
          /\ UNCHANGED part
    /\ UNCHANGED <<class, pending, at, entries, groupPtr>>

\* create_publisher / create_subscriber; MainPublisher does not look at the
\* result.
CreateGroup(o) ==
    /\ pc[o] = "group"
    /\ \/ /\ part' = [part EXCEPT ![o] = AfterCreateGroup(@)]
          /\ groupPtr' = [groupPtr EXCEPT ![o] = TRUE]
          /\ pc' = [pc EXCEPT ![o] = "topics"]
       \/ /\ pc' = [pc EXCEPT ![o] = IF class[o].groupChecked THEN "built"
                                     ELSE "topics"]
          /\ UNCHANGED <<part, groupPtr>>
    /\ UNCHANGED <<class, pending, at, entries>>

\* initPubType / initSubType, or the tail of an example's init(): create_topic,
\* then create_datawriter / create_datareader through the group pointer, then
\* the entry is recorded.  A class with one topic stops at the first failure.
InitType(o, t) ==
    LET rest == pending[o] \ {t}
        done == [pc EXCEPT ![o] = IF rest = {} \/ ~class[o].many
                                  THEN "built" ELSE "topics"]
    IN
    /\ pc[o] = "topics" /\ t \in pending[o]
    /\ pending' = [pending EXCEPT ![o] = rest]
    /\ \/ UNCHANGED <<part, entries>> /\ pc' = done          \* no topic
       \/ /\ part' = [part EXCEPT ![o] = AfterCreateTopic(@, t)]
          /\ pc' = IF groupPtr[o] THEN done                  \* no endpoint
                   ELSE [pc EXCEPT ![o] = "crashed"]         \* null group
          /\ UNCHANGED entries
       \/ /\ groupPtr[o]
          /\ part' = [part EXCEPT ![o] =
                        AfterCreateEndpoint(AfterCreateTopic(@, t), t)]
          /\ entries' = [entries EXCEPT ![o] = @ \cup {t}]
          /\ pc' = done
    /\ UNCHANGED <<class, at, groupPtr>>

\* The owner lets the object go (end of scope, delete).
Destroy(o) ==
    /\ pc[o] = "built"
    /\ pc' = [pc EXCEPT ![o] = "dtor"]
    /\ UNCHANGED <<class, pending, at, entries, groupPtr, part>>

-----------------------------------------------------------------------------
(* The destructor.  Each call goes to Fast DDS, which may refuse it; the   *)
(* destructor moves on either way.                                         *)

NextCall(o) == class[o].dtor[at[o]]

\* The loop forgets the endpoints,
DeleteEntry_bug(o, t) ==
    /\ pc[o] = "dtor" /\ NextCall(o) = "entries" /\ t \in entries[o]
    /\ part' = [part EXCEPT ![o] = AfterDeleteTopic(@, t)]
    /\ entries' = [entries EXCEPT ![o] = @ \ {t}]
    /\ UNCHANGED <<class, pending, pc, at, groupPtr>>

\* or deletes each one before its topic.
DeleteEntry_swapped_bug(o, t) ==
    /\ pc[o] = "dtor" /\ NextCall(o) = "entries" /\ t \in entries[o]
    /\ part' = [part EXCEPT ![o] =
                  AfterDeleteTopic(AfterDeleteEndpoint(@, t), t)]
    /\ entries' = [entries EXCEPT ![o] = @ \ {t}]
    /\ UNCHANGED <<class, pending, pc, at, groupPtr>>

\* One turn of the loop of ~MainPublisher / ~MainSubscriber: the topic first,
\* while its endpoint is still there.
DeleteEntry(o, t) ==
    /\ pc[o] = "dtor" /\ NextCall(o) = "entries" /\ t \in entries[o]
    /\ part' = [part EXCEPT ![o] =
                  AfterDeleteEndpoint(AfterDeleteTopic(@, t), t)]
    /\ entries' = [entries EXCEPT ![o] = @ \ {t}]
    /\ UNCHANGED <<class, pending, pc, at, groupPtr>>

LoopDone(o) ==
    /\ pc[o] = "dtor" /\ NextCall(o) = "entries" /\ entries[o] = {}
    /\ at' = [at EXCEPT ![o] = @ + 1]
    /\ UNCHANGED <<class, pending, pc, entries, groupPtr, part>>

\* if (writer_ != nullptr) publisher_->delete_datawriter(writer_)
DeleteEndpoint(o) ==
    /\ pc[o] = "dtor" /\ NextCall(o) = "endpoint"
    /\ part' = [part EXCEPT ![o] =
                  IF entries[o] = {} THEN @
                  ELSE AfterDeleteEndpoint(@, CHOOSE t \in entries[o] : TRUE)]
    /\ at' = [at EXCEPT ![o] = @ + 1]
    /\ UNCHANGED <<class, pending, pc, entries, groupPtr>>

\* if (topic_ != nullptr) participant_->delete_topic(topic_)
DeleteTopic(o) ==
    /\ pc[o] = "dtor" /\ NextCall(o) = "topic"
    /\ part' = [part EXCEPT ![o] =
                  IF @.topics = {} THEN @
                  ELSE AfterDeleteTopic(@, CHOOSE t \in @.topics : TRUE)]
    /\ at' = [at EXCEPT ![o] = @ + 1]
    /\ UNCHANGED <<class, pending, pc, entries, groupPtr>>

\* if (publisher_ != nullptr) participant_->delete_publisher(publisher_)
DeleteGroup(o) ==
    /\ pc[o] = "dtor" /\ NextCall(o) = "group"
    /\ part' = [part EXCEPT ![o] =
                  IF groupPtr[o] THEN AfterDeleteGroup(@) ELSE @]
    /\ at' = [at EXCEPT ![o] = @ + 1]
    /\ UNCHANGED <<class, pending, pc, entries, groupPtr>>

\* The factory's delete_participant, the last call of every destructor; a null
\* participant is refused as well.
DeleteParticipant(o) ==
    /\ pc[o] = "dtor" /\ NextCall(o) = "participant"
    /\ part' = [part EXCEPT ![o] = AfterDeleteParticipant(@)]
    /\ at' = [at EXCEPT ![o] = @ + 1]
    /\ pc' = [pc EXCEPT ![o] = "freed"]
    /\ UNCHANGED <<class, pending, entries, groupPtr>>

Next ==
    /\ Running
    /\ \E o \in Objects :
          \/ CreateParticipant(o)
          \/ CreateGroup(o)
          \/ \E t \in Topics : InitType(o, t)
          \/ Destroy(o)
          \/ \E t \in Topics : DeleteEntry(o, t)
          \/ LoopDone(o)
          \/ DeleteEndpoint(o)
          \/ DeleteTopic(o)
          \/ DeleteGroup(o)
          \/ DeleteParticipant(o)

Spec == Init /\ [][Next]_vars

-----------------------------------------------------------------------------
\* No writer or reader outlives the object it calls back: the listener is a
\* member of the object (m_listener), so an endpoint left behind would call a
\* destroyed listener on its next match or sample.  Holds for every order of
\* deletion, because init() records every endpoint it creates.
NoListenerAfterFree ==
    \A o \in Objects : pc[o] = "freed" => part[o].endpoints = {}

\* A destructor that deletes the endpoint before the topic releases the
\* participant and its slot, whatever step of init() had failed, and whatever
\* objects of other classes there are.
NoLeak ==
    \A o \in Objects :
        pc[o] = "freed" /\ class[o] \in EndpointFirst => ~part[o].live

\* A destructor that asks for the topic before the endpoint never releases a
\* participant that got an endpoint: from the moment the endpoint exists, the
\* slot is gone for the life of the process.
TopicFirstNeverReleases ==
    \A o \in Objects :
        [](class[o] \in TopicFirst /\ part[o].endpoints # {} => []part[o].live)
=============================================================================
