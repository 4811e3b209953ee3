--------------------------- MODULE DiscoverNames ----------------------------
(***************************************************************************)
(* The registry of the discover process of ddsQos: DiscoverListenler is    *)
(* told of participants and readers that come and go and keeps the name of *)
(* each participant and two counters.                                      *)
(*                                                                         *)
(* Fast DDS changes its own list first, in the thread that received the    *)
(* message, and calls the listener later.  It serializes the callbacks     *)
(* about participants, and reports the comings and goings of one           *)
(* participant in their order; that is assumed here.  came[g] counts how   *)
(* often g was put into the list or taken out of it, told[g] how many of   *)
(* these changes the listener was told: g is in the list while the first   *)
(* is odd, and registered while the second is.                             *)
(***************************************************************************)
EXTENDS Integers, Sequences, FiniteSets, SequencesExt

CONSTANTS
    Participants,   \* the GUIDs of the remote participants
    WithReader,     \* those with a reader
    name,           \* what each calls itself: pub or sub
    MaxChanges,     \* bound: how often each comes and goes
    Garbage         \* what an uninitialized int may hold

ASSUME NamesAssumption ==
    /\ WithReader \subseteq Participants
    /\ MaxChanges \in [Participants -> Nat]
    /\ Garbage \subseteq Int

VARIABLES
    list,           \* the participants in Fast DDS's list, behind itself
    came, told,     \* of each participant
    readerCame, readerTold,     \* the same of the reader of each
    m_participant,  \* guid -> name
    m_participanter, m_subscriber,
    first,          \* what the two counters held before anybody came
    printed,        \* guid -> the name printed when it was last discovered
    lost            \* the last loss: [guid, name] as printed

changes == <<list, came, readerCame>>
listener == <<told, readerTold, m_participant, m_participanter, m_subscriber,
              printed, lost>>
namesVars == <<changes, listener, first>>

Odd(n) == n % 2 = 1
None == [none |-> TRUE]

Known == {g \in Participants : Odd(told[g])}
KnownReaders == {g \in WithReader : Odd(readerTold[g])}

NamesInit ==
    /\ first \in [participants : Garbage, subscribers : Garbage]
    /\ list = <<>>
    /\ came = [g \in Participants |-> 0]
    /\ told = [g \in Participants |-> 0]
    /\ readerCame = [g \in WithReader |-> 0]
    /\ readerTold = [g \in WithReader |-> 0]
    /\ m_participant = [g \in {} |-> ""]
    /\ m_participanter = first.participants
    /\ m_subscriber = first.subscribers
    /\ printed = [g \in Participants |-> ""]
    /\ lost = None

-----------------------------------------------------------------------------
(* Fast DDS                                                                *)

Come(g) ==
    /\ came[g] < MaxChanges[g] /\ ~Odd(came[g])
    /\ came' = [came EXCEPT ![g] = @ + 1]
    /\ list' = Append(list, g)
    /\ UNCHANGED <<readerCame, listener, first>>

ReaderComes(g) ==
    /\ g \in WithReader /\ Odd(came[g]) /\ ~Odd(readerCame[g])
    /\ readerCame[g] < MaxChanges[g]
    /\ readerCame' = [readerCame EXCEPT ![g] = @ + 1]
    /\ UNCHANGED <<list, came, listener, first>>

ReaderGoes(g) ==
    /\ g \in WithReader /\ Odd(readerCame[g])
    /\ readerCame' = [readerCame EXCEPT ![g] = @ + 1]
    /\ UNCHANGED <<list, came, listener, first>>

\* A reader goes before its participant does.  The gap in the list is closed
\* or filled with the last entry.
Go(g) ==
    /\ Odd(came[g])
    /\ g \in WithReader => ~Odd(readerCame[g])
    /\ came' = [came EXCEPT ![g] = @ + 1]
    /\ LET i == CHOOSE i \in DOMAIN list : list[i] = g
       IN  \/ list' = RemoveAt(list, i)
           \/ list' = Front([list EXCEPT ![i] = Last(list)])
    /\ UNCHANGED <<readerCame, listener, first>>

-----------------------------------------------------------------------------
(* DiscoverListenler                                                       *)

\* The last of get_participant_names(), which begins with the process itself.
LastName(g) == IF list = <<>> THEN "discover" ELSE name[Last(list)]

\* on_participant_discovery, DISCOVERED_PARTICIPANT.
ParticipantDiscovered(g) ==
    /\ told[g] < came[g] /\ ~Odd(told[g])
    /\ told' = [told EXCEPT ![g] = @ + 1]
    /\ m_participanter' = m_participanter + 1
    /\ printed' = [printed EXCEPT ![g] = LastName(g)]
    /\ m_participant' = [h \in DOMAIN m_participant \cup {g} |->
                            IF h = g THEN LastName(g) ELSE m_participant[h]]
    /\ UNCHANGED <<changes, readerTold, m_subscriber, lost, first>>

\* REMOVED_PARTICIPANT or DROPPED_PARTICIPANT: operator[] answers "" for a
\* guid it does not know, and erase takes out what it put in.
NameOf_bug(g) == LastName(g)
NameOf(g) == IF g \in DOMAIN m_participant THEN m_participant[g] ELSE ""

Erased_bug(g) == DOMAIN m_participant
Erased(g) == DOMAIN m_participant \ {g}

ParticipantLost(g) ==
    /\ told[g] < came[g] /\ Odd(told[g])
    /\ told' = [told EXCEPT ![g] = @ + 1]
    /\ m_participanter' = m_participanter - 1
    /\ lost' = [guid |-> g, name |-> NameOf(g)]
    /\ m_participant' = [h \in Erased(g) |-> m_participant[h]]
    /\ UNCHANGED <<changes, readerTold, m_subscriber, printed, first>>

\* on_subscriber_discovery.  on_publisher_discovery only prints.
SubscriberDiscovered(g) ==
    /\ g \in WithReader /\ readerTold[g] < readerCame[g] /\ ~Odd(readerTold[g])
    /\ readerTold' = [readerTold EXCEPT ![g] = @ + 1]
    /\ m_subscriber' = m_subscriber + 1
    /\ UNCHANGED <<changes, told, m_participant, m_participanter, printed, lost, first>>

SubscriberLost(g) ==
    /\ g \in WithReader /\ readerTold[g] < readerCame[g] /\ Odd(readerTold[g])
    /\ readerTold' = [readerTold EXCEPT ![g] = @ + 1]
    /\ m_subscriber' = m_subscriber - 1
    /\ UNCHANGED <<changes, told, m_participant, m_participanter, printed, lost, first>>

NamesNext ==
    \E g \in Participants :
        \/ Come(g) \/ Go(g) \/ ReaderComes(g) \/ ReaderGoes(g)
        \/ ParticipantDiscovered(g) \/ ParticipantLost(g)
        \/ SubscriberDiscovered(g) \/ SubscriberLost(g)

NamesSpec == NamesInit /\ [][NamesNext]_namesVars

-----------------------------------------------------------------------------
(* Properties                                                              *)

\* Whatever name is recorded for a participant, the loss prints the one its
\* discovery printed: the map never has a stale or a missing entry, however
\* the participants come back before their callbacks have run.
LossNamesDiscovery ==
    [][lost' # lost => lost'.name = printed[lost'.guid]]_namesVars

\* When every change has been told, the map has just the participants of the
\* list, and both counters differ from where they began by what there is.
RegistryIsList ==
    (told = came /\ readerTold = readerCame) =>
        /\ DOMAIN m_participant = ToSet(list)
        /\ m_participanter - first.participants = Len(list)
        /\ m_subscriber - first.subscribers = Cardinality(KnownReaders)
=============================================================================
