------------------------- MODULE OwnershipStrength -------------------------
(***************************************************************************)
(* The OwnershipStrength example.  The subscriber keeps a hierarchy of the *)
(* publishers it has heard, a map from strength to the set of their GUIDs, *)
(* and prints a message only if its writer has the lowest GUID of the      *)
(* strongest level.  Two Fast DDS threads use the hierarchy: the data      *)
(* thread takes a sample and THEN registers its writer and judges it; the  *)
(* discovery thread erases the GUID of a writer that matched or unmatched. *)
(* Only the bodies of the two operations hold mapMutex.                    *)
(*                                                                         *)
(* Erasing a GUID leaves its level in the map, empty or not.  An empty     *)
(* strongest level makes IsMessageStrong dereference the end of a set: its *)
(* answer is then any Boolean.                                             *)
(***************************************************************************)
EXTENDS Naturals

CONSTANTS
    Publishers,   \* the GUIDs of the writers, ordered as numbers
    Strength,     \* m_strength of each publisher
    MaxSamples    \* bound on the messages one publisher writes

ASSUME PublishersAssumption ==
    Publishers \subseteq Nat /\ Strength \in [Publishers -> Nat]
ASSUME MaxSamplesAssumption == MaxSamples \in Nat

VARIABLES
    alive,        \* publishers whose process runs
    written,      \* m_messagesSent of each publisher
    wire,         \* messages of each publisher that may still arrive
    matched,      \* writers the subscriber's reader is matched with
    notifying,    \* writer whose on_subscription_matched is running, if any
    taken,        \* writer of the sample taken by on_data_available, if any
    levels,       \* strengthMap: the levels present, and
    registered,   \* the GUIDs in them, each under its strength
    n_msg,        \* messages accepted
    owner,        \* writer of the last accepted message, if any
    overtaken     \* history variable, read by no guard: the writers that were
                  \* deregistered after an unmatch while a sample of theirs was
                  \* taken and not yet judged

dataVars == <<alive, written, wire>>
hierarchy == <<levels, registered, overtaken>>
vars == <<dataVars, matched, notifying, taken, hierarchy, n_msg, owner>>

Strengths == {Strength[p] : p \in Publishers}
Level(k) == {p \in registered : Strength[p] = k}

TypeOK ==
    /\ alive \subseteq Publishers
    /\ written \in [Publishers -> 0..MaxSamples]
    /\ wire \in [Publishers -> 0..MaxSamples]
    /\ matched \subseteq Publishers
    /\ notifying \subseteq Publishers
    /\ taken \subseteq Publishers
    /\ levels \subseteq Strengths
    /\ registered \subseteq Publishers
    /\ n_msg \in Nat
    /\ owner \subseteq Publishers
    /\ overtaken \subseteq Publishers
    /\ \A p \in registered : Strength[p] \in levels

Init ==
    /\ alive = Publishers
    /\ written = [p \in Publishers |-> 0]
    /\ wire = [p \in Publishers |-> 0]
    /\ matched = {}
    /\ notifying = {}
    /\ taken = {}
    /\ levels = {}
    /\ registered = {}
    /\ n_msg = 0
    /\ owner = {}
    /\ overtaken = {}

-----------------------------------------------------------------------------
(* The publishers and Fast DDS.                                            *)

\* 'y': write one more message.  A reader that is not matched gets nothing.
Write(p) ==
    /\ p \in alive /\ written[p] < MaxSamples
    /\ written' = [written EXCEPT ![p] = @ + 1]
    /\ wire' = IF p \in matched THEN [wire EXCEPT ![p] = @ + 1] ELSE wire
    /\ UNCHANGED <<alive, matched, notifying, taken, hierarchy, n_msg, owner>>

\* 'n': the process deletes its writer and ends.
Stop(p) ==
    /\ p \in alive
    /\ alive' = alive \ {p}
    /\ UNCHANGED <<written, wire, matched, notifying, taken, hierarchy, n_msg,
                   owner>>

\* A KEEP_LAST writer replaces a message nobody has acknowledged yet.
Lose(p) ==
    /\ wire[p] > 0
    /\ wire' = [wire EXCEPT ![p] = @ - 1]
    /\ UNCHANGED <<alive, written, matched, notifying, taken, hierarchy, n_msg,
                   owner>>

\* The reader is matched with a writer; the discovery thread tells it so.
Match(p) ==
    /\ notifying = {} /\ p \in alive \ matched
    /\ matched' = matched \cup {p}
    /\ notifying' = {p}
    /\ UNCHANGED <<dataVars, taken, hierarchy, n_msg, owner>>

\* The writer is gone, and with it what had not been received.
Unmatch(p) ==
    /\ notifying = {} /\ p \in matched \ alive
    /\ matched' = matched \ {p}
    /\ wire' = [wire EXCEPT ![p] = 0]
    /\ notifying' = {p}
    /\ UNCHANGED <<alive, written, taken, hierarchy, n_msg, owner>>

-----------------------------------------------------------------------------
(* The subscriber.                                                         *)

\* Definitions whose name ends in _bug are variants with a plausible mistake in
\* them; no action uses them.  They show that the properties can fail.

\* Only the strongest level is searched, or the levels that were empty BEFORE
\* the erasure go.
Kept_bug(p) == registered \ {q \in {p} : \A k \in levels : k <= Strength[q]}
LevelsKept_swapped_bug == {k \in levels : Level(k) # {}}

\* guidSet.second.erase(guid) for every level; the levels stay.
Kept(p) == registered \ {p}
LevelsKept == levels

\* on_subscription_matched: its last statement, after a match as well as
\* after an unmatch, erases the GUID from every level.
DeregisterPublisher(p) ==
    /\ p \in notifying
    /\ registered' = Kept(p)
    /\ levels' = LevelsKept
    /\ overtaken' = overtaken \cup (taken \cap ({p} \ matched))
    /\ notifying' = {}
    /\ UNCHANGED <<dataVars, matched, taken, n_msg, owner>>

\* on_data_available: take_next_sample.
TakeSample(p) ==
    /\ taken = {} /\ p \in matched /\ wire[p] > 0
    /\ wire' = [wire EXCEPT ![p] = @ - 1]
    /\ taken' = {p}
    /\ UNCHANGED <<alive, written, matched, notifying, hierarchy, n_msg, owner>>

\* strengthMap.rbegin(), and *begin() of a set that is not empty.
IsTop(k, K) == k \in K /\ \A j \in K : j <= k
IsLowest_bug(p, S) == p \in S /\ \A q \in S : q <= p
IsLowest(p, S) == p \in S /\ \A q \in S : p <= q

\* IsMessageStrong and, for a strong message, ++n_msg.
IsMessageStrong(p) ==
    /\ p \in taken
    /\ levels' = levels \cup {Strength[p]}
    /\ registered' = registered \cup {p}
    /\ \E top \in levels', strong \in BOOLEAN :
          /\ IsTop(top, levels')
          /\ Level(top)' # {} => strong = IsLowest(p, Level(top)')
          /\ n_msg' = IF strong THEN n_msg + 1 ELSE n_msg
          /\ owner' = IF strong THEN {p} ELSE owner
    /\ taken' = {}
    /\ UNCHANGED <<dataVars, matched, notifying, overtaken>>

Next ==
    \E p \in Publishers :
        \/ Write(p) \/ Stop(p) \/ Lose(p) \/ Match(p) \/ Unmatch(p)
        \/ DeregisterPublisher(p) \/ TakeSample(p) \/ IsMessageStrong(p)

Spec == Init /\ [][Next]_vars

\* Fast DDS notices a writer that is gone, and both threads of the subscriber
\* go on.
FairSpec ==
    /\ Spec
    /\ \A p \in Publishers :
          /\ WF_vars(Unmatch(p)) /\ WF_vars(DeregisterPublisher(p))
          /\ WF_vars(TakeSample(p)) /\ WF_vars(IsMessageStrong(p))

-----------------------------------------------------------------------------
Outranks(q, p) ==
    Strength[q] > Strength[p] \/ (Strength[q] = Strength[p] /\ q <= p)

\* The strongest level is there but nobody is in it.
TopDeserted ==
    \E k \in levels : IsTop(k, levels) /\ Level(k) = {}

\* Ownership moves upwards only: while the publisher of the last accepted
\* message stays registered, the next accepted one outranks it, whatever the
\* order of arrivals, matches and unmatches, unless a deserted strongest level
\* makes the answer arbitrary.
HandoverUpward ==
    [][n_msg' # n_msg /\ owner \subseteq registered /\ ~TopDeserted' =>
          \A p \in owner, q \in owner' : Outranks(q, p)]_vars

\* A deserted strongest level is not cured by weaker publishers, however long
\* they go on: only a message at least as strong as the level ends it.
DesertedUntilAsStrong ==
    [][TopDeserted /\ ~TopDeserted' =>
          \E p \in taken : \A k \in levels : Strength[p] >= k]_vars

\* README.txt:46, "explicitly removing a publisher from the hierarchy during the
\* unmatching process": whoever is registered is matched or about to be
\* deregistered, with one exception: the data thread had taken a sample of the
\* writer before the discovery thread deregistered it, and judged it afterwards.
\* Samples, matches and departures in any other order leave nobody behind.
OnlyOvertakenStay == registered \subseteq matched \cup notifying \cup overtaken

\* README.txt:13, "only one publisher will be allowed per topic until
\* unmatched": the hierarchy forgets for good every publisher that ends.
GoneIsForgotten ==
    \A p \in Publishers : p \notin alive ~> [](p \notin registered)

\* OwnershipStrengthSubscriber.cxx:124: "Must deregister here to make sure
\* messages from weaker publishers are accepted."  A message judged when every
\* other publisher has been deregistered is accepted.
WeakerAccepted ==
    [][\A p \in taken :
          taken' = {} /\ registered \subseteq {p} => n_msg' = n_msg + 1]_vars
=============================================================================
