---------------------------- MODULE MainTcpProofs ---------------------------
(***************************************************************************)
(* The processes of ddsQos, for any number of them, any words and any      *)
(* changes of the two files: whoever met asked for it.  And the registry   *)
(* of the discover process, for any participants that come and go: the     *)
(* names it prints, and what it knows when all callbacks have run.  And    *)
(* BigDateTCP, for any number of bytes and any buffer size: the two        *)
(* programs implement ByteTransfer and their reports are truthful.         *)
(***************************************************************************)
EXTENDS Main, DiscoverNames, BigDateTcp, FiniteSetTheorems, TLAPS

-----------------------------------------------------------------------------
(* Main: m_type, once main() has set it, is what the pair met with.        *)
Types ==
  /\ word \in [Process -> Word]
  /\ m_type \in [Process -> TestType \cup {"Garbage"}]
  /\ pc \in [Process -> {"main", "serving", "listening", "sending", "waiting",
                         "staying", "asking", "exited"}]

MetInv ==
  \A pair \in met :
    /\ pair \in Pubs \X Subs
    /\ pc[pair[1]] # "main" /\ pc[pair[2]] # "main"
    /\ Matches(m_type[pair[1]], m_type[pair[2]])

WordsInv == Types /\ MetInv

LEMMA WordTypes == ASSUME NEW w \in Word PROVE TypesOf(w) \subseteq TestType \cup {"Garbage"}
BY DEF TypesOf

LEMMA WordsInvInit == Init => WordsInv
BY DEF Init, WordsInv, Types, MetInv

LEMMA WordsInvInductive == WordsInv /\ [Next]_vars => WordsInv'
<1> SUFFICES ASSUME WordsInv, [Next]_vars PROVE WordsInv'
  OBVIOUS
<1>1. ASSUME NEW p \in Process, main(p) PROVE WordsInv'
  <2>1. PICK type \in TypesOf(word[p]), created \in BOOLEAN :
          /\ m_type' = [m_type EXCEPT ![p] = type]
          /\ pc' = [pc EXCEPT ![p] = IF node[p] = "discover" /\ ~created
                                     THEN "exited" ELSE FirstStep(p, type)]
    BY <1>1 DEF main
  <2>2. pc[p] = "main" /\ word' = word /\ met' = met
    BY <1>1 DEF main
  <2>3. FirstStep(p, type) \in {"serving", "listening", "sending", "waiting"}
    BY NodeAssumption DEF FirstStep
  <2>4. type \in TestType \cup {"Garbage"}
    BY WordTypes DEF WordsInv, Types
  <2>5. Types'
    BY <2>1, <2>2, <2>3, <2>4 DEF WordsInv, Types
  <2>6. ASSUME NEW pair \in met
        PROVE  /\ pair \in Pubs \X Subs
               /\ pc'[pair[1]] # "main" /\ pc'[pair[2]] # "main"
               /\ Matches(m_type'[pair[1]], m_type'[pair[2]])
    <3>1. pair \in Pubs \X Subs /\ pair[1] \in Process /\ pair[2] \in Process
      BY DEF WordsInv, MetInv, Pubs, Subs
    <3>2. pair[1] # p /\ pair[2] # p
      BY <2>2 DEF WordsInv, MetInv
    <3>3. /\ pc'[pair[1]] = pc[pair[1]] /\ pc'[pair[2]] = pc[pair[2]]
          /\ m_type'[pair[1]] = m_type[pair[1]] /\ m_type'[pair[2]] = m_type[pair[2]]
      BY <2>1, <3>1, <3>2 DEF WordsInv, Types
    <3> QED
      BY <3>1, <3>3 DEF WordsInv, MetInv
  <2> QED
    BY <2>2, <2>5, <2>6 DEF WordsInv, MetInv
<1>2. ASSUME NEW p \in Process, SendMsg(p) \/ SendChunks(p) \/ Kill(p) PROVE WordsInv'
  <2>1. PICK x \in {"staying", "asking", "exited"} : pc' = [pc EXCEPT ![p] = x]
    BY <1>2 DEF SendMsg, SendChunks, Kill, AfterSending
  <2>2. UNCHANGED <<word, m_type, met>>
    BY <1>2 DEF SendMsg, SendChunks, Kill, started
  <2>3. Types'
    BY <2>1, <2>2 DEF WordsInv, Types
  <2>4. \A q \in Process : pc[q] # "main" => pc'[q] # "main"
    BY <2>1 DEF WordsInv, Types
  <2> QED
    BY <2>2, <2>3, <2>4 DEF WordsInv, MetInv, Pubs, Subs
<1>3. ASSUME NEW p \in Pubs, NEW q \in Subs, Discovered(p, q) PROVE WordsInv'
  <2>1. /\ UNCHANGED <<word, m_type, pc>>
        /\ met' = met \cup {<<p, q>>}
        /\ pc[p] # "main" /\ pc[q] # "main"
        /\ Matches(m_type[p], m_type[q])
    BY <1>3 DEF Discovered, started
  <2> QED
    BY <2>1 DEF WordsInv, Types, MetInv
<1>4. CASE UNCHANGED vars \/ \E f \in Files : Edit(f)
  <2>1. UNCHANGED <<word, m_type, pc, met>>
    BY <1>4 DEF vars, Edit, started
  <2> QED
    BY <2>1 DEF WordsInv, Types, MetInv
<1> QED
  BY <1>1, <1>2, <1>3, <1>4 DEF Next, Run

(* What a match of a publisher and a subscriber says of their types.       *)
LEMMA MatchMeans ==
  ASSUME NEW pub \in TestType \cup {"Garbage"}, NEW sub \in TestType \cup {"Garbage"},
         Matches(pub, sub)
  PROVE  /\ sub \in KeepsLarge \cup KeepsSmall \cup {"ReliablityReliable"}
              => pub # "ReliablityBestEffort"
         /\ sub = "Deadline" => pub = "Deadline"
         /\ "PartitionA" \in {pub, sub} => pub = sub
         /\ "PartitionB" \in {pub, sub} => pub = sub
<1>1. ASSUME sub \in KeepsLarge \cup KeepsSmall \cup {"ReliablityReliable"}
      PROVE  pub # "ReliablityBestEffort"
  <2>1. initSubType(sub).reliable
    BY <1>1 DEF initSubType, KeepsLarge, KeepsSmall, KeepingAll, DefaultReader
  <2>2. ~initPubType("ReliablityBestEffort").reliable
    BY DEF initPubType, KeepsLarge, KeepsSmall, DefaultWriter
  <2> QED
    BY <2>1, <2>2 DEF Matches, Offers
<1>2. ASSUME sub = "Deadline" PROVE pub = "Deadline"
  <2>1. initSubType(sub).deadline = 1
    BY <1>2 DEF initSubType, KeepsLarge, KeepsSmall, DefaultReader
  <2>2. pub # "Deadline" => initPubType(pub).deadline = 2
    BY DEF initPubType, KeepsLarge, KeepsSmall, KeepingAll, DefaultWriter, Infinite
  <2>3. initPubType(pub).deadline <= initSubType(sub).deadline
    BY DEF Matches, Offers
  <2> QED
    BY <2>1, <2>2, <2>3
<1>3. /\ "PartitionA" \in {pub, sub} => pub = sub
      /\ "PartitionB" \in {pub, sub} => pub = sub
  BY DEF Matches, Partition
<1> QED
  BY <1>1, <1>2, <1>3

(* No publisher and subscriber meet that do not offer and ask for the      *)
(* same, whatever an unset m_type held.                                    *)
THEOREM MetAskedForIt == Spec => []MeetsWhatItAskedFor
<1>1. WordsInv => MeetsWhatItAskedFor
  BY MatchMeans DEF WordsInv, Types, MetInv, MeetsWhatItAskedFor, Pubs, Subs
<1> QED
  BY <1>1, WordsInvInit, WordsInvInductive, PTL DEF Spec

-----------------------------------------------------------------------------
(* DiscoverNames: the list of Fast DDS.                                    *)
OneToOne(s) == \A i, j \in 1 .. Len(s) : s[i] = s[j] => i = j

(* Both ways to close the gap take just one participant out of the list.   *)
LEMMA GapClosed ==
  ASSUME NEW S, NEW s \in Seq(S), OneToOne(s), NEW i \in 1 .. Len(s),
         NEW r, r = RemoveAt(s, i)
  PROVE  /\ r \in Seq(S) /\ Len(r) = Len(s) - 1 /\ OneToOne(r)
         /\ ToSet(r) = ToSet(s) \ {s[i]}
<1>1. /\ r \in Seq(S) /\ Len(r) = Len(s) - 1
      /\ \A k \in 1 .. Len(r) : r[k] = IF k < i THEN s[k] ELSE s[k + 1]
  <2> DEFINE u == SubSeq(s, 1, i - 1)
             v == SubSeq(s, i + 1, Len(s))
  <2>1. /\ u \in Seq(S) /\ Len(u) = i - 1
        /\ \A k \in 1 .. (i - 1) : u[k] = s[k]
    OBVIOUS
  <2>2. /\ v \in Seq(S) /\ Len(v) = Len(s) - i
        /\ \A k \in 1 .. (Len(s) - i) : v[k] = s[i + k]
    OBVIOUS
  <2>3. r = u \o v
    BY DEF RemoveAt
  <2> HIDE DEF u, v
  <2>4. r \in Seq(S) /\ Len(r) = Len(s) - 1
    BY <2>1, <2>2, <2>3
  <2>5. ASSUME NEW k \in 1 .. Len(r) PROVE r[k] = IF k < i THEN s[k] ELSE s[k + 1]
    <3>1. CASE k < i
      BY <2>1, <2>2, <2>3, <2>4, <3>1
    <3>2. CASE ~(k < i)
      <4>1. r[k] = v[k - (i - 1)] /\ k - (i - 1) \in 1 .. (Len(s) - i)
        BY <2>1, <2>2, <2>3, <2>4, <3>2
      <4>2. v[k - (i - 1)] = s[i + (k - (i - 1))] /\ i + (k - (i - 1)) = k + 1
        BY <2>2, <4>1
      <4> QED
        BY <3>2, <4>1, <4>2
    <3> QED
      BY <3>1, <3>2
  <2> QED
    BY <2>4, <2>5
<1>2. OneToOne(r)
  BY <1>1 DEF OneToOne
<1>3. ToSet(r) \subseteq ToSet(s) \ {s[i]}
  <2> SUFFICES ASSUME NEW k \in 1 .. Len(r) PROVE r[k] \in ToSet(s) \ {s[i]}
    BY <1>1 DEF ToSet
  <2> DEFINE m == IF k < i THEN k ELSE k + 1
  <2>1. m \in 1 .. Len(s) /\ m # i /\ r[k] = s[m]
    BY <1>1
  <2>2. s[m] # s[i]
    BY <2>1 DEF OneToOne
  <2> QED
    BY <2>1, <2>2 DEF ToSet
<1>4. ToSet(s) \ {s[i]} \subseteq ToSet(r)
  <2> SUFFICES ASSUME NEW m \in 1 .. Len(s), s[m] # s[i] PROVE s[m] \in ToSet(r)
    BY DEF ToSet
  <2> DEFINE k == IF m < i THEN m ELSE m - 1
  <2>1. k \in 1 .. Len(r) /\ r[k] = s[m]
    BY <1>1
  <2> QED
    BY <1>1, <2>1 DEF ToSet
<1> QED
  BY <1>1, <1>2, <1>3, <1>4

LEMMA GapFilled ==
  ASSUME NEW S, NEW s \in Seq(S), OneToOne(s), NEW i \in 1 .. Len(s)
  PROVE  LET r == Front([s EXCEPT ![i] = Last(s)])
         IN  /\ r \in Seq(S) /\ Len(r) = Len(s) - 1 /\ OneToOne(r)
             /\ ToSet(r) = ToSet(s) \ {s[i]}
<1> DEFINE n == Len(s)
           u == [s EXCEPT ![i] = s[n]]
           r == SubSeq(u, 1, Len(u) - 1)
<1>1. n \in 1 .. n /\ s[n] \in S
  OBVIOUS
<1>2. /\ u \in Seq(S) /\ Len(u) = n
      /\ \A k \in 1 .. n : u[k] = IF k = i THEN s[n] ELSE s[k]
  BY <1>1
<1>3. SUFFICES /\ r \in Seq(S) /\ Len(r) = n - 1 /\ OneToOne(r)
               /\ ToSet(r) = ToSet(s) \ {s[i]}
  BY DEF Front, Last
<1> HIDE DEF u
<1>4. r \in Seq(S) /\ Len(r) = n - 1 /\ \A k \in 1 .. (n - 1) : r[k] = u[k]
  BY <1>1, <1>2
<1> HIDE DEF r, n
<1>5. \A k \in 1 .. (n - 1) : k \in 1 .. n /\ k # n /\ r[k] = IF k = i THEN s[n] ELSE s[k]
  BY <1>1, <1>2, <1>4
<1>6. \A j, k \in 1 .. n : s[j] = s[k] => j = k
  BY DEF OneToOne, n
<1>7. OneToOne(r)
  <2> SUFFICES ASSUME NEW j \in 1 .. (n - 1), NEW k \in 1 .. (n - 1), r[j] = r[k] PROVE j = k
    BY <1>4 DEF OneToOne
  <2> QED
    BY <1>1, <1>5, <1>6
<1>8. ToSet(r) \subseteq ToSet(s) \ {s[i]}
  <2> SUFFICES ASSUME NEW k \in 1 .. (n - 1) PROVE r[k] \in ToSet(s) \ {s[i]}
    BY <1>4 DEF ToSet
  <2> DEFINE m == IF k = i THEN n ELSE k
  <2>1. m \in 1 .. n /\ m # i /\ r[k] = s[m]
    BY <1>1, <1>5
  <2>2. s[m] # s[i] /\ s[m] \in ToSet(s)
    BY <1>6, <2>1 DEF ToSet, n
  <2> QED
    BY <2>1, <2>2
<1>9. ToSet(s) \ {s[i]} \subseteq ToSet(r)
  <2> SUFFICES ASSUME NEW m \in 1 .. n, m # i PROVE s[m] \in ToSet(r)
    BY DEF ToSet, n
  <2> DEFINE k == IF m = n THEN i ELSE m
  <2>1. k \in 1 .. (n - 1) /\ r[k] = s[m]
    BY <1>1, <1>5 DEF n
  <2> QED
    BY <1>4, <2>1 DEF ToSet
<1> QED
  BY <1>4, <1>7, <1>8, <1>9 DEF n

LEMMA Appended ==
  ASSUME NEW S, NEW s \in Seq(S), OneToOne(s), NEW x \in S, x \notin ToSet(s)
  PROVE  LET r == Append(s, x)
         IN  /\ r \in Seq(S) /\ Len(r) = Len(s) + 1 /\ OneToOne(r)
             /\ ToSet(r) = ToSet(s) \cup {x}
<1> DEFINE r == Append(s, x)
<1>1. /\ r \in Seq(S) /\ Len(r) = Len(s) + 1 /\ r[Len(s) + 1] = x
      /\ \A k \in 1 .. Len(s) : r[k] = s[k] /\ s[k] # x
  BY DEF ToSet
<1> HIDE DEF r
<1>2. OneToOne(r)
  BY <1>1 DEF OneToOne
<1>3. ToSet(r) \subseteq ToSet(s) \cup {x}
  BY <1>1 DEF ToSet
<1>4. ToSet(s) \cup {x} \subseteq ToSet(r)
  BY <1>1 DEF ToSet
<1> QED
  BY <1>1, <1>2, <1>3, <1>4 DEF r

LEMMA OddNext == \A n \in Nat : Odd(n + 1) <=> ~Odd(n)
BY DEF Odd

-----------------------------------------------------------------------------
(* DiscoverNames: the list holds who is there, each once; the map holds    *)
(* who was announced, with the name that was printed; and the counters are *)
(* ahead of where they began by the number of those announced.             *)
Present == {g \in Participants : Odd(came[g])}

NamesTypes ==
  /\ came \in [Participants -> Nat] /\ told \in [Participants -> Nat]
  /\ readerCame \in [WithReader -> Nat] /\ readerTold \in [WithReader -> Nat]
  /\ DOMAIN printed = Participants
  /\ first.participants \in Int /\ first.subscribers \in Int

ListInv ==
  /\ list \in Seq(Participants) /\ OneToOne(list)
  /\ ToSet(list) = Present
  /\ IsFiniteSet(Present) /\ Len(list) = Cardinality(Present)

MapInv ==
  /\ DOMAIN m_participant = Known
  /\ \A g \in Known : m_participant[g] = printed[g]

CountInv ==
  /\ IsFiniteSet(Known)
  /\ m_participanter = first.participants + Cardinality(Known)
  /\ IsFiniteSet(KnownReaders)
  /\ m_subscriber = first.subscribers + Cardinality(KnownReaders)

NamesInv == NamesTypes /\ ListInv /\ MapInv /\ CountInv

LEMMA NamesInvInit == NamesInit => NamesInv
<1> SUFFICES ASSUME NamesInit PROVE NamesInv
  OBVIOUS
<1>1. ~Odd(0)
  BY DEF Odd
<1>2. Present = {} /\ Known = {} /\ KnownReaders = {}
  BY <1>1, NamesAssumption DEF NamesInit, Present, Known, KnownReaders
<1>3. NamesTypes
  BY NamesAssumption DEF NamesInit, NamesTypes
<1>4. ListInv
  <2>0. list = <<>>
    BY DEF NamesInit
  <2>1. list = <<>> /\ list \in Seq(Participants) /\ Len(list) = 0
    BY <2>0
  <2>2. OneToOne(list) /\ ToSet(list) = {}
    BY <2>1 DEF OneToOne, ToSet
  <2>3. IsFiniteSet({}) /\ Cardinality({}) = 0
    BY FS_EmptySet
  <2> QED
    BY <1>2, <2>1, <2>2, <2>3 DEF ListInv
<1>5. MapInv
  BY <1>2 DEF NamesInit, MapInv
<1>6. CountInv
  <2>1. m_participanter = first.participants /\ m_subscriber = first.subscribers
    BY DEF NamesInit
  <2>2. IsFiniteSet({}) /\ Cardinality({}) = 0
    BY FS_EmptySet
  <2> QED
    BY <1>2, <1>3, <2>1, <2>2 DEF CountInv, NamesTypes
<1> QED
  BY <1>3, <1>4, <1>5, <1>6 DEF NamesInv

LEMMA ComeKeeps == ASSUME NamesInv, NEW g \in Participants, Come(g) PROVE NamesInv'
<1>1. /\ ~Odd(came[g]) /\ came' = [came EXCEPT ![g] = came[g] + 1] /\ list' = Append(list, g)
      /\ readerCame' = readerCame /\ told' = told /\ readerTold' = readerTold
      /\ m_participant' = m_participant /\ m_participanter' = m_participanter
      /\ m_subscriber' = m_subscriber /\ printed' = printed /\ first' = first
  BY DEF Come, listener
<1>2. NamesTypes'
  BY <1>1 DEF NamesInv, NamesTypes
<1>3. Present' = Present \cup {g} /\ g \notin Present
  BY <1>1, OddNext DEF NamesInv, NamesTypes, Present
<1>4. ListInv'
  <2>1. IsFiniteSet(Present') /\ Cardinality(Present') = Cardinality(Present) + 1
    BY <1>3, FS_AddElement DEF NamesInv, ListInv
  <2>2. /\ list' \in Seq(Participants) /\ Len(list') = Len(list) + 1
        /\ OneToOne(list') /\ ToSet(list') = ToSet(list) \cup {g}
    <3>1. list \in Seq(Participants) /\ OneToOne(list) /\ g \notin ToSet(list)
      BY <1>3 DEF NamesInv, ListInv
    <3> QED
      BY <1>1, <3>1, Appended, Zenon
  <2> QED
    BY <1>3, <2>1, <2>2 DEF NamesInv, ListInv
<1>5. Known' = Known /\ KnownReaders' = KnownReaders
  BY <1>1 DEF Known, KnownReaders
<1>6. MapInv' /\ CountInv'
  BY <1>1, <1>5 DEF NamesInv, MapInv, CountInv
<1> QED
  BY <1>2, <1>4, <1>6 DEF NamesInv

LEMMA GoKeeps == ASSUME NamesInv, NEW g \in Participants, Go(g) PROVE NamesInv'
<1> DEFINE i == CHOOSE i \in DOMAIN list : list[i] = g
<1>1. /\ Odd(came[g]) /\ came' = [came EXCEPT ![g] = came[g] + 1]
      /\ list' = RemoveAt(list, i) \/ list' = Front([list EXCEPT ![i] = Last(list)])
      /\ readerCame' = readerCame /\ told' = told /\ readerTold' = readerTold
      /\ m_participant' = m_participant /\ m_participanter' = m_participanter
      /\ m_subscriber' = m_subscriber /\ printed' = printed /\ first' = first
  BY DEF Go, listener
<1>2. NamesTypes'
  BY <1>1 DEF NamesInv, NamesTypes
<1>3. Present' = Present \ {g} /\ g \in Present
  BY <1>1, OddNext DEF NamesInv, NamesTypes, Present
<1>4. ListInv'
  <2>1. IsFiniteSet(Present') /\ Cardinality(Present') = Cardinality(Present) - 1
    BY <1>3, FS_RemoveElement DEF NamesInv, ListInv
  <2>2. i \in 1 .. Len(list) /\ list[i] = g
    BY <1>3 DEF NamesInv, ListInv, ToSet
  <2> HIDE DEF i
  <2>3. /\ list' \in Seq(Participants) /\ Len(list') = Len(list) - 1
        /\ OneToOne(list') /\ ToSet(list') = ToSet(list) \ {g}
    <3>1. list \in Seq(Participants) /\ OneToOne(list)
      BY DEF NamesInv, ListInv
    <3>2. CASE list' = RemoveAt(list, i)
      BY <2>2, <3>1, <3>2, GapClosed
    <3>3. CASE list' = Front([list EXCEPT ![i] = Last(list)])
      BY <2>2, <3>1, <3>3, GapFilled, Zenon
    <3> QED
      BY <1>1, <3>2, <3>3
  <2> QED
    BY <1>3, <2>1, <2>3 DEF NamesInv, ListInv
<1>5. Known' = Known /\ KnownReaders' = KnownReaders
  BY <1>1 DEF Known, KnownReaders
<1>6. MapInv' /\ CountInv'
  BY <1>1, <1>5 DEF NamesInv, MapInv, CountInv
<1> QED
  BY <1>2, <1>4, <1>6 DEF NamesInv

LEMMA DiscoveredKeeps ==
  ASSUME NamesInv, NEW g \in Participants, ParticipantDiscovered(g) PROVE NamesInv'
<1>1. /\ ~Odd(told[g]) /\ told' = [told EXCEPT ![g] = told[g] + 1]
      /\ m_participanter' = m_participanter + 1
      /\ printed' = [printed EXCEPT ![g] = LastName(g)]
      /\ m_participant' = [h \in DOMAIN m_participant \cup {g} |->
                             IF h = g THEN LastName(g) ELSE m_participant[h]]
      /\ list' = list /\ came' = came /\ readerCame' = readerCame
      /\ readerTold' = readerTold /\ m_subscriber' = m_subscriber /\ first' = first
  BY DEF ParticipantDiscovered, changes
<1>2. NamesTypes'
  BY <1>1 DEF NamesInv, NamesTypes
<1>3. Known' = Known \cup {g} /\ g \notin Known
  BY <1>1, OddNext DEF NamesInv, NamesTypes, Known
<1>4. Present' = Present /\ KnownReaders' = KnownReaders
  BY <1>1 DEF Present, KnownReaders
<1>5. ListInv'
  BY <1>1, <1>4 DEF NamesInv, ListInv
<1>6. MapInv'
  BY <1>1, <1>3 DEF NamesInv, NamesTypes, MapInv, Known
<1>7. IsFiniteSet(Known') /\ Cardinality(Known') = Cardinality(Known) + 1
  BY <1>3, FS_AddElement DEF NamesInv, CountInv
<1>8. Cardinality(Known) \in Nat
  BY FS_CardinalityType DEF NamesInv, CountInv
<1>9. CountInv'
  BY <1>1, <1>4, <1>7, <1>8 DEF NamesInv, NamesTypes, CountInv
<1> QED
  BY <1>2, <1>5, <1>6, <1>9 DEF NamesInv

LEMMA LostKeeps == ASSUME NamesInv, NEW g \in Participants, ParticipantLost(g) PROVE NamesInv'
<1>1. /\ Odd(told[g]) /\ told' = [told EXCEPT ![g] = told[g] + 1]
      /\ m_participanter' = m_participanter - 1
      /\ m_participant' = [h \in DOMAIN m_participant \ {g} |-> m_participant[h]]
      /\ list' = list /\ came' = came /\ readerCame' = readerCame /\ printed' = printed
      /\ readerTold' = readerTold /\ m_subscriber' = m_subscriber /\ first' = first
  BY DEF ParticipantLost, Erased, changes
<1>2. NamesTypes'
  BY <1>1 DEF NamesInv, NamesTypes
<1>3. Known' = Known \ {g} /\ g \in Known
  BY <1>1, OddNext DEF NamesInv, NamesTypes, Known
<1>4. Present' = Present /\ KnownReaders' = KnownReaders
  BY <1>1 DEF Present, KnownReaders
<1>5. ListInv'
  BY <1>1, <1>4 DEF NamesInv, ListInv
<1>6. MapInv'
  BY <1>1, <1>3 DEF NamesInv, MapInv
<1>7. IsFiniteSet(Known') /\ Cardinality(Known') = Cardinality(Known) - 1
  BY <1>3, FS_RemoveElement DEF NamesInv, CountInv
<1>8. Cardinality(Known) \in Nat
  BY FS_CardinalityType DEF NamesInv, CountInv
<1>9. CountInv'
  BY <1>1, <1>4, <1>7, <1>8 DEF NamesInv, NamesTypes, CountInv
<1> QED
  BY <1>2, <1>5, <1>6, <1>9 DEF NamesInv

LEMMA ReadersKeep ==
  ASSUME NamesInv, NEW g \in Participants,
         \/ ReaderComes(g) \/ ReaderGoes(g) \/ SubscriberDiscovered(g) \/ SubscriberLost(g)
  PROVE  NamesInv'
<1>1. /\ list' = list /\ came' = came /\ told' = told /\ m_participant' = m_participant
      /\ m_participanter' = m_participanter /\ printed' = printed /\ first' = first
      /\ g \in WithReader
  BY DEF ReaderComes, ReaderGoes, SubscriberDiscovered, SubscriberLost, listener, changes
<1>2. /\ Present' = Present /\ Known' = Known
      /\ ListInv' /\ MapInv'
  BY <1>1 DEF NamesInv, Present, Known, ListInv, MapInv
<1>3. CASE ReaderComes(g) \/ ReaderGoes(g)
  <2>1. /\ readerCame' = [readerCame EXCEPT ![g] = readerCame[g] + 1]
        /\ readerTold' = readerTold /\ m_subscriber' = m_subscriber
    BY <1>3 DEF ReaderComes, ReaderGoes, listener
  <2>2. NamesTypes'
    BY <1>1, <2>1 DEF NamesInv, NamesTypes
  <2>3. KnownReaders' = KnownReaders
    BY <2>1 DEF KnownReaders
  <2> QED
    BY <1>1, <1>2, <2>1, <2>2, <2>3 DEF NamesInv, CountInv
<1>4. CASE SubscriberDiscovered(g)
  <2>1. /\ ~Odd(readerTold[g]) /\ readerTold' = [readerTold EXCEPT ![g] = readerTold[g] + 1]
        /\ readerCame' = readerCame /\ m_subscriber' = m_subscriber + 1
    BY <1>4 DEF SubscriberDiscovered, changes
  <2>2. NamesTypes'
    BY <1>1, <2>1 DEF NamesInv, NamesTypes
  <2>3. KnownReaders' = KnownReaders \cup {g} /\ g \notin KnownReaders
    BY <1>1, <2>1, OddNext DEF NamesInv, NamesTypes, KnownReaders
  <2>4. /\ IsFiniteSet(KnownReaders') /\ Cardinality(KnownReaders) \in Nat
        /\ Cardinality(KnownReaders') = Cardinality(KnownReaders) + 1
    BY <2>3, FS_AddElement, FS_CardinalityType DEF NamesInv, CountInv
  <2>5. CountInv'
    BY <1>1, <1>2, <2>1, <2>4 DEF NamesInv, NamesTypes, CountInv
  <2> QED
    BY <1>2, <2>2, <2>5 DEF NamesInv
<1>5. CASE SubscriberLost(g)
  <2>1. /\ Odd(readerTold[g]) /\ readerTold' = [readerTold EXCEPT ![g] = readerTold[g] + 1]
        /\ readerCame' = readerCame /\ m_subscriber' = m_subscriber - 1
    BY <1>5 DEF SubscriberLost, changes
  <2>2. NamesTypes'
    BY <1>1, <2>1 DEF NamesInv, NamesTypes
  <2>3. KnownReaders' = KnownReaders \ {g} /\ g \in KnownReaders
    BY <1>1, <2>1, OddNext DEF NamesInv, NamesTypes, KnownReaders
  <2>4. /\ IsFiniteSet(KnownReaders') /\ Cardinality(KnownReaders) \in Nat
        /\ Cardinality(KnownReaders') = Cardinality(KnownReaders) - 1
    BY <2>3, FS_RemoveElement, FS_CardinalityType DEF NamesInv, CountInv
  <2>5. CountInv'
    BY <1>1, <1>2, <2>1, <2>4 DEF NamesInv, NamesTypes, CountInv
  <2> QED
    BY <1>2, <2>2, <2>5 DEF NamesInv
<1> QED
  BY <1>3, <1>4, <1>5

LEMMA NamesInvInductive == NamesInv /\ [NamesNext]_namesVars => NamesInv'
<1>1. ASSUME NamesInv, NamesNext PROVE NamesInv'
  BY <1>1, ComeKeeps, GoKeeps, DiscoveredKeeps, LostKeeps, ReadersKeep DEF NamesNext
<1>2. ASSUME NamesInv, UNCHANGED namesVars PROVE NamesInv'
  BY <1>2 DEF namesVars, changes, listener, NamesInv, NamesTypes, ListInv, MapInv, CountInv,
              Present, Known, KnownReaders
<1> QED
  BY <1>1, <1>2

(* When all callbacks have run, the registry is the list, and both         *)
(* counters count it, however participants and readers came and went.      *)
THEOREM RegistryFollowsList == NamesSpec => []RegistryIsList
<1>1. NamesInv => RegistryIsList
  <2> SUFFICES ASSUME NamesInv, told = came PROVE
                 /\ DOMAIN m_participant = ToSet(list)
                 /\ m_participanter - first.participants = Len(list)
                 /\ m_subscriber - first.subscribers = Cardinality(KnownReaders)
    BY DEF RegistryIsList
  <2>1. Known = Present
    BY DEF Known, Present
  <2>2. Cardinality(Known) \in Nat /\ Cardinality(KnownReaders) \in Nat
    BY FS_CardinalityType DEF NamesInv, CountInv
  <2> QED
    BY <2>1, <2>2 DEF NamesInv, NamesTypes, ListInv, MapInv, CountInv
<1> QED
  BY <1>1, NamesInvInit, NamesInvInductive, PTL DEF NamesSpec

(* A loss prints the name the discovery printed, at every loss.            *)
THEOREM LossPrintsDiscovered == NamesSpec => LossNamesDiscovery
<1>1. NamesInv /\ [NamesNext]_namesVars
        => [lost' # lost => lost'.name = printed[lost'.guid]]_namesVars
  <2> SUFFICES ASSUME NamesInv, NamesNext, lost' # lost
               PROVE  lost'.name = printed[lost'.guid]
    OBVIOUS
  <2>1. PICK g \in Participants : ParticipantLost(g)
    BY DEF NamesNext, Come, Go, ReaderComes, ReaderGoes, ParticipantDiscovered,
           SubscriberDiscovered, SubscriberLost, listener
  <2>2. lost' = [guid |-> g, name |-> NameOf(g)] /\ g \in Known
    BY <2>1 DEF ParticipantLost, Known
  <2>3. NameOf(g) = printed[g]
    BY <2>2 DEF NameOf, NamesInv, MapInv
  <2> QED
    BY <2>2, <2>3
<1> QED
  BY <1>1, NamesInvInit, NamesInvInductive, PTL DEF NamesSpec, LossNamesDiscovery

-----------------------------------------------------------------------------
(* BigDateTCP.                                                             *)

\* Every byte is received, on its way, or lost by a reset.
BytesInv ==
    /\ received + wire <= sent
    /\ ~reset => received + wire = sent

SenderInv ==
    /\ spc \in {"start", "exited", "sending"} => sverdict = "none"
    /\ sverdict # "none" => sverdict = Verdict(sent)

ReceiverInv ==
    /\ rpc # "closed" => rverdict = "none"
    /\ rverdict # "none" => rverdict = Verdict(received)

IInv == TypeOK /\ BytesInv /\ SenderInv /\ ReceiverInv /\ EndOfFileIsTruthful

LEMMA InitIInv == TcpInit => IInv
  <1> SUFFICES ASSUME TcpInit PROVE IInv
    OBVIOUS
  <1>1. sent \in 0..Total /\ received \in 0..Total /\ wire \in 0..Total
    BY TotalAssumption DEF TcpInit
  <1>2. TypeOK
    BY <1>1 DEF TcpInit, TypeOK, Verdicts
  <1>3. BytesInv
    BY DEF TcpInit, BytesInv
  <1>4. SenderInv /\ ReceiverInv /\ EndOfFileIsTruthful
    BY DEF TcpInit, SenderInv, ReceiverInv, EndOfFileIsTruthful
  <1>5. QED
    BY <1>2, <1>3, <1>4 DEF IInv

LEMMA NextIInv == IInv /\ [TcpNext]_tcpVars => IInv'
  <1> SUFFICES ASSUME IInv, [TcpNext]_tcpVars PROVE IInv'
    OBVIOUS
  <1> USE TotalAssumption, BufferSizeAssumption
      DEF IInv, TypeOK, BytesInv, SenderInv, ReceiverInv, EndOfFileIsTruthful,
          Verdicts, Verdict, senderVars, receiverVars
  <1>1. CASE ConnectFails
    BY <1>1 DEF ConnectFails
  <1>2. CASE Connect
    BY <1>2 DEF Connect
  <1>3. CASE Send
    <2>1. PICK n \in 1..BufferSize :
             n <= Total - sent /\ sent' = sent + n /\ wire' = wire + n
      BY <1>3 DEF Send, Sendable
    <2>2. /\ spc = "sending" /\ ~reset
          /\ UNCHANGED <<spc, sverdict, rpc, received, rverdict, reset>>
      BY <1>3 DEF Send
    <2>3. TypeOK' /\ BytesInv'
      BY <2>1, <2>2
    <2>4. SenderInv' /\ ReceiverInv' /\ EndOfFileIsTruthful'
      BY <2>1, <2>2
    <2>5. QED
      BY <2>3, <2>4
  <1>4. CASE SenderReport
    BY <1>4 DEF SenderReport
  <1>5. CASE SenderKilled
    BY <1>5 DEF SenderKilled
  <1>6. CASE CloseSender
    BY <1>6 DEF CloseSender
  <1>7. CASE Listen \/ ListenFails
    BY <1>7 DEF Listen, ListenFails
  <1>8. CASE Accept
    BY <1>8 DEF Accept
  <1>9. CASE Read
    <2>1. PICK n \in 1..BufferSize :
             n <= wire /\ received' = received + n /\ wire' = wire - n
      BY <1>9 DEF Read, Readable
    <2>2. rpc = "reading" /\ UNCHANGED <<spc, sent, sverdict, rpc, rverdict, reset>>
      BY <1>9 DEF Read
    <2>3. TypeOK' /\ BytesInv'
      BY <2>1, <2>2
    <2>4. SenderInv' /\ ReceiverInv' /\ EndOfFileIsTruthful'
      BY <2>1, <2>2
    <2>5. QED
      BY <2>3, <2>4
  <1>10. CASE ReadAll
    BY <1>10 DEF ReadAll
  <1>11. CASE ReadEnd
    BY <1>11 DEF ReadEnd, AtEnd
  <1>12. CASE ReadError
    BY <1>12 DEF ReadError
  <1>13. CASE ReceiverReport
    BY <1>13 DEF ReceiverReport
  <1>14. CASE Reset
    <2>1. /\ spc \notin {"start", "exited"} /\ ~reset /\ reset' = TRUE
          /\ wire' \in 0..wire /\ UNCHANGED <<spc, sent, sverdict>>
          /\ UNCHANGED <<rpc, received, rverdict>>
      BY <1>14 DEF Reset
    <2>2. PICK w \in 0..wire : wire' = w
      BY <2>1
    <2>3. w \in 0..Total
      BY <2>2
    <2>4. received + w <= sent
      BY <2>2
    <2>5. TypeOK'
      BY <2>1, <2>2, <2>3
    <2>6. BytesInv'
      BY <2>1, <2>2, <2>4
    <2>7. SenderInv' /\ ReceiverInv' /\ EndOfFileIsTruthful'
      BY <2>1
    <2>8. QED
      BY <2>5, <2>6, <2>7
  <1>15. CASE UNCHANGED tcpVars
    BY <1>15 DEF tcpVars
  <1>16. QED
    BY <1>1, <1>2, <1>3, <1>4, <1>5, <1>6, <1>7, <1>8, <1>9, <1>10, <1>11,
       <1>12, <1>13, <1>14, <1>15
    DEF TcpNext, SenderStep, ReceiverStep

\* Type correctness: neither count ever passes Total.
THEOREM TypeCorrect == TcpSpec => []TypeOK
  <1>1. IInv => TypeOK
    BY DEF IInv
  <1>2. QED
    BY <1>1, InitIInv, NextIInv, PTL DEF TcpSpec

\* The receiver's success means that the sender has sent everything.
THEOREM SuccessMeansComplete == TcpSpec => []SuccessIsComplete
  <1>1. IInv => SuccessIsComplete
    BY TotalAssumption
    DEF IInv, TypeOK, BytesInv, SenderInv, ReceiverInv, SuccessIsComplete,
        Verdict, Verdicts
  <1>2. QED
    BY <1>1, InitIInv, NextIInv, PTL DEF TcpSpec

\* "Sender closed connection before sending 1GB." is true when it is printed.
THEOREM EndOfFileMeansTooFew == TcpSpec => []EndOfFileIsTruthful
  <1>1. IInv => EndOfFileIsTruthful
    BY DEF IInv
  <1>2. QED
    BY <1>1, InitIInv, NextIInv, PTL DEF TcpSpec

-----------------------------------------------------------------------------
(* The refinement: Send and Read move bytes, the two reports are the        *)
(* verdicts, and everything else stutters.                                  *)

LEMMA StepRefines == IInv /\ [TcpNext]_tcpVars => [Abstract!Next]_(Abstract!vars)
  <1> SUFFICES ASSUME IInv, [TcpNext]_tcpVars PROVE [Abstract!Next]_(Abstract!vars)
    OBVIOUS
  <1> USE TotalAssumption, BufferSizeAssumption DEF IInv, TypeOK
  <1>1. CASE Send
    <2>1. PICK n \in 1..BufferSize : n <= Total - sent /\ sent' = sent + n
      BY <1>1 DEF Send, Sendable
    <2>2. sverdict = "none" /\ UNCHANGED <<received, sverdict, rverdict>>
      BY <1>1 DEF Send, SenderInv, receiverVars
    <2>3. Abstract!Send
      BY <2>1, <2>2 DEF Abstract!Send
    <2>4. QED
      BY <2>3 DEF Abstract!Next
  <1>2. CASE Read
    <2>1. PICK n \in 1..BufferSize : n <= wire /\ received' = received + n
      BY <1>2 DEF Read, Readable
    <2>2. rverdict = "none" /\ UNCHANGED <<sent, sverdict, rverdict>>
      BY <1>2 DEF Read, ReceiverInv, senderVars
    <2>3. Abstract!Receive
      BY <2>1, <2>2 DEF Abstract!Receive, BytesInv
    <2>4. QED
      BY <2>3 DEF Abstract!Next
  <1>3. CASE SenderReport
    <2>1. Abstract!SenderReports
      BY <1>3 DEF SenderReport, SenderInv, receiverVars, Verdict,
         Abstract!SenderReports, Abstract!Verdict
    <2>2. QED
      BY <2>1 DEF Abstract!Next
  <1>4. CASE ReceiverReport
    <2>1. Abstract!ReceiverReports
      BY <1>4 DEF ReceiverReport, ReceiverInv, senderVars, Verdict,
         Abstract!ReceiverReports, Abstract!Verdict
    <2>2. QED
      BY <2>1 DEF Abstract!Next
  <1>5. CASE \/ ConnectFails \/ Connect \/ SenderKilled \/ CloseSender \/ Listen
             \/ ListenFails \/ Accept \/ ReadAll \/ ReadEnd \/ ReadError \/ Reset
             \/ UNCHANGED tcpVars
    <2>1. UNCHANGED <<sent, received, sverdict, rverdict>>
      BY <1>5 DEF ConnectFails, Connect, SenderKilled, CloseSender, Listen,
         ListenFails, Accept, ReadAll, ReadEnd, ReadError, Reset, tcpVars, senderVars,
         receiverVars
    <2>2. QED
      BY <2>1 DEF Abstract!vars
  <1>6. QED
    BY <1>1, <1>2, <1>3, <1>4, <1>5 DEF TcpNext, SenderStep, ReceiverStep

\* The pair implements ByteTransfer, for any Total and any buffer.
THEOREM TransferImplementsAbstract == TcpSpec => ImplementsByteTransfer
  <1>1. TcpInit => Abstract!Init
    BY DEF TcpInit, Abstract!Init
  <1>2. QED
    BY <1>1, InitIInv, NextIInv, StepRefines, PTL
    DEF TcpSpec, ImplementsByteTransfer, Abstract!Spec
=============================================================================
