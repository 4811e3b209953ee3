------------------------- MODULE ReplyServerProofs -------------------------
(***************************************************************************)
(* For any number of clients, servers, retries and slots: ReplyServer      *)
(* implements CallOnce, and no server answers more requests than it has    *)
(* participant slots.                                                      *)
(***************************************************************************)
EXTENDS ReplyServer, FiniteSetTheorems, TLAPS

-----------------------------------------------------------------------------
(* The inductive invariant: where a request is.  It is on the wire, or in  *)
(* the hands of the server, or answered, never two of these; an answer on  *)
(* its way has not been printed.                                           *)

RequestInv ==
    \A s \in Servers, r \in Clients : <<s, r>> \in wire =>
        cpc[r] # "matching" /\ sent[<<s, r>>] = 0 /\ serving[s] # r

ServingInv ==
    \A s \in Servers :
        /\ spc[s] = "idle" => serving[s] = NoClient
        /\ spc[s] # "idle" =>
              serving[s] \in Clients /\ cpc[serving[s]] # "matching"
        /\ spc[s] \in {"init", "waiting", "deciding"} =>
              sent[<<s, serving[s]>>] = 0
        /\ spc[s] \in {"idle", "init"} => ~hasWriter[s] /\ match[s] = {}
        /\ match[s] # {} => hasWriter[s]
        /\ \A c \in match[s] : cpc[c] = "listening"
        /\ spc[s] # "idle" /\ sent[<<s, serving[s]>>] > 0 => hasWriter[s]

AnswerInv ==
    /\ \A s \in Servers, r \in Clients : sent[<<s, r>>] > 0 =>
          cpc[r] # "matching"
    /\ \A w \in Writers, c \in Clients :
          /\ <<w, c>> \in net =>
                sent[w] = 1 /\ got[c][w] = 0 /\ cpc[c] = "listening"
          /\ got[c][w] > 0 => sent[w] = 1 /\ cpc[c] = "listening"

SlotInv ==
    \A s \in Servers :
        /\ IsFiniteSet(held[s]) /\ Cardinality(held[s]) <= Slots
        /\ hasWriter[s] => serving[s] \in held[s]
        /\ \A r \in Clients : sent[<<s, r>>] > 0 => r \in held[s]

IInv == TypeOK /\ RequestInv /\ ServingInv /\ AnswerInv /\ SlotInv

LEMMA OneMore ==
    ASSUME NEW S, IsFiniteSet(S), Cardinality(S) < Slots, NEW x
    PROVE  IsFiniteSet(S \cup {x}) /\ Cardinality(S \cup {x}) <= Slots
  <1>1. Cardinality(S) \in Nat
    BY FS_CardinalityType
  <1>2. /\ IsFiniteSet(S \cup {x})
        /\ Cardinality(S \cup {x}) =
              IF x \in S THEN Cardinality(S) ELSE Cardinality(S) + 1
    BY FS_AddElement
  <1>3. QED
    BY <1>1, <1>2, BoundsAssumption

LEMMA NoMore ==
    ASSUME NEW S, IsFiniteSet(S), Cardinality(S) <= Slots, NEW T \in SUBSET S
    PROVE  IsFiniteSet(T) /\ Cardinality(T) <= Slots
  <1>1. Cardinality(S) \in Nat /\ Cardinality(T) \in Nat
    BY FS_CardinalityType, FS_Subset
  <1>2. IsFiniteSet(T) /\ Cardinality(T) <= Cardinality(S)
    BY FS_Subset
  <1>3. QED
    BY <1>1, <1>2, BoundsAssumption

LEMMA InitIInv == Init => IInv
  BY FS_EmptySet, BoundsAssumption
  DEF Init, IInv, TypeOK, RequestInv, ServingInv, AnswerInv, SlotInv, Writers

LEMMA NextIInv == IInv /\ [Next]_vars => IInv'
  <1> SUFFICES ASSUME IInv, [Next]_vars PROVE IInv'
    OBVIOUS
  <1> USE NoClientAssumption, BoundsAssumption
  <1>1. ASSUME NEW c \in Clients, NEW s \in Servers, MatchRequest(c, s)
        PROVE  IInv'
    <2>1. TypeOK'
      BY <1>1 DEF MatchRequest, IInv, TypeOK, Writers, clientVars, serverVars
    <2>2. RequestInv'
      BY <1>1 DEF MatchRequest, IInv, TypeOK, RequestInv, clientVars, serverVars
    <2>3. ServingInv'
      BY <1>1 DEF MatchRequest, IInv, TypeOK, ServingInv, clientVars, serverVars
    <2>4. AnswerInv'
      BY <1>1 DEF MatchRequest, IInv, TypeOK, AnswerInv, clientVars, serverVars
    <2>5. SlotInv'
      BY <1>1 DEF MatchRequest, IInv, TypeOK, SlotInv, clientVars, serverVars
    <2>6. QED
      BY <2>1, <2>2, <2>3, <2>4, <2>5 DEF IInv
  <1>2. ASSUME NEW c \in Clients, SendRequest(c)
        PROVE  IInv'
    <2>1. TypeOK'
      <3>1. wire' \subseteq Writers
        BY <1>2 DEF SendRequest, IInv, TypeOK, Writers
      <3>2. cpc' \in [Clients -> {"matching", "subscribing", "listening"}]
        BY <1>2 DEF SendRequest, IInv, TypeOK
      <3>3. QED
        BY <1>2, <3>1, <3>2 DEF SendRequest, IInv, TypeOK, serverVars
    <2>2. RequestInv'
      BY <1>2 DEF SendRequest, IInv, TypeOK, RequestInv, ServingInv, AnswerInv, SlotInv, Writers, clientVars, serverVars
    <2>3. ServingInv'
      BY <1>2 DEF SendRequest, IInv, TypeOK, RequestInv, ServingInv, AnswerInv, SlotInv, Writers, clientVars, serverVars
    <2>4. AnswerInv'
      BY <1>2 DEF SendRequest, IInv, TypeOK, RequestInv, ServingInv, AnswerInv, SlotInv, Writers, clientVars, serverVars
    <2>5. SlotInv'
      BY <1>2 DEF SendRequest, IInv, TypeOK, SlotInv, clientVars, serverVars
    <2>6. QED
      BY <2>1, <2>2, <2>3, <2>4, <2>5 DEF IInv
  <1>3. ASSUME NEW c \in Clients, Subscribe(c)
        PROVE  IInv'
    <2>1. TypeOK'
      BY <1>3 DEF Subscribe, IInv, TypeOK, Writers, clientVars, serverVars
    <2>2. RequestInv'
      BY <1>3 DEF Subscribe, IInv, TypeOK, RequestInv, ServingInv, AnswerInv, SlotInv, Writers, clientVars, serverVars
    <2>3. ServingInv'
      BY <1>3 DEF Subscribe, IInv, TypeOK, RequestInv, ServingInv, AnswerInv, SlotInv, Writers, clientVars, serverVars
    <2>4. AnswerInv'
      BY <1>3 DEF Subscribe, IInv, TypeOK, RequestInv, ServingInv, AnswerInv, SlotInv, Writers, clientVars, serverVars
    <2>5. SlotInv'
      BY <1>3 DEF Subscribe, IInv, TypeOK, SlotInv, clientVars, serverVars
    <2>6. QED
      BY <2>1, <2>2, <2>3, <2>4, <2>5 DEF IInv
  <1>4. ASSUME NEW c \in Clients, Exit(c)
        PROVE  IInv'
    <2>1. TypeOK'
      BY <1>4 DEF Exit, IInv, TypeOK, Writers, clientVars, serverVars
    <2>2. RequestInv'
      BY <1>4 DEF Exit, IInv, TypeOK, RequestInv, clientVars, serverVars
    <2>3. ServingInv'
      BY <1>4 DEF Exit, IInv, TypeOK, ServingInv, clientVars, serverVars
    <2>4. AnswerInv'
      BY <1>4 DEF Exit, IInv, TypeOK, AnswerInv, clientVars, serverVars
    <2>5. SlotInv'
      BY <1>4 DEF Exit, IInv, TypeOK, SlotInv, clientVars, serverVars
    <2>6. QED
      BY <2>1, <2>2, <2>3, <2>4, <2>5 DEF IInv
  <1>5. ASSUME NEW s \in Servers, NEW r \in Clients, Receive(s, r)
        PROVE  IInv'
    <2>1. TypeOK'
      BY <1>5 DEF Receive, Taken, IInv, TypeOK, Writers, clientVars, serverVars
    <2>2. RequestInv'
      BY <1>5 DEF Receive, Taken, IInv, TypeOK, RequestInv, ServingInv, AnswerInv, SlotInv, Writers, clientVars, serverVars
    <2>3. ServingInv'
      <3>1. /\ sent[<<s, r>>] = 0 /\ cpc[r] # "matching"
            /\ ~hasWriter[s] /\ match[s] = {}
        BY <1>5 DEF Receive, IInv, RequestInv, ServingInv
      <3>2. /\ spc' = [spc EXCEPT ![s] = "init"]
            /\ serving' = [serving EXCEPT ![s] = r]
            /\ UNCHANGED <<cpc, hasWriter, match, sent>>
        BY <1>5 DEF Receive, clientVars
      <3>3. /\ spc \in [Servers -> {"idle", "init", "waiting", "deciding",
                                    "destroying", "crashed"}]
            /\ serving \in [Servers -> Clients \cup {NoClient}]
            /\ ServingInv
        BY DEF IInv, TypeOK
      <3>4. QED
        BY <3>1, <3>2, <3>3 DEF ServingInv
    <2>4. AnswerInv'
      BY <1>5 DEF Receive, IInv, AnswerInv, clientVars
    <2>5. SlotInv'
      <3>1. /\ serving' = [serving EXCEPT ![s] = r] /\ ~hasWriter[s]
            /\ UNCHANGED <<hasWriter, held, sent>>
        BY <1>5 DEF Receive, IInv, ServingInv
      <3>2. serving \in [Servers -> Clients \cup {NoClient}] /\ SlotInv
        BY DEF IInv, TypeOK
      <3>3. QED
        BY <3>1, <3>2 DEF SlotInv
    <2>6. QED
      BY <2>1, <2>2, <2>3, <2>4, <2>5 DEF IInv
  <1>6. ASSUME NEW s \in Servers, InitPublisher(s)
        PROVE  IInv'
    <2>0. serving[s] \in Clients
      BY <1>6 DEF InitPublisher, IInv, ServingInv
    <2>1. TypeOK'
      <3>1. spc' \in [Servers -> {"idle", "init", "waiting", "deciding",
                                  "destroying", "crashed"}]
        BY <1>6 DEF InitPublisher, IInv, TypeOK
      <3>2. held' \in [Servers -> SUBSET Clients]
        BY <1>6, <2>0 DEF InitPublisher, IInv, TypeOK
      <3>3. hasWriter' \in [Servers -> BOOLEAN]
        BY <1>6 DEF InitPublisher, IInv, TypeOK
      <3>4. QED
        BY <1>6, <3>1, <3>2, <3>3 DEF InitPublisher, IInv, TypeOK, clientVars
    <2>2. RequestInv'
      BY <1>6 DEF InitPublisher, IInv, TypeOK, RequestInv, ServingInv, AnswerInv, SlotInv, Writers, clientVars, serverVars
    <2>3. ServingInv'
      BY <1>6 DEF InitPublisher, IInv, TypeOK, RequestInv, ServingInv, AnswerInv, SlotInv, Writers, clientVars, serverVars
    <2>4. AnswerInv'
      BY <1>6 DEF InitPublisher, IInv, TypeOK, RequestInv, ServingInv, AnswerInv, SlotInv, Writers, clientVars, serverVars
    <2>5. SlotInv'
      <3>1. /\ serving' = serving /\ sent' = sent /\ serving[s] \in Clients
            /\ ~hasWriter[s]
        BY <1>6 DEF InitPublisher, IInv, ServingInv
      <3>2. CASE UNCHANGED <<hasWriter, held>>
        BY <3>1, <3>2 DEF IInv, SlotInv
      <3>3. CASE /\ Cardinality(held[s]) < Slots
                 /\ held' = [held EXCEPT ![s] = @ \cup {serving[s]}]
                 /\ hasWriter' \in {[hasWriter EXCEPT ![s] = b] : b \in BOOLEAN}
        <4>1. /\ IsFiniteSet(held[s] \cup {serving[s]})
              /\ Cardinality(held[s] \cup {serving[s]}) <= Slots
          BY <3>3, OneMore DEF IInv, SlotInv
        <4>2. QED
          BY <3>1, <3>3, <4>1 DEF IInv, TypeOK, SlotInv
      <3>4. QED
        BY <1>6, <3>2, <3>3 DEF InitPublisher
    <2>6. QED
      BY <2>1, <2>2, <2>3, <2>4, <2>5 DEF IInv
  <1>7. ASSUME NEW s \in Servers, Wait(s)
        PROVE  IInv'
    <2>1. TypeOK'
      BY <1>7 DEF Wait, MayRetry, IInv, TypeOK, Writers, clientVars, serverVars
    <2>2. RequestInv'
      BY <1>7 DEF Wait, MayRetry, IInv, TypeOK, RequestInv, clientVars, serverVars
    <2>3. ServingInv'
      BY <1>7 DEF Wait, MayRetry, IInv, TypeOK, RequestInv, ServingInv, AnswerInv, SlotInv, Writers, clientVars, serverVars
    <2>4. AnswerInv'
      BY <1>7 DEF Wait, MayRetry, IInv, TypeOK, AnswerInv, clientVars, serverVars
    <2>5. SlotInv'
      BY <1>7 DEF Wait, MayRetry, IInv, TypeOK, SlotInv, clientVars, serverVars
    <2>6. QED
      BY <2>1, <2>2, <2>3, <2>4, <2>5 DEF IInv
  <1>8. ASSUME NEW s \in Servers, WaitOver(s)
        PROVE  IInv'
    <2>1. TypeOK'
      BY <1>8 DEF WaitOver, IInv, TypeOK, Writers, clientVars, serverVars
    <2>2. RequestInv'
      BY <1>8 DEF WaitOver, IInv, TypeOK, RequestInv, clientVars, serverVars
    <2>3. ServingInv'
      BY <1>8 DEF WaitOver, IInv, TypeOK, RequestInv, ServingInv, AnswerInv, SlotInv, Writers, clientVars, serverVars
    <2>4. AnswerInv'
      BY <1>8 DEF WaitOver, IInv, TypeOK, AnswerInv, clientVars, serverVars
    <2>5. SlotInv'
      BY <1>8 DEF WaitOver, IInv, TypeOK, RequestInv, ServingInv, AnswerInv, SlotInv, Writers, clientVars, serverVars
    <2>6. QED
      BY <2>1, <2>2, <2>3, <2>4, <2>5 DEF IInv
  <1>9. ASSUME NEW s \in Servers, Decide(s)
        PROVE  IInv'
    <2>0. /\ serving[s] \in Clients /\ <<s, serving[s]>> \in Writers
          /\ sent[<<s, serving[s]>>] = 0 /\ cpc[serving[s]] # "matching"
          /\ \A c \in match[s] : c \in Clients /\ cpc[c] = "listening"
      BY <1>9 DEF Decide, IInv, TypeOK, ServingInv, Writers
    <2>1. TypeOK'
      <3>1. sent' \in [Writers -> Nat]
        <4>1. sent \in [Writers -> Nat]
          BY DEF IInv, TypeOK
        <4>2. CASE sent' = [sent EXCEPT ![<<s, serving[s]>>] = @ + 1]
          BY <2>0, <4>1, <4>2
        <4>3. QED
          BY <1>9, <4>1, <4>2 DEF Decide
      <3>2. net' \subseteq Writers \X Clients
        <4>1. net \subseteq Writers \X Clients
          BY DEF IInv, TypeOK
        <4>2. {<<<<s, serving[s]>>, c>> : c \in match[s]} \subseteq
                 Writers \X Clients
          BY <2>0
        <4>3. QED
          BY <1>9, <4>1, <4>2 DEF Decide
      <3>3. spc' \in [Servers -> {"idle", "init", "waiting", "deciding",
                                  "destroying", "crashed"}]
        BY <1>9 DEF Decide, IInv, TypeOK
      <3>4. QED
        BY <1>9, <3>1, <3>2, <3>3 DEF Decide, IInv, TypeOK, clientVars
    <2>2. RequestInv'
      BY <1>9 DEF Decide, IInv, TypeOK, RequestInv, ServingInv, AnswerInv, SlotInv, Writers, clientVars, serverVars
    <2>3. ServingInv'
      BY <1>9 DEF Decide, IInv, TypeOK, RequestInv, ServingInv, AnswerInv, SlotInv, Writers, clientVars, serverVars
    <2>4. AnswerInv'
      <3> DEFINE w == <<s, serving[s]>>
      <3>0. w \in Writers /\ sent[w] = 0
        BY <2>0
      <3>a. ASSUME NEW c \in Clients PROVE got[c][w] = 0
        <4>1. ~(got[c][w] > 0)
          <5> HIDE DEF w
          <5>1. got[c][w] > 0 => sent[w] = 1
            BY <3>0 DEF IInv, AnswerInv
          <5>2. QED
            BY <3>0, <5>1
        <4>2. got[c][w] \in Nat
          BY <3>0 DEF IInv, TypeOK
        <4>3. QED
          BY <4>1, <4>2
      <3>1. CASE sent' = [sent EXCEPT ![w] = @ + 1]
                 /\ net' = net \cup {<<w, c>> : c \in match[s]}
        <4>1. /\ sent \in [Writers -> Nat] /\ sent'[w] = 1
              /\ \A v \in Writers \ {w} : sent'[v] = sent[v]
          BY <2>0, <3>1 DEF IInv, TypeOK
        <4>2. UNCHANGED <<cpc, got>>
          BY <1>9 DEF Decide, clientVars
        <4>3. \A c \in Clients : got[c][w] = 0
          BY <3>a
        <4>4. \A r \in Clients, q \in Servers : <<q, r>> \in Writers
          BY DEF Writers
        <4>5. \A r \in Clients, q \in Servers :
                 sent'[<<q, r>>] > 0 => cpc'[r] # "matching"
          BY <2>0, <4>1, <4>2, <4>4 DEF IInv, AnswerInv
        <4>6. ASSUME NEW v \in Writers, NEW c \in Clients
              PROVE  /\ <<v, c>> \in net' => sent'[v] = 1 /\ got'[c][v] = 0
                                             /\ cpc'[c] = "listening"
                     /\ got'[c][v] > 0 => sent'[v] = 1 /\ cpc'[c] = "listening"
          <5>1. CASE v = w
            BY <2>0, <3>1, <4>1, <4>2, <4>3, <5>1 DEF IInv, AnswerInv
          <5>2. CASE v # w
            BY <3>1, <4>1, <4>2, <5>2 DEF IInv, AnswerInv
          <5>3. QED
            BY <5>1, <5>2
        <4>7. QED
          BY <4>5, <4>6 DEF AnswerInv
      <3>2. CASE UNCHANGED <<sent, net>>
        BY <1>9, <3>2 DEF Decide, IInv, AnswerInv, clientVars
      <3>3. QED
        BY <1>9, <3>1, <3>2 DEF Decide
    <2>5. SlotInv'
      BY <1>9 DEF Decide, IInv, TypeOK, RequestInv, ServingInv, AnswerInv, SlotInv, Writers, clientVars, serverVars
    <2>6. QED
      BY <2>1, <2>2, <2>3, <2>4, <2>5 DEF IInv
  <1>10. ASSUME NEW s \in Servers, DestroyPublisher(s)
        PROVE  IInv'
    <2>1. TypeOK'
      BY <1>10 DEF DestroyPublisher, HeldAfter, IInv, TypeOK, Writers, clientVars, serverVars
    <2>2. RequestInv'
      BY <1>10 DEF DestroyPublisher, HeldAfter, IInv, TypeOK, RequestInv, ServingInv, AnswerInv, SlotInv, Writers, clientVars, serverVars
    <2>3. ServingInv'
      BY <1>10 DEF DestroyPublisher, HeldAfter, IInv, TypeOK, RequestInv, ServingInv, AnswerInv, SlotInv, Writers, clientVars, serverVars
    <2>4. AnswerInv'
      BY <1>10 DEF DestroyPublisher, HeldAfter, IInv, TypeOK, RequestInv, ServingInv, AnswerInv, SlotInv, Writers, clientVars, serverVars
    <2>5. SlotInv'
      <3>1. /\ sent' = sent /\ hasWriter' = [hasWriter EXCEPT ![s] = FALSE]
            /\ serving' = [serving EXCEPT ![s] = NoClient]
            /\ held' = IF hasWriter[s] THEN held
                       ELSE [held EXCEPT ![s] = @ \ {serving[s]}]
        BY <1>10 DEF DestroyPublisher, HeldAfter
      <3>0. ~hasWriter[s] => ~(sent[<<s, serving[s]>>] > 0)
        BY <1>10 DEF DestroyPublisher, IInv, ServingInv
      <3>2. /\ IsFiniteSet(held[s] \ {serving[s]})
            /\ Cardinality(held[s] \ {serving[s]}) <= Slots
        BY NoMore DEF IInv, SlotInv
      <3>3. QED
        BY <3>0, <3>1, <3>2 DEF IInv, TypeOK, SlotInv
    <2>6. QED
      BY <2>1, <2>2, <2>3, <2>4, <2>5 DEF IInv
  <1>11. ASSUME NEW s \in Servers, NEW c \in Clients, MatchReply(s, c)
        PROVE  IInv'
    <2>1. TypeOK'
      BY <1>11 DEF MatchReply, IInv, TypeOK, Writers, clientVars, serverVars
    <2>2. RequestInv'
      BY <1>11 DEF MatchReply, IInv, TypeOK, RequestInv, clientVars, serverVars
    <2>3. ServingInv'
      BY <1>11 DEF MatchReply, IInv, TypeOK, RequestInv, ServingInv, AnswerInv, SlotInv, Writers, clientVars, serverVars
    <2>4. AnswerInv'
      BY <1>11 DEF MatchReply, IInv, TypeOK, AnswerInv, clientVars, serverVars
    <2>5. SlotInv'
      BY <1>11 DEF MatchReply, IInv, TypeOK, SlotInv, clientVars, serverVars
    <2>6. QED
      BY <2>1, <2>2, <2>3, <2>4, <2>5 DEF IInv
  <1>12. ASSUME NEW s \in Servers, NEW c \in Clients, UnmatchReply(s, c)
        PROVE  IInv'
    <2>1. TypeOK'
      BY <1>12 DEF UnmatchReply, IInv, TypeOK, Writers, clientVars, serverVars
    <2>2. RequestInv'
      BY <1>12 DEF UnmatchReply, IInv, TypeOK, RequestInv, clientVars, serverVars
    <2>3. ServingInv'
      BY <1>12 DEF UnmatchReply, IInv, TypeOK, RequestInv, ServingInv, AnswerInv, SlotInv, Writers, clientVars, serverVars
    <2>4. AnswerInv'
      BY <1>12 DEF UnmatchReply, IInv, TypeOK, AnswerInv, clientVars, serverVars
    <2>5. SlotInv'
      BY <1>12 DEF UnmatchReply, IInv, TypeOK, SlotInv, clientVars, serverVars
    <2>6. QED
      BY <2>1, <2>2, <2>3, <2>4, <2>5 DEF IInv
  <1>13. ASSUME NEW c \in Clients, NEW s \in Servers, KnowWriter(c, s)
        PROVE  IInv'
    <2>1. TypeOK'
      <3>1. serving[s] \in Clients /\ <<s, serving[s]>> \in Writers
        BY <1>13 DEF KnowWriter, IInv, ServingInv, Writers
      <3>2. known' \in [Clients -> SUBSET Writers]
        BY <1>13, <3>1 DEF KnowWriter, IInv, TypeOK
      <3>3. QED
        BY <1>13, <3>2 DEF KnowWriter, IInv, TypeOK, clientVars, serverVars
    <2>2. RequestInv'
      BY <1>13 DEF KnowWriter, IInv, TypeOK, RequestInv, clientVars, serverVars
    <2>3. ServingInv'
      BY <1>13 DEF KnowWriter, IInv, TypeOK, ServingInv, clientVars, serverVars
    <2>4. AnswerInv'
      BY <1>13 DEF KnowWriter, IInv, TypeOK, AnswerInv, clientVars, serverVars
    <2>5. SlotInv'
      BY <1>13 DEF KnowWriter, IInv, TypeOK, SlotInv, clientVars, serverVars
    <2>6. QED
      BY <2>1, <2>2, <2>3, <2>4, <2>5 DEF IInv
  <1>14. ASSUME NEW c \in Clients, NEW w \in Writers, ForgetWriter(c, w)
        PROVE  IInv'
    <2>1. TypeOK'
      BY <1>14 DEF ForgetWriter, IInv, TypeOK, Writers, clientVars, serverVars
    <2>2. RequestInv'
      BY <1>14 DEF ForgetWriter, IInv, TypeOK, RequestInv, clientVars, serverVars
    <2>3. ServingInv'
      BY <1>14 DEF ForgetWriter, IInv, TypeOK, ServingInv, clientVars, serverVars
    <2>4. AnswerInv'
      BY <1>14 DEF ForgetWriter, IInv, TypeOK, AnswerInv, clientVars, serverVars
    <2>5. SlotInv'
      BY <1>14 DEF ForgetWriter, IInv, TypeOK, SlotInv, clientVars, serverVars
    <2>6. QED
      BY <2>1, <2>2, <2>3, <2>4, <2>5 DEF IInv
  <1>15. ASSUME NEW c \in Clients, NEW w \in Writers, Deliver(c, w)
        PROVE  IInv'
    <2>1. TypeOK'
      <3>1. got' \in [Clients -> [Writers -> Nat]]
        BY <1>15 DEF Deliver, IInv, TypeOK
      <3>2. QED
        BY <1>15, <3>1 DEF Deliver, IInv, TypeOK, clientVars, serverVars
    <2>2. RequestInv'
      BY <1>15 DEF Deliver, IInv, TypeOK, RequestInv, clientVars, serverVars
    <2>3. ServingInv'
      BY <1>15 DEF Deliver, IInv, TypeOK, ServingInv, clientVars, serverVars
    <2>4. AnswerInv'
      BY <1>15 DEF Deliver, IInv, TypeOK, RequestInv, ServingInv, AnswerInv, SlotInv, Writers, clientVars, serverVars
    <2>5. SlotInv'
      BY <1>15 DEF Deliver, IInv, TypeOK, SlotInv, clientVars, serverVars
    <2>6. QED
      BY <2>1, <2>2, <2>3, <2>4, <2>5 DEF IInv
  <1>16. ASSUME NEW m \in wire, LoseRequest(m)
        PROVE  IInv'
    <2>1. TypeOK'
      BY <1>16 DEF LoseRequest, IInv, TypeOK, Writers, clientVars, serverVars
    <2>2. RequestInv'
      BY <1>16 DEF LoseRequest, IInv, TypeOK, RequestInv, ServingInv, AnswerInv, SlotInv, Writers, clientVars, serverVars
    <2>3. ServingInv'
      BY <1>16 DEF LoseRequest, IInv, TypeOK, ServingInv, clientVars, serverVars
    <2>4. AnswerInv'
      BY <1>16 DEF LoseRequest, IInv, TypeOK, AnswerInv, clientVars, serverVars
    <2>5. SlotInv'
      BY <1>16 DEF LoseRequest, IInv, TypeOK, SlotInv, clientVars, serverVars
    <2>6. QED
      BY <2>1, <2>2, <2>3, <2>4, <2>5 DEF IInv
  <1>17. ASSUME NEW m \in net, LoseAnswer(m)
        PROVE  IInv'
    <2>1. TypeOK'
      BY <1>17 DEF LoseAnswer, IInv, TypeOK, Writers, clientVars, serverVars
    <2>2. RequestInv'
      BY <1>17 DEF LoseAnswer, IInv, TypeOK, RequestInv, clientVars, serverVars
    <2>3. ServingInv'
      BY <1>17 DEF LoseAnswer, IInv, TypeOK, ServingInv, clientVars, serverVars
    <2>4. AnswerInv'
      BY <1>17 DEF LoseAnswer, IInv, TypeOK, RequestInv, ServingInv, AnswerInv, SlotInv, Writers, clientVars, serverVars
    <2>5. SlotInv'
      BY <1>17 DEF LoseAnswer, IInv, TypeOK, SlotInv, clientVars, serverVars
    <2>6. QED
      BY <2>1, <2>2, <2>3, <2>4, <2>5 DEF IInv
  <1>18. ASSUME NEW c \in Clients, NEW s \in Servers, UnmatchRequest(c, s)
         PROVE  IInv'
    <2>1. TypeOK'
      BY <1>18 DEF UnmatchRequest, IInv, TypeOK, Writers, clientVars, serverVars
    <2>2. RequestInv' /\ ServingInv' /\ AnswerInv' /\ SlotInv'
      <3>1. UNCHANGED <<cpc, wire, spc, serving, hasWriter, held, match, net,
                        sent, got>>
        BY <1>18 DEF UnmatchRequest, serverVars
      <3>2. QED
        BY <3>1 DEF IInv, RequestInv, ServingInv, AnswerInv, SlotInv
    <2>3. QED
      BY <2>1, <2>2 DEF IInv
  <1>19. ASSUME UNCHANGED vars PROVE IInv'
    BY <1>19 DEF IInv, TypeOK, RequestInv, ServingInv, AnswerInv, SlotInv,
                 vars, clientVars, serverVars
  <1>20. QED
    BY <1>1, <1>2, <1>3, <1>4, <1>5, <1>6, <1>7, <1>8, <1>9,
       <1>10, <1>11, <1>12, <1>13, <1>14, <1>15, <1>16, <1>17, <1>18,
       <1>19
    DEF Next, ServerStep


\* Type correctness, for any number of clients and servers.
THEOREM TypeCorrect == Spec => []TypeOK
  <1>1. IInv => TypeOK
    BY DEF IInv
  <1>2. QED
    BY <1>1, InitIInv, NextIInv, PTL DEF Spec

\* A server process answers at most Slots requests in its life: each answer
\* has a MainPublisher whose participant is never given back.
THEOREM SlotsBoundAnswers == Spec => []AnswersBoundedBySlots
  <1>1. IInv => AnswersBoundedBySlots
    <2> SUFFICES ASSUME IInv, NEW s \in Servers
                 PROVE  Cardinality({r \in Clients : sent[<<s, r>>] > 0})
                           <= Slots
      BY DEF AnswersBoundedBySlots
    <2>1. {r \in Clients : sent[<<s, r>>] > 0} \subseteq held[s]
      BY DEF IInv, SlotInv
    <2>2. IsFiniteSet(held[s]) /\ Cardinality(held[s]) <= Slots
      BY DEF IInv, SlotInv
    <2>3. QED
      BY <2>1, <2>2, NoMore
  <1>2. QED
    BY <1>1, InitIInv, NextIInv, PTL DEF Spec

-----------------------------------------------------------------------------
(* Between the two looks at m_matched a reader is lost only with its client. *)

WaitInv ==
    \A s \in Servers : type = "Grpc" /\ spc[s] = "deciding" =>
        match[s] # {} \/ retries[s] >= MaxRetries \/ alive # Clients

LEMMA NextWaitInv == IInv /\ WaitInv /\ [Next]_vars => WaitInv'
  <1> SUFFICES ASSUME IInv, WaitInv, [Next]_vars PROVE WaitInv'
    OBVIOUS
  <1> USE DEF WaitInv
  <1>1. ASSUME NEW s \in Servers, WaitOver(s) PROVE WaitInv'
    BY <1>1 DEF WaitOver, WaitEnds, IInv, TypeOK, clientVars
  <1>2. ASSUME NEW s \in Servers, NEW c \in Clients, UnmatchReply(s, c)
        PROVE  WaitInv'
    <2>1. alive # Clients /\ alive' = alive /\ type' = type
      BY <1>2 DEF UnmatchReply, clientVars
    <2>2. QED
      BY <2>1
  <1>3. ASSUME NEW c \in Clients, Exit(c) PROVE WaitInv'
    BY <1>3 DEF Exit, IInv, TypeOK
  <1>4. ASSUME NEW s \in Servers, NEW c \in Clients, MatchReply(s, c)
        PROVE  WaitInv'
    BY <1>4 DEF MatchReply, IInv, TypeOK, clientVars
  <1>5. ASSUME NEW s \in Servers,
               \/ InitPublisher(s) \/ Wait(s) \/ Decide(s) \/ DestroyPublisher(s)
               \/ \E r \in Clients : Receive(s, r)
        PROVE  WaitInv'
    <2>1. \A q \in Servers : spc'[q] = "deciding" =>
             /\ q # s /\ spc[q] = "deciding"
             /\ match'[q] = match[q] /\ retries'[q] = retries[q]
      BY <1>5 DEF InitPublisher, Wait, Decide, DestroyPublisher, Receive, IInv,
         TypeOK, clientVars, serverVars
    <2>2. alive' = alive /\ type' = type
      BY <1>5 DEF InitPublisher, Wait, Decide, DestroyPublisher, Receive,
         clientVars
    <2>3. QED
      BY <2>1, <2>2
  <1>6. ASSUME \/ \E c \in Clients : SendRequest(c) \/ Subscribe(c)
               \/ \E c \in Clients, s \in Servers :
                     \/ MatchRequest(c, s) \/ UnmatchRequest(c, s)
                     \/ KnowWriter(c, s)
               \/ \E c \in Clients, w \in Writers :
                     ForgetWriter(c, w) \/ Deliver(c, w)
               \/ \E m \in wire : LoseRequest(m)
               \/ \E m \in net : LoseAnswer(m)
               \/ UNCHANGED vars
        PROVE  WaitInv'
    <2>1. UNCHANGED <<type, spc, match, retries, alive>>
      BY <1>6 DEF SendRequest, Subscribe, MatchRequest, UnmatchRequest, KnowWriter,
         ForgetWriter, Deliver, LoseRequest, LoseAnswer, vars, clientVars,
         serverVars
    <2>2. QED
      BY <2>1
  <1>7. QED
    BY <1>1, <1>2, <1>3, <1>4, <1>5, <1>6 DEF Next, ServerStep

\* Grpc drops a request only after all its retries or when a client has left.
THEOREM DropsHaveAReason == Spec => DropsOnlyForAReason
  <1>1. ASSUME IInv, WaitInv, [Next]_vars, NEW s \in Servers, type = "Grpc",
               spc[s] = "deciding", spc'[s] # "deciding", sent' = sent
        PROVE  retries[s] >= MaxRetries \/ alive # Clients
    <2>1. CASE match[s] = {}
      BY <1>1, <2>1 DEF WaitInv
    <2>2. CASE match[s] # {}
      <3>1. spc' # spc
        BY <1>1
      <3>2. PICK q \in Servers :
               ServerStep(q) \/ \E r \in Clients : Receive(q, r)
        BY <1>1, <3>1 DEF Next, MatchRequest, UnmatchRequest, SendRequest, Subscribe, Exit,
           MatchReply, UnmatchReply, KnowWriter, ForgetWriter, Deliver,
           LoseRequest, LoseAnswer, vars, clientVars, serverVars
      <3>3. \A p \in Servers \ {q} : spc'[p] = spc[p]
        <4> spc \in [Servers -> {"idle", "init", "waiting", "deciding",
                                 "destroying", "crashed"}]
          BY <1>1 DEF IInv, TypeOK
        <4>1. CASE InitPublisher(q)
          <5>1. \/ spc' = [spc EXCEPT ![q] = "crashed"]
                \/ spc' = [spc EXCEPT ![q] = "waiting"]
            BY <4>1 DEF InitPublisher
          <5>2. QED
            BY <5>1
        <4>2. CASE Wait(q)
          BY <4>2 DEF Wait
        <4>3. CASE WaitOver(q) \/ Decide(q) \/ DestroyPublisher(q)
          BY <4>3 DEF WaitOver, Decide, DestroyPublisher
        <4>4. CASE \E r \in Clients : Receive(q, r)
          BY <4>4 DEF Receive
        <4>5. QED
          BY <3>2, <4>1, <4>2, <4>3, <4>4 DEF ServerStep
      <3>4. spc[s] = "deciding" /\ q = s
        BY <1>1, <3>3
      <3>5. Decide(s)
        BY <3>2, <3>4 DEF ServerStep, InitPublisher, Wait, WaitOver,
           DestroyPublisher, Receive
      <3>6. /\ sent' = [sent EXCEPT ![<<s, serving[s]>>] = @ + 1]
            /\ sent[<<s, serving[s]>>] = 0 /\ serving[s] \in Clients
        BY <1>1, <2>2, <3>5 DEF Decide, IInv, ServingInv
      <3>7. sent'[<<s, serving[s]>>] = 1
        BY <1>1, <3>6 DEF IInv, TypeOK, Writers
      <3>8. QED
        BY <1>1, <3>6, <3>7
    <2>3. QED
      BY <2>1, <2>2
  <1>2. IInv /\ WaitInv /\ [Next]_vars =>
           [\A s \in Servers :
               /\ type = "Grpc"
               /\ spc[s] = "deciding" /\ spc'[s] # "deciding" /\ sent' = sent
               =>
                   retries[s] >= MaxRetries \/ alive # Clients]_vars
    BY <1>1
  <1>3. Init => WaitInv
    BY DEF Init, WaitInv
  <1>4. IInv /\ WaitInv /\ [Next]_vars => WaitInv'
    BY NextWaitInv
  <1>5. QED
    BY <1>2, <1>3, <1>4, InitIInv, NextIInv, PTL DEF Spec, DropsOnlyForAReason

-----------------------------------------------------------------------------
(* The refinement.  SendRequest is Ask, a Decide that writes is Answer, a   *)
(* Deliver to a reader that knows the writer is Get; the rest stutters.     *)

LEMMA StepRefines == IInv /\ [Next]_vars => [Abstract!Next]_(Abstract!vars)
  <1> SUFFICES ASSUME IInv, [Next]_vars PROVE [Abstract!Next]_(Abstract!vars)
    OBVIOUS
  <1> DEFINE asked == {c \in Clients : cpc[c] # "matching"}
  <1>0. ASSUME asked' = asked, UNCHANGED <<sent, got>>
        PROVE  UNCHANGED Abstract!vars
    BY <1>0 DEF Abstract!vars
  <1>1. ASSUME NEW c \in Clients, SendRequest(c) PROVE Abstract!Ask(c)
    <2>1. cpc[c] = "matching" /\ cpc' = [cpc EXCEPT ![c] = "subscribing"]
          /\ UNCHANGED <<sent, got>>
      BY <1>1 DEF SendRequest
    <2>2. asked' = asked \cup {c} /\ c \notin asked
      BY <2>1 DEF IInv, TypeOK
    <2>3. QED
      BY <2>1, <2>2 DEF Abstract!Ask
  <1>2. ASSUME NEW s \in Servers, Decide(s), sent' # sent
        PROVE  \E r \in Clients : Abstract!Answer(s, r)
    <2>1. /\ spc[s] = "deciding" /\ sent' = [sent EXCEPT ![<<s, serving[s]>>] = @ + 1]
          /\ UNCHANGED <<cpc, got>>
      BY <1>2 DEF Decide, clientVars
    <2>2. serving[s] \in asked /\ sent[<<s, serving[s]>>] = 0
      BY <2>1 DEF IInv, ServingInv
    <2>3. sent' = [sent EXCEPT ![<<s, serving[s]>>] = 1]
      BY <2>1, <2>2
    <2>4. QED
      BY <2>1, <2>2, <2>3 DEF Abstract!Answer
  <1>3. ASSUME NEW c \in Clients, NEW w \in Writers, Deliver(c, w), got' # got
        PROVE  Abstract!Get(c, w)
    <2>1. /\ <<w, c>> \in net /\ got' = [got EXCEPT ![c][w] = @ + 1]
          /\ UNCHANGED <<cpc, sent>>
      BY <1>3 DEF Deliver, clientVars
    <2>2. c \in asked /\ sent[w] = 1 /\ got[c][w] = 0
      BY <2>1 DEF IInv, AnswerInv
    <2>3. QED
      BY <2>1, <2>2 DEF Abstract!Get
  <1>4. ASSUME NEW c \in Clients, Subscribe(c)
        PROVE  asked' = asked /\ UNCHANGED <<sent, got>>
    BY <1>4 DEF Subscribe, IInv, TypeOK
  <1>5. ASSUME \/ \E c \in Clients : Exit(c)
               \/ \E s \in Servers :
                     \/ InitPublisher(s) \/ Wait(s) \/ WaitOver(s)
                     \/ DestroyPublisher(s) \/ \E r \in Clients : Receive(s, r)
               \/ \E c \in Clients, s \in Servers :
                     \/ MatchRequest(c, s) \/ UnmatchRequest(c, s)
                     \/ MatchReply(s, c) \/ UnmatchReply(s, c)
                     \/ KnowWriter(c, s)
               \/ \E c \in Clients, w \in Writers : ForgetWriter(c, w)
               \/ \E m \in wire : LoseRequest(m)
               \/ \E m \in net : LoseAnswer(m)
               \/ UNCHANGED vars
        PROVE  UNCHANGED <<cpc, sent, got>>
    BY <1>5 DEF Exit, InitPublisher, Wait, WaitOver, DestroyPublisher, Receive,
       MatchRequest, UnmatchRequest, MatchReply, UnmatchReply, KnowWriter, ForgetWriter,
       LoseRequest, LoseAnswer, vars, clientVars, serverVars
  <1>6. ASSUME UNCHANGED <<cpc, sent, got>> PROVE UNCHANGED Abstract!vars
    BY <1>0, <1>6
  <1>7. ASSUME NEW s \in Servers, Decide(s), sent' = sent
        PROVE  UNCHANGED Abstract!vars
    BY <1>6, <1>7 DEF Decide, clientVars
  <1>8. ASSUME NEW c \in Clients, NEW w \in Writers, Deliver(c, w), got' = got
        PROVE  UNCHANGED Abstract!vars
    BY <1>6, <1>8 DEF Deliver, clientVars
  <1>9. QED
    <2> HIDE DEF asked
    <2>1. CASE \E c \in Clients : SendRequest(c)
      BY <1>1, <2>1 DEF Abstract!Next
    <2>2. CASE \E c \in Clients : Subscribe(c)
      BY <1>0, <1>4, <2>2
    <2>3. CASE \E s \in Servers : Decide(s)
      BY <1>2, <1>7, <2>3 DEF Abstract!Next
    <2>4. CASE \E c \in Clients, w \in Writers : Deliver(c, w)
      BY <1>3, <1>8, <2>4 DEF Abstract!Next, Abstract!Answers, Writers
    <2>5. QED
      BY <1>5, <1>6, <2>1, <2>2, <2>3, <2>4 DEF Next, ServerStep

\* The exchange implements CallOnce, for any number of clients and servers.
THEOREM RepliesImplementCallOnce == Spec => AtMostOnce
  <1>1. Init => Abstract!Init
    BY DEF Init, Writers, Abstract!Init, Abstract!Answers
  <1>2. QED
    BY <1>1, InitIInv, NextIInv, StepRefines, PTL
    DEF Spec, AtMostOnce, Abstract!Spec
=============================================================================
