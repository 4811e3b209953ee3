---------------------------- MODULE ReplyServer ----------------------------
(***************************************************************************)
(* The request/reply exchange of ddsQos.  A client (RunGrpc, or            *)
(* RunPublisher with type Test) waits until its request writer is matched, *)
(* writes one request and only THEN creates the reader of the answer.  A   *)
(* server (RunSubscriber) serves requests one by one inside                *)
(* MainSubListener::on_data_available: for each one it creates a whole     *)
(* MainPublisher, waits for somebody to match its reply writer, writes the *)
(* answer or gives up, and destroys the publisher at once.                 *)
(*                                                                         *)
(* Request and reply readers are BEST_EFFORT and VOLATILE (the Fast DDS    *)
(* defaults), so a message may be lost and a reader that matches after the *)
(* write gets nothing.  The two sides of a match learn of it separately.   *)
(* ~MainPublisher leaks the participant of a publisher that had a writer   *)
(* (EntityLifecycle!TopicFirstNeverReleases), so each one costs a slot.    *)
(***************************************************************************)
EXTENDS Naturals, FiniteSets

CONSTANTS
    Clients,     \* client processes; each makes one request, named after it
    Servers,     \* server processes
    NoClient,    \* no request is being served
    MaxRetries,  \* max_retries, 10 in the code
    Slots        \* participants a server process can still create

ASSUME BoundsAssumption == MaxRetries \in Nat /\ Slots \in Nat
ASSUME NoClientAssumption == NoClient \notin Clients

VARIABLES
    type,       \* the QoS word all processes were started with
    cpc,        \* where each client is in RunGrpc / RunPublisher
    alive,      \* clients whose process runs
    infoMatch,  \* servers matched to the client's request writer (m_matched)
    wire,       \* requests on their way to a server
    spc,        \* where each server is in on_data_available
    serving,    \* whose request it serves
    retries,    \* retry_count
    hasWriter,  \* its MainPublisher got a reply writer
    held,       \* requests whose MainPublisher still holds a participant
    match,      \* readers matched to its reply writer (m_matched)
    known,      \* reply writers each client's reader knows
    net,        \* answers on their way to a client
    sent,       \* how often each answer was written
    got         \* how often each client has printed each answer (m_replays)

clientVars == <<type, cpc, alive, infoMatch>>
serverVars == <<spc, serving, retries, hasWriter, held, match>>
vars == <<clientVars, wire, serverVars, known, net, sent, got>>

\* A reply writer is named after the server and the request it is made for.
Writers == Servers \X Clients

TypeOK ==
    /\ type \in {"Grpc", "Test"}
    /\ cpc \in [Clients -> {"matching", "subscribing", "listening"}]
    /\ alive \subseteq Clients
    /\ infoMatch \in [Clients -> SUBSET Servers]
    /\ wire \subseteq Writers
    /\ spc \in [Servers -> {"idle", "init", "waiting", "deciding",
                            "destroying", "crashed"}]
    /\ serving \in [Servers -> Clients \cup {NoClient}]
    /\ retries \in [Servers -> 0..MaxRetries]
    /\ hasWriter \in [Servers -> BOOLEAN]
    /\ held \in [Servers -> SUBSET Clients]
    /\ match \in [Servers -> SUBSET Clients]
    /\ known \in [Clients -> SUBSET Writers]
    /\ net \subseteq (Writers \X Clients)
    /\ sent \in [Writers -> Nat]
    /\ got \in [Clients -> [Writers -> Nat]]

Init ==
    /\ type \in {"Grpc", "Test"}
    /\ cpc = [c \in Clients |-> "matching"]
    /\ alive = Clients
    /\ infoMatch = [c \in Clients |-> {}]
    /\ wire = {}
    /\ spc = [s \in Servers |-> "idle"]
    /\ serving = [s \in Servers |-> NoClient]
    /\ retries = [s \in Servers |-> 0]
    /\ hasWriter = [s \in Servers |-> FALSE]
    /\ held = [s \in Servers |-> {}]
    /\ match = [s \in Servers |-> {}]
    /\ known = [c \in Clients |-> {}]
    /\ net = {}
    /\ sent = [w \in Writers |-> 0]
    /\ got = [c \in Clients |-> [w \in Writers |-> 0]]

-----------------------------------------------------------------------------
(* The client.                                                             *)

\* on_publication_matched of the request writer: m_matched counts one more.
MatchRequest(c, s) ==
    /\ c \in alive /\ cpc[c] = "matching" /\ spc[s] # "crashed"
    /\ infoMatch' = [infoMatch EXCEPT ![c] = @ \cup {s}]
    /\ UNCHANGED <<type, cpc, alive, wire, serverVars, known, net, sent, got>>

\* ... and one less when a server's process has died.
UnmatchRequest(c, s) ==
    /\ c \in alive /\ s \in infoMatch[c] /\ spc[s] = "crashed"
    /\ infoMatch' = [infoMatch EXCEPT ![c] = @ \ {s}]
    /\ UNCHANGED <<type, cpc, alive, wire, serverVars, known, net, sent, got>>

\* while (1) { if (pub->TargetMatched()) { pub->SendMsg(..); break; } }
SendRequest(c) ==
    /\ c \in alive /\ cpc[c] = "matching" /\ infoMatch[c] # {}
    /\ wire' = wire \cup {<<s, c>> : s \in infoMatch[c]}
    /\ cpc' = [cpc EXCEPT ![c] = "subscribing"]
    /\ UNCHANGED <<type, alive, infoMatch, serverVars, known, net, sent, got>>

\* test_sub.init(..): only now does the reader of the answer exist.
Subscribe(c) ==
    /\ c \in alive /\ cpc[c] = "subscribing"
    /\ cpc' = [cpc EXCEPT ![c] = "listening"]
    /\ UNCHANGED <<type, alive, infoMatch, wire, serverVars, known, net, sent,
                   got>>

\* The client never ends by itself; somebody stops the process.
Exit(c) ==
    /\ c \in alive
    /\ alive' = alive \ {c}
    /\ UNCHANGED <<type, cpc, infoMatch, wire, serverVars, known, net, sent,
                   got>>

-----------------------------------------------------------------------------
(* The server: MainSubListener::on_data_available, one sample at a time.   *)

\* Definitions whose name ends in _bug are variants with a plausible mistake in
\* them; no action uses them.  They show that the properties can fail.

\* take_next_sample removes what it returns.
Taken(m) == wire \ {m}

Receive(s, r) ==
    /\ spc[s] = "idle" /\ <<s, r>> \in wire
    /\ wire' = Taken(<<s, r>>)
    /\ spc' = [spc EXCEPT ![s] = "init"]
    /\ serving' = [serving EXCEPT ![s] = r]
    /\ UNCHANGED <<clientVars, retries, hasWriter, held, match, known, net,
                   sent, got>>

\* MainPublisher pub; pub.init(..).  The result is ignored: without a
\* participant the Test branch dereferences the null getParticipant(); without
\* a publisher initPubType dereferences the null m_publisher; and without a
\* writer nobody will ever match.
InitPublisher(s) ==
    /\ spc[s] = "init"
    /\ \/ /\ \/ type = "Grpc" /\ spc' = [spc EXCEPT ![s] = "waiting"]
             \/ spc' = [spc EXCEPT ![s] = "crashed"]
          /\ UNCHANGED <<hasWriter, held>>
       \/ /\ Cardinality(held[s]) < Slots
          /\ held' = [held EXCEPT ![s] = @ \cup {serving[s]}]
          /\ hasWriter' \in {[hasWriter EXCEPT ![s] = b] : b \in BOOLEAN}
          /\ spc' = [spc EXCEPT ![s] = "waiting"]
    /\ retries' = [retries EXCEPT ![s] = 0]
    /\ match' = [match EXCEPT ![s] = {}]
    /\ UNCHANGED <<clientVars, wire, serving, known, net, sent, got>>

\* while (!pub.TargetMatched() && retry_count < max_retries)
MayRetry(s) == match[s] = {} /\ retries[s] < MaxRetries

\* One turn of the wait for a match: Grpc sleeps a second and counts it.
Wait(s) ==
    /\ spc[s] = "waiting" /\ type = "Grpc"
    /\ MayRetry(s)
    /\ retries' = [retries EXCEPT ![s] = @ + 1]
    /\ UNCHANGED <<clientVars, wire, spc, serving, hasWriter, held, match,
                   known, net, sent, got>>

\* One retry too few, or no end of the retries.
WaitEnds_bug(s) == match[s] # {} \/ retries[s] + 1 >= MaxRetries
WaitEnds_never_bug(s) == match[s] # {}

WaitEnds(s) == match[s] # {} \/ retries[s] >= MaxRetries

\* Grpc leaves the loop when TargetMatched() or when the retries are used up;
\* Test has slept its one second and looks just once.
WaitOver(s) ==
    /\ spc[s] = "waiting"
    /\ type = "Grpc" => WaitEnds(s)
    /\ spc' = [spc EXCEPT ![s] = "deciding"]
    /\ UNCHANGED <<clientVars, wire, serving, retries, hasWriter, held, match,
                   known, net, sent, got>>

\* if (pub.TargetMatched()) pub.SendMsg(replay): the second look at m_matched.
\* The answer goes to every reader matched at this moment.
Decide(s) ==
    LET w == <<s, serving[s]>> IN
    /\ spc[s] = "deciding"
    /\ \/ /\ match[s] # {}
          /\ sent' = [sent EXCEPT ![w] = @ + 1]
          /\ net' = net \cup {<<w, c>> : c \in match[s]}
       \/ match[s] = {} /\ UNCHANGED <<sent, net>>
    /\ spc' = [spc EXCEPT ![s] = "destroying"]
    /\ UNCHANGED <<clientVars, wire, serving, retries, hasWriter, held, match,
                   known, got>>

\* Every participant is given back.
HeldAfter_bug(s) == [held EXCEPT ![s] = @ \ {serving[s]}]

\* The participant is given back only when no writer's topic holds it.
HeldAfter(s) ==
    IF hasWriter[s] THEN held ELSE [held EXCEPT ![s] = @ \ {serving[s]}]

\* ~MainPublisher: the writer is gone at once, acknowledged or not.
DestroyPublisher(s) ==
    /\ spc[s] = "destroying"
    /\ held' = HeldAfter(s)
    /\ hasWriter' = [hasWriter EXCEPT ![s] = FALSE]
    /\ match' = [match EXCEPT ![s] = {}]
    /\ serving' = [serving EXCEPT ![s] = NoClient]
    /\ spc' = [spc EXCEPT ![s] = "idle"]
    /\ UNCHANGED <<clientVars, wire, retries, known, net, sent, got>>

-----------------------------------------------------------------------------
(* Discovery and the network (Fast DDS).                                   *)

\* The reply writer learns of a reader: on_publication_matched.
MatchReply(s, c) ==
    /\ spc[s] \in {"waiting", "deciding"} /\ hasWriter[s]
    /\ c \in alive /\ cpc[c] = "listening"
    /\ match' = [match EXCEPT ![s] = @ \cup {c}]
    /\ UNCHANGED <<clientVars, wire, spc, serving, retries, hasWriter, held,
                   known, net, sent, got>>

\* ... and loses it when the reader's process is gone.
UnmatchReply(s, c) ==
    /\ c \in match[s] /\ c \notin alive
    /\ spc[s] \in {"waiting", "deciding"}
    /\ match' = [match EXCEPT ![s] = @ \ {c}]
    /\ UNCHANGED <<clientVars, wire, spc, serving, retries, hasWriter, held,
                   known, net, sent, got>>

\* The reader learns of the reply writer, at a time of its own.
KnowWriter(c, s) ==
    /\ c \in alive /\ cpc[c] = "listening"
    /\ spc[s] \in {"waiting", "deciding", "destroying"} /\ hasWriter[s]
    /\ known' = [known EXCEPT ![c] = @ \cup {<<s, serving[s]>>}]
    /\ UNCHANGED <<clientVars, wire, serverVars, net, sent, got>>

\* The reader hears that a writer was deleted; what it had not taken is lost.
ForgetWriter(c, w) ==
    /\ w \in known[c] /\ ~(serving[w[1]] = w[2] /\ hasWriter[w[1]])
    /\ known' = [known EXCEPT ![c] = @ \ {w}]
    /\ UNCHANGED <<clientVars, wire, serverVars, net, sent, got>>

\* The answer is read and not taken.
Deliver_bug(c, w) ==
    /\ <<w, c>> \in net /\ c \in alive
    /\ got' = IF w \in known[c] THEN [got EXCEPT ![c][w] = @ + 1] ELSE got
    /\ UNCHANGED <<clientVars, wire, serverVars, known, net, sent>>

\* on_data_available of the client: it prints the answer.  An answer from a
\* writer the reader does not know is dropped.
Deliver(c, w) ==
    /\ <<w, c>> \in net /\ c \in alive
    /\ net' = net \ {<<w, c>>}
    /\ got' = IF w \in known[c] THEN [got EXCEPT ![c][w] = @ + 1] ELSE got
    /\ UNCHANGED <<clientVars, wire, serverVars, known, sent>>

LoseRequest(m) ==
    /\ wire' = wire \ {m}
    /\ UNCHANGED <<clientVars, serverVars, known, net, sent, got>>

LoseAnswer(m) ==
    /\ net' = net \ {m}
    /\ UNCHANGED <<clientVars, wire, serverVars, known, sent, got>>

-----------------------------------------------------------------------------
ServerStep(s) ==
    \/ InitPublisher(s) \/ Wait(s) \/ WaitOver(s) \/ Decide(s)
    \/ DestroyPublisher(s)

Next ==
    \/ \E c \in Clients : SendRequest(c) \/ Subscribe(c) \/ Exit(c)
    \/ \E s \in Servers : ServerStep(s) \/ \E r \in Clients : Receive(s, r)
    \/ \E c \in Clients, s \in Servers :
          \/ MatchRequest(c, s) \/ UnmatchRequest(c, s)
          \/ MatchReply(s, c) \/ UnmatchReply(s, c) \/ KnowWriter(c, s)
    \/ \E c \in Clients, w \in Writers : ForgetWriter(c, w) \/ Deliver(c, w)
    \/ \E m \in wire : LoseRequest(m)
    \/ \E m \in net : LoseAnswer(m)

Spec == Init /\ [][Next]_vars

\* The thread that runs the callback keeps running, and its sleeps end.
FairSpec == Spec /\ \A s \in Servers : WF_vars(ServerStep(s))

-----------------------------------------------------------------------------
\* The exchange implements CallOnce: requests made, answers written, answers
\* printed.  Losing messages, matching, waiting and dying are invisible there.
Abstract == INSTANCE CallOnce
              WITH asked <- {c \in Clients : cpc[c] # "matching"},
                   answered <- sent

\* A server answers each request at most once and only requests that were
\* made, and a client prints each answer at most once and only after its own
\* request, across loss, giving up, leaving clients and several servers.
AtMostOnce == Abstract!Spec

\* Every answer costs the server a participant that it never gets back
\* (Publisher.cpp:81-90), so in its whole life it answers at most Slots
\* requests, however many are made.
AnswersBoundedBySlots ==
    \A s \in Servers : Cardinality({r \in Clients : sent[<<s, r>>] > 0}) <= Slots

\* Grpc drops a request unanswered only after all its retries, or because a
\* client has left: the second look at m_matched does not undo the first while
\* the clients stay, and a failed init() costs the full wait.
DropsOnlyForAReason ==
    [][\A s \in Servers :
          /\ type = "Grpc"
          /\ spc[s] = "deciding" /\ spc'[s] # "deciding" /\ sent' = sent
          =>
              retries[s] >= MaxRetries \/ alive # Clients]_vars

\* The callback always comes back: no request keeps a server busy for ever,
\* matched or not, unless the process died on a null participant.
ServerComesBack ==
    \A s \in Servers : spc[s] # "idle" ~> spc[s] \in {"idle", "crashed"}
=============================================================================
