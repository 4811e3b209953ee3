---------------------- MODULE MCDiscoveryServerExample ----------------------
(***************************************************************************)
(* The two halves of DiscoveryServerExample, of which a behaviour has one: *)
(*  "start": two clients and two servers, each started with any of the     *)
(*           lines of its set: defaults, options repeated, ignored, of     *)
(*           another family, refused, or naming the second server;         *)
(*  "run":   a publisher and a subscriber that have met, until both end.   *)
(***************************************************************************)
EXTENDS HelloWorldRun, DiscoveryStart

VARIABLE part

Num(opt, n) == [opt |-> opt, arg |-> [num |-> n]]
Word(opt, w) == [opt |-> opt, arg |-> [word |-> w]]
With(kind, options) == [kind |-> kind, options |-> options]

MCProcesses == {"pub", "sub", "one", "two"}
MCIPv4 == {"127.0.0.1"}
MCIPv6 == {"::1"}
MCDNS == [localhost |-> [v4 |-> <<"127.0.0.1">>, v6 |-> <<"::1">>],
          v6only |-> [v4 |-> <<>>, v6 |-> <<"::1">>]]

\* Defaults; the second server, after another port was said; a name for the
\* default address, and an option of servers; TCP; TCPv6.  A subscriber also
\* asks for another topic, or for the second server's id at the first one's port.
ClientLines(kind) ==
    {With(kind, <<>>),
     With(kind, <<Num("CONNECTION_PORT", 5), Num("CONNECTION_DISCOVERY_SERVER_ID", 1),
                  Num("CONNECTION_PORT", 81703)>>),
     With(kind, <<Word("CONNECTION_ADDRESS", "localhost"), Num("LISTENING_PORT", 16167)>>),
     With(kind, <<Word("TRANSPORT", "tcpv4")>>),
     With(kind, <<Word("TRANSPORT", "tcpv6"), Word("CONNECTION_ADDRESS", "::1")>>)}

\* What main() or init() refuses.
RefusedLines ==
    {With("publisher", <<Word("CONNECTION_PORT", "http")>>),
     With("publisher", <<Word("CONNECTION_ADDRESS", "v6only")>>),
     With("publisher", <<Word("HELP", "")>>),
     With("talker", <<>>)}

FirstLines ==
    {With("server", <<>>),
     With("server", <<Word("TRANSPORT", "tcpv4"), Word("TOPIC", "Other")>>),
     With("server", <<Word("TRANSPORT", "tcpv6"), Word("LISTENING_ADDRESS", "::1")>>)}

\* The second server alone, connected to the first, with an id 256 from it,
\* and refused.
SecondLines ==
    {With("server", <<Num("LISTENING_DISCOVERY_SERVER_ID", 1), Num("LISTENING_PORT", 16167)>>),
     With("server", <<Num("LISTENING_DISCOVERY_SERVER_ID", 1), Num("LISTENING_PORT", 16167),
                      Num("CONNECTION_DISCOVERY_SERVER_ID", 0)>>),
     With("server", <<Num("LISTENING_DISCOVERY_SERVER_ID", 256), Num("LISTENING_PORT", 16167),
                      Num("CONNECTION_DISCOVERY_SERVER_ID", 0)>>),
     With("server", <<Num("CONNECTION_DISCOVERY_SERVER_ID", 0)>>)}

MCLines == [pub |-> ClientLines("publisher") \cup RefusedLines,
            sub |-> ClientLines("subscriber")
                        \cup {With("subscriber", <<Word("TOPIC", "Other")>>),
                              With("subscriber", <<Num("CONNECTION_DISCOVERY_SERVER_ID", 1)>>)},
            one |-> FirstLines,
            two |-> SecondLines]

-----------------------------------------------------------------------------
\* Nobody is started here a second time.
RunLines == [pub |-> With("talker", <<>>), sub |-> With("subscriber", <<>>),
             one |-> With("server", <<>>),
             two |-> With("server", <<Num("CONNECTION_DISCOVERY_SERVER_ID", 0)>>)]

MCInit ==
    /\ HelloInit /\ StartInit
    /\ \/ part = "start" /\ samples = 0
       \/ part = "run" /\ line = RunLines

MCNext ==
    /\ UNCHANGED part
    /\ \/ part = "start" /\ StartNext /\ UNCHANGED helloVars
       \/ part = "run" /\ HelloNext /\ UNCHANGED startVars

\* The fairness of each half, in its own behaviours.
MCFairness ==
    /\ WF_startVars(part = "start" /\ \E p \in Processes : Start(p))
    /\ WF_startVars(part = "start" /\ \E p, q \in Processes : Link(p, q))
    /\ WF_startVars(part = "start" /\ \E p, q \in Processes : Match(p, q))
    /\ WF_vars(part = "run" /\ MainStep)
    /\ WF_vars(part = "run" /\ Take)
    /\ \A c \in Stoppers : WF_vars(part = "run" /\ StopStep(c))
    /\ WF_publisherVars(part = "run" /\ PublisherMain)
    /\ WF_publisherVars(part = "run" /\ Worker)

MCSpec == MCInit /\ [][MCNext]_<<part, helloVars, startVars>> /\ MCFairness
=============================================================================
