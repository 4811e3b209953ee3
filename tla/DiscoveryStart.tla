--------------------------- MODULE DiscoveryStart ---------------------------
(***************************************************************************)
(* Processes of DiscoveryServerExample on one host, started at any time    *)
(* and in any order with the command lines of a user: what each makes of   *)
(* its line, which participant it creates, and who meets whom through      *)
(* which server.                                                           *)
(***************************************************************************)
EXTENDS DiscoveryArguments, FiniteSets

CONSTANTS
    Processes,
    Lines,      \* process -> the command lines it may be started with
    IPv4, IPv6, \* the addresses of the host, as the user writes them
    DNS         \* name -> [v4, v6], the addresses it stands for, in order

ASSUME AddressAssumption ==
    /\ IPv4 \cap IPv6 = {}
    /\ \A n \in DOMAIN DNS : DNS[n].v4 \in Seq(IPv4) /\ DNS[n].v6 \in Seq(IPv6)

\* An option has a number or a word.
ASSUME LinesAssumption ==
    \A p \in Processes : \A l \in Lines[p] :
        /\ l.options \in Seq(Range(l.options))
        /\ \A i \in DOMAIN l.options :
              \/ l.options[i].arg \in [num : Int]
              \/ DOMAIN l.options[i].arg = {"word"}

VARIABLES
    line,           \* the command line of each process
    status,         \* waiting, usage, error, running or ended
    participant,    \* what each running process created
    linked,         \* <<p, s>>: s discovered p by its list of servers
    matched         \* <<publisher, subscriber>>

startVars == <<line, status, participant, linked, matched>>

None == [none |-> TRUE]

-----------------------------------------------------------------------------
(* Addresses and locators                                                  *)

V4(transport) == transport \in {"udpv4", "tcpv4"}

is_ip(address) == address \in IPv4 \cup IPv6

\* The first answer of the family of the transport, or "".
get_ip_from_dns(name, transport) ==
    LET found == IF name \notin DOMAIN DNS THEN <<>>
                 ELSE IF V4(transport) THEN DNS[name].v4 ELSE DNS[name].v6
    IN  IF found = <<>> THEN "" ELSE Head(found)

Resolved(address, transport) ==
    IF is_ip(address) THEN address ELSE get_ip_from_dns(address, transport)

\* An address of the other family leaves the locator without one.
setIPv4(address) == IF address \in IPv4 THEN address ELSE "none"
setIPv6(address) == IF address \in IPv6 THEN address ELSE "none"

Locator(transport, address, port) ==
    [kind |-> transport, address |-> address, port |-> port,
     logical |-> IF transport \in {"tcpv4", "tcpv6"} THEN port ELSE 0]

\* The octet that tells one default server from another.
get_discovery_server_guid_from_id_bug(id) == 0
get_discovery_server_guid_from_id(id) == id % 256

ServerLocator(transport, ip, port) ==
    Locator(transport, IF V4(transport) THEN setIPv4(ip) ELSE setIPv6(ip), port)

PublisherLocator(transport, ip, port) ==
    Locator(transport, IF V4(transport) THEN setIPv4(ip) ELSE setIPv6(ip), port)

\* The branch of TCPv6 calls setIPv4.
SubscriberLocator(transport, ip, port) ==
    Locator(transport, IF transport = "udpv6" THEN setIPv6(ip) ELSE setIPv4(ip), port)

-----------------------------------------------------------------------------
(* The three init()                                                        *)

RemoteServer(id, locator) ==
    [prefix |-> get_discovery_server_guid_from_id(id), locator |-> locator]

Client(c, locator) ==
    [protocol |-> "CLIENT", prefix |-> -1, listening |-> None, topic |-> c.topic,
     servers |-> {RemoteServer(c.connectionId, locator)}]

\* None where init() returns false.
HelloWorldPublisher_init(c) ==
    LET ip == Resolved(c.connectionAddress, c.transport)
    IN  IF ip = "" THEN None
        ELSE Client(c, PublisherLocator(c.transport, ip, c.connectionPort))

HelloWorldSubscriber_init(c) ==
    LET ip == Resolved(c.connectionAddress, c.transport)
    IN  IF ip = "" THEN None
        ELSE Client(c, SubscriberLocator(c.transport, ip, c.connectionPort))

DiscoveryServer_init(c) ==
    LET listening == Resolved(c.listeningAddress, c.transport)
        connection == IF c.idSet THEN Resolved(c.connectionAddress, c.transport)
                                 ELSE c.connectionAddress
    IN  IF listening = "" \/ (c.idSet /\ connection = "") THEN None
        ELSE [protocol |-> "SERVER",
              prefix |-> get_discovery_server_guid_from_id(c.listeningId),
              listening |-> ServerLocator(c.transport, listening, c.listeningPort),
              topic |-> "",
              servers |-> IF c.idSet
                          THEN {RemoteServer(c.connectionId,
                                   ServerLocator(c.transport, connection, c.connectionPort))}
                          ELSE {}]

Initialised(l) ==
    LET c == Configuration(l)
    IN  CASE l.kind = "publisher" -> HelloWorldPublisher_init(c)
          [] l.kind = "subscriber" -> HelloWorldSubscriber_init(c)
          [] l.kind = "server" -> DiscoveryServer_init(c)

-----------------------------------------------------------------------------
(* The network                                                             *)

Running == {p \in Processes : status[p] = "running"}
IsServer(p) == participant[p].protocol = "SERVER"

\* Every address of the host leads to every server on it; without one nobody
\* is reached.
Reaches(locator, s) ==
    /\ locator.address \in IPv4 \cup IPv6
    /\ [locator EXCEPT !.address = ""] = [participant[s].listening EXCEPT !.address = ""]

\* Servers that know each other pass on what they know.
Meet(p, q) ==
    \E s, t \in Running :
        /\ <<p, s>> \in linked /\ <<q, t>> \in linked
        /\ s = t \/ <<s, t>> \in linked \/ <<t, s>> \in linked

StartInit ==
    /\ line \in [Processes -> UNION {Lines[p] : p \in Processes}]
    /\ \A p \in Processes : line[p] \in Lines[p]
    /\ status = [p \in Processes |-> "waiting"]
    /\ participant = [p \in Processes |-> None]
    /\ linked = {}
    /\ matched = {}

\* main(): parse, check, init() and run().
Start(p) ==
    /\ status[p] = "waiting"
    /\ LET outcome == Outcome(line[p])
           made == IF outcome = "start" THEN Initialised(line[p]) ELSE None
       IN  /\ participant' = [participant EXCEPT ![p] = made]
           /\ status' = [status EXCEPT ![p] = IF made # None THEN "running"
                                              ELSE IF outcome = "usage" THEN "usage"
                                              ELSE "error"]
    /\ UNCHANGED <<line, linked, matched>>

\* p announces itself to the servers of its list; the one that answers must
\* have the prefix p expects.  What bears p's own prefix p takes for its own.
Link(p, s) ==
    /\ {p, s} \subseteq Running /\ p # s /\ IsServer(s)
    /\ <<p, s>> \notin linked
    /\ participant[p].prefix # participant[s].prefix
    /\ \E r \in participant[p].servers :
          r.prefix = participant[s].prefix /\ Reaches(r.locator, s)
    /\ linked' = linked \cup {<<p, s>>}
    /\ UNCHANGED <<line, status, participant, matched>>

Match(p, q) ==
    /\ {p, q} \subseteq Running
    /\ line[p].kind = "publisher" /\ line[q].kind = "subscriber"
    /\ participant[p].topic = participant[q].topic
    /\ <<p, q>> \notin matched
    /\ Meet(p, q)
    /\ matched' = matched \cup {<<p, q>>}
    /\ UNCHANGED <<line, status, participant, linked>>

\* SIGINT, the timeout of a server, the last sample of the other two.
Stop(p) ==
    /\ p \in Running
    /\ status' = [status EXCEPT ![p] = "ended"]
    /\ participant' = [participant EXCEPT ![p] = None]
    /\ linked' = {l \in linked : p \notin {l[1], l[2]}}
    /\ matched' = {m \in matched : p \notin {m[1], m[2]}}
    /\ UNCHANGED line

StartNext == \E p \in Processes :
            \/ Start(p)
            \/ Stop(p)
            \/ \E q \in Processes : Link(p, q) \/ Match(p, q)

\* The user starts all that he means to start, and announcements are repeated
\* until they arrive.
StartFairness == /\ WF_startVars(\E p \in Processes : Start(p))
                 /\ WF_startVars(\E p, q \in Processes : Link(p, q))
                 /\ WF_startVars(\E p, q \in Processes : Match(p, q))

StartSpec == StartInit /\ [][StartNext]_startVars /\ StartFairness

-----------------------------------------------------------------------------
(* What a command line says, read off its words                            *)

\* Where a line gives an option, and the last of some places.
Places(l, opt) == {i \in DOMAIN l.options : l.options[i].opt = opt}

LastOf(at) == CHOOSE i \in at : \A j \in at : j <= i

\* The last word a line gives for an option, or what the usage promises.
Said(l, opt, default) ==
    LET last == l.options[LastOf(Places(l, opt))].arg
    IN  IF Places(l, opt) = {} THEN default
        ELSE IF "num" \in DOMAIN last THEN last.num ELSE last.word

SaysTransport(l) == Said(l, "TRANSPORT", "udpv4")

\* Numbers that the code takes for one because it keeps only their remainder.
Alike(a, b, n) == (a - b) % n = 0

\* l asks for the server that k describes, as far as ports and ids say which:
\* two ids 256 apart have one prefix, two ports 65536 apart are one.
AsksFor(l, k) ==
    /\ k.kind = "server"
    /\ l.kind = "server" => Given(l.options, "CONNECTION_DISCOVERY_SERVER_ID")
    /\ SaysTransport(l) = SaysTransport(k)
    /\ Alike(Said(l, "CONNECTION_PORT", 16166), Said(k, "LISTENING_PORT", 16166), 65536)
    /\ Alike(Said(l, "CONNECTION_DISCOVERY_SERVER_ID", 0),
             Said(k, "LISTENING_DISCOVERY_SERVER_ID", 0), 256)

\* main() and init() have no reason to refuse the line.
Sound(l) ==
    LET OfItsFamily(opt) ==
            Resolved(Said(l, opt, "127.0.0.1"), SaysTransport(l))
                \in (IF V4(SaysTransport(l)) THEN IPv4 ELSE IPv6)
        connects == l.kind # "server" \/ Given(l.options, "CONNECTION_DISCOVERY_SERVER_ID")
    IN  /\ l.kind \in Kinds
        /\ \A i \in DOMAIN l.options :
              /\ l.options[i].opt \notin {"HELP", "UNKNOWN_OPT"}
              /\ Arg(Checks[l.options[i].opt], l.options[i].arg)
        /\ connects => OfItsFamily("CONNECTION_ADDRESS")
        /\ l.kind = "server" =>
              /\ OfItsFamily("LISTENING_ADDRESS")
              /\ connects => /\ ~Alike(Said(l, "LISTENING_PORT", 16166),
                                       Said(l, "CONNECTION_PORT", 16166), 65536)
                             /\ ~Alike(Said(l, "LISTENING_DISCOVERY_SERVER_ID", 0),
                                       Said(l, "CONNECTION_DISCOVERY_SERVER_ID", 0), 65536)

-----------------------------------------------------------------------------
(* Properties                                                              *)

\* A process that is linked to a server asked for just that one: its line
\* names the transport, port and id of the server's line, however options
\* were repeated, mixed with ignored ones or left to their defaults.
LinkedAsAsked == \A l \in linked : AsksFor(line[l[1]], line[l[2]])

\* Servers whose prefixes are one never find each other, though main() only
\* refuses equal ids.
Names(l, k) ==
    /\ AsksFor(l, k)
    /\ ~Alike(Said(l, "LISTENING_DISCOVERY_SERVER_ID", 0),
              Said(k, "LISTENING_DISCOVERY_SERVER_ID", 0), 256)

OfKind(kind) == {p \in Processes : line[p].kind = kind}

\* The lines of a publisher p and a subscriber q name one topic and lead to
\* one server, or to two of which one names the other; and q does not use
\* TCPv6, for which the subscriber makes a locator without an address.
Asked(p, q, s, t) ==
    /\ \A x \in {p, q, s, t} : Sound(line[x])
    /\ SaysTransport(line[q]) # "tcpv6"
    /\ Said(line[p], "TOPIC", "HelloWorldTopic") = Said(line[q], "TOPIC", "HelloWorldTopic")
    /\ AsksFor(line[p], line[s]) /\ AsksFor(line[q], line[t])
    /\ s = t \/ Names(line[s], line[t]) \/ Names(line[t], line[s])

\* A publisher and a subscriber whose lines ask for it meet, in whatever
\* order all are started, unless one of the processes ends first.
WordsMeet ==
    <>(\A p \in OfKind("publisher"), q \in OfKind("subscriber"),
          s, t \in OfKind("server") :
          \/ <<p, q>> \in matched
          \/ \E x \in {p, q, s, t} : status[x] = "ended"
          \/ ~Asked(p, q, s, t))
=============================================================================
