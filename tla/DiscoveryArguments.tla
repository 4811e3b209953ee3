------------------------- MODULE DiscoveryArguments -------------------------
(***************************************************************************)
(* What main() of DiscoveryServerExample makes of a command line, up to    *)
(* the switch that starts a publisher, a subscriber or a server.           *)
(*                                                                         *)
(* A command line is [kind |-> its first argument, options |-> a sequence  *)
(* of [opt, arg]], an argument [num |-> n] where strtol reads all of it    *)
(* and [word |-> w] elsewhere.  --samples, --interval and --timeout only   *)
(* bound run() and leave the configuration here as it is.                  *)
(***************************************************************************)
EXTENDS Integers, Sequences, SequencesExt

Kinds == {"publisher", "subscriber", "server"}
Transports == {"udpv4", "udpv6", "tcpv4", "tcpv6"}

\* The check of each option in the usage table.
Checks == [HELP |-> "None", UNKNOWN_OPT |-> "None", TOPIC |-> "String",
           SAMPLES |-> "Numeric", INTERVAL |-> "Numeric", TIMEOUT |-> "Numeric",
           TRANSPORT |-> "Transport", CONNECTION_ADDRESS |-> "String",
           CONNECTION_PORT |-> "Numeric",
           CONNECTION_DISCOVERY_SERVER_ID |-> "Numeric",
           LISTENING_ADDRESS |-> "String", LISTENING_PORT |-> "Numeric",
           LISTENING_DISCOVERY_SERVER_ID |-> "Numeric"]

Arg(check, arg) ==
    CASE check = "Numeric" -> "num" \in DOMAIN arg
      [] check = "Transport" -> "word" \in DOMAIN arg /\ arg.word \in Transports
      [] OTHER -> TRUE

ParseError(options) ==
    \E i \in DOMAIN options : ~Arg(Checks[options[i].opt], options[i].arg)

Given(options, opt) == \E i \in DOMAIN options : options[i].opt = opt

Uint16(n) == n % 65536

Defaults == [topic |-> "HelloWorldTopic", transport |-> "udpv4",
             connectionAddress |-> "127.0.0.1", connectionPort |-> 16166,
             connectionId |-> 0, idSet |-> FALSE,
             listeningAddress |-> "127.0.0.1", listeningPort |-> 16166,
             listeningId |-> 0]

\* Who an option is for; the others ignore it with a warning.  The variant
\* takes the port of the connection for an option of publishers; see
\* TerminateWait for the definitions whose name ends in _bug.
For_bug(opt) ==
    CASE opt \in {"TOPIC", "SAMPLES"} -> {"publisher", "subscriber"}
      [] opt \in {"INTERVAL", "CONNECTION_PORT"} -> {"publisher"}
      [] opt \in {"LISTENING_ADDRESS", "LISTENING_PORT",
                  "LISTENING_DISCOVERY_SERVER_ID", "TIMEOUT"} -> {"server"}
      [] OTHER -> Kinds

For(opt) ==
    CASE opt \in {"TOPIC", "SAMPLES"} -> {"publisher", "subscriber"}
      [] opt = "INTERVAL" -> {"publisher"}
      [] opt \in {"LISTENING_ADDRESS", "LISTENING_PORT",
                  "LISTENING_DISCOVERY_SERVER_ID", "TIMEOUT"} -> {"server"}
      [] OTHER -> Kinds

\* One turn of the loop over the options.
Assign(config, o, kind) ==
    IF kind \notin For(o.opt) THEN config ELSE
    CASE o.opt = "TOPIC" -> [config EXCEPT !.topic = o.arg.word]
      [] o.opt = "TRANSPORT" -> [config EXCEPT !.transport = o.arg.word]
      [] o.opt = "CONNECTION_PORT" -> [config EXCEPT !.connectionPort = Uint16(o.arg.num)]
      [] o.opt = "CONNECTION_ADDRESS" -> [config EXCEPT !.connectionAddress = o.arg.word]
      [] o.opt = "CONNECTION_DISCOVERY_SERVER_ID" ->
            [config EXCEPT !.connectionId = Uint16(o.arg.num), !.idSet = TRUE]
      [] o.opt = "LISTENING_PORT" -> [config EXCEPT !.listeningPort = Uint16(o.arg.num)]
      [] o.opt = "LISTENING_ADDRESS" -> [config EXCEPT !.listeningAddress = o.arg.word]
      [] o.opt = "LISTENING_DISCOVERY_SERVER_ID" ->
            [config EXCEPT !.listeningId = Uint16(o.arg.num)]
      [] OTHER -> config

Configuration(line) ==
    FoldLeft(LAMBDA config, o : Assign(config, o, line.kind), Defaults, line.options)

\* The two checks a server that connects to another must pass.
SameServer(config) ==
    /\ config.idSet
    /\ \/ config.listeningId = config.connectionId
       \/ /\ config.listeningAddress = config.connectionAddress
          /\ config.listeningPort = config.connectionPort

\* What main() does before the switch: print the usage and end well, end with
\* an error, or go on.
Outcome(line) ==
    IF line.kind = "help" THEN "usage"
    ELSE IF line.kind \notin Kinds \/ ParseError(line.options) THEN "error"
    ELSE IF Given(line.options, "HELP") THEN "usage"
    ELSE IF Given(line.options, "UNKNOWN_OPT") THEN "error"
    ELSE IF line.kind = "server" /\ SameServer(Configuration(line)) THEN "error"
    ELSE "start"
=============================================================================
