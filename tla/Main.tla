-------------------------------- MODULE Main --------------------------------
(***************************************************************************)
(* main() of ddsQos: processes started as discover, pub or sub with a QoS  *)
(* word, from the parsing of the word to the end of Main::Run...           *)
(*                                                                         *)
(* Publishers and subscribers are clients of a discovery server: two of    *)
(* them meet only while a discover process serves where both look for it,  *)
(* which each process reads from the files DiscoverIP and DiscoverPort.    *)
(* What is exchanged then is the subject of TargetTransfer and             *)
(* ReplyServer.                                                            *)
(***************************************************************************)
EXTENDS TestTypes, FiniteSets, Integers

CONSTANTS Process,
          node,    \* argv[1] of each process: discover, pub or sub
          Files,   \* contents of the two files: [ip, port], port -1 if missing
          Shipped, \* what they are at first
          Here,    \* the addresses of the host of the discover processes
          DNS,     \* name -> the first IPv4 address it stands for
          MaxEdits \* bound: how often the files change

ASSUME NodeAssumption == node \in [Process -> {"discover", "pub", "sub"}]
ASSUME FilesAssumption ==
  Shipped \in Files /\ \A f \in Files : f.port \in Int
ASSUME EditsAssumption == MaxEdits \in Nat

VARIABLES file, edits, \* the two files now, and how often they changed
          server,  \* the address and the port a process serves at or looks at
          word,    \* argv[2]; "Other" for a word main() does not know
          m_type,  \* what the switch made of it, or what was there before
          pc,
          open,    \* did init() create the endpoint?
          met      \* pairs of a publisher and a subscriber that ever matched

vars == <<file, edits, server, word, m_type, pc, open, met>>
started == <<server, word, m_type, open>>
files == <<file, edits>>

Pubs == {p \in Process : node[p] = "pub"}
Subs == {p \in Process : node[p] = "sub"}

Nowhere == [ip |-> "", port |-> 0]

Init ==
  /\ file = Shipped /\ edits = 0
  /\ server = [p \in Process |-> Nowhere]
  /\ word \in [Process -> Word]
  /\ \A p \in Process : node[p] = "discover" => word[p] = "Default"
  /\ m_type = [p \in Process |-> "Garbage"]
  /\ pc = [p \in Process |-> "main"]
  /\ open = [p \in Process |-> FALSE]
  /\ met = {}

-----------------------------------------------------------------------------
(* init() takes the text of DiscoverIP for a name unless it is an address. *)
(* It fails without an answer.  The port is an int, -1 without a file, and *)
(* becomes an unsigned short.                                              *)
Resolved(ip) == IF ip \in DOMAIN DNS THEN DNS[ip] ELSE ip

unsignedShort(port) == port % 65536

ServerOf(f) == [ip |-> Resolved(f.ip), port |-> unsignedShort(f.port)]

\* A change after which no process starts is left out.
Edit(f) ==
  /\ edits < MaxEdits /\ f # file /\ \E p \in Process : pc[p] = "main"
  /\ file' = f /\ edits' = edits + 1
  /\ UNCHANGED <<started, pc, met>>

(* The switch, the call of Run... and its init().  m_type has no           *)
(* initializer, so an unknown word leaves any value.  What init() returns  *)
(* is ignored: without an endpoint a publisher waits for ever.             *)
FirstStep(p, type) ==
  CASE node[p] = "discover"                    -> "serving"
    [] node[p] = "sub"                         -> "listening"
    [] node[p] = "pub" /\ type = "BigData"     -> "sending"
    [] OTHER                                   -> "waiting"

main(p) ==
  /\ pc[p] = "main"
  /\ server' = [server EXCEPT ![p] = ServerOf(file)]
  /\ \E type \in TypesOf(word[p]), created \in BOOLEAN :
       /\ created => ServerOf(file).ip # ""
       /\ m_type' = [m_type EXCEPT ![p] = type]
       /\ open' = [open EXCEPT ![p] = created]
       /\ pc' = [pc EXCEPT ![p] = IF node[p] = "discover" /\ ~created
                                  THEN "exited" ELSE FirstStep(p, type)]
  /\ UNCHANGED <<files, word, met>>

(* The participant of d listens at every address of its host; it need not  *)
(* be the one in its file.                                                 *)
Serves(d, p) ==
  /\ pc[d] = "serving"
  /\ server[p].ip \in Here /\ server[p].port = server[d].port

Discovered(p, q) ==
  /\ \E d \in Process : Serves(d, p) /\ Serves(d, q)
  /\ pc[p] \in {"waiting", "sending", "staying", "asking"} /\ open[p]
  /\ pc[q] = "listening" /\ open[q]
  /\ Matches(m_type[p], m_type[q])
  /\ <<p, q>> \notin met
  /\ met' = met \cup {<<p, q>>}
  /\ UNCHANGED <<files, started, pc>>

(* m_matched counts the readers there are now.                             *)
TargetMatched(p) == \E q \in Subs : <<p, q>> \in met /\ pc[q] = "listening"

(* RunPublisher and RunGrpc leave their loop and send; then some stay,     *)
(* some ask for the reply, and the others delete the publisher and end.    *)
AfterSending(type) ==
  CASE type \in {"Durability", "ResourceLimits"} -> "staying"
    [] type \in {"Test", "Grpc"}                 -> "asking"
    [] OTHER                                     -> "exited"

SendMsg(p) ==
  /\ pc[p] = "waiting"
  /\ TargetMatched(p)
  /\ pc' = [pc EXCEPT ![p] = AfterSending(m_type[p])]
  /\ UNCHANGED <<files, started, met>>

(* RunPubDataChunk waits a second, not for a reader, and never returns.    *)
SendChunks(p) ==
  /\ pc[p] = "sending"
  /\ pc' = [pc EXCEPT ![p] = "staying"]
  /\ UNCHANGED <<files, started, met>>

Kill(p) ==
  /\ pc[p] # "exited"
  /\ pc' = [pc EXCEPT ![p] = "exited"]
  /\ UNCHANGED <<files, started, met>>

Run(p) == main(p) \/ SendMsg(p) \/ SendChunks(p)

Next ==
  \/ \E p \in Process : Run(p) \/ Kill(p)
  \/ \E p \in Pubs, q \in Subs : Discovered(p, q)
  \/ \E f \in Files : Edit(f)

Spec ==
  /\ Init /\ [][Next]_vars
  /\ \A p \in Process : WF_vars(Run(p))
  /\ \A p \in Pubs, q \in Subs : WF_vars(Discovered(p, q))

-----------------------------------------------------------------------------
(* A publisher and a subscriber started with the same known word meet as   *)
(* soon as a discover process serves that read the same DiscoverPort, or   *)
(* one that an unsigned short takes for the same, whatever the files say   *)
(* by then: the tables of initPubType and initSubType, the partitions and  *)
(* the topics fit, for every word.                                         *)
Up(p) == pc[p] # "main" /\ open[p]

SameWordMeets ==
  \A p \in Pubs, q \in Subs, d \in Process :
    /\ pc[d] = "serving" /\ Up(p) /\ Up(q)
    /\ {server[p].ip, server[q].ip} \subseteq Here
    /\ \A x \in {p, q} : (server[x].port - server[d].port) % 65536 = 0
    /\ word[p] = word[q] /\ word[p] # "Other"
    ~> <<p, q>> \in met \/ \E x \in {p, q, d} : pc[x] = "exited"

(* Whoever meets, word by word alike or not: a subscriber that keeps all   *)
(* or asks for reliability never listens to a best-effort publisher, one   *)
(* with a deadline only to a publisher that promised it, and the           *)
(* partitions stay apart.                                                  *)
MeetsWhatItAskedFor ==
  \A pair \in met :
    LET pub == m_type[pair[1]]
        sub == m_type[pair[2]]
    IN /\ sub \in KeepsLarge \cup KeepsSmall \cup {"ReliablityReliable"}
            => pub # "ReliablityBestEffort"
       /\ sub = "Deadline" => pub = "Deadline"
       /\ "PartitionA" \in {pub, sub} => pub = sub
       /\ "PartitionB" \in {pub, sub} => pub = sub
=============================================================================
