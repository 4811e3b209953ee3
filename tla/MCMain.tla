-------------------------------- MODULE MCMain --------------------------------
(***************************************************************************)
(* The processes of ddsQos, and the registry of the discover process; a    *)
(* behaviour has one of the two:                                           *)
(*  "words":    a process of each kind, with the shipped files and one     *)
(*              change of them: a name, nothing, another host, the same    *)
(*              port for an unsigned short, no port;                       *)
(*  "registry": two publishers and a subscriber that come and go, two of   *)
(*              which come back, and counters that do not start from       *)
(*              nought.                                                    *)
(***************************************************************************)
EXTENDS Main, DiscoverNames, TLC

CONSTANTS d1, p1, s1

VARIABLE part

MCProcess == {d1, p1, s1}
MCNode == d1 :> "discover" @@ p1 :> "pub" @@ s1 :> "sub"
MCShipped == [ip |-> "192.168.5.165", port |-> 9090]
MCFiles == {MCShipped,
            [MCShipped EXCEPT !.ip = "server"],
            [MCShipped EXCEPT !.ip = ""],
            [MCShipped EXCEPT !.ip = "192.168.5.1"],
            [MCShipped EXCEPT !.port = 9090 + 65536],
            [MCShipped EXCEPT !.port = -1]}
MCHere == {"192.168.5.165", "127.0.0.1"}
MCDNS == [server |-> "127.0.0.1"]

MCParticipants == {"first", "second", "reader"}
MCWithReader == {"reader"}
MCname == [first |-> "pub", second |-> "pub", reader |-> "sub"]
MCMaxChanges == [first |-> 3, second |-> 1, reader |-> 3]
MCGarbage == {7}

MCInit ==
    /\ Init /\ NamesInit
    /\ \/ part = "words"
       \/ part = "registry" /\ word = [p \in Process |-> "Default"]

MCNext ==
    /\ UNCHANGED part
    /\ \/ part = "words" /\ Next /\ UNCHANGED namesVars
       \/ part = "registry" /\ NamesNext /\ UNCHANGED vars

MCFairness ==
    /\ \A p \in Process : WF_vars(part = "words" /\ Run(p))
    /\ \A p \in Pubs, q \in Subs : WF_vars(part = "words" /\ Discovered(p, q))

MCSpec == MCInit /\ [][MCNext]_<<part, vars, namesVars>> /\ MCFairness
=============================================================================
