------------------------------ MODULE CallOnce ------------------------------
(***************************************************************************)
(* What the request/reply exchange of ddsQos promises to its users: a      *)
(* server answers one request at most once, an answer is for a request     *)
(* that somebody made, and a client sees an answer at most once and only   *)
(* after it has asked itself.  Nothing is promised about WHO sees an       *)
(* answer (the reply carries no caller) and nothing about its arrival.     *)
(***************************************************************************)
EXTENDS Naturals

CONSTANTS Clients, Servers

VARIABLES
    asked,     \* clients that made their request
    answered,  \* how often server s has sent its answer to r's request
    got        \* how often each client has printed each answer

vars == <<asked, answered, got>>

\* An answer is named after the server and the request it is made for.
Answers == Servers \X Clients

TypeOK ==
    /\ asked \subseteq Clients
    /\ answered \in [Answers -> 0..1]
    /\ got \in [Clients -> [Answers -> 0..1]]

Init ==
    /\ asked = {}
    /\ answered = [a \in Answers |-> 0]
    /\ got = [c \in Clients |-> [a \in Answers |-> 0]]

Ask(c) ==
    /\ c \notin asked
    /\ asked' = asked \cup {c}
    /\ UNCHANGED <<answered, got>>

Answer(s, r) ==
    /\ r \in asked /\ answered[<<s, r>>] = 0
    /\ answered' = [answered EXCEPT ![<<s, r>>] = 1]
    /\ UNCHANGED <<asked, got>>

Get(c, a) ==
    /\ c \in asked /\ answered[a] = 1 /\ got[c][a] = 0
    /\ got' = [got EXCEPT ![c][a] = 1]
    /\ UNCHANGED <<asked, answered>>

Next ==
    \/ \E c \in Clients : Ask(c)
    \/ \E s \in Servers, r \in Clients : Answer(s, r)
    \/ \E c \in Clients, a \in Answers : Get(c, a)

Spec == Init /\ [][Next]_vars
=============================================================================
