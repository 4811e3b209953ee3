---------------------------- MODULE BigDateTcp ----------------------------
(***************************************************************************)
(* BigDateTCP: sender.cpp sends Total bytes over one TCP connection, at    *)
(* most a buffer at a time, and receiver.cpp reads until it has Total      *)
(* bytes.  send() and read() may handle less than they are asked for; the  *)
(* sender may connect, send and close before the receiver accepts; the     *)
(* connection may be reset.  All bytes are equal, so counts stand for the  *)
(* data; TCP keeps their order.                                            *)
(***************************************************************************)
EXTENDS Naturals

CONSTANTS
    Total,       \* GIGABYTE
    BufferSize   \* BUFFER_SIZE of both programs

ASSUME TotalAssumption == Total \in Nat \ {0}
ASSUME BufferSizeAssumption == BufferSize \in Nat \ {0}

VARIABLES
    spc, sent, sverdict,        \* sender: place, total_bytes_sent, its report
    rpc, received, rverdict,    \* receiver: place, total_bytes_received, report
    wire,                       \* bytes in the socket buffers
    reset                       \* the connection was reset

senderVars == <<spc, sent, sverdict>>
receiverVars == <<rpc, received, rverdict>>
tcpVars == <<senderVars, receiverVars, wire, reset>>

Verdicts == {"none", "ok", "failed"}

TypeOK ==
    /\ spc \in {"start", "exited", "sending", "reported", "closed"}
    /\ sent \in 0..Total
    /\ sverdict \in Verdicts
    /\ rpc \in {"start", "listening", "reading", "eof", "broken", "full",
                "closed"}
    /\ received \in 0..Total
    /\ rverdict \in Verdicts
    /\ wire \in 0..Total
    /\ reset \in BOOLEAN

TcpInit ==
    /\ spc = "start" /\ sent = 0 /\ sverdict = "none"
    /\ rpc = "start" /\ received = 0 /\ rverdict = "none"
    /\ wire = 0 /\ reset = FALSE

\* Definitions whose name ends in _bug are variants with a plausible mistake in
\* them; no action uses them.  They show that the properties can fail.

\* The last buffer is forgotten.
Verdict_bug(n) == IF n + BufferSize > Total THEN "ok" ELSE "failed"
Verdict(n) == IF n = Total THEN "ok" ELSE "failed"

-----------------------------------------------------------------------------
(* sender.cpp.                                                             *)

\* Nobody listens, or socket() fails: the program ends without a report.
ConnectFails ==
    /\ spc = "start"
    /\ spc' = "exited"
    /\ UNCHANGED <<sent, sverdict, receiverVars, wire, reset>>

Connect ==
    /\ spc = "start" /\ rpc = "listening"
    /\ spc' = "sending"
    /\ UNCHANGED <<sent, sverdict, receiverVars, wire, reset>>

\* A whole buffer every time.
Sendable_bug == 1..BufferSize

\* send() may accept less than it is given.
Sendable == {n \in 1..BufferSize : n <= Total - sent}

\* One turn of the loop; send() accepts n bytes of the min(buffer, remaining).
Send ==
    /\ spc = "sending" /\ sent < Total /\ ~reset
    /\ \E n \in Sendable :
          /\ sent' = sent + n
          /\ wire' = wire + n
    /\ UNCHANGED <<spc, sverdict, receiverVars, reset>>

\* The loop ends, because all is sent or because send() failed; the sender
\* reports.
SenderReport ==
    /\ spc = "sending" /\ (sent = Total \/ reset)
    /\ sverdict' = Verdict(sent)
    /\ spc' = "reported"
    /\ UNCHANGED <<sent, receiverVars, wire, reset>>

\* The sender is killed: by SIGPIPE, when the receiver has closed, or by hand.
SenderKilled ==
    /\ spc = "sending"
    /\ spc' = "closed"
    /\ UNCHANGED <<sent, sverdict, receiverVars, wire, reset>>

CloseSender ==
    /\ spc = "reported"
    /\ spc' = "closed"
    /\ UNCHANGED <<sent, sverdict, receiverVars, wire, reset>>

-----------------------------------------------------------------------------
(* receiver.cpp.                                                           *)

\* socket(), setsockopt(), bind() and listen().
Listen ==
    /\ rpc = "start"
    /\ rpc' = "listening"
    /\ UNCHANGED <<senderVars, received, rverdict, wire, reset>>

\* One of the four fails: exit(EXIT_FAILURE), without a report.  A socket() that
\* fails returns -1, which the comparison with 0 lets pass; setsockopt() then
\* fails on it.
ListenFails ==
    /\ rpc = "start"
    /\ rpc' = "closed"
    /\ UNCHANGED <<senderVars, received, rverdict, wire, reset>>

\* accept() returns once a connection is in the backlog, however old; one that
\* was reset there may make it fail, which ends the program.
Accept ==
    /\ rpc = "listening" /\ spc \notin {"start", "exited"}
    /\ rpc' = "reading" \/ (reset /\ rpc' = "closed")
    /\ UNCHANGED <<senderVars, received, rverdict, wire, reset>>

\* read() may return less than there is.
Readable == {n \in 1..BufferSize : n <= wire}

\* read() returns n bytes; it asks for a whole buffer, never for the rest.
Read ==
    /\ rpc = "reading" /\ received < Total
    /\ \E n \in Readable :
          /\ received' = received + n
          /\ wire' = wire - n
    /\ UNCHANGED <<senderVars, rpc, rverdict, reset>>

\* Nothing to read is taken for the end, or the end for nothing to read.
AtEnd_bug == wire = 0 /\ ~reset
AtEnd_never_bug == FALSE

\* read() returns 0 when the sender has closed and everything is read.
AtEnd == wire = 0 /\ spc = "closed" /\ ~reset

\* The loop ends: all is there, read() returns 0, or read() fails.
ReadAll ==
    /\ rpc = "reading" /\ received >= Total
    /\ rpc' = "full"
    /\ UNCHANGED <<senderVars, received, rverdict, wire, reset>>

ReadEnd ==
    /\ rpc = "reading" /\ received < Total
    /\ AtEnd
    /\ rpc' = "eof"
    /\ UNCHANGED <<senderVars, received, rverdict, wire, reset>>

ReadError ==
    /\ rpc = "reading" /\ received < Total /\ reset
    /\ rpc' = "broken"
    /\ UNCHANGED <<senderVars, received, rverdict, wire, reset>>

\* The report, and both close().
ReceiverReport ==
    /\ rpc \in {"full", "eof", "broken"}
    /\ rverdict' = Verdict(received)
    /\ rpc' = "closed"
    /\ UNCHANGED <<senderVars, received, wire, reset>>

-----------------------------------------------------------------------------
\* The network breaks the connection; bytes not yet read may be lost.
Reset ==
    /\ spc \notin {"start", "exited"} /\ rpc \in {"listening", "reading"}
    /\ ~reset
    /\ reset' = TRUE
    /\ wire' \in 0..wire
    /\ UNCHANGED <<senderVars, receiverVars>>

SenderStep == Connect \/ Send \/ SenderReport \/ CloseSender
ReceiverStep ==
    Listen \/ Accept \/ Read \/ ReadAll \/ ReadEnd \/ ReadError \/ ReceiverReport

TcpNext ==
    \/ SenderStep \/ ConnectFails \/ SenderKilled
    \/ ReceiverStep \/ ListenFails
    \/ Reset

TcpSpec == TcpInit /\ [][TcpNext]_tcpVars

\* Both programs keep running; a send() with room and a read() with data, an
\* end of file or an error return.
FairSpec == TcpSpec /\ WF_tcpVars(SenderStep) /\ WF_tcpVars(ReceiverStep)

-----------------------------------------------------------------------------
\* The pair implements ByteTransfer: nothing is received that was not sent,
\* counts never pass Total although read() is never asked for the rest only,
\* and each side reports once, about a count that no longer changes.
Abstract == INSTANCE ByteTransfer
ImplementsByteTransfer == Abstract!Spec

\* A receiver that reports success faces a sender that has sent everything
\* and cannot report a failure, and nothing is left on the way.
SuccessIsComplete ==
    rverdict = "ok" => sent = Total /\ wire = 0 /\ sverdict # "failed"

\* receiver.cpp:60, "Sender closed connection before sending 1GB.", is true
\* whenever it is printed.
EndOfFileIsTruthful ==
    rpc = "eof" => spc = "closed" /\ sent < Total

\* A connected pair ends with the receiver closed, with or without a reset.
ConnectedPairEnds ==
    spc = "sending" ~> rpc = "closed"
=============================================================================
