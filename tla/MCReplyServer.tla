--------------------------- MODULE MCReplyServer ---------------------------
(* Small instances of ReplyServer.  Two clients are enough for an answer to *)
(* reach the one that did not ask for it, and with one slot the second     *)
(* request finds the server without a participant to spare.                *)
EXTENDS ReplyServer
=============================================================================
