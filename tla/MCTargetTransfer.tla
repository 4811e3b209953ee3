-------------------------- MODULE MCTargetTransfer --------------------------
(* All words that RunPublisher and RunSubscriber treat alike; two          *)
(* subscribers, so that one can be late, slow or gone while the other is   *)
(* served.                                                                 *)
EXTENDS TargetTransfer

MCTypes == TestType \ {"Test", "Grpc"}
=============================================================================
