------------------------ MODULE MCOwnershipStrength ------------------------
(* Two publishers of the same strength, one stronger with the highest GUID. *)
EXTENDS OwnershipStrength

TiedAndStronger == [p \in Publishers |-> IF p = 3 THEN 7 ELSE 5]

=============================================================================
