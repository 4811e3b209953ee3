------------------------- MODULE MCEntityLifecycle -------------------------
(* A small instance of EntityLifecycle: two objects of any of the ten      *)
(* classes compete for one participant slot, so that a slot that is not    *)
(* given back is missed, and one class may make two endpoints.             *)
EXTENDS EntityLifecycle
=============================================================================
