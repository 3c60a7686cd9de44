--------------------------- MODULE MCPageSession ---------------------------
(* Instances of PageSession for TLC. *)
EXTENDS PageSession
=============================================================================
