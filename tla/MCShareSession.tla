--------------------------- MODULE MCShareSession ---------------------------
(* Instances of ShareSession for TLC. *)
EXTENDS ShareSession, TLC

\* Processes of a kind and grants are interchangeable.
Symmetry == Permutations(Serves) \cup Permutations(Ops) \cup Permutations(Grants)
=============================================================================
