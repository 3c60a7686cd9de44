--------------------------- MODULE MCBoxLifecycle ---------------------------
(* BoxLifecycle on small instances. *)
EXTENDS BoxLifecycle, TLC

(* Commands differ only in the verb they were given. *)
Symmetry == Permutations(Procs)
=============================================================================
