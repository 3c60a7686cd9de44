-------------------------- MODULE MCBrowserSession --------------------------
(* Instances of BrowserSession for TLC. *)
EXTENDS BrowserSession, TLC

\* Sessions and commands are interchangeable.
Symmetry == Permutations(Agents) \cup Permutations(Operators) \cup Permutations(Ids)
=============================================================================
