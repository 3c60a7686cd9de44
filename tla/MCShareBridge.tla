---------------------------- MODULE MCShareBridge ----------------------------
(* Instances of ShareBridge for TLC. *)
EXTENDS ShareBridge, TLC

CONSTANTS c1, c2, s1, s2

\* A request each, or two streams on one connection beside a peer that may
\* say nothing.
OnConns == [tunnel |-> s1 :> c1 @@ s2 :> c2, p2p |-> s1 :> c1 @@ s2 :> c1]
=============================================================================
