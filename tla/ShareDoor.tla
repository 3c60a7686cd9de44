------------------------------ MODULE ShareDoor ------------------------------
(***************************************************************************)
(* What sharing promises, whatever files and processes it takes: one share *)
(* at a time stands open on a box, and a share that was stopped, ended or  *)
(* given up never opens again.                                             *)
(***************************************************************************)
CONSTANTS Shares, Nobody

VARIABLES open, over

Init == open = Nobody /\ over = {}

Open(p) ==
  /\ open = Nobody /\ p \notin over
  /\ open' = p /\ UNCHANGED over

\* Stopped, wound up, dead, or never opened at all.
Shut(p) ==
  /\ p \notin over
  /\ over' = over \cup {p}
  /\ open' = IF open = p THEN Nobody ELSE open

Next == \E p \in Shares : Open(p) \/ Shut(p)

Spec == Init /\ [][Next]_<<open, over>>
=============================================================================
