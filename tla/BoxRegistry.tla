---------------------------- MODULE BoxRegistry ----------------------------
(* What a runner promises its clients: names that stand for boxes.  A box   *)
(* is made of a request, known by its digest, while its name is free; it    *)
(* may go at any time; and a client learns only of a box that was made of   *)
(* what it asked for.                                                       *)
EXTENDS Naturals

CONSTANTS Sessions, Boxes, Digests, None

VARIABLES
  box,  \* what a name stands for
  got   \* what a client has been told of: a name and a digest

Init ==
  /\ box = [b \in Boxes |-> None]
  /\ got = [s \in Sessions |-> <<>>]

\* The answer may be lost on its way.
Make(s, b, d) ==
  /\ box[b] = None
  /\ box' = [box EXCEPT ![b] = d]
  /\ \/ got' = [got EXCEPT ![s] = <<b, d>>]
     \/ UNCHANGED got

Find(s, b) ==
  /\ box[b] # None
  /\ got' = [got EXCEPT ![s] = <<b, box[b]>>]
  /\ UNCHANGED box

Lose(b) ==
  /\ box[b] # None
  /\ box' = [box EXCEPT ![b] = None]
  /\ UNCHANGED got

Next ==
  \/ \E s \in Sessions, b \in Boxes : Find(s, b) \/ \E d \in Digests : Make(s, b, d)
  \/ \E b \in Boxes : Lose(b)

Spec == Init /\ [][Next]_<<box, got>>
=============================================================================
