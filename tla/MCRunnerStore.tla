--------------------------- MODULE MCRunnerStore ---------------------------
(* RunnerStore on small instances. *)
EXTENDS RunnerStore, TLC

\* Channels are interchangeable, and so are digests: the one that is chosen for
\* the requests that carry none is never read.
Symmetry == {p @@ q : p \in Permutations(Sessions), q \in Permutations(Digests)}

(* The view: of a worker, what a later step or a property can still read; of *)
(* the workers that opened a lock or are removing a directory, whether there *)
(* was one and who may still come back to it.                                *)
Mind(s) ==
  [ask |-> IF ~Working(s) THEN <<>>
           ELSE IF ask[s].rpc = "create" THEN <<"create", Op(s)>>
           ELSE <<ask[s].rpc, ask[s].box>>,
   saw |-> IF pc[s] \in {"open", "lock", "start"} THEN saw[s] ELSE None,
   todo |-> IF Working(s) THEN todo[s] ELSE {},
   cell |-> IF pc[s] \in {"truncate", "write"} THEN cell[s] ELSE NoCell,
   hung |-> hung[s] /\ Working(s) /\ ask[s].rpc \in {"create", "exec", "export"},
   got |-> IF told[s] = "made" \/ (ask[s].rpc = "create" /\ saw[s] # None)
             THEN Op(s) ELSE <<>>]

Shape(d) ==
  [d EXCEPT !.lock = <<@ = {}, {s \in @ : pc[s] = "lock"}>>,
            !.opened = {s \in @ : Working(s)},
            !.reapers = <<@ = {}, {s \in @ : Wiping(s)}>>]

View ==
  <<clock, pc, creating, [b \in Boxes |-> Shape(live[b])], [s \in Sessions |-> Mind(s)]>>
=============================================================================
