----------------------------- MODULE BoxStatus ------------------------------
(***************************************************************************)
(* The status machine of a box (the ST_ constants of env.rs), as one       *)
(* command after another sees it: lifecycle commands move a box along it.  *)
(***************************************************************************)
VARIABLE status

Init == status \in {"absent", "created", "running", "idle", "proposed",
                    "applied", "aborted"}

Create == status = "absent" /\ status' = "created"
Run == status \in {"created", "running", "idle"} /\ status' = "running"
Rest == status \in {"created", "running", "idle"} /\ status' = "idle"
Propose == status \in {"created", "running", "idle"} /\ status' = "proposed"
Apply == status = "proposed" /\ status' = "applied"
Abort == status \notin {"absent", "applied"} /\ status' = "aborted"
Remove == status # "absent" /\ status' = "absent"

Next == Create \/ Run \/ Rest \/ Propose \/ Apply \/ Abort \/ Remove

Spec == Init /\ [][Next]_status
=============================================================================
