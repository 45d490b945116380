-------------------------------- MODULE Ledger --------------------------------
(***************************************************************************)
(* What the control plane promises of a session and the rows stored for it: *)
(* rows are added while it is active and at no other time, it ends once and *)
(* for all, and only an ended one is deleted, its rows with it.             *)
(***************************************************************************)
CONSTANTS Sessions, Rows

VARIABLES status, rows

ledger == <<status, rows>>

Init ==
  /\ status = [s \in Sessions |-> "none"]
  /\ rows = [s \in Sessions |-> {}]

Become(s, new) == status' = [status EXCEPT ![s] = new]

Create(s) == status[s] = "none" /\ Become(s, "active") /\ UNCHANGED rows

Append(s, r) ==
  /\ status[s] = "active"
  /\ \A t \in Sessions : r \notin rows[t]
  /\ rows' = [rows EXCEPT ![s] = @ \cup {r}]
  /\ UNCHANGED status

End(s) == status[s] = "active" /\ Become(s, "ended") /\ UNCHANGED rows

Delete(s) ==
  /\ status[s] = "ended" /\ Become(s, "deleted")
  /\ rows' = [rows EXCEPT ![s] = {}]

Next ==
  \E s \in Sessions :
    Create(s) \/ End(s) \/ Delete(s) \/ \E r \in Rows : Append(s, r)

Spec == Init /\ [][Next]_ledger
=============================================================================
