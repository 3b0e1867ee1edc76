---------------------------- MODULE FeatureStore ----------------------------
(***************************************************************************)
(* What the middle layer promises the GPU application, whatever it does in *)
(* between: a submitted request is answered exactly once, either with the  *)
(* feature row of its own node or with an error, and the application       *)
(* collects every answer once.                                             *)
(***************************************************************************)
CONSTANT Reqs

VARIABLE status

Init == status = [r \in Reqs |-> "idle"]

Submit(r) ==
  /\ status[r] = "idle"
  /\ status' = [status EXCEPT ![r] = "pending"]

Answer(r) ==
  /\ status[r] = "pending"
  /\ \E a \in {"row", "error"} : status' = [status EXCEPT ![r] = a]

Collect(r) ==
  /\ status[r] \in {"row", "error"}
  /\ status' = [status EXCEPT ![r] = "idle"]

Next == \E r \in Reqs : Submit(r) \/ Answer(r) \/ Collect(r)

Spec == Init /\ [][Next]_status
=============================================================================
