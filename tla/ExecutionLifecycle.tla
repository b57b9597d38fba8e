------------------------ MODULE ExecutionLifecycle ------------------------
(***************************************************************************)
(* What the pending-execution queue promises of each execution, whatever   *)
(* processes serve it: it is queued, it may start once, it ends once with  *)
(* one outcome that never changes, and it is never dropped in between.     *)
(***************************************************************************)
CONSTANT Exec

VARIABLE phase

Outcome == {"success", "error"}
Phase == {"unknown", "queued", "running"} \cup Outcome

TypeOK == phase \in [Exec -> Phase]

Init == phase = [e \in Exec |-> "unknown"]

Submit(e) == phase[e] = "unknown" /\ phase' = [phase EXCEPT ![e] = "queued"]
Start(e) == phase[e] = "queued" /\ phase' = [phase EXCEPT ![e] = "running"]
End(e, outcome) ==
    /\ phase[e] = "running" \/ (phase[e] = "queued" /\ outcome = "error")
    /\ phase' = [phase EXCEPT ![e] = outcome]

Next ==
    \E e \in Exec : Submit(e) \/ Start(e) \/ \E outcome \in Outcome : End(e, outcome)

Spec == Init /\ [][Next]_phase

=============================================================================
