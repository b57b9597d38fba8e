-------------------------- MODULE RealtimeDocumentMC --------------------------
(* Instances of RealtimeDocument for TLC. *)
EXTENDS RealtimeDocument, TLC

CONSTANTS ann, bob, annTab, bobTab, bobTab2, service

Users == [x \in Conn \cup Mutation |-> IF x \in {annTab, service} THEN ann ELSE bob]

Once(fs) == [f \in Faults |-> IF f \in fs THEN 1 ELSE 0]

\* A save that fails, or one that is rejected, beside each other fault; a save
\* that fails again and again.  A timeout comes only with a save that is rejected:
\* with one that fails see Mistimed.
Troubles ==
    {Once({save, f}) : save \in {"saveFails", "saveRejected"}, f \in {"crash", "shutdown", "commitFails"}}
    \cup {Once({"saveFails", "saveRejected"}), Once({"saveRejected", "drainTimeout", "fenceTimeout"})}
    \cup {[f \in Faults |-> IF f = "saveFails" THEN 3 ELSE 0]}

\* What the properties about edits do not survive; no configuration uses it.
Mistimed == {Once({"saveFails", "drainTimeout", "fenceTimeout"})}

=============================================================================
