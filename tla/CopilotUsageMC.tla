--------------------------- MODULE CopilotUsageMC ---------------------------
(* Instances of CopilotUsage for TLC. *)
EXTENDS CopilotUsage, TLC

CONSTANTS small, large, pay, payAgain, cancel, answerA

\* The completion is paid for with the small reservation, which a release names
\* too, and is committed again without a reservation.
ReservationOf == [p \in Commit \cup Release |-> IF p = payAgain THEN None ELSE small]
OneCompletion == [p \in Commit |-> answerA]
Amounts == [p \in Reserve \cup Commit |-> IF p = large THEN 2 ELSE 1]

=============================================================================
