------------------------- MODULE ReviewedExecution -------------------------
(***************************************************************************)
(* What a reviewer may rely on of an execution that pauses: each pause has *)
(* a revision of its own, it is answered point by point, the execution     *)
(* goes on once after the last answer, and a cancelled pause never goes    *)
(* on.  The status is the one a review page shows (projectCheckpoint),     *)
(* with "cancelling" for a pause that a cancellation has taken back.       *)
(***************************************************************************)
EXTENDS Naturals

CONSTANTS Exec, Point

VARIABLES status, revision, open

vars == <<status, revision, open>>

Status == {"none", "running", "paused", "queued", "cancelling", "completed", "failed"}

Init ==
    /\ status = [e \in Exec |-> "none"]
    /\ revision = [e \in Exec |-> 0]
    /\ open = [e \in Exec |-> {}]

Move(e, s) == status' = [status EXCEPT ![e] = s]

Start(e) ==
    /\ status[e] = "none"
    /\ Move(e, "running")
    /\ UNCHANGED <<revision, open>>

Pause(e) ==
    /\ status[e] = "running"
    /\ Move(e, "paused")
    /\ revision' = [revision EXCEPT ![e] = @ + 1]
    /\ \E points \in (SUBSET Point) \ {{}} : open' = [open EXCEPT ![e] = points]

Answer(e, point) ==
    /\ status[e] = "paused"
    /\ point \in open[e]
    /\ open' = [open EXCEPT ![e] = @ \ {point}]
    /\ Move(e, IF open[e] = {point} THEN "queued" ELSE "paused")
    /\ UNCHANGED revision

GoOn(e) ==
    /\ status[e] = "queued"
    /\ Move(e, "running")
    /\ UNCHANGED <<revision, open>>

TakeBack(e) ==
    /\ status[e] = "paused"
    /\ Move(e, "cancelling")
    /\ UNCHANGED <<revision, open>>

\* Only a running execution succeeds; the checkpoint goes with the end.
End(e) ==
    /\ \/ status[e] = "running" /\ Move(e, "completed")
       \/ status[e] \notin {"completed", "failed"} /\ Move(e, "failed")
    /\ revision' = [revision EXCEPT ![e] = 0]
    /\ open' = [open EXCEPT ![e] = {}]

Next ==
    \E e \in Exec :
        \/ Start(e) \/ Pause(e) \/ GoOn(e) \/ TakeBack(e) \/ End(e)
        \/ \E point \in Point : Answer(e, point)

Spec == Init /\ [][Next]_vars

=============================================================================
