---------------------------- MODULE CheckpointMC ----------------------------
(* Instances of Checkpoint for TLC. *)
EXTENDS Checkpoint, TLC

CONSTANTS par, kid, user, ask, confirm

KidOfPar == [e \in Exec |-> IF e = kid THEN par ELSE None]
KidAsks == [e \in Exec |-> IF e = kid THEN {confirm} ELSE {}]
KidsAndPauser == {<<par, 0>>, <<kid, 0>>, <<kid, 1>>}
AnyMachine == Job
AskTwice == [e \in Exec |-> {ask, confirm}]

=============================================================================
