------------------------ MODULE PendingExecutionMC ------------------------
(* Instances of PendingExecution for TLC. *)
EXTENDS PendingExecution, TLC

CONSTANTS par, kid, solo, api1, api2

NoKeys == [e \in Exec |-> None]
NoParents == [e \in Exec |-> None]
SameKey == [e \in Exec |-> par]
KidOfPar == [e \in Exec |-> IF e = kid THEN par ELSE None]

\* The API processes are interchangeable.
Clients == Permutations(Client)

=============================================================================
