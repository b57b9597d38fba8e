---------------------------- MODULE OrderPromise ----------------------------
(***************************************************************************)
(* What order submission promises of the requests that share an            *)
(* idempotency key: the broker gets at most one order, the first settled   *)
(* result is the answer to all of them, and a request that is told its     *)
(* submission failed has placed no order and never will.                   *)
(***************************************************************************)
CONSTANTS Request, KeyOf, None

VARIABLES
    placed,   \* the requests whose order the broker has accepted
    settled,  \* the result kept for each key
    answer    \* what each request was told

vars == <<placed, settled, answer>>

Key == {KeyOf[r] : r \in Request}
Nothing == [kind |-> "none", by |-> None]
Unknown == [kind |-> "unknown", by |-> None]
Error == [kind |-> "error", by |-> None]
Accepted(r) == [kind |-> "accepted", by |-> r]

Init ==
    /\ placed = {}
    /\ settled = [k \in Key |-> Nothing]
    /\ answer = [r \in Request |-> Nothing]

\* The broker may still accept an order whose outcome was reported unknown.
Place(r) ==
    /\ \A q \in placed : KeyOf[q] # KeyOf[r]
    /\ settled[KeyOf[r]].kind # "accepted"
    /\ answer[r].kind # "error"
    /\ placed' = placed \cup {r}
    /\ UNCHANGED <<settled, answer>>

Settle(r, result) ==
    /\ settled[KeyOf[r]] = Nothing
    /\ result = Unknown \/ (result = Accepted(r) /\ r \in placed)
    /\ settled' = [settled EXCEPT ![KeyOf[r]] = result]
    /\ answer' = [answer EXCEPT ![r] = result]
    /\ UNCHANGED placed

Replay(r) ==
    /\ answer[r] = Nothing
    /\ settled[KeyOf[r]] # Nothing
    /\ answer' = [answer EXCEPT ![r] = settled[KeyOf[r]]]
    /\ UNCHANGED <<placed, settled>>

Fail(r) ==
    /\ answer[r] = Nothing
    /\ r \notin placed
    /\ answer' = [answer EXCEPT ![r] = Error]
    /\ UNCHANGED <<placed, settled>>

Next ==
    \E r \in Request :
        Place(r) \/ Replay(r) \/ Fail(r) \/ \E result \in {Unknown, Accepted(r)} : Settle(r, result)

Spec == Init /\ [][Next]_vars

=============================================================================
