---------------------------- MODULE TradingOrder ----------------------------
(***************************************************************************)
(* Order submission under an idempotency key: submitTradingOrder of        *)
(* lib/trading/orders.ts, run by executeWithIdempotency of                 *)
(* lib/idempotency/service.ts, with the order history of                   *)
(* lib/trading/order-history.ts and a broker that is external.             *)
(*                                                                         *)
(* Each request is one HTTP request; a client that tries again sends       *)
(* another request with the same key.  The first to claim the key records  *)
(* a history row, submits the order, settles the row, and stores the       *)
(* result under the key, or releases the key when the submission failed.   *)
(* The others read the stored result or wait for it.                       *)
(***************************************************************************)
EXTENDS Naturals

CONSTANTS
    Request,         \* HTTP requests that submit an order
    KeyOf,           \* KeyOf[r]: the normalized idempotency key of r
    None,            \* the absent value
    ReportsUnknown,  \* the broker's adapter flags a lost answer as submissionUnknown
    Faults           \* the faults the environment may inject

FaultKinds == {"crash", "expiry", "claimFails", "historyFails", "answerLost",
               "storeFails", "releaseFails"}

ASSUME ConstantsAssumption ==
    /\ KeyOf \in [Request -> {KeyOf[r] : r \in Request}]
    /\ None \notin Request
    /\ ReportsUnknown \in BOOLEAN
    /\ Faults \subseteq FaultKinds

VARIABLES
    claim,    \* the idempotency record of each key
    pc,       \* the step each request is at
    outcome,  \* what the owner of a key knows of its submission
    wire,     \* the broker's side of each submission
    history,  \* the order-history row each request recorded
    answer    \* what each request was told

vars == <<claim, pc, outcome, wire, history, answer>>

Key == {KeyOf[r] : r \in Request}

-----------------------------------------------------------------------------
(* Records of a key, and answers.  Only an accepted order's result names    *)
(* the history row of the request that placed it (appOrderId).              *)

Nothing == [kind |-> "none", by |-> None]
Unknown == [kind |-> "unknown", by |-> None]
Error == [kind |-> "error", by |-> None]
Accepted(r) == [kind |-> "accepted", by |-> r]
Answer == {Nothing, Unknown, Error} \cup {Accepted(r) : r \in Request}

NoClaim == [status |-> "none", result |-> Nothing]
InProgress == [status |-> "in-progress", result |-> Nothing]
Completed(result) == [status |-> "completed", result |-> result]
Claim == {NoClaim, InProgress} \cup {Completed(a) : a \in Answer \ {Nothing, Error}}

ClaimOf(r) == claim[KeyOf[r]]
SetClaim(r, c) == claim' = [claim EXCEPT ![KeyOf[r]] = c]

\* The steps of the request that owns a key, in their order.
OwnerSteps == {"record", "submit", "await", "settle", "store", "release"}
Steps == OwnerSteps \cup {"start", "readClaim", "wait", "done", "crashed"}

At(r, step) == pc[r] = step
Go(r, step) == pc' = [pc EXCEPT ![r] = step]
Reply(r, a) == Go(r, "done") /\ answer' = [answer EXCEPT ![r] = a]

\* Mutant: an unknown outcome is stored as an accepted order.
ResultAssumesSuccess(r) == Accepted(r)

\* Mutant: the result of an unknown outcome names the history row too.
ResultNamesRow(r) == [kind |-> outcome[r], by |-> r]

\* The result an owner stores.
Result(r) == IF outcome[r] = "accepted" THEN Accepted(r) ELSE Unknown

Init ==
    /\ claim = [k \in Key |-> NoClaim]
    /\ pc = [r \in Request |-> "start"]
    /\ outcome = [r \in Request |-> "none"]
    /\ wire = [r \in Request |-> "idle"]
    /\ history = [r \in Request |-> "none"]
    /\ answer = [r \in Request |-> Nothing]

-----------------------------------------------------------------------------
(* Claiming the key.                                                        *)

\* SET NX, or INSERT ... ON CONFLICT DO NOTHING.
TakeClaim(r) ==
    /\ At(r, "start")
    /\ \/ /\ ClaimOf(r) = NoClaim
          /\ SetClaim(r, InProgress)
          /\ Go(r, "record")
       \/ /\ ClaimOf(r) # NoClaim
          /\ Go(r, "readClaim")
          /\ UNCHANGED claim
    /\ UNCHANGED <<outcome, wire, history, answer>>

\* The storage rejects the call, which may have been applied all the same.
ClaimFails(r) ==
    /\ "claimFails" \in Faults
    /\ At(r, "start")
    /\ Reply(r, Error)
    /\ \/ UNCHANGED claim
       \/ ClaimOf(r) = NoClaim /\ SetClaim(r, InProgress)
    /\ UNCHANGED <<outcome, wire, history>>

\* The record that was in the way is read in a second call, when it may be gone.
ReadClaim(r) ==
    /\ At(r, "readClaim")
    /\ \/ /\ ClaimOf(r).status = "completed"
          /\ Reply(r, ClaimOf(r).result)
       \/ /\ ClaimOf(r).status = "in-progress"
          /\ Go(r, "wait")
          /\ UNCHANGED answer
       \/ /\ ClaimOf(r) = NoClaim
          /\ Reply(r, Error)
    /\ UNCHANGED <<claim, outcome, wire, history>>

\* A poll that finds the owner's result, or the record gone.
Poll(r) ==
    /\ At(r, "wait")
    /\ \/ ClaimOf(r).status = "completed" /\ Reply(r, ClaimOf(r).result)
       \/ ClaimOf(r) = NoClaim /\ Reply(r, Error)
    /\ UNCHANGED <<claim, outcome, wire, history>>

WaitTimesOut(r) ==
    /\ At(r, "wait")
    /\ Reply(r, Error)
    /\ UNCHANGED <<claim, outcome, wire, history>>

-----------------------------------------------------------------------------
(* The operation.                                                           *)

RecordHistory(r) ==
    /\ At(r, "record")
    /\ \/ /\ history' = [history EXCEPT ![r] = "pending"]
          /\ Go(r, "submit")
       \/ /\ "historyFails" \in Faults
          /\ history' \in {history, [history EXCEPT ![r] = "pending"]}
          /\ Go(r, "release")
    /\ UNCHANGED <<claim, outcome, wire, answer>>

\* The order leaves for the broker, or the adapter refuses to send it.
SubmitOrder(r) ==
    /\ At(r, "submit")
    /\ \/ /\ wire' = [wire EXCEPT ![r] = "sent"]
          /\ Go(r, "await")
          /\ UNCHANGED outcome
       \/ /\ outcome' = [outcome EXCEPT ![r] = "failed"]
          /\ Go(r, "settle")
          /\ UNCHANGED wire
    /\ UNCHANGED <<claim, history, answer>>

\* The broker takes its decision, whether anybody still waits for it or not.
BrokerDecides(r) ==
    /\ wire[r] = "sent"
    /\ \E decision \in {"accepted", "refused"} : wire' = [wire EXCEPT ![r] = decision]
    /\ UNCHANGED <<claim, pc, outcome, history, answer>>

BrokerAnswers(r) ==
    /\ At(r, "await")
    /\ \/ wire[r] = "accepted" /\ outcome' = [outcome EXCEPT ![r] = "accepted"]
       \/ wire[r] = "refused" /\ outcome' = [outcome EXCEPT ![r] = "failed"]
    /\ Go(r, "settle")
    /\ UNCHANGED <<claim, wire, history, answer>>

\* The answer is lost or late.  Only an adapter that tracks whether the
\* submission had started can tell an unknown outcome from a failure.
AnswerLost(r) ==
    /\ "answerLost" \in Faults
    /\ At(r, "await")
    /\ outcome' = [outcome EXCEPT ![r] = IF ReportsUnknown THEN "unknown" ELSE "failed"]
    /\ Go(r, "settle")
    /\ UNCHANGED <<claim, wire, history, answer>>

\* Mutant: an unknown outcome throws like a failure, and so releases the key.
SettleReleasesUnknown(r) ==
    /\ At(r, "settle")
    /\ \/ history' = [history EXCEPT ![r] = outcome[r]]
       \/ "historyFails" \in Faults /\ UNCHANGED history
    /\ Go(r, IF outcome[r] = "accepted" THEN "store" ELSE "release")
    /\ UNCHANGED <<claim, outcome, wire, answer>>

\* Mutant: the history row does not tell an unknown outcome from a failure.
SettleAsFailed(r) ==
    /\ At(r, "settle")
    /\ \/ history' = [history EXCEPT ![r] = IF outcome[r] = "accepted" THEN "accepted" ELSE "failed"]
       \/ "historyFails" \in Faults /\ UNCHANGED history
    /\ Go(r, IF outcome[r] = "failed" THEN "release" ELSE "store")
    /\ UNCHANGED <<claim, outcome, wire, answer>>

\* Updating the history row may fail without changing the outcome.
SettleHistory(r) ==
    /\ At(r, "settle")
    /\ \/ history' = [history EXCEPT ![r] = outcome[r]]
       \/ "historyFails" \in Faults /\ UNCHANGED history
    /\ Go(r, IF outcome[r] = "failed" THEN "release" ELSE "store")
    /\ UNCHANGED <<claim, outcome, wire, answer>>

-----------------------------------------------------------------------------
(* Ending the claim.                                                        *)

StoreResult(r) ==
    /\ At(r, "store")
    /\ SetClaim(r, Completed(Result(r)))
    /\ Reply(r, Result(r))
    /\ UNCHANGED <<outcome, wire, history>>

\* The storage rejects the result, applied or not: the catch block releases
\* the key although the operation has succeeded.
StoreFails(r) ==
    /\ "storeFails" \in Faults
    /\ At(r, "store")
    /\ Go(r, "release")
    /\ UNCHANGED claim \/ SetClaim(r, Completed(Result(r)))
    /\ UNCHANGED <<outcome, wire, history, answer>>

ReleaseClaim(r) ==
    /\ At(r, "release")
    /\ SetClaim(r, NoClaim) \/ ("releaseFails" \in Faults /\ UNCHANGED claim)
    /\ Reply(r, Error)
    /\ UNCHANGED <<outcome, wire, history>>

\* The process that serves the request dies.
Crash(r) ==
    /\ "crash" \in Faults
    /\ pc[r] \notin {"start", "done", "crashed"}
    /\ Go(r, "crashed")
    /\ UNCHANGED <<claim, outcome, wire, history, answer>>

\* Mutant: only completed records expire.
ExpireCompleted(k) ==
    /\ "expiry" \in Faults
    /\ claim[k].status = "completed"
    /\ claim' = [claim EXCEPT ![k] = NoClaim]
    /\ UNCHANGED <<pc, outcome, wire, history, answer>>

\* The record is seven days old: its Redis key expires, or the cleanup job
\* deletes its row, in progress or not.  No request runs that long.
Expire(k) ==
    /\ "expiry" \in Faults
    /\ claim[k] # NoClaim
    /\ \A r \in Request : KeyOf[r] = k => pc[r] \notin OwnerSteps
    /\ claim' = [claim EXCEPT ![k] = NoClaim]
    /\ UNCHANGED <<pc, outcome, wire, history, answer>>

-----------------------------------------------------------------------------
Step(r) ==
    \/ TakeClaim(r) \/ ReadClaim(r) \/ Poll(r) \/ WaitTimesOut(r)
    \/ RecordHistory(r) \/ SubmitOrder(r) \/ BrokerAnswers(r) \/ AnswerLost(r)
    \/ SettleHistory(r) \/ StoreResult(r) \/ ReleaseClaim(r)

Next ==
    \/ \E r \in Request : Step(r) \/ ClaimFails(r) \/ StoreFails(r) \/ BrokerDecides(r) \/ Crash(r)
    \/ \E k \in Key : Expire(k)

Spec == Init /\ [][Next]_vars

\* A server process runs the request it has accepted, the broker decides, and
\* records age.
FairSpec ==
    /\ Spec
    /\ \A r \in Request : WF_vars(Step(r)) /\ WF_vars(BrokerDecides(r))
    /\ \A k \in Key : WF_vars(Expire(k))

-----------------------------------------------------------------------------
(* Properties.                                                              *)

TypeOK ==
    /\ claim \in [Key -> Claim]
    /\ pc \in [Request -> Steps]
    /\ outcome \in [Request -> {"none", "accepted", "unknown", "failed"}]
    /\ wire \in [Request -> {"idle", "sent", "accepted", "refused"}]
    /\ history \in [Request -> {"none", "pending", "accepted", "unknown", "failed"}]
    /\ answer \in [Request -> Answer]

\* An order the broker has or may yet accept.
AtRisk(r) == wire[r] \in {"sent", "accepted"}

\* A history row says an order failed only if the broker has not accepted it
\* and never will: orders.ts writes 'unknown' when it cannot know.
FailedMeansNotPlaced == \A r \in Request : history[r] = "failed" => ~AtRisk(r)

\* No order is sent under a key while another order of that key may have been
\* accepted: a retry submits again only after a definite failure.
NeverResubmitted ==
    [][\A r, q \in Request :
          wire[r] = "idle" /\ wire'[r] = "sent" /\ q # r /\ KeyOf[q] = KeyOf[r] => ~AtRisk(q)]_vars

\* A key whose record is in progress does not stay so for good, whatever
\* happened to its owner: the operation ends the claim, or the record expires.
ClaimsEnd ==
    \A k \in Key : (claim[k] = InProgress) ~> (claim[k] # InProgress)

\* Requests with one key see one order and one answer (OrderPromise).
Placed == {r \in Request : wire[r] = "accepted"}
Kept == [k \in Key |-> claim[k].result]

Promise == INSTANCE OrderPromise WITH placed <- Placed, settled <- Kept

KeepsPromise == Promise!Spec

=============================================================================
