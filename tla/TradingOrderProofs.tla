------------------------- MODULE TradingOrderProofs -------------------------
(***************************************************************************)
(* Theorems about TradingOrder, for every set of requests and keys.  The   *)
(* types are correct whatever fails.  What a history row says of an order  *)
(* needs an adapter that reports an unknown outcome as such rather than as *)
(* a failure.  That a key has one order needs, besides, that the result of *)
(* an operation can be stored (without it the run order_twice finds a      *)
(* counterexample) and that a record outlives the requests of its key.     *)
(***************************************************************************)
EXTENDS TradingOrder, TLAPS

Dependable == ReportsUnknown /\ "storeFails" \notin Faults /\ "expiry" \notin Faults

Owns(r) == pc[r] \in OwnerSteps

\* What a request at each step knows of its own order.
Knows(r) ==
    /\ pc[r] \in {"start", "readClaim", "wait", "record", "submit"} => wire[r] = "idle"
    /\ pc[r] \in {"start", "readClaim", "wait", "record"} => history[r] = "none"
    /\ pc[r] = "submit" => history[r] = "pending"
    /\ pc[r] \in {"settle", "store"} => outcome[r] # "none"
    /\ pc[r] \in {"settle", "store"} /\ outcome[r] = "accepted" => wire[r] = "accepted"
    /\ pc[r] = "settle" /\ outcome[r] = "failed" => ~AtRisk(r)
    /\ pc[r] = "store" => outcome[r] # "failed"
    /\ history[r] = "failed" => ~AtRisk(r) /\ pc[r] \notin {"submit", "await"}

\* While results can be stored, a request that releases its key has no order.
RequestOK(r) == Knows(r) /\ (pc[r] = "release" => ~AtRisk(r))

\* An owner holds the record of its key in progress; the record stays when an
\* order of the key may have been accepted.
ClaimHeld(r) ==
    /\ Owns(r) => ClaimOf(r) = InProgress
    /\ AtRisk(r) => ClaimOf(r) # NoClaim

\* Beside an owner no request of its key owns, or has an order at risk.
Alone(r) ==
    \A q \in Request : q # r /\ KeyOf[q] = KeyOf[r] /\ Owns(r) => ~Owns(q) /\ ~AtRisk(q)

\* A request that has answered has only the answer it was given, and one that
\* was told of a failure has no order.
AnswerOK(r) ==
    /\ pc[r] \notin {"done"} => answer[r] = Nothing
    /\ pc[r] = "done" /\ AtRisk(r) => answer[r] # Error

\* Two orders of one key are never both at risk.
Distinct(r) == \A q \in Request : KeyOf[q] = KeyOf[r] /\ AtRisk(q) /\ AtRisk(r) => q = r

\* A stored acceptance is the acceptance of an order of that key.
SettledOK(k) ==
    \A q \in Request : claim[k].result = Accepted(q) => wire[q] = "accepted" /\ KeyOf[q] = k

LocalOK(r) == RequestOK(r) /\ ClaimHeld(r) /\ AnswerOK(r)

IInv ==
    /\ TypeOK
    /\ \A r \in Request : LocalOK(r) /\ Alone(r) /\ Distinct(r)
    /\ \A k \in Key : SettledOK(k)

-----------------------------------------------------------------------------
(* The records of a key.                                                    *)

LEMMA KeysOf == \A r \in Request : KeyOf[r] \in Key
  BY DEF Key

LEMMA Claims ==
    /\ NoClaim \in Claim /\ InProgress \in Claim /\ NoClaim # InProgress
    /\ \A a \in Answer : a # Nothing /\ a # Error => Completed(a) \in Claim
    /\ \A a : Completed(a) # NoClaim /\ Completed(a) # InProgress /\ Completed(a).result = a
    /\ NoClaim.result = Nothing /\ InProgress.result = Nothing
    /\ NoClaim.status = "none" /\ InProgress.status = "in-progress"
    /\ \A a : Completed(a).status = "completed"
  BY DEF NoClaim, InProgress, Completed, Claim

LEMMA Answers ==
    /\ Nothing # Error /\ Nothing # Unknown /\ Unknown # Error
    /\ Nothing.kind = "none" /\ Error.kind = "error" /\ Unknown.kind = "unknown"
    /\ \A q : Accepted(q) \notin {Nothing, Error, Unknown} /\ Accepted(q).kind = "accepted"
    /\ \A q, r : Accepted(q) = Accepted(r) => q = r
    /\ {Nothing, Error, Unknown} \subseteq Answer
    /\ \A r \in Request : Accepted(r) \in Answer
  BY DEF Nothing, Error, Unknown, Accepted, Answer

\* A record is one of three kinds, told apart by its status.
LEMMA ClaimKinds ==
    ASSUME NEW c \in Claim
    PROVE  /\ c.status = "none" => c = NoClaim
           /\ c.status = "in-progress" => c = InProgress
           /\ c.status = "completed" =>
                /\ c = Completed(c.result) /\ c.result \in Answer
                /\ c.result # Nothing /\ c.result # Error
           /\ c.result = Nothing <=> c \in {NoClaim, InProgress}
  BY DEF Claim, NoClaim, InProgress, Completed

-----------------------------------------------------------------------------
(* The types, and what each request knows of its order, whatever fails.     *)

LEMMA InitTypes == Init => TypeOK
  BY Claims, Answers DEF Init, TypeOK, Steps

LEMMA TypeKeeps ==
    ASSUME TypeOK, [Next]_vars
    PROVE  TypeOK'
  <1> USE KeysOf, Claims, Answers
  <1> USE DEF Steps, OwnerSteps, Go, At, Reply, SetClaim
  <1>1. CASE UNCHANGED vars
    BY <1>1 DEF vars, TypeOK
  <1>2. ASSUME NEW r \in Request, TakeClaim(r) \/ ClaimFails(r) PROVE TypeOK'
    <2>1. \/ UNCHANGED claim
          \/ claim' = [claim EXCEPT ![KeyOf[r]] = InProgress]
      BY <1>2 DEF TakeClaim, ClaimFails
    <2>2. claim' \in [Key -> Claim]
      BY <2>1 DEF TypeOK
    <2>3. CASE TakeClaim(r)
      BY <2>2, <2>3 DEF TypeOK, TakeClaim
    <2>4. CASE ClaimFails(r)
      BY <2>2, <2>4 DEF TypeOK, ClaimFails
    <2>5. QED
      BY <1>2, <2>3, <2>4
  <1>3. ASSUME NEW r \in Request, ReadClaim(r) \/ Poll(r) \/ WaitTimesOut(r) PROVE TypeOK'
    <2>1. ClaimOf(r).status = "completed" => ClaimOf(r).result \in Answer
      BY ClaimKinds DEF TypeOK, ClaimOf
    <2>2. \/ UNCHANGED answer
          \/ \E a \in Answer : answer' = [answer EXCEPT ![r] = a]
      BY <1>3, <2>1 DEF ReadClaim, Poll, WaitTimesOut
    <2>3. answer' \in [Request -> Answer]
      BY <2>2 DEF TypeOK
    <2>4. QED
      BY <1>3, <2>3 DEF TypeOK, ReadClaim, Poll, WaitTimesOut
  <1>4. ASSUME NEW r \in Request, RecordHistory(r) \/ SettleHistory(r) PROVE TypeOK'
    <2>1. pc' \in [Request -> Steps]
      BY <1>4 DEF TypeOK, RecordHistory, SettleHistory
    <2>2. history' \in [Request -> {"none", "pending", "accepted", "unknown", "failed"}]
      BY <1>4 DEF TypeOK, RecordHistory, SettleHistory
    <2>3. QED
      BY <1>4, <2>1, <2>2 DEF TypeOK, RecordHistory, SettleHistory
  <1>5. ASSUME NEW r \in Request, SubmitOrder(r) \/ BrokerDecides(r) \/ BrokerAnswers(r) \/ AnswerLost(r)
        PROVE  TypeOK'
    BY <1>5 DEF TypeOK, SubmitOrder, BrokerDecides, BrokerAnswers, AnswerLost
  <1>6. ASSUME NEW r \in Request, StoreResult(r) \/ StoreFails(r) PROVE TypeOK'
    <2>1. Result(r) \in Answer /\ Completed(Result(r)) \in Claim
      BY DEF Result
    <2>2. claim' \in [Key -> Claim]
      BY <1>6, <2>1 DEF TypeOK, StoreResult, StoreFails
    <2>3. answer' \in [Request -> Answer]
      BY <1>6, <2>1 DEF TypeOK, StoreResult, StoreFails
    <2>4. QED
      BY <1>6, <2>2, <2>3 DEF TypeOK, StoreResult, StoreFails
  <1>7. ASSUME NEW r \in Request, ReleaseClaim(r) \/ Crash(r) PROVE TypeOK'
    BY <1>7 DEF TypeOK, ReleaseClaim, Crash
  <1>8. ASSUME NEW k \in Key, Expire(k) PROVE TypeOK'
    BY <1>8 DEF TypeOK, Expire
  <1>9. QED
    BY <1>1, <1>2, <1>3, <1>4, <1>5, <1>6, <1>7, <1>8 DEF Next, Step

LEMMA KnowsKeeps ==
    ASSUME TypeOK, [Next]_vars, ReportsUnknown, NEW q \in Request, Knows(q)
    PROVE  Knows(q)'
  <1> USE DEF TypeOK, Knows, AtRisk, At, Go, Reply
  <1>1. CASE UNCHANGED vars \/ \E k \in Key : Expire(k)
    BY <1>1 DEF vars, Expire
  <1>2. ASSUME NEW r \in Request,
               \/ TakeClaim(r) \/ ClaimFails(r) \/ ReadClaim(r) \/ Poll(r) \/ WaitTimesOut(r)
               \/ StoreResult(r) \/ StoreFails(r) \/ ReleaseClaim(r) \/ Crash(r)
        PROVE  Knows(q)'
    BY <1>2 DEF TakeClaim, ClaimFails, ReadClaim, Poll, WaitTimesOut, StoreResult, StoreFails,
        ReleaseClaim, Crash
  <1>3. ASSUME NEW r \in Request, RecordHistory(r) \/ SettleHistory(r) PROVE Knows(q)'
    BY <1>3 DEF RecordHistory, SettleHistory
  <1>4. ASSUME NEW r \in Request, SubmitOrder(r) \/ BrokerDecides(r) \/ BrokerAnswers(r) \/ AnswerLost(r)
        PROVE  Knows(q)'
    BY <1>4 DEF SubmitOrder, BrokerDecides, BrokerAnswers, AnswerLost
  <1>5. QED
    BY <1>1, <1>2, <1>3, <1>4 DEF Next, Step

-----------------------------------------------------------------------------
(* The invariant, action by action.                                         *)

\* A request that neither touches a record nor an order, and does not become
\* an owner, can only break what concerns itself.
LEMMA LocalStep ==
    ASSUME IInv, NEW r \in Request, UNCHANGED <<claim, wire>>,
           \A q \in Request \ {r} : /\ pc'[q] = pc[q] /\ outcome'[q] = outcome[q]
                                    /\ history'[q] = history[q] /\ answer'[q] = answer[q],
           Owns(r)' => Owns(r), TypeOK', LocalOK(r)'
    PROVE  IInv'
  <1>1. ASSUME NEW q \in Request PROVE LocalOK(q)'
    BY DEF IInv, LocalOK, RequestOK, Knows, ClaimHeld, AnswerOK, ClaimOf, Owns, AtRisk
  <1>2. ASSUME NEW q \in Request PROVE Alone(q)' /\ Distinct(q)'
    BY DEF IInv, Alone, Distinct, Owns, AtRisk
  <1>3. ASSUME NEW k \in Key PROVE SettledOK(k)'
    BY DEF IInv, SettledOK
  <1>4. QED
    BY <1>1, <1>2, <1>3 DEF IInv

LEMMA ReadClaimKeeps ==
    ASSUME IInv, NEW r \in Request, ReadClaim(r)
    PROVE  IInv'
  <1> DEFINE c == ClaimOf(r)
  <1>0. c.status = "completed" => c.result \in Answer /\ c.result # Nothing /\ c.result # Error
    BY KeysOf, ClaimKinds DEF IInv, TypeOK, ClaimOf
  <1>1. TypeOK'
    BY TypeKeeps DEF IInv, Next, Step
  <1>2. LocalOK(r)' /\ (Owns(r)' => Owns(r))
    BY Answers DEF IInv, TypeOK, ReadClaim, At, Go, Reply, OwnerSteps, LocalOK, RequestOK,
        Knows,
        ClaimHeld, AnswerOK, ClaimOf, Owns, AtRisk
  <1>3. QED
    BY <1>1, <1>2, LocalStep DEF IInv, TypeOK, ReadClaim, Go, Reply

LEMMA PollKeeps ==
    ASSUME IInv, NEW r \in Request, Poll(r)
    PROVE  IInv'
  <1> DEFINE c == ClaimOf(r)
  <1>0. c.status = "completed" => c.result \in Answer /\ c.result # Nothing /\ c.result # Error
    BY KeysOf, ClaimKinds DEF IInv, TypeOK, ClaimOf
  <1>1. TypeOK'
    BY TypeKeeps DEF IInv, Next, Step
  <1>2. LocalOK(r)' /\ (Owns(r)' => Owns(r))
    BY Answers DEF IInv, TypeOK, Poll, At, Go, Reply, OwnerSteps, LocalOK, RequestOK, Knows,
        ClaimHeld,
        AnswerOK, ClaimOf, Owns, AtRisk
  <1>3. QED
    BY <1>1, <1>2, LocalStep DEF IInv, TypeOK, Poll, Go, Reply

LEMMA WaitTimesOutKeeps ==
    ASSUME IInv, NEW r \in Request, WaitTimesOut(r)
    PROVE  IInv'
  <1>1. TypeOK'
    BY TypeKeeps DEF IInv, Next, Step
  <1>2. LocalOK(r)' /\ (Owns(r)' => Owns(r))
    BY Answers DEF IInv, TypeOK, WaitTimesOut, At, Go, OwnerSteps, LocalOK, RequestOK, Knows,
        ClaimHeld, AnswerOK, ClaimOf, Owns, AtRisk, Reply
  <1>3. QED
    BY <1>1, <1>2, LocalStep DEF IInv, TypeOK, WaitTimesOut, Go, Reply

LEMMA RecordHistoryKeeps ==
    ASSUME IInv, NEW r \in Request, RecordHistory(r)
    PROVE  IInv'
  <1>1. TypeOK'
    BY TypeKeeps DEF IInv, Next, Step
  <1>2. LocalOK(r)' /\ (Owns(r)' => Owns(r))
    BY DEF IInv, TypeOK, RecordHistory, At, Go, OwnerSteps, LocalOK, RequestOK, Knows,
        ClaimHeld,
        AnswerOK, ClaimOf, Owns, AtRisk
  <1>3. QED
    BY <1>1, <1>2, LocalStep DEF IInv, TypeOK, RecordHistory, Go

LEMMA BrokerAnswersKeeps ==
    ASSUME IInv, NEW r \in Request, BrokerAnswers(r)
    PROVE  IInv'
  <1>1. TypeOK'
    BY TypeKeeps DEF IInv, Next, Step
  <1>2. LocalOK(r)' /\ (Owns(r)' => Owns(r))
    BY DEF IInv, TypeOK, BrokerAnswers, At, Go, OwnerSteps, LocalOK, RequestOK, Knows,
        ClaimHeld,
        AnswerOK, ClaimOf, Owns, AtRisk
  <1>3. QED
    BY <1>1, <1>2, LocalStep DEF IInv, TypeOK, BrokerAnswers, Go

LEMMA AnswerLostKeeps ==
    ASSUME IInv, NEW r \in Request, AnswerLost(r), Dependable
    PROVE  IInv'
  <1>1. TypeOK'
    BY TypeKeeps DEF IInv, Next, Step
  <1>2. LocalOK(r)' /\ (Owns(r)' => Owns(r))
    BY DEF IInv, TypeOK, AnswerLost, At, Go, OwnerSteps, LocalOK, RequestOK, Knows, ClaimHeld,
        AnswerOK, ClaimOf, Owns, AtRisk, Dependable
  <1>3. QED
    BY <1>1, <1>2, LocalStep DEF IInv, TypeOK, AnswerLost, Go

LEMMA SettleHistoryKeeps ==
    ASSUME IInv, NEW r \in Request, SettleHistory(r)
    PROVE  IInv'
  <1>1. TypeOK'
    BY TypeKeeps DEF IInv, Next, Step
  <1>2. LocalOK(r)' /\ (Owns(r)' => Owns(r))
    BY DEF IInv, TypeOK, SettleHistory, At, Go, OwnerSteps, LocalOK, RequestOK, Knows,
        ClaimHeld,
        AnswerOK, ClaimOf, Owns, AtRisk
  <1>3. QED
    BY <1>1, <1>2, LocalStep DEF IInv, TypeOK, SettleHistory, Go

LEMMA CrashKeeps ==
    ASSUME IInv, NEW r \in Request, Crash(r)
    PROVE  IInv'
  <1>1. TypeOK'
    BY TypeKeeps DEF IInv, Next, Step
  <1>2. LocalOK(r)' /\ (Owns(r)' => Owns(r))
    BY DEF IInv, TypeOK, Crash, At, Go, OwnerSteps, LocalOK, RequestOK, Knows, ClaimHeld,
        AnswerOK,
        ClaimOf, Owns, AtRisk
  <1>3. QED
    BY <1>1, <1>2, LocalStep DEF IInv, TypeOK, Crash, Go

LEMMA TakeClaimKeeps ==
    ASSUME IInv, NEW r \in Request, TakeClaim(r)
    PROVE  IInv'
  <1> USE KeysOf, Claims
  <1>1. TypeOK'
    BY TypeKeeps DEF IInv, Next, Step
  <1>2. ASSUME NEW q \in Request PROVE LocalOK(q)'
    BY Answers DEF IInv, TypeOK, TakeClaim, At, Go, OwnerSteps, SetClaim, ClaimOf, LocalOK,
        RequestOK, Knows, ClaimHeld, Alone, AnswerOK, AtRisk, Owns
  <1>3. ASSUME NEW q \in Request PROVE Alone(q)'
    BY DEF IInv, TypeOK, TakeClaim, At, Go, OwnerSteps, SetClaim, ClaimOf, LocalOK, ClaimHeld,
        Alone, AtRisk, Owns
  <1>4. ASSUME NEW q \in Request PROVE Distinct(q)'
    BY DEF IInv, TypeOK, TakeClaim, At, OwnerSteps, Alone, Distinct, AtRisk, Owns
  <1>5. ASSUME NEW k \in Key PROVE SettledOK(k)'
    BY Answers DEF IInv, TypeOK, TakeClaim, SetClaim, SettledOK
  <1>6. QED
    BY <1>1, <1>2, <1>3, <1>4, <1>5 DEF IInv

LEMMA ClaimFailsKeeps ==
    ASSUME IInv, NEW r \in Request, ClaimFails(r)
    PROVE  IInv'
  <1> USE KeysOf, Claims
  <1>1. TypeOK'
    BY TypeKeeps DEF IInv, Next, Step
  <1>2. ASSUME NEW q \in Request PROVE LocalOK(q)'
    BY Answers DEF IInv, TypeOK, ClaimFails, At, Go, OwnerSteps, SetClaim, ClaimOf, Reply,
        LocalOK, RequestOK, Knows, ClaimHeld, Alone, AnswerOK, AtRisk, Owns
  <1>3. ASSUME NEW q \in Request PROVE Alone(q)'
    BY DEF IInv, TypeOK, ClaimFails, At, Go, OwnerSteps, SetClaim, ClaimOf, Reply, LocalOK,
        ClaimHeld, Alone, AtRisk, Owns
  <1>4. ASSUME NEW q \in Request PROVE Distinct(q)'
    BY DEF IInv, TypeOK, ClaimFails, At, OwnerSteps, Alone, Distinct, AtRisk, Owns
  <1>5. ASSUME NEW k \in Key PROVE SettledOK(k)'
    BY Answers DEF IInv, TypeOK, ClaimFails, SetClaim, SettledOK
  <1>6. QED
    BY <1>1, <1>2, <1>3, <1>4, <1>5 DEF IInv

LEMMA SubmitOrderKeeps ==
    ASSUME IInv, NEW r \in Request, SubmitOrder(r)
    PROVE  IInv'
  <1> USE KeysOf, Claims
  <1>1. TypeOK'
    BY TypeKeeps DEF IInv, Next, Step
  <1>2. ASSUME NEW q \in Request PROVE LocalOK(q)'
    BY Answers DEF IInv, TypeOK, SubmitOrder, At, Go, OwnerSteps, LocalOK, RequestOK, Knows,
        ClaimHeld,
        Alone, AnswerOK, ClaimOf, AtRisk, Owns
  <1>3. ASSUME NEW q \in Request PROVE Alone(q)'
    BY DEF IInv, TypeOK, SubmitOrder, At, Go, OwnerSteps, LocalOK, ClaimHeld, Alone, AtRisk,
        Owns, ClaimOf
  <1>4. ASSUME NEW q \in Request PROVE Distinct(q)'
    BY DEF IInv, TypeOK, SubmitOrder, At, OwnerSteps, Alone, Distinct, AtRisk, Owns
  <1>5. ASSUME NEW k \in Key PROVE SettledOK(k)'
    BY DEF IInv, TypeOK, SubmitOrder, At, LocalOK, RequestOK, Knows, SettledOK
  <1>6. QED
    BY <1>1, <1>2, <1>3, <1>4, <1>5 DEF IInv

LEMMA BrokerDecidesKeeps ==
    ASSUME IInv, NEW r \in Request, BrokerDecides(r)
    PROVE  IInv'
  <1> USE KeysOf, Claims
  <1>1. TypeOK'
    BY TypeKeeps DEF IInv, Next, Step
  <1>2. ASSUME NEW q \in Request PROVE LocalOK(q)'
    BY Answers DEF IInv, TypeOK, BrokerDecides, At, Go, OwnerSteps, LocalOK, RequestOK, Knows,
        ClaimHeld, Alone, AnswerOK, ClaimOf, AtRisk, Owns
  <1>3. ASSUME NEW q \in Request PROVE Alone(q)'
    BY DEF IInv, TypeOK, BrokerDecides, At, Go, OwnerSteps, LocalOK, ClaimHeld, Alone, AtRisk,
        Owns, ClaimOf
  <1>4. ASSUME NEW q \in Request PROVE Distinct(q)'
    BY DEF IInv, TypeOK, BrokerDecides, At, OwnerSteps, Alone, Distinct, AtRisk, Owns
  <1>5. ASSUME NEW k \in Key PROVE SettledOK(k)'
    BY DEF IInv, TypeOK, BrokerDecides, SettledOK
  <1>6. QED
    BY <1>1, <1>2, <1>3, <1>4, <1>5 DEF IInv

LEMMA StoreResultKeeps ==
    ASSUME IInv, NEW r \in Request, StoreResult(r)
    PROVE  IInv'
  <1> USE KeysOf, Claims
  <1>1. TypeOK'
    BY TypeKeeps DEF IInv, Next, Step
  <1>2. ASSUME NEW q \in Request PROVE LocalOK(q)'
    BY Answers DEF IInv, TypeOK, StoreResult, At, Go, OwnerSteps, SetClaim, ClaimOf, Reply,
        Result, LocalOK, RequestOK, Knows, ClaimHeld, Alone, AnswerOK, AtRisk, Owns
  <1>3. ASSUME NEW q \in Request PROVE Alone(q)'
    BY DEF IInv, TypeOK, StoreResult, At, Go, OwnerSteps, SetClaim, ClaimOf, Reply, Result,
        LocalOK, ClaimHeld, Alone, AtRisk, Owns
  <1>4. ASSUME NEW q \in Request PROVE Distinct(q)'
    BY DEF IInv, TypeOK, StoreResult, At, OwnerSteps, Alone, Distinct, AtRisk, Owns
  <1>5. ASSUME NEW k \in Key PROVE SettledOK(k)'
    BY Answers DEF IInv, TypeOK, StoreResult, At, SetClaim, Result, LocalOK, RequestOK, Knows,
        SettledOK
  <1>6. QED
    BY <1>1, <1>2, <1>3, <1>4, <1>5 DEF IInv

LEMMA ReleaseClaimKeeps ==
    ASSUME IInv, NEW r \in Request, ReleaseClaim(r)
    PROVE  IInv'
  <1> USE KeysOf, Claims
  <1>1. TypeOK'
    BY TypeKeeps DEF IInv, Next, Step
  <1>2. ASSUME NEW q \in Request PROVE LocalOK(q)'
    BY Answers DEF IInv, TypeOK, ReleaseClaim, At, Go, OwnerSteps, SetClaim, ClaimOf, Reply,
        LocalOK, RequestOK, Knows, ClaimHeld, Alone, AnswerOK, AtRisk, Owns
  <1>3. ASSUME NEW q \in Request PROVE Alone(q)'
    BY DEF IInv, TypeOK, ReleaseClaim, At, Go, OwnerSteps, SetClaim, ClaimOf, Reply, LocalOK,
        ClaimHeld, Alone, AtRisk, Owns
  <1>4. ASSUME NEW q \in Request PROVE Distinct(q)'
    BY DEF IInv, TypeOK, ReleaseClaim, At, OwnerSteps, Alone, Distinct, AtRisk, Owns
  <1>5. ASSUME NEW k \in Key PROVE SettledOK(k)'
    BY Answers DEF IInv, TypeOK, ReleaseClaim, SetClaim, SettledOK
  <1>6. QED
    BY <1>1, <1>2, <1>3, <1>4, <1>5 DEF IInv

-----------------------------------------------------------------------------
(* The theorems.                                                            *)

LEMMA InitInvariant == Init => IInv
  <1> SUFFICES ASSUME Init PROVE IInv
    OBVIOUS
  <1>1. TypeOK
    BY InitTypes
  <1>2. \A r \in Request : LocalOK(r) /\ Alone(r) /\ Distinct(r)
    BY DEF Init, LocalOK, RequestOK, Knows, ClaimHeld, AnswerOK, Alone, Distinct, Owns,
        OwnerSteps,
        AtRisk
  <1>3. \A k \in Key : SettledOK(k)
    BY Claims, Answers DEF Init, SettledOK
  <1>4. QED
    BY <1>1, <1>2, <1>3 DEF IInv

LEMMA NextInvariant ==
    ASSUME Dependable, IInv, [Next]_vars
    PROVE  IInv'
  <1>1. CASE UNCHANGED vars
    BY <1>1 DEF vars, IInv, TypeOK, LocalOK, RequestOK, Knows, ClaimHeld, AnswerOK, Alone,
        Distinct,
        SettledOK, Owns, AtRisk, ClaimOf
  <1>2. ASSUME NEW r \in Request, Step(r) PROVE IInv'
    BY <1>2, TakeClaimKeeps, ReadClaimKeeps, PollKeeps, WaitTimesOutKeeps, RecordHistoryKeeps,
        SubmitOrderKeeps, BrokerAnswersKeeps, AnswerLostKeeps, SettleHistoryKeeps,
        StoreResultKeeps, ReleaseClaimKeeps DEF Step
  <1>3. ASSUME NEW r \in Request, ClaimFails(r) \/ BrokerDecides(r) \/ Crash(r) PROVE IInv'
    BY <1>3, ClaimFailsKeeps, BrokerDecidesKeeps, CrashKeeps
  <1>4. ~(\E r \in Request : StoreFails(r)) /\ ~(\E k \in Key : Expire(k))
    BY DEF Dependable, StoreFails, Expire
  <1>5. QED
    BY <1>1, <1>2, <1>3, <1>4 DEF Next

THEOREM Invariance ==
    ASSUME Dependable
    PROVE  Spec => []IInv
  <1>1. IInv /\ [Next]_vars => IInv'
    BY NextInvariant
  <1>2. QED
    BY <1>1, InitInvariant, PTL DEF Spec

\* TypeOK, whatever the environment does.
THEOREM TypeCorrect == Spec => []TypeOK
  <1>1. TypeOK /\ [Next]_vars => TypeOK'
    BY TypeKeeps
  <1>2. QED
    BY <1>1, InitTypes, PTL DEF Spec

\* FailedMeansNotPlaced: a history row that says failed is a row without an
\* order, now and later, also when results cannot be stored or records expire.
THEOREM FailuresAreDefinite ==
    ASSUME ReportsUnknown
    PROVE  Spec => []FailedMeansNotPlaced
  <1> DEFINE Informed == TypeOK /\ \A r \in Request : Knows(r)
  <1>1. Init => Informed
    BY InitTypes DEF Init, Knows, AtRisk
  <1>2. Informed /\ [Next]_vars => Informed'
    BY TypeKeeps, KnowsKeeps
  <1>3. Informed => FailedMeansNotPlaced
    BY DEF Knows, FailedMeansNotPlaced
  <1>4. QED
    BY <1>1, <1>2, <1>3, PTL DEF Spec

\* Only the owner of a key sends an order.
LEMMA OwnersSend ==
    ASSUME Next, IInv, NEW r \in Request, wire[r] = "idle", wire'[r] = "sent"
    PROVE  Owns(r)
  <1>1. PICK q \in Request : SubmitOrder(q)
    <2>1. ASSUME NEW q \in Request, Step(q), ~SubmitOrder(q) PROVE UNCHANGED wire
      BY <2>1 DEF Step, TakeClaim, ReadClaim, Poll, WaitTimesOut, RecordHistory, BrokerAnswers,
          AnswerLost, SettleHistory, StoreResult, ReleaseClaim
    <2>2. ASSUME NEW q \in Request, ClaimFails(q) \/ StoreFails(q) \/ Crash(q) PROVE UNCHANGED wire
      BY <2>2 DEF ClaimFails, StoreFails, Crash
    <2>3. ASSUME NEW q \in Request, BrokerDecides(q) PROVE wire'[r] # "sent"
      BY <2>3 DEF BrokerDecides, IInv, TypeOK
    <2>4. ASSUME NEW k \in Key, Expire(k) PROVE UNCHANGED wire
      BY <2>4 DEF Expire
    <2>5. QED
      BY <2>1, <2>2, <2>3, <2>4 DEF Next
  <1>2. QED
    BY <1>1 DEF SubmitOrder, At, Owns, OwnerSteps, IInv, TypeOK

\* NeverResubmitted: an order is sent only while no other order of its key
\* may have been accepted.
THEOREM OrdersNeverResubmitted ==
    ASSUME Dependable
    PROVE  Spec => NeverResubmitted
  <1> DEFINE Sending == \A r, q \in Request :
          wire[r] = "idle" /\ wire'[r] = "sent" /\ q # r /\ KeyOf[q] = KeyOf[r] => ~AtRisk(q)
  <1>1. IInv /\ [Next]_vars => [Sending]_vars
    BY OwnersSend DEF IInv, Alone
  <1>2. QED
    BY <1>1, Invariance, PTL DEF Spec, NeverResubmitted

-----------------------------------------------------------------------------
(* The refinement: each step maps to a step of OrderPromise or stutters.    *)

\* A record's result is settled once and kept.
LEMMA KeptBy ==
    ASSUME IInv, NEW r \in Request, NEW c \in Claim, SetClaim(r, c)
    PROVE  Kept' = [Kept EXCEPT ![KeyOf[r]] = c.result]
  BY KeysOf DEF IInv, TypeOK, SetClaim, Kept

LEMMA InitPromise == Init => Promise!Init
  <1> SUFFICES ASSUME Init PROVE Promise!Init
    OBVIOUS
  <1>1. Key = Promise!Key /\ Nothing = Promise!Nothing
    BY DEF Key, Promise!Key, Nothing, Promise!Nothing
  <1>2. Placed = {}
    BY DEF Init, Placed
  <1>3. Kept = [k \in Key |-> Nothing]
    BY Claims DEF Init, Kept
  <1>4. answer = [r \in Request |-> Nothing]
    BY DEF Init
  <1>5. QED
    BY <1>1, <1>2, <1>3, <1>4 DEF Promise!Init

\* Reading a stored result replays it.
LEMMA ReplayPromise ==
    ASSUME IInv, NEW r \in Request, answer[r] = Nothing, ClaimOf(r).status = "completed",
           Reply(r, ClaimOf(r).result), UNCHANGED <<claim, wire>>
    PROVE  Promise!Replay(r)
  <1>1. ClaimOf(r).result # Nothing /\ Kept[KeyOf[r]] = ClaimOf(r).result
    BY KeysOf, ClaimKinds DEF IInv, TypeOK, ClaimOf, Kept
  <1>2. UNCHANGED <<Placed, Kept>>
    BY DEF Placed, Kept
  <1>3. QED
    BY <1>1, <1>2 DEF Reply, Promise!Replay, Nothing, Promise!Nothing

\* An error is given only to a request whose order is not and will not be placed.
LEMMA FailPromise ==
    ASSUME IInv, NEW r \in Request, answer[r] = Nothing, ~AtRisk(r), Reply(r, Error),
           UNCHANGED <<Kept, wire>>
    PROVE  Promise!Fail(r)
  BY DEF AtRisk, Reply, Promise!Fail, Placed, Nothing, Promise!Nothing, Error, Promise!Error

\* What the broker accepts is the one order of its key, of a request that was
\* not told of a failure.
LEMMA PlacePromise ==
    ASSUME IInv, NEW r \in Request, BrokerDecides(r), UNCHANGED <<Placed, Kept, answer>> => FALSE
    PROVE  Promise!Place(r)
  <1>1. wire[r] = "sent" /\ wire' = [wire EXCEPT ![r] = "accepted"]
    <2>1. ASSUME wire' = [wire EXCEPT ![r] = "refused"] PROVE FALSE
      <3>1. UNCHANGED <<Kept, answer>>
        BY DEF BrokerDecides, Kept
      <3>2. UNCHANGED Placed
        BY <2>1 DEF BrokerDecides, IInv, TypeOK, Placed
      <3>3. QED
        BY <3>1, <3>2
    <2>2. QED
      BY <2>1 DEF BrokerDecides
  <1>2. Placed' = Placed \cup {r} /\ UNCHANGED <<Kept, answer>>
    BY <1>1 DEF BrokerDecides, IInv, TypeOK, Placed, Kept
  <1>3. \A q \in Placed : KeyOf[q] # KeyOf[r]
    BY <1>1 DEF Placed, IInv, Distinct, AtRisk
  <1>4. Kept[KeyOf[r]].kind # "accepted"
    <2>1. SUFFICES ASSUME claim[KeyOf[r]].result.kind = "accepted" PROVE FALSE
      BY KeysOf DEF Kept
    <2>2. PICK q \in Request : claim[KeyOf[r]].result = Accepted(q)
      BY <2>1, KeysOf, Claims, Answers DEF IInv, TypeOK, Claim, Answer
    <2>3. wire[q] = "accepted" /\ KeyOf[q] = KeyOf[r]
      BY <2>2, KeysOf DEF IInv, SettledOK
    <2>4. QED
      BY <1>1, <2>3 DEF IInv, Distinct, AtRisk
  <1>5. answer[r].kind # "error"
    <2>1. answer[r] # Error
      BY <1>1, Answers DEF IInv, LocalOK, AnswerOK, AtRisk
    <2>2. QED
      BY <2>1, Answers DEF IInv, TypeOK, Answer
  <1>6. QED
    BY <1>2, <1>3, <1>4, <1>5 DEF Promise!Place

\* A stored result settles its key and answers its owner.
LEMMA StorePromise ==
    ASSUME IInv, NEW r \in Request, StoreResult(r)
    PROVE  Promise!Settle(r, Result(r))
  <1>1. Result(r) \in {Unknown, Accepted(r)} /\ Completed(Result(r)) \in Claim
    BY Answers, Claims DEF Result
  <1>2. Kept' = [Kept EXCEPT ![KeyOf[r]] = Result(r)] /\ UNCHANGED Placed
    BY <1>1, KeptBy, Claims DEF StoreResult, Placed
  <1>3. Kept[KeyOf[r]] = Nothing
    BY KeysOf, Claims DEF IInv, LocalOK, ClaimHeld, Owns, OwnerSteps, StoreResult, At, ClaimOf,
        Kept
  <1>4. Result(r) = Accepted(r) => r \in Placed
    BY Answers DEF IInv, LocalOK, RequestOK, Knows, StoreResult, At, Result, Placed
  <1>5. QED
    BY <1>1, <1>2, <1>3, <1>4 DEF StoreResult, Reply, Promise!Settle, Unknown, Promise!Unknown,
        Accepted, Promise!Accepted, Nothing, Promise!Nothing

\* Taking or releasing a claim settles nothing.
LEMMA ClaimPromise ==
    ASSUME IInv, NEW r \in Request, NEW c \in {NoClaim, InProgress},
           SetClaim(r, c), ClaimOf(r) \in {NoClaim, InProgress}
    PROVE  UNCHANGED Kept
  <1>1. Kept' = [Kept EXCEPT ![KeyOf[r]] = Nothing]
    BY KeptBy, Claims
  <1>2. Kept[KeyOf[r]] = Nothing
    BY KeysOf, Claims DEF ClaimOf, Kept
  <1>3. QED
    BY <1>1, <1>2, KeysOf DEF Kept

Promised == Promise!Next \/ UNCHANGED Promise!vars

LEMMA StepPromise ==
    ASSUME Dependable, IInv, NEW r \in Request, Step(r)
    PROVE  Promised
  <1>1. pc[r] # "done" => answer[r] = Nothing
    BY DEF IInv, LocalOK, AnswerOK
  <1>2. CASE TakeClaim(r)
    <2>1. UNCHANGED Kept
      <3>1. CASE SetClaim(r, InProgress) /\ ClaimOf(r) = NoClaim
        BY <3>1, ClaimPromise
      <3>2. CASE UNCHANGED claim
        BY <3>2 DEF Kept
      <3>3. QED
        BY <1>2, <3>1, <3>2 DEF TakeClaim
    <2>2. QED
      BY <1>2, <2>1 DEF TakeClaim, Promised, Promise!vars, Placed
  <1>3. CASE ReadClaim(r) \/ Poll(r) \/ WaitTimesOut(r)
    <2>1. ~AtRisk(r) /\ answer[r] = Nothing /\ UNCHANGED <<claim, wire>>
      BY <1>1, <1>3 DEF ReadClaim, Poll, WaitTimesOut, At, IInv, LocalOK, RequestOK, Knows,
          AtRisk
    <2>2. \/ Reply(r, ClaimOf(r).result) /\ ClaimOf(r).status = "completed"
          \/ Reply(r, Error)
          \/ UNCHANGED answer
      BY <1>3 DEF ReadClaim, Poll, WaitTimesOut
    <2>3. UNCHANGED <<Placed, Kept>>
      BY <2>1 DEF Placed, Kept
    <2>4. QED
      BY <2>1, <2>2, <2>3, ReplayPromise, FailPromise DEF Promised, Promise!Next, Promise!vars
  <1>4. CASE RecordHistory(r) \/ BrokerAnswers(r) \/ AnswerLost(r) \/ SettleHistory(r)
    BY <1>4 DEF RecordHistory, BrokerAnswers, AnswerLost, SettleHistory, Promised, Promise!vars,
        Placed, Kept
  <1>5. CASE SubmitOrder(r)
    <2>1. UNCHANGED Placed
      BY <1>5 DEF SubmitOrder, At, IInv, TypeOK, LocalOK, RequestOK, Knows, Placed
    <2>2. QED
      BY <1>5, <2>1 DEF SubmitOrder, Promised, Promise!vars, Kept
  <1>6. CASE StoreResult(r)
    BY <1>6, StorePromise DEF Result, Promised, Promise!Next, Unknown, Promise!Unknown,
        Accepted, Promise!Accepted
  <1>7. CASE ReleaseClaim(r)
    <2>1. ClaimOf(r) = InProgress /\ ~AtRisk(r) /\ answer[r] = Nothing
      BY <1>1, <1>7 DEF ReleaseClaim, At, IInv, LocalOK, RequestOK, Knows, ClaimHeld, Owns,
          OwnerSteps
    <2>2. UNCHANGED Kept
      BY <1>7, <2>1, ClaimPromise DEF ReleaseClaim, Kept
    <2>3. QED
      BY <1>7, <2>1, <2>2, FailPromise DEF ReleaseClaim, Promised, Promise!Next
  <1>8. QED
    BY <1>2, <1>3, <1>4, <1>5, <1>6, <1>7 DEF Step

LEMMA NextPromise ==
    ASSUME Dependable, IInv, [Next]_vars
    PROVE  Promised
  <1>1. CASE UNCHANGED vars
    BY <1>1 DEF vars, Promised, Promise!vars, Placed, Kept
  <1>2. ASSUME NEW r \in Request, ClaimFails(r) PROVE Promised
    <2>1. ~AtRisk(r) /\ answer[r] = Nothing
      BY <1>2 DEF ClaimFails, At, IInv, LocalOK, RequestOK, Knows, AnswerOK, AtRisk
    <2>2. UNCHANGED Kept
      BY <1>2, ClaimPromise DEF ClaimFails, Kept
    <2>3. QED
      BY <1>2, <2>1, <2>2, FailPromise DEF ClaimFails, Promised, Promise!Next
  <1>3. ASSUME NEW r \in Request, BrokerDecides(r) PROVE Promised
    BY <1>3, PlacePromise DEF Promised, Promise!Next, Promise!vars
  <1>4. ASSUME NEW r \in Request, Crash(r) PROVE Promised
    BY <1>4 DEF Crash, Promised, Promise!vars, Placed, Kept
  <1>5. ~(\E r \in Request : StoreFails(r)) /\ ~(\E k \in Key : Expire(k))
    BY DEF Dependable, StoreFails, Expire
  <1>6. QED
    BY <1>1, <1>2, <1>3, <1>4, <1>5, StepPromise DEF Next

\* KeepsPromise: requests with one key see one order and one answer, and no
\* failure is reported of an order that was or will be placed.
THEOREM PromiseKept ==
    ASSUME Dependable
    PROVE  Spec => KeepsPromise
  <1>1. IInv /\ [Next]_vars => [Promise!Next]_(Promise!vars)
    BY NextPromise DEF Promised
  <1>2. QED
    BY <1>1, InitPromise, Invariance, PTL DEF Spec, KeepsPromise, Promise!Spec

=============================================================================
