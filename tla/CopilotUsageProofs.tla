------------------------ MODULE CopilotUsageProofs ------------------------
(***************************************************************************)
(* Theorems about CopilotUsage, for every set of requests, amount and      *)
(* limit.  All rest on the exclusion of the scope lock, and so on the      *)
(* assumption that the lock does not lapse while its holder still works    *)
(* (no lockExpires).                                                       *)
(***************************************************************************)
EXTENDS CopilotUsage, FiniteSetTheorems, LeastNumber, TLAPS

LockOutlivesHolder == "lockExpires" \notin Faults
MarksWritten == "markFails" \notin Faults /\ "crash" \notin Faults

\* What the step of a request says of the request.
Roles(p) ==
    /\ pc[p] = "lookup" => p \in Release
    /\ pc[p] \in {"prune", "grant", "index"} => p \in Reserve
    /\ pc[p] \in {"check", "bill", "mark"} => p \in Commit
    /\ pc[p] \in {"read", "drop", "unindex"} => p \in Commit \cup Release /\ Of[p] \in Reserve

\* A request that works on the list holds the lock.
HoldsLock(p) == pc[p] \in Locked => lock = p

\* A reservation that a running commit or release names has been answered.
Told(p) ==
    p \notin Reserve /\ pc[p] # "start" /\ Of[p] # None =>
        pc[Of[p]] = "done" /\ answer[Of[p]] = "granted"

\* What a request has read is what the list still holds, apart from what has
\* expired since.
ReadsCurrent(p) ==
    /\ pc[p] = "grant" => snapshot[p] = list
    /\ pc[p] = "drop" => list \ expired \subseteq snapshot[p] /\ snapshot[p] \subseteq list

\* A commit past its release has its reservation out of the list.
GaveBack(p) ==
    /\ p \in Commit
    /\ \/ pc[p] \in {"unindex", "unlock"}
       \/ pc[p] = "done" /\ answer[p] # "busy"
    => Of[p] \notin list

RequestInv(p) == Roles(p) /\ HoldsLock(p) /\ Told(p)
ListInv(p) == ReadsCurrent(p) /\ GaveBack(p)

IInv ==
    /\ TypeOK
    /\ \A p \in Request : RequestInv(p) /\ ListInv(p)
    /\ NoReservationLost

-----------------------------------------------------------------------------
\* Who the requests are, from the assumption on the constants.
LEMMA Requests ==
    /\ Reserve \subseteq Request /\ Commit \subseteq Request /\ Release \subseteq Request
    /\ \A p \in Commit : Completion[p] \in Completions /\ Amount[p] \in Nat
    /\ \A p \in Commit \cup Release : p \notin Reserve /\ Of[p] \in Reserve \cup {None}
    /\ \A p \in Release : p \notin Commit /\ Of[p] \in Reserve
    /\ None \notin Request
  BY ConstantsAssumption DEF Request, Completions

LEMMA TypeInit == Init => TypeOK
  BY Requests DEF Init, TypeOK, Steps, Answers

\* Every step keeps the types.
LEMMA TypeNext ==
    ASSUME TypeOK, \A p \in Request : Roles(p), [Next]_vars
    PROVE  TypeOK'
<1> USE Requests
<1>1. ASSUME NEW p \in Request, Arrive(p) \/ ReadLookup(p) \/ Acquire(p) \/ GiveUp(p) \/ Unlock(p)
      PROVE  TypeOK'
  BY <1>1 DEF Arrive, ReadLookup, Acquire, GiveUp, Unlock, Go, Answered, At, TypeOK, Steps,
       Answers, cache, ledger
<1>2. ASSUME NEW p \in Request, ReserveStep(p) PROVE TypeOK'
  <2>1. p \in Reserve
    BY <1>2 DEF ReserveStep, Prune, Grant, Index, At, Roles
  <2> QED
    BY <1>2, <2>1 DEF ReserveStep, Prune, Grant, Index, Go, Answered, At, TypeOK, Steps, Answers,
         ledger
<1>3. ASSUME NEW p \in Request, CommitStep(p) PROVE TypeOK'
  <2>1. p \in Commit
    BY <1>3 DEF CommitStep, CheckMarked, Bill, Mark, At, Roles
  <2>2. CASE CheckMarked(p) \/ Mark(p)
    BY <2>1, <2>2 DEF CheckMarked, Mark, Finally, Go, Answered, At, TypeOK, Steps, Answers, cache,
         ledger
  <2>3. CASE Bill(p)
    BY <2>1, <2>3 DEF Bill, Accrue, Finally, Go, Answered, At, TypeOK, Steps, Answers, cache
  <2> QED
    BY <1>3, <2>2, <2>3 DEF CommitStep
<1>4. ASSUME NEW p \in Request, ReleaseStep(p) PROVE TypeOK'
  BY <1>4 DEF ReleaseStep, ReadList, Drop, Unindex, Go, Answered, At, TypeOK, Steps, Answers,
       cache, ledger
<1>5. ASSUME NEW p \in Request, LockLapses(p) \/ Crash(p) PROVE TypeOK'
  BY <1>5 DEF LockLapses, Crash, Go, TypeOK, Steps, cache, ledger
<1>6. ASSUME NEW r \in Reserve, ReservationExpires(r) \/ LookupExpires(r) PROVE TypeOK'
  BY <1>6 DEF ReservationExpires, LookupExpires, TypeOK, ledger
<1>7. CASE UNCHANGED vars
  BY <1>7 DEF vars, TypeOK
<1> QED
  BY <1>1, <1>2, <1>3, <1>4, <1>5, <1>6, <1>7 DEF Next

\* A request takes only the steps of its kind.
LEMMA RolesNext ==
    ASSUME TypeOK, \A p \in Request : Roles(p), [Next]_vars, NEW q \in Request
    PROVE  Roles(q)'
<1> USE Requests
<1>1. ASSUME NEW p \in Request, Arrive(p) \/ ReadLookup(p) \/ Acquire(p) \/ GiveUp(p) \/ Unlock(p)
      PROVE  Roles(q)'
  BY <1>1 DEF Arrive, ReadLookup, Acquire, GiveUp, Unlock, Go, At, TypeOK, Roles, Request
<1>2. ASSUME NEW p \in Request, ReserveStep(p) PROVE Roles(q)'
  BY <1>2 DEF ReserveStep, Prune, Grant, Index, Go, At, TypeOK, Roles
<1>3. ASSUME NEW p \in Request, CommitStep(p) PROVE Roles(q)'
  BY <1>3 DEF CommitStep, CheckMarked, Bill, Mark, Finally, Go, At, TypeOK, Roles
<1>4. ASSUME NEW p \in Request, ReleaseStep(p) PROVE Roles(q)'
  BY <1>4 DEF ReleaseStep, ReadList, Drop, Unindex, Go, At, TypeOK, Roles
<1>5. ASSUME NEW p \in Request, LockLapses(p) \/ Crash(p) PROVE Roles(q)'
  BY <1>5 DEF LockLapses, Crash, Go, TypeOK, Roles
<1>6. ASSUME NEW r \in Reserve, ReservationExpires(r) \/ LookupExpires(r) PROVE Roles(q)'
  BY <1>6 DEF ReservationExpires, LookupExpires, Roles
<1>7. CASE UNCHANGED vars
  BY <1>7 DEF vars, Roles
<1> QED
  BY <1>1, <1>2, <1>3, <1>4, <1>5, <1>6, <1>7 DEF Next

\* Exclusion: only a request that is not working on the list loses the lock.
LEMMA LockNext ==
    ASSUME LockOutlivesHolder, TypeOK, \A p \in Request : HoldsLock(p), [Next]_vars,
           NEW q \in Request
    PROVE  HoldsLock(q)'
<1>1. ASSUME NEW p \in Request, Arrive(p) \/ ReadLookup(p) \/ Acquire(p) \/ GiveUp(p) \/ Unlock(p)
      PROVE  HoldsLock(q)'
  BY <1>1, Requests DEF Arrive, ReadLookup, Acquire, GiveUp, Unlock, Go, At, TypeOK, HoldsLock,
       Locked
<1>2. ASSUME NEW p \in Request, ReserveStep(p) PROVE HoldsLock(q)'
  BY <1>2 DEF ReserveStep, Prune, Grant, Index, Go, At, TypeOK, HoldsLock, Locked
<1>3. ASSUME NEW p \in Request, CommitStep(p) PROVE HoldsLock(q)'
  BY <1>3 DEF CommitStep, CheckMarked, Bill, Mark, Finally, Go, At, TypeOK, HoldsLock, Locked
<1>4. ASSUME NEW p \in Request, ReleaseStep(p) PROVE HoldsLock(q)'
  BY <1>4 DEF ReleaseStep, ReadList, Drop, Unindex, Go, At, TypeOK, HoldsLock, Locked
<1>5. ASSUME NEW p \in Request, LockLapses(p) \/ Crash(p) PROVE HoldsLock(q)'
  BY <1>5 DEF LockOutlivesHolder, LockLapses, Crash, Go, TypeOK, HoldsLock, Locked
<1>6. ASSUME NEW r \in Reserve, ReservationExpires(r) \/ LookupExpires(r) PROVE HoldsLock(q)'
  BY <1>6 DEF ReservationExpires, LookupExpires, HoldsLock
<1>7. CASE UNCHANGED vars
  BY <1>7 DEF vars, HoldsLock
<1> QED
  BY <1>1, <1>2, <1>3, <1>4, <1>5, <1>6, <1>7 DEF Next

\* What a client was told does not change.
LEMMA ToldNext ==
    ASSUME TypeOK, \A p \in Request : Roles(p) /\ Told(p), [Next]_vars, NEW q \in Request
    PROVE  Told(q)'
<1> SUFFICES ASSUME q \in Commit \cup Release, Of[q] \in Reserve PROVE Told(q)'
  BY Requests DEF Told, Request
<1> USE Requests
<1>1. ASSUME NEW p \in Request, Arrive(p) \/ ReadLookup(p) \/ Acquire(p) \/ GiveUp(p) \/ Unlock(p)
      PROVE  Told(q)'
  BY <1>1 DEF Arrive, ReadLookup, Acquire, GiveUp, Unlock, Go, Answered, At, TypeOK, Told
<1>2. ASSUME NEW p \in Request, ReserveStep(p) PROVE Told(q)'
  BY <1>2 DEF ReserveStep, Prune, Grant, Index, Go, Answered, At, TypeOK, Told
<1>3. ASSUME NEW p \in Request, CommitStep(p) PROVE Told(q)'
  BY <1>3 DEF CommitStep, CheckMarked, Bill, Mark, Finally, Go, Answered, At, TypeOK, Told
<1>4. ASSUME NEW p \in Request, ReleaseStep(p) PROVE Told(q)'
  BY <1>4 DEF ReleaseStep, ReadList, Drop, Unindex, Go, Answered, At, TypeOK, Told
<1>5. ASSUME NEW p \in Request, LockLapses(p) \/ Crash(p) PROVE Told(q)'
  BY <1>5 DEF LockLapses, Crash, Go, TypeOK, Told
<1>6. ASSUME NEW r \in Reserve, ReservationExpires(r) \/ LookupExpires(r) PROVE Told(q)'
  BY <1>6 DEF ReservationExpires, LookupExpires, Told
<1>7. CASE UNCHANGED vars
  BY <1>7 DEF vars, Told
<1> QED
  BY <1>1, <1>2, <1>3, <1>4, <1>5, <1>6, <1>7 DEF Next

\* Nobody changes the list between the read and the write of a lock holder.
LEMMA ReadsNext ==
    ASSUME TypeOK, \A p \in Request : RequestInv(p) /\ ReadsCurrent(p), [Next]_vars,
           NEW q \in Request
    PROVE  ReadsCurrent(q)'
<1> USE Requests DEF RequestInv
<1>1. \A p \in Request : p # q /\ pc[p] \in Locked => pc[q] \notin {"grant", "drop"}
  BY DEF HoldsLock, Locked
<1>2. ASSUME NEW p \in Request, Arrive(p) \/ ReadLookup(p) \/ Acquire(p) \/ GiveUp(p) \/ Unlock(p)
      PROVE  ReadsCurrent(q)'
  BY <1>2 DEF Arrive, ReadLookup, Acquire, GiveUp, Unlock, Go, At, TypeOK, ReadsCurrent, cache
<1>3. ASSUME NEW p \in Request, ReserveStep(p) PROVE ReadsCurrent(q)'
  <2>1. q # p /\ ~Index(p) => pc[q] \notin {"grant", "drop"}
    BY <1>1, <1>3 DEF ReserveStep, Prune, Grant, At, Locked
  <2>2. CASE q = p
    <3>1. CASE Prune(p)
      BY <2>2, <3>1 DEF Prune, Go, TypeOK, ReadsCurrent
    <3>2. CASE Grant(p)
      BY <2>2, <3>2 DEF Grant, Go, TypeOK, ReadsCurrent
    <3>3. CASE Index(p)
      BY <2>2, <3>3 DEF Index, Go, TypeOK, ReadsCurrent
    <3> QED
      BY <1>3, <3>1, <3>2, <3>3 DEF ReserveStep
  <2>3. CASE q # p
    BY <1>3, <2>1, <2>3 DEF ReserveStep, Prune, Grant, Index, Go, At, TypeOK, ReadsCurrent
  <2> QED
    BY <2>2, <2>3
<1>4. ASSUME NEW p \in Request, CommitStep(p) PROVE ReadsCurrent(q)'
  BY <1>4 DEF CommitStep, CheckMarked, Bill, Mark, Finally, Go, At, TypeOK, ReadsCurrent, cache
<1>5. ASSUME NEW p \in Request, ReleaseStep(p) PROVE ReadsCurrent(q)'
  <2>1. q # p => pc[q] \notin {"grant", "drop"}
    BY <1>1, <1>5 DEF ReleaseStep, ReadList, Drop, Unindex, At, Locked
  <2>2. CASE q = p
    BY <1>5, <2>2 DEF ReleaseStep, ReadList, Drop, Unindex, Go, At, TypeOK, ReadsCurrent, cache
  <2>3. CASE q # p
    BY <1>5, <2>1, <2>3 DEF ReleaseStep, ReadList, Drop, Unindex, Go, At, TypeOK, ReadsCurrent
  <2> QED
    BY <2>2, <2>3
<1>6. ASSUME NEW p \in Request, LockLapses(p) \/ Crash(p) PROVE ReadsCurrent(q)'
  BY <1>6 DEF LockLapses, Crash, Go, TypeOK, ReadsCurrent, cache
<1>7. ASSUME NEW r \in Reserve, ReservationExpires(r) \/ LookupExpires(r) PROVE ReadsCurrent(q)'
  BY <1>7 DEF ReservationExpires, LookupExpires, ReadsCurrent
<1>8. CASE UNCHANGED vars
  BY <1>8 DEF vars, ReadsCurrent
<1> QED
  BY <1>2, <1>3, <1>4, <1>5, <1>6, <1>7, <1>8 DEF Next

\* What the list gains is the reservation of the request that writes it.
LEMMA ListGains ==
    ASSUME TypeOK, \A p \in Request : RequestInv(p) /\ ReadsCurrent(p), [Next]_vars,
           NEW r \in list', r \notin list
    PROVE  pc[r] = "grant"
<1> USE Requests DEF RequestInv, ReadsCurrent
<1>1. ASSUME NEW p \in Request, Prune(p) \/ Grant(p) \/ Drop(p) PROVE pc[r] = "grant"
  BY <1>1 DEF Prune, Grant, Drop, At
<1>2. CASE UNCHANGED list
  BY <1>2
<1>3. ASSUME NEW p \in Request, ~(Prune(p) \/ Grant(p) \/ Drop(p)),
             \/ Arrive(p) \/ ReadLookup(p) \/ Acquire(p) \/ GiveUp(p) \/ Unlock(p)
             \/ ReserveStep(p) \/ CommitStep(p) \/ ReleaseStep(p)
             \/ LockLapses(p) \/ Crash(p)
      PROVE  UNCHANGED list
  BY <1>3 DEF Arrive, ReadLookup, Acquire, GiveUp, Unlock, ReserveStep, Index, CommitStep,
       CheckMarked, Bill, Mark, ReleaseStep, ReadList, Unindex, LockLapses, Crash, cache
<1>4. ASSUME NEW p \in Reserve, ReservationExpires(p) \/ LookupExpires(p) PROVE UNCHANGED list
  BY <1>4 DEF ReservationExpires, LookupExpires
<1> QED
  BY <1>1, <1>2, <1>3, <1>4 DEF Next, vars

\* A reservation that counts has just been granted or counted before.
LEMMA OutstandingBefore ==
    ASSUME TypeOK, \A p \in Request : Roles(p), [Next]_vars, NEW r \in Reserve, Outstanding(r)'
    PROVE  Outstanding(r) \/ (Grant(r) /\ answer'[r] = "granted")
<1> DEFINE Past == {"drop", "unindex", "unlock", "done", "crashed"}
           Onward(p) == /\ \A q \in Request : pc[q] \in Past => pc'[q] \in Past
                        /\ expired \subseteq expired'
                        /\ answer'[r] = "granted" => answer[r] = "granted" \/ Grant(r)
<1> USE Requests
<1>1. ASSUME NEW p \in Request, Arrive(p) \/ ReadLookup(p) \/ Acquire(p) \/ GiveUp(p) \/ Unlock(p)
      PROVE  Onward(p)
  BY <1>1 DEF Arrive, ReadLookup, Acquire, GiveUp, Unlock, Go, Answered, At, TypeOK, cache
<1>2. ASSUME NEW p \in Request, ReserveStep(p) PROVE Onward(p)
  BY <1>2 DEF ReserveStep, Prune, Grant, Index, Go, Answered, At, TypeOK
<1>3. ASSUME NEW p \in Request, CommitStep(p) PROVE Onward(p)
  BY <1>3 DEF CommitStep, CheckMarked, Bill, Mark, Finally, Go, Answered, At, TypeOK, cache, Roles
<1>4. ASSUME NEW p \in Request, ReleaseStep(p) PROVE Onward(p)
  BY <1>4 DEF ReleaseStep, ReadList, Drop, Unindex, Go, Answered, At, TypeOK, cache, Roles
<1>5. ASSUME NEW p \in Request, LockLapses(p) \/ Crash(p) PROVE Onward(p)
  BY <1>5 DEF LockLapses, Crash, Go, TypeOK, cache
<1>6. ASSUME NEW p \in Reserve, ReservationExpires(p) \/ LookupExpires(p) PROVE Onward(p)
  BY <1>6 DEF ReservationExpires, LookupExpires
<1>7. CASE UNCHANGED vars
  BY <1>7 DEF vars, Outstanding
<1>8. ASSUME NEW p \in Request, Onward(p) PROVE Outstanding(r) \/ (Grant(r) /\ answer'[r] = "granted")
  BY <1>8 DEF Outstanding
<1> QED
  BY <1>1, <1>2, <1>3, <1>4, <1>5, <1>6, <1>7, <1>8 DEF Next

\* No step takes a reservation that counts out of the list.
LEMMA KeptNext ==
    ASSUME TypeOK, \A p \in Request : RequestInv(p) /\ ReadsCurrent(p), NoReservationLost,
           [Next]_vars
    PROVE  NoReservationLost'
<1> SUFFICES ASSUME NEW r \in Reserve, Outstanding(r)' PROVE r \in list'
  BY DEF NoReservationLost
<1> USE Requests DEF RequestInv
<1>1. CASE Grant(r) /\ answer'[r] = "granted"
  BY <1>1 DEF Grant, Answered, TypeOK
<1>2. CASE Outstanding(r)
  <2>1. r \in list /\ r \notin expired
    BY <1>2 DEF NoReservationLost, Outstanding
  <2>2. ASSUME NEW p \in Request, Prune(p) PROVE r \in list'
    BY <2>1, <2>2 DEF Prune
  <2>3. ASSUME NEW p \in Request, Grant(p) PROVE r \in list'
    BY <2>1, <2>3 DEF Grant, At, ReadsCurrent
  <2>4. ASSUME NEW p \in Request, Drop(p) PROVE r \in list'
    <3>1. p \in Commit \cup Release /\ pc'[p] = "unindex"
      BY <2>4 DEF Drop, At, Go, Roles, TypeOK
    <3>2. Of[p] # r
      BY <3>1 DEF Outstanding
    <3> QED
      BY <2>1, <2>4, <3>2 DEF Drop, At, ReadsCurrent
  <2>5. ASSUME NEW p \in Request, ~(Prune(p) \/ Grant(p) \/ Drop(p)),
               \/ Arrive(p) \/ ReadLookup(p) \/ Acquire(p) \/ GiveUp(p) \/ Unlock(p)
               \/ ReserveStep(p) \/ CommitStep(p) \/ ReleaseStep(p)
               \/ LockLapses(p) \/ Crash(p)
        PROVE  UNCHANGED list
    BY <2>5 DEF Arrive, ReadLookup, Acquire, GiveUp, Unlock, ReserveStep, Index, CommitStep,
         CheckMarked, Bill, Mark, ReleaseStep, ReadList, Unindex, LockLapses, Crash, cache
  <2>6. ASSUME NEW p \in Reserve, ReservationExpires(p) \/ LookupExpires(p) PROVE UNCHANGED list
    BY <2>6 DEF ReservationExpires, LookupExpires
  <2> QED
    BY <2>1, <2>2, <2>3, <2>4, <2>5, <2>6 DEF Next, vars
<1> QED
  BY <1>1, <1>2, OutstandingBefore

\* A commit comes past its release only by taking its reservation out.
LEMMA GaveBackNext ==
    ASSUME TypeOK, TypeOK', \A p \in Request : RequestInv(p) /\ ListInv(p), [Next]_vars,
           NEW q \in Request
    PROVE  GaveBack(q)'
<1> DEFINE Gone == pc[q] \in {"unindex", "unlock"} \/ (pc[q] = "done" /\ answer[q] # "busy")
<1> SUFFICES ASSUME q \in Commit, Gone' PROVE Of[q] \notin list'
  BY DEF GaveBack
<1> USE Requests DEF RequestInv, ListInv
<1>1. CASE Drop(q)
  BY <1>1 DEF Drop
<1>2. CASE Gone \/ Of[q] = None
  <2>1. Of[q] \notin list
    BY <1>2 DEF GaveBack, TypeOK
  <2>2. CASE Of[q] = None
    BY <2>2 DEF TypeOK
  <2>3. CASE Gone /\ Of[q] # None
    <3>1. pc[Of[q]] = "done"
      BY <2>3 DEF Told
    <3> QED
      BY <2>1, <3>1, ListGains
  <2> QED
    BY <1>2, <2>2, <2>3
<1>3. ASSUME ~Gone, Of[q] # None PROVE Drop(q)
  <2>1. ASSUME NEW p \in Request, Arrive(p) \/ ReadLookup(p) \/ Acquire(p) \/ GiveUp(p) \/ Unlock(p)
        PROVE  FALSE
    BY <1>3, <2>1 DEF Arrive, ReadLookup, Acquire, GiveUp, Unlock, Go, Answered, At, TypeOK, Roles
  <2>2. ASSUME NEW p \in Request, ReserveStep(p) PROVE FALSE
    BY <1>3, <2>2 DEF ReserveStep, Prune, Grant, Index, Go, Answered, At, TypeOK, Roles
  <2>3. ASSUME NEW p \in Request, CommitStep(p) PROVE FALSE
    BY <1>3, <2>3 DEF CommitStep, CheckMarked, Bill, Mark, Finally, Go, Answered, At, TypeOK
  <2>4. ASSUME NEW p \in Request, ReleaseStep(p) PROVE Drop(q)
    BY <1>3, <2>4 DEF ReleaseStep, ReadList, Drop, Unindex, Go, Answered, At, TypeOK
  <2>5. ASSUME NEW p \in Request, LockLapses(p) \/ Crash(p) PROVE FALSE
    BY <1>3, <2>5 DEF LockLapses, Crash, Go, TypeOK
  <2>6. ASSUME NEW r \in Reserve, ReservationExpires(r) \/ LookupExpires(r) PROVE FALSE
    BY <1>3, <2>6 DEF ReservationExpires, LookupExpires
  <2>7. CASE UNCHANGED vars
    BY <1>3, <2>7 DEF vars
  <2> QED
    BY <2>1, <2>2, <2>3, <2>4, <2>5, <2>6, <2>7 DEF Next
<1> QED
  BY <1>1, <1>2, <1>3

-----------------------------------------------------------------------------
LEMMA Inductive ==
    ASSUME LockOutlivesHolder, IInv, [Next]_vars
    PROVE  IInv'
<1>1. /\ TypeOK
      /\ \A p \in Request : RequestInv(p) /\ ListInv(p)
      /\ \A p \in Request : Roles(p) /\ HoldsLock(p) /\ Told(p) /\ ReadsCurrent(p)
      /\ NoReservationLost
  BY DEF IInv, RequestInv, ListInv
<1>2. TypeOK'
  BY <1>1, TypeNext
<1>3. ASSUME NEW q \in Request PROVE RequestInv(q)'
  BY <1>1, RolesNext, LockNext, ToldNext DEF RequestInv
<1>4. ASSUME NEW q \in Request PROVE ListInv(q)'
  BY <1>1, <1>2, ReadsNext, GaveBackNext DEF ListInv
<1>5. NoReservationLost'
  BY <1>1, KeptNext
<1>6. \A q \in Request : RequestInv(q)' /\ ListInv(q)'
  BY <1>3, <1>4
<1> QED
  BY <1>2, <1>5, <1>6 DEF IInv

LEMMA Initial == Init => IInv
<1> SUFFICES ASSUME Init PROVE IInv
  OBVIOUS
<1>1. ASSUME NEW p \in Request PROVE RequestInv(p) /\ ListInv(p)
  BY <1>1 DEF Init, RequestInv, Roles, HoldsLock, Told, Locked, ListInv, ReadsCurrent, GaveBack
<1>2. NoReservationLost
  BY Requests DEF Init, NoReservationLost, Outstanding
<1> QED
  BY <1>1, <1>2, TypeInit DEF IInv

\* The inductive invariant: types, what each step knows of the lock, of the
\* list it read and of its reservation, and the list itself.
THEOREM Invariance ==
    ASSUME LockOutlivesHolder
    PROVE  Spec => []IInv
<1>1. IInv /\ [Next]_vars => IInv'
  BY Inductive
<1> QED
  BY <1>1, Initial, PTL DEF Spec

\* Types, for every set of requests (all variables of the model).
THEOREM TypeCorrect ==
    ASSUME LockOutlivesHolder
    PROVE  Spec => []TypeOK
<1>1. IInv => TypeOK
  BY DEF IInv
<1> QED
  BY <1>1, Invariance, PTL

\* Whatever crashes, expires or fails, a granted reservation stays in the
\* list until it expires or a commit or release that names it takes it out.
THEOREM ReservationsKept ==
    ASSUME LockOutlivesHolder
    PROVE  Spec => []NoReservationLost
<1>1. IInv => NoReservationLost
  BY DEF IInv
<1> QED
  BY <1>1, Invariance, PTL

\* A commit that has been answered, with or without a bill, has given its
\* reservation back.
THEOREM ReservationsReturned ==
    ASSUME LockOutlivesHolder
    PROVE  Spec => []CommitReleases
<1>1. IInv => CommitReleases
  BY Requests DEF IInv, ListInv, GaveBack, CommitReleases
<1> QED
  BY <1>1, Invariance, PTL

-----------------------------------------------------------------------------
(* What a set of reservations sums up to.                                   *)

\* The sum is a recursive function on the subsets of the set, which takes out
\* one element after the other.
Some(s) == CHOOSE x \in s : TRUE
SumOver(S, f) ==
    f = [s \in SUBSET S |-> IF s = {} THEN 0 ELSE Amount[Some(s)] + f[s \ {Some(s)}]]
Sum(S) == CHOOSE f : SumOver(S, f)

Finite(S) == S \subseteq Reserve /\ IsFiniteSet(S)

LEMMA Sizes ==
    ASSUME NEW S, Finite(S), NEW s \in SUBSET S
    PROVE  /\ Finite(s) /\ Cardinality(s) \in Nat
           /\ s # {} => /\ Some(s) \in s /\ Amount[Some(s)] \in Nat /\ Finite(s \ {Some(s)})
                        /\ Cardinality(s \ {Some(s)}) \in Nat
                        /\ Cardinality(s \ {Some(s)}) < Cardinality(s)
<1>1. Finite(s) /\ Cardinality(s) \in Nat
  BY FS_Subset, FS_CardinalityType DEF Finite
<1>2. ASSUME s # {} PROVE Some(s) \in s /\ Amount[Some(s)] \in Nat
  <2>1. Some(s) \in s
    BY <1>2 DEF Some
  <2> QED
    BY <2>1, ConstantsAssumption DEF Finite
<1>3. ASSUME s # {} PROVE Finite(s \ {Some(s)}) /\ Cardinality(s \ {Some(s)}) = Cardinality(s) - 1
  BY <1>1, <1>2, <1>3, FS_RemoveElement DEF Finite
<1>4. ASSUME s # {} PROVE Cardinality(s \ {Some(s)}) \in Nat
  BY <1>3, <1>4, FS_CardinalityType DEF Finite
<1> QED
  BY <1>1, <1>2, <1>3, <1>4

\* For a finite set the function exists: up to the least size of subsets for
\* which it did not, it would.
LEMMA SumDefined ==
    ASSUME NEW S, Finite(S)
    PROVE  \A s \in SUBSET S :
              Sum(S)[s] = IF s = {} THEN 0 ELSE Amount[Some(s)] + Sum(S)[s \ {Some(s)}]
<1> DEFINE Up(f, k) == \A s \in SUBSET S : Cardinality(s) <= k =>
                          f[s] = IF s = {} THEN 0 ELSE Amount[Some(s)] + f[s \ {Some(s)}]
           T == {k \in Nat : ~\E f : Up(f, k)}
<1>0. \A s \in SUBSET S : Cardinality(s) \in Nat
  BY Sizes
<1>1. T = {}
  <2> SUFFICES ASSUME T # {} PROVE FALSE
    OBVIOUS
  <2>1. PICK m \in T : \A k \in T : m <= k
    BY Least
  <2>2. \E g : \A s \in SUBSET S : Cardinality(s) < m =>
                  g[s] = IF s = {} THEN 0 ELSE Amount[Some(s)] + g[s \ {Some(s)}]
    <3>1. CASE m = 0
      <4>1. \A s \in SUBSET S : ~(Cardinality(s) < m)
        BY <1>0, <3>1
      <4> QED
        BY <4>1
    <3>2. CASE m # 0
      <4>1. m - 1 \in Nat /\ ~(m <= m - 1)
        BY <3>2
      <4>2. PICK g : Up(g, m - 1)
        BY <2>1, <4>1
      <4>3. \A s \in SUBSET S : Cardinality(s) < m => Cardinality(s) <= m - 1
        BY <1>0
      <4> QED
        BY <4>2, <4>3
    <3> QED
      BY <3>1, <3>2
  <2>3. PICK g : \A s \in SUBSET S : Cardinality(s) < m =>
                    g[s] = IF s = {} THEN 0 ELSE Amount[Some(s)] + g[s \ {Some(s)}]
    BY <2>2
  <2> DEFINE h == [s \in SUBSET S |-> IF s = {} THEN 0 ELSE Amount[Some(s)] + g[s \ {Some(s)}]]
  <2>4. ASSUME NEW s \in SUBSET S, Cardinality(s) < m PROVE h[s] = g[s]
    BY <2>3, <2>4
  <2>5. ASSUME NEW s \in SUBSET S, Cardinality(s) <= m
        PROVE  h[s] = IF s = {} THEN 0 ELSE Amount[Some(s)] + h[s \ {Some(s)}]
    <3>1. CASE s = {}
      BY <3>1
    <3>2. CASE s # {}
      <4>1. s \ {Some(s)} \in SUBSET S /\ Cardinality(s \ {Some(s)}) < m
        BY <2>5, <3>2, Sizes
      <4>2. h[s \ {Some(s)}] = g[s \ {Some(s)}]
        BY <2>4, <4>1
      <4>3. h[s] = Amount[Some(s)] + g[s \ {Some(s)}]
        BY <3>2
      <4> HIDE DEF h
      <4> QED
        BY <3>2, <4>2, <4>3
    <3> QED
      BY <3>1, <3>2
  <2> HIDE DEF h
  <2>6. Up(h, m)
    BY <2>5
  <2> QED
    BY <2>6
<1>2. Cardinality(S) \in Nat /\ \A s \in SUBSET S : Cardinality(s) <= Cardinality(S)
  BY FS_Subset, FS_CardinalityType DEF Finite
<1>3. PICK g : Up(g, Cardinality(S))
  BY <1>1, <1>2
<1> DEFINE h == [s \in SUBSET S |-> g[s]]
<1>4. SumOver(S, h)
  <2>1. ASSUME NEW s \in SUBSET S
        PROVE  h[s] = IF s = {} THEN 0 ELSE Amount[Some(s)] + h[s \ {Some(s)}]
    BY <1>2, <1>3
  <2>2. h = [s \in SUBSET S |-> h[s]]
    OBVIOUS
  <2> HIDE DEF h
  <2> QED
    BY <2>1, <2>2 DEF SumOver
<1>5. SumOver(S, Sum(S))
  BY <1>4 DEF Sum
<1> QED
  BY <1>5 DEF SumOver

\* Subsets sum up to the same in every set.
LEMMA SumSame ==
    ASSUME NEW S, Finite(S), NEW s \in SUBSET S
    PROVE  Sum(S)[s] = Sum(s)[s]
<1> DEFINE T == {k \in Nat : \E t \in SUBSET S : \E u \in SUBSET t :
                                Cardinality(u) = k /\ Sum(S)[u] # Sum(t)[u]}
<1> SUFFICES ASSUME T # {} PROVE FALSE
  BY Sizes
<1>1. PICK m \in T : \A k \in T : m <= k
  BY Least
<1>2. PICK t \in SUBSET S : \E u \in SUBSET t : Cardinality(u) = m /\ Sum(S)[u] # Sum(t)[u]
  BY <1>1
<1> PICK u \in SUBSET t : Cardinality(u) = m /\ Sum(S)[u] # Sum(t)[u]
  BY <1>2
<1>3. Finite(t)
  BY Sizes
<1>4. /\ Sum(S)[u] = IF u = {} THEN 0 ELSE Amount[Some(u)] + Sum(S)[u \ {Some(u)}]
      /\ Sum(t)[u] = IF u = {} THEN 0 ELSE Amount[Some(u)] + Sum(t)[u \ {Some(u)}]
  BY <1>3, SumDefined
<1>5. u # {}
  BY <1>2, <1>4
<1>6. Cardinality(u \ {Some(u)}) \in Nat /\ ~(m <= Cardinality(u \ {Some(u)}))
  BY <1>2, <1>3, <1>5, Sizes
<1>7. Sum(S)[u \ {Some(u)}] = Sum(t)[u \ {Some(u)}]
  BY <1>1, <1>6
<1> QED
  BY <1>2, <1>4, <1>7

\* One element of the sum after the other.
LEMMA ReservedOne ==
    ASSUME NEW S, Finite(S)
    PROVE  /\ S = {} => Reserved(S) = 0
           /\ S # {} => Reserved(S) = Amount[Some(S)] + Reserved(S \ {Some(S)})
<1>1. \A s : Reserved(s) = Sum(s)[s]
  BY DEF Reserved, MapThenSumSet, MapThenFoldSet, Sum, SumOver, Some
<1>2. Sum(S)[S] = IF S = {} THEN 0 ELSE Amount[Some(S)] + Sum(S)[S \ {Some(S)}]
  BY SumDefined
<1>3. Sum(S)[S \ {Some(S)}] = Sum(S \ {Some(S)})[S \ {Some(S)}]
  BY SumSame
<1> QED
  BY <1>1, <1>2, <1>3

LEMMA ReservedType ==
    ASSUME NEW S, Finite(S)
    PROVE  Reserved(S) \in Nat
<1> DEFINE T == {k \in Nat : \E s \in SUBSET S : Cardinality(s) = k /\ Reserved(s) \notin Nat}
<1> SUFFICES ASSUME T # {} PROVE FALSE
  BY Sizes
<1>1. PICK m \in T : \A k \in T : m <= k
  BY Least
<1>2. PICK s \in SUBSET S : Cardinality(s) = m /\ Reserved(s) \notin Nat
  BY <1>1
<1>3. s # {} /\ Reserved(s) = Amount[Some(s)] + Reserved(s \ {Some(s)})
  BY <1>2, Sizes, ReservedOne
<1>4. Cardinality(s \ {Some(s)}) \in Nat /\ ~(m <= Cardinality(s \ {Some(s)})) /\ Amount[Some(s)] \in Nat
  BY <1>2, <1>3, Sizes
<1>5. Reserved(s \ {Some(s)}) \in Nat
  BY <1>1, <1>4
<1> QED
  BY <1>2, <1>3, <1>4, <1>5

\* The order in which elements are taken out does not matter.
LEMMA ReservedWith ==
    ASSUME NEW S, Finite(S), NEW r \in Reserve, r \notin S
    PROVE  Reserved(S \cup {r}) = Reserved(S) + Amount[r]
<1> DEFINE Fails(s, x) == x \notin s /\ Reserved(s \cup {x}) # Reserved(s) + Amount[x]
           All == S \cup {r}
           T == {k \in Nat : \E s \in SUBSET All, x \in All : Cardinality(s) = k /\ Fails(s, x)}
<1>1. Finite(All)
  BY FS_AddElement DEF Finite
<1> HIDE DEF All
<1> SUFFICES ASSUME T # {} PROVE FALSE
  <2>1. S \in SUBSET All /\ r \in All /\ Cardinality(S) \in Nat
    BY Sizes DEF All
  <2> QED
    BY <2>1
<1>2. PICK m \in T : \A k \in T : m <= k
  BY Least
<1>3. PICK s \in SUBSET All, x \in All : Cardinality(s) = m /\ Fails(s, x)
  BY <1>2
<1> DEFINE u == s \cup {x}
           c == Some(u)
<1>4. u \in SUBSET All /\ u # {}
  OBVIOUS
<1>5. Finite(u) /\ Finite(s) /\ c \in u /\ Amount[c] \in Nat /\ Amount[x] \in Nat
  <2>1. Amount[x] \in Nat
    BY <1>1, ConstantsAssumption DEF Finite
  <2> QED
    BY <1>1, <1>4, <2>1, Sizes
<1>6. Reserved(u) = Amount[c] + Reserved(u \ {c})
  BY <1>4, <1>5, ReservedOne
<1>7. Reserved(s) \in Nat
  BY <1>5, ReservedType
<1> HIDE DEF c
<1>8. CASE c = x
  <2>1. u \ {c} = s
    BY <1>3, <1>8
  <2> QED
    BY <1>3, <1>5, <1>6, <1>7, <1>8, <2>1
<1>9. CASE c # x
  <2> DEFINE v == s \ {c}
  <2>1. c \in s /\ c \in All
    BY <1>5, <1>9
  <2>2. v \in SUBSET All /\ c \notin v /\ x \notin v
    BY <1>3
  <2>3. Finite(v) /\ Cardinality(v) \in Nat /\ ~(m <= Cardinality(v))
    <3>1. Finite(v) /\ Cardinality(v) = Cardinality(s) - 1
      BY <1>5, <2>1, FS_RemoveElement DEF Finite
    <3>2. Cardinality(v) \in Nat
      BY <1>1, <2>2, Sizes
    <3> QED
      BY <1>3, <3>1, <3>2
  <2>4. Reserved(v) \in Nat
    BY <2>3, ReservedType
  <2>5. v \cup {c} = s /\ v \cup {x} = u \ {c}
    BY <1>9, <2>1
  <2> HIDE DEF v
  <2>6. ~Fails(v, x) /\ ~Fails(v, c)
    BY <1>2, <2>1, <2>2, <2>3
  <2>7. Reserved(v \cup {x}) = Reserved(v) + Amount[x] /\ Reserved(v \cup {c}) = Reserved(v) + Amount[c]
    BY <2>2, <2>6
  <2>8. Reserved(u \ {c}) = Reserved(v) + Amount[x] /\ Reserved(s) = Reserved(v) + Amount[c]
    BY <2>5, <2>7
  <2>9. Reserved(u) = Reserved(s) + Amount[x]
    BY <1>5, <1>6, <2>4, <2>8
  <2> QED
    BY <1>3, <2>9
<1> QED
  BY <1>8, <1>9

\* A part of a set sums up to no more than the set.
LEMMA ReservedPart ==
    ASSUME NEW S, Finite(S), NEW R \in SUBSET S
    PROVE  Reserved(R) <= Reserved(S)
<1> DEFINE T == {k \in Nat : \E t \in SUBSET S : /\ R \subseteq t /\ Cardinality(t) = k
                                                 /\ ~(Reserved(R) <= Reserved(t))}
<1> SUFFICES ASSUME T # {} PROVE FALSE
  BY Sizes
<1>1. PICK m \in T : \A k \in T : m <= k
  BY Least
<1>2. PICK t \in SUBSET S : R \subseteq t /\ Cardinality(t) = m /\ ~(Reserved(R) <= Reserved(t))
  BY <1>1
<1>3. Finite(t) /\ Finite(R) /\ Reserved(t) \in Nat /\ Reserved(R) \in Nat
  BY Sizes, ReservedType
<1>4. R # t
  BY <1>2, <1>3
<1>5. PICK x \in t : x \notin R
  BY <1>2, <1>4
<1> DEFINE u == t \ {x}
<1>6. Finite(u) /\ Cardinality(u) \in Nat /\ ~(m <= Cardinality(u))
  <2>1. Finite(u) /\ Cardinality(u) = Cardinality(t) - 1
    BY <1>3, <1>5, FS_RemoveElement DEF Finite
  <2>2. Cardinality(u) \in Nat
    BY Sizes
  <2> QED
    BY <1>2, <2>1, <2>2
<1>7. u \in SUBSET S /\ R \subseteq u /\ u \cup {x} = t /\ x \notin u /\ x \in Reserve
  BY <1>2, <1>3, <1>5 DEF Finite
<1> HIDE DEF u
<1>8. Reserved(R) <= Reserved(u)
  BY <1>1, <1>6, <1>7
<1>9. Reserved(t) = Reserved(u) + Amount[x] /\ Reserved(u) \in Nat /\ Amount[x] \in Nat
  <2>1. Reserved(u \cup {x}) = Reserved(u) + Amount[x]
    BY <1>6, <1>7, ReservedWith
  <2> QED
    BY <1>6, <1>7, <2>1, ReservedType, ConstantsAssumption
<1> QED
  BY <1>2, <1>3, <1>8, <1>9

-----------------------------------------------------------------------------
(* Grants are covered by the limit.                                         *)

\* The list is a finite set: only the holder of the lock adds to it.
LEMMA FiniteNext ==
    ASSUME IInv, IsFiniteSet(list), [Next]_vars
    PROVE  IsFiniteSet(list')
<1>1. TypeOK /\ \A p \in Request : RequestInv(p) /\ ReadsCurrent(p)
  BY DEF IInv, ListInv
<1>2. TypeOK'
  BY <1>1, TypeNext DEF RequestInv
<1>3. ASSUME NEW r \in list', r \notin list PROVE r = lock
  <2>1. pc[r] = "grant"
    BY <1>1, <1>3, ListGains
  <2>2. r \in Request
    BY <1>2, Requests DEF TypeOK
  <2> QED
    BY <1>1, <2>1, <2>2 DEF RequestInv, HoldsLock, Locked
<1>4. list' \subseteq list \cup {lock}
  BY <1>3
<1> QED
  BY <1>4, FS_AddElement, FS_Subset

\* A reservation is answered for the first time as granted by its grant only.
LEMMA GrantOnly ==
    ASSUME TypeOK, \A p \in Request : Roles(p), Next, NEW r \in Reserve,
           answer[r] = "none", answer'[r] = "granted"
    PROVE  Grant(r) /\ Covered(r)
<1> USE Requests
<1>1. ASSUME NEW p \in Request, Arrive(p) \/ ReadLookup(p) \/ Acquire(p) \/ GiveUp(p) \/ Unlock(p)
      PROVE  FALSE
  BY <1>1 DEF Arrive, ReadLookup, Acquire, GiveUp, Unlock, Go, Answered, At, TypeOK
<1>2. ASSUME NEW p \in Request, Prune(p) \/ Index(p) PROVE FALSE
  BY <1>2 DEF Prune, Index
<1>3. ASSUME NEW p \in Request, Grant(p) PROVE Grant(r) /\ Covered(r)
  BY <1>3 DEF Grant, Answered, TypeOK
<1>4. ASSUME NEW p \in Request, CommitStep(p) PROVE FALSE
  BY <1>4 DEF CommitStep, CheckMarked, Bill, Mark, Finally, Go, Answered, At, TypeOK, Roles
<1>5. ASSUME NEW p \in Request, ReleaseStep(p) PROVE FALSE
  BY <1>5 DEF ReleaseStep, ReadList, Drop, Unindex, Go, Answered, At, TypeOK, Roles
<1>6. ASSUME NEW p \in Request, LockLapses(p) \/ Crash(p) PROVE FALSE
  BY <1>6 DEF LockLapses, Crash
<1>7. ASSUME NEW p \in Reserve, ReservationExpires(p) \/ LookupExpires(p) PROVE FALSE
  BY <1>7 DEF ReservationExpires, LookupExpires
<1> QED
  BY <1>1, <1>2, <1>3, <1>4, <1>5, <1>6, <1>7 DEF Next, ReserveStep

\* Whatever crashes, expires or fails, for any amounts and any number of requests:
\* when a reservation is granted, the usage and all that is reserved are within
\* the limit.
THEOREM GrantsWithinLimit ==
    ASSUME LockOutlivesHolder
    PROVE  Spec => GrantsCovered
<1> DEFINE FInv == IInv /\ IsFiniteSet(list)
           Sound == \A p \in Reserve :
                       answer[p] = "none" /\ answer'[p] = "granted" =>
                          usage + Reserved({r \in Reserve : Outstanding(r)'}) <= Limit
<1>1. Init => FInv
  BY Initial, FS_EmptySet DEF Init
<1>2. FInv /\ [Next]_vars => FInv'
  BY Inductive, FiniteNext
<1>3. ASSUME FInv, [Next]_vars PROVE [Sound]_vars
  <2> SUFFICES ASSUME Next, NEW p \in Reserve, answer[p] = "none", answer'[p] = "granted"
               PROVE  usage + Reserved({r \in Reserve : Outstanding(r)'}) <= Limit
    BY <1>3
  <2> DEFINE now == {r \in Reserve : Outstanding(r)'}
  <2>1. /\ TypeOK /\ NoReservationLost /\ p \in Request
        /\ \A q \in Request : Roles(q) /\ ReadsCurrent(q)
    BY <1>3, Requests DEF IInv, RequestInv, ListInv
  <2>2. Grant(p) /\ Covered(p)
    BY <2>1, GrantOnly
  <2>3. snapshot[p] = list
    BY <2>1, <2>2 DEF Grant, At, ReadsCurrent
  <2>4. now \subseteq list \cup {p}
    <3> SUFFICES ASSUME NEW r \in Reserve, Outstanding(r)', r # p PROVE r \in list
      OBVIOUS
    <3>1. Outstanding(r) \/ (Grant(r) /\ answer'[r] = "granted")
      BY <2>1, OutstandingBefore
    <3>2. CASE Outstanding(r)
      BY <2>1, <3>2 DEF NoReservationLost
    <3>3. CASE Grant(r) /\ answer'[r] = "granted"
      BY <2>1, <2>2, <3>3 DEF Grant, Go, TypeOK, At
    <3> QED
      BY <3>1, <3>2, <3>3
  <2>5. Finite(list) /\ Finite(list \cup {p})
    BY <1>3, <2>1, FS_AddElement DEF Finite, TypeOK
  <2>6. Finite(now)
    BY <2>4, <2>5, Sizes
  <2>7. Reserved(list \cup {p}) <= Reserved(list) + Amount[p]
    <3>1. Reserved(list) \in Nat /\ Amount[p] \in Nat
      BY <2>5, ReservedType, ConstantsAssumption
    <3>2. CASE p \in list
      <4>1. list \cup {p} = list
        BY <3>2
      <4>2. Reserved(list \cup {p}) = Reserved(list)
        BY <4>1
      <4> QED
        BY <3>1, <4>2
    <3>3. CASE p \notin list
      <4>1. Reserved(list \cup {p}) = Reserved(list) + Amount[p]
        BY <2>5, <3>3, ReservedWith
      <4> QED
        BY <3>1, <4>1
    <3> QED
      BY <3>2, <3>3
  <2>8. Reserved(now) <= Reserved(list \cup {p})
    BY <2>4, <2>5, ReservedPart
  <2>9. /\ usage \in Nat /\ Amount[p] \in Nat /\ Limit \in Nat
        /\ Reserved(now) \in Nat /\ Reserved(list) \in Nat /\ Reserved(list \cup {p}) \in Nat
    BY <2>1, <2>5, <2>6, ReservedType, ConstantsAssumption DEF TypeOK
  <2>10. usage + Reserved(list) + Amount[p] <= Limit
    BY <2>2, <2>3 DEF Covered
  <2> HIDE DEF now
  <2>11. usage + Reserved(now) <= Limit
    BY <2>7, <2>8, <2>9, <2>10
  <2> QED
    BY <2>11 DEF now
<1> HIDE DEF FInv
<1>4. Spec => [][Sound]_vars
  BY <1>1, <1>2, <1>3, PTL DEF Spec
<1> QED
  BY <1>4 DEF GrantsCovered

-----------------------------------------------------------------------------
(* Completions are billed once.                                             *)

\* A completion that was accrued is marked, or its commit is about to mark it
\* and still holds the lock, or some commit of it was cut off before its mark.
Cut(c) == \E p \in Commit : Completion[p] = c /\ LeftUnmarked(p)
Marking(c) == \E p \in Commit : Completion[p] = c /\ pc[p] = "mark"

BilledOK(c) ==
    /\ billed[c] > 1 => Cut(c)
    /\ billed[c] # 0 => c \in marked \/ Marking(c) \/ Cut(c)

BillsUnmarked(p) == p \in Commit /\ pc[p] = "bill" => Completion[p] \notin marked

\* A commit that could not write its mark is past it, and keeps its answer.
PastMark(p) ==
    p \in Commit /\ answer[p] = "unmarked" =>
        pc[p] \in {"read", "drop", "unindex", "unlock", "done", "crashed"}

BillingInv ==
    /\ IInv
    /\ \A p \in Request : BillsUnmarked(p) /\ PastMark(p)
    /\ \A c \in Completions : BilledOK(c)

\* A commit that was cut off stays so.
LEMMA CutStays ==
    ASSUME TypeOK, \A p \in Request : Roles(p) /\ PastMark(p), [Next]_vars, NEW q \in Request
    PROVE  PastMark(q)' /\ (q \in Commit /\ LeftUnmarked(q) => LeftUnmarked(q)')
<1> DEFINE Goal == PastMark(q)' /\ (q \in Commit /\ LeftUnmarked(q) => LeftUnmarked(q)')
<1> USE Requests DEF PastMark, LeftUnmarked
<1>1. ASSUME NEW p \in Request, Arrive(p) \/ ReadLookup(p) \/ Acquire(p) \/ GiveUp(p) \/ Unlock(p)
      PROVE  Goal
  BY <1>1 DEF Arrive, ReadLookup, Acquire, GiveUp, Unlock, Go, Answered, At, TypeOK, Roles
<1>2. ASSUME NEW p \in Request, ReserveStep(p) PROVE Goal
  BY <1>2 DEF ReserveStep, Prune, Grant, Index, Go, Answered, At, TypeOK, Roles
<1>3. ASSUME NEW p \in Request, CommitStep(p) PROVE Goal
  BY <1>3 DEF CommitStep, CheckMarked, Bill, Mark, Finally, Go, Answered, At, TypeOK
<1>4. ASSUME NEW p \in Request, ReleaseStep(p) PROVE Goal
  BY <1>4 DEF ReleaseStep, ReadList, Drop, Unindex, Go, Answered, At, TypeOK
<1>5. ASSUME NEW p \in Request, LockLapses(p) \/ Crash(p) PROVE Goal
  BY <1>5 DEF LockLapses, Crash, Go, TypeOK
<1>6. ASSUME NEW r \in Reserve, ReservationExpires(r) \/ LookupExpires(r) PROVE Goal
  BY <1>6 DEF ReservationExpires, LookupExpires
<1>7. ASSUME UNCHANGED vars PROVE Goal
  BY <1>7 DEF vars
<1> QED
  BY <1>1, <1>2, <1>3, <1>4, <1>5, <1>6, <1>7 DEF Next

\* A step that accrues and marks nothing: a commit about to mark stays so or dies.
LEMMA OtherSteps ==
    ASSUME \A c \in Completions : BilledOK(c) /\ (Cut(c) => Cut(c)'),
           UNCHANGED <<billed, marked>>,
           \A p \in Commit : pc[p] = "mark" => pc'[p] \in {"mark", "crashed"}
    PROVE  \A c \in Completions : BilledOK(c)'
<1> SUFFICES ASSUME NEW c \in Completions PROVE BilledOK(c)'
  OBVIOUS
<1>1. Marking(c) => Marking(c)' \/ Cut(c)'
  BY DEF Marking, Cut, LeftUnmarked
<1> QED
  BY <1>1 DEF BilledOK

\* Every step keeps the invariant of billing: only the lock holder bills.
LEMMA BillingNext ==
    ASSUME LockOutlivesHolder, BillingInv, [Next]_vars
    PROVE  BillingInv'
<1> DEFINE Unmarked == \A q \in Request : BillsUnmarked(q)'
           Goal == Unmarked /\ (\A c \in Completions : BilledOK(c)')
<1> USE Requests
<1>1. /\ TypeOK
      /\ \A p \in Request : Roles(p) /\ HoldsLock(p) /\ BillsUnmarked(p) /\ PastMark(p)
      /\ \A c \in Completions : BilledOK(c)
  BY DEF BillingInv, IInv, RequestInv
<1>2. \A p, q \in Request : pc[p] \in {"bill", "mark"} /\ pc[q] \in {"bill", "mark"} => p = q
  BY <1>1 DEF HoldsLock, Locked
<1>3. \A c \in Completions : Cut(c) => Cut(c)'
  BY <1>1, CutStays DEF Cut
<1>4. ASSUME NEW p \in Request, Bill(p) PROVE Goal
  <2>1. p \in Commit /\ Completion[p] \notin marked /\ pc[p] = "bill"
    BY <1>1, <1>4 DEF Bill, At, Roles, BillsUnmarked
  <2>2. \A c \in Completions : ~Marking(c)
    BY <1>2, <2>1 DEF Marking
  <2>3. marked' = marked /\ \A q \in Request : pc'[q] = "bill" => pc[q] = "bill"
    BY <1>1, <1>4 DEF Bill, Finally, Go, TypeOK
  <2>4. Unmarked
    BY <1>1, <2>3 DEF BillsUnmarked
  <2>5. CASE UNCHANGED billed
    BY <1>1, <1>3, <2>2, <2>3, <2>4, <2>5 DEF BilledOK
  <2>6. CASE Accrue(p) /\ Go(p, "mark")
    <3>1. ASSUME NEW c \in Completions, c # Completion[p] PROVE BilledOK(c)'
      <4>1. billed'[c] = billed[c]
        BY <1>1, <2>6, <3>1 DEF Accrue, TypeOK
      <4> QED
        BY <1>1, <1>3, <2>2, <2>3, <4>1 DEF BilledOK
    <3>2. BilledOK(Completion[p])'
      <4> DEFINE c == Completion[p]
      <4>1. c \in Completions /\ billed[c] \in Nat /\ billed'[c] = billed[c] + 1
        BY <1>1, <2>1, <2>6 DEF Accrue, TypeOK
      <4>2. billed[c] # 0 => Cut(c)
        BY <1>1, <2>1, <2>2, <4>1 DEF BilledOK
      <4>3. Marking(c)'
        BY <1>1, <2>1, <2>6 DEF Go, Marking, TypeOK
      <4> QED
        BY <1>3, <4>1, <4>2, <4>3 DEF BilledOK
    <3> QED
      BY <2>4, <3>1, <3>2
  <2> QED
    BY <1>4, <2>5, <2>6 DEF Bill
<1>5. ASSUME NEW p \in Request, Mark(p) PROVE Goal
  <2>1. p \in Commit /\ pc[p] = "mark" /\ billed' = billed /\ marked \subseteq marked'
    BY <1>1, <1>5 DEF Mark, At, Roles
  <2>2. marked' = marked \cup {Completion[p]} \/ answer'[p] = "unmarked"
    BY <1>1, <1>5 DEF Mark, Answered, TypeOK
  <2>3. \A q \in Request : pc'[q] # "bill"
    BY <1>1, <1>2, <1>5, <2>1 DEF Mark, Finally, Go, TypeOK
  <2>4. ASSUME NEW c \in Completions PROVE BilledOK(c)'
    <3>1. Marking(c) => c \in marked' \/ Cut(c)'
      BY <1>2, <2>1, <2>2 DEF Marking, Cut, LeftUnmarked
    <3> QED
      BY <1>1, <1>3, <2>1, <3>1 DEF BilledOK
  <2> QED
    BY <2>3, <2>4 DEF BillsUnmarked
<1>6. ASSUME NEW p \in Request, CheckMarked(p) PROVE Goal
  <2>1. /\ p \in Commit /\ pc[p] = "check" /\ UNCHANGED <<marked, billed>>
        /\ \A q \in Request : q # p => pc'[q] = pc[q]
        /\ pc'[p] = "bill" => Completion[p] \notin marked
    BY <1>1, <1>6 DEF CheckMarked, Finally, Go, At, Roles, TypeOK, ledger
  <2>2. Unmarked
    BY <1>1, <2>1 DEF BillsUnmarked
  <2> QED
    BY <1>1, <1>3, <2>1, <2>2, OtherSteps
<1>7. ASSUME NEW p \in Request,
             \/ Arrive(p) \/ ReadLookup(p) \/ Acquire(p) \/ GiveUp(p) \/ Unlock(p)
             \/ ReserveStep(p) \/ ReleaseStep(p) \/ LockLapses(p) \/ Crash(p)
      PROVE  Goal
  <2>1. /\ UNCHANGED <<marked, billed>>
        /\ \A q \in Request : pc'[q] = "bill" => pc[q] = "bill"
        /\ \A q \in Request : pc[q] = "mark" => pc'[q] \in {"mark", "crashed"}
    BY <1>1, <1>7 DEF Arrive, ReadLookup, Acquire, GiveUp, Unlock, ReserveStep, Prune, Grant, Index,
         ReleaseStep, ReadList, Drop, Unindex, LockLapses, Crash, Go, At, TypeOK, ledger
  <2>2. Unmarked
    BY <1>1, <2>1 DEF BillsUnmarked
  <2> QED
    BY <1>1, <1>3, <2>1, <2>2, OtherSteps
<1>8. ASSUME UNCHANGED <<pc, marked, billed>> PROVE Goal
  <2>1. Unmarked
    BY <1>1, <1>8 DEF BillsUnmarked
  <2> QED
    BY <1>1, <1>3, <1>8, <2>1, OtherSteps
<1>9. ASSUME NEW r \in Reserve, ReservationExpires(r) \/ LookupExpires(r) PROVE Goal
  BY <1>8, <1>9 DEF ReservationExpires, LookupExpires, ledger
<1>10. Goal
  BY <1>4, <1>5, <1>6, <1>7, <1>8, <1>9 DEF Next, CommitStep, vars
<1>11. \A q \in Request : PastMark(q)'
  BY <1>1, CutStays
<1>12. IInv'
  BY Inductive DEF BillingInv
<1> QED
  BY <1>10, <1>11, <1>12 DEF BillingInv, Completions

\* However many commits of a completion run, with or without a reservation, it
\* is accrued again only after one of them died or failed before its mark.
THEOREM RebillingNeedsALostMark ==
    ASSUME LockOutlivesHolder
    PROVE  Spec => []RebilledOnlyUnmarked
<1>1. Init => BillingInv
  <2> SUFFICES ASSUME Init PROVE BillingInv
    OBVIOUS
  <2>1. \A p \in Request : BillsUnmarked(p) /\ PastMark(p)
    BY DEF Init, BillsUnmarked, PastMark
  <2>2. \A c \in Completions : BilledOK(c)
    BY DEF Init, BilledOK
  <2> QED
    BY <2>1, <2>2, Initial DEF BillingInv
<1>2. BillingInv /\ [Next]_vars => BillingInv'
  BY BillingNext
<1>3. BillingInv => RebilledOnlyUnmarked
  BY DEF BillingInv, BilledOK, Cut, RebilledOnlyUnmarked
<1> QED
  BY <1>1, <1>2, <1>3, PTL DEF Spec

\* Where marks can be written and no commit dies, a completion is accrued once.
THEOREM CompletionsBilledOnce ==
    ASSUME LockOutlivesHolder, MarksWritten
    PROVE  Spec => []BilledOnce
<1> DEFINE Clean == TypeOK /\ \A p \in Request : Roles(p) /\ ~(p \in Commit /\ LeftUnmarked(p))
<1>1. ASSUME Init PROVE Clean
  BY <1>1, TypeInit DEF Init, Roles, LeftUnmarked
<1>2. ASSUME Clean, [Next]_vars PROVE Clean'
  <2>1. ASSUME NEW q \in Request, q \in Commit PROVE ~LeftUnmarked(q)'
    <3> USE Requests DEF LeftUnmarked
    <3>1. pc[q] # "crashed" /\ answer[q] # "unmarked"
      BY <1>2, <2>1
    <3>2. ASSUME NEW p \in Request,
                 Arrive(p) \/ ReadLookup(p) \/ Acquire(p) \/ GiveUp(p) \/ Unlock(p)
          PROVE  ~LeftUnmarked(q)'
      BY <1>2, <3>1, <3>2 DEF Arrive, ReadLookup, Acquire, GiveUp, Unlock, Go, Answered, At, TypeOK
    <3>3. ASSUME NEW p \in Request, ReserveStep(p) PROVE ~LeftUnmarked(q)'
      BY <1>2, <3>1, <3>3 DEF ReserveStep, Prune, Grant, Index, Go, Answered, At, TypeOK
    <3>4. ASSUME NEW p \in Request, CommitStep(p) PROVE ~LeftUnmarked(q)'
      BY <1>2, <3>1, <3>4 DEF CommitStep, CheckMarked, Bill, Mark, Finally, Go, Answered, At,
           TypeOK, MarksWritten
    <3>5. ASSUME NEW p \in Request, ReleaseStep(p) PROVE ~LeftUnmarked(q)'
      BY <1>2, <3>1, <3>5 DEF ReleaseStep, ReadList, Drop, Unindex, Go, Answered, At, TypeOK
    <3>6. ASSUME NEW p \in Request, LockLapses(p) \/ Crash(p) PROVE ~LeftUnmarked(q)'
      BY <3>1, <3>6 DEF LockLapses, Crash, MarksWritten
    <3>7. ASSUME NEW r \in Reserve, ReservationExpires(r) \/ LookupExpires(r)
          PROVE  ~LeftUnmarked(q)'
      BY <3>1, <3>7 DEF ReservationExpires, LookupExpires
    <3>8. ASSUME UNCHANGED vars PROVE ~LeftUnmarked(q)'
      BY <3>1, <3>8 DEF vars
    <3> QED
      BY <1>2, <3>2, <3>3, <3>4, <3>5, <3>6, <3>7, <3>8 DEF Next
  <2>2. TypeOK' /\ \A q \in Request : Roles(q)'
    BY <1>2, TypeNext, RolesNext
  <2>3. \A q \in Request : ~(q \in Commit /\ LeftUnmarked(q)')
    BY <2>1
  <2> QED
    BY <2>2, <2>3 DEF Request
<1>3. Clean /\ RebilledOnlyUnmarked => BilledOnce
  <2> SUFFICES ASSUME Clean, RebilledOnlyUnmarked PROVE BilledOnce
    OBVIOUS
  <2>1. \A c \in Completions : billed[c] \in Nat /\ ~(billed[c] > 1)
    BY Requests DEF RebilledOnlyUnmarked, TypeOK
  <2> QED
    BY <2>1 DEF BilledOnce
<1> QED
  BY <1>1, <1>2, <1>3, RebillingNeedsALostMark, PTL DEF Spec

=============================================================================
