---------------------------- MODULE CopilotUsage ----------------------------
(***************************************************************************)
(* Copilot usage of one billing scope, with Redis: reservations            *)
(* (lib/copilot/usage-reservations.ts), completion billing                 *)
(* (lib/copilot/completion-usage-billing.ts) and the requests of           *)
(* app/api/copilot/usage/route.ts.                                         *)
(*                                                                         *)
(* A request reserves part of the usage allowance, commits the completion  *)
(* that was paid for with a reservation, or releases a reservation.  The   *)
(* list of reservations is read and written back as one Redis value under  *)
(* a lock with a time to live; usage is in the database; the completions   *)
(* already billed are marked in Redis.  A reservation is named by the      *)
(* request that made it.                                                   *)
(***************************************************************************)
EXTENDS Naturals, FiniteSets, FiniteSetsExt

CONSTANTS
    Reserve,     \* requests that reserve
    Commit,      \* requests that commit a completion
    Release,     \* requests that release a reservation
    Of,          \* Of[p]: the reservation a commit or release names, or None
    Completion,  \* Completion[p]: the completion a commit bills
    Amount,      \* Amount[p]: what a request reserves, or its completion costs
    Limit,       \* the usage limit of the scope
    None,        \* the absent value
    Faults       \* the faults the environment may inject

FaultKinds == {"crash", "expiry", "lockExpires", "billFails", "markFails", "unlockFails"}

Request == Reserve \cup Commit \cup Release
Completions == {Completion[p] : p \in Commit}

ASSUME ConstantsAssumption ==
    /\ Reserve \cap Commit = {} /\ Reserve \cap Release = {} /\ Commit \cap Release = {}
    /\ None \notin Request
    /\ Of \in [Commit \cup Release -> Reserve \cup {None}]
    /\ \A p \in Release : Of[p] # None
    /\ DOMAIN Completion = Commit
    /\ Amount \in [Reserve \cup Commit -> Nat \ {0}]
    /\ Limit \in Nat
    /\ Faults \subseteq FaultKinds

VARIABLES
    lock,      \* the request that holds the scope lock, or None
    list,      \* the reservations in the scope's cached list
    lookup,    \* the reservations with a lookup entry
    expired,   \* reservations past their time to live
    usage,     \* the usage accrued in the current period
    billed,    \* billed[c]: how often completion c has been accrued
    marked,    \* completions marked as processed
    pc,        \* the step each request is at
    snapshot,  \* the unexpired reservations each request has read
    answer     \* what each request was told

vars == <<lock, list, lookup, expired, usage, billed, marked, pc, snapshot, answer>>
cache == <<list, lookup, expired>>
ledger == <<usage, billed, marked>>

Steps == {"start", "lookup", "lock", "prune", "grant", "index", "check", "bill", "mark",
          "read", "drop", "unindex", "unlock", "done", "crashed"}
\* A commit answers 500 both when nothing was accrued (failed) and when the
\* accrual could not be marked (unmarked).
Answers == {"none", "busy", "granted", "denied", "billed", "duplicate", "failed", "unmarked",
            "released", "notFound"}

\* The steps a request takes while it believes it holds the lock.
Locked == {"prune", "grant", "index", "check", "bill", "mark", "read", "drop", "unindex", "unlock"}

At(p, step) == pc[p] = step
Go(p, step) == pc' = [pc EXCEPT ![p] = step]
Answered(p, a) == answer' = [answer EXCEPT ![p] = a]
Reserved(set) == MapThenSumSet(LAMBDA r : Amount[r], set)

Init ==
    /\ lock = None
    /\ list = {} /\ lookup = {} /\ expired = {}
    /\ usage = 0
    /\ billed = [c \in Completions |-> 0]
    /\ marked = {}
    /\ pc = [p \in Request |-> "start"]
    /\ snapshot = [p \in Request |-> {}]
    /\ answer = [p \in Request |-> "none"]

-----------------------------------------------------------------------------
(* The lock of the scope.                                                   *)

\* A client commits or releases only what it was told it was granted.
Arrive(p) ==
    /\ At(p, "start")
    /\ p \notin Reserve /\ Of[p] # None => At(Of[p], "done") /\ answer[Of[p]] = "granted"
    /\ Go(p, IF p \in Release THEN "lookup" ELSE "lock")
    /\ UNCHANGED <<lock, cache, ledger, snapshot, answer>>

\* A release whose lookup entry is gone has nothing to do.
ReadLookup(p) ==
    /\ At(p, "lookup")
    /\ \/ /\ Of[p] \in lookup
          /\ Go(p, "lock")
          /\ UNCHANGED answer
       \/ /\ Of[p] \notin lookup
          /\ Go(p, "done")
          /\ Answered(p, "notFound")
    /\ UNCHANGED <<lock, cache, ledger, snapshot>>

\* Mutant: the lock is set without NX.
AcquireOverwrites(p) ==
    /\ At(p, "lock")
    /\ lock' = p
    /\ Go(p, IF p \in Reserve THEN "prune" ELSE IF p \in Commit THEN "check" ELSE "read")
    /\ UNCHANGED <<cache, ledger, snapshot, answer>>

Acquire(p) ==
    /\ At(p, "lock")
    /\ lock = None
    /\ lock' = p
    /\ Go(p, IF p \in Reserve THEN "prune" ELSE IF p \in Commit THEN "check" ELSE "read")
    /\ UNCHANGED <<cache, ledger, snapshot, answer>>

\* Ten attempts, half a second in all.
GiveUp(p) ==
    /\ At(p, "lock")
    /\ lock # None
    /\ Go(p, "done")
    /\ Answered(p, "busy")
    /\ UNCHANGED <<lock, cache, ledger, snapshot>>

\* Only the holder's token deletes the lock.
Unlock(p) ==
    /\ At(p, "unlock")
    /\ \/ lock' = IF lock = p THEN None ELSE lock
       \/ "unlockFails" \in Faults /\ UNCHANGED lock
    /\ Go(p, "done")
    /\ UNCHANGED <<cache, ledger, snapshot, answer>>

-----------------------------------------------------------------------------
(* reserveCopilotUsage.                                                     *)

\* The list is read, pruned of what has expired, and written back.
Prune(p) ==
    /\ At(p, "prune")
    /\ snapshot' = [snapshot EXCEPT ![p] = list \ expired]
    /\ list' = list \ expired
    /\ Go(p, "grant")
    /\ UNCHANGED <<lock, lookup, expired, ledger, answer>>

\* Mutant: the reservations of others are not counted.
CoveredAlone(p) == usage + Amount[p] <= Limit

Covered(p) == usage + Reserved(snapshot[p]) + Amount[p] <= Limit

Grant(p) ==
    /\ At(p, "grant")
    /\ \/ /\ Covered(p)
          /\ list' = snapshot[p] \cup {p}
          /\ Go(p, "index")
          /\ Answered(p, "granted")
       \/ /\ ~Covered(p)
          /\ Go(p, "unlock")
          /\ Answered(p, "denied")
          /\ UNCHANGED list
    /\ UNCHANGED <<lock, lookup, expired, ledger, snapshot>>

Index(p) ==
    /\ At(p, "index")
    /\ lookup' = lookup \cup {p}
    /\ Go(p, "unlock")
    /\ UNCHANGED <<lock, list, expired, ledger, snapshot, answer>>

-----------------------------------------------------------------------------
(* recordCopilotCompletionUsage, under commitCopilotUsageReservation.       *)

\* What follows the operation in the finally block, whatever its outcome.
Finally(p) == Go(p, IF Of[p] = None THEN "unlock" ELSE "read")

CheckMarked(p) ==
    /\ At(p, "check")
    /\ \/ /\ Completion[p] \in marked
          /\ Finally(p)
          /\ Answered(p, "duplicate")
       \/ /\ Completion[p] \notin marked
          /\ Go(p, "bill")
          /\ UNCHANGED answer
    /\ UNCHANGED <<lock, cache, ledger, snapshot>>

Accrue(p) ==
    /\ usage' = usage + Amount[p]
    /\ billed' = [billed EXCEPT ![Completion[p]] = @ + 1]

\* Mutant: a failed accrual leaves without releasing the reservation.
BillForgetsReservation(p) ==
    /\ At(p, "bill")
    /\ \/ /\ Accrue(p)
          /\ Go(p, "mark")
          /\ UNCHANGED answer
       \/ /\ "billFails" \in Faults
          /\ Go(p, "unlock")
          /\ Answered(p, "failed")
          /\ UNCHANGED <<usage, billed>>
    /\ UNCHANGED <<lock, cache, marked, snapshot>>

\* One transaction accrues the cost to every ledger, or none.
Bill(p) ==
    /\ At(p, "bill")
    /\ \/ /\ Accrue(p)
          /\ Go(p, "mark")
          /\ UNCHANGED answer
       \/ /\ "billFails" \in Faults
          /\ Finally(p)
          /\ Answered(p, "failed")
          /\ UNCHANGED <<usage, billed>>
    /\ UNCHANGED <<lock, cache, marked, snapshot>>

\* Mutant: the completion is not marked as processed.
NoMark(p) ==
    /\ At(p, "mark")
    /\ Finally(p)
    /\ Answered(p, "billed")
    /\ UNCHANGED <<lock, cache, ledger, snapshot>>

Mark(p) ==
    /\ At(p, "mark")
    /\ \/ /\ marked' = marked \cup {Completion[p]}
          /\ Answered(p, "billed")
       \/ /\ "markFails" \in Faults
          /\ Answered(p, "unmarked")
          /\ UNCHANGED marked
    /\ Finally(p)
    /\ UNCHANGED <<lock, cache, usage, billed, snapshot>>

-----------------------------------------------------------------------------
(* releaseReservationInScope.                                               *)

ReadList(p) ==
    /\ At(p, "read")
    /\ snapshot' = [snapshot EXCEPT ![p] = list \ expired]
    /\ Go(p, "drop")
    /\ UNCHANGED <<lock, cache, ledger, answer>>

Drop(p) ==
    /\ At(p, "drop")
    /\ list' = snapshot[p] \ {Of[p]}
    /\ Go(p, "unindex")
    /\ UNCHANGED <<lock, lookup, expired, ledger, snapshot, answer>>

\* Mutant: the answer names the reservation instead of the outcome.
UnindexNames(p) ==
    /\ At(p, "unindex")
    /\ lookup' = lookup \ {Of[p]}
    /\ Go(p, "unlock")
    /\ Answered(p, Of[p])
    /\ UNCHANGED <<lock, list, expired, ledger, snapshot>>

Unindex(p) ==
    /\ At(p, "unindex")
    /\ lookup' = lookup \ {Of[p]}
    /\ Go(p, "unlock")
    /\ \/ p \in Commit /\ UNCHANGED answer
       \/ p \in Release /\ Answered(p, IF Of[p] \in snapshot[p] THEN "released" ELSE "notFound")
    /\ UNCHANGED <<lock, list, expired, ledger, snapshot>>

-----------------------------------------------------------------------------
(* Time and faults.                                                         *)

\* The lock lapses after its time to live: ten seconds, which a holder may
\* outlast (lockExpires).
LockLapses(p) ==
    /\ lock = p
    /\ pc[p] \in {"done", "crashed"} \/ "lockExpires" \in Faults
    /\ lock' = None
    /\ UNCHANGED <<cache, ledger, pc, snapshot, answer>>

\* Fifteen minutes after its request a reservation no longer counts.  The
\* list and lookup entries may stay behind.
ReservationExpires(r) ==
    /\ "expiry" \in Faults
    /\ answer[r] = "granted" /\ pc[r] \in {"done", "crashed"}
    /\ expired' = expired \cup {r}
    /\ UNCHANGED <<lock, list, lookup, ledger, pc, snapshot, answer>>

LookupExpires(r) ==
    /\ r \in expired
    /\ lookup' = lookup \ {r}
    /\ UNCHANGED <<lock, list, expired, ledger, pc, snapshot, answer>>

Crash(p) ==
    /\ "crash" \in Faults
    /\ pc[p] \notin {"start", "done", "crashed"}
    /\ Go(p, "crashed")
    /\ UNCHANGED <<lock, cache, ledger, snapshot, answer>>

-----------------------------------------------------------------------------
ReserveStep(p) == Prune(p) \/ Grant(p) \/ Index(p)
CommitStep(p) == CheckMarked(p) \/ Bill(p) \/ Mark(p)
ReleaseStep(p) == ReadList(p) \/ Drop(p) \/ Unindex(p)

Next ==
    \/ \E p \in Request :
          \/ Arrive(p) \/ ReadLookup(p) \/ Acquire(p) \/ GiveUp(p) \/ Unlock(p)
          \/ ReserveStep(p) \/ CommitStep(p) \/ ReleaseStep(p)
          \/ LockLapses(p) \/ Crash(p)
    \/ \E r \in Reserve : ReservationExpires(r) \/ LookupExpires(r)

Spec == Init /\ [][Next]_vars

-----------------------------------------------------------------------------
(* Properties.                                                              *)

TypeOK ==
    /\ lock \in Request \cup {None}
    /\ list \subseteq Reserve /\ lookup \subseteq Reserve /\ expired \subseteq Reserve
    /\ usage \in Nat
    /\ billed \in [Completions -> Nat]
    /\ marked \subseteq Completions
    /\ pc \in [Request -> Steps]
    /\ snapshot \in [Request -> SUBSET Reserve]
    /\ answer \in [Request -> Answers]

\* A reservation that was granted, has not expired, and that no commit or
\* release has begun to take out of the list.
Outstanding(r) ==
    /\ answer[r] = "granted" /\ r \notin expired
    /\ \A p \in Commit \cup Release :
          Of[p] = r => pc[p] \notin {"drop", "unindex", "unlock", "done", "crashed"}

\* No granted reservation is lost from the list by another request that
\* writes back what it had read earlier.
NoReservationLost == \A r \in Reserve : Outstanding(r) => r \in list

\* When a reservation is granted, the usage and everything reserved stay
\* within the limit.
GrantsCovered ==
    [][\A p \in Reserve :
          answer[p] = "none" /\ answer'[p] = "granted" =>
              usage + Reserved({r \in Reserve : Outstanding(r)'}) <= Limit]_vars

\* A completion is accrued to the ledger at most once, however often and
\* concurrently it is committed.
BilledOnce == \A c \in Completions : billed[c] <= 1

\* A commit that may have accrued its completion without marking it.
LeftUnmarked(p) == pc[p] = "crashed" \/ answer[p] = "unmarked"

\* Only a commit that died or failed before it wrote the mark lets a
\* completion be accrued again.
RebilledOnlyUnmarked ==
    \A c \in Completions :
        billed[c] > 1 => \E p \in Commit : Completion[p] = c /\ LeftUnmarked(p)

\* A commit that was answered gave its reservation back, billed or not.
CommitReleases ==
    \A p \in Commit :
        pc[p] = "done" /\ answer[p] # "busy" => Of[p] \notin list

=============================================================================
