-------------------------- MODULE PendingExecution --------------------------
(***************************************************************************)
(* The pending-execution queue of one billing scope in Trigger.dev mode:   *)
(* lib/execution/pending-execution.ts, background/pending-execution-       *)
(* worker.ts and lib/workflows/queued-execution-cancellation.ts.           *)
(*                                                                         *)
(* A row of the pending_execution table is "pending" until a dispatcher    *)
(* claims it and "processing" until its owner settles it.  A claimed row   *)
(* is handed to Trigger.dev, which starts at most one run per execution    *)
(* id; the run is a supervisor ("outer") that starts the bounded job       *)
(* ("inner") once.  API processes (Client) enqueue, dispatch and cancel.   *)
(* Every process interleaves with the others at each database transaction  *)
(* and each call to Trigger.dev.                                           *)
(***************************************************************************)
EXTENDS Naturals, FiniteSets

CONSTANTS
    Exec,             \* pending execution ids, all of executionType 'workflow'
    Client,           \* API processes
    None,             \* the absent value
    Parent,           \* Parent[e]: the execution whose workflow block queues e
    OrderingKey,      \* OrderingKey[e], or None
    ConcurrencyLimit, \* the tier's limit on active executions, or None
    MaxPendingCount,  \* the tier's limit on pending rows, or None
    Cancellable,      \* the executions a user may cancel
    Faults            \* the faults the environment may inject

FaultKinds == {"refused", "ambiguous", "rejected", "clientCrash", "workerCrash",
               "gaveUp", "jobKilled", "settleKilled", "expiry", "cancelFails",
               "resubmission"}

Outer(e) == <<e, "outer">>
Inner(e) == <<e, "inner">>
Worker == Exec \X {"outer", "inner"}
Proc == Client \cup Worker

\* Children have no children of their own: one level of nesting is modelled.
ASSUME ConstantsAssumption ==
    /\ IsFiniteSet(Exec)
    /\ None \notin Exec
    /\ Client \cap Worker = {}
    /\ Parent \in [Exec -> Exec \cup {None}]
    /\ \A e \in Exec : Parent[e] # None => Parent[Parent[e]] = None
    /\ DOMAIN OrderingKey = Exec
    /\ ConcurrencyLimit \in Nat \cup {None}
    /\ MaxPendingCount \in Nat \cup {None}
    /\ Cancellable \subseteq Exec
    /\ Faults \subseteq FaultKinds

VARIABLES
    status,           \* the status of each row, "absent" when there is none
    before,           \* before[e]: the rows still in the table created before e's
    cancelRequested,  \* rows whose payload has cancelRequestedAt
    ownerCompleted,   \* rows whose payload has ownerCompletedAt
    log,              \* the workflow execution log of each execution
    run,              \* the Trigger.dev run of each execution
    request,          \* the HTTP request with which a parent queues each child
    proc              \* what each process is doing

table == <<status, before, cancelRequested, ownerCompleted>>
vars == <<status, before, cancelRequested, ownerCompleted, log, run, request, proc>>

-----------------------------------------------------------------------------
(* Processes.  A frame holds the row in hand, who called the settlement or  *)
(* admission in progress, why the process dispatches, the snapshot still to *)
(* reconcile, and the descendants still to cancel.                          *)

Ended == {"success", "error"}
TerminalRun == {"COMPLETED", "FAILED", "CANCELED"}

Labels == {"idle", "snapshot", "claim", "claimAgain", "reconcile", "released",
           "trigger", "revert", "recheckRow", "list", "mark", "recheck", "delete",
           "terminalize", "descendants", "kids", "kidRun",
           "cancelRead", "cancelMark", "cancelClaim", "cancelTerminalize",
           "outerStart", "outerWait", "outerFailed", "exit",
           "innerRead", "innerStart", "innerRun", "ok", "failed"}
Callers == {"none", "dispatch", "dispatchRejected", "rejected", "reconcile",
            "recheckRow", "inner", "outer", "cancel"}
Goals == {"none", "once", "duplicate", "wake", "cancelled", "completed", "failed"}

Snapshot == [id : Exec, cancel : BOOLEAN, done : BOOLEAN, owner : Exec,
             earlier : SUBSET Exec]

Frame == [pc : Labels, exec : Exec \cup {None}, caller : Callers, goal : Goals,
          todo : SUBSET Snapshot, owner : Exec \cup {None},
          family : Exec \cup {None}, kids : SUBSET Exec, later : Exec \cup {None}]

Idle == [pc |-> "idle", exec |-> None, caller |-> "none", goal |-> "none",
         todo |-> {}, owner |-> None, family |-> None, kids |-> {}, later |-> None]

Starting(label) == [Idle EXCEPT !.pc = label]
On(label, e) == [Idle EXCEPT !.pc = label, !.exec = e]
Dispatching(g) == [Idle EXCEPT !.pc = "claim", !.goal = g]
To(f, label) == [f EXCEPT !.pc = label]

\* wakePendingExecution dispatches until nothing is claimed; an enqueue
\* dispatches once.
Again(f, label) == [On(label, None) EXCEPT !.goal = f.goal, !.later = f.later]
Dispatched(f) == IF f.goal = "once" THEN Idle ELSE Again(f, "claim")

\* A dispatch that throws ends an API request; a worker retries its wake.
Thrown(f) == IF f.goal \in {"completed", "failed"} THEN Again(f, "claim") ELSE Idle

\* The dispatch loop is over: nothing more can be claimed.
Drained(f) ==
    CASE f.goal \in {"completed", "failed"} -> To(f, "exit")
      [] f.goal = "cancelled" /\ f.later # None ->
            [On("recheck", f.later) EXCEPT !.caller = "cancel"]
      [] OTHER -> Idle

\* reconcilePendingExecutionCapacity goes on with its next row.
NextRow(f) == [f EXCEPT !.pc = "reconcile", !.exec = None, !.owner = None, !.caller = "none"]

\* It has returned: the duplicate enqueue that asked for it wakes the scope, a
\* dispatch claims once more.
Reconciled(f) == IF f.goal = "duplicate" THEN Dispatching("wake") ELSE Again(f, "claimAgain")

\* What follows a settlement, for the caller that asked for it.
Settled(f) ==
    CASE f.family # None -> To(f, "kids")
      [] f.family = None /\ f.caller = "reconcile" -> To(f, "released")
      [] f.family = None /\ f.caller = "recheckRow" -> Dispatched(f)
      [] f.family = None /\ f.caller = "rejected" -> Thrown(f)
      [] f.family = None /\ f.caller = "dispatchRejected" -> To(f, "recheckRow")
      [] f.family = None /\ f.caller = "inner" -> Starting("ok")
      [] f.family = None /\ f.caller = "outer" -> Dispatching("failed")
      [] OTHER -> Idle

Become(p, f) == proc' = [proc EXCEPT ![p] = f]

-----------------------------------------------------------------------------
(* The table.                                                               *)

Rows == {e \in Exec : status[e] # "absent"}
Pending == {e \in Exec : status[e] = "pending"}
Processing == {e \in Exec : status[e] = "processing"}
Children(e) == {c \in Rows : Parent[c] = e}

\* A child borrows its parent's slot while the parent is a processing row.
Borrows(e) == Parent[e] \in Processing
Counted == {e \in Processing : ~Borrows(e)}

\* Mutant: one execution too many.
HasCapacityOffByOne(e) ==
    \/ ConcurrencyLimit = None
    \/ Borrows(e)
    \/ Cardinality(Counted) <= ConcurrencyLimit

HasCapacity(e) ==
    \/ ConcurrencyLimit = None
    \/ Borrows(e)
    \/ Cardinality(Counted) < ConcurrencyLimit

Rank(e) == IF Borrows(e) THEN 0 ELSE IF Parent[e] # None THEN 1 ELSE 2

\* The row an ORDER BY rank, createdAt LIMIT 1 returns.
Candidate(e) ==
    /\ e \in Pending
    /\ \A f \in Pending \ {e} :
          Rank(e) < Rank(f) \/ (Rank(e) = Rank(f) /\ e \in before[f])

DropRows(S) ==
    /\ status' = [e \in Exec |-> IF e \in S THEN "absent" ELSE status[e]]
    /\ before' = [e \in Exec |-> IF e \in S THEN {} ELSE before[e] \ S]
    /\ cancelRequested' = cancelRequested \ S
    /\ ownerCompleted' = ownerCompleted \ S

SetStatus(e, s) ==
    /\ status' = [status EXCEPT ![e] = s]
    /\ UNCHANGED <<before, ownerCompleted>>

\* completeWorkflowExecution writes a log only while it has no endedAt.
EndLog(e, outcome) ==
    log' = [log EXCEPT ![e] = IF @ \in Ended THEN @ ELSE outcome]

Init ==
    /\ status = [e \in Exec |-> "absent"]
    /\ before = [e \in Exec |-> {}]
    /\ cancelRequested = {}
    /\ ownerCompleted = {}
    /\ log = [e \in Exec |-> "none"]
    /\ run = [e \in Exec |-> "none"]
    /\ request = [e \in Exec |-> "none"]
    /\ proc = [p \in Proc |-> Idle]

-----------------------------------------------------------------------------
(* enqueuePendingExecution.                                                 *)

\* Rows older than maxPendingAgeSeconds: some oldest pending rows.
StaleRows ==
    {S \in SUBSET Pending :
        /\ "expiry" \notin Faults => S = {}
        /\ \A e \in S : before[e] \cap Pending \subseteq S}

\* Mutant: an active execution does not block its ordering key.
OverlapsPending(e, rows) ==
    OrderingKey[e] # None /\ \E f \in rows \cap Pending : OrderingKey[f] = OrderingKey[e]

\* Another row that is queued or active has the same ordering key.
Overlaps(e, rows) ==
    OrderingKey[e] # None /\ \E f \in rows : OrderingKey[f] = OrderingKey[e]

\* The transaction, under the advisory lock of the billing scope.  A full queue
\* throws, which rolls the deletion of stale rows back.
Enqueue(p, e) ==
    /\ proc[p].pc = "idle"
    /\ Parent[e] = None \/ request[e] = "sent"
    /\ e \in Rows \/ log[e] # "none" => "resubmission" \in Faults
    /\ request' = [request EXCEPT ![e] = IF @ = "sent" THEN "taken" ELSE @]
    /\ \E stale \in StaleRows :
          LET kept == Rows \ stale
              duplicate == e \in kept \/ log[e] # "none" \/ Overlaps(e, kept)
              full == MaxPendingCount # None
                        /\ Cardinality(Pending \ stale) >= MaxPendingCount
          IN \/ /\ duplicate
                /\ DropRows(stale)
                /\ Become(p, IF status[e] = "processing"
                             THEN [On("snapshot", e) EXCEPT !.goal = "duplicate"]
                             ELSE Dispatching("wake"))
             \/ /\ ~duplicate /\ full
                /\ UNCHANGED <<table, proc>>
             \/ /\ ~duplicate /\ ~full
                /\ status' = [f \in Exec |-> IF f = e THEN "pending"
                                             ELSE IF f \in stale THEN "absent" ELSE status[f]]
                /\ before' = [f \in Exec |-> IF f = e THEN kept
                                             ELSE IF f \in stale THEN {} ELSE before[f] \ stale]
                /\ cancelRequested' = cancelRequested \ stale
                /\ ownerCompleted' = ownerCompleted \ stale
                /\ Become(p, Dispatching("once"))
    /\ UNCHANGED <<log, run>>

-----------------------------------------------------------------------------
(* dispatchNextPendingExecution and wakePendingExecution.                   *)

\* claimNextPendingExecution, one transaction under the advisory lock.
Claim(p) ==
    LET f == proc[p] IN
    /\ f.pc \in {"claim", "claimAgain"}
    /\ \/ \E e \in Exec :
             /\ Candidate(e)
             /\ HasCapacity(e)
             /\ SetStatus(e, "processing")
             /\ Become(p, [f EXCEPT !.pc = "trigger", !.exec = e,
                                    !.caller = "dispatch", !.owner = e])
       \/ /\ \A e \in Exec : Candidate(e) => ~HasCapacity(e)
          /\ Become(p, IF f.pc = "claim" THEN To(f, "snapshot") ELSE Drained(f))
          /\ UNCHANGED <<status, before, ownerCompleted>>
    /\ UNCHANGED <<cancelRequested, log, run, request>>

\* listProcessingPendingExecutionsForBillingScope, the preferred row first.
TakeSnapshot(p) ==
    LET f == proc[p]
        rowOf(e) == [id |-> e, cancel |-> e \in cancelRequested,
                     done |-> e \in ownerCompleted,
                     owner |-> IF Borrows(e) THEN Parent[e] ELSE e,
                     earlier |-> IF e = f.exec THEN {}
                                 ELSE (before[e] \cup {f.exec}) \cap Processing]
    IN /\ f.pc = "snapshot"
       /\ Become(p, [f EXCEPT !.pc = "reconcile", !.exec = None,
                              !.todo = {rowOf(e) : e \in Processing}])
       /\ UNCHANGED <<table, log, run, request>>

\* reconcileProcessingPendingExecution on a row as it was read: what the run of
\* the execution looks like now decides.
ReconcileRow(p, f, row, nothingToDo) ==
    LET e == row.id
        g == [f EXCEPT !.exec = e, !.owner = row.owner]
        active == run[e] = "active"
    IN \/ /\ ~row.cancel /\ active
          /\ Become(p, nothingToDo)
          /\ UNCHANGED run
       \/ /\ run[e] = "none" /\ ~row.cancel /\ ~row.done
          /\ Become(p, To(g, "trigger"))
          /\ UNCHANGED run
       \/ /\ run[e] = "COMPLETED" \/ (run[e] = "none" /\ ~row.cancel /\ row.done)
          /\ Become(p, To(g, "list"))
          /\ UNCHANGED run
       \/ /\ run[e] \in {"FAILED", "CANCELED"} \/ (run[e] = "none" /\ row.cancel)
          /\ Become(p, To(g, "terminalize"))
          /\ UNCHANGED run
       \/ /\ row.cancel /\ active
          /\ run' = [run EXCEPT ![e] = "CANCELED"]
          /\ proc' = [proc EXCEPT ![p] = To(g, "terminalize"),
                                  ![Outer(e)] = Idle, ![Inner(e)] = Idle]

\* The next row of the snapshot, or the end of it.
Reconcile(p) ==
    LET f == proc[p] IN
    /\ f.pc = "reconcile"
    /\ \/ /\ f.todo = {}
          /\ Become(p, Reconciled(f))
          /\ UNCHANGED run
       \/ \E row \in f.todo :
             LET g == [f EXCEPT !.todo = @ \ {row}, !.caller = "reconcile"] IN
             /\ \A other \in f.todo : other.id \notin row.earlier
             /\ ReconcileRow(p, g, row, NextRow(g))
    /\ UNCHANGED <<table, log, request>>

\* releasedPendingExecutionCapacity: the reconciliation stops at the first row
\* whose capacity owner is gone.
CheckReleased(p) ==
    LET f == proc[p] IN
    /\ f.pc = "released"
    /\ Become(p, IF f.owner \in Processing THEN NextRow(f) ELSE Reconciled(f))
    /\ UNCHANGED <<table, log, run, request>>

-----------------------------------------------------------------------------
(* triggerPendingExecution.  The idempotency key gives an execution one run. *)

Admitted(f) ==
    IF f.caller = "reconcile" THEN NextRow(f) ELSE Dispatched(f)

\* Mutant: every failed trigger gives the row back.
AlwaysReverted(f) == To(f, "revert")

\* The catch of dispatchNextPendingExecution reads the row again; a
\* reconciliation lets the error through.
AdmissionThrown(f) ==
    IF f.caller = "dispatch" THEN To(f, "recheckRow") ELSE Thrown(f)

StartRun(p, e, f) ==
    /\ run' = [run EXCEPT ![e] = IF @ = "none" THEN "active" ELSE @]
    /\ proc' = [proc EXCEPT ![p] = f,
                            ![Outer(e)] = IF run[e] = "none" THEN Starting("outerStart") ELSE @]

Trigger(p) ==
    LET f == proc[p] IN
    /\ f.pc = "trigger"
    /\ \/ StartRun(p, f.exec, Admitted(f))
       \* 408, 409, 5xx or a lost answer: the run may or may not exist
       \/ /\ "ambiguous" \in Faults
          /\ \/ StartRun(p, f.exec, AdmissionThrown(f))
             \/ Become(p, AdmissionThrown(f)) /\ UNCHANGED run
       \* 429, or an error before the call was made
       \/ /\ "refused" \in Faults
          /\ Become(p, To(f, "revert"))
          /\ UNCHANGED run
       \* 400, 401, 403, 404, 422
       \/ /\ "rejected" \in Faults
          /\ Become(p, [f EXCEPT !.pc = "terminalize",
                                 !.caller = IF @ = "dispatch" THEN "dispatchRejected"
                                                              ELSE "rejected"])
          /\ UNCHANGED run
    /\ UNCHANGED <<table, log, request>>

Revert(p) ==
    LET f == proc[p] IN
    /\ f.pc = "revert"
    /\ IF status[f.exec] = "processing"
       THEN SetStatus(f.exec, "pending")
       ELSE UNCHANGED <<status, before, ownerCompleted>>
    /\ Become(p, AdmissionThrown(f))
    /\ UNCHANGED <<cancelRequested, log, run, request>>

RecheckRow(p) ==
    LET f == proc[p]
        e == f.owner
        row == [id |-> e, cancel |-> e \in cancelRequested, done |-> e \in ownerCompleted,
                owner |-> e, earlier |-> {}]
        g == [f EXCEPT !.caller = "recheckRow"]
    IN /\ f.pc = "recheckRow"
       /\ \/ /\ status[e] # "processing"
             /\ Become(p, Thrown(f))
             /\ UNCHANGED run
          \/ /\ status[e] = "processing"
             /\ ReconcileRow(p, g, row, Dispatched(g))
       /\ UNCHANGED <<table, log, request>>

-----------------------------------------------------------------------------
(* settlePendingExecutionOwner, completeOwnerWithoutChildren and            *)
(* completePendingExecution.                                                *)

\* Mutant: the owner's row goes without a look at its children.
SettleAtOnce(p) ==
    /\ proc[p].pc = "list"
    /\ Become(p, To(proc[p], "delete"))
    /\ UNCHANGED <<table, log, run, request>>

ListChildren(p) ==
    LET f == proc[p] IN
    /\ f.pc = "list"
    /\ Become(p, To(f, IF Children(f.exec) = {} THEN "delete" ELSE "mark"))
    /\ UNCHANGED <<table, log, run, request>>

\* Mutant: the update does not look at the status.
MarkAnyOwner(p) ==
    /\ proc[p].pc = "mark"
    /\ ownerCompleted' = ownerCompleted \cup {proc[p].exec}
    /\ Become(p, To(proc[p], "recheck"))
    /\ UNCHANGED <<status, before, cancelRequested, log, run, request>>

MarkOwnerCompleted(p) ==
    LET f == proc[p] IN
    /\ f.pc = "mark"
    /\ ownerCompleted' = ownerCompleted \cup ({f.exec} \cap Processing)
    /\ Become(p, To(f, "recheck"))
    /\ UNCHANGED <<status, before, cancelRequested, log, run, request>>

RecheckOwner(p) ==
    LET f == proc[p]
        last == f.exec \in Processing \cap ownerCompleted /\ Children(f.exec) = {}
    IN /\ f.pc = "recheck"
       /\ Become(p, IF last THEN To(f, "delete") ELSE Settled(f))
       /\ UNCHANGED <<table, log, run, request>>

\* Only a user's cancellation wakes the scope before it looks at the parent.
Delete(p) ==
    LET f == proc[p]
        parent == Parent[f.exec]
    IN /\ f.pc = "delete"
       /\ DropRows({f.exec})
       /\ Become(p,
            CASE status[f.exec] = "absent" -> Settled(f)
              [] status[f.exec] # "absent" /\ f.caller = "cancel" /\ f.family = None ->
                    [Dispatching("cancelled") EXCEPT !.later = parent]
              [] OTHER -> IF parent = None THEN Settled(f)
                          ELSE [f EXCEPT !.pc = "recheck", !.exec = parent])
       /\ UNCHANGED <<log, run, request>>

-----------------------------------------------------------------------------
(* finalizePendingExecutionFailure and cancelPendingExecutionDescendants.   *)

\* terminalizeWorkflowExecution: a log that has no end yet ends as an error.
Terminalize(p) ==
    LET f == proc[p] IN
    /\ f.pc = "terminalize"
    /\ EndLog(f.exec, "error")
    /\ Become(p, To(f, "descendants"))
    /\ UNCHANGED <<table, run, request>>

ListDescendants(p) ==
    LET f == proc[p] IN
    /\ f.pc = "descendants"
    /\ Become(p, [f EXCEPT !.pc = "kids", !.family = f.exec, !.kids = Children(f.exec)])
    /\ UNCHANGED <<table, log, run, request>>

\* One descendant after the other; then the owner is settled, except that a
\* cancellation request leaves its owner to the worker.
NextDescendant(p) ==
    LET f == proc[p] IN
    /\ f.pc = "kids"
    /\ \/ \E c \in f.kids :
             Become(p, [f EXCEPT !.pc = "cancelRead", !.exec = c, !.kids = @ \ {c}])
       \/ /\ f.kids = {}
          /\ Become(p, IF f.caller = "cancel" THEN Idle
                       ELSE [f EXCEPT !.pc = "list", !.exec = f.family, !.family = None])
    /\ UNCHANGED <<table, log, run, request>>

\* The descendant's row is still processing: its run is cancelled.
CancelDescendantRun(p) ==
    LET f == proc[p]
        c == f.exec
    IN /\ f.pc = "kidRun"
       /\ \/ /\ status[c] # "processing" \/ run[c] \in {"none", "FAILED"}
             /\ Become(p, To(f, "kids"))
             /\ UNCHANGED <<log, run>>
          \/ /\ status[c] = "processing" /\ run[c] = "COMPLETED"
             /\ Become(p, To(f, "list"))
             /\ UNCHANGED <<log, run>>
          \/ /\ status[c] = "processing" /\ run[c] \in {"active", "CANCELED"}
             /\ EndLog(c, "error")
             /\ run' = [run EXCEPT ![c] = "CANCELED"]
             /\ proc' = [proc EXCEPT ![p] = To(f, "list"),
                                     ![Outer(c)] = Idle, ![Inner(c)] = Idle]
       /\ UNCHANGED <<table, request>>

-----------------------------------------------------------------------------
(* cancelPendingWorkflowExecution, for a user (family is None) or for the   *)
(* descendants of an execution that ended.                                  *)

\* It returned without a row that is still its own to cancel.
NothingCancelled(f) == IF f.family = None THEN Idle ELSE To(f, "kids")

CancelByUser(p, e) ==
    /\ proc[p].pc = "idle"
    /\ e \in Cancellable
    /\ Become(p, [On("cancelRead", e) EXCEPT !.caller = "cancel"])
    /\ UNCHANGED <<table, log, run, request>>

CancelRead(p) ==
    LET f == proc[p] IN
    /\ f.pc = "cancelRead"
    /\ Become(p, CASE status[f.exec] = "processing" -> To(f, "cancelMark")
                   [] status[f.exec] = "pending" -> To(f, "cancelClaim")
                   [] OTHER -> NothingCancelled(f))
    /\ UNCHANGED <<table, log, run, request>>

\* The row was read as processing.  An execution whose log has ended is
\* finished; a descendant's run is cancelled even so.
CancelMark(p) ==
    LET f == proc[p]
        marked == {f.exec} \cap Processing
    IN /\ f.pc = "cancelMark"
       /\ cancelRequested' = cancelRequested \cup marked
       /\ Become(p, CASE marked = {} -> NothingCancelled(f)
                      [] marked # {} /\ f.family # None -> To(f, "kidRun")
                      [] OTHER -> IF log[f.exec] \in Ended THEN Idle
                                  ELSE To(f, "descendants"))
       /\ UNCHANGED <<status, before, ownerCompleted, log, run, request>>

\* The row was read as pending: the cancellation claims it, whatever the limit.
CancelClaim(p) ==
    LET f == proc[p]
        e == f.exec
    IN /\ f.pc = "cancelClaim"
       /\ \/ /\ status[e] = "pending"
             /\ SetStatus(e, "processing")
             /\ cancelRequested' = cancelRequested \cup {e}
             /\ Become(p, To(f, "cancelTerminalize"))
          \/ /\ status[e] # "pending"
             /\ Become(p, NothingCancelled(f))
             /\ UNCHANGED table
       /\ UNCHANGED <<log, run, request>>

\* Mutant: the row goes although its finalizer failed.
CancelSwallowsFailure(p) ==
    LET f == proc[p] IN
    /\ f.pc = "cancelTerminalize"
    /\ \/ EndLog(f.exec, "error")
       \/ "cancelFails" \in Faults /\ f.family = None /\ UNCHANGED log
    /\ Become(p, To(f, "list"))
    /\ UNCHANGED <<table, run, request>>

\* A finalizer that fails gives the row back to the queue.
CancelTerminalize(p) ==
    LET f == proc[p]
        e == f.exec
    IN /\ f.pc = "cancelTerminalize"
       /\ \/ /\ EndLog(e, "error")
             /\ Become(p, To(f, "list"))
             /\ UNCHANGED table
          \/ /\ "cancelFails" \in Faults /\ f.family = None
             /\ IF status[e] = "processing"
                THEN SetStatus(e, "pending")
                ELSE UNCHANGED <<status, before, ownerCompleted>>
             /\ Become(p, Idle)
             /\ UNCHANGED <<cancelRequested, log>>
       /\ UNCHANGED <<run, request>>

-----------------------------------------------------------------------------
(* executePendingExecution: the supervisor of a run.                        *)

OuterStart(e) ==
    LET p == Outer(e) IN
    /\ proc[p].pc = "outerStart"
    /\ IF status[e] = "processing" /\ e \notin ownerCompleted
       THEN proc' = [proc EXCEPT ![p] = Starting("outerWait"),
                                 ![Inner(e)] = IF @ = Idle THEN Starting("innerRead") ELSE @]
       ELSE Become(p, Dispatching("completed"))
    /\ UNCHANGED <<table, log, run, request>>

\* Mutant: a job that succeeded does not wake the scope.
OuterWaitWithoutWake(e) ==
    /\ proc[Outer(e)].pc = "outerWait"
    /\ \/ /\ proc[Inner(e)].pc = "ok"
          /\ Become(Outer(e), Starting("exit"))
       \/ /\ proc[Inner(e)].pc = "failed"
          /\ Become(Outer(e), Starting("outerFailed"))
    /\ UNCHANGED <<table, log, run, request>>

OuterWait(e) ==
    /\ proc[Outer(e)].pc = "outerWait"
    /\ \/ /\ proc[Inner(e)].pc = "ok"
          /\ Become(Outer(e), Dispatching("completed"))
       \/ /\ proc[Inner(e)].pc = "failed"
          /\ Become(Outer(e), Starting("outerFailed"))
    /\ UNCHANGED <<table, log, run, request>>

\* Mutant: a failed job is left as it is.
OuterFailedUnfinalized(e) ==
    /\ proc[Outer(e)].pc = "outerFailed"
    /\ Become(Outer(e), Dispatching("completed"))
    /\ UNCHANGED <<table, log, run, request>>

\* finalizePendingExecutionRunFailure
OuterFailed(e) ==
    /\ proc[Outer(e)].pc = "outerFailed"
    /\ Become(Outer(e), IF status[e] = "processing"
                        THEN [On("terminalize", e) EXCEPT !.caller = "outer"]
                        ELSE Dispatching("completed"))
    /\ UNCHANGED <<table, log, run, request>>

EndRun(e, outcome) ==
    /\ run' = [run EXCEPT ![e] = outcome]
    /\ Become(Outer(e), Idle)
    /\ UNCHANGED <<table, log, request>>

OuterExit(e) ==
    LET f == proc[Outer(e)] IN
    /\ f.pc = "exit"
    /\ EndRun(e, IF f.goal = "failed" THEN "FAILED" ELSE "COMPLETED")

\* The task is retried from the start, until its attempts are used up.
OuterCrash(e) ==
    /\ proc[Outer(e)].pc # "idle"
    /\ \/ /\ "workerCrash" \in Faults
          /\ Become(Outer(e), Starting("outerStart"))
          /\ UNCHANGED <<table, log, run, request>>
       \/ /\ "gaveUp" \in Faults
          /\ EndRun(e, "FAILED")

-----------------------------------------------------------------------------
(* executePendingExecutionRun: the bounded job, attempted once.             *)

InnerRead(e) ==
    /\ proc[Inner(e)].pc = "innerRead"
    /\ Become(Inner(e), Starting(IF status[e] = "processing" THEN "innerStart" ELSE "ok"))
    /\ UNCHANGED <<table, log, run, request>>

\* startWorkflowExecution throws when the log has already ended.
InnerStart(e) ==
    /\ proc[Inner(e)].pc = "innerStart"
    /\ log' = [log EXCEPT ![e] = IF @ = "none" THEN "running" ELSE @]
    /\ Become(Inner(e), Starting(IF log[e] \in Ended THEN "failed" ELSE "innerRun"))
    /\ UNCHANGED <<table, run, request>>

\* A workflow block posts its child to the queue, then polls it.
RequestChild(e, c) ==
    /\ proc[Inner(e)].pc = "innerRun"
    /\ Parent[c] = e
    /\ request[c] = "none"
    /\ request' = [request EXCEPT ![c] = "sent"]
    /\ UNCHANGED <<table, log, run, proc>>

\* A poll answers 'completed' once the child's row is gone and its log ended.
JobSucceeds(e) ==
    /\ proc[Inner(e)].pc = "innerRun"
    /\ \A c \in Exec : Parent[c] = e /\ request[c] # "none" =>
          status[c] = "absent" /\ log[c] = "success"
    /\ EndLog(e, "success")
    /\ Become(Inner(e), [On("list", e) EXCEPT !.caller = "inner"])
    /\ UNCHANGED <<table, run, request>>

\* A block failed, a child timed out, or a poll saw the cancellation request.
JobFails(e) ==
    /\ proc[Inner(e)].pc = "innerRun"
    /\ \A c \in Exec : Parent[c] = e => request[c] # "sent"
    /\ EndLog(e, "error")
    /\ Become(Inner(e), [On("descendants", e) EXCEPT !.caller = "inner"])
    /\ UNCHANGED <<table, run, request>>

\* The tier's maximum duration, or a crash of the machine.
InnerKilled(e) ==
    /\ \/ "jobKilled" \in Faults /\ proc[Inner(e)].pc = "innerRun"
       \/ "settleKilled" \in Faults /\ proc[Inner(e)].pc \notin {"idle", "innerRun", "ok", "failed"}
    /\ Become(Inner(e), Starting("failed"))
    /\ UNCHANGED <<table, log, run, request>>

ClientCrash(p) ==
    /\ "clientCrash" \in Faults
    /\ proc[p].pc # "idle"
    /\ Become(p, Idle)
    /\ UNCHANGED <<table, log, run, request>>

-----------------------------------------------------------------------------

Dispatch(p) ==
    \/ Claim(p) \/ TakeSnapshot(p) \/ Reconcile(p) \/ CheckReleased(p)
    \/ Trigger(p) \/ Revert(p) \/ RecheckRow(p)

Settle(p) ==
    \/ ListChildren(p) \/ MarkOwnerCompleted(p) \/ RecheckOwner(p) \/ Delete(p)

Finalize(p) ==
    \/ Terminalize(p) \/ ListDescendants(p) \/ NextDescendant(p) \/ CancelDescendantRun(p)

Cancel(p) ==
    \/ CancelRead(p) \/ CancelMark(p) \/ CancelClaim(p) \/ CancelTerminalize(p)

Supervise(e) ==
    \/ OuterStart(e) \/ OuterWait(e) \/ OuterFailed(e) \/ OuterExit(e)

RunJob(e) ==
    \/ InnerRead(e) \/ InnerStart(e) \/ JobSucceeds(e) \/ JobFails(e)
    \/ \E c \in Exec : RequestChild(e, c)

Next ==
    \/ \E p \in Proc : Dispatch(p) \/ Settle(p) \/ Finalize(p) \/ Cancel(p)
    \/ \E p \in Client, e \in Exec : Enqueue(p, e) \/ CancelByUser(p, e)
    \/ \E e \in Exec : Supervise(e) \/ RunJob(e) \/ OuterCrash(e) \/ InnerKilled(e)
    \/ \E p \in Client : ClientCrash(p)

Spec == Init /\ [][Next]_vars

-----------------------------------------------------------------------------
(* Properties.                                                              *)

TypeOK ==
    /\ status \in [Exec -> {"absent", "pending", "processing"}]
    /\ before \in [Exec -> SUBSET Exec]
    /\ cancelRequested \subseteq Rows
    /\ ownerCompleted \subseteq Rows
    /\ log \in [Exec -> {"none", "running"} \cup Ended]
    /\ run \in [Exec -> {"none", "active"} \cup TerminalRun]
    /\ request \in [Exec -> {"none", "sent", "taken"}]
    /\ proc \in [Proc -> Frame]

\* The executions that use a slot of their own never exceed the tier's
\* concurrency limit.  A row that a cancellation claimed only to end it is
\* not counted: claimNextPendingExecutionWithStore did not admit it.
CapacityRespected ==
    ConcurrencyLimit # None =>
        Cardinality(Counted \ cancelRequested) <= ConcurrencyLimit

\* The top-level executions alone never exceed the limit, whatever their
\* children do and whichever triggers are refused (claimNextPendingExecution,
\* triggerPendingExecution).
Roots == {e \in Processing : Parent[e] = None} \ cancelRequested

RootCapacityRespected ==
    ConcurrencyLimit # None => Cardinality(Roots) <= ConcurrencyLimit

\* Two queued or active executions never share an ordering key
\* (enqueuePendingExecution collapses the overlap).
OrderingKeyExclusive ==
    \A e, f \in Rows : e # f /\ OrderingKey[e] # None => OrderingKey[e] # OrderingKey[f]

\* An execution that has started and not ended holds its row, "the active
\* capacity marker" (completePendingExecution): the row is not given back or
\* removed under it, whoever reconciles, cancels or settles.
RunningHoldsRow ==
    \A e \in Exec : log[e] = "running" => status[e] = "processing"

\* A processing row is not removed under a child that borrows its slot
\* (settlePendingExecutionOwner retains it as ownerCompleted instead).
ParentOutlivesChildren ==
    [][\A e \in Exec : status[e] = "processing" /\ status'[e] = "absent" =>
          \A c \in Processing : Parent[c] # e]_vars

\* "fills every available concurrency slot": when every process rests or runs
\* its job, no pending row waits while the scope has capacity for it.  Nobody
\* polls, so a wake that misses the row would leave it there.
Resting(p) ==
    \/ proc[p].pc \in {"idle", "innerRun", "ok", "failed"}
    \/ proc[p].pc = "outerWait" /\ proc[Inner(p[1])].pc = "innerRun"

NoLostWakeup ==
    (\A p \in Proc : Resting(p)) => \A e \in Exec : Candidate(e) => ~HasCapacity(e)

\* Queued, started at most once, ended once, never lost: the phase of an
\* execution as its row and its log show it, where nothing expires in the queue
\* and no trigger is refused.
Phase(e) ==
    CASE log[e] # "none" -> log[e]
      [] log[e] = "none" /\ status[e] # "absent" -> "queued"
      [] OTHER -> "unknown"

Lifecycle == INSTANCE ExecutionLifecycle
                WITH phase <- [e \in Exec |-> Phase(e)]

ImplementsLifecycle == Lifecycle!Spec

\* Every admitted execution ends and gives its row back.  Each process takes
\* its next step when it can, and the request that queues a child is served in
\* the end; nothing is assumed of users, crashes, kills or refusals.
EndJob(e) == InnerRead(e) \/ InnerStart(e) \/ JobSucceeds(e) \/ JobFails(e)

Progress ==
    /\ \A p \in Proc : WF_vars(Dispatch(p) \/ Settle(p) \/ Finalize(p) \/ Cancel(p))
    /\ \A e \in Exec : WF_vars(Supervise(e)) /\ WF_vars(EndJob(e))
    /\ \A c \in Exec : Parent[c] # None => SF_vars(\E p \in Client : Enqueue(p, c))

FairSpec == Spec /\ Progress

\* Recovery is driven by requests, there is no scheduled sweep: requests for
\* the billing scope keep arriving.
ScopeInUse == SF_vars(\E p \in Client, e \in Exec : Enqueue(p, e))

FairSpecInUse == FairSpec /\ ScopeInUse

EveryExecutionSettles ==
    \A e \in Exec : status[e] # "absent" ~> status[e] = "absent" /\ log[e] \in Ended

=============================================================================
