----------------------------- MODULE Checkpoint -----------------------------
(***************************************************************************)
(* Human-in-the-loop checkpoints: lib/workflows/human-in-the-loop/         *)
(* service.ts with the code that calls it, background/workflow-            *)
(* execution.ts, pending-execution-job.ts and pending-execution-worker.ts, *)
(* lib/workflows/execution-runner.ts and queued-execution-cancellation.ts. *)
(*                                                                         *)
(* An execution runs in segments.  A segment that pauses saves a           *)
(* checkpoint in the execution's log row; when its last point has been     *)
(* answered, a continuation row of the queue runs the next segment.  A     *)
(* point is answered by a reviewer or by the end of a child execution.     *)
(* Every transaction on the log row holds its row lock and is one step.    *)
(***************************************************************************)
EXTENDS Naturals, FiniteSets, Sequences

CONSTANTS
    Exec,         \* executions
    User,         \* requests that cancel an execution
    None,         \* the absent value
    Parent,       \* Parent[e]: the execution whose workflow block queues e, or None
    Review,       \* Review[e]: the human pause points of e
    MaxRevision,  \* bound: how often an execution pauses
    Fragile,      \* the jobs that may be killed
    Faults        \* the other faults the environment may inject

FaultKinds == {"supervisorCrash", "accessLost", "cancelFails"}

Segment == 0..MaxRevision
Job == Exec \X Segment          \* the queue row, and the job, of each segment
Proc == Job \cup User
ReviewPoint == UNION {Review[e] : e \in Exec}
Point == ReviewPoint \cup Exec  \* a child point is named by the child

ASSUME CheckpointAssumption ==
    /\ IsFiniteSet(Exec)
    /\ None \notin Exec \cup Job
    /\ User \cap Job = {}
    /\ Parent \in [Exec -> Exec \cup {None}]
    /\ \A e \in Exec : Parent[e] # None => Parent[Parent[e]] = None
    /\ DOMAIN Review = Exec
    /\ ReviewPoint \cap Exec = {}
    /\ MaxRevision \in Nat
    /\ Fragile \subseteq Job
    /\ Faults \subseteq FaultKinds

VARIABLES
    log,              \* the execution's log: "none", "running", or its outcome
    checkpoint,       \* executionData.checkpoint; revision 0 when there is none
    paused,           \* the executions whose log has `pause`
    rows,             \* the pending_execution row of each segment
    cancelRequested,  \* the rows with cancelRequestedAt
    proc              \* what each process is doing

store == <<log, checkpoint, paused>>
queue == <<rows, cancelRequested>>
vars == <<store, queue, proc>>

-----------------------------------------------------------------------------
(* Processes.  prog is the list of steps a process still has to take.       *)

Ended == {"success", "error"}
Labels == {"unstarted", "begin", "claim", "run", "save", "fail", "reconcile",
           "repair", "tell", "submit", "settle", "final", "terminalize", "descendants",
           "kids", "cancelRead", "cancelMark", "decide", "cancelClaim",
           "cancelTerminalize", "cancelRun"}
Modes == {"job", "supervisor", "cancelled", "request"}

Frame == [prog : Seq(Labels), mode : Modes, exec : Exec \cup {None}, row : Job \cup {None},
          points : SUBSET Point, child : Exec \cup {None}, seen : Segment,
          todo : SUBSET Exec, read : {"absent", "pending", "processing"},
          owner : Job \cup {None}, family : Exec \cup {None}, home : Job \cup {None},
          rest : Seq(Labels)]

Blank == [prog |-> <<>>, mode |-> "request", exec |-> None, row |-> None,
          points |-> {}, child |-> None, seen |-> 0, todo |-> {}, read |-> "absent",
          owner |-> None, family |-> None, home |-> None, rest |-> <<>>]

JobFrame(j) == [Blank EXCEPT !.prog = <<"unstarted">>, !.mode = "job", !.exec = j[1], !.row = j]

At(p, label) == proc[p].prog # <<>> /\ Head(proc[p].prog) = label
Idle(p) == proc[p].prog = <<>>
Active(j) == ~Idle(j) /\ ~At(j, "unstarted")

Then(f, steps) == [f EXCEPT !.prog = steps \o Tail(@)]
Instead(f, steps) == [f EXCEPT !.prog = steps]
Over(f) == [Blank EXCEPT !.mode = f.mode]
Become(p, f) == proc' = [proc EXCEPT ![p] = IF f.prog = <<>> THEN Over(f) ELSE f]

Children(e) == {c \in Exec : Parent[c] = e}

\* completeWorkflowCheckpointChild looks for a parent that waits.
Tell(f, steps) ==
    IF Parent[f.exec] = None THEN Instead(f, steps)
    ELSE [Instead(f, <<"tell">> \o steps) EXCEPT !.child = f.exec]

-----------------------------------------------------------------------------
(* The log row.                                                             *)

NoCheckpoint == [revision |-> 0, points |-> {}, submitted |-> {}, active |-> FALSE]

\* checkpoint.activeJobId is null, or workflowResumeJobId of the revision.
ResumeJob(e) == <<e, checkpoint[e].revision>>

Init ==
    /\ log = [e \in Exec |-> "none"]
    /\ checkpoint = [e \in Exec |-> NoCheckpoint]
    /\ paused = {}
    /\ rows = [j \in Job |-> IF j[2] = 0 /\ Parent[j[1]] = None THEN "pending" ELSE "absent"]
    /\ cancelRequested = {}
    /\ proc = [p \in Proc |-> IF p \in Job THEN JobFrame(p) ELSE Blank]

\* completeWorkflowExecution: only a log without an end is written; the
\* checkpoint and the pause go.
EndLog(e, outcome) ==
    IF log[e] \in Ended THEN UNCHANGED store
    ELSE /\ log' = [log EXCEPT ![e] = outcome]
         /\ checkpoint' = [checkpoint EXCEPT ![e] = NoCheckpoint]
         /\ paused' = paused \ {e}

SetRow(j, s) == rows' = [rows EXCEPT ![j] = s]

\* Mutant: the first answer queues the continuation.
SubmitPointAny(e, r, point) ==
    LET c == checkpoint[e] IN
    IF log[e] = "running" /\ c.revision = r /\ point \in c.points \ c.submitted
         /\ e \in paused /\ ~c.active
    THEN /\ checkpoint' = [checkpoint EXCEPT ![e].submitted = @ \cup {point}, ![e].active = TRUE]
         /\ SetRow(ResumeJob(e), "pending")
    ELSE UNCHANGED <<checkpoint, rows>>

\* submitCheckpoint: beforeEnqueue and the insertion are one transaction.  The
\* answer to the last point queues the continuation; the same answer sent again
\* while it is queued queues it again, unless its row is still there.
SubmitPoint(e, r, point) ==
    LET c == checkpoint[e]
        current == log[e] = "running" /\ c.revision = r /\ point \in c.points
        first == current /\ point \notin c.submitted /\ e \in paused /\ ~c.active
        again == current /\ point \in c.submitted /\ e \in paused /\ c.active
        all == c.submitted \cup {point} = c.points
        enqueue == again \/ (first /\ all)
    IN /\ IF first
          THEN checkpoint' = [checkpoint EXCEPT ![e].submitted = @ \cup {point},
                                                ![e].active = all]
          ELSE UNCHANGED checkpoint
       /\ IF enqueue /\ rows[ResumeJob(e)] = "absent"
          THEN SetRow(ResumeJob(e), "pending")
          ELSE UNCHANGED rows

\* A reviewer answers a point of the page it has, which may be an old one.
Submit(e, r, point) ==
    /\ log[e] # "none"
    /\ r # 0
    /\ SubmitPoint(e, r, point)
    /\ UNCHANGED <<log, paused, cancelRequested, proc>>

-----------------------------------------------------------------------------
(* The queue, as PendingExecution promises it: a pending row is claimed and *)
(* its job starts once.  No checkpoint is newer than a segment that starts, *)
(* so there is nothing to recover then.                                     *)

Dispatch(j) ==
    /\ rows[j] = "pending"
    /\ At(j, "unstarted")
    /\ SetRow(j, "processing")
    /\ Become(j, Instead(proc[j], IF j[2] = 0 THEN <<"begin">> ELSE <<"claim">>))
    /\ UNCHANGED <<store, cancelRequested>>

\* startWorkflowExecution throws when the log has ended.
Begin(j) ==
    LET e == j[1] IN
    /\ At(j, "begin")
    /\ log' = [log EXCEPT ![e] = IF @ = "none" THEN "running" ELSE @]
    /\ IF log[e] \in Ended
       THEN Become(j, [Instead(proc[j], <<"final">>) EXCEPT !.mode = "supervisor"])
       ELSE Become(j, Instead(proc[j], <<"run">>))
    /\ UNCHANGED <<checkpoint, paused, queue>>

\* Mutant: the claim leaves the pause in the log.
ClaimKeepsPause(j) ==
    LET e == j[1]
        mine == log[e] = "running" /\ e \in paused /\ checkpoint[e].revision = j[2]
                  /\ checkpoint[e].active
    IN /\ At(j, "claim")
       /\ Become(j, Instead(proc[j], IF mine THEN <<"run">> ELSE <<"reconcile", "settle">>))
       /\ UNCHANGED <<store, queue>>

\* claimWorkflowCheckpoint: the pause goes, activeJobId stays.  A claim that
\* answers null is skipped; a user without access makes it throw.
ClaimCheckpoint(j) ==
    LET e == j[1]
        mine == log[e] = "running" /\ e \in paused /\ checkpoint[e].revision = j[2]
                  /\ checkpoint[e].active
    IN /\ At(j, "claim")
       /\ \/ /\ mine
             /\ paused' = paused \ {e}
             /\ Become(j, Instead(proc[j], <<"run">>))
          \/ /\ ~mine
             /\ Become(j, Instead(proc[j], <<"reconcile", "settle">>))
             /\ UNCHANGED paused
          \/ /\ mine /\ "accessLost" \in Faults
             /\ Become(j, [Instead(proc[j], <<"final">>) EXCEPT !.mode = "supervisor"])
             /\ UNCHANGED paused
       /\ UNCHANGED <<log, checkpoint, queue>>

-----------------------------------------------------------------------------
(* A segment.                                                               *)

\* A workflow block posts its child to the queue and polls it.
RequestChild(j, c) ==
    /\ At(j, "run")
    /\ Parent[c] = j[1]
    /\ log[c] = "none" /\ rows[<<c, 0>>] = "absent"
    /\ SetRow(<<c, 0>>, "pending")
    /\ UNCHANGED <<store, cancelRequested, proc>>

Polled(e) == {c \in Children(e) : log[c] # "none" \/ rows[<<c, 0>>] # "absent"}

\* The layer is over and some of its blocks wait: for a reviewer, or for a
\* child that answered 'paused' to a poll.
Pause(j) ==
    LET e == j[1] IN
    /\ At(j, "run")
    /\ checkpoint[e].revision < MaxRevision
    /\ \E points \in SUBSET (Review[e] \cup (Polled(e) \cap paused)) :
          /\ points # {}
          /\ \A c \in Polled(e) \ points : log[c] \in Ended
          /\ Become(j, [Instead(proc[j], <<"save">>) EXCEPT !.points = points])
    /\ UNCHANGED <<store, queue>>

\* Mutant: a cancellation request does not stop the save.
SaveCancelled(j) ==
    LET e == j[1] IN
    /\ At(j, "save")
    /\ checkpoint' = [checkpoint EXCEPT ![e] = [NoCheckpoint EXCEPT
                         !.revision = checkpoint[e].revision + 1, !.points = proc[j].points]]
    /\ paused' = paused \cup {e}
    /\ Become(j, Instead(proc[j], <<"reconcile", "settle">>))
    /\ UNCHANGED <<log, queue>>

\* saveWorkflowCheckpoint
Save(j) ==
    LET e == j[1]
        previous == checkpoint[e]
        refused == log[e] # "running" \/ j \in cancelRequested
        saved == previous.revision # 0 /\ e \in paused
        cancelled == previous.revision # 0 /\ e \notin paused /\ ~previous.active
    IN /\ At(j, "save")
       /\ IF refused \/ saved \/ cancelled
          THEN /\ UNCHANGED <<checkpoint, paused>>
               /\ Become(j, Instead(proc[j], IF refused \/ cancelled THEN <<"fail">>
                                             ELSE <<"reconcile", "settle">>))
          ELSE /\ checkpoint' = [checkpoint EXCEPT ![e] =
                     [NoCheckpoint EXCEPT !.revision = previous.revision + 1,
                                          !.points = proc[j].points]]
               /\ paused' = paused \cup {e}
               /\ Become(j, Instead(proc[j], <<"reconcile", "settle">>))
       /\ UNCHANGED <<log, queue>>

\* Every block has run; every child answered 'completed'.
Succeed(j) ==
    LET e == j[1] IN
    /\ At(j, "run")
    /\ \A c \in Polled(e) : log[c] = "success"
    /\ EndLog(e, "success")
    /\ Become(j, Tell(proc[j], <<"settle">>))
    /\ UNCHANGED queue

\* A block fails, a child fails or the cancellation request is seen; or the
\* checkpoint could not be saved.
Fail(j) ==
    LET e == j[1] IN
    /\ At(j, "run") \/ At(j, "fail")
    /\ EndLog(e, "error")
    /\ Become(j, IF Parent[e] = None THEN Instead(proc[j], <<"descendants", "settle">>)
                                     ELSE Tell(proc[j], <<"settle">>))
    /\ UNCHANGED queue

-----------------------------------------------------------------------------
(* completeWorkflowCheckpointChild and reconcileWorkflowCheckpointChildren. *)

Told(f) == [Then(f, <<>>) EXCEPT !.child = None, !.seen = 0]

\* The parent's log row is read first, without a lock.
ReadParent(p) ==
    LET f == proc[p]
        e == Parent[f.child]
    IN /\ At(p, "tell")
       /\ Become(p, IF log[e] = "running" /\ f.child \in checkpoint[e].points
                    THEN [Then(f, <<"submit">>) EXCEPT !.seen = checkpoint[e].revision]
                    ELSE Told(f))
       /\ UNCHANGED <<store, queue>>

SubmitChild(p) ==
    LET f == proc[p] IN
    /\ At(p, "submit")
    /\ SubmitPoint(Parent[f.child], f.seen, f.child)
    /\ Become(p, Told(f))
    /\ UNCHANGED <<log, paused, cancelRequested>>

Repairing(f, todo) ==
    [Then(f, IF todo = {} THEN <<>> ELSE <<"repair">>) EXCEPT !.todo = todo]

\* Mutant: nothing is reconciled after a pause was saved.
ReconcileNothing(p) ==
    /\ At(p, "reconcile")
    /\ Become(p, Then(proc[p], <<>>))
    /\ UNCHANGED <<store, queue>>

\* The children of the pause that have ended in the meantime.
ReconcileChildren(p) ==
    LET f == proc[p]
        e == f.exec
        ended == {c \in checkpoint[e].points \cap Exec : log[c] \in Ended}
    IN /\ At(p, "reconcile")
       /\ Become(p, IF e \in paused THEN Repairing(f, ended) ELSE Then(f, <<>>))
       /\ UNCHANGED <<store, queue>>

RepairChild(p) ==
    LET f == proc[p] IN
    /\ At(p, "repair")
    /\ \E c \in f.todo :
          Become(p, [Repairing(f, f.todo \ {c}) EXCEPT !.prog = <<"tell">> \o @, !.child = c])
    /\ UNCHANGED <<store, queue>>

\* settlePendingExecutionOwner
SettleRow(p) ==
    LET f == proc[p] IN
    /\ At(p, "settle")
    /\ SetRow(f.row, "absent")
    /\ cancelRequested' = cancelRequested \ {f.row}
    /\ Become(p, Then(f, <<>>))
    /\ UNCHANGED store

-----------------------------------------------------------------------------
(* finalizePendingExecutionFailure, by the supervisor of a job that failed. *)

\* Mutant: the checkpoint this segment resumes counts as newer.
RecoversOwn(j) == log[j[1]] = "running" /\ checkpoint[j[1]].revision >= j[2]

\* recoverWorkflowCheckpointSegment: a newer checkpoint proves that the segment
\* of this row is over.
Recovers(j) == log[j[1]] = "running" /\ checkpoint[j[1]].revision > j[2]

\* Mutant: the finalizer leaves the children to themselves.
FinalizeAlone(j) ==
    /\ At(j, "final")
    /\ Become(j, Instead(proc[j],
          CASE rows[j] # "processing" -> <<>>
            [] rows[j] = "processing" /\ Recovers(j) -> <<"reconcile", "settle">>
            [] OTHER -> <<"terminalize", "settle">>))
    /\ UNCHANGED <<store, queue>>

Finalize(j) ==
    /\ At(j, "final")
    /\ Become(j, Instead(proc[j],
          CASE rows[j] # "processing" -> <<>>
            [] rows[j] = "processing" /\ Recovers(j) -> <<"reconcile", "settle">>
            [] OTHER -> <<"terminalize", "descendants", "settle">>))
    /\ UNCHANGED <<store, queue>>

\* terminalizeWorkflowExecution: the log ends if it has no end; in both cases a
\* parent that waits is told.
Terminalize(p) ==
    LET f == proc[p] IN
    /\ At(p, "terminalize")
    /\ EndLog(f.exec, "error")
    /\ Become(p, Tell(f, Tail(f.prog)))
    /\ UNCHANGED queue

\* The maximum duration, a crash of the machine, or an error on the way.
JobKilled(j) ==
    /\ j \in Fragile
    /\ proc[j].mode = "job" /\ Active(j)
    /\ Become(j, [JobFrame(j) EXCEPT !.prog = <<"final">>, !.mode = "supervisor"])
    /\ UNCHANGED <<store, queue>>

SupervisorCrash(j) ==
    /\ "supervisorCrash" \in Faults
    /\ proc[j].mode = "supervisor" /\ Active(j)
    /\ Become(j, [JobFrame(j) EXCEPT !.prog = <<"final">>, !.mode = "supervisor"])
    /\ UNCHANGED <<store, queue>>

-----------------------------------------------------------------------------
(* cancelPendingWorkflowExecution, for a user (family is None) or for the   *)
(* children of an execution that ended (cancelPendingExecutionDescendants). *)

\* The children whose row is queued or whose log has not ended.
ListDescendants(p) ==
    LET f == proc[p]
        todo == {c \in Children(f.exec) : rows[<<c, 0>>] # "absent" \/ log[c] = "running"}
    IN /\ At(p, "descendants")
       /\ Become(p, IF todo = {} THEN Then(f, <<>>)
                    ELSE [Instead(f, <<"kids">>) EXCEPT
                            !.family = f.exec, !.home = f.row, !.rest = Tail(f.prog), !.todo = todo])
       /\ UNCHANGED <<store, queue>>

\* Called with the id of the execution, or of a continuation row.
Cancelling(f, j) == [Instead(f, <<"cancelRead">>) EXCEPT !.exec = j[1], !.row = j, !.owner = None]

NextDescendant(p) ==
    LET f == proc[p] IN
    /\ At(p, "kids")
    /\ \/ \E c \in f.todo :
             Become(p, [Cancelling(f, <<c, 0>>) EXCEPT !.todo = @ \ {c}])
       \/ /\ f.todo = {}
          /\ Become(p, [Instead(f, f.rest) EXCEPT !.exec = f.family, !.row = f.home,
                                                 !.family = None, !.home = None, !.rest = <<>>])
    /\ UNCHANGED <<store, queue>>

CancelByUser(u, j) ==
    /\ Idle(u)
    /\ log[j[1]] # "none" \/ rows[j] # "absent"
    /\ j[2] # 0 => rows[j] # "absent"
    /\ Become(u, Cancelling(proc[u], j))
    /\ UNCHANGED <<store, queue>>

\* It answers with the row whose run is still to be cancelled, or with None.
Answered(f, j) ==
    LET g == [f EXCEPT !.row = j, !.owner = None] IN
    IF f.family = None THEN Instead(g, IF j = None THEN <<>> ELSE <<"descendants">>)
    ELSE Instead(g, IF j = None THEN <<"kids">> ELSE <<"cancelRun">>)

CancelRead(p) ==
    LET f == proc[p] IN
    /\ At(p, "cancelRead")
    /\ Become(p, CASE rows[f.row] = "processing" ->
                         [Instead(f, <<"cancelMark">>) EXCEPT !.read = "processing"]
                   [] rows[f.row] = "pending" /\ f.row[2] = 0 -> Instead(f, <<"cancelClaim">>)
                   [] OTHER -> [Instead(f, <<"decide">>) EXCEPT !.read = rows[f.row]])
    /\ UNCHANGED <<store, queue>>

\* Mutant: the update does not look at the row.
CancelMarkAny(p) ==
    /\ At(p, "cancelMark")
    /\ cancelRequested' = cancelRequested \cup {proc[p].row}
    /\ Become(p, [Instead(proc[p], <<"decide">>) EXCEPT !.owner = proc[p].row])
    /\ UNCHANGED <<store, rows>>

CancelMark(p) ==
    LET f == proc[p]
        found == rows[f.row] = "processing"
    IN /\ At(p, "cancelMark")
       /\ cancelRequested' = IF found THEN cancelRequested \cup {f.row} ELSE cancelRequested
       /\ Become(p, [Instead(f, <<"decide">>) EXCEPT !.owner = IF found THEN f.row ELSE None])
       /\ UNCHANGED <<store, rows>>

\* The decision under the log's lock.  The log and its checkpoint, once there,
\* are there until the end, so the read before the lock is part of the step.
\* A continuation that is active gets the request; a pause is taken back, and
\* the descendants are cancelled.
Decide(p) ==
    LET f == [proc[p] EXCEPT !.read = "absent"]
        read == proc[p].read
        e == f.exec
        job == ResumeJob(e)
        reviewed == checkpoint[e].revision # 0
        live == log[e] = "running" /\ (read = "processing" \/ reviewed)
        active == live /\ checkpoint[e].active /\ (rows[job] # "absent" \/ job = f.owner)
        takeBack == live /\ reviewed /\ ~active
        finished == log[e] \in Ended /\ read = "processing" /\ f.family = None
        answer == IF finished THEN Instead(f, <<>>)
                  ELSE Answered(f, IF active THEN job ELSE f.owner)
    IN /\ At(p, "decide")
       /\ cancelRequested' = IF active /\ rows[job] # "absent" THEN cancelRequested \cup {job}
                             ELSE cancelRequested
       /\ IF takeBack
          THEN /\ paused' = paused \ {e}
               /\ checkpoint' = [checkpoint EXCEPT ![e].active = FALSE]
          ELSE UNCHANGED <<paused, checkpoint>>
       /\ Become(p,
            CASE active /\ job # f.owner /\ rows[job] = "pending" ->
                    [Instead(f, <<"cancelClaim">>) EXCEPT !.row = job, !.owner = job]
              [] ~live /\ read = "pending" -> Instead(f, <<"cancelClaim">>)
              [] OTHER -> IF ~takeBack THEN answer
                          ELSE Instead(answer, <<"terminalize">> \o
                                  (IF f.family = None THEN <<"descendants">> ELSE answer.prog)))
       /\ UNCHANGED <<log, rows>>

\* The row is claimed to be ended, if no dispatcher was first.
CancelClaim(p) ==
    LET f == proc[p]
        found == rows[f.row] = "pending"
    IN /\ At(p, "cancelClaim")
       /\ IF found
          THEN /\ SetRow(f.row, "processing")
               /\ cancelRequested' = cancelRequested \cup {f.row}
               /\ Become(p, Instead(f, <<"cancelTerminalize">>))
          ELSE /\ Become(p, Answered(f, f.owner))
               /\ UNCHANGED queue
       /\ UNCHANGED store

\* A finalizer that fails gives the row back to the queue.
CancelTerminalize(p) ==
    LET f == proc[p]
        e == f.exec
        then == IF f.family # None THEN <<"settle", "kids">>
                ELSE IF f.owner # None THEN <<"descendants", "settle">> ELSE <<"settle">>
    IN /\ At(p, "cancelTerminalize")
       /\ \/ /\ EndLog(e, "error")
             /\ Become(p, Tell(f, then))
             /\ UNCHANGED queue
          \/ /\ "cancelFails" \in Faults /\ f.family = None
             /\ IF rows[f.row] = "processing" THEN SetRow(f.row, "pending") ELSE UNCHANGED rows
             /\ Become(p, Instead(f, <<>>))
             /\ UNCHANGED <<store, cancelRequested>>

\* The run of a child whose row is still processing is cancelled.
CancelRun(p) ==
    LET f == proc[p]
        j == f.row
        stop == rows[j] = "processing" /\ (Active(j) \/ proc[j].mode = "cancelled")
        over == rows[j] = "processing" /\ Idle(j) /\ ~stop
    IN /\ At(p, "cancelRun")
       /\ proc' = [q \in Proc |->
             IF q = p THEN Instead(f, CASE stop -> <<"terminalize", "settle", "kids">>
                                        [] over -> <<"settle", "kids">>
                                        [] OTHER -> <<"kids">>)
             ELSE IF q = j /\ stop THEN [Blank EXCEPT !.mode = "cancelled"]
             ELSE proc[q]]
       /\ UNCHANGED <<store, queue>>

-----------------------------------------------------------------------------

RunSegment(j) ==
    \/ Begin(j) \/ ClaimCheckpoint(j) \/ Save(j) \/ Finalize(j)
    \/ At(j, "fail") /\ Fail(j)

EndSegment(j) == Pause(j) \/ Succeed(j) \/ (At(j, "run") /\ Fail(j))

Serve(p) ==
    \/ ReadParent(p) \/ SubmitChild(p) \/ ReconcileChildren(p) \/ RepairChild(p)
    \/ SettleRow(p) \/ Terminalize(p) \/ ListDescendants(p) \/ NextDescendant(p)
    \/ CancelRead(p) \/ CancelMark(p) \/ Decide(p) \/ CancelClaim(p)
    \/ CancelTerminalize(p) \/ CancelRun(p)

Next ==
    \/ \E e \in Exec, r \in Segment, point \in ReviewPoint : Submit(e, r, point)
    \/ \E j \in Job : Dispatch(j) \/ RunSegment(j) \/ EndSegment(j)
                        \/ JobKilled(j) \/ SupervisorCrash(j)
    \/ \E j \in Job, c \in Exec : RequestChild(j, c)
    \/ \E p \in Proc : Serve(p)
    \/ \E u \in User, j \in Job : CancelByUser(u, j)

Spec == Init /\ [][Next]_vars

-----------------------------------------------------------------------------
(* Properties.                                                              *)

TypeOK ==
    /\ log \in [Exec -> {"none", "running"} \cup Ended]
    /\ checkpoint \in [Exec -> [revision : Segment, points : SUBSET Point,
                                submitted : SUBSET Point, active : BOOLEAN]]
    /\ paused \subseteq Exec
    /\ rows \in [Job -> {"absent", "pending", "processing"}]
    /\ \A j \in cancelRequested : j \in Job /\ rows[j] # "absent"
    /\ proc \in [Proc -> Frame]

\* A review that was answered in full is never forgotten: while its
\* continuation is due, the row that will run it is in the queue
\* (submitCheckpoint, settlePendingExecutionOwner).
AnsweredIsQueued ==
    \A e \in paused : checkpoint[e].active => rows[ResumeJob(e)] # "absent"

\* No two jobs run segments of one execution at a time, and a running one is
\* the segment of the current revision.
Running(j) == At(j, "run") \/ At(j, "save")

OneSegmentRuns ==
    \A j \in Job : Running(j) /\ log[j[1]] = "running" =>
        /\ j[1] \notin paused
        /\ checkpoint[j[1]].revision = j[2]
        /\ \A r \in Segment : Running(<<j[1], r>>) => r = j[2]

Withdrawn(e) ==
    log[e] = "running" /\ checkpoint[e].revision # 0 /\ e \notin paused /\ ~checkpoint[e].active

ReviewStatus(e) ==
    CASE log[e] = "none" -> "none"
      [] log[e] = "success" -> "completed"
      [] log[e] = "error" -> "failed"
      [] log[e] = "running" /\ e \in paused ->
            IF checkpoint[e].active THEN "queued" ELSE "paused"
      [] OTHER -> IF Withdrawn(e) THEN "cancelling" ELSE "running"

\* The execution as its review page shows it follows ReviewedExecution.
Reviewed == INSTANCE ReviewedExecution WITH
    status <- [e \in Exec |-> ReviewStatus(e)],
    revision <- [e \in Exec |-> checkpoint[e].revision],
    open <- [e \in Exec |-> checkpoint[e].points \ checkpoint[e].submitted]

ImplementsReview == Reviewed!Spec

\* A pause saved after a cancellation was requested would have nobody left to
\* end it: no execution pauses for a row whose cancellation was requested.
NoPauseAfterCancel ==
    [][\A j \in Job : At(j, "save") /\ j \in cancelRequested => j[1] \notin paused' \ paused]_vars

\* The end of a child reaches the pause that waits for it, also when the child
\* ends before the checkpoint of its parent is saved, and when the job that
\* saved it is killed before it looked for such children.
Waits(e, c) ==
    e \in paused /\ c \in checkpoint[e].points \ checkpoint[e].submitted

\* Each process takes its next step when it can; nothing is assumed of
\* reviewers, users, kills and crashes.
Work(j) == Dispatch(j) \/ RunSegment(j) \/ EndSegment(j) \/ Serve(j)

Fairness ==
    /\ \A j \in Job : WF_vars(Work(j))
    /\ \A u \in User : WF_vars(Serve(u))

FairSpec == Spec /\ Fairness

ChildEndArrives ==
    \A c \in {x \in Exec : Parent[x] # None} :
        Waits(Parent[c], c) /\ log[c] \in Ended ~> ~Waits(Parent[c], c)

\* A pause that a cancellation took back is ended (ImplementsReview: it has no
\* other way out), even when the job that was cancelling its children is killed
\* between the two steps: nobody else could answer it or end it.
WithdrawnEnds == []<>(\A e \in Exec : ~Withdrawn(e))

=============================================================================
