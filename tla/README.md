# TradingGoose Studio: a TLA+ verification project

TradingGoose Studio runs trading workflows: graphs of blocks that read markets, call models and place
orders, started by people, schedules, webhooks and monitors.  This directory holds TLA+ models of the
parts of it where several processes share state or where the order of steps decides, the TLC
configurations that check them on small instances, and proofs that TLAPS checks.  All paths below are
relative to `src/apps/tradinggoose/` unless they begin with `src/`.

    tlc -workers 2 -config queue_capacity.cfg PendingExecutionMC
    tlapm PendingExecutionProofs.tla

## 1. The system

### Parts, state, operations

| part | state it keeps | operations | what is hard |
|---|---|---|---|
| **Pending-execution queue** `lib/execution/pending-execution.ts`, `background/pending-execution-*.ts`, `lib/workflows/queued-execution-cancellation.ts` | rows of `pending_execution` (status, payload marks), execution logs, Trigger.dev runs | enqueue, claim, trigger, reconcile, settle, finalize, cancel; supervisor and bounded job | no lock spans a whole operation; no scheduled sweep; crashes, refused and ambiguous triggers; parents that wait for children in the same queue |
| **Human-in-the-loop checkpoints** `lib/workflows/human-in-the-loop/` | checkpoint, pause points and active job in the log row | save, claim, submit, complete a child, reconcile, recover, take back | a child that ends before its parent has saved the checkpoint; two last submissions; a cancellation while a pause is saved |
| **Executor** `executor/` | active path, executed blocks, loop and parallel counters | next layer, run it, activate, iterate, pause, resume | joins, routing and errors inside loops and parallels |
| **Realtime documents** `lib/yjs/server/`, `socket-server/yjs/` | documents in memory, their queues and timers, advisory locks, recorded mutations | upgrade, edit, save, apply a mutation, drain, revoke, shut down | a revocation against admissions; saves against edits; a repeated mutation |
| **Idempotency service and orders** `lib/idempotency/`, `lib/trading/` | one record per key, order-history rows, the broker's book | claim, wait, submit, settle history, store or release | a lost answer from the broker; a crash or failed write after the effect |
| **Copilot usage** `lib/copilot/`, `lib/billing/usage-accrual.ts` | a cached list of reservations, lookup keys, a lock with a lease, the usage ledger, marks of billed completions | reserve, commit, release | read-change-write of one cached value; two stores that cannot be written together |
| **Monitor runtimes** `socket-server/monitor-runtime-lock.ts`, `socket-server/{market,trading}/` | a leased lock, subscriptions, cooldowns | acquire, renew, lose, start, stop, reconcile, fire | two servers that both believe they own the runtime |
| **Execution logs and usage** `lib/logs/execution/` | trace, accounted cost | start, complete, settle usage | cumulative settlement from several places |
| **Threshold billing** `lib/billing/threshold-billing.ts` | billed overage | invoice | an external effect inside a transaction |
| **Execution events** `lib/execution/workflow-execution-events.ts` | numbered events in a bounded buffer | write, read after a number | trimming, expiry, resumption |
| **Gates** `services/queue/ExecutionLimiter.ts`, `lib/execution/*-limit.ts` | window counters | check | the edge of a window |
| **Schedules, webhooks, polling, knowledge, dispatch** `background/`, `lib/webhooks/` | next run, poll cursors | run, settle, deliver | repeated or recovered runs |

How they interact: every execution, whoever starts it, is a row of the **queue**.  A dispatcher claims a row and triggers a Trigger.dev run
named by the row's id; the run executes the **executor**, whose workflow blocks post children back to the queue over
HTTP and poll them, whose trading blocks submit **orders**, and whose log is settled into the **ledger** that
Copilot usage shares.  A pause of the executor turns the run into a **checkpoint**; its continuation is a new row of the queue.  Monitor runtimes
and schedules only enqueue.  The workflows themselves are edited as **realtime documents**, beside the services that change them.

### What makes them correct

* Queue: the concurrency limit holds; an admitted execution is never lost, starts at most once and ends once;
  a free slot is never left beside a waiting row; one ordering key has one active execution.
* Checkpoints: one segment runs at a time, a pause goes on once, after its last answer; the end of a child is never
  missed; a cancelled execution does not pause.
* Executor: exactly the blocks run that the outcomes lead to, once per pass, after their inputs; containers are complete before
  anything behind them starts; an error that does not fail the run is handled.
* Documents: nobody is connected, and nothing is saved, for a user whose access was taken away; an accepted edit gets saved; saved content
  is not overwritten by an older copy; a mutation applies once.
* Orders: one key, one order, one answer; `failed` is written only when nothing was or will be placed.
* Copilot usage: nothing granted is forgotten, grants fit the limit, a completion is billed once, a
  committed reservation is returned whether or not billing worked.

`PROJECT.json` lists the hazards, each at its line, with the properties that would catch them.

### Modules

| component | promise | model | instances | proofs |
|---|---|---|---|---|
| queue | `ExecutionLifecycle` | `PendingExecution` | `PendingExecutionMC` | `PendingExecutionProofs`, `ExecutionLifecycleProofs` |
| checkpoints | `ReviewedExecution` | `Checkpoint` | `CheckpointMC` | `CheckpointProofs` |
| executor | | `Executor` | `ExecutorMC` | `ExecutorProofs` |
| documents | | `RealtimeDocument` | `RealtimeDocumentMC` | `RealtimeDocumentProofs` |
| orders | `OrderPromise` | `TradingOrder` | `TradingOrderMC` | `TradingOrderProofs` |
| copilot usage | | `CopilotUsage` | `CopilotUsageMC` | `CopilotUsageProofs` |

`LeastNumber` has the principle by which the proofs of the last two reason about recursive functions, and that of the queue about the first of the pending rows.

The modules meet where the code does: `Checkpoint` rests on what the queue promises (a pending row is claimed and started
once) and contains the queue operations that look at checkpoints (finalizer, cancellation, settlement of a segment); `Executor` is one segment of
what `Checkpoint` calls a running job.  They are not composed into one state space: the product of the queue's process labels
with either of the others is out of TLC's reach, so each of them contains what it shares with its neighbour.

### Plan

Left to prove: the queue's `NoLostWakeup` where executions have children
(a child takes the slot of its parent, so the count of section 8 would have to be kept for slots and for places beside a parent at once), and what holds of the executor for workflows with joins (section 8).  Left to model, if the project grows: the lease of the monitor runtimes, and usage settlement with threshold billing.

## 2. The queue

`PendingExecution.tla` is one billing scope in Trigger.dev mode.

| variable | code |
|---|---|
| `status`, `before` | `pending_execution.status`; the order of `createdAt` |
| `cancelRequested`, `ownerCompleted` | `cancelRequestedAt`, `ownerCompletedAt` in the payload |
| `log` | `workflow_execution_logs`, from start to `endedAt` |
| `run` | the Trigger.dev run of the idempotency key, which is the row's id |
| `request` | the HTTP POST with which a workflow block queues its child |
| `proc` | the program counter and locals of each API process, supervisor and job |

Each action is one database statement or transaction, or one call to Trigger.dev; between two of them every
other process may act.  `Enqueue` is the transaction of `enqueuePendingExecution` (drop what waited too long, find a
duplicate, an ordering key that is active or a full queue, insert) and hands over to the dispatch; `Claim`, `TakeSnapshot`, `Reconcile`, `CheckReleased`, `Trigger`, `Revert`, `RecheckRow` are
`dispatchPendingExecutions` and what it calls; `ListChildren`, `MarkOwnerCompleted`, `RecheckOwner`,
`Delete` are `settlePendingExecutionOwner`; `Terminalize`, `ListDescendants`, `NextDescendant`, `CancelDescendantRun` the finalizer;
`Cancel…` a user's cancellation; `Outer…` and `Inner…` the supervisor and the bounded job.  Trigger.dev is external: it starts at most one run per idempotency key, may
refuse before admission, may answer ambiguously, and may retry the supervisor.

`ExecutionLifecycle.tla` is what a caller may rely on: unknown, queued, running, one outcome.  `PendingExecution` maps to it with
`phase[e]` read off the log and the row (`Phase`).

| run | instance and faults | shows |
|---|---|---|
| `queue_capacity` | parent, child and a third execution that may be cancelled; one slot; no faults | `TypeOK`, `CapacityRespected`, `NoLostWakeup`, `ParentOutlivesChildren` |
| `queue_faults` | two API processes, two executions, one of which may be cancelled, a queue of one; kills of the job, supervisor crashes, ambiguous triggers, failed finalizers | `RunningHoldsRow`, `RootCapacityRespected`, `ImplementsLifecycle` |
| `queue_admission` | two executions with one key, a queue of one; expiry, resubmission, triggers refused or rejected for good, API crashes, supervisors that give up | `OrderingKeyExclusive` |
| `queue_progress` | parent and child; kills, resubmission; fairness | `EveryExecutionSettles` |

**Bounds.**  `ConcurrencyLimit = 1` makes every slot contended; a limit of two with three executions gives no
new interleaving of a claim.  Where nobody is cancelled while it is claimed one API process is enough: the supervisors and jobs of all executions dispatch, settle
and cancel as well, so an instance with three executions has seven processes.  `queue_faults` has two (interchangeable: `SYMMETRY Clients`), because a cancellation that meets a
dispatcher needs one process for each.  The properties of `queue_capacity` were also checked with two processes on its sub-instances of two executions.  A parent, a child and an unrelated execution are the
smallest family in which a borrowed slot and a stranger compete.  The faults are split over the runs so that each
finishes in minutes, grouped by what they act on.

**Fairness** (`FairSpecInUse`).  A process takes its next step (weak fairness per process): JavaScript code that has been resumed
runs on, and Trigger.dev retries a supervisor.  The POST that queues a child is served in the end (strong: some API process is idle now and then).  `ScopeInUse` says that requests for the scope keep coming,
because recovery "without a scheduled drain" is driven by them (`src/changelog/August-21-2026.md:30`): after a
crash nobody else looks at a row.  Nothing is assumed of kills and crashes except that a started job which is not killed
ends.

**Abstractions.**  All executions have type `workflow`.  One level of nesting.  No checkpoint is saved here (`Checkpoint` has them), so recovery of a
segment answers false.  The descendants of a cancelled execution are cancelled one after the other (five at a time in the code).  A job that sees the cancellation request stops at
once.  Only a user's cancellation may fail in its finalizer.  A worker retries its wake without bound (ten times in the code);
the bound of 20 dispatches per wake cannot be reached with three executions.  An idempotency key of Trigger.dev does not
expire.  A job ends with success only when every child it asked for is gone and was successful; in the code a workflow block that throws, at a timeout
or a failed child (`workflow-handler.ts:242`), may be handled by an error path, so that its parent ends well, possibly beside a live child.

**Known limits**, each found by adding the fault to a run:

* *A refusal after a start.*  With `refused` in `queue_faults`, `ImplementsLifecycle` is violated.  When a trigger is refused
  before admission, `triggerPendingExecution` sets the row back to pending wherever it is still processing (`pending-execution.ts:279`), also when an earlier trigger of
  the row has started its run.  That run finds the row pending, skips it and completes; the next dispatcher
  claims the row, finds its run completed, takes its owner to be finished and deletes it: the execution disappears without a log.  A child may also outlive a parent
  whose row was given back, which is why `CapacityRespected` is claimed without refusals; `RootCapacityRespected` holds with them, as its proof
  shows.  `RunningHoldsRow` fails too: the refusal of one dispatcher gives the row back under the run that another one has started.
* *A cancellation between claim and trigger.*  A user's cancellation marks a row that is claimed and not yet triggered.  Another dispatcher reads the marked row, finds no run and finalizes it
  (`pending-execution.ts:757`); meanwhile the first one triggers and the job starts.  The finalizer ends its log as an error and deletes the row, and from then on the job's poll
  (`isPendingWorkflowExecutionCancellationRequested`, `pending-execution.ts:842`) finds no row and answers false: the job runs to its end, holding no slot, and its outcome is
  discarded because the log has ended.  It takes two API processes and no fault.  Hence "The queue row is the active capacity marker" (`pending-execution.ts:901`) is stated of executions
  whose log has not ended (`RunningHoldsRow`), not of every job.
* *A child of a cancelled parent.*  With the parent in `Cancellable`, `ParentOutlivesChildren` is violated in `queue_capacity`, with one API process or two.  A parent is cancelled while the POST
  of its child is in flight; a dispatcher reconciles the parent's row, lists its children (`pending-execution.ts:848`) and finds none; then the child is inserted and claimed on the slot of its parent; then the
  dispatcher deletes the row of the parent.  The child runs on without a slot of its own.  No instance was found in which the limit is exceeded by it: `CapacityRespected` holds with the parent
  cancelled (2.3 million distinct states with one child, 4.0 million with two).  A parent whose job is killed while that POST is in flight loses its row under the child in the same way, and with two API processes and a
  resubmission so does one whose supervisor gives up, or whose trigger is rejected although an earlier one started its run.  Apart from these it cannot happen (`ParentsOutlive`, section 8).
* *A wake that is never sent.*  `NoLostWakeup` is checked without faults, and proved where nobody has children with those that lose no wake (`WakesArrive`, section 8).  Each of the other six, alone, leaves a
  row waiting beside a free slot, with two executions, two API processes and a limit of one: a row that is given back after a refusal (`refused`); a finalizer of a cancellation that fails, after which the row
  goes back to the queue and nobody is woken for it (`cancelFails`); an ambiguous trigger that meets a cancellation by the second process (`ambiguous`); and an API process that crashes (`clientCrash`), a dispatch that ends at a rejected
  trigger (`rejected`), or a supervisor that gives up (`gaveUp`), each before it has looked for the next row.  The next request for the scope repairs
  all of them; `EveryExecutionSettles` rests on that.
* *A cancellation that answers `not_found`.*  It reads the row as pending, a dispatcher claims it, the second statement (`queued-execution-cancellation.ts:177`) matches
  nothing, and the execution runs on with no request to stop.
* *An expired row that is ended again.*  When a cancellation fails and its row then expires, a reconciliation that read the row earlier can still write an error log for it; no run
  combines the two faults.

## 3. Checkpoints

`Checkpoint.tla` is the log row of each execution (`log`, `checkpoint`, `paused`), the queue rows of its segments (`rows`, `cancelRequested`) and
what every job and cancelling request is doing (`proc`, with the list of the steps it still has to take).  An execution runs in segments, each a row
and a job of its own.  A transaction on the log row holds its row lock and is one action: `Save` (with the check for a cancellation request), `ClaimCheckpoint`,
`SubmitPoint` (with the insertion of the continuation), `Decide` (a cancellation takes the pause back or marks the active continuation), `EndLog`.  The rest of a job is its
steps in the order of the code: reconcile the children of the new pause, settle the row, tell a waiting parent, cancel descendants; its supervisor finalizes
what a killed job left (`Finalize`: a newer checkpoint proves that the segment was over).

`ReviewedExecution.tla` is what the review page shows: each pause has a revision of its own, is answered point by point, the execution goes on once after the last answer,
and a pause that was taken back never goes on.

| run | instance and faults | shows |
|---|---|---|
| `checkpoint_children` | a parent that pauses for its child, which pauses for a reviewer; jobs killed at any step; fairness | `AnsweredIsQueued`, `ImplementsReview`, `ChildEndArrives`, `WithdrawnEnds` |
| `checkpoint_cancellation` | one execution that pauses twice for two reviewers; every job may be killed, supervisors crash, access is lost, the cancellation fails | `TypeOK`, `OneSegmentRuns`, `ImplementsReview`, `NoPauseAfterCancel` |

**Bounds.**  Two revisions, so that an old page and an old row meet a new pause; two points, so that the last answer is not the
first; one child, since children of one parent meet only in the set of points, which two points already exercise.  In `checkpoint_children` the jobs that may be killed are the parent's first segment and those of the
child; a kill of the parent's second segment repeats what `checkpoint_cancellation` does with every segment.

**Fairness.**  A dispatched row, a job and a cancelling request take their next step.  Nothing is assumed of reviewers and users.

**Abstractions.**  The queue is what `ExecutionLifecycle` promises, not `PendingExecution` step by step.  The row of a parent that has ended stays until its children are
gone in the queue module; here a row is deleted at once.  One level of nesting.  A request of a user does not die in the middle of a cancellation: when its
process does, between the transaction that takes the pause back and the one that ends the log, nobody is left to end the execution (a job that cancels
its descendants is retried by its supervisor, which `WithdrawnEnds` checks, so this covers the hazard at `queued-execution-cancellation.ts:139` for jobs and not for requests of users).  Facts that never change back (a log that has ended, a checkpoint that has been
saved) are read in the step that takes the lock.  The check for a saved checkpoint when a job starts never finds one here (rows start once) and is left out.  Usage settlement is not
part of it.

## 4. The executor

`Executor.tla` is `executor/index.ts` with the path tracker, the loop and parallel managers and the flow-control handlers: a run alternates between `ExecuteLayer`
(every block of `NextLayer` runs, each with one of its possible outcomes, and what follows from them is put on the active path) and `Schedule` (loops and
parallels whose pass is over are reset or completed), until nothing is left (`success`), a block fails without an error path, the limit of layers is
reached, a block pauses (`Pause`, then `Resume` with an answer for each point), or the run is cancelled.  `executed`, `path`,
`choice`, `round`, `opened`, `done` are the fields of the execution context.  Virtual blocks of a parallel are pairs of block and iteration.  The
handlers of one layer commute; the order in which their results move the active path does not, and is kept (`LayerOrder`).

`executor` runs nine workflows (`ExecutorMC`), one for each way the blocks of a graph can meet: a join behind a condition beside an approval and an error path;
a router with an error path; a counted loop, one tested at the start around an approval, one tested at the end; a parallel around a condition, an approval and a join;
a loop followed by a parallel joined with a branch beside it; error recovery joined with a branch; a parallel without items.  Every
outcome of every block, every answer, pause and cancellation is tried.  It shows `TypeOK`, `TakenPathsRun`,
`ErrorsAreHandled`, `OncePerPass`, `ContainersFinish`, `EndsByItself`, `WaitsForInputs`.

**Bounds.**  Two or three passes and iterations: the first, the last and one between.  Condition-driven loops stop after `MaxRounds = 6` passes, and the limit of
layers, 500 in the code, is 17: enough for every workflow to end by itself and for a loop without a count to reach it.
No fairness is assumed and no liveness claimed: `EndsByItself` says that every round has something to run, and that the limit ends only runs with a loop that has no count.

**Workflows.**  `WellFormed` says what the editor lets one draw, and the proofs need no more.  `createConnectionEdge` (`canvas/connection-manager.ts:40-104`) refuses a connection into a trigger and one
across the border of a container, except from the start handle of the container to a block in it.  A container inside a container is an error of the
canvas (`workflow-canvas.tsx:303-325`, both files in `widgets/widgets/editor_workflow/components/workflow-editor/`), and triggers are not put into containers (`:1401-1409`).  The number of iterations of a parallel is bounded by `MaxRounds` as well.

**Abstractions.**  No containers inside containers; no disabled blocks, deferred waits, streaming, step-by-step debugging or output selection.  What
blocks hand on is left out, except what routes: an error, the option of a condition, the target of a router, the test of a loop.
The items of a forEach loop are a constant of the workflow.  There are no workflow blocks, which the code counts among the flow-control kinds
(`routing/routing.ts:81-82`; a router that selects one leaves its downstream to the block, `path/path.ts:224`).  An approval asks and is answered; it does not fail, as the handler does when the display data or
the notifications are not valid (`human-in-the-loop-handler.ts:25`, `:42`, `:55`).  A block fails by throwing, with its failure handler in place: an output with an `error` field that was not thrown is not
distinguished, nor is an error that comes before the handler is assigned (`executor/index.ts:1626` to `:1725`, such as inputs that cannot be resolved), which fails the run even where the block has an error path (`:1987`).
`ErrorsAreHandled` is about the errors that reach the handler.

**Known limits.**  The nine workflows avoid, one by one, the following graphs, on which the code does what
the docs do not say; each was found by checking such a workflow.

* *A shared error handler.*  Two blocks in a row have the same error handler; when the second one fails, the handler depends on the first one too, which did not fail,
  so it never runs, and the run succeeds (`ErrorsAreHandled`; set `Workflows <- SharedHandler` in `executor.cfg`).
  `src/apps/docs/content/docs/en/blocks/function.mdx:72` says "Execution errors fail the block and can be handled with an error-path connection."
* *An uneven join.*  A join of a branch of one block with one of three runs before the longer branch has ended, because
  an input that is not yet on the active path does not hold it back (`executor/index.ts:1373`; `WaitsForInputs`, `Workflows <- Uneven`), against
  `src/apps/docs/content/docs/en/execution/basics.mdx:22`.  In the same way a join of the end of a loop with another branch runs before the loop is complete.
* *Nobody runs.*  The error handler of a router never runs.  A join that depends on an error handler and on a block behind a condition, or on the targets of a router that is itself
  behind a condition, may never run.  So may a join of a branch that the
  selected option leads to with another one, when a block of the first fails and its error path leads elsewhere: the rest of that branch stays on the active path and holds the join back, and the run succeeds (`TakenPathsRun`, `Workflows <- HeldBack`).
* *A lost answer.*  An approval joins two branches and asks while one of them is not on the active path yet; in the same layer a block leads to that branch, the head of which can never run, since its other input has failed.
  The run pauses, and the answer resumes it with nothing to run: it succeeds without the approval and what is behind it (`EndsByItself`, `Workflows <- LostAnswer`).
* *Both run.*  Inside a parallel, an error path and the success path of the same block both run.

## 5. Realtime documents

`RealtimeDocument.tla` is one document of the realtime server.  `stored`, `members`, `recorded` are its database; `inst` the documents in memory, each with its queue
of jobs (`mutationQueue`), its queue of saves (`persistenceQueue`), the copy that is being written (`staged`), its timers and whether it is draining; `fence`, `tries`, `drain`
the transaction that takes a user's access away and its drain requests; `opened`, `gone`, `sent`, `posts`, `answer` the clients.  The content of the
document is the set of edits and mutations it holds: what merges is of no interest, what gets lost is.

An action is what the event loop runs between two awaits, or one transaction.  An upgrade or a mutation waits in the queue of the document, is
admitted under a shared lock that is tried and not waited for (`Admit`), has its access checked and the content loaded (`Load`), and is then free of the lock: `Attach` looks again whether the document is
draining.  An edit is queued, its user's access is read (`CheckAccess`), and it is applied if the connection is still there (`ApplyEdit`).  A mutation flushes the saves
before it (`Inspect`), commits the row together with its id (`CommitMutation`) and is then merged into the live document (`FinishMutation`).  A save copies the content, writes it, and counts as unsaved
what came in since (`BeginSave`, `EndSave`).  One that fails is tried again (`SaveFails`); one that is rejected for good, because the content is not valid or the row is gone, drops the unsaved edits, closes the connections and retires the document (`SaveRejected`).  A drain stops admission, closes the connections, waits for the jobs in the queue, flushes and removes the document; one that fails opens it again (`StartDrain`,
`DrainFlush`, `Settled`).  The shutdown drains in the same way and is repeated until it succeeds.

`realtime` has a connection of each of two users, a mutation sent by a service for one of them up to twice, the removal of that user's access with three drain requests, and these faults:
a save that fails, or one that is rejected, beside a crash, a shutdown or a failing commit; both kinds of failure together; three failing saves, so that every drain request may fail; a rejected save beside a drain request and a fence that time out.  It shows `TypeOK`, `RevokedStaysOut`,
`RevokedWritesNothing`, `EditsReachStore`, `SavedEditsKept`, `MutationOnce`.

**Bounds.**  Each connection sends one edit: two edits of different users are enough for one to come in while the copy that contains the other is written.  `MaxPosts = 2` makes one
repetition.  `DrainAttempts = 3` is the number in the code (`lib/yjs/server/snapshot-bridge.ts:33`); a drain that was refused because a save was rejected (a status below 500) is not asked for again, there as in `GiveUp`.  Apart from the three failing saves, each fault happens at most once in a run.  2,070,221 distinct states.

**No fairness, no liveness.**  That a fence comes to an end and that edits settle was checked with fairness on a smaller instance; it is not among the
runs because the instance above is too large for it.

**Abstractions.**  One document and one key for its session and workspace.  Sockets that only read, awareness, pings, manual saves, entity
lists, dashboards (which write several documents in one mutation), and the canonical form in which content is stored are left out.  Deadlines are faults that may
happen at any time.  The access check and the read of the content are one step, since both happen under the shared lock and access changes under the exclusive one.  Messages that arrive
before a connection is admitted are sent right after.  What waits for a promise that has settled goes on before the event loop turns to anything else (`Settling`).

**Known limits**, found with combinations that the run leaves out:

* *A commit whose answer the server does not get* (`CommitMutation` applied, reported as failed).  The live document lacks the mutation, a repetition is answered from the record, and the next
  autosave writes the row without it: `SavedEditsKept` fails.
* *A drain whose fence has given up.*  The first drain request times out, its save fails and opens the document again while the second one is saving; the fence gives up, a client connects and
  edits; the second drain then removes the document with the edit in it (`discardDocument`, `socket-server/yjs/upstream-utils.ts:762`, does not look for new connections): `EditsReachStore`
  fails, and so does `SavedEditsKept` once a newer document has been saved over.  Set `Budgets <- Mistimed` in `realtime.cfg` (`drainTimeout`, `saveFails`, `fenceTimeout`, once each); with the two timeouts but without the failing save,
  and with the failing save and one of them, `EditsReachStore` holds on that instance.  `upstream-utils.test.ts:818`, "flushes accepted updates before an idempotent target drain completes", is about drains that nothing interrupts.
* *A drain request that outlives its attempt.*  The first request times out, its save fails and opens the document again while the second one is saving; a mutation of another user
  joins the queue of the document; the second drain removes the document with the mutation queued.  `acquireDocument` does not look whether its document is still registered, so the mutation
  is admitted on the removed document and commits its content over what a newer document has saved: `SavedEditsKept` fails with `drainTimeout` and `saveFails` alone, when `Users` in `RealtimeDocumentMC` gives
  `service` to `bob`, who stays.  It fails with `fenceTimeout` and `saveFails` alone when, besides, both users leave (`Leaver = {ann, bob}`).  `upstream-utils.test.ts:271`, "reserves caller work before commit and a racing drain", covers one drain.
* *Where the timeouts are checked.*  For these reasons no run has a timeout beside a save that fails and is tried again, and the proofs of section 8 exclude just that (`Unmixed`); with a rejected save both timeouts are in the run.
* *A rejected save.*  A save that is rejected for good (`retryable: false`, `upstream-utils.ts:274-281`) closes the document and drops its unsaved edits by design; `upstream-utils.test.ts:569-605` has a shutdown that goes on after it.
  In the model such edits leave `accepted`, as those of a crashed server do, and `EditsReachStore` says so.

## 6. Orders

`TradingOrder.tla` is `executeWithIdempotency` around `submitTradingOrder`.  `claim` is the record of each key, `pc` the step of each request,
`outcome` what the owner knows, `wire` the broker's side, `history` the order-history row, `answer` the reply.  The broker is
external: it accepts or refuses what it was sent, at any time, and does not deduplicate.  `OrderPromise.tla` is what requests with one key may
rely on; the refinement maps `placed` to what the broker accepted and `settled` to the stored results.

| run | shows |
|---|---|
| `order_retries` | three requests, one key; crashes, failed claims, failed history writes, lost answers, failed releases: `TypeOK`, `FailedMeansNotPlaced`, `NeverResubmitted`, `KeepsPromise` |
| `order_claims` | every fault: `ClaimsEnd`, a claim whose owner died is removed by the cleanup of old keys |
| `order_twice` | a finding: when the result cannot be stored, the `catch` that follows releases a claim whose order was placed, and a retry places another |

Three requests cover an owner, one that waits and one that comes later.  Fairness: a request goes on, the broker decides, the
cleanup (`lib/idempotency/cleanup.ts`) runs.

`ReportsUnknown` says that the adapter of the broker marks a lost answer as unknown.  The Robinhood client does;
`fetchBrokerJson` (`providers/trading/portfolio-utils.ts:144`), which Alpaca and Tradier use, reports a failed request as a definite failure, so with them
a lost answer releases the key although the order may have been placed.  `src/changelog/September-20-2026.md:18` asks for unknown there.  The properties of the
orders are therefore checked and proved for adapters that report it.

Not modelled: validation before the claim, the preview, the layout of results.  The store is one record per key: Redis and the
database differ only when a record expires under a live owner, which takes seven days.

## 7. Copilot usage

`CopilotUsage.tla` is one billing scope with Redis.  `list` is the cached list of reservations, `lookup` the entries by id, `lock` the
scope lock, `usage` and `billed` the ledger, `marked` the completions known to be billed, and `snapshot` what a request has read of the
list.  A reserve prunes, compares and writes; a commit looks for the mark, accrues, marks, and gives the reservation back in its `finally`; a release
finds the scope and gives back.

`copilot_usage` has two reservations that do not fit together, a completion committed twice and a release that names the same
reservation as a commit, with crashes, expiry and failures of billing, marks and unlocking.  It shows `TypeOK`, `NoReservationLost`, `CommitReleases`, `GrantsCovered` (charged usage plus all that is reserved is
within the limit at each grant) and `RebilledOnlyUnmarked`.

The last one states the limit of the design.  A commit that dies or fails between its accrual (database) and its mark (Redis) leaves a billed completion
unmarked, and a repetition bills it again; `completion-usage-billing.ts:160` answers 500 and invites the repetition.  Elsewhere "does not double-bill" is claimed without
this case (`app/api/copilot/usage/route.test.ts:868`, `src/changelog/June-11-2026.md:44`).  The property says that this is the only way.

A lock whose holder died lapses (`LockLapses`).  That it lapses under a living holder (`lockExpires`) is in the model and in no run: the lock lives ten seconds and a holder
may, in principle, take longer.  The proofs name
this assumption (`LockOutlivesHolder`).  Not modelled: the mark of a billed completion lapses after thirty days, after which a repetition would bill again; the mode without Redis (where the lock is granted to everyone), zero-cost completions,
context usage, failing Redis writes in the `finally` block, and workflow executions that charge the same ledger.

## 8. Proofs

The seven `…Proofs.tla` modules hold for every value of the constants that satisfies the named assumptions.  `LeastNumber.tla` states that a set of numbers that is not empty
has a least one; with it a claim about a recursive function is proved by looking at the least number at which it fails.

* `PendingExecutionProofs`: `IInv` adds to `TypeOK` that a process at a label which works on a row has one in hand (`Frames`).
  Types alone do not give it, and without it `EXCEPT ![f.exec]` says nothing.  One lemma per action shows `IInv` kept.  `OrderingKeysExclusive` follows
  because only `Enqueue` adds a row; `RootCapacity` because only `Claim` makes a root processing, and a row claimed by
  a cancellation carries its request; `FlatCapacity` from `RootCapacity` where no execution has a parent.
* `ExecutionLifecycleProofs`: `RunningHolds` under `NothingRefused`, and `LifecycleImplemented`, the refinement of `ExecutionLifecycle`, under `NothingRefused` and `NothingExpires`;
  every other fault, and any number of executions, parents and API processes.  Section 2 says why a refusal breaks both.  An expired row is dropped before it started, which `ExecutionLifecycle` does not allow.
  What a process knows of a row was read some steps ago, so the invariant `Owned` says only things that last:
  a row is `Taken` once a dispatcher claimed it (it stays processing, and no cancellation is about to give it back, until its log ends), `Claimed` once a cancellation did, `Over` once its log has ended.
  `Fits` says of every frame which of these hold of its row, its family and its snapshot: who settles has a row that is over, who triggers has one that is taken.  `Works` and `Ledger` say it of supervisors and jobs, and of runs, logs and finished owners;
  `Alone`, that of two cancellations that hold one row, the first has ended the log.  `Lasting` states that no step undoes any of it, so that a lemma per action only has to look at
  the process that moved.  For the refinement, `Recorded` adds that nobody finalizes a row which was never submitted, and `Effect` classifies what a step does to rows and logs; `PhaseStep` maps each effect to a step of `ExecutionLifecycle` or none.
  TLC checked `Owned`, `Recorded` and both properties first, with every fault except these two: one execution with two API processes (348,438 distinct states), two unrelated executions (1,765,849), a parent and its child that may both be
  cancelled (4,543,812).

  `ParentsOutlive` and `ChildCapacity` (`CapacityRespected` with children) add `ParentsUndisturbed`: no parent is cancelled, and none of `refused`, `rejected`, `gaveUp` and `jobKilled`, the faults by which a parent ends while its job runs.
  Section 2 has a counterexample for each of these conditions.  What remains is that children are cancelled, jobs are killed while they settle, supervisors and API processes crash, answers are lost, rows expire and requests are repeated.
  The invariant `Family` says why that is enough: the POST of a child is in flight only while the job of its parent runs (`Home`), so no log of a parent has ended then, and a frame that is about to delete a row, which by `Owned` has one that ended,
  still finds it without children when it does (`Minds`); the supervisor of a parent takes the job to have failed only when it has (`Tells`).  With that a parent which stops processing has no child on its slot, and only a claim adds to
  the executions that hold one (`SlotsOnlyByClaim`).  TLC checked `Family` and both properties first: parent and child with each fault that is left (up to 307,875 distinct states), with two API processes (76,239), and with a third execution (2,119,316).
  `WakeupsArrive` is `NoLostWakeup` for queues without children (`Flat`) under `WakesArrive`: rows expire, requests are repeated, jobs are killed and supervisors crash and start again; section 2 says what each of the other faults does.
  That a row does not wait beside a free slot is far from inductive: what makes it true is some other process that is on its way to claim, and one that has found the row busy or the scope full may stop there.
  The invariant counts them.  `Looks` says when a process is certain to look: it is about to claim, or it settles a row that is gone by then, or it is a supervisor whose execution is gone and that has yet to dispatch.
  `Watched` says that there are at least as many such processes as pending rows, or as free slots.  A claim takes the first of the pending rows that it may (`Ordered`: the order of the queue is total, so there is one); one that finds none has seen every slot in use, or no row.
  `Attended` has what is known of the frames: a job at work has a supervisor that waits for it (`Waits`), and what a process settles is the row that used the slot (`Tidy`, `Placed`).  `Firm` has what
  every step keeps: what is gone stays gone, and what is held stays held until it is over.  One lemma per action shows how many rows, slots and lookers it adds or takes.  TLC checked `Attended` and `Watched` first: two executions and two API processes without faults
  (1,102,563 distinct states), two executions and one API process with all five faults (554,187), three executions with a limit of two (6,035,184).
* `CheckpointProofs`, without assumptions beyond those on the constants: `TypeCorrect`, `OneSegment`, `AnsweredQueued`, `NoLatePause` and `ReviewImplemented`.
  `OneSegmentRuns` is not inductive, because a frame that is about to touch a row says nothing of the row by itself.  `IInv` has four parts.  `World` ties
  each queue row to the log row of its execution: a row of an older revision is over, a continuation exists only when its pause was answered, and the
  current revision has one exactly while it is claimed or answered.  `Shape` says what the steps a process still has to take may refer to; `Fits`,
  that a job which runs its segment has the revision of the log row; `Sound` and `Exclusive`, that a row is settled only when its segment is over, and that a row
  claimed by a cancellation is in nobody else's hands.  `IInv` was checked by TLC before it was proved, on an instance with a child and on one with two reviewers (71,142 and 290,942 distinct
  states).  For the refinement, `Effect` classifies what a step may do to a log row, and each effect is one move of `ReviewedExecution` or none.  `NoLatePause` follows because only the running job of the
  current revision can save, in the transaction that looks for the request.
* `RealtimeDocumentProofs`: `TypeCorrect` and `CommittedOnce` (`MutationOnce`) without further assumptions, from `Shape`, which adds to the types the order of the two queues of each document: who is served, who
  waits, and which of them holds the shared lock.  `RevokedOut`, `EditsReach`, `OneCommit`, `RevokedNeverWrites` and `SavedKept` under `Unmixed`: either no drain request and no fence times out, or every save that fails is rejected for good.
  Crashes, shutdowns, failing commits, rejected saves and any number of attempts are covered on both sides.  The assumption is sharp in the sense of section 5: one save that fails and is tried again makes `SavedEditsKept` false beside one drain request or one fence that times out, and `EditsReachStore` beside one of each.
  The invariant `Drained` follows an attempt to take access away through its fence.  As long as the fence is held nobody is admitted (`Fenced`), and a document that is closed with something unsaved in it has a drain on its way or a shutdown to repeat (`Queued`).  A document that is drained stays closed until the drain is over, unless one of its saves fails and is tried again: then the drain has failed with it, and where nothing times out the
  next request, or the end of the fence, comes only after that.  Where requests and fences time out no save is tried again, so a drain that outlives its fence still finds its document closed, and removes it.
  `Shape` and `Drained` were checked by TLC first: with one user who loses access completely (2,307,977 distinct states), with two as far as 4.2 million.  The six properties were checked under `Unmixed`, with three drain requests, on two instances beside that of the run: the service of the user who stays (2,094,763), and both users leaving (13,493,337).
* `TradingOrderProofs`: `TypeCorrect` without assumptions; `FailuresAreDefinite` under `ReportsUnknown`; the rest under `Dependable` (adapters report unknown outcomes, results can be stored, records do not expire):
  at most one request owns a key (`IInv`), it is the only one whose order may be on the wire, and what was sent is settled or given up
  before the key is free.  `OrdersNeverResubmitted` and `PromiseKept` — the refinement of `OrderPromise`, step by step — follow.
* `CopilotUsageProofs`, under `LockOutlivesHolder`: a request that works on the list holds the lock (`HoldsLock`), so what it has read is still there except for what
  expired (`ReadsCurrent`); a reservation that is named was answered before (`Told`).  `ReservationsKept`, `ReservationsReturned`,
  `RebillingNeedsALostMark`, and under `MarksWritten` also `CompletionsBilledOnce`.  `GrantsWithinLimit` is about a sum over a set, which the community modules define by taking out one element after the other: `SumDefined` shows that this function
  exists, `ReservedWith` that the order does not matter, `ReservedPart` that a part of a set has no greater sum.  The grant compares the sum over what it has read; what is outstanding afterwards
  is part of that and the new reservation.
* `ExecutorProofs`, for every set of well-formed workflows: `TypeCorrect`, `RunsOncePerPass` and, under `PlainExits`, `ContainersComplete`.  What a layer puts on the active path is a closure over the graph (`Closure`, `Opened`); two lemmas say
  that it stays inside every set that is closed under the steps.  With `WellFormed` this gives the one fact all else rests on: a block inside a container is put on the active path only while the container
  makes a pass, since a container is entered at its start only (`LoopOK` and `ParallelOK`).  The rest of `IInv` ties `runs` and `round` to the pass a loop is in, and virtual blocks to their parallel.
  `ExitOK` adds that what is behind a container has not run before the container is complete.
  `PlainExits` asks that a block behind a container either has no input from a loop or no other input than the end of that container.  Where it fails, `checkDependencies`
  (`executor/index.ts:1261`) applies its rules for inputs from loops to all inputs of the block, and takes the end of a container for met as soon as the container's own block ran: the early join of section 4.
  All nine workflows of `executor` satisfy it.
  `ErrorsHandled`, under `OwnHandlers`: an error path leads to a block that nothing else leads to, in the same container, and a router has none.  A block that failed has its handlers on the active path, or is in a parallel that
  has begun (`ErrorOK`), and a handler there may run, since its one input is met; a run that ends well has nothing left that may run (`Exhaustive`).
  `OnlyTaken`, under `Orderly`: connections keep to their containers, what a loop leads to has no other input, nothing in a parallel and no router has an error path.  Joins are allowed everywhere else.  Its
  invariant `TInv` follows a connection from both ends.  What is on the active path was put there by a connection that was taken or whose source has yet to decide (`ReasonOK`), so that what may run was led to, and a block that has run was led to (`ExecOK`);
  and what a taken connection leads to is on the active path as long as the loops around it make a pass (`PathOK`, `EverOK`).  Within a loop both need that a pass which is over has run all that its own choices led to (`SatedOK`) and that what
  it has run is connected to its start (`GroundedOK`): then the next pass clears all of it.
  `TakenPaths` and `InputsFirst`, under `Orderly` and `Joinless` (no two connections lead into one block): a block on the path that was led to may run (`LedReady`), so none is left when the run ends well; and the one connection into a
  block that ran was taken when it ran, so its source had completed in an earlier layer.  Without `Joinless` both are false: section 4 gives the workflows, a join that is held back for ever and a join that does not wait.
  `EndsAlone`, under `Orderly`, `AskedAlone` (an approval has one input) and `Roomy`, with joins everywhere else: what is asked may run, and still may after what ran beside it (`AskedStays`), so that a resumed run has something to run; and every
  layer takes at least one turn of some block, a run or a question, that was not taken before (`LayerTakes`).  `TurnsOf` is the finite set of the turns that a workflow whose loops are counted can take, and `Roomy` says that it is smaller than the limit of layers:
  the count of the layers never exceeds the cardinality of the turns taken (`TurnsOK`).  Without `AskedAlone` an answer may be lost: section 4.
  All nine workflows of `executor` satisfy `OwnHandlers`, `Orderly`, `AskedAlone` and `Roomy` (17 layers, at most 16 turns), three of them `Joinless`.  `IInv`, `ExitOK` and the three properties were checked by TLC first, on some 450 workflows drawn at random under `WellFormed`; so were the parts of `TInv` and of the invariant of `EndsAlone`, on several hundred more.

Proving changed two models.  `PendingExecution` used to claim that a job which runs holds its row; looking for the invariant of it, with any number of API
processes, brought up the cancellation between claim and trigger of section 2, which an instance with one of them does not show.  And in `ReviewedExecution`, `SUBSET Point \ {{}}` is the subsets of `Point \ {{}}`, so that a pause
without points was allowed; the step that was to show that a pause has one could not be proved.

Only model-checked: liveness (`EveryExecutionSettles`, `ClaimsEnd`, `ChildEndArrives`, `WithdrawnEnds`), because TLAPS has no rules for fairness here;
`NoLostWakeup` where executions have children (`queue_capacity`, with one API process, completely; with two, no violation among the first 9.9 million distinct states, which is not all); and `TakenPathsRun` and `WaitsForInputs`
of the executor for workflows with joins: they hold for the graphs of the run and, as section 4 shows, not for all.

## 9. Not modelled

* Monitor runtimes, threshold billing, schedules: a hazard of each is listed in `PROJECT.json`; none has a model.  The settlement of usage, the event stream and the
  rate limiter are statements of one process or one transaction each, over sums and counters.
* The preparation of a run, knowledge processing and indicator dispatch: sequential, queued like any other execution.  Webhooks and polling: calls to external services.
* The Redis client: what its locks and keys do is part of the modules that use them.
* The user interface and documentation site, the adapters of blocks, tools, models, brokers and market-data providers (request formatting), the database schema and the client
  packages.

These last ones are nearly all of the repository: its 661,763 lines are for the greatest part components of pages, icons, tables of models and blocks, and
request formatting.  The files the models are translated from have some fourteen
thousand lines, of which the map covers two fifths; the share of the whole says little here.
