---------------------- MODULE ExecutionLifecycleProofs ----------------------
(***************************************************************************)
(* The queue implements ExecutionLifecycle where no trigger is refused and *)
(* no row expires, and an execution that runs holds its row where no       *)
(* trigger is refused: for any number of executions, parents and API       *)
(* processes, with every other fault.  Where parents run their course they *)
(* keep their rows as long as their children have any, so the limit holds  *)
(* with children too.  Where nobody has children, no wake is lost.         *)
(*                                                                         *)
(* The invariant follows an execution from the table to the log.  What it  *)
(* says of a row lasts (Lasting), so that what a process has read of it    *)
(* stays true however long the process takes: Fits says this of every      *)
(* frame, Works of supervisors and jobs, Ledger of the stores.             *)
(***************************************************************************)
EXTENDS PendingExecutionProofs, LeastNumber

NothingRefused == "refused" \notin Faults
NothingExpires == "expiry" \notin Faults

Over(e) == log[e] \in Ended

\* Some cancellation has claimed the row and is about to end its log.
Ending(e) == \E p \in Proc : proc[p].pc = "cancelTerminalize" /\ proc[p].exec = e

\* The row was claimed by a dispatcher and stays claimed until the log ends.
Taken(e) == Over(e) \/ (status[e] = "processing" /\ ~Ending(e))

\* The row was claimed by a cancellation.
Claimed(e) == Over(e) \/ (status[e] = "processing" /\ e \in cancelRequested)

\* Labels at which a process is on no descendant of an execution that ended.
Dispatches == {"claim", "claimAgain", "snapshot", "reconcile", "released", "recheckRow",
               "trigger"}

Ruled == {"revert", "list", "mark", "delete", "descendants", "trigger",
          "cancelTerminalize", "cancelRead", "cancelMark"}

FitsFamily(f) ==
    /\ f.family # None /\ f.caller # "cancel" => Over(f.family)
    /\ f.pc \in Dispatches => f.family = None

FitsTodo(f) ==
    \A row \in f.todo : (~row.cancel => Taken(row.id)) /\ (row.done => Over(row.id))

FitsLabel(f) ==
    /\ f.pc # "revert"
    /\ f.pc \in {"list", "mark", "delete"} => Over(f.exec)
    /\ f.pc = "descendants" /\ f.caller # "cancel" => Over(f.exec)
    /\ f.pc = "trigger" => Taken(f.exec)
    /\ f.pc = "cancelTerminalize" => Claimed(f.exec)
    /\ f.pc \in {"cancelRead", "cancelMark"} /\ f.family = None => f.caller = "cancel"

Fits(p) == FitsFamily(proc[p]) /\ FitsTodo(proc[p]) /\ FitsLabel(proc[p])

\* A worker works for a run.  The supervisor of a run that completes and a job
\* that is past its work have an execution that is over.
Starts == {"idle", "innerRead", "innerStart", "innerRun", "failed"}

Works(p) ==
    \A e \in Exec :
        /\ p \in {Outer(e), Inner(e)} /\ proc[p].pc # "idle" => run[e] # "none"
        /\ p = Outer(e) /\ proc[p].goal = "completed" => Over(e)
        /\ p = Outer(e) /\ proc[p].pc = "exit" => proc[p].goal \in {"completed", "failed"}
        /\ p = Inner(e) /\ proc[p].pc = "innerRun" => log[e] # "none"
        /\ p = Inner(e) /\ proc[p].pc \notin Starts => Over(e)

Ledger(e) ==
    /\ run[e] # "none" \/ log[e] # "none" => Taken(e)
    /\ run[e] = "COMPLETED" \/ e \in ownerCompleted => Over(e)

\* Two cancellations that have claimed one row: the first has ended the log.
Alone ==
    \A p, q \in Proc :
        p # q /\ proc[p].pc = "cancelTerminalize" /\ proc[q].pc = "cancelTerminalize"
              /\ proc[p].exec = proc[q].exec => Over(proc[p].exec)

Fit(p) == Fits(p) /\ Works(p)

Owned ==
    /\ \A p \in Proc : Fit(p)
    /\ \A e \in Exec : Ledger(e)
    /\ Alone

-----------------------------------------------------------------------------
(* What lasts.                                                              *)

\* What the invariant says of an execution is not undone by a step.
Lasting ==
    /\ \A e \in Exec : /\ Over(e) => Over(e)'
                       /\ Taken(e) => Taken(e)'
                       /\ log[e] # "none" => log'[e] # "none"
                       /\ run[e] # "none" => run'[e] # "none"
    /\ \A q \in Proc : proc'[q] = proc[q] /\ proc[q].pc = "cancelTerminalize" =>
          Claimed(proc[q].exec)'

\* A frame that continues another one: it takes over what is known of the
\* family and of the snapshot, and is not the frame of a job that starts.
Carries(f, g) ==
    /\ g.todo \subseteq f.todo
    /\ g.family = None \/ (g.family = f.family /\ g.caller = f.caller)
    /\ g.pc \in Dispatches => g.family = None
    /\ g.goal = "completed" => f.goal = "completed"
    /\ g.pc = "exit" => g.goal \in {"completed", "failed"}
    /\ g.pc \notin {"innerRead", "innerStart", "innerRun"}

LEMMA FrameFacts ==
    ASSUME NEW f \in Frames
    PROVE  /\ f.pc \in WithRow => f.exec \in Exec
           /\ f.pc \in Ruled => f.exec \in Exec
           /\ f.family # None => f.family \in Exec
           /\ \A row \in f.todo : row.id \in Exec /\ row.owner \in Exec
  <1>1. Ruled \subseteq WithRow
    BY DEF Ruled, WithRow
  <1>2. f.pc \in WithRow => f.exec \in Exec
    BY DEF Frames, Complete
  <1>3. f.family \in Exec \cup {None} /\ f.todo \subseteq Snapshot
    BY DEF Frames, Frame
  <1> QED
    BY <1>1, <1>2, <1>3 DEF Snapshot

LEMMA LogFacts ==
    ASSUME IInv, NEW e \in Exec
    PROVE  /\ log[e] \in {"none", "running", "success", "error"}
           /\ Over(e) <=> log[e] \in {"success", "error"}
           /\ status[e] \in {"absent", "pending", "processing"}
           /\ run[e] \in {"none", "active", "COMPLETED", "FAILED", "CANCELED"}
  BY Parts DEF TableOK, RestOK, Over, Ended, TerminalRun

LEMMA ProcFacts ==
    ASSUME IInv
    PROVE  /\ \A p \in Proc : proc[p] \in Frames
           /\ proc = [p \in Proc |-> proc[p]]
           /\ \A e \in Exec : Outer(e) \in Proc /\ Inner(e) \in Proc /\ Outer(e) # Inner(e)
  <1>1. proc \in [Proc -> Frames]
    BY Parts DEF ProcOK
  <1>2. \A e \in Exec : Outer(e) \in Proc /\ Inner(e) \in Proc /\ Outer(e) # Inner(e)
    BY DEF Proc, Worker, Outer, Inner
  <1> QED
    BY <1>1, <1>2

\* What a frame relies on lasts, so a label that was right stays right.
LEMMA LabelLasts ==
    ASSUME Lasting, NEW g \in Frames, FitsLabel(g), g.pc # "cancelTerminalize"
    PROVE  FitsLabel(g)'
  <1>1. g.pc \in Ruled => g.exec \in Exec
    BY FrameFacts
  <1>2. g.pc \in {"list", "mark", "delete", "descendants", "trigger"} => g.pc \in Ruled
    BY DEF Ruled
  <1>3. g.pc \in {"list", "mark", "delete"} => Over(g.exec)'
    BY <1>1, <1>2 DEF Lasting, FitsLabel
  <1>4. g.pc = "descendants" /\ g.caller # "cancel" => Over(g.exec)'
    BY <1>1, <1>2 DEF Lasting, FitsLabel
  <1>5. g.pc = "trigger" => Taken(g.exec)'
    BY <1>1, <1>2 DEF Lasting, FitsLabel
  <1> QED
    BY <1>3, <1>4, <1>5 DEF FitsLabel

LEMMA TodoLasts ==
    ASSUME Lasting, NEW f \in Frames, FitsTodo(f), NEW g, g.todo \subseteq f.todo
    PROVE  FitsTodo(g)'
  <1>1. \A row \in f.todo : row.id \in Exec
    BY FrameFacts
  <1> QED
    BY <1>1 DEF Lasting, FitsTodo

LEMMA FamilyLasts ==
    ASSUME Lasting, NEW f \in Frames, FitsFamily(f), NEW g,
           g.family = None \/ (g.family = f.family /\ g.caller = f.caller),
           g.pc \in Dispatches => g.family = None
    PROVE  FitsFamily(g)'
  <1>1. f.family # None => f.family \in Exec
    BY FrameFacts
  <1>2. g.family # None /\ g.caller # "cancel" => Over(g.family)'
    BY <1>1 DEF Lasting, FitsFamily
  <1> QED
    BY <1>2 DEF FitsFamily

\* A process that takes no step knows what it knew.
LEMMA Stays ==
    ASSUME IInv, Owned, Lasting, NEW q \in Proc, proc'[q] = proc[q]
    PROVE  Fit(q)'
  <1> PICK f : f = proc[q]
    OBVIOUS
  <1>1. f \in Frames /\ proc'[q] = f
    BY ProcFacts
  <1>2. FitsFamily(f) /\ FitsTodo(f) /\ FitsLabel(f) /\ Works(q)
    BY DEF Owned, Fit, Fits
  <1>3. FitsFamily(f)'
    BY <1>1, <1>2, FamilyLasts DEF FitsFamily
  <1>4. FitsTodo(f)'
    BY <1>1, <1>2, TodoLasts
  <1>5. FitsLabel(f)'
    <2>1. CASE f.pc = "cancelTerminalize"
      BY <1>1, <2>1 DEF Lasting, FitsLabel
    <2>2. CASE f.pc # "cancelTerminalize"
      BY <1>1, <1>2, <2>2, LabelLasts
    <2> QED
      BY <2>1, <2>2
  <1>6. Works(q)'
    BY <1>1, <1>2 DEF Works, Lasting
  <1> QED
    BY <1>1, <1>3, <1>4, <1>5, <1>6 DEF Fit, Fits

\* A process that has nothing in hand.
LEMMA Rests ==
    ASSUME NEW q \in Proc, proc'[q] = Idle
    PROVE  Fit(q)'
  <1> PICK g : g = Idle
    OBVIOUS
  <1>1. /\ g.pc = "idle" /\ g.exec = None /\ g.caller = "none" /\ g.goal = "none"
        /\ g.todo = {} /\ g.family = None
    BY DEF Idle
  <1>2. FitsFamily(g)' /\ FitsTodo(g)' /\ FitsLabel(g)'
    BY <1>1 DEF FitsFamily, FitsTodo, FitsLabel, Dispatches
  <1>3. Works(q)'
    BY <1>1 DEF Works, Starts
  <1> QED
    BY <1>2, <1>3 DEF Fit, Fits

\* A process of the queue goes on: it works for the same run.
LEMMA WorksOn ==
    ASSUME Owned, Lasting, NEW p \in Proc, proc[p].pc \notin Starts,
           proc'[p].goal = "completed" => proc[p].goal = "completed",
           proc'[p].pc = "exit" => proc'[p].goal \in {"completed", "failed"},
           proc'[p].pc \notin {"innerRead", "innerStart", "innerRun"}
    PROVE  Works(p)'
  <1>1. Works(p) /\ proc[p].pc # "idle"
    BY DEF Owned, Fit, Starts
  <1>2. ASSUME NEW e \in Exec
        PROVE  /\ p \in {Outer(e), Inner(e)} => run'[e] # "none"
               /\ p = Outer(e) /\ proc'[p].goal = "completed" => Over(e)'
               /\ p = Inner(e) => Over(e)'
    BY <1>1 DEF Works, Lasting
  <1> QED
    BY <1>2 DEF Works

LEMMA Moved ==
    ASSUME IInv, Owned, Lasting, NEW p \in Proc, proc[p].pc \notin Starts,
           NEW g, proc'[p] = g, Carries(proc[p], g), FitsLabel(g)'
    PROVE  Fit(p)'
  <1> PICK f : f = proc[p]
    OBVIOUS
  <1>1. f \in Frames /\ FitsFamily(f) /\ FitsTodo(f)
    BY ProcFacts DEF Owned, Fit, Fits
  <1>2. FitsFamily(g)'
    BY <1>1, FamilyLasts DEF Carries
  <1>3. FitsTodo(g)'
    BY <1>1, TodoLasts DEF Carries
  <1>4. Works(p)'
    BY WorksOn DEF Carries
  <1> QED
    BY <1>2, <1>3, <1>4 DEF Fit, Fits

-----------------------------------------------------------------------------
(* Steps in general.                                                        *)

\* A step that gives back no row and lets no process claim one for cancelling.
LEMMA SameTableLasts ==
    ASSUME IInv, Owned, status' = status, cancelRequested \subseteq cancelRequested',
           \A e \in Exec : log'[e] = log[e] \/ log'[e] \in Ended \/ log[e] = "none",
           \A e \in Exec : run[e] # "none" => run'[e] # "none",
           \A q \in Proc : proc'[q].pc = "cancelTerminalize" => proc'[q] = proc[q]
    PROVE  Lasting /\ Alone'
  <1>1. ASSUME NEW e \in Exec
        PROVE  /\ Over(e) => Over(e)'
               /\ log[e] # "none" => log'[e] # "none"
    BY LogFacts DEF Over, Ended
  <1>2. ASSUME NEW e \in Exec
        PROVE  Ending(e)' => Ending(e)
    BY DEF Ending
  <1>3. ASSUME NEW e \in Exec
        PROVE  Taken(e) => Taken(e)'
    BY <1>1, <1>2 DEF Taken
  <1>4. ASSUME NEW q \in Proc, proc'[q] = proc[q], proc[q].pc = "cancelTerminalize"
        PROVE  Claimed(proc[q].exec)'
    <2> PICK e : e = proc[q].exec
      OBVIOUS
    <2>1. e \in Exec
      BY <1>4, ProcFacts, FrameFacts DEF Ruled
    <2>2. Claimed(e)
      BY <1>4 DEF Owned, Fit, Fits, FitsLabel
    <2>3. Claimed(e)'
      BY <1>1, <2>1, <2>2 DEF Claimed
    <2> QED
      BY <1>4, <2>3
  <1>5. Lasting
    BY <1>1, <1>3, <1>4 DEF Lasting
  <1>6. ASSUME NEW p \in Proc, NEW q \in Proc, p # q,
               proc'[p].pc = "cancelTerminalize", proc'[q].pc = "cancelTerminalize",
               proc'[p].exec = proc'[q].exec
        PROVE  Over(proc[p].exec)'
    <2> PICK e : e = proc[p].exec
      OBVIOUS
    <2>1. proc'[p] = proc[p] /\ proc'[q] = proc[q]
      BY <1>6
    <2>2. e \in Exec
      BY <1>6, <2>1, ProcFacts, FrameFacts DEF Ruled
    <2>3. Over(e)
      BY <1>6, <2>1 DEF Owned, Alone
    <2>4. Over(e)'
      BY <1>1, <2>2, <2>3
    <2> QED
      BY <2>1, <2>4
  <1> QED
    BY <1>5, <1>6 DEF Alone

LEMMA LedgersKept ==
    ASSUME Owned, Lasting,
           \A e \in Exec : \/ run'[e] = run[e]
                           \/ Taken(e)' /\ (run'[e] = "COMPLETED" => Over(e)'),
           \A e \in Exec : log'[e] = log[e] \/ Taken(e)',
           \A e \in Exec : e \in ownerCompleted' => e \in ownerCompleted \/ Over(e)'
    PROVE  \A e \in Exec : Ledger(e)'
  <1> SUFFICES ASSUME NEW e \in Exec
               PROVE  Ledger(e)'
    OBVIOUS
  <1>1. Ledger(e)
    BY DEF Owned
  <1>2. run'[e] # "none" \/ log'[e] # "none" => Taken(e)'
    BY <1>1 DEF Ledger, Lasting
  <1>3. run'[e] = "COMPLETED" => Over(e)'
    BY <1>1 DEF Ledger, Lasting
  <1>4. e \in ownerCompleted' => Over(e)'
    BY <1>1 DEF Ledger, Lasting
  <1> QED
    BY <1>2, <1>3, <1>4 DEF Ledger

LEMMA OwnedNext ==
    ASSUME IInv, Owned, Lasting, \A q \in Proc : proc'[q] = proc[q] \/ Fit(q)',
           \A e \in Exec : Ledger(e)', Alone'
    PROVE  Owned'
  BY Stays DEF Owned

\* One process goes on, writes an end into a log perhaps, and leaves the rows.
LEMMA Goes ==
    ASSUME IInv, Owned, NEW p \in Proc, NEW g, Become(p, g), proc[p].pc \notin Starts,
           status' = status, cancelRequested \subseteq cancelRequested', run' = run,
           \A e \in Exec : log'[e] = log[e] \/ log'[e] \in Ended,
           \A e \in Exec : e \in ownerCompleted' => e \in ownerCompleted \/ Over(e)',
           g.pc # "cancelTerminalize", Carries(proc[p], g), FitsLabel(g)'
    PROVE  Owned'
  <1>1. proc'[p] = g /\ \A q \in Proc : q # p => proc'[q] = proc[q]
    BY ProcFacts DEF Become
  <1>2. Lasting /\ Alone'
    BY <1>1, SameTableLasts
  <1>3. Fit(p)'
    BY <1>1, <1>2, Moved
  <1>4. ASSUME NEW e \in Exec
        PROVE  log'[e] = log[e] \/ Taken(e)'
    BY DEF Taken, Over
  <1>5. \A e \in Exec : Ledger(e)'
    BY <1>2, <1>4, LedgersKept
  <1> QED
    BY <1>1, <1>2, <1>3, <1>5, OwnedNext

\* One process goes on and leaves everything else.
LEMMA GoesOn ==
    ASSUME IInv, IInv', Owned, NEW p \in Proc, NEW g, Become(p, g),
           proc[p].pc \notin Starts, UNCHANGED <<table, log, run>>,
           g.pc # "cancelTerminalize", Carries(proc[p], g), FitsLabel(g)
    PROVE  Owned'
  <1>1. proc'[p] = g /\ \A q \in Proc : q # p => proc'[q] = proc[q]
    BY ProcFacts DEF Become
  <1>2. /\ status' = status /\ cancelRequested' = cancelRequested
        /\ ownerCompleted' = ownerCompleted /\ log' = log /\ run' = run
    BY DEF table
  <1>3. Lasting
    BY <1>1, <1>2, SameTableLasts
  <1>4. g \in Frames
    BY <1>1 DEF IInv
  <1>5. FitsLabel(g)'
    BY <1>3, <1>4, LabelLasts
  <1> QED
    BY <1>2, <1>5, Goes

\* A run is canceled while its supervisor and its job are stopped.
LEMMA Interrupts ==
    ASSUME IInv, Owned, NEW p \in Proc, NEW e \in Exec, NEW g,
           proc' = [proc EXCEPT ![p] = g, ![Outer(e)] = Idle, ![Inner(e)] = Idle],
           run' = [run EXCEPT ![e] = "CANCELED"], run[e] # "none",
           UNCHANGED table, \A d \in Exec : log'[d] = log[d] \/ log'[d] \in Ended,
           proc[p].pc \notin Starts, g.pc # "cancelTerminalize",
           Carries(proc[p], g), FitsLabel(g)'
    PROVE  Owned'
  <1>1. ASSUME NEW q \in Proc
        PROVE  proc'[q] = proc[q] \/ proc'[q] = Idle \/ (q = p /\ proc'[q] = g)
    BY ProcFacts
  <1>2. Idle.pc # "cancelTerminalize"
    BY DEF Idle
  <1>3. /\ status' = status /\ cancelRequested' = cancelRequested
        /\ ownerCompleted' = ownerCompleted
    BY DEF table
  <1>4. run \in [Exec -> {"none", "active"} \cup TerminalRun]
    BY Parts DEF RestOK
  <1>5. \A d \in Exec : run[d] # "none" => run'[d] # "none"
    BY <1>4
  <1>6. \A q \in Proc : proc'[q].pc = "cancelTerminalize" => proc'[q] = proc[q]
    BY <1>1, <1>2
  <1>7. Lasting /\ Alone'
    BY <1>3, <1>5, <1>6, SameTableLasts
  <1>8. ASSUME NEW q \in Proc
        PROVE  proc'[q] = proc[q] \/ Fit(q)'
    BY <1>1, <1>7, Rests, Moved
  <1>9. ASSUME NEW d \in Exec
        PROVE  run'[d] = run[d] \/ (Taken(d)' /\ (run'[d] = "COMPLETED" => Over(d)'))
    <2>1. Taken(e)'
      BY <1>7 DEF Owned, Ledger, Lasting
    <2> QED
      BY <1>4, <2>1
  <1>10. \A d \in Exec : log'[d] = log[d] \/ Taken(d)'
    BY DEF Taken, Over
  <1>11. \A d \in Exec : Ledger(d)'
    BY <1>3, <1>7, <1>9, <1>10, LedgersKept
  <1> QED
    BY <1>7, <1>8, <1>11, OwnedNext

LEMMA Unruled ==
    ASSUME NEW g, g.pc \notin Ruled
    PROVE  FitsLabel(g) /\ FitsLabel(g)' /\ g.pc # "cancelTerminalize"
  BY DEF FitsLabel, Ruled

-----------------------------------------------------------------------------
(* What a process goes on to.                                               *)

LEMMA NewFrames ==
    ASSUME NEW f
    PROVE  /\ Carries(f, Idle) /\ Idle.pc \notin Ruled
           /\ \A l \in {"claim", "claimAgain"} :
                 Carries(f, Again(f, l)) /\ Again(f, l).pc \notin Ruled
           /\ \A goal : goal # "completed" =>
                 Carries(f, Dispatching(goal)) /\ Dispatching(goal).pc \notin Ruled
           /\ Carries(f, Starting("ok")) /\ Starting("ok").pc \notin Ruled
  BY DEF Carries, Ruled, Dispatches, Idle, Again, On, Dispatching, Starting

LEMMA AfterDispatch ==
    ASSUME NEW f
    PROVE  /\ Carries(f, Dispatched(f)) /\ Dispatched(f).pc \notin Ruled
           /\ Carries(f, Thrown(f)) /\ Thrown(f).pc \notin Ruled
           /\ Carries(f, Reconciled(f)) /\ Reconciled(f).pc \notin Ruled
  BY NewFrames DEF Dispatched, Thrown, Reconciled

-----------------------------------------------------------------------------
(* Dispatch.                                                                *)

\* A step on rows of which none is taken from a dispatcher, by a process that
\* alone may have claimed a waiting row to end it.
LEMMA RowsLast ==
    ASSUME IInv, Owned, NEW p \in Proc, log' = log, run' = run,
           \A q \in Proc : q # p => proc'[q] = proc[q],
           proc'[p].pc = "cancelTerminalize" => /\ proc'[p].exec \in Exec
                                                /\ status[proc'[p].exec] = "pending"
                                                /\ proc'[p] # proc[p],
           \A e \in Exec : ~Over(e) /\ status[e] = "processing" =>
              status'[e] = "processing" /\ (e \in cancelRequested => e \in cancelRequested')
    PROVE  Lasting /\ Alone'
  <1>1. \A e \in Exec : Over(e)' <=> Over(e)
    BY DEF Over
  <1>2. ASSUME NEW e \in Exec, Taken(e), ~Over(e)
        PROVE  Taken(e)'
    <2>1. status[e] = "processing" /\ ~Ending(e)
      BY <1>2 DEF Taken
    <2>2. ~Ending(e)'
      <3> SUFFICES ASSUME NEW q \in Proc, proc'[q].pc = "cancelTerminalize",
                          proc'[q].exec = e
                   PROVE  FALSE
        BY DEF Ending
      <3> QED
        BY <2>1 DEF Ending
    <2> QED
      BY <1>2, <2>1, <2>2 DEF Taken
  <1>3. ASSUME NEW q \in Proc, proc[q].pc = "cancelTerminalize"
        PROVE  proc[q].exec \in Exec /\ Claimed(proc[q].exec)
    BY <1>3, ProcFacts, FrameFacts DEF Ruled, Owned, Fit, Fits, FitsLabel
  <1>4. ASSUME NEW q \in Proc, proc'[q] = proc[q], proc[q].pc = "cancelTerminalize"
        PROVE  Claimed(proc[q].exec)'
    <2> PICK e : e = proc[q].exec
      OBVIOUS
    <2>1. e \in Exec /\ Claimed(e)
      BY <1>3, <1>4
    <2>2. Claimed(e)'
      BY <1>1, <2>1 DEF Claimed
    <2> QED
      BY <1>4, <2>2
  <1>5. Lasting
    BY <1>1, <1>2, <1>4 DEF Lasting, Taken
  <1>6. ASSUME NEW q \in Proc, NEW r \in Proc, q # r,
               proc'[q].pc = "cancelTerminalize", proc'[r].pc = "cancelTerminalize",
               proc'[q].exec = proc'[r].exec
        PROVE  Over(proc'[q].exec)
    <2>1. CASE q # p /\ r # p
      BY <1>6, <2>1 DEF Owned, Alone
    <2>2. CASE q = p
      <3>1. Claimed(proc'[r].exec) /\ status[proc'[r].exec] = "pending"
        BY <1>3, <1>6, <2>2
      <3> QED
        BY <1>6, <3>1 DEF Claimed
    <2>3. CASE r = p
      <3>1. Claimed(proc'[q].exec) /\ status[proc'[q].exec] = "pending"
        BY <1>3, <1>6, <2>3
      <3> QED
        BY <3>1 DEF Claimed
    <2> QED
      BY <2>1, <2>2, <2>3
  <1>7. Alone'
    <2>1. ASSUME NEW q \in Proc, NEW r \in Proc, q # r,
                 proc'[q].pc = "cancelTerminalize", proc'[r].pc = "cancelTerminalize",
                 proc'[q].exec = proc'[r].exec
          PROVE  Over(proc[q].exec)'
      BY <1>6, <2>1 DEF Over
    <2> QED
      BY <2>1 DEF Alone
  <1> QED
    BY <1>5, <1>7

\* A row that is processing was claimed by a dispatcher, unless it says that it
\* was cancelled.
LEMMA ReadRow ==
    ASSUME IInv, Owned, NEW e \in Exec, status[e] = "processing"
    PROVE  /\ e \notin cancelRequested => Taken(e)
           /\ e \in ownerCompleted => Over(e)
  <1>1. ASSUME e \notin cancelRequested, Ending(e)
        PROVE  Over(e)
    BY <1>1 DEF Ending, Owned, Fit, Fits, FitsLabel, Claimed
  <1> QED
    BY <1>1 DEF Taken, Owned, Ledger

LEMMA ClaimOwned ==
    ASSUME IInv, IInv', Owned, NEW p \in Proc, Claim(p)
    PROVE  Owned'
  <1> PICK f : f = proc[p]
    OBVIOUS
  <1>1. /\ f \in Frames /\ f.pc \in {"claim", "claimAgain"} /\ f.pc \notin Starts
        /\ f.family = None
    BY ProcFacts DEF Claim, Starts, Owned, Fit, Fits, FitsFamily, Dispatches
  <1>2. UNCHANGED <<cancelRequested, log, run>>
    BY DEF Claim
  <1>3. CASE \E e \in Exec :
                /\ Candidate(e)
                /\ SetStatus(e, "processing")
                /\ Become(p, [f EXCEPT !.pc = "trigger", !.exec = e,
                                       !.caller = "dispatch", !.owner = e])
    <2> PICK e \in Exec : /\ Candidate(e)
                          /\ SetStatus(e, "processing")
                          /\ Become(p, [f EXCEPT !.pc = "trigger", !.exec = e,
                                                 !.caller = "dispatch", !.owner = e])
      BY <1>3
    <2> PICK g : g = [f EXCEPT !.pc = "trigger", !.exec = e, !.caller = "dispatch", !.owner = e]
      OBVIOUS
    <2>1. g.pc = "trigger" /\ g.exec = e /\ Carries(f, g)
      BY <1>1 DEF Frames, Frame, Carries
    <2>2. proc'[p] = g /\ \A q \in Proc : q # p => proc'[q] = proc[q]
      BY ProcFacts DEF Become
    <2>3. /\ status[e] = "pending" /\ status' = [status EXCEPT ![e] = "processing"]
          /\ ownerCompleted' = ownerCompleted
      BY DEF Candidate, Pending, SetStatus
    <2>4. status \in [Exec -> {"absent", "pending", "processing"}]
      BY Parts DEF TableOK
    <2>5. Lasting /\ Alone'
      <3>1. \A d \in Exec : status[d] = "processing" => status'[d] = "processing"
        BY <2>3, <2>4
      <3> QED
        BY <1>2, <2>1, <2>2, <3>1, RowsLast
    <2>6. Taken(e)'
      <3>1. ASSUME Ending(e)'
            PROVE  Over(e)
        <4>1. PICK q \in Proc : proc'[q].pc = "cancelTerminalize" /\ proc'[q].exec = e
          BY <3>1 DEF Ending
        <4>2. Claimed(e)
          BY <2>1, <2>2, <4>1 DEF Owned, Fit, Fits, FitsLabel
        <4> QED
          BY <2>3, <4>2 DEF Claimed
      <3>2. status'[e] = "processing"
        BY <2>3, <2>4
      <3> QED
        BY <2>5, <3>1, <3>2 DEF Taken, Lasting
    <2>7. FitsLabel(g)'
      BY <2>1, <2>6 DEF FitsLabel
    <2>8. Fit(p)'
      BY <1>1, <2>1, <2>2, <2>5, <2>7, Moved
    <2>9. \A d \in Exec : Ledger(d)'
      BY <1>2, <2>3, <2>5, LedgersKept
    <2> QED
      BY <2>2, <2>5, <2>8, <2>9, OwnedNext
  <1>4. CASE /\ Become(p, IF f.pc = "claim" THEN To(f, "snapshot") ELSE Drained(f))
             /\ UNCHANGED <<status, before, ownerCompleted>>
    <2>1. UNCHANGED <<table, log, run>>
      BY <1>2, <1>4 DEF table
    <2> PICK g : g = IF f.pc = "claim" THEN To(f, "snapshot") ELSE Drained(f)
      OBVIOUS
    <2>2. Carries(f, g) /\ g.pc \notin Ruled
      <3>1. Carries(f, To(f, "snapshot")) /\ To(f, "snapshot").pc \notin Ruled
        BY <1>1 DEF Carries, To, Frames, Frame, Ruled
      <3>2. Carries(f, Drained(f)) /\ Drained(f).pc \notin Ruled
        BY <1>1, NewFrames DEF Drained, Carries, To, On, Idle, Frames, Frame, Ruled, Dispatches
      <3> QED
        BY <3>1, <3>2
    <2> QED
      BY <1>1, <1>4, <2>1, <2>2, Unruled, GoesOn
  <1> QED
    BY <1>3, <1>4 DEF Claim

LEMMA TakeSnapshotOwned ==
    ASSUME IInv, IInv', Owned, NEW p \in Proc, TakeSnapshot(p)
    PROVE  Owned'
  <1> PICK f : f = proc[p]
    OBVIOUS
  <1>1. /\ f \in Frames /\ f.pc = "snapshot" /\ f.pc \notin Starts /\ f.family = None
    BY ProcFacts DEF TakeSnapshot, Starts, Owned, Fit, Fits, FitsFamily, Dispatches
  <1>2. PICK g : /\ Become(p, g) /\ g.pc = "reconcile" /\ g.family = None /\ g.goal = f.goal
                 /\ \A row \in g.todo : \E e \in Processing :
                       /\ row.id = e /\ row.cancel = (e \in cancelRequested)
                       /\ row.done = (e \in ownerCompleted)
    <2> DEFINE rowOf(e) == [id |-> e, cancel |-> e \in cancelRequested,
                            done |-> e \in ownerCompleted,
                            owner |-> IF Borrows(e) THEN Parent[e] ELSE e,
                            earlier |-> IF e = f.exec THEN {}
                                        ELSE (before[e] \cup {f.exec}) \cap Processing]
    <2> PICK g : g = [f EXCEPT !.pc = "reconcile", !.exec = None,
                               !.todo = {rowOf(e) : e \in Processing}]
      OBVIOUS
    <2>1. Become(p, g)
      BY DEF TakeSnapshot
    <2>2. /\ g.pc = "reconcile" /\ g.family = None /\ g.goal = f.goal
          /\ g.todo = {rowOf(e) : e \in Processing}
      <3> HIDE DEF rowOf
      <3> QED
        BY <1>1 DEF Frames, Frame
    <2>3. \A e \in Processing : /\ rowOf(e).id = e
                               /\ rowOf(e).cancel = (e \in cancelRequested)
                               /\ rowOf(e).done = (e \in ownerCompleted)
      OBVIOUS
    <2>4. \A row \in g.todo : \E e \in Processing :
             /\ row.id = e /\ row.cancel = (e \in cancelRequested)
             /\ row.done = (e \in ownerCompleted)
      <3> HIDE DEF rowOf
      <3> QED
        BY <2>2, <2>3
    <2> HIDE DEF rowOf
    <2> QED
      BY <2>1, <2>2, <2>4
  <1>3. UNCHANGED <<table, log, run>>
    BY DEF TakeSnapshot
  <1>4. proc'[p] = g /\ \A q \in Proc : q # p => proc'[q] = proc[q]
    BY <1>2, ProcFacts DEF Become
  <1>5. Lasting /\ Alone'
    BY <1>2, <1>3, <1>4, SameTableLasts DEF table
  <1>6. FitsTodo(g)'
    <2> SUFFICES ASSUME NEW row \in g.todo
                 PROVE  (~row.cancel => Taken(row.id)') /\ (row.done => Over(row.id)')
      BY DEF FitsTodo
    <2>1. PICK e \in Processing : /\ row.id = e /\ row.cancel = (e \in cancelRequested)
                                  /\ row.done = (e \in ownerCompleted)
      BY <1>2
    <2>2. e \in Exec /\ status[e] = "processing"
      BY DEF Processing
    <2>3. (~row.cancel => Taken(e)) /\ (row.done => Over(e))
      BY <2>1, <2>2, ReadRow
    <2> QED
      BY <1>5, <2>1, <2>2, <2>3 DEF Lasting
  <1>7. Fit(p)'
    <2>1. FitsFamily(g)' /\ FitsLabel(g)'
      BY <1>2 DEF FitsFamily, FitsLabel
    <2>2. Works(p)'
      BY <1>1, <1>2, <1>4, <1>5, WorksOn
    <2> QED
      BY <1>4, <1>6, <2>1, <2>2 DEF Fit, Fits
  <1>8. \A e \in Exec : Ledger(e)'
    BY <1>3, <1>5, LedgersKept DEF table
  <1> QED
    BY <1>4, <1>5, <1>7, <1>8, OwnedNext

\* What a process has read of a row decides; what it has read still holds.
LEMMA ReconcileRowOwned ==
    ASSUME IInv, IInv', Owned, NEW p \in Proc, NEW h \in Frame, NEW row, NEW n,
           proc[p].pc \notin Starts, Carries(proc[p], h), h.pc \in Dispatches,
           Carries(proc[p], n), n.pc \notin Ruled,
           row.id \in Exec, ~row.cancel => Taken(row.id), row.done => Over(row.id),
           ReconcileRow(p, h, row, n), UNCHANGED <<table, log>>
    PROVE  Owned'
  <1> PICK e \in Exec : e = row.id
    OBVIOUS
  <1> DEFINE reach(l) == To([h EXCEPT !.exec = e, !.owner = row.owner], l)
  <1>1. \/ Become(p, n) /\ run' = run
        \/ run[e] = "none" /\ ~row.cancel /\ Become(p, reach("trigger")) /\ run' = run
        \/ (run[e] = "COMPLETED" \/ row.done) /\ Become(p, reach("list")) /\ run' = run
        \/ Become(p, reach("terminalize")) /\ run' = run
        \/ /\ run[e] = "active" /\ run' = [run EXCEPT ![e] = "CANCELED"]
           /\ proc' = [proc EXCEPT ![p] = reach("terminalize"),
                                   ![Outer(e)] = Idle, ![Inner(e)] = Idle]
    BY DEF ReconcileRow
  <1>2. \A l \in {"trigger", "list", "terminalize"} :
           /\ Carries(proc[p], reach(l)) /\ reach(l).pc = l /\ reach(l).exec = e
           /\ reach(l).pc # "cancelTerminalize"
    <2> TAKE l \in {"trigger", "list", "terminalize"}
    <2> PICK g : g = To([h EXCEPT !.exec = e, !.owner = row.owner], l)
      OBVIOUS
    <2>1. /\ g.pc = l /\ g.exec = e /\ g.todo = h.todo /\ g.family = h.family
          /\ g.caller = h.caller /\ g.goal = h.goal
      BY DEF To, Frame
    <2>2. Carries(proc[p], g)
      BY <2>1 DEF Carries, Dispatches
    <2> QED
      BY <2>1, <2>2
  <1> HIDE DEF reach
  <1>3. CASE Become(p, n) /\ run' = run
    BY <1>3, Unruled, GoesOn
  <1>4. CASE run[e] = "none" /\ ~row.cancel /\ Become(p, reach("trigger")) /\ run' = run
    <2>1. FitsLabel(reach("trigger"))
      BY <1>2, <1>4 DEF FitsLabel
    <2> QED
      BY <1>2, <1>4, <2>1, GoesOn
  <1>5. CASE (run[e] = "COMPLETED" \/ row.done) /\ Become(p, reach("list")) /\ run' = run
    <2>1. Over(e)
      BY <1>5 DEF Owned, Ledger
    <2>2. FitsLabel(reach("list"))
      BY <1>2, <2>1 DEF FitsLabel
    <2> QED
      BY <1>2, <1>5, <2>2, GoesOn
  <1>6. reach("terminalize").pc \notin Ruled
    BY <1>2 DEF Ruled
  <1>7. CASE Become(p, reach("terminalize")) /\ run' = run
    BY <1>2, <1>6, <1>7, Unruled, GoesOn
  <1>8. CASE /\ run[e] = "active" /\ run' = [run EXCEPT ![e] = "CANCELED"]
             /\ proc' = [proc EXCEPT ![p] = reach("terminalize"),
                                     ![Outer(e)] = Idle, ![Inner(e)] = Idle]
    <2>1. \A d \in Exec : log'[d] = log[d] \/ log'[d] \in Ended
      OBVIOUS
    <2>2. run[e] # "none" /\ UNCHANGED table
      BY <1>8
    <2> PICK g : g = reach("terminalize")
      OBVIOUS
    <2>3. Carries(proc[p], g) /\ FitsLabel(g)' /\ g.pc # "cancelTerminalize"
      BY <1>2, <1>6, Unruled
    <2>4. proc' = [proc EXCEPT ![p] = g, ![Outer(e)] = Idle, ![Inner(e)] = Idle]
      BY <1>8
    <2> QED
      BY <1>8, <2>1, <2>2, <2>3, <2>4, Interrupts
  <1> QED
    BY <1>1, <1>3, <1>4, <1>5, <1>7, <1>8

\* A process of the dispatch is on no descendant.
LEMMA InDispatch ==
    ASSUME IInv, Owned, NEW p \in Proc, proc[p].pc \in Dispatches
    PROVE  /\ proc[p] \in Frames /\ proc[p] \in Frame /\ proc[p].family = None
           /\ proc[p].pc \notin Starts
  BY ProcFacts DEF Frames, Owned, Fit, Fits, FitsFamily, Dispatches, Starts

LEMMA NextRowFits ==
    ASSUME NEW f, NEW h \in Frame, h.family = None, h.todo \subseteq f.todo, h.goal = f.goal
    PROVE  Carries(f, NextRow(h)) /\ NextRow(h).pc \notin Ruled
  <1> PICK g : g = NextRow(h)
    OBVIOUS
  <1>1. /\ g.pc = "reconcile" /\ g.family = None /\ g.todo = h.todo /\ g.goal = h.goal
    BY DEF NextRow, Frame
  <1> QED
    BY <1>1 DEF Carries, Ruled

LEMMA ReconcileOwned ==
    ASSUME IInv, IInv', Owned, NEW p \in Proc, Reconcile(p)
    PROVE  Owned'
  <1> PICK f : f = proc[p]
    OBVIOUS
  <1>1. f.pc = "reconcile" /\ f.pc \in Dispatches
    BY DEF Reconcile, Dispatches
  <1>2. f \in Frames /\ f \in Frame /\ f.family = None /\ f.pc \notin Starts
    BY <1>1, InDispatch
  <1>3. UNCHANGED <<table, log>>
    BY DEF Reconcile
  <1>4. CASE Become(p, Reconciled(f)) /\ UNCHANGED run
    BY <1>2, <1>3, <1>4, AfterDispatch, Unruled, GoesOn
  <1>5. CASE \E row \in f.todo :
                LET g == [f EXCEPT !.todo = @ \ {row}, !.caller = "reconcile"]
                IN  ReconcileRow(p, g, row, NextRow(g))
    <2> PICK row \in f.todo :
                LET g == [f EXCEPT !.todo = @ \ {row}, !.caller = "reconcile"]
                IN  ReconcileRow(p, g, row, NextRow(g))
      BY <1>5
    <2> PICK g : g = [f EXCEPT !.todo = @ \ {row}, !.caller = "reconcile"]
      OBVIOUS
    <2>1. ReconcileRow(p, g, row, NextRow(g))
      OBVIOUS
    <2>2. /\ g.pc = f.pc /\ g.family = f.family /\ g.goal = f.goal
          /\ g.todo = f.todo \ {row}
      BY <1>2 DEF Frame
    <2>3. f \in Frame
      BY <1>2
    <2>4. g \in Frame
      BY <2>3, ZenonT(60) DEF Frame, Callers
    <2>5. /\ g \in Frame /\ g.pc = "reconcile" /\ g.family = None
          /\ g.todo \subseteq f.todo /\ g.goal = f.goal
      BY <1>1, <1>2, <2>2, <2>4
    <2>6. Carries(f, g) /\ g.pc \in Dispatches
      BY <1>1, <2>5 DEF Carries, Dispatches
    <2>7. Carries(f, NextRow(g)) /\ NextRow(g).pc \notin Ruled
      BY <2>5, NextRowFits
    <2>8. row.id \in Exec
      BY <1>2, FrameFacts
    <2>9. (~row.cancel => Taken(row.id)) /\ (row.done => Over(row.id))
      BY DEF Owned, Fit, Fits, FitsTodo
    <2> QED
      BY <1>2, <1>3, <2>1, <2>5, <2>6, <2>7, <2>8, <2>9, ReconcileRowOwned
  <1> QED
    BY <1>4, <1>5 DEF Reconcile

LEMMA CheckReleasedOwned ==
    ASSUME IInv, IInv', Owned, NEW p \in Proc, CheckReleased(p)
    PROVE  Owned'
  <1> PICK f : f = proc[p]
    OBVIOUS
  <1>1. f.pc = "released" /\ f.pc \in Dispatches
    BY DEF CheckReleased, Dispatches
  <1>2. f \in Frames /\ f \in Frame /\ f.family = None /\ f.pc \notin Starts
    BY <1>1, InDispatch
  <1>3. UNCHANGED <<table, log, run>>
    BY DEF CheckReleased
  <1>4. Carries(f, NextRow(f)) /\ NextRow(f).pc \notin Ruled
    BY <1>2, NextRowFits
  <1>5. Become(p, NextRow(f)) \/ Become(p, Reconciled(f))
    BY DEF CheckReleased
  <1> QED
    BY <1>2, <1>3, <1>4, <1>5, AfterDispatch, Unruled, GoesOn

\* A run is started, for an execution that a dispatcher has claimed.
LEMMA StartRunOwned ==
    ASSUME IInv, IInv', Owned, NEW p \in Proc, NEW e \in Exec, NEW g,
           proc[p].pc \notin Starts, Carries(proc[p], g), g.pc \notin Ruled,
           Taken(e), StartRun(p, e, g), UNCHANGED <<table, log>>
    PROVE  Owned'
  <1>1. proc \in [Proc -> Frames] /\ run \in [Exec -> {"none", "active"} \cup TerminalRun]
    BY Parts DEF ProcOK, RestOK
  <1>2. Outer(e) \in Proc
    BY ProcFacts
  <1>3. CASE run[e] # "none"
    <2>1. run' = run
      BY <1>1, <1>3 DEF StartRun
    <2>2. Become(p, g)
      <3>1. proc' = [proc EXCEPT ![p] = g, ![Outer(e)] = @]
        BY <1>3 DEF StartRun
      <3>2. ASSUME NEW q \in Proc
            PROVE  proc'[q] = [proc EXCEPT ![p] = g][q]
        <4>1. CASE p = Outer(e)
          BY <1>1, <1>2, <3>1, <4>1
        <4>2. CASE p # Outer(e)
          BY <1>1, <1>2, <3>1, <4>2
        <4> QED
          BY <4>1, <4>2
      <3> QED
        BY <1>1, <3>1, <3>2 DEF Become
    <2> QED
      BY <2>1, <2>2, Unruled, GoesOn
  <1>4. CASE run[e] = "none"
    <2> PICK h : h = Starting("outerStart")
      OBVIOUS
    <2>1. /\ h.pc = "outerStart" /\ h.goal = "none" /\ h.todo = {} /\ h.family = None
      BY DEF Starting, Idle
    <2>2. p # Outer(e)
      BY <1>4 DEF Starts, Owned, Fit, Works
    <2>3. run' = [run EXCEPT ![e] = "active"]
      BY <1>4 DEF StartRun
    <2>4. proc' = [proc EXCEPT ![p] = g, ![Outer(e)] = h]
      BY <1>4 DEF StartRun
    <2>5. /\ proc'[p] = g /\ proc'[Outer(e)] = h
          /\ \A q \in Proc : q # p /\ q # Outer(e) => proc'[q] = proc[q]
      BY <1>1, <1>2, <2>2, <2>4
    <2>6. \A d \in Exec : run[d] # "none" => run'[d] # "none"
      BY <1>1, <2>3
    <2>7. \A q \in Proc : proc'[q].pc = "cancelTerminalize" => proc'[q] = proc[q]
      BY <2>1, <2>5 DEF Ruled
    <2>8. Lasting /\ Alone'
      BY <2>6, <2>7, SameTableLasts DEF table
    <2>9. Fit(p)'
      BY <2>5, <2>8, Unruled, Moved
    <2>10. Fit(Outer(e))'
      <3>1. FitsFamily(h)' /\ FitsTodo(h)' /\ FitsLabel(h)'
        BY <2>1 DEF FitsFamily, FitsTodo, FitsLabel, Dispatches
      <3>2. \A d \in Exec : /\ Outer(e) = Outer(d) => d = e
                            /\ Outer(e) # Inner(d)
        BY DEF Outer, Inner
      <3>3. run'[e] # "none"
        BY <1>1, <2>3
      <3>4. Works(Outer(e))'
        BY <2>1, <2>5, <3>2, <3>3 DEF Works
      <3> QED
        BY <2>5, <3>1, <3>4 DEF Fit, Fits
    <2>11. ASSUME NEW d \in Exec
           PROVE  run'[d] = run[d] \/ (Taken(d)' /\ (run'[d] = "COMPLETED" => Over(d)'))
      BY <1>1, <2>3, <2>8 DEF Lasting
    <2>12. \A d \in Exec : Ledger(d)'
      BY <2>8, <2>11, LedgersKept DEF table
    <2> QED
      BY <2>5, <2>8, <2>9, <2>10, <2>12, OwnedNext
  <1> QED
    BY <1>3, <1>4

LEMMA TriggerOwned ==
    ASSUME NothingRefused, IInv, IInv', Owned, NEW p \in Proc, Trigger(p)
    PROVE  Owned'
  <1> PICK f : f = proc[p]
    OBVIOUS
  <1>1. f.pc = "trigger" /\ f.pc \in Dispatches
    BY DEF Trigger, Dispatches
  <1>2. f \in Frames /\ f \in Frame /\ f.family = None /\ f.pc \notin Starts
    BY <1>1, InDispatch
  <1>3. f.exec \in Exec /\ Taken(f.exec)
    BY <1>1, <1>2, FrameFacts DEF Ruled, Owned, Fit, Fits, FitsLabel
  <1>4. UNCHANGED <<table, log>>
    BY DEF Trigger
  <1>5. Carries(f, Admitted(f)) /\ Admitted(f).pc \notin Ruled
    BY <1>2, AfterDispatch, NextRowFits DEF Admitted
  <1>6. Carries(f, AdmissionThrown(f)) /\ AdmissionThrown(f).pc \notin Ruled
    <2>1. Carries(f, To(f, "recheckRow")) /\ To(f, "recheckRow").pc \notin Ruled
      BY <1>2 DEF Carries, To, Frame, Ruled
    <2> QED
      BY <2>1, AfterDispatch DEF AdmissionThrown
  <1> DEFINE rejected == [f EXCEPT !.pc = "terminalize",
                                   !.caller = IF @ = "dispatch" THEN "dispatchRejected"
                                                                ELSE "rejected"]
  <1>7. Carries(f, rejected) /\ rejected.pc \notin Ruled
    <2>1. /\ rejected.pc = "terminalize" /\ rejected.family = None
          /\ rejected.todo = f.todo /\ rejected.goal = f.goal
      BY <1>2 DEF Frame
    <2> HIDE DEF rejected
    <2> QED
      BY <2>1 DEF Carries, Ruled
  <1>8. \/ StartRun(p, f.exec, Admitted(f))
        \/ StartRun(p, f.exec, AdmissionThrown(f))
        \/ Become(p, AdmissionThrown(f)) /\ UNCHANGED run
        \/ Become(p, rejected) /\ UNCHANGED run
    BY DEF Trigger, NothingRefused
  <1> HIDE DEF rejected
  <1>9. CASE StartRun(p, f.exec, Admitted(f)) \/ StartRun(p, f.exec, AdmissionThrown(f))
    BY <1>2, <1>3, <1>4, <1>5, <1>6, <1>9, StartRunOwned
  <1>10. CASE (Become(p, AdmissionThrown(f)) \/ Become(p, rejected)) /\ UNCHANGED run
    BY <1>2, <1>4, <1>6, <1>7, <1>10, Unruled, GoesOn
  <1> QED
    BY <1>8, <1>9, <1>10

LEMMA RecheckRowOwned ==
    ASSUME IInv, IInv', Owned, NEW p \in Proc, RecheckRow(p)
    PROVE  Owned'
  <1> PICK f : f = proc[p]
    OBVIOUS
  <1>1. f.pc = "recheckRow" /\ f.pc \in Dispatches
    BY DEF RecheckRow, Dispatches
  <1>2. f \in Frames /\ f \in Frame /\ f.family = None /\ f.pc \notin Starts
    BY <1>1, InDispatch
  <1>3. UNCHANGED <<table, log>>
    BY DEF RecheckRow
  <1> PICK e : e = f.owner
    OBVIOUS
  <1>4. e \in Exec
    BY <1>1, <1>2 DEF Frames, Complete
  <1>5. CASE Become(p, Thrown(f)) /\ UNCHANGED run
    BY <1>2, <1>3, <1>5, AfterDispatch, Unruled, GoesOn
  <1> DEFINE row == [id |-> e, cancel |-> e \in cancelRequested, done |-> e \in ownerCompleted,
                     owner |-> e, earlier |-> {}]
             g == [f EXCEPT !.caller = "recheckRow"]
  <1>6. CASE status[e] = "processing" /\ ReconcileRow(p, g, row, Dispatched(g))
    <2>1. row.id = e /\ row.cancel = (e \in cancelRequested) /\ row.done = (e \in ownerCompleted)
      OBVIOUS
    <2>2. /\ g \in Frame /\ g.pc = "recheckRow" /\ g.family = None
          /\ g.todo = f.todo /\ g.goal = f.goal /\ g.later = f.later
      BY <1>1, <1>2 DEF Frame, Callers
    <2> HIDE DEF row, g
    <2>3. Carries(f, g) /\ g.pc \in Dispatches
      BY <1>1, <2>2 DEF Carries, Dispatches
    <2>4. Carries(f, Dispatched(g)) /\ Dispatched(g).pc \notin Ruled
      <3>1. Dispatched(g) = Dispatched(f)
        BY <2>2 DEF Dispatched, Again
      <3> QED
        BY <3>1, AfterDispatch
    <2> PICK r : r = row
      OBVIOUS
    <2>5. (~r.cancel => Taken(r.id)) /\ (r.done => Over(r.id)) /\ r.id \in Exec
      BY <1>4, <1>6, <2>1, ReadRow
    <2>6. ReconcileRow(p, g, r, Dispatched(g))
      BY <1>6
    <2> QED
      BY <1>2, <1>3, <2>2, <2>3, <2>4, <2>5, <2>6, ReconcileRowOwned
  <1> QED
    BY <1>5, <1>6 DEF RecheckRow

-----------------------------------------------------------------------------
(* Settlement and finalization.                                             *)

LEMMA SettledFits ==
    ASSUME NEW f \in Frame
    PROVE  Carries(f, Settled(f)) /\ Settled(f).pc \notin Ruled
  <1>1. CASE f.family # None
    <2>1. Settled(f) = To(f, "kids")
      BY <1>1 DEF Settled
    <2> PICK g : g = To(f, "kids")
      OBVIOUS
    <2>2. g.pc = "kids" /\ g.todo = f.todo /\ g.family = f.family /\ g.caller = f.caller
          /\ g.goal = f.goal
      BY DEF To, Frame
    <2> QED
      BY <2>1, <2>2 DEF Carries, Dispatches, Ruled
  <1>2. CASE f.family = None /\ f.caller \in {"reconcile", "dispatchRejected"}
    <2>1. PICK l \in {"released", "recheckRow"} : Settled(f) = To(f, l)
      BY <1>2 DEF Settled
    <2> PICK g : g = To(f, l)
      OBVIOUS
    <2>2. g.pc = l /\ g.todo = f.todo /\ g.family = None /\ g.goal = f.goal
      BY <1>2 DEF To, Frame
    <2> QED
      BY <2>1, <2>2 DEF Carries, Dispatches, Ruled
  <1>3. CASE f.family = None /\ f.caller \notin {"reconcile", "dispatchRejected"}
    <2>1. Settled(f) \in {Dispatched(f), Thrown(f), Starting("ok"), Dispatching("failed"), Idle}
      BY <1>3 DEF Settled
    <2> QED
      BY <2>1, AfterDispatch, NewFrames
  <1> QED
    BY <1>1, <1>2, <1>3

LEMMA ToFits ==
    ASSUME NEW f \in Frame, NEW l, l \notin Dispatches \cup {"exit", "innerRead", "innerStart", "innerRun"}
    PROVE  Carries(f, To(f, l)) /\ To(f, l).pc = l /\ To(f, l).exec = f.exec
           /\ To(f, l).caller = f.caller /\ To(f, l).family = f.family
  <1> PICK g : g = To(f, l)
    OBVIOUS
  <1>1. g.pc = l /\ g.todo = f.todo /\ g.family = f.family /\ g.caller = f.caller
        /\ g.goal = f.goal /\ g.exec = f.exec
    BY DEF To, Frame
  <1> QED
    BY <1>1 DEF Carries

\* A process past its start, with a row in hand where its label needs one.
LEMMA AtWork ==
    ASSUME IInv, Owned, NEW p \in Proc
    PROVE  /\ proc[p] \in Frames /\ proc[p] \in Frame
           /\ FitsFamily(proc[p]) /\ FitsLabel(proc[p])
           /\ proc[p].pc \in WithRow \cup {"kids"} => proc[p].pc \notin Starts
           /\ proc[p].pc \in WithRow => proc[p].exec \in Exec
           /\ proc[p].pc \in {"kids", "kidRun"} => proc[p].family \in Exec
  BY ProcFacts DEF Frames, Complete, Owned, Fit, Fits, Starts, WithRow

LEMMA ListChildrenOwned ==
    ASSUME IInv, IInv', Owned, NEW p \in Proc, ListChildren(p)
    PROVE  Owned'
  <1> PICK f : f = proc[p]
    OBVIOUS
  <1>1. /\ f.pc = "list" /\ UNCHANGED <<table, log, run>>
        /\ \E l \in {"delete", "mark"} : Become(p, To(f, l))
    BY DEF ListChildren
  <1>2. f \in Frame /\ f.pc \notin Starts /\ Over(f.exec)
    BY <1>1, AtWork DEF WithRow, FitsLabel
  <1>3. PICK l \in {"delete", "mark"} : Become(p, To(f, l))
    BY <1>1
  <1> PICK g : g = To(f, l)
    OBVIOUS
  <1>4. l \notin Dispatches \cup {"exit", "innerRead", "innerStart", "innerRun"}
    BY DEF Dispatches
  <1>5. Carries(f, g) /\ g.pc = l /\ g.exec = f.exec
    BY <1>2, <1>4, ToFits
  <1>6. FitsLabel(g) /\ g.pc # "cancelTerminalize"
    BY <1>2, <1>5 DEF FitsLabel
  <1> QED
    BY <1>1, <1>2, <1>3, <1>5, <1>6, GoesOn

LEMMA MarkOwnerCompletedOwned ==
    ASSUME IInv, IInv', Owned, NEW p \in Proc, MarkOwnerCompleted(p)
    PROVE  Owned'
  <1> PICK f : f = proc[p]
    OBVIOUS
  <1>1. /\ f.pc = "mark" /\ UNCHANGED <<status, cancelRequested, log, run>>
        /\ ownerCompleted' = ownerCompleted \cup ({f.exec} \cap Processing)
        /\ Become(p, To(f, "recheck"))
    BY DEF MarkOwnerCompleted
  <1>2. f \in Frame /\ f.pc \notin Starts /\ Over(f.exec)
    BY <1>1, AtWork DEF WithRow, FitsLabel
  <1> PICK g : g = To(f, "recheck")
    OBVIOUS
  <1>3. "recheck" \notin Dispatches \cup Ruled
    BY DEF Dispatches, Ruled
  <1>4. Carries(f, g) /\ g.pc \notin Ruled
    BY <1>2, <1>3, ToFits
  <1>5. ASSUME NEW e \in Exec, e \in ownerCompleted'
        PROVE  e \in ownerCompleted \/ Over(e)'
    BY <1>1, <1>2, <1>5 DEF Over
  <1> QED
    BY <1>1, <1>2, <1>4, <1>5, Unruled, Goes

LEMMA RecheckOwnerOwned ==
    ASSUME IInv, IInv', Owned, NEW p \in Proc, RecheckOwner(p)
    PROVE  Owned'
  <1> PICK f : f = proc[p]
    OBVIOUS
  <1>1. /\ f.pc = "recheck" /\ UNCHANGED <<table, log, run>>
        /\ \/ f.exec \in ownerCompleted /\ Become(p, To(f, "delete"))
           \/ Become(p, Settled(f))
    BY DEF RecheckOwner
  <1>2. f \in Frame /\ f.pc \notin Starts /\ f.exec \in Exec
    BY <1>1, AtWork DEF WithRow
  <1>3. CASE f.exec \in ownerCompleted /\ Become(p, To(f, "delete"))
    <2> PICK g : g = To(f, "delete")
      OBVIOUS
    <2>1. "delete" \notin Dispatches
      BY DEF Dispatches
    <2>2. Carries(f, g) /\ g.pc = "delete" /\ g.exec = f.exec
      BY <1>2, <2>1, ToFits
    <2>3. Over(f.exec)
      BY <1>2, <1>3 DEF Owned, Ledger
    <2>4. FitsLabel(g) /\ g.pc # "cancelTerminalize"
      BY <2>2, <2>3 DEF FitsLabel
    <2> QED
      BY <1>1, <1>2, <1>3, <2>2, <2>4, GoesOn
  <1>4. CASE Become(p, Settled(f))
    BY <1>1, <1>2, <1>4, SettledFits, Unruled, GoesOn
  <1> QED
    BY <1>1, <1>3, <1>4

\* One process changes rows of which none is taken from a dispatcher.
LEMMA Rewrites ==
    ASSUME IInv, Owned, NEW p \in Proc, NEW g, Become(p, g), proc[p].pc \notin Starts,
           log' = log, run' = run, ownerCompleted' \subseteq ownerCompleted,
           g.pc = "cancelTerminalize" => /\ g.exec \in Exec /\ status[g.exec] = "pending"
                                         /\ g # proc[p],
           \A e \in Exec : ~Over(e) /\ status[e] = "processing" =>
              status'[e] = "processing" /\ (e \in cancelRequested => e \in cancelRequested'),
           Carries(proc[p], g), Lasting => FitsLabel(g)'
    PROVE  Owned'
  <1>1. proc'[p] = g /\ \A q \in Proc : q # p => proc'[q] = proc[q]
    BY ProcFacts DEF Become
  <1>2. Lasting /\ Alone'
    BY <1>1, RowsLast
  <1>3. Fit(p)'
    BY <1>1, <1>2, Moved
  <1>4. \A e \in Exec : Ledger(e)'
    BY <1>2, LedgersKept
  <1> QED
    BY <1>1, <1>2, <1>3, <1>4, OwnedNext

LEMMA DeleteOwned ==
    ASSUME IInv, IInv', Owned, NEW p \in Proc, Delete(p)
    PROVE  Owned'
  <1> PICK f : f = proc[p]
    OBVIOUS
  <1> PICK d : d = f.exec
    OBVIOUS
  <1>1. /\ f.pc = "delete" /\ log' = log /\ run' = run
        /\ status' = [e \in Exec |-> IF e \in {d} THEN "absent" ELSE status[e]]
        /\ cancelRequested' = cancelRequested \ {d}
        /\ ownerCompleted' = ownerCompleted \ {d}
    BY DEF Delete, DropRows
  <1>2. f \in Frame /\ f.pc \notin Starts /\ Over(d)
    BY <1>1, AtWork DEF WithRow, FitsLabel
  <1>3. PICK g : Become(p, g) /\ Carries(f, g) /\ g.pc \notin Ruled
    <2>1. CASE Become(p, Settled(f))
      BY <1>2, <2>1, SettledFits
    <2>2. CASE Become(p, [Dispatching("cancelled") EXCEPT !.later = Parent[f.exec]])
      <3> PICK g : g = [Dispatching("cancelled") EXCEPT !.later = Parent[f.exec]]
        OBVIOUS
      <3>1. g.pc = "claim" /\ g.todo = {} /\ g.family = None /\ g.goal = "cancelled"
        BY DEF Dispatching, Idle
      <3>2. Carries(f, g) /\ g.pc \notin Ruled
        BY <3>1 DEF Carries, Ruled
      <3> QED
        BY <2>2, <3>2
    <2>3. CASE Become(p, [f EXCEPT !.pc = "recheck", !.exec = Parent[f.exec]])
      <3> PICK g : g = [f EXCEPT !.pc = "recheck", !.exec = Parent[f.exec]]
        OBVIOUS
      <3>1. g.pc = "recheck" /\ g.todo = f.todo /\ g.family = f.family /\ g.caller = f.caller
            /\ g.goal = f.goal
        BY <1>2 DEF Frame
      <3>2. Carries(f, g) /\ g.pc \notin Ruled
        BY <3>1 DEF Carries, Ruled, Dispatches
      <3> QED
        BY <2>3, <3>2
    <2> QED
      BY <2>1, <2>2, <2>3 DEF Delete
  <1>4. \A e \in Exec : ~Over(e) /\ status[e] = "processing" =>
           status'[e] = "processing" /\ (e \in cancelRequested => e \in cancelRequested')
    BY <1>1, <1>2
  <1>5. FitsLabel(g)' /\ g.pc # "cancelTerminalize"
    BY <1>3, Unruled
  <1>6. ownerCompleted' \subseteq ownerCompleted
    BY <1>1
  <1> QED
    BY <1>1, <1>2, <1>3, <1>4, <1>5, <1>6, Rewrites

LEMMA TerminalizeOwned ==
    ASSUME IInv, IInv', Owned, NEW p \in Proc, Terminalize(p)
    PROVE  Owned'
  <1> PICK f : f = proc[p]
    OBVIOUS
  <1>1. /\ f.pc = "terminalize" /\ UNCHANGED <<table, run>>
        /\ EndLog(f.exec, "error") /\ Become(p, To(f, "descendants"))
    BY DEF Terminalize
  <1>2. f \in Frame /\ f.pc \notin Starts /\ f.exec \in Exec
    BY <1>1, AtWork DEF WithRow
  <1>3. Over(f.exec)' /\ \A e \in Exec : log'[e] = log[e] \/ log'[e] \in Ended
    BY <1>1, <1>2, Parts DEF RestOK, EndLog, Over, Ended
  <1> PICK g : g = To(f, "descendants")
    OBVIOUS
  <1>4. "descendants" \notin Dispatches
    BY DEF Dispatches
  <1>5. Carries(f, g) /\ g.pc = "descendants" /\ g.exec = f.exec
    BY <1>2, <1>4, ToFits
  <1>6. FitsLabel(g)'
    BY <1>3, <1>5 DEF FitsLabel
  <1> QED
    BY <1>1, <1>2, <1>3, <1>5, <1>6, Goes DEF table

LEMMA ListDescendantsOwned ==
    ASSUME IInv, IInv', Owned, NEW p \in Proc, ListDescendants(p)
    PROVE  Owned'
  <1> PICK f : f = proc[p]
    OBVIOUS
  <1> PICK g : g = [f EXCEPT !.pc = "kids", !.family = f.exec, !.kids = Children(f.exec)]
    OBVIOUS
  <1>1. /\ f.pc = "descendants" /\ UNCHANGED <<table, log, run>> /\ Become(p, g)
    BY DEF ListDescendants
  <1>2. /\ f \in Frame /\ f \in Frames /\ f.pc \notin Starts /\ f.exec \in Exec
        /\ f.caller # "cancel" => Over(f.exec)
    BY <1>1, AtWork DEF WithRow, FitsLabel
  <1>3. g.pc = "kids" /\ g.todo = f.todo /\ g.family = f.exec /\ g.caller = f.caller
        /\ g.goal = f.goal
    BY <1>2 DEF Frame
  <1>4. proc'[p] = g /\ \A q \in Proc : q # p => proc'[q] = proc[q]
    BY <1>1, ProcFacts DEF Become
  <1>5. Lasting /\ Alone'
    BY <1>1, <1>3, <1>4, SameTableLasts DEF table
  <1>6. FitsFamily(g)'
    BY <1>2, <1>3, <1>5 DEF FitsFamily, Dispatches, Lasting
  <1>7. FitsTodo(g)'
    <2>1. FitsTodo(f)
      BY DEF Owned, Fit, Fits
    <2> QED
      BY <1>2, <1>3, <1>5, <2>1, TodoLasts
  <1>8. FitsLabel(g)'
    BY <1>3 DEF FitsLabel
  <1>9. Works(p)'
    BY <1>2, <1>3, <1>4, <1>5, WorksOn
  <1>10. \A e \in Exec : Ledger(e)'
    BY <1>1, <1>5, LedgersKept DEF table
  <1> QED
    BY <1>4, <1>5, <1>6, <1>7, <1>8, <1>9, <1>10, OwnedNext DEF Fit, Fits

LEMMA NextDescendantOwned ==
    ASSUME IInv, IInv', Owned, NEW p \in Proc, NextDescendant(p)
    PROVE  Owned'
  <1> PICK f : f = proc[p]
    OBVIOUS
  <1>1. /\ f.pc = "kids" /\ UNCHANGED <<table, log, run>>
        /\ \/ \E c \in f.kids :
                 Become(p, [f EXCEPT !.pc = "cancelRead", !.exec = c, !.kids = @ \ {c}])
           \/ Become(p, Idle)
           \/ /\ f.caller # "cancel"
              /\ Become(p, [f EXCEPT !.pc = "list", !.exec = f.family, !.family = None])
    BY DEF NextDescendant
  <1>2. /\ f \in Frame /\ f.pc \notin Starts /\ f.family # None
        /\ f.caller # "cancel" => Over(f.family)
    BY <1>1, AtWork, ConstantsAssumption DEF FitsFamily
  <1>3. CASE \E c \in f.kids :
                 Become(p, [f EXCEPT !.pc = "cancelRead", !.exec = c, !.kids = @ \ {c}])
    <2> PICK c \in f.kids :
                 Become(p, [f EXCEPT !.pc = "cancelRead", !.exec = c, !.kids = @ \ {c}])
      BY <1>3
    <2> PICK g : g = [f EXCEPT !.pc = "cancelRead", !.exec = c, !.kids = @ \ {c}]
      OBVIOUS
    <2>1. g.pc = "cancelRead" /\ g.todo = f.todo /\ g.family = f.family
          /\ g.caller = f.caller /\ g.goal = f.goal
      BY <1>2 DEF Frame
    <2>2. Carries(f, g)
      BY <2>1 DEF Carries, Dispatches
    <2>3. FitsLabel(g)
      BY <1>2, <2>1 DEF FitsLabel
    <2> QED
      BY <1>1, <1>2, <2>1, <2>2, <2>3, GoesOn
  <1>4. CASE Become(p, Idle)
    BY <1>1, <1>2, <1>4, NewFrames, Unruled, GoesOn
  <1>5. CASE /\ f.caller # "cancel"
             /\ Become(p, [f EXCEPT !.pc = "list", !.exec = f.family, !.family = None])
    <2> PICK g : g = [f EXCEPT !.pc = "list", !.exec = f.family, !.family = None]
      OBVIOUS
    <2>1. g.pc = "list" /\ g.todo = f.todo /\ g.family = None /\ g.goal = f.goal
          /\ g.exec = f.family
      BY <1>2 DEF Frame
    <2>2. Carries(f, g)
      BY <2>1 DEF Carries, Dispatches
    <2>3. FitsLabel(g)
      BY <1>2, <1>5, <2>1 DEF FitsLabel
    <2> QED
      BY <1>1, <1>2, <1>5, <2>1, <2>2, <2>3, GoesOn
  <1> QED
    BY <1>1, <1>3, <1>4, <1>5

LEMMA CancelDescendantRunOwned ==
    ASSUME IInv, IInv', Owned, NEW p \in Proc, CancelDescendantRun(p)
    PROVE  Owned'
  <1> PICK f : f = proc[p]
    OBVIOUS
  <1> PICK c : c = f.exec
    OBVIOUS
  <1>1. /\ f.pc = "kidRun" /\ UNCHANGED table
        /\ \/ Become(p, To(f, "kids")) /\ UNCHANGED <<log, run>>
           \/ run[c] = "COMPLETED" /\ Become(p, To(f, "list")) /\ UNCHANGED <<log, run>>
           \/ /\ run[c] \in {"active", "CANCELED"} /\ EndLog(c, "error")
              /\ run' = [run EXCEPT ![c] = "CANCELED"]
              /\ proc' = [proc EXCEPT ![p] = To(f, "list"),
                                      ![Outer(c)] = Idle, ![Inner(c)] = Idle]
    BY DEF CancelDescendantRun
  <1>2. f \in Frame /\ f.pc \notin Starts /\ c \in Exec
    BY <1>1, AtWork DEF WithRow
  <1>3. {"kids", "list"} \cap (Dispatches \cup {"exit", "innerRead", "innerStart", "innerRun"}) = {}
        /\ "kids" \notin Ruled
    BY DEF Dispatches, Ruled
  <1> PICK g : g = To(f, "list")
    OBVIOUS
  <1>4. /\ Carries(f, g) /\ g.pc = "list" /\ g.exec = c
        /\ Carries(f, To(f, "kids")) /\ To(f, "kids").pc \notin Ruled
    BY <1>2, <1>3, ToFits
  <1>5. CASE Become(p, To(f, "kids")) /\ UNCHANGED <<log, run>>
    BY <1>1, <1>2, <1>4, <1>5, Unruled, GoesOn
  <1>6. CASE run[c] = "COMPLETED" /\ Become(p, g) /\ UNCHANGED <<log, run>>
    <2>1. FitsLabel(g)
      BY <1>2, <1>4, <1>6 DEF FitsLabel, Owned, Ledger
    <2> QED
      BY <1>1, <1>2, <1>4, <1>6, <2>1, GoesOn
  <1>7. CASE /\ run[c] \in {"active", "CANCELED"} /\ EndLog(c, "error")
             /\ run' = [run EXCEPT ![c] = "CANCELED"]
             /\ proc' = [proc EXCEPT ![p] = g, ![Outer(c)] = Idle, ![Inner(c)] = Idle]
    <2>1. Over(c)' /\ \A e \in Exec : log'[e] = log[e] \/ log'[e] \in Ended
      BY <1>2, <1>7, Parts DEF RestOK, EndLog, Over, Ended
    <2>2. FitsLabel(g)'
      BY <1>4, <2>1 DEF FitsLabel
    <2> QED
      BY <1>1, <1>2, <1>4, <1>7, <2>1, <2>2, Interrupts
  <1> QED
    BY <1>1, <1>5, <1>6, <1>7

-----------------------------------------------------------------------------
(* Cancellation.                                                            *)

LEMMA NothingCancelledFits ==
    ASSUME NEW f \in Frame
    PROVE  Carries(f, NothingCancelled(f)) /\ NothingCancelled(f).pc \notin Ruled
  <1>1. "kids" \notin Dispatches \cup Ruled
    BY DEF Dispatches, Ruled
  <1>2. Carries(f, To(f, "kids")) /\ To(f, "kids").pc \notin Ruled
    BY <1>1, ToFits
  <1> QED
    BY <1>2, NewFrames DEF NothingCancelled

LEMMA CancelReadOwned ==
    ASSUME IInv, IInv', Owned, NEW p \in Proc, CancelRead(p)
    PROVE  Owned'
  <1> PICK f : f = proc[p]
    OBVIOUS
  <1>1. /\ f.pc = "cancelRead" /\ UNCHANGED <<table, log, run>>
        /\ \/ \E l \in {"cancelMark", "cancelClaim"} : Become(p, To(f, l))
           \/ Become(p, NothingCancelled(f))
    BY DEF CancelRead
  <1>2. f \in Frame /\ f.pc \notin Starts /\ FitsLabel(f)
    BY <1>1, AtWork DEF WithRow
  <1>3. CASE \E l \in {"cancelMark", "cancelClaim"} : Become(p, To(f, l))
    <2> PICK l \in {"cancelMark", "cancelClaim"} : Become(p, To(f, l))
      BY <1>3
    <2> PICK g : g = To(f, l)
      OBVIOUS
    <2>1. l \notin Dispatches
      BY DEF Dispatches
    <2>2. Carries(f, g) /\ g.pc = l /\ g.caller = f.caller /\ g.family = f.family
      BY <1>2, <2>1, ToFits
    <2>3. FitsLabel(g)
      BY <1>1, <1>2, <2>2 DEF FitsLabel
    <2> QED
      BY <1>1, <1>2, <2>2, <2>3, GoesOn
  <1>4. CASE Become(p, NothingCancelled(f))
    BY <1>1, <1>2, <1>4, NothingCancelledFits, Unruled, GoesOn
  <1> QED
    BY <1>1, <1>3, <1>4

LEMMA CancelMarkOwned ==
    ASSUME IInv, IInv', Owned, NEW p \in Proc, CancelMark(p)
    PROVE  Owned'
  <1> PICK f : f = proc[p]
    OBVIOUS
  <1>1. /\ f.pc = "cancelMark" /\ UNCHANGED <<status, ownerCompleted, log, run>>
        /\ cancelRequested \subseteq cancelRequested'
        /\ \/ Become(p, NothingCancelled(f)) \/ Become(p, Idle)
           \/ f.family # None /\ Become(p, To(f, "kidRun"))
           \/ f.family = None /\ Become(p, To(f, "descendants"))
    BY DEF CancelMark
  <1>2. f \in Frame /\ f.pc \notin Starts /\ FitsLabel(f)
    BY <1>1, AtWork DEF WithRow
  <1>3. PICK g : Become(p, g) /\ Carries(f, g) /\ g.pc # "cancelTerminalize" /\ FitsLabel(g)'
    <2>1. CASE Become(p, NothingCancelled(f)) \/ Become(p, Idle)
      BY <1>2, <2>1, NothingCancelledFits, NewFrames, Unruled
    <2>2. CASE Become(p, To(f, "kidRun"))
      <3>1. "kidRun" \notin Dispatches \cup Ruled
        BY DEF Dispatches, Ruled
      <3>2. Carries(f, To(f, "kidRun")) /\ To(f, "kidRun").pc \notin Ruled
        BY <1>2, <3>1, ToFits
      <3> QED
        BY <2>2, <3>2, Unruled
    <2>3. CASE f.family = None /\ Become(p, To(f, "descendants"))
      <3> PICK g : g = To(f, "descendants")
        OBVIOUS
      <3>1. "descendants" \notin Dispatches
        BY DEF Dispatches
      <3>2. Carries(f, g) /\ g.pc = "descendants" /\ g.caller = "cancel"
        BY <1>1, <1>2, <2>3, <3>1, ToFits DEF FitsLabel
      <3>3. FitsLabel(g)'
        BY <3>2 DEF FitsLabel
      <3> QED
        BY <2>3, <3>2, <3>3
    <2> QED
      BY <1>1, <2>1, <2>2, <2>3
  <1> QED
    BY <1>1, <1>2, <1>3, Goes

LEMMA CancelClaimOwned ==
    ASSUME IInv, IInv', Owned, NEW p \in Proc, CancelClaim(p)
    PROVE  Owned'
  <1> PICK f : f = proc[p]
    OBVIOUS
  <1> PICK e : e = f.exec
    OBVIOUS
  <1>1. f.pc = "cancelClaim" /\ UNCHANGED <<log, run>>
    BY DEF CancelClaim
  <1>2. f \in Frame /\ f.pc \notin Starts /\ e \in Exec
    BY <1>1, AtWork DEF WithRow
  <1>3. CASE /\ status[e] = "pending" /\ SetStatus(e, "processing")
             /\ cancelRequested' = cancelRequested \cup {e}
             /\ Become(p, To(f, "cancelTerminalize"))
    <2> PICK g : g = To(f, "cancelTerminalize")
      OBVIOUS
    <2>1. "cancelTerminalize" \notin Dispatches
      BY DEF Dispatches
    <2>2. Carries(f, g) /\ g.pc = "cancelTerminalize" /\ g.exec = e
      BY <1>2, <2>1, ToFits
    <2>3. status \in [Exec -> {"absent", "pending", "processing"}]
      BY Parts DEF TableOK
    <2>4. status' = [status EXCEPT ![e] = "processing"] /\ ownerCompleted' = ownerCompleted
      BY <1>3 DEF SetStatus
    <2>5. \A d \in Exec : ~Over(d) /\ status[d] = "processing" =>
             status'[d] = "processing" /\ (d \in cancelRequested => d \in cancelRequested')
      BY <1>3, <2>3, <2>4
    <2>6. Claimed(e)'
      BY <1>2, <1>3, <2>3, <2>4 DEF Claimed
    <2>7. FitsLabel(g)'
      BY <2>2, <2>6 DEF FitsLabel
    <2>8. g # f
      BY <1>1, <2>2
    <2> QED
      BY <1>1, <1>2, <1>3, <2>2, <2>4, <2>5, <2>7, <2>8, Rewrites
  <1>4. CASE Become(p, NothingCancelled(f)) /\ UNCHANGED table
    BY <1>1, <1>2, <1>4, NothingCancelledFits, Unruled, GoesOn
  <1> QED
    BY <1>3, <1>4 DEF CancelClaim

LEMMA CancelTerminalizeOwned ==
    ASSUME IInv, IInv', Owned, NEW p \in Proc, CancelTerminalize(p)
    PROVE  Owned'
  <1> PICK f : f = proc[p]
    OBVIOUS
  <1> PICK e : e = f.exec
    OBVIOUS
  <1>1. f.pc = "cancelTerminalize" /\ run' = run
    BY DEF CancelTerminalize
  <1>2. f \in Frame /\ f.pc \notin Starts /\ e \in Exec
    BY <1>1, AtWork DEF WithRow
  <1>3. CASE EndLog(e, "error") /\ Become(p, To(f, "list")) /\ UNCHANGED table
    <2> PICK g : g = To(f, "list")
      OBVIOUS
    <2>1. "list" \notin Dispatches
      BY DEF Dispatches
    <2>2. Carries(f, g) /\ g.pc = "list" /\ g.exec = e
      BY <1>2, <2>1, ToFits
    <2>3. Over(e)' /\ \A d \in Exec : log'[d] = log[d] \/ log'[d] \in Ended
      BY <1>2, <1>3, Parts DEF RestOK, EndLog, Over, Ended
    <2>4. FitsLabel(g)'
      BY <2>2, <2>3 DEF FitsLabel
    <2> QED
      BY <1>1, <1>2, <1>3, <2>2, <2>3, <2>4, Goes DEF table
  <1>4. CASE /\ IF status[e] = "processing"
                THEN SetStatus(e, "pending")
                ELSE UNCHANGED <<status, before, ownerCompleted>>
             /\ Become(p, Idle)
             /\ UNCHANGED <<cancelRequested, log>>
    <2>1. /\ \A d \in Exec : d # e => status'[d] = status[d]
          /\ ownerCompleted' = ownerCompleted
      <3>1. CASE SetStatus(e, "pending")
        BY <3>1, Parts DEF SetStatus, TableOK
      <3>2. CASE UNCHANGED <<status, before, ownerCompleted>>
        BY <3>2
      <3> QED
        BY <1>4, <3>1, <3>2
    <2>2. proc'[p] = Idle /\ \A q \in Proc : q # p => proc'[q] = proc[q]
      BY <1>4, ProcFacts DEF Become
    <2>3. Idle.pc # "cancelTerminalize"
      BY DEF Idle
    <2>4. \A d \in Exec : Over(d)' <=> Over(d)
      BY <1>4 DEF Over
    <2>5. \A d \in Exec : Ending(d)' => Ending(d)
      BY <2>2, <2>3 DEF Ending
    <2>6. Ending(e)
      BY <1>1 DEF Ending
    <2>7. \A d \in Exec : Taken(d) => Taken(d)'
      BY <2>1, <2>4, <2>5, <2>6 DEF Taken
    <2>8. ASSUME NEW q \in Proc, proc'[q] = proc[q], proc[q].pc = "cancelTerminalize"
          PROVE  Claimed(proc[q].exec)'
      <3> PICK d : d = proc[q].exec
        OBVIOUS
      <3>1. d \in Exec /\ Claimed(d)
        BY <2>8, AtWork DEF WithRow, FitsLabel
      <3>2. d = e => Over(e)
        BY <1>1, <2>2, <2>3, <2>8 DEF Owned, Alone
      <3>3. Claimed(d)'
        BY <1>4, <2>1, <2>4, <3>1, <3>2 DEF Claimed
      <3> QED
        BY <2>8, <3>3
    <2>9. Lasting
      BY <1>1, <1>4, <2>4, <2>7, <2>8 DEF Lasting
    <2>10. Alone'
      <3>1. ASSUME NEW q \in Proc, NEW r \in Proc, q # r,
                   proc'[q].pc = "cancelTerminalize", proc'[r].pc = "cancelTerminalize",
                   proc'[q].exec = proc'[r].exec
            PROVE  Over(proc[q].exec)'
        <4>1. proc'[q] = proc[q] /\ proc'[r] = proc[r]
          BY <2>2, <2>3, <3>1
        <4>2. Over(proc'[q].exec)
          BY <3>1, <4>1 DEF Owned, Alone
        <4> QED
          BY <1>4, <4>2 DEF Over
      <3> QED
        BY <3>1 DEF Alone
    <2>11. Fit(p)'
      BY <2>2, Rests
    <2>12. \A d \in Exec : Ledger(d)'
      BY <1>1, <1>4, <2>1, <2>9, LedgersKept
    <2> QED
      BY <2>2, <2>9, <2>10, <2>11, <2>12, OwnedNext
  <1> QED
    BY <1>3, <1>4 DEF CancelTerminalize

-----------------------------------------------------------------------------
(* Supervisors, jobs and API processes.                                     *)

\* A process becomes one that holds nothing of the queue yet.
Fresh(g) == /\ g.todo = {} /\ g.family = None
            /\ g.pc \notin {"revert", "trigger", "cancelTerminalize", "list", "mark", "delete"}
            /\ g.pc = "descendants" \/ g.pc \in {"cancelRead", "cancelMark"} => g.caller = "cancel"

LEMMA FreshFits ==
    ASSUME NEW g, Fresh(g)
    PROVE  FitsFamily(g)' /\ FitsTodo(g)' /\ FitsLabel(g)'
  BY DEF Fresh, FitsFamily, FitsTodo, FitsLabel

LEMMA StartingFresh ==
    ASSUME NEW l, l \notin Ruled
    PROVE  Fresh(Starting(l)) /\ Starting(l).pc = l /\ Starting(l).goal = "none"
  BY DEF Fresh, Ruled, Starting, Idle

LEMMA DispatchingFresh ==
    ASSUME NEW goal
    PROVE  Fresh(Dispatching(goal)) /\ Dispatching(goal).pc = "claim" /\ Dispatching(goal).goal = goal
  BY DEF Fresh, Dispatching, Idle

\* One process becomes g and leaves the rows; logs start or end perhaps.
LEMMA Becomes ==
    ASSUME IInv, Owned, NEW p \in Proc, NEW g, Become(p, g), UNCHANGED table,
           \A e \in Exec : run[e] # "none" => run'[e] # "none",
           \A e \in Exec : \/ run'[e] = run[e]
                           \/ Taken(e) /\ (run'[e] = "COMPLETED" => Over(e)'),
           \A e \in Exec : log'[e] = log[e] \/ log'[e] \in Ended \/ (log[e] = "none" /\ Taken(e)),
           g.pc # "cancelTerminalize",
           Lasting => FitsFamily(g)' /\ FitsTodo(g)' /\ FitsLabel(g)' /\ Works(p)'
    PROVE  Owned'
  <1>1. proc'[p] = g /\ \A q \in Proc : q # p => proc'[q] = proc[q]
    BY ProcFacts DEF Become
  <1>2. Lasting /\ Alone'
    BY <1>1, SameTableLasts DEF table
  <1>3. Fit(p)'
    BY <1>1, <1>2 DEF Fit, Fits
  <1>4. ASSUME NEW e \in Exec
        PROVE  /\ run'[e] = run[e] \/ (Taken(e)' /\ (run'[e] = "COMPLETED" => Over(e)'))
               /\ log'[e] = log[e] \/ Taken(e)'
    <2>1. Taken(e) => Taken(e)'
      BY <1>2 DEF Lasting
    <2>2. log'[e] \in Ended => Taken(e)'
      BY DEF Taken, Over
    <2> QED
      BY <2>1, <2>2
  <1>5. \A e \in Exec : Ledger(e)'
    BY <1>2, <1>4, LedgersKept DEF table
  <1> QED
    BY <1>1, <1>2, <1>3, <1>5, OwnedNext

\* Workers of different executions, and the two of one, are different.
LEMMA WorkerOf ==
    ASSUME NEW e \in Exec, NEW d \in Exec
    PROVE  /\ Outer(e) = Outer(d) => e = d
           /\ Inner(e) = Inner(d) => e = d
           /\ Outer(e) # Inner(d)
  BY DEF Outer, Inner

\* API processes work for no run.
LEMMA ClientWorks ==
    ASSUME NEW p \in Client
    PROVE  p \in Proc /\ Works(p)'
  <1>1. p \in Proc /\ \A e \in Exec : p # Outer(e) /\ p # Inner(e)
    BY ConstantsAssumption DEF Proc, Worker, Outer, Inner
  <1> QED
    BY <1>1 DEF Works

LEMMA EnqueueOwned ==
    ASSUME IInv, IInv', Owned, NEW p \in Client, NEW e \in Exec, Enqueue(p, e)
    PROVE  Owned'
  <1>1. p \in Proc /\ Works(p)'
    BY ClientWorks
  <1>2. log' = log /\ run' = run
    BY DEF Enqueue
  <1>3. PICK stale \in StaleRows :
          \/ UNCHANGED <<table, proc>>
          \/ /\ DropRows(stale)
             /\ Become(p, [On("snapshot", e) EXCEPT !.goal = "duplicate"])
          \/ DropRows(stale) /\ Become(p, Dispatching("wake"))
          \/ /\ e \notin Rows \ stale
             /\ status' = [f \in Exec |-> IF f = e THEN "pending"
                                          ELSE IF f \in stale THEN "absent" ELSE status[f]]
             /\ cancelRequested' = cancelRequested \ stale
             /\ ownerCompleted' = ownerCompleted \ stale
             /\ Become(p, Dispatching("once"))
    BY DEF Enqueue
  <1>4. stale \subseteq Pending
    BY DEF StaleRows
  <1>5. CASE UNCHANGED <<table, proc>>
    <2>1. Lasting /\ Alone'
      BY <1>2, <1>5, SameTableLasts DEF table
    <2>2. \A d \in Exec : Ledger(d)'
      BY <1>2, <1>5, <2>1, LedgersKept DEF table
    <2> QED
      BY <1>5, <2>1, <2>2, OwnedNext
  <1>6. ASSUME NEW g, Become(p, g), Fresh(g),
               ownerCompleted' \subseteq ownerCompleted,
               \A d \in Exec : status[d] = "processing" =>
                  status'[d] = "processing" /\ (d \in cancelRequested => d \in cancelRequested')
        PROVE  Owned'
    <2>1. proc'[p] = g /\ \A q \in Proc : q # p => proc'[q] = proc[q]
      BY <1>1, <1>6, ProcFacts DEF Become
    <2>2. Lasting /\ Alone'
      BY <1>1, <1>2, <1>6, <2>1, RowsLast DEF Fresh
    <2>3. Fit(p)'
      BY <1>1, <1>6, <2>1, FreshFits DEF Fit, Fits
    <2>4. \A d \in Exec : Ledger(d)'
      BY <1>2, <1>6, <2>2, LedgersKept
    <2> QED
      BY <2>1, <2>2, <2>3, <2>4, OwnedNext
  <1>7. Fresh([On("snapshot", e) EXCEPT !.goal = "duplicate"])
    BY DEF Fresh, On, Idle
  <1>8. CASE DropRows(stale)
    <2>1. /\ ownerCompleted' \subseteq ownerCompleted
          /\ \A d \in Exec : status[d] = "processing" =>
                status'[d] = "processing" /\ (d \in cancelRequested => d \in cancelRequested')
      BY <1>4, <1>8 DEF DropRows, Pending
    <2>2. CASE Become(p, Dispatching("wake"))
      BY <1>6, <2>1, <2>2, DispatchingFresh
    <2>3. CASE Become(p, [On("snapshot", e) EXCEPT !.goal = "duplicate"])
      BY <1>6, <1>7, <2>1, <2>3
    <2>4. CASE Become(p, Dispatching("once"))
      BY <1>6, <2>1, <2>4, DispatchingFresh
    <2> QED
      BY <1>3, <1>5, <2>2, <2>3, <2>4
  <1>9. CASE /\ e \notin Rows \ stale
             /\ status' = [f \in Exec |-> IF f = e THEN "pending"
                                          ELSE IF f \in stale THEN "absent" ELSE status[f]]
             /\ cancelRequested' = cancelRequested \ stale
             /\ ownerCompleted' = ownerCompleted \ stale
             /\ Become(p, Dispatching("once"))
    <2>1. \A d \in Exec : status[d] = "processing" =>
             status'[d] = "processing" /\ (d \in cancelRequested => d \in cancelRequested')
      BY <1>4, <1>9 DEF Pending, Rows
    <2>2. ownerCompleted' \subseteq ownerCompleted
      BY <1>9
    <2> QED
      BY <1>6, <1>9, <2>1, <2>2, DispatchingFresh
  <1> QED
    BY <1>3, <1>5, <1>8, <1>9

LEMMA ClientOwned ==
    ASSUME IInv, IInv', Owned, NEW p \in Client,
           ClientCrash(p) \/ \E e \in Exec : CancelByUser(p, e)
    PROVE  Owned'
  <1>1. p \in Proc /\ Works(p)'
    BY ClientWorks
  <1>2. PICK g : Become(p, g) /\ Fresh(g) /\ UNCHANGED <<table, log, run>>
    <2>1. Fresh(Idle)
      BY DEF Fresh, Idle
    <2>2. \A e \in Exec : Fresh([On("cancelRead", e) EXCEPT !.caller = "cancel"])
      BY DEF Fresh, On, Idle
    <2> QED
      BY <2>1, <2>2 DEF ClientCrash, CancelByUser
  <1> QED
    BY <1>1, <1>2, FreshFits, Becomes DEF Fresh


\* A worker that has an execution in hand works for its run.
LEMMA HasRun ==
    ASSUME Owned, NEW e \in Exec, NEW p \in {Outer(e), Inner(e)}, proc[p].pc # "idle"
    PROVE  run[e] # "none" /\ Taken(e) /\ Ledger(e) /\ p \in Proc
  <1>1. p \in Proc
    BY DEF Proc, Worker, Outer, Inner
  <1>2. Works(p) /\ Ledger(e)
    BY <1>1 DEF Owned, Fit
  <1> QED
    BY <1>1, <1>2 DEF Works, Ledger

LEMMA WorkerWorks ==
    ASSUME NEW e \in Exec, NEW p \in {Outer(e), Inner(e)}, NEW g, proc'[p] = g,
           g.pc = "idle" \/ run'[e] # "none",
           p = Outer(e) => /\ g.goal = "completed" => Over(e)'
                           /\ g.pc = "exit" => g.goal \in {"completed", "failed"},
           p = Inner(e) => /\ g.pc = "innerRun" => log'[e] # "none"
                           /\ g.pc \notin Starts => Over(e)'
    PROVE  Works(p)'
  <1> SUFFICES ASSUME NEW d \in Exec, p \in {Outer(d), Inner(d)}
               PROVE  /\ p \in {Outer(d), Inner(d)} /\ proc'[p].pc # "idle" => run'[d] # "none"
                      /\ p = Outer(d) /\ proc'[p].goal = "completed" => Over(d)'
                      /\ p = Outer(d) /\ proc'[p].pc = "exit" =>
                            proc'[p].goal \in {"completed", "failed"}
                      /\ p = Inner(d) /\ proc'[p].pc = "innerRun" => log'[d] # "none"
                      /\ p = Inner(d) /\ proc'[p].pc \notin Starts => Over(d)'
    BY DEF Works
  <1>1. d = e
    BY WorkerOf
  <1> QED
    BY <1>1

\* A worker takes up g, and nothing else changes but its log perhaps.
LEMMA WorkerBecomes ==
    ASSUME IInv, Owned, NEW e \in Exec, NEW p \in {Outer(e), Inner(e)}, NEW g, Become(p, g),
           proc[p].pc # "idle", UNCHANGED <<table, run>>,
           \A d \in Exec : log'[d] = log[d] \/ log'[d] \in Ended \/ (log[d] = "none" /\ Taken(d)),
           g.pc # "cancelTerminalize",
           FitsFamily(g)' /\ FitsTodo(g)' /\ FitsLabel(g)',
           p = Outer(e) => g.pc # "exit" /\ (g.goal = "completed" => Over(e)'),
           p = Inner(e) => /\ g.pc = "innerRun" => log'[e] # "none"
                           /\ g.pc \notin Starts => Over(e)'
    PROVE  Owned'
  <1>1. p \in Proc /\ run[e] # "none"
    BY HasRun
  <1>2. proc'[p] = g
    BY <1>1, ProcFacts DEF Become
  <1>3. run' = run
    OBVIOUS
  <1>4. Works(p)'
    BY <1>1, <1>2, <1>3, WorkerWorks
  <1> QED
    BY <1>1, <1>3, <1>4, Becomes

LEMMA OuterStartOwned ==
    ASSUME IInv, Owned, NEW e \in Exec, OuterStart(e)
    PROVE  Owned'
  <1>1. Outer(e) \in Proc /\ Inner(e) \in Proc /\ Outer(e) # Inner(e)
    BY ProcFacts
  <1>2. proc[Outer(e)].pc # "idle" /\ UNCHANGED <<table, log, run, request>>
    BY DEF OuterStart
  <1>3. run[e] # "none" /\ Taken(e) /\ Ledger(e)
    BY <1>1, <1>2, HasRun
  <1>4. CASE status[e] = "processing" /\ e \notin ownerCompleted
    <2>1. /\ proc'[Outer(e)] = Starting("outerWait")
          /\ proc'[Inner(e)] = Starting("innerRead") \/ proc'[Inner(e)] = proc[Inner(e)]
          /\ \A q \in Proc : q # Outer(e) /\ q # Inner(e) => proc'[q] = proc[q]
      BY <1>1, <1>4, ProcFacts DEF OuterStart
    <2>2. "outerWait" \notin Ruled /\ "innerRead" \notin Ruled /\ "innerRead" \in Starts
      BY DEF Ruled, Starts
    <2>3. \A l \in {"outerWait", "innerRead"} :
             Fresh(Starting(l)) /\ Starting(l).pc = l /\ Starting(l).goal = "none"
      BY <2>2, StartingFresh
    <2>4. \A q \in Proc : proc'[q].pc = "cancelTerminalize" => proc'[q] = proc[q]
      BY <2>1, <2>3
    <2>5. Lasting /\ Alone'
      BY <1>2, <2>4, SameTableLasts DEF table
    <2>6. Fit(Outer(e))'
      <3>1. Works(Outer(e))'
        BY <1>1, <1>2, <1>3, <2>1, <2>3, WorkerWorks
      <3> QED
        BY <2>1, <2>3, <3>1, FreshFits DEF Fit, Fits
    <2>7. proc'[Inner(e)] = proc[Inner(e)] \/ Fit(Inner(e))'
      <3> SUFFICES ASSUME proc'[Inner(e)] = Starting("innerRead")
                   PROVE  Fit(Inner(e))'
        BY <2>1
      <3>1. Works(Inner(e))'
        BY <1>1, <1>2, <1>3, <2>2, <2>3, WorkerWorks
      <3> QED
        BY <2>3, <3>1, FreshFits DEF Fit, Fits
    <2>8. \A d \in Exec : Ledger(d)'
      BY <1>2, <2>5, LedgersKept DEF table
    <2> QED
      BY <1>1, <2>1, <2>5, <2>6, <2>7, <2>8, OwnedNext
  <1>5. CASE ~(status[e] = "processing" /\ e \notin ownerCompleted)
    <2>1. Over(e)
      BY <1>3, <1>5 DEF Taken, Ledger
    <2>2. Over(e)'
      BY <1>2, <2>1 DEF Over
    <2>3. Become(Outer(e), Dispatching("completed"))
      BY <1>5 DEF OuterStart
    <2>4. /\ Fresh(Dispatching("completed")) /\ Dispatching("completed").pc = "claim"
      BY DispatchingFresh
    <2> QED
      BY <1>1, <1>2, <2>2, <2>3, <2>4, FreshFits, WorkerBecomes
  <1> QED
    BY <1>4, <1>5

LEMMA OuterWaitOwned ==
    ASSUME IInv, Owned, NEW e \in Exec, OuterWait(e)
    PROVE  Owned'
  <1>1. Outer(e) \in Proc /\ Inner(e) \in Proc /\ Outer(e) # Inner(e)
    BY ProcFacts
  <1>2. proc[Outer(e)].pc # "idle" /\ UNCHANGED <<table, log, run, request>>
    BY DEF OuterWait
  <1>3. CASE proc[Inner(e)].pc = "ok" /\ Become(Outer(e), Dispatching("completed"))
    <2>1. Works(Inner(e))
      BY <1>1 DEF Owned, Fit
    <2>2. Over(e)
      BY <1>3, <2>1 DEF Works, Starts
    <2>3. Over(e)'
      BY <1>2, <2>2 DEF Over
    <2>4. /\ Fresh(Dispatching("completed")) /\ Dispatching("completed").pc = "claim"
      BY DispatchingFresh
    <2> QED
      BY <1>1, <1>2, <1>3, <2>3, <2>4, FreshFits, WorkerBecomes
  <1>4. CASE Become(Outer(e), Starting("outerFailed"))
    <2>1. "outerFailed" \notin Ruled
      BY DEF Ruled
    <2>2. /\ Fresh(Starting("outerFailed")) /\ Starting("outerFailed").pc = "outerFailed"
          /\ Starting("outerFailed").goal = "none"
      BY <2>1, StartingFresh
    <2> QED
      BY <1>1, <1>2, <1>4, <2>2, FreshFits, WorkerBecomes
  <1> QED
    BY <1>3, <1>4 DEF OuterWait

LEMMA OuterFailedOwned ==
    ASSUME IInv, Owned, NEW e \in Exec, OuterFailed(e)
    PROVE  Owned'
  <1>1. Outer(e) \in Proc /\ Inner(e) \in Proc /\ Outer(e) # Inner(e)
    BY ProcFacts
  <1>2. proc[Outer(e)].pc # "idle" /\ UNCHANGED <<table, log, run, request>>
    BY DEF OuterFailed
  <1>3. Taken(e)
    BY <1>1, <1>2, HasRun
  <1>4. CASE status[e] = "processing"
    <2> PICK g : g = [On("terminalize", e) EXCEPT !.caller = "outer"]
      OBVIOUS
    <2>1. Become(Outer(e), g)
      BY <1>4 DEF OuterFailed
    <2>2. Fresh(g) /\ g.pc = "terminalize" /\ g.goal = "none"
      BY DEF Fresh, On, Idle
    <2> QED
      BY <1>1, <1>2, <2>1, <2>2, FreshFits, WorkerBecomes
  <1>5. CASE status[e] # "processing"
    <2>1. Over(e)
      BY <1>3, <1>5 DEF Taken
    <2>2. Over(e)'
      BY <1>2, <2>1 DEF Over
    <2>3. Become(Outer(e), Dispatching("completed"))
      BY <1>5 DEF OuterFailed
    <2>4. /\ Fresh(Dispatching("completed")) /\ Dispatching("completed").pc = "claim"
      BY DispatchingFresh
    <2> QED
      BY <1>1, <1>2, <2>2, <2>3, <2>4, FreshFits, WorkerBecomes
  <1> QED
    BY <1>4, <1>5

\* A run ends; it completes only when its execution is over.
LEMMA EndRunOwned ==
    ASSUME IInv, Owned, NEW e \in Exec, NEW outcome \in {"FAILED", "COMPLETED"},
           EndRun(e, outcome), proc[Outer(e)].pc # "idle", outcome = "COMPLETED" => Over(e)
    PROVE  Owned'
  <1>1. Outer(e) \in Proc
    BY ProcFacts
  <1>2. /\ run' = [run EXCEPT ![e] = outcome] /\ Become(Outer(e), Idle)
        /\ UNCHANGED <<table, log, request>>
    BY DEF EndRun
  <1>3. Taken(e)
    BY HasRun
  <1>4. /\ run'[e] = outcome
        /\ \A d \in Exec : d # e => run'[d] = run[d]
    BY <1>2, Parts DEF RestOK
  <1>5. Over(e)' <=> Over(e)
    BY <1>2 DEF Over
  <1>6. \A d \in Exec : run[d] # "none" => run'[d] # "none"
    BY <1>4
  <1>7. ASSUME NEW d \in Exec
        PROVE  run'[d] = run[d] \/ (Taken(d) /\ (run'[d] = "COMPLETED" => Over(d)'))
    BY <1>3, <1>4, <1>5
  <1>8. Idle.pc = "idle" /\ Idle.goal = "none" /\ Fresh(Idle)
    BY DEF Idle, Fresh
  <1>9. proc'[Outer(e)] = Idle
    BY <1>1, <1>2, ProcFacts DEF Become
  <1>10. Outer(e) # Inner(e)
    BY ProcFacts
  <1>11. Works(Outer(e))'
    BY <1>8, <1>9, <1>10, WorkerWorks
  <1> QED
    BY <1>1, <1>2, <1>6, <1>7, <1>8, <1>11, FreshFits, Becomes

LEMMA OuterExitOwned ==
    ASSUME IInv, Owned, NEW e \in Exec, OuterExit(e)
    PROVE  Owned'
  <1> PICK f : f = proc[Outer(e)]
    OBVIOUS
  <1>1. f.pc = "exit" /\ EndRun(e, IF f.goal = "failed" THEN "FAILED" ELSE "COMPLETED")
    BY DEF OuterExit
  <1>2. Works(Outer(e))
    BY ProcFacts DEF Owned, Fit
  <1>3. f.goal \in {"completed", "failed"} /\ (f.goal = "completed" => Over(e))
    BY <1>1, <1>2 DEF Works
  <1>4. CASE f.goal = "failed"
    BY <1>1, <1>4, EndRunOwned
  <1>5. CASE f.goal = "completed"
    BY <1>1, <1>3, <1>5, EndRunOwned
  <1> QED
    BY <1>3, <1>4, <1>5

LEMMA OuterCrashOwned ==
    ASSUME IInv, Owned, NEW e \in Exec, OuterCrash(e)
    PROVE  Owned'
  <1>1. Outer(e) \in Proc /\ Inner(e) \in Proc /\ Outer(e) # Inner(e)
    BY ProcFacts
  <1>2. proc[Outer(e)].pc # "idle"
    BY DEF OuterCrash
  <1>3. CASE Become(Outer(e), Starting("outerStart")) /\ UNCHANGED <<table, log, run, request>>
    <2>1. "outerStart" \notin Ruled
      BY DEF Ruled
    <2>2. /\ Fresh(Starting("outerStart")) /\ Starting("outerStart").pc = "outerStart"
          /\ Starting("outerStart").goal = "none"
      BY <2>1, StartingFresh
    <2> QED
      BY <1>1, <1>2, <1>3, <2>2, FreshFits, WorkerBecomes
  <1>4. CASE EndRun(e, "FAILED")
    BY <1>2, <1>4, EndRunOwned
  <1> QED
    BY <1>3, <1>4 DEF OuterCrash

LEMMA InnerReadOwned ==
    ASSUME IInv, Owned, NEW e \in Exec, InnerRead(e)
    PROVE  Owned'
  <1>1. Outer(e) \in Proc /\ Inner(e) \in Proc /\ Outer(e) # Inner(e)
    BY ProcFacts
  <1>2. proc[Inner(e)].pc # "idle" /\ UNCHANGED <<table, log, run, request>>
    BY DEF InnerRead
  <1>3. Taken(e)
    BY <1>1, <1>2, HasRun
  <1>4. /\ "innerStart" \notin Ruled /\ "ok" \notin Ruled /\ "innerStart" \in Starts
    BY DEF Ruled, Starts
  <1>5. \A l \in {"innerStart", "ok"} :
           Fresh(Starting(l)) /\ Starting(l).pc = l /\ Starting(l).goal = "none"
    BY <1>4, StartingFresh
  <1>6. CASE status[e] = "processing"
    <2>1. Become(Inner(e), Starting("innerStart"))
      BY <1>6 DEF InnerRead
    <2> QED
      BY <1>1, <1>2, <1>4, <1>5, <2>1, FreshFits, WorkerBecomes
  <1>7. CASE status[e] # "processing"
    <2>1. Become(Inner(e), Starting("ok"))
      BY <1>7 DEF InnerRead
    <2>2. Over(e)'
      BY <1>2, <1>3, <1>7 DEF Taken, Over
    <2> QED
      BY <1>1, <1>2, <1>5, <2>1, <2>2, FreshFits, WorkerBecomes
  <1> QED
    BY <1>6, <1>7

LEMMA InnerStartOwned ==
    ASSUME IInv, Owned, NEW e \in Exec, InnerStart(e)
    PROVE  Owned'
  <1>1. Outer(e) \in Proc /\ Inner(e) \in Proc /\ Outer(e) # Inner(e)
    BY ProcFacts
  <1>2. /\ proc[Inner(e)].pc # "idle" /\ UNCHANGED <<table, run, request>>
        /\ log' = [log EXCEPT ![e] = IF @ = "none" THEN "running" ELSE @]
    BY DEF InnerStart
  <1>3. Taken(e)
    BY <1>1, <1>2, HasRun
  <1>4. /\ \A d \in Exec : log'[d] = log[d] \/ (log[d] = "none" /\ Taken(d))
        /\ log'[e] # "none"
    BY <1>2, <1>3, Parts DEF RestOK
  <1>5. /\ "innerRun" \notin Ruled /\ "failed" \notin Ruled
        /\ "innerRun" \in Starts /\ "failed" \in Starts
    BY DEF Ruled, Starts
  <1>6. PICK l \in {"innerRun", "failed"} : Become(Inner(e), Starting(l))
    BY DEF InnerStart
  <1>7. Fresh(Starting(l)) /\ Starting(l).pc = l
    BY <1>5, StartingFresh
  <1> QED
    BY <1>1, <1>2, <1>4, <1>5, <1>6, <1>7, FreshFits, WorkerBecomes

LEMMA RequestChildOwned ==
    ASSUME IInv, Owned, NEW e \in Exec, NEW c \in Exec, RequestChild(e, c)
    PROVE  Owned'
  <1>1. /\ proc' = proc /\ status' = status /\ cancelRequested' = cancelRequested
        /\ ownerCompleted' = ownerCompleted /\ log' = log /\ run' = run
    BY DEF RequestChild, table
  <1>2. Lasting /\ Alone'
    BY <1>1, SameTableLasts
  <1>3. \A d \in Exec : Ledger(d)'
    BY <1>1, <1>2, LedgersKept
  <1> QED
    BY <1>1, <1>2, <1>3, OwnedNext

\* The job has written the end of the log and settles its row.
LEMMA JobEndsOwned ==
    ASSUME IInv, Owned, NEW e \in Exec, JobSucceeds(e) \/ JobFails(e)
    PROVE  Owned'
  <1>1. Outer(e) \in Proc /\ Inner(e) \in Proc /\ Outer(e) # Inner(e)
    BY ProcFacts
  <1>2. PICK outcome \in Ended, l \in {"list", "descendants"} :
          /\ EndLog(e, outcome)
          /\ Become(Inner(e), [On(l, e) EXCEPT !.caller = "inner"])
          /\ proc[Inner(e)].pc # "idle" /\ UNCHANGED <<table, run, request>>
    <2>1. "success" \in Ended /\ "error" \in Ended
      BY DEF Ended
    <2>2. CASE JobSucceeds(e)
      BY <2>1, <2>2 DEF JobSucceeds
    <2>3. CASE JobFails(e)
      BY <2>1, <2>3 DEF JobFails
    <2> QED
      BY <2>2, <2>3
  <1>3. \A d \in Exec : log'[d] = log[d] \/ log'[d] \in Ended
    BY <1>2, Parts DEF RestOK, EndLog
  <1>4. Over(e)'
    BY <1>2, Parts DEF RestOK, EndLog, Over
  <1> PICK g : g = [On(l, e) EXCEPT !.caller = "inner"]
    OBVIOUS
  <1>5. /\ g.pc = l /\ g.exec = e /\ g.caller = "inner" /\ g.todo = {} /\ g.family = None
    BY DEF On, Idle
  <1>6. l \notin Dispatches
    BY DEF Dispatches
  <1>7. FitsFamily(g)' /\ FitsTodo(g)'
    BY <1>5 DEF FitsFamily, FitsTodo
  <1>8. FitsLabel(g)'
    BY <1>4, <1>5 DEF FitsLabel
  <1> QED
    BY <1>1, <1>2, <1>3, <1>4, <1>5, <1>7, <1>8, WorkerBecomes

LEMMA InnerKilledOwned ==
    ASSUME IInv, Owned, NEW e \in Exec, InnerKilled(e)
    PROVE  Owned'
  <1>1. Outer(e) \in Proc /\ Inner(e) \in Proc /\ Outer(e) # Inner(e)
    BY ProcFacts
  <1>2. /\ proc[Inner(e)].pc # "idle" /\ UNCHANGED <<table, log, run, request>>
        /\ Become(Inner(e), Starting("failed"))
    BY DEF InnerKilled
  <1>3. "failed" \notin Ruled /\ "failed" \in Starts
    BY DEF Ruled, Starts
  <1>4. Fresh(Starting("failed")) /\ Starting("failed").pc = "failed"
    BY <1>3, StartingFresh
  <1> QED
    BY <1>1, <1>2, <1>3, <1>4, FreshFits, WorkerBecomes

LEMMA StutterOwned ==
    ASSUME IInv, Owned, UNCHANGED vars
    PROVE  Owned'
  <1>1. /\ proc' = proc /\ status' = status /\ cancelRequested' = cancelRequested
        /\ ownerCompleted' = ownerCompleted /\ log' = log /\ run' = run
    BY DEF vars
  <1>2. Lasting /\ Alone'
    BY <1>1, SameTableLasts
  <1>3. \A d \in Exec : Ledger(d)'
    BY <1>1, <1>2, LedgersKept
  <1> QED
    BY <1>1, <1>2, <1>3, OwnedNext

-----------------------------------------------------------------------------
(* The invariant, and what it says of the executions that run.              *)

LEMMA InitOwned == Init => Owned
  <1> SUFFICES ASSUME Init
               PROVE  Owned
    OBVIOUS
  <1>1. \A p \in Proc : proc[p] = Idle
    BY DEF Init
  <1>2. /\ Idle.pc = "idle" /\ Idle.goal = "none" /\ Idle.family = None /\ Idle.todo = {}
    BY DEF Idle
  <1>3. \A p \in Proc : Fit(p)
    <2> SUFFICES ASSUME NEW p \in Proc
                 PROVE  Fit(p)
      OBVIOUS
    <2>1. FitsFamily(proc[p]) /\ FitsTodo(proc[p]) /\ FitsLabel(proc[p])
      BY <1>1, <1>2 DEF FitsFamily, FitsTodo, FitsLabel, Dispatches
    <2>2. Works(p)
      BY <1>1, <1>2 DEF Works, Starts
    <2> QED
      BY <2>1, <2>2 DEF Fit, Fits
  <1>4. \A e \in Exec : Ledger(e)
    BY DEF Init, Ledger
  <1>5. Alone
    BY <1>1, <1>2 DEF Alone
  <1> QED
    BY <1>3, <1>4, <1>5 DEF Owned

LEMMA NextOwned ==
    ASSUME NothingRefused, IInv, IInv', Owned, [Next]_vars
    PROVE  Owned'
  <1>1. ASSUME NEW p \in Proc, Dispatch(p)
        PROVE  Owned'
    <2>1. ~Revert(p)
      BY DEF Revert, Owned, Fit, Fits, FitsLabel
    <2> QED
      BY <1>1, <2>1, ClaimOwned, TakeSnapshotOwned, ReconcileOwned, CheckReleasedOwned,
         TriggerOwned, RecheckRowOwned DEF Dispatch
  <1>2. ASSUME NEW p \in Proc, Settle(p)
        PROVE  Owned'
    BY <1>2, ListChildrenOwned, MarkOwnerCompletedOwned, RecheckOwnerOwned, DeleteOwned
       DEF Settle
  <1>3. ASSUME NEW p \in Proc, Finalize(p)
        PROVE  Owned'
    BY <1>3, TerminalizeOwned, ListDescendantsOwned, NextDescendantOwned,
       CancelDescendantRunOwned DEF Finalize
  <1>4. ASSUME NEW p \in Proc, Cancel(p)
        PROVE  Owned'
    BY <1>4, CancelReadOwned, CancelMarkOwned, CancelClaimOwned, CancelTerminalizeOwned
       DEF Cancel
  <1>5. ASSUME NEW p \in Client, NEW e \in Exec, Enqueue(p, e) \/ CancelByUser(p, e)
        PROVE  Owned'
    BY <1>5, EnqueueOwned, ClientOwned
  <1>6. ASSUME NEW e \in Exec, Supervise(e)
        PROVE  Owned'
    BY <1>6, OuterStartOwned, OuterWaitOwned, OuterFailedOwned, OuterExitOwned DEF Supervise
  <1>7. ASSUME NEW e \in Exec, RunJob(e)
        PROVE  Owned'
    BY <1>7, InnerReadOwned, InnerStartOwned, JobEndsOwned, RequestChildOwned DEF RunJob
  <1>8. ASSUME NEW e \in Exec, OuterCrash(e) \/ InnerKilled(e)
        PROVE  Owned'
    BY <1>8, OuterCrashOwned, InnerKilledOwned
  <1>9. ASSUME NEW p \in Client, ClientCrash(p)
        PROVE  Owned'
    BY <1>9, ClientOwned
  <1> QED
    BY <1>1, <1>2, <1>3, <1>4, <1>5, <1>6, <1>7, <1>8, <1>9, StutterOwned DEF Next

LEMMA OwnedHolds ==
    ASSUME NothingRefused
    PROVE  Spec => [](IInv /\ Owned)
  <1>1. IInv /\ Owned /\ [Next]_vars => IInv' /\ Owned'
    BY NextKeeps, NextOwned
  <1> QED
    BY <1>1, InitHolds, InitOwned, PTL DEF Spec

\* An execution that has started and not ended holds its row, whatever crashes,
\* is killed, lost, cancelled or submitted again, for any number of processes:
\* only a trigger that is refused gives a row back under its run.
THEOREM RunningHolds == NothingRefused => (Spec => []RunningHoldsRow)
  <1> SUFFICES ASSUME NothingRefused
               PROVE  Spec => []RunningHoldsRow
    OBVIOUS
  <1>1. IInv /\ Owned => RunningHoldsRow
    BY LogFacts DEF Owned, Ledger, Taken, RunningHoldsRow
  <1> QED
    BY <1>1, OwnedHolds, PTL

-----------------------------------------------------------------------------
(* The refinement: what a step does to the rows and the logs.               *)

\* The execution has been submitted.
Known(e) == Over(e) \/ status[e] # "absent"

\* A process ends no log of, and has read no row of, an execution that was never
\* submitted.
Seen(f) == /\ f.pc = "terminalize" => Known(f.exec)
           /\ \A row \in f.todo : Known(row.id)

Recorded == \A p \in Proc : Seen(proc[p])

\* The effects a step may have on rows and logs.
Admits(e) == /\ log[e] = "none" /\ status[e] = "absent" /\ status'[e] # "absent"
             /\ \A d \in Exec \ {e} : status'[d] = status[d]
             /\ log' = log
Removes(e) == /\ Over(e) /\ log' = log
              /\ \A d \in Exec \ {e} : status'[d] = status[d]
Begins(e) == /\ log[e] = "none" /\ status[e] # "absent" /\ status' = status
             /\ log' = [log EXCEPT ![e] = "running"]
Finishes(e) == /\ Known(e) /\ status' = status
               /\ \E outcome \in Ended : /\ EndLog(e, outcome)
                                         /\ outcome = "error" \/ log[e] # "none"
Keeps == log' = log /\ \A d \in Exec : status'[d] = "absent" <=> status[d] = "absent"

Effect == Keeps \/ \E e \in Exec : Admits(e) \/ Removes(e) \/ Begins(e) \/ Finishes(e)

LEMMA Untouched ==
    ASSUME UNCHANGED <<status, log>>
    PROVE  Effect
  BY DEF Effect, Keeps

LEMMA SetStatusEffect ==
    ASSUME IInv, NEW e, NEW s \in {"pending", "processing"}, SetStatus(e, s),
           status[e] # "absent", log' = log
    PROVE  Effect
  <1>1. status \in [Exec -> {"absent", "pending", "processing"}]
    BY Parts DEF TableOK
  <1> QED
    BY <1>1 DEF SetStatus, Effect, Keeps

LEMMA EnqueueEffect ==
    ASSUME NothingExpires, IInv, NEW p \in Client, NEW e \in Exec, Enqueue(p, e)
    PROVE  Effect
  <1>1. \A stale \in StaleRows : stale = {}
    BY DEF StaleRows, NothingExpires
  <1>2. log' = log
    BY DEF Enqueue
  <1>3. \/ UNCHANGED table
        \/ DropRows({})
        \/ /\ e \notin Rows /\ log[e] = "none"
           /\ status' = [f \in Exec |-> IF f = e THEN "pending"
                                        ELSE IF f \in {} THEN "absent" ELSE status[f]]
    BY <1>1 DEF Enqueue
  <1>4. CASE UNCHANGED table
    BY <1>2, <1>4, Untouched DEF table
  <1>5. CASE DropRows({})
    BY <1>2, <1>5 DEF DropRows, Effect, Keeps
  <1>6. CASE /\ e \notin Rows /\ log[e] = "none"
             /\ status' = [f \in Exec |-> IF f = e THEN "pending"
                                          ELSE IF f \in {} THEN "absent" ELSE status[f]]
    <2>1. Admits(e)
      BY <1>2, <1>6 DEF Admits, Rows
    <2> QED
      BY <2>1 DEF Effect
  <1> QED
    BY <1>3, <1>4, <1>5, <1>6

LEMMA DispatchEffect ==
    ASSUME IInv, NEW p \in Proc, Dispatch(p)
    PROVE  Effect
  <1>1. CASE Claim(p)
    <2>1. log' = log
      BY <1>1 DEF Claim
    <2>2. CASE \E e \in Exec : Candidate(e) /\ SetStatus(e, "processing")
      BY <2>1, <2>2, SetStatusEffect DEF Candidate, Pending
    <2>3. CASE status' = status
      BY <2>1, <2>3, Untouched
    <2> QED
      BY <1>1, <2>2, <2>3 DEF Claim
  <1>2. CASE Revert(p)
    <2>1. log' = log
      BY <1>2 DEF Revert
    <2>2. CASE status[proc[p].exec] = "processing" /\ SetStatus(proc[p].exec, "pending")
      BY <2>1, <2>2, SetStatusEffect
    <2>3. CASE status' = status
      BY <2>1, <2>3, Untouched
    <2> QED
      BY <1>2, <2>2, <2>3 DEF Revert
  <1>3. CASE TakeSnapshot(p) \/ Reconcile(p) \/ CheckReleased(p) \/ Trigger(p) \/ RecheckRow(p)
    BY <1>3, Untouched DEF TakeSnapshot, Reconcile, CheckReleased, Trigger, RecheckRow, table
  <1> QED
    BY <1>1, <1>2, <1>3 DEF Dispatch

LEMMA SettleEffect ==
    ASSUME IInv, Owned, NEW p \in Proc, Settle(p)
    PROVE  Effect
  <1>1. CASE Delete(p)
    <2> PICK e : e = proc[p].exec
      OBVIOUS
    <2>1. proc[p].pc = "delete" /\ DropRows({e}) /\ log' = log
      BY <1>1 DEF Delete
    <2>2. e \in Exec
      BY <2>1, ProcFacts, FrameFacts DEF Ruled
    <2>3. Over(e)
      BY <2>1 DEF Owned, Fit, Fits, FitsLabel
    <2>4. Removes(e)
      BY <2>1, <2>3 DEF Removes, DropRows
    <2> QED
      BY <2>2, <2>4 DEF Effect
  <1>2. CASE ListChildren(p) \/ MarkOwnerCompleted(p) \/ RecheckOwner(p)
    BY <1>2, Untouched DEF ListChildren, MarkOwnerCompleted, RecheckOwner, table
  <1> QED
    BY <1>1, <1>2 DEF Settle

LEMMA FinalizeEffect ==
    ASSUME IInv, Recorded, NEW p \in Proc, Finalize(p)
    PROVE  Effect
  <1>1. CASE ListDescendants(p) \/ NextDescendant(p)
    BY <1>1, Untouched DEF ListDescendants, NextDescendant, table
  <1>2. "error" \in Ended
    BY DEF Ended
  <1> PICK e : e = proc[p].exec
    OBVIOUS
  <1>3. CASE Terminalize(p)
    <2>1. proc[p].pc = "terminalize" /\ EndLog(e, "error") /\ status' = status
      BY <1>3 DEF Terminalize, table
    <2>2. e \in Exec
      BY <2>1, ProcFacts, FrameFacts DEF WithRow
    <2>3. Known(e)
      BY <2>1 DEF Recorded, Seen
    <2>4. Finishes(e)
      BY <1>2, <2>1, <2>3 DEF Finishes
    <2> QED
      BY <2>2, <2>4 DEF Effect
  <1>4. CASE CancelDescendantRun(p)
    <2>1. proc[p].pc = "kidRun" /\ status' = status
      BY <1>4 DEF CancelDescendantRun, table
    <2>2. CASE log' = log
      BY <2>1, <2>2, Untouched
    <2>3. CASE status[e] = "processing" /\ EndLog(e, "error")
      <3>1. e \in Exec
        BY <2>1, ProcFacts, FrameFacts DEF WithRow
      <3>2. Finishes(e)
        BY <1>2, <2>1, <2>3 DEF Finishes, Known
      <3> QED
        BY <3>1, <3>2 DEF Effect
    <2> QED
      BY <1>4, <2>2, <2>3 DEF CancelDescendantRun
  <1> QED
    BY <1>1, <1>3, <1>4 DEF Finalize

LEMMA CancelEffect ==
    ASSUME IInv, Owned, NEW p \in Proc, Cancel(p)
    PROVE  Effect
  <1> PICK e : e = proc[p].exec
    OBVIOUS
  <1>1. CASE CancelRead(p) \/ CancelMark(p)
    BY <1>1, Untouched DEF CancelRead, CancelMark, table
  <1>2. CASE CancelClaim(p)
    <2>1. log' = log
      BY <1>2 DEF CancelClaim
    <2>2. CASE status[e] = "pending" /\ SetStatus(e, "processing")
      BY <2>1, <2>2, SetStatusEffect
    <2>3. CASE status' = status
      BY <2>1, <2>3, Untouched
    <2> QED
      BY <1>2, <2>2, <2>3 DEF CancelClaim, table
  <1>3. CASE CancelTerminalize(p)
    <2>1. proc[p].pc = "cancelTerminalize"
      BY <1>3 DEF CancelTerminalize
    <2>2. e \in Exec
      BY <2>1, ProcFacts, FrameFacts DEF Ruled
    <2>3. CASE EndLog(e, "error") /\ status' = status
      <3>1. Claimed(e)
        BY <2>1 DEF Owned, Fit, Fits, FitsLabel
      <3>2. Finishes(e)
        BY <2>3, <3>1 DEF Finishes, Known, Claimed, Ended
      <3> QED
        BY <2>2, <3>2 DEF Effect
    <2>4. CASE log' = log /\ status[e] = "processing" /\ SetStatus(e, "pending")
      BY <2>4, SetStatusEffect
    <2>5. CASE log' = log /\ status' = status
      BY <2>5, Untouched
    <2> QED
      BY <1>3, <2>3, <2>4, <2>5 DEF CancelTerminalize, table
  <1> QED
    BY <1>1, <1>2, <1>3 DEF Cancel

LEMMA JobEffect ==
    ASSUME IInv, Owned, NEW e \in Exec, RunJob(e)
    PROVE  Effect
  <1>1. Inner(e) \in Proc
    BY ProcFacts
  <1>2. CASE InnerRead(e) \/ \E c \in Exec : RequestChild(e, c)
    BY <1>2, Untouched DEF InnerRead, RequestChild, table
  <1>3. CASE InnerStart(e)
    <2>1. /\ proc[Inner(e)].pc # "idle" /\ status' = status
          /\ log' = [log EXCEPT ![e] = IF @ = "none" THEN "running" ELSE @]
      BY <1>3 DEF InnerStart, table
    <2>2. Taken(e)
      BY <2>1, HasRun
    <2>3. CASE log[e] = "none"
      <3>1. Begins(e)
        BY <2>1, <2>2, <2>3 DEF Begins, Taken, Over, Ended
      <3> QED
        BY <3>1 DEF Effect
    <2>4. CASE log[e] # "none"
      <3>1. log' = log
        BY <2>1, <2>4, Parts DEF RestOK
      <3> QED
        BY <2>1, <3>1, Untouched
    <2> QED
      BY <2>3, <2>4
  <1>4. CASE JobSucceeds(e) \/ JobFails(e)
    <2>1. proc[Inner(e)].pc = "innerRun" /\ status' = status
      BY <1>4 DEF JobSucceeds, JobFails, table
    <2>2. log[e] # "none"
      BY <1>1, <2>1 DEF Owned, Fit, Works
    <2>3. Known(e)
      BY <2>2 DEF Owned, Ledger, Taken, Known
    <2>4. \E outcome \in Ended : EndLog(e, outcome)
      BY <1>4 DEF JobSucceeds, JobFails, Ended
    <2>5. Finishes(e)
      BY <2>1, <2>2, <2>3, <2>4 DEF Finishes
    <2> QED
      BY <2>5 DEF Effect
  <1> QED
    BY <1>2, <1>3, <1>4 DEF RunJob

LEMMA Effects ==
    ASSUME NothingExpires, IInv, Owned, Recorded, [Next]_vars
    PROVE  Effect
  <1>1. CASE UNCHANGED vars
    BY <1>1, Untouched DEF vars
  <1>2. ASSUME NEW p \in Proc, Dispatch(p) \/ Settle(p) \/ Finalize(p) \/ Cancel(p)
        PROVE  Effect
    BY <1>2, DispatchEffect, SettleEffect, FinalizeEffect, CancelEffect
  <1>3. ASSUME NEW p \in Client, NEW e \in Exec, Enqueue(p, e)
        PROVE  Effect
    BY <1>3, EnqueueEffect
  <1>4. ASSUME NEW p \in Client,
               ClientCrash(p) \/ \E e \in Exec : CancelByUser(p, e)
        PROVE  Effect
    BY <1>4, Untouched DEF ClientCrash, CancelByUser, table
  <1>5. ASSUME NEW e \in Exec, Supervise(e) \/ OuterCrash(e) \/ InnerKilled(e)
        PROVE  Effect
    BY <1>5, Untouched DEF Supervise, OuterStart, OuterWait, OuterFailed, OuterExit,
       OuterCrash, InnerKilled, EndRun, table
  <1>6. ASSUME NEW e \in Exec, RunJob(e)
        PROVE  Effect
    BY <1>6, JobEffect
  <1> QED
    BY <1>1, <1>2, <1>3, <1>4, <1>5, <1>6 DEF Next

-----------------------------------------------------------------------------
(* The refinement: what processes have read of the rows.                    *)

LEMMA KnownLasts ==
    ASSUME IInv, Effect, NEW e \in Exec, Known(e)
    PROVE  Known(e)'
  <1>1. log \in [Exec -> {"none", "running"} \cup Ended]
    BY Parts DEF RestOK
  <1>2. CASE Keeps
    BY <1>2 DEF Keeps, Known, Over
  <1>3. ASSUME NEW d \in Exec, Admits(d) \/ Removes(d)
        PROVE  Known(e)'
    BY <1>3 DEF Admits, Removes, Known, Over, Ended
  <1>4. ASSUME NEW d \in Exec, Begins(d) \/ Finishes(d)
        PROVE  Known(e)'
    <2>1. status' = status /\ (log'[e] = log[e] \/ log'[e] \in Ended \/ log[e] = "none")
      BY <1>1, <1>4 DEF Begins, Finishes, EndLog
    <2> QED
      BY <2>1 DEF Known, Over, Ended
  <1> QED
    BY <1>2, <1>3, <1>4 DEF Effect

\* The process reads no row and is to end no log.
Modest(f, g) == g.todo \subseteq f.todo /\ g.pc # "terminalize"

LEMMA RecordedNext ==
    ASSUME IInv, Recorded, Effect,
           \A q \in Proc : \/ proc'[q] = proc[q]
                           \/ Modest(proc[q], proc'[q])
                           \/ \E g \in Frames : proc'[q] = g /\ Seen(g)
    PROVE  Recorded'
  <1>1. \A f \in Frames : /\ \A row \in f.todo : row.id \in Exec
                          /\ f.pc = "terminalize" => f.exec \in Exec
    BY FrameFacts DEF WithRow
  <1>2. ASSUME NEW f \in Frames, Seen(f), NEW g, Modest(f, g)
        PROVE  Seen(g)'
    BY <1>1, <1>2, KnownLasts DEF Seen, Modest
  <1>3. ASSUME NEW g \in Frames, Seen(g)
        PROVE  Seen(g)'
    BY <1>1, <1>3, KnownLasts DEF Seen
  <1>4. ASSUME NEW q \in Proc
        PROVE  Seen(proc[q])'
    <2> PICK f, g : f = proc[q] /\ g = proc'[q]
      OBVIOUS
    <2>1. f \in Frames /\ Seen(f)
      BY ProcFacts DEF Recorded
    <2>2. Seen(g)'
      BY <1>2, <1>3, <2>1
    <2> QED
      BY <2>2
  <1> QED
    BY <1>4 DEF Recorded

LEMMA ModestFrames ==
    ASSUME NEW f, NEW g, g \in Frame, g.todo \subseteq f.todo
    PROVE  /\ Modest(f, Idle) /\ Modest(f, Dispatched(g)) /\ Modest(f, Thrown(g))
           /\ Modest(f, Reconciled(g)) /\ Modest(f, NextRow(g))
           /\ \A goal : Modest(f, Dispatching(goal))
           /\ \A l : l # "terminalize" => Modest(f, Starting(l)) /\ Modest(f, To(g, l))
  <1>1. /\ Modest(f, Idle)
        /\ \A l \in {"claim", "claimAgain"} : Modest(f, Again(g, l))
        /\ \A goal : Modest(f, Dispatching(goal))
    BY DEF Modest, Again, On, Dispatching, Idle
  <1>2. \A l : l # "terminalize" => Modest(f, Starting(l))
    BY DEF Modest, Starting, Idle
  <1>3. ASSUME NEW l, l # "terminalize"
        PROVE  Modest(f, To(g, l))
    <2> PICK h : h = To(g, l)
      OBVIOUS
    <2>1. h.pc = l /\ h.todo = g.todo
      BY DEF To, Frame
    <2> QED
      BY <1>3, <2>1 DEF Modest
  <1>4. Modest(f, NextRow(g))
    <2> PICK h : h = NextRow(g)
      OBVIOUS
    <2>1. h.pc = "reconcile" /\ h.todo = g.todo
      BY DEF NextRow, Frame
    <2> QED
      BY <2>1 DEF Modest
  <1> QED
    BY <1>1, <1>2, <1>3, <1>4 DEF Dispatched, Thrown, Reconciled

LEMMA ModestEnds ==
    ASSUME NEW f \in Frame
    PROVE  /\ Modest(f, Settled(f)) /\ Modest(f, Drained(f))
           /\ Modest(f, Admitted(f)) /\ Modest(f, AdmissionThrown(f))
           /\ Modest(f, NothingCancelled(f))
  <1>1. \A e : Modest(f, [On("recheck", e) EXCEPT !.caller = "cancel"])
    BY DEF Modest, On, Idle
  <1> QED
    BY <1>1, ModestFrames
       DEF Settled, Drained, Admitted, AdmissionThrown, NothingCancelled

LEMMA BecomesSeen ==
    ASSUME IInv, IInv', Recorded, Effect, NEW p \in Proc, NEW g, Become(p, g),
           Modest(proc[p], g) \/ Seen(g)
    PROVE  Recorded'
  <1>1. proc'[p] = g /\ \A q \in Proc : q # p => proc'[q] = proc[q]
    BY ProcFacts DEF Become
  <1>2. g \in Frames
    BY <1>1 DEF IInv
  <1> QED
    BY <1>1, <1>2, RecordedNext

\* A row that a process knows is reconciled: its log is not ended unknown.
LEMMA ReconcileRowSeen ==
    ASSUME IInv, IInv', Recorded, Effect, NEW p \in Proc, NEW h \in Frame, NEW row, NEW n,
           h.todo \subseteq proc[p].todo, Modest(proc[p], n),
           row.id \in Exec, Known(row.id), ReconcileRow(p, h, row, n)
    PROVE  Recorded'
  <1> PICK e \in Exec : e = row.id
    OBVIOUS
  <1> DEFINE reach(l) == To([h EXCEPT !.exec = e, !.owner = row.owner], l)
  <1>1. \/ Become(p, n) \/ Become(p, reach("trigger")) \/ Become(p, reach("list"))
        \/ Become(p, reach("terminalize"))
        \/ proc' = [proc EXCEPT ![p] = reach("terminalize"),
                                ![Outer(e)] = Idle, ![Inner(e)] = Idle]
    BY DEF ReconcileRow
  <1>2. Seen(proc[p])
    BY DEF Recorded
  <1>3. \A l \in {"trigger", "list", "terminalize"} : Seen(reach(l))
    <2> TAKE l \in {"trigger", "list", "terminalize"}
    <2> PICK g : g = To([h EXCEPT !.exec = e, !.owner = row.owner], l)
      OBVIOUS
    <2>1. g.pc = l /\ g.exec = e /\ g.todo = h.todo
      BY DEF To, Frame
    <2>2. Seen(g)
      BY <1>2, <2>1 DEF Seen
    <2> QED
      BY <2>2
  <1> HIDE DEF reach
  <1>4. CASE Become(p, n) \/ Become(p, reach("trigger")) \/ Become(p, reach("list"))
             \/ Become(p, reach("terminalize"))
    BY <1>3, <1>4, BecomesSeen
  <1>5. CASE proc' = [proc EXCEPT ![p] = reach("terminalize"),
                                  ![Outer(e)] = Idle, ![Inner(e)] = Idle]
    <2> PICK g : g = reach("terminalize")
      OBVIOUS
    <2>1. ASSUME NEW q \in Proc
          PROVE  proc'[q] = proc[q] \/ proc'[q] = Idle \/ proc'[q] = g
      BY <1>5, ProcFacts
    <2>2. \A q \in Proc : Modest(proc[q], Idle)
      BY DEF Modest, Idle
    <2>3. \A q \in Proc : proc'[q] \in Frames
      BY DEF IInv
    <2>4. Seen(g)
      BY <1>3
    <2>5. ASSUME NEW q \in Proc
          PROVE  \/ proc'[q] = proc[q]
                 \/ Modest(proc[q], proc'[q])
                 \/ \E k \in Frames : proc'[q] = k /\ Seen(k)
      BY <2>1, <2>2, <2>3, <2>4
    <2> QED
      BY <2>5, RecordedNext
  <1> QED
    BY <1>1, <1>4, <1>5

LEMMA DispatchSeen ==
    ASSUME IInv, IInv', Owned, Recorded, Effect, NEW p \in Proc, Dispatch(p)
    PROVE  Recorded'
  <1> PICK f : f = proc[p]
    OBVIOUS
  <1>1. f \in Frames /\ f \in Frame /\ Seen(f) /\ Fits(p) /\ f.todo \subseteq f.todo
    BY ProcFacts DEF Frames, Recorded, Owned, Fit
  <1>2. CASE Claim(p)
    <2>1. \A e \in Exec : Modest(f, [f EXCEPT !.pc = "trigger", !.exec = e,
                                              !.caller = "dispatch", !.owner = e])
      <3> TAKE e \in Exec
      <3> PICK g : g = [f EXCEPT !.pc = "trigger", !.exec = e,
                                 !.caller = "dispatch", !.owner = e]
        OBVIOUS
      <3>1. g.pc = "trigger" /\ g.todo = f.todo
        BY <1>1 DEF Frame
      <3> QED
        BY <3>1 DEF Modest
    <2>2. Modest(f, To(f, "snapshot")) /\ Modest(f, Drained(f))
      BY <1>1, ModestFrames, ModestEnds
    <2>3. \/ \E e \in Exec : Become(p, [f EXCEPT !.pc = "trigger", !.exec = e,
                                                 !.caller = "dispatch", !.owner = e])
          \/ Become(p, To(f, "snapshot")) \/ Become(p, Drained(f))
      BY <1>2 DEF Claim
    <2> QED
      BY <2>1, <2>2, <2>3, BecomesSeen
  <1>3. CASE TakeSnapshot(p)
    <2> DEFINE rowOf(e) == [id |-> e, cancel |-> e \in cancelRequested,
                            done |-> e \in ownerCompleted,
                            owner |-> IF Borrows(e) THEN Parent[e] ELSE e,
                            earlier |-> IF e = f.exec THEN {}
                                        ELSE (before[e] \cup {f.exec}) \cap Processing]
    <2> PICK g : g = [f EXCEPT !.pc = "reconcile", !.exec = None,
                               !.todo = {rowOf(e) : e \in Processing}]
      OBVIOUS
    <2>1. Become(p, g)
      BY <1>3 DEF TakeSnapshot
    <2>2. g.pc = "reconcile" /\ g.todo = {rowOf(e) : e \in Processing}
      BY <1>1 DEF Frame
    <2>3. \A e : rowOf(e).id = e
      OBVIOUS
    <2> HIDE DEF rowOf
    <2>4. \A e \in Processing : Known(e)
      BY DEF Processing, Known
    <2>5. Seen(g)
      BY <2>2, <2>3, <2>4 DEF Seen
    <2> QED
      BY <2>1, <2>5, BecomesSeen
  <1>4. CASE Reconcile(p)
    <2>1. Modest(f, Reconciled(f))
      BY <1>1, ModestFrames
    <2>2. CASE Become(p, Reconciled(f))
      BY <2>1, <2>2, BecomesSeen
    <2>3. CASE \E row \in f.todo :
                  LET g == [f EXCEPT !.todo = @ \ {row}, !.caller = "reconcile"]
                  IN  ReconcileRow(p, g, row, NextRow(g))
      <3> PICK row \in f.todo :
                  LET g == [f EXCEPT !.todo = @ \ {row}, !.caller = "reconcile"]
                  IN  ReconcileRow(p, g, row, NextRow(g))
        BY <2>3
      <3> PICK g : g = [f EXCEPT !.todo = @ \ {row}, !.caller = "reconcile"]
        OBVIOUS
      <3>1. ReconcileRow(p, g, row, NextRow(g))
        OBVIOUS
      <3>2. g.todo = f.todo \ {row}
        BY <1>1 DEF Frame
      <3>3. f \in Frame
        BY <1>1
      <3>4. g \in Frame
        BY <3>3, ZenonT(60) DEF Frame, Callers
      <3>5. g \in Frame /\ g.todo \subseteq f.todo
        BY <3>2, <3>4
      <3>6. Modest(f, NextRow(g))
        BY <3>5, ModestFrames
      <3>7. row.id \in Exec /\ Known(row.id)
        BY <1>1, FrameFacts DEF Seen
      <3> QED
        BY <3>1, <3>5, <3>6, <3>7, ReconcileRowSeen
    <2> QED
      BY <1>4, <2>2, <2>3 DEF Reconcile
  <1>5. CASE CheckReleased(p)
    <2>1. Modest(f, NextRow(f)) /\ Modest(f, Reconciled(f))
      BY <1>1, ModestFrames
    <2>2. Become(p, NextRow(f)) \/ Become(p, Reconciled(f))
      BY <1>5 DEF CheckReleased
    <2> QED
      BY <2>1, <2>2, BecomesSeen
  <1>6. CASE Trigger(p)
    <2> PICK e : e = f.exec
      OBVIOUS
    <2>1. f.pc = "trigger" /\ e \in Exec
      BY <1>1, <1>6, FrameFacts DEF Trigger, Ruled
    <2>2. Known(e)
      BY <1>1, <2>1 DEF Fits, FitsLabel, Taken, Known
    <2>3. /\ Modest(f, Admitted(f)) /\ Modest(f, AdmissionThrown(f))
          /\ Modest(f, To(f, "revert"))
      BY <1>1, ModestFrames, ModestEnds
    <2> DEFINE g == [f EXCEPT !.pc = "terminalize",
                              !.caller = IF @ = "dispatch" THEN "dispatchRejected"
                                                           ELSE "rejected"]
    <2>4. Seen(g)
      <3>1. g.pc = "terminalize" /\ g.exec = e /\ g.todo = f.todo
        BY <1>1 DEF Frame
      <3> QED
        BY <1>1, <2>2, <3>1 DEF Seen
    <2>5. \/ \E h \in {Admitted(f), AdmissionThrown(f)} : StartRun(p, e, h)
          \/ Become(p, AdmissionThrown(f)) \/ Become(p, To(f, "revert")) \/ Become(p, g)
      BY <1>6 DEF Trigger
    <2> HIDE DEF g
    <2>6. CASE Become(p, AdmissionThrown(f)) \/ Become(p, To(f, "revert")) \/ Become(p, g)
      BY <2>3, <2>4, <2>6, BecomesSeen
    <2>7. ASSUME NEW h \in {Admitted(f), AdmissionThrown(f)}, StartRun(p, e, h)
          PROVE  Recorded'
      <3>1. Modest(f, h)
        BY <2>3
      <3>2. ASSUME NEW q \in Proc
            PROVE  proc'[q] = proc[q] \/ proc'[q] = Starting("outerStart")
                     \/ (q = p /\ proc'[q] = h)
        BY <2>7, ProcFacts DEF StartRun
      <3>3. \A q \in Proc : Modest(proc[q], Starting("outerStart"))
        BY DEF Modest, Starting, Idle
      <3> QED
        BY <3>1, <3>2, <3>3, RecordedNext
    <2> QED
      BY <2>5, <2>6, <2>7
  <1>7. CASE Revert(p)
    <2>1. Modest(f, AdmissionThrown(f))
      BY <1>1, ModestEnds
    <2>2. Become(p, AdmissionThrown(f))
      BY <1>7 DEF Revert
    <2> QED
      BY <2>1, <2>2, BecomesSeen
  <1>8. CASE RecheckRow(p)
    <2>1. f.pc = "recheckRow" /\ f.owner \in Exec
      BY <1>1, <1>8 DEF RecheckRow, Frames, Complete
    <2> PICK e \in Exec : e = f.owner
      BY <2>1
    <2> PICK row : row = [id |-> e, cancel |-> e \in cancelRequested,
                          done |-> e \in ownerCompleted, owner |-> e, earlier |-> {}]
      OBVIOUS
    <2> PICK g : g = [f EXCEPT !.caller = "recheckRow"]
      OBVIOUS
    <2>2. g \in Frame /\ g.todo \subseteq f.todo
      BY <1>1 DEF Frame, Callers
    <2>3. Modest(f, Thrown(f)) /\ Modest(f, Dispatched(g))
      BY <1>1, <2>2, ModestFrames
    <2>4. \/ Become(p, Thrown(f))
          \/ status[e] = "processing" /\ ReconcileRow(p, g, row, Dispatched(g))
      BY <1>8 DEF RecheckRow
    <2>5. CASE Become(p, Thrown(f))
      BY <2>3, <2>5, BecomesSeen
    <2>6. CASE status[e] = "processing" /\ ReconcileRow(p, g, row, Dispatched(g))
      <3>1. row.id \in Exec /\ Known(row.id)
        BY <2>6 DEF Known
      <3> QED
        BY <2>2, <2>3, <2>6, <3>1, ReconcileRowSeen
    <2> QED
      BY <2>4, <2>5, <2>6
  <1> QED
    BY <1>2, <1>3, <1>4, <1>5, <1>6, <1>7, <1>8 DEF Dispatch

\* Settlements, finalizations and cancellations read no row to reconcile.
LEMMA OthersSeen ==
    ASSUME IInv, IInv', Recorded, Effect, NEW p \in Proc,
           Settle(p) \/ Finalize(p) \/ Cancel(p)
    PROVE  Recorded'
  <1> PICK f : f = proc[p]
    OBVIOUS
  <1>1. f \in Frames /\ f \in Frame /\ f.todo \subseteq f.todo
    BY ProcFacts DEF Frames
  <1>2. /\ Modest(f, Settled(f)) /\ Modest(f, NothingCancelled(f)) /\ Modest(f, Idle)
        /\ \A l : l # "terminalize" => Modest(f, To(f, l))
    BY <1>1, ModestFrames, ModestEnds
  <1>3. ASSUME NEW l, l # "terminalize", NEW e, NEW k, NEW t
        PROVE  /\ Modest(f, [f EXCEPT !.pc = l, !.exec = e])
               /\ Modest(f, [f EXCEPT !.pc = l, !.exec = e, !.kids = k])
               /\ Modest(f, [f EXCEPT !.pc = l, !.exec = e, !.family = t])
               /\ Modest(f, [f EXCEPT !.pc = l, !.family = t, !.kids = k])
    BY <1>1, <1>3 DEF Modest, Frame
  <1>4. \A e : Modest(f, [Dispatching("cancelled") EXCEPT !.later = e])
    BY DEF Modest, Dispatching, Idle
  <1>5. CASE \E g : Become(p, g) /\ Modest(f, g)
    BY <1>5, BecomesSeen
  <1>6. CASE Settle(p)
    <2>1. CASE ListChildren(p) \/ MarkOwnerCompleted(p) \/ RecheckOwner(p)
      BY <1>2, <1>5, <2>1 DEF ListChildren, MarkOwnerCompleted, RecheckOwner
    <2>2. CASE Delete(p)
      <3> PICK parent : parent = Parent[f.exec]
        OBVIOUS
      <3>1. \/ Become(p, Settled(f))
            \/ Become(p, [Dispatching("cancelled") EXCEPT !.later = parent])
            \/ Become(p, [f EXCEPT !.pc = "recheck", !.exec = parent])
        BY <2>2 DEF Delete
      <3> QED
        BY <1>2, <1>3, <1>4, <1>5, <3>1
    <2> QED
      BY <1>6, <2>1, <2>2 DEF Settle
  <1>7. CASE Finalize(p)
    <2>1. CASE Terminalize(p)
      BY <1>2, <1>5, <2>1 DEF Terminalize
    <2>2. CASE ListDescendants(p)
      <3>1. Become(p, [f EXCEPT !.pc = "kids", !.family = f.exec, !.kids = Children(f.exec)])
        BY <2>2 DEF ListDescendants
      <3> QED
        BY <1>3, <1>5, <3>1
    <2>3. CASE NextDescendant(p)
      <3>1. \/ \E c \in f.kids :
                  Become(p, [f EXCEPT !.pc = "cancelRead", !.exec = c, !.kids = @ \ {c}])
            \/ Become(p, Idle)
            \/ Become(p, [f EXCEPT !.pc = "list", !.exec = f.family, !.family = None])
        BY <2>3 DEF NextDescendant
      <3>2. \A c : [f EXCEPT !.pc = "cancelRead", !.exec = c, !.kids = @ \ {c}]
                     = [f EXCEPT !.pc = "cancelRead", !.exec = c, !.kids = f.kids \ {c}]
        OBVIOUS
      <3>3. \A c : Modest(f, [f EXCEPT !.pc = "cancelRead", !.exec = c, !.kids = @ \ {c}])
        BY <1>3, <3>2
      <3> QED
        BY <1>2, <1>3, <1>5, <3>1, <3>3
    <2>4. CASE CancelDescendantRun(p)
      <3> PICK c : c = f.exec
        OBVIOUS
      <3>1. f.pc = "kidRun" /\ c \in Exec
        BY <1>1, <2>4, FrameFacts DEF CancelDescendantRun, WithRow
      <3>2. \/ Become(p, To(f, "kids")) \/ Become(p, To(f, "list"))
            \/ proc' = [proc EXCEPT ![p] = To(f, "list"),
                                    ![Outer(c)] = Idle, ![Inner(c)] = Idle]
        BY <2>4 DEF CancelDescendantRun
      <3>3. CASE Become(p, To(f, "kids")) \/ Become(p, To(f, "list"))
        BY <1>2, <1>5, <3>3
      <3>4. CASE proc' = [proc EXCEPT ![p] = To(f, "list"),
                                      ![Outer(c)] = Idle, ![Inner(c)] = Idle]
        <4> PICK g : g = To(f, "list")
          OBVIOUS
        <4>1. Modest(f, g)
          BY <1>2
        <4>2. ASSUME NEW q \in Proc
              PROVE  proc'[q] = proc[q] \/ proc'[q] = Idle \/ (q = p /\ proc'[q] = g)
          BY <3>4, ProcFacts
        <4>3. \A q \in Proc : Modest(proc[q], Idle)
          BY DEF Modest, Idle
        <4> QED
          BY <4>1, <4>2, <4>3, RecordedNext
      <3> QED
        BY <3>2, <3>3, <3>4
    <2> QED
      BY <1>7, <2>1, <2>2, <2>3, <2>4 DEF Finalize
  <1>8. CASE Cancel(p)
    <2>1. CASE CancelRead(p)
      <3>1. \E g \in {To(f, "cancelMark"), To(f, "cancelClaim"), NothingCancelled(f)} :
               Become(p, g)
        BY <2>1 DEF CancelRead
      <3> QED
        BY <1>2, <1>5, <3>1
    <2>2. CASE CancelMark(p)
      <3>1. \E g \in {To(f, "kidRun"), To(f, "descendants"), Idle, NothingCancelled(f)} :
               Become(p, g)
        BY <2>2 DEF CancelMark
      <3> QED
        BY <1>2, <1>5, <3>1
    <2>3. CASE CancelClaim(p) \/ CancelTerminalize(p)
      BY <1>2, <1>5, <2>3 DEF CancelClaim, CancelTerminalize
    <2> QED
      BY <1>8, <2>1, <2>2, <2>3 DEF Cancel
  <1> QED
    BY <1>6, <1>7, <1>8

LEMMA ClientSeen ==
    ASSUME IInv, IInv', Recorded, Effect, NEW p \in Client,
           ClientCrash(p) \/ \E e \in Exec : Enqueue(p, e) \/ CancelByUser(p, e)
    PROVE  Recorded'
  <1>1. p \in Proc
    BY DEF Proc
  <1> PICK f : f = proc[p]
    OBVIOUS
  <1>2. /\ Modest(f, Idle) /\ \A goal : Modest(f, Dispatching(goal))
        /\ \A e : /\ Modest(f, [On("snapshot", e) EXCEPT !.goal = "duplicate"])
                  /\ Modest(f, [On("cancelRead", e) EXCEPT !.caller = "cancel"])
    BY DEF Modest, Dispatching, On, Idle
  <1>3. CASE \E g : Become(p, g) /\ Modest(f, g)
    BY <1>1, <1>3, BecomesSeen
  <1>4. CASE proc' = proc
    BY <1>4, RecordedNext
  <1>5. ASSUME NEW e \in Exec, Enqueue(p, e)
        PROVE  \/ proc' = proc
               \/ Become(p, [On("snapshot", e) EXCEPT !.goal = "duplicate"])
               \/ Become(p, Dispatching("wake")) \/ Become(p, Dispatching("once"))
    BY <1>5 DEF Enqueue
  <1> QED
    BY <1>2, <1>3, <1>4, <1>5 DEF ClientCrash, CancelByUser

\* A supervisor and a job end the log of an execution that has a run.
LEMMA WorkerSeen ==
    ASSUME IInv, IInv', Owned, Recorded, Effect, NEW e \in Exec,
           Supervise(e) \/ RunJob(e) \/ OuterCrash(e) \/ InnerKilled(e)
    PROVE  Recorded'
  <1>1. Outer(e) \in Proc /\ Inner(e) \in Proc /\ Outer(e) # Inner(e)
    BY ProcFacts
  <1>2. /\ \A f : Modest(f, Idle) /\ \A goal : Modest(f, Dispatching(goal))
        /\ \A f : \A l : l # "terminalize" => Modest(f, Starting(l))
        /\ \A f : \A l : l # "terminalize" => Modest(f, [On(l, e) EXCEPT !.caller = "inner"])
    BY DEF Modest, Dispatching, Starting, On, Idle
  <1>3. CASE \E p \in {Outer(e), Inner(e)} : \E g : Become(p, g) /\ Modest(proc[p], g)
    BY <1>1, <1>3, BecomesSeen
  <1>4. CASE OuterStart(e)
    <2>1. ASSUME NEW q \in Proc
          PROVE  \E l \in {"outerWait", "innerRead"} :
                    \/ proc'[q] = proc[q] \/ proc'[q] = Starting(l)
                    \/ proc'[q] = Dispatching("completed")
      BY <1>1, <1>4, ProcFacts DEF OuterStart, Become
    <2>2. \A q \in Proc : proc'[q] = proc[q] \/ Modest(proc[q], proc'[q])
      BY <1>2, <2>1
    <2> QED
      BY <2>2, RecordedNext
  <1>5. CASE OuterFailed(e)
    <2>1. CASE Become(Outer(e), Dispatching("completed"))
      BY <1>2, <1>3, <2>1
    <2>2. CASE /\ status[e] = "processing"
               /\ Become(Outer(e), [On("terminalize", e) EXCEPT !.caller = "outer"])
      <3>1. Seen([On("terminalize", e) EXCEPT !.caller = "outer"])
        BY <2>2 DEF Seen, Known, On, Idle
      <3> QED
        BY <1>1, <2>2, <3>1, BecomesSeen
    <2> QED
      BY <1>5, <2>1, <2>2 DEF OuterFailed
  <1>6. CASE OuterWait(e) \/ OuterExit(e) \/ OuterCrash(e)
    <2>1. \E g \in {Idle, Dispatching("completed"), Starting("outerFailed"),
                    Starting("outerStart")} : Become(Outer(e), g)
      BY <1>6 DEF OuterWait, OuterExit, OuterCrash, EndRun
    <2> QED
      BY <1>2, <1>3, <2>1
  <1>7. CASE InnerRead(e) \/ InnerStart(e) \/ InnerKilled(e)
    <2>1. \E l \in {"innerStart", "ok", "failed", "innerRun"} : Become(Inner(e), Starting(l))
      BY <1>7 DEF InnerRead, InnerStart, InnerKilled
    <2> QED
      BY <1>2, <1>3, <2>1
  <1>8. CASE JobSucceeds(e) \/ JobFails(e)
    <2>1. \E l \in {"list", "descendants"} :
             Become(Inner(e), [On(l, e) EXCEPT !.caller = "inner"])
      BY <1>8 DEF JobSucceeds, JobFails
    <2> QED
      BY <1>2, <1>3, <2>1
  <1>9. CASE \E c \in Exec : RequestChild(e, c)
    BY <1>9, RecordedNext DEF RequestChild
  <1> QED
    BY <1>4, <1>5, <1>6, <1>7, <1>8, <1>9 DEF Supervise, RunJob

LEMMA InitRecorded == Init => Recorded
  BY DEF Init, Recorded, Seen, Idle

LEMMA NextRecorded ==
    ASSUME NothingExpires, IInv, IInv', Owned, Recorded, [Next]_vars
    PROVE  Effect /\ Recorded'
  <1>1. Effect
    BY Effects
  <1>2. CASE UNCHANGED vars
    BY <1>1, <1>2, RecordedNext DEF vars
  <1> QED
    BY <1>1, <1>2, DispatchSeen, OthersSeen, ClientSeen, WorkerSeen DEF Next

-----------------------------------------------------------------------------
(* The refinement: every effect is a step of the lifecycle, or none.        *)

LEMMA PhaseStep ==
    ASSUME IInv, Effect
    PROVE  [Lifecycle!Next]_([e \in Exec |-> Phase(e)])
  <1> DEFINE P == [e \in Exec |-> Phase(e)]
  <1>1. \A e \in Exec : log[e] \in {"none", "running", "success", "error"}
    BY LogFacts
  <1>2. \A e \in Exec : P[e] = Phase(e) /\ P'[e] = Phase(e)'
    OBVIOUS
  <1>3. /\ P = [e \in Exec |-> P[e]]
        /\ P' = [e \in Exec |-> P'[e]]
    OBVIOUS
  <1> HIDE DEF P
  <1>4. CASE Keeps
    <2>1. \A e \in Exec : Phase(e)' = Phase(e)
      BY <1>4 DEF Keeps, Phase
    <2>2. P' = P
      BY <1>2, <1>3, <2>1
    <2> QED
      BY <2>2 DEF P
  <1>5. ASSUME NEW e \in Exec, Removes(e)
        PROVE  P' = P
    <2>1. \A d \in Exec : Phase(d)' = Phase(d)
      BY <1>5 DEF Removes, Phase, Over, Ended
    <2> QED
      BY <1>2, <1>3, <2>1
  <1>6. ASSUME NEW e \in Exec, Admits(e)
        PROVE  P[e] = "unknown" /\ P' = [P EXCEPT ![e] = "queued"]
    <2>1. Phase(e) = "unknown" /\ Phase(e)' = "queued"
      BY <1>6 DEF Admits, Phase
    <2>2. \A d \in Exec \ {e} : Phase(d)' = Phase(d)
      BY <1>6 DEF Admits, Phase
    <2> QED
      BY <1>2, <1>3, <2>1, <2>2
  <1>7. ASSUME NEW e \in Exec, Begins(e)
        PROVE  P[e] = "queued" /\ P' = [P EXCEPT ![e] = "running"]
    <2>1. log'[e] = "running" /\ \A d \in Exec \ {e} : log'[d] = log[d]
      BY <1>7, Parts DEF Begins, RestOK
    <2>2. Phase(e) = "queued" /\ Phase(e)' = "running"
      BY <1>7, <2>1 DEF Begins, Phase
    <2>3. \A d \in Exec \ {e} : Phase(d)' = Phase(d)
      BY <1>7, <2>1 DEF Begins, Phase
    <2> QED
      BY <1>2, <1>3, <2>2, <2>3
  <1>8. ASSUME NEW e \in Exec, Finishes(e)
        PROVE  \/ P' = P
               \/ \E outcome \in {"success", "error"} :
                     /\ P[e] = "running" \/ (P[e] = "queued" /\ outcome = "error")
                     /\ P' = [P EXCEPT ![e] = outcome]
    <2> PICK outcome \in Ended : EndLog(e, outcome) /\ (outcome = "error" \/ log[e] # "none")
      BY <1>8 DEF Finishes
    <2>1. /\ log'[e] = IF log[e] \in Ended THEN log[e] ELSE outcome
          /\ \A d \in Exec \ {e} : log'[d] = log[d]
      BY Parts DEF EndLog, RestOK
    <2>2. Known(e) /\ status' = status /\ outcome \in {"success", "error"}
      BY <1>8 DEF Finishes, Ended
    <2>3. \A d \in Exec \ {e} : Phase(d)' = Phase(d)
      BY <2>1, <2>2 DEF Phase
    <2>4. CASE Over(e)
      <3>1. Phase(e)' = Phase(e)
        BY <2>1, <2>2, <2>4 DEF Phase, Over
      <3> QED
        BY <1>2, <1>3, <2>3, <3>1
    <2>5. CASE ~Over(e)
      <3>1. Phase(e)' = outcome
        BY <2>1, <2>2, <2>5 DEF Phase, Over, Ended
      <3>2. Phase(e) = "running" \/ (Phase(e) = "queued" /\ outcome = "error")
        BY <1>1, <2>2, <2>5 DEF Phase, Known, Over, Ended
      <3>3. P' = [P EXCEPT ![e] = outcome]
        BY <1>2, <1>3, <2>3, <3>1
      <3> QED
        BY <1>2, <2>2, <3>2, <3>3
    <2> QED
      BY <2>4, <2>5
  <1>9. CASE \E e \in Exec : Admits(e) \/ Removes(e) \/ Begins(e) \/ Finishes(e)
    <2>1. \/ P' = P
          \/ \E e \in Exec :
                \/ P[e] = "unknown" /\ P' = [P EXCEPT ![e] = "queued"]
                \/ P[e] = "queued" /\ P' = [P EXCEPT ![e] = "running"]
                \/ \E outcome \in {"success", "error"} :
                      /\ P[e] = "running" \/ (P[e] = "queued" /\ outcome = "error")
                      /\ P' = [P EXCEPT ![e] = outcome]
      BY <1>5, <1>6, <1>7, <1>8, <1>9
    <2> QED
      BY <2>1 DEF P, Lifecycle!Next, Lifecycle!Submit, Lifecycle!Start, Lifecycle!End,
         Lifecycle!Outcome
  <1> QED
    BY <1>4, <1>9 DEF Effect

\* Where no trigger is refused and no row expires, an execution is queued,
\* starts at most once, ends once with one outcome and is never dropped in
\* between, whatever else fails (pending-execution.ts, pending-execution-worker.ts,
\* queued-execution-cancellation.ts).
THEOREM LifecycleImplemented ==
    NothingRefused /\ NothingExpires => (Spec => ImplementsLifecycle)
  <1> SUFFICES ASSUME NothingRefused, NothingExpires
               PROVE  Spec => ImplementsLifecycle
    OBVIOUS
  <1>1. Init => Lifecycle!Init
    BY DEF Init, Lifecycle!Init, Phase
  <1>2. IInv /\ Owned /\ Recorded /\ [Next]_vars => Recorded'
    BY NextKeeps, NextRecorded
  <1>3. IInv /\ Owned /\ Recorded /\ [Next]_vars =>
           [Lifecycle!Next]_([e \in Exec |-> Phase(e)])
    BY NextKeeps, NextRecorded, PhaseStep
  <1> QED
    BY <1>1, <1>2, <1>3, OwnedHolds, InitRecorded, PTL DEF Spec, ImplementsLifecycle, Lifecycle!Spec

-----------------------------------------------------------------------------
(* Parents and their children.  A child borrows the slot of its parent, so  *)
(* the limit rests on the parent's row being there as long as its children. *)

\* A parent is left to run its course: nobody cancels or kills it, and no
\* trigger or supervisor ends it for good while its job runs.
ParentsUndisturbed ==
    /\ Faults \cap {"refused", "rejected", "gaveUp", "jobKilled"} = {}
    /\ \A c \in Exec : Parent[c] \notin Cancellable

Host(e) == e \in Exec /\ \E c \in Exec : Parent[c] = e

\* The job of the execution has run, for good.
Done(e) == proc[Inner(e)].pc \in {"ok", "failed"}

\* The execution is a root, or its POST has been served.
Asked(e) == Parent[e] = None \/ request[e] = "taken"

Cancels == {"cancelRead", "cancelMark", "cancelClaim", "cancelTerminalize", "kidRun"}

\* No process cancels a parent or ends its log before its job has run, and a row
\* about to be deleted has no children.
Minds(f) ==
    /\ f.pc \in Cancels => ~Host(f.exec)
    /\ \A c \in f.kids : ~Host(c)
    /\ \A row \in f.todo : Asked(row.id) /\ (row.cancel => ~Host(row.id))
    /\ f.pc = "trigger" => Asked(f.exec)
    /\ f.pc = "terminalize" /\ Host(f.exec) => Done(f.exec)
    /\ f.pc = "delete" => Children(f.exec) = {}

\* The supervisor of a parent takes its job to have failed only when it has.
Tells(p, f) ==
    \A e \in Exec :
        p = Outer(e) /\ Host(e)
          /\ (f.pc = "outerFailed" \/ f.caller = "outer" \/ f.goal = "failed") => Done(e)

Minded(p, f) == Minds(f) /\ Tells(p, f)

\* The POST of a child is in flight only while the job of its parent runs.
Home(e) ==
    /\ status[e] # "absent" \/ run[e] # "none" \/ log[e] = "success" => Asked(e)
    /\ Parent[e] # None /\ request[e] = "sent" => proc[Inner(Parent[e])].pc = "innerRun"
    /\ Host(e) => /\ e \notin cancelRequested
                  /\ run[e] # "CANCELED"
                  /\ run[e] = "FAILED" => Done(e)
                  /\ proc[Inner(e)].pc = "innerRun" => log[e] = "running"

Family ==
    /\ \A p \in Proc : Minded(p, proc[p])
    /\ \A e \in Exec : Home(e)

-----------------------------------------------------------------------------
(* What a step does to families in general.                                 *)

\* A child has no children.
LEMMA NoGrandchildren ==
    ASSUME NEW e \in Exec
    PROVE  /\ Parent[e] # None => ~Host(e) /\ Parent[e] \in Exec /\ Host(Parent[e])
           /\ Host(e) => Parent[e] = None
  BY ConstantsAssumption DEF Host

\* The jobs of parents neither start nor stop running, and what has run has run.
Jobs ==
    \A e \in Exec : Host(e) =>
        \/ proc'[Inner(e)].pc = proc[Inner(e)].pc
        \/ proc[Inner(e)].pc \notin {"ok", "failed", "innerRun"} /\ proc'[Inner(e)].pc # "innerRun"

\* What a step may do that serves no request, starts no job and ends no log with
\* success.
Tame ==
    /\ request' = request
    /\ \A c \in Exec : status'[c] # "absent" => status[c] # "absent"
    /\ \A e \in cancelRequested' : e \in cancelRequested \/ ~Host(e)
    /\ \A e \in Exec : \/ run'[e] = run[e]
                       \/ /\ Asked(e)
                          /\ Host(e) => \/ run'[e] \in {"active", "COMPLETED"}
                                        \/ run'[e] = "FAILED" /\ Done(e)
    /\ \A e \in Exec : log'[e] = log[e] \/ (log'[e] = "error" /\ (Host(e) => Done(e)))

LEMMA MindedLasts ==
    ASSUME \A e : Asked(e) => Asked(e)', \A e \in Exec : Host(e) /\ Done(e) => Done(e)',
           NEW p, NEW f, Minded(p, f), f.pc = "delete" => Children(f.exec)' = {}
    PROVE  Minded(p, f)'
  <1>1. \A e : Host(e)' <=> Host(e)
    BY DEF Host
  <1>2. Minds(f)'
    BY <1>1 DEF Minded, Minds, Host
  <1>3. Tells(p, f)'
    BY <1>1 DEF Minded, Tells
  <1> QED
    BY <1>2, <1>3 DEF Minded

LEMMA FamilyNext ==
    ASSUME Family, Jobs, Tame, \A q \in Proc : proc'[q] = proc[q] \/ Minded(q, proc'[q])
    PROVE  Family'
  <1>1. \A e : (Host(e)' <=> Host(e)) /\ (Asked(e)' <=> Asked(e))
    BY DEF Host, Asked, Tame
  <1>2. \A e \in Exec : Host(e) => /\ Done(e) => Done(e)'
                                   /\ proc'[Inner(e)].pc = "innerRun" <=> proc[Inner(e)].pc = "innerRun"
    BY DEF Jobs, Done
  <1>3. ASSUME NEW e
        PROVE  Children(e)' \subseteq Children(e)
    BY DEF Children, Rows, Tame
  <1>4. ASSUME NEW q \in Proc
        PROVE  Minded(q, proc[q])'
    <2> PICK g : g = proc'[q]
      OBVIOUS
    <2>1. Minded(q, g)
      BY DEF Family
    <2>2. g.pc = "delete" => Children(g.exec)' = {}
      BY <1>3, <2>1 DEF Minded, Minds
    <2>3. Minded(q, g)'
      BY <1>1, <1>2, <2>1, <2>2, MindedLasts
    <2> QED
      BY <2>3
  <1>5. ASSUME NEW e \in Exec
        PROVE  Home(e)'
    <2>1. Home(e)
      BY DEF Family
    <2>2. status'[e] # "absent" \/ run'[e] # "none" \/ log'[e] = "success" => Asked(e)'
      BY <1>1, <2>1 DEF Home, Tame
    <2>3. ASSUME Parent[e] # None, request'[e] = "sent"
          PROVE  proc'[Inner(Parent[e])].pc = "innerRun"
      <3>1. proc[Inner(Parent[e])].pc = "innerRun"
        BY <2>1, <2>3 DEF Home, Tame
      <3> QED
        BY <1>2, <2>3, <3>1, NoGrandchildren
    <2>4. ASSUME Host(e)
          PROVE  /\ e \notin cancelRequested'
                 /\ run'[e] # "CANCELED"
                 /\ run'[e] = "FAILED" => Done(e)'
      BY <1>2, <2>1, <2>4 DEF Home, Tame
    <2>5. ASSUME Host(e), proc'[Inner(e)].pc = "innerRun"
          PROVE  log'[e] = "running"
      <3>1. proc[Inner(e)].pc = "innerRun" /\ ~Done(e)
        BY <1>2, <2>5 DEF Done
      <3> QED
        BY <2>1, <2>5, <3>1 DEF Home, Tame
    <2> QED
      BY <1>1, <2>2, <2>3, <2>4, <2>5 DEF Home
  <1> QED
    BY <1>4, <1>5 DEF Family

-----------------------------------------------------------------------------
(* Frames that continue others.                                             *)

Follows(f, g) ==
    /\ g.todo \subseteq f.todo /\ g.kids \subseteq f.kids
    /\ g.caller = "outer" => f.caller = "outer"
    /\ g.goal = "failed" => f.goal = "failed" \/ f.caller = "outer"

Calm(g) == g.pc \notin Cancels \cup {"trigger", "terminalize", "delete", "outerFailed", "innerRun"}

LEMMA FollowsMinded ==
    ASSUME NEW p, NEW f, Minded(p, f), NEW g, Follows(f, g), g.pc # "outerFailed",
           g.pc \in Cancels => ~Host(g.exec),
           g.pc = "trigger" => Asked(g.exec),
           g.pc = "terminalize" /\ Host(g.exec) => Done(g.exec),
           g.pc = "delete" => Children(g.exec) = {}
    PROVE  Minded(p, g)
  BY DEF Follows, Minded, Minds, Tells

LEMMA CalmMinded ==
    ASSUME NEW p, NEW f, Minded(p, f), NEW g, Follows(f, g), Calm(g)
    PROVE  Minded(p, g)
  BY FollowsMinded DEF Calm

\* The frames with which the queue goes on.
Onward(f, g) == Follows(f, g) /\ Calm(g)

LEMMA OnwardFrames ==
    ASSUME NEW f, NEW g \in Frame, g.todo \subseteq f.todo, g.kids \subseteq f.kids,
           g.caller = "outer" => f.caller = "outer",
           g.goal = "failed" => f.goal = "failed" \/ f.caller = "outer"
    PROVE  /\ Onward(f, Idle) /\ Onward(f, Dispatched(g)) /\ Onward(f, Thrown(g))
           /\ Onward(f, Reconciled(g)) /\ Onward(f, NextRow(g))
           /\ \A goal : goal # "failed" => Onward(f, Dispatching(goal))
           /\ \A l : Calm(Starting(l)) => Onward(f, Starting(l))
           /\ \A l : l \notin Cancels \cup {"trigger", "terminalize", "delete", "outerFailed", "innerRun"} =>
                 Onward(f, To(g, l))
  <1>1. /\ Onward(f, Idle)
        /\ \A goal : goal # "failed" => Onward(f, Dispatching(goal))
        /\ \A l \in {"claim", "claimAgain"} : Onward(f, Again(g, l))
    BY DEF Onward, Follows, Calm, Cancels, Again, On, Dispatching, Idle
  <1>2. \A l : Calm(Starting(l)) => Onward(f, Starting(l))
    BY DEF Onward, Follows, Starting, Idle
  <1>3. ASSUME NEW l, l \notin Cancels \cup {"trigger", "terminalize", "delete", "outerFailed", "innerRun"}
        PROVE  Onward(f, To(g, l))
    <2> PICK h : h = To(g, l)
      OBVIOUS
    <2>1. h.pc = l /\ h.todo = g.todo /\ h.kids = g.kids /\ h.caller = g.caller /\ h.goal = g.goal
      BY DEF To, Frame
    <2> QED
      BY <1>3, <2>1 DEF Onward, Follows, Calm
  <1>4. Onward(f, NextRow(g))
    <2> PICK h : h = NextRow(g)
      OBVIOUS
    <2>1. h.pc = "reconcile" /\ h.todo = g.todo /\ h.kids = g.kids /\ h.caller = "none" /\ h.goal = g.goal
      BY DEF NextRow, Frame
    <2> QED
      BY <2>1 DEF Onward, Follows, Calm, Cancels
  <1> QED
    BY <1>1, <1>2, <1>3, <1>4 DEF Dispatched, Thrown, Reconciled

LEMMA OnwardEnds ==
    ASSUME NEW f \in Frame
    PROVE  /\ Onward(f, Settled(f)) /\ Onward(f, Drained(f)) /\ Onward(f, Admitted(f))
           /\ Onward(f, NothingCancelled(f))
           /\ Onward(f, AdmissionThrown(f))
  <1>1. \A e : Onward(f, [On("recheck", e) EXCEPT !.caller = "cancel"])
    BY DEF Onward, Follows, Calm, Cancels, On, Idle
  <1>2. Onward(f, Starting("ok"))
    BY DEF Onward, Follows, Calm, Cancels, Starting, Idle
  <1>3. f.caller = "outer" => Onward(f, Dispatching("failed"))
    BY DEF Onward, Follows, Calm, Cancels, Dispatching, Idle
  <1>4. /\ \A l \in {"kids", "released", "recheckRow", "exit"} : Onward(f, To(f, l))
        /\ Onward(f, Idle) /\ Onward(f, Dispatched(f)) /\ Onward(f, Thrown(f)) /\ Onward(f, NextRow(f))
    BY OnwardFrames DEF Cancels
  <1> QED
    BY <1>1, <1>2, <1>3, <1>4 DEF Settled, Drained, Admitted, AdmissionThrown, NothingCancelled

\* A process of the queue that goes on does not touch jobs.
LEMMA BecomesFamily ==
    ASSUME IInv, Family, Tame, NEW p \in Proc, proc[p].pc \notin {"ok", "failed", "innerRun"},
           NEW g, Become(p, g), g.pc # "innerRun", Minded(p, g)
    PROVE  Family'
  <1>1. proc'[p] = g /\ \A q \in Proc : q # p => proc'[q] = proc[q]
    BY ProcFacts DEF Become
  <1>2. Jobs
    BY <1>1, ProcFacts DEF Jobs
  <1>3. \A q \in Proc : proc'[q] = proc[q] \/ Minded(q, proc'[q])
    BY <1>1
  <1> QED
    BY <1>2, <1>3, FamilyNext

LEMMA OnwardFamily ==
    ASSUME IInv, Family, Tame, NEW p \in Proc, proc[p].pc \notin {"ok", "failed", "innerRun"},
           NEW g, Become(p, g), Onward(proc[p], g)
    PROVE  Family'
  <1>1. Minded(p, proc[p])
    BY DEF Family
  <1>2. Minded(p, g) /\ g.pc # "innerRun"
    BY <1>1, CalmMinded DEF Onward, Calm
  <1> QED
    BY <1>2, BecomesFamily

-----------------------------------------------------------------------------
(* Dispatchers.                                                             *)

\* A step that cancels the run of an execution that is no parent.
LEMMA CancelsRun ==
    ASSUME IInv, Family, Tame, NEW p \in Proc, proc[p].pc \notin {"ok", "failed", "innerRun"},
           NEW g, g.pc # "innerRun", Minded(p, g), NEW e \in Exec, ~Host(e),
           proc' = [proc EXCEPT ![p] = g, ![Outer(e)] = Idle, ![Inner(e)] = Idle]
    PROVE  Family'
  <1>1. \A q \in Proc : proc'[q] = proc[q] \/ proc'[q] = Idle \/ (q = p /\ proc'[q] = g)
    BY ProcFacts
  <1>2. \A q \in Proc : Minded(q, Idle)
    <2> SUFFICES ASSUME NEW q \in Proc
                 PROVE  Minded(q, Idle)
      OBVIOUS
    <2>1. /\ Idle.pc = "idle" /\ Idle.caller = "none" /\ Idle.goal = "none"
          /\ Idle.todo = {} /\ Idle.kids = {}
      BY DEF Idle
    <2> QED
      BY <2>1 DEF Minded, Minds, Tells, Cancels
  <1>3. ASSUME NEW d \in Exec, Host(d)
        PROVE  \/ proc'[Inner(d)] = proc[Inner(d)]
               \/ Inner(d) = p /\ proc'[Inner(d)] = g
    <2>1. Inner(d) # Inner(e) /\ Inner(d) # Outer(e)
      BY <1>3, WorkerOf
    <2> QED
      BY <2>1, ProcFacts
  <1>4. Jobs
    BY <1>3 DEF Jobs
  <1> QED
    BY <1>1, <1>2, <1>4, FamilyNext

LEMMA ReconcileRowFamily ==
    ASSUME IInv, Family, NEW p \in Proc, proc[p].pc \notin {"ok", "failed", "innerRun"},
           NEW h \in Frame, Follows(proc[p], h), NEW row, NEW n, Onward(proc[p], n),
           row.id \in Exec, Asked(row.id), row.cancel => ~Host(row.id),
           UNCHANGED <<table, log, request>>, ReconcileRow(p, h, row, n)
    PROVE  Family'
  <1> PICK e \in Exec : e = row.id
    OBVIOUS
  <1> DEFINE reach(l) == To([h EXCEPT !.exec = e, !.owner = row.owner], l)
  <1>1. \A l : /\ reach(l).pc = l /\ reach(l).exec = e
               /\ Follows(proc[p], reach(l))
    <2> TAKE l
    <2> PICK g : g = To([h EXCEPT !.exec = e, !.owner = row.owner], l)
      OBVIOUS
    <2>1. /\ g.pc = l /\ g.exec = e /\ g.todo = h.todo /\ g.kids = h.kids
          /\ g.caller = h.caller /\ g.goal = h.goal
      BY DEF To, Frame
    <2>2. Follows(proc[p], g)
      BY <2>1 DEF Follows
    <2> QED
      BY <2>1, <2>2
  <1>2. \/ Become(p, n) /\ UNCHANGED run
        \/ Become(p, reach("trigger")) /\ UNCHANGED run
        \/ Become(p, reach("list")) /\ UNCHANGED run
        \/ /\ run[e] \in {"FAILED", "CANCELED"} \/ row.cancel
           /\ Become(p, reach("terminalize")) /\ UNCHANGED run
        \/ /\ row.cancel /\ run' = [run EXCEPT ![e] = "CANCELED"]
           /\ proc' = [proc EXCEPT ![p] = reach("terminalize"),
                                   ![Outer(e)] = Idle, ![Inner(e)] = Idle]
    BY DEF ReconcileRow
  <1> HIDE DEF reach
  <1>3. Minded(p, proc[p]) /\ Home(e)
    BY DEF Family
  <1>4. Minded(p, reach("trigger")) /\ Minded(p, reach("list"))
    BY <1>1, <1>3, FollowsMinded DEF Cancels
  <1>5. ASSUME Host(e) => Done(e)
        PROVE  Minded(p, reach("terminalize"))
    BY <1>1, <1>3, <1>5, FollowsMinded DEF Cancels
  <1>6. run \in [Exec -> {"none", "active"} \cup TerminalRun]
    BY Parts DEF RestOK
  <1>7. CASE UNCHANGED run
    <2>1. Tame
      BY <1>7 DEF Tame, table
    <2>2. CASE Become(p, n)
      BY <2>1, <2>2, OnwardFamily
    <2>3. CASE Become(p, reach("trigger")) \/ Become(p, reach("list"))
      BY <1>1, <1>4, <2>1, <2>3, BecomesFamily
    <2>4. CASE (run[e] \in {"FAILED", "CANCELED"} \/ row.cancel) /\ Become(p, reach("terminalize"))
      <3>1. Host(e) => Done(e)
        BY <1>3, <2>4 DEF Home
      <3>2. reach("terminalize").pc # "innerRun"
        BY <1>1
      <3> QED
        BY <1>5, <2>1, <2>4, <3>1, <3>2, BecomesFamily
    <2>5. CASE row.cancel /\ run' = [run EXCEPT ![e] = "CANCELED"]
               /\ proc' = [proc EXCEPT ![p] = reach("terminalize"),
                                       ![Outer(e)] = Idle, ![Inner(e)] = Idle]
      BY <1>1, <1>5, <2>1, <2>5, CancelsRun
    <2> QED
      BY <1>2, <2>2, <2>3, <2>4, <2>5
  <1>8. CASE /\ row.cancel /\ run' = [run EXCEPT ![e] = "CANCELED"]
             /\ proc' = [proc EXCEPT ![p] = reach("terminalize"),
                                     ![Outer(e)] = Idle, ![Inner(e)] = Idle]
    <2>1. ~Host(e) /\ Asked(e)
      BY <1>8
    <2>2. \A d \in Exec : run'[d] = run[d] \/ (Asked(d) /\ ~Host(d))
      BY <1>6, <1>8, <2>1
    <2>3. Tame
      BY <2>2 DEF Tame, table
    <2>4. reach("terminalize").pc # "innerRun" /\ Minded(p, reach("terminalize"))
      BY <1>1, <1>5, <2>1
    <2> QED
      BY <1>8, <2>1, <2>3, <2>4, CancelsRun
  <1> QED
    BY <1>2, <1>7, <1>8

LEMMA ClaimFamily ==
    ASSUME IInv, Family, NEW p \in Proc, Claim(p)
    PROVE  Family'
  <1> PICK f : f = proc[p]
    OBVIOUS
  <1>1. f \in Frame /\ f.pc \in {"claim", "claimAgain"} /\ Minded(p, f)
    BY ProcFacts DEF Frames, Claim, Family
  <1>2. status \in [Exec -> {"absent", "pending", "processing"}]
    BY Parts DEF TableOK
  <1>3. ASSUME NEW e \in Exec, Candidate(e), SetStatus(e, "processing"),
               Become(p, [f EXCEPT !.pc = "trigger", !.exec = e, !.caller = "dispatch", !.owner = e])
        PROVE  Family'
    <2> PICK g : g = [f EXCEPT !.pc = "trigger", !.exec = e, !.caller = "dispatch", !.owner = e]
      OBVIOUS
    <2>1. /\ g.pc = "trigger" /\ g.exec = e /\ g.todo = f.todo /\ g.kids = f.kids
          /\ g.caller = "dispatch" /\ g.goal = f.goal
      BY <1>1 DEF Frame
    <2>2. Follows(f, g)
      BY <2>1 DEF Follows
    <2>3. status[e] # "absent"
      BY <1>3 DEF Candidate, Pending
    <2>4. Asked(e)
      BY <2>3 DEF Family, Home
    <2>5. Minded(p, g)
      BY <1>1, <2>1, <2>2, <2>4, FollowsMinded DEF Cancels
    <2>6. \A c \in Exec : status'[c] # "absent" => status[c] # "absent"
      BY <1>2, <1>3, <2>3 DEF SetStatus
    <2>7. Tame
      BY <2>6 DEF Claim, Tame
    <2> QED
      BY <1>1, <1>3, <2>1, <2>5, <2>7, BecomesFamily
  <1>4. CASE UNCHANGED status /\ \E g \in {To(f, "snapshot"), Drained(f)} : Become(p, g)
    <2>1. Tame
      BY <1>4 DEF Claim, Tame
    <2>2. Onward(f, To(f, "snapshot")) /\ Onward(f, Drained(f))
      BY <1>1, OnwardFrames, OnwardEnds DEF Cancels
    <2> QED
      BY <1>1, <1>4, <2>1, <2>2, OnwardFamily
  <1> QED
    BY <1>3, <1>4 DEF Claim

LEMMA SnapshotFamily ==
    ASSUME IInv, Family, NEW p \in Proc, TakeSnapshot(p)
    PROVE  Family'
  <1> PICK f : f = proc[p]
    OBVIOUS
  <1>1. f \in Frame /\ f.pc = "snapshot" /\ Minded(p, f)
    BY ProcFacts DEF Frames, TakeSnapshot, Family
  <1> DEFINE rowOf(e) == [id |-> e, cancel |-> e \in cancelRequested,
                          done |-> e \in ownerCompleted,
                          owner |-> IF Borrows(e) THEN Parent[e] ELSE e,
                          earlier |-> IF e = f.exec THEN {}
                                      ELSE (before[e] \cup {f.exec}) \cap Processing]
  <1> PICK g : g = [f EXCEPT !.pc = "reconcile", !.exec = None,
                             !.todo = {rowOf(e) : e \in Processing}]
    OBVIOUS
  <1>2. Become(p, g)
    BY DEF TakeSnapshot
  <1>3. /\ g.pc = "reconcile" /\ g.todo = {rowOf(e) : e \in Processing} /\ g.kids = f.kids
        /\ g.caller = f.caller /\ g.goal = f.goal
    BY <1>1 DEF Frame
  <1>4. \A e : rowOf(e).id = e /\ rowOf(e).cancel = (e \in cancelRequested)
    OBVIOUS
  <1> HIDE DEF rowOf
  <1>5. \A e \in Processing : Asked(e) /\ (e \in cancelRequested => ~Host(e))
    BY DEF Processing, Family, Home
  <1>6. ASSUME NEW row \in g.todo
        PROVE  Asked(row.id) /\ (row.cancel => ~Host(row.id))
    <2> PICK e \in Processing : row = rowOf(e)
      BY <1>3
    <2>1. row.id = e /\ row.cancel = (e \in cancelRequested)
      BY <1>4
    <2>2. Asked(e) /\ (e \in cancelRequested => ~Host(e))
      BY <1>5
    <2> HIDE DEF rowOf
    <2> QED
      BY <2>1, <2>2, Zenon
  <1>7. Minded(p, g)
    BY <1>1, <1>3, <1>6 DEF Minded, Minds, Tells, Cancels
  <1>8. Tame
    BY DEF TakeSnapshot, Tame, table
  <1> QED
    BY <1>1, <1>2, <1>3, <1>7, <1>8, BecomesFamily

LEMMA ReconcileFamily ==
    ASSUME IInv, Family, NEW p \in Proc, Reconcile(p)
    PROVE  Family'
  <1> PICK f : f = proc[p]
    OBVIOUS
  <1>1. f \in Frame /\ f \in Frames /\ f.pc = "reconcile" /\ Minded(p, f)
    BY ProcFacts DEF Frames, Reconcile, Family
  <1>2. ASSUME Become(p, Reconciled(f)), UNCHANGED run
        PROVE  Family'
    <2>1. Tame
      BY <1>2 DEF Reconcile, Tame, table
    <2>2. Onward(f, Reconciled(f))
      BY <1>1, OnwardFrames
    <2> QED
      BY <1>1, <1>2, <2>1, <2>2, OnwardFamily
  <1>3. ASSUME NEW row \in f.todo,
               LET g == [f EXCEPT !.todo = @ \ {row}, !.caller = "reconcile"]
               IN  ReconcileRow(p, g, row, NextRow(g))
        PROVE  Family'
    <2> PICK g : g = [f EXCEPT !.todo = @ \ {row}, !.caller = "reconcile"]
      OBVIOUS
    <2>1. ReconcileRow(p, g, row, NextRow(g))
      BY <1>3
    <2>2. g.todo = f.todo \ {row} /\ g.kids = f.kids /\ g.caller = "reconcile" /\ g.goal = f.goal
      BY <1>1 DEF Frame
    <2>3. g \in Frame
      BY <1>1, ZenonT(60) DEF Frame, Callers
    <2>4. Onward(f, NextRow(g)) /\ Follows(f, g)
      BY <2>2, <2>3, OnwardFrames DEF Follows
    <2>5. row.id \in Exec /\ Asked(row.id) /\ (row.cancel => ~Host(row.id))
      BY <1>1, FrameFacts DEF Minded, Minds
    <2>6. UNCHANGED <<table, log, request>>
      BY DEF Reconcile
    <2> QED
      BY <1>1, <2>1, <2>3, <2>4, <2>5, <2>6, ReconcileRowFamily
  <1> QED
    BY <1>2, <1>3 DEF Reconcile

LEMMA TriggerFamily ==
    ASSUME ParentsUndisturbed, IInv, Owned, Family, NEW p \in Proc, Trigger(p)
    PROVE  Family'
  <1> PICK f : f = proc[p]
    OBVIOUS
  <1>1. f \in Frame /\ f \in Frames /\ f.pc = "trigger" /\ Minded(p, f)
    BY ProcFacts DEF Frames, Trigger, Family
  <1> PICK e \in Exec : e = f.exec
    BY <1>1, FrameFacts DEF Ruled
  <1>2. Onward(f, Admitted(f)) /\ Onward(f, AdmissionThrown(f))
    BY <1>1, OnwardEnds
  <1>3. \/ \E h \in {Admitted(f), AdmissionThrown(f)} : StartRun(p, e, h)
        \/ Become(p, AdmissionThrown(f)) /\ UNCHANGED run
    BY DEF Trigger, ParentsUndisturbed
  <1>4. run \in [Exec -> {"none", "active"} \cup TerminalRun]
    BY Parts DEF RestOK
  <1>5. CASE Become(p, AdmissionThrown(f)) /\ UNCHANGED run
    <2>1. Tame
      BY <1>5 DEF Trigger, Tame, table
    <2> QED
      BY <1>1, <1>2, <1>5, <2>1, OnwardFamily
  <1>6. ASSUME NEW h \in {Admitted(f), AdmissionThrown(f)}, StartRun(p, e, h)
        PROVE  Family'
    <2>1. Minded(p, h) /\ h.pc # "innerRun"
      BY <1>1, <1>2, CalmMinded DEF Onward, Calm
    <2>2. Asked(e)
      BY <1>1 DEF Minded, Minds
    <2>3. \A d \in Exec : run'[d] = run[d] \/ (Asked(d) /\ run'[d] = "active")
      BY <1>4, <1>6, <2>2 DEF StartRun
    <2>4. Tame
      BY <2>3 DEF Trigger, Tame, table
    <2>5. \A q \in Proc : \/ proc'[q] = proc[q] \/ (q = p /\ proc'[q] = h)
                          \/ proc'[q] = Starting("outerStart") /\ q = Outer(e)
      BY <1>6, ProcFacts DEF StartRun
    <2>6. \A q \in Proc : Minded(q, Starting("outerStart"))
      <3>1. \A g : g = Starting("outerStart") =>
                      /\ g.pc = "outerStart" /\ g.caller = "none" /\ g.goal = "none"
                      /\ g.todo = {} /\ g.kids = {}
        BY DEF Starting, Idle
      <3> QED
        BY <3>1 DEF Minded, Minds, Tells, Cancels
    <2>7. Jobs
      BY <1>1, <2>1, <2>5, ProcFacts, WorkerOf DEF Jobs
    <2> QED
      BY <2>1, <2>4, <2>5, <2>6, <2>7, FamilyNext
  <1> QED
    BY <1>3, <1>5, <1>6

LEMMA DispatchFamily ==
    ASSUME ParentsUndisturbed, IInv, Owned, Family, NEW p \in Proc, Dispatch(p)
    PROVE  Family'
  <1> PICK f : f = proc[p]
    OBVIOUS
  <1>1. f \in Frame /\ f \in Frames /\ Minded(p, f)
    BY ProcFacts DEF Frames, Family
  <1>2. CASE CheckReleased(p)
    <2>1. Onward(f, NextRow(f)) /\ Onward(f, Reconciled(f))
      BY <1>1, OnwardFrames
    <2>2. Tame
      BY <1>2 DEF CheckReleased, Tame, table
    <2>3. /\ f.pc = "released"
          /\ Become(p, NextRow(f)) \/ Become(p, Reconciled(f))
      BY <1>2 DEF CheckReleased
    <2> QED
      BY <2>1, <2>2, <2>3, OnwardFamily
  <1>3. ~Revert(p)
    BY DEF Revert, Owned, Fit, Fits, FitsLabel
  <1>4. CASE RecheckRow(p)
    <2>1. f.pc = "recheckRow" /\ f.owner \in Exec
      BY <1>1, <1>4 DEF RecheckRow, Frames, Complete
    <2> PICK e \in Exec : e = f.owner
      BY <2>1
    <2> PICK row : row = [id |-> e, cancel |-> e \in cancelRequested,
                          done |-> e \in ownerCompleted, owner |-> e, earlier |-> {}]
      OBVIOUS
    <2> PICK g : g = [f EXCEPT !.caller = "recheckRow"]
      OBVIOUS
    <2>2. /\ g \in Frame /\ g.todo = f.todo /\ g.kids = f.kids /\ g.caller = "recheckRow"
          /\ g.goal = f.goal
      BY <1>1 DEF Frame, Callers
    <2>3. Onward(f, Thrown(f)) /\ Onward(f, Dispatched(g)) /\ Follows(f, g)
      BY <1>1, <2>2, OnwardFrames DEF Follows
    <2>4. \/ Become(p, Thrown(f)) /\ UNCHANGED run
          \/ status[e] = "processing" /\ ReconcileRow(p, g, row, Dispatched(g))
      BY <1>4 DEF RecheckRow
    <2>5. UNCHANGED <<table, log, request>>
      BY <1>4 DEF RecheckRow
    <2>6. CASE Become(p, Thrown(f)) /\ UNCHANGED run
      <3>1. Tame
        BY <2>5, <2>6 DEF Tame, table
      <3> QED
        BY <2>1, <2>3, <2>6, <3>1, OnwardFamily
    <2>7. CASE status[e] = "processing" /\ ReconcileRow(p, g, row, Dispatched(g))
      <3>1. Asked(e) /\ (e \in cancelRequested => ~Host(e))
        BY <2>7 DEF Family, Home
      <3>2. row.id \in Exec /\ Asked(row.id) /\ (row.cancel => ~Host(row.id))
        BY <3>1
      <3> QED
        BY <2>1, <2>2, <2>3, <2>5, <2>7, <3>2, ReconcileRowFamily
    <2> QED
      BY <2>4, <2>6, <2>7
  <1> QED
    BY <1>2, <1>3, <1>4, ClaimFamily, SnapshotFamily, ReconcileFamily, TriggerFamily DEF Dispatch

-----------------------------------------------------------------------------
(* Settlement, finalizers and cancellations.                                *)

\* The row is deleted only where it has no children.
LEMMA SettleFamily ==
    ASSUME IInv, Family, NEW p \in Proc, Settle(p)
    PROVE  Family'
  <1> PICK f : f = proc[p]
    OBVIOUS
  <1>1. f \in Frame /\ f \in Frames /\ Minded(p, f)
    BY ProcFacts DEF Frames, Family
  <1>2. /\ Onward(f, Settled(f))
        /\ \A l \in {"mark", "recheck"} : Onward(f, To(f, l))
    BY <1>1, OnwardFrames, OnwardEnds DEF Cancels
  <1>3. ASSUME Children(f.exec) = {}
        PROVE  Minded(p, To(f, "delete")) /\ To(f, "delete").pc # "innerRun"
    <2> PICK g : g = To(f, "delete")
      OBVIOUS
    <2>1. /\ g.pc = "delete" /\ g.exec = f.exec /\ g.todo = f.todo /\ g.kids = f.kids
          /\ g.caller = f.caller /\ g.goal = f.goal
      BY <1>1 DEF To, Frame
    <2>2. Follows(f, g)
      BY <2>1 DEF Follows
    <2> QED
      BY <1>1, <1>3, <2>1, <2>2, FollowsMinded DEF Cancels
  <1>4. CASE ListChildren(p) \/ RecheckOwner(p)
    <2>1. Tame
      BY <1>4 DEF ListChildren, RecheckOwner, Tame, table
    <2>2. /\ f.pc \in {"list", "recheck"}
          /\ \/ Become(p, Settled(f)) \/ Become(p, To(f, "mark"))
             \/ Children(f.exec) = {} /\ Become(p, To(f, "delete"))
      BY <1>4 DEF ListChildren, RecheckOwner
    <2>3. CASE Become(p, Settled(f)) \/ Become(p, To(f, "mark"))
      BY <1>2, <2>1, <2>2, <2>3, OnwardFamily
    <2>4. CASE Children(f.exec) = {} /\ Become(p, To(f, "delete"))
      BY <1>3, <2>1, <2>2, <2>4, BecomesFamily
    <2> QED
      BY <2>2, <2>3, <2>4
  <1>5. CASE MarkOwnerCompleted(p)
    <2>1. Tame
      BY <1>5 DEF MarkOwnerCompleted, Tame
    <2>2. f.pc = "mark" /\ Become(p, To(f, "recheck"))
      BY <1>5 DEF MarkOwnerCompleted
    <2> QED
      BY <1>2, <2>1, <2>2, OnwardFamily
  <1>6. CASE Delete(p)
    <2> PICK parent : parent = Parent[f.exec]
      OBVIOUS
    <2>1. Tame
      BY <1>6 DEF Delete, DropRows, Tame
    <2>2. /\ f.pc = "delete"
          /\ \/ Become(p, Settled(f))
             \/ Become(p, [Dispatching("cancelled") EXCEPT !.later = parent])
             \/ Become(p, [f EXCEPT !.pc = "recheck", !.exec = parent])
      BY <1>6 DEF Delete
    <2>3. Onward(f, [Dispatching("cancelled") EXCEPT !.later = parent])
      BY DEF Onward, Follows, Calm, Cancels, Dispatching, Idle
    <2>4. Onward(f, [f EXCEPT !.pc = "recheck", !.exec = parent])
      BY <1>1 DEF Onward, Follows, Calm, Cancels, Frame
    <2> QED
      BY <1>2, <2>1, <2>2, <2>3, <2>4, OnwardFamily
  <1> QED
    BY <1>4, <1>5, <1>6 DEF Settle

LEMMA FinalizeFamily ==
    ASSUME IInv, Family, NEW p \in Proc, Finalize(p)
    PROVE  Family'
  <1> PICK f : f = proc[p]
    OBVIOUS
  <1>1. f \in Frame /\ f \in Frames /\ Minded(p, f)
    BY ProcFacts DEF Frames, Family
  <1>2. \A l \in {"descendants", "kids", "list"} : Onward(f, To(f, l))
    BY <1>1, OnwardFrames DEF Cancels
  <1>3. CASE Terminalize(p)
    <2> PICK e : e = f.exec
      OBVIOUS
    <2>1. f.pc = "terminalize" /\ e \in Exec /\ EndLog(e, "error")
      BY <1>1, <1>3, FrameFacts DEF Terminalize, WithRow
    <2>2. Host(e) => Done(e)
      BY <1>1, <2>1 DEF Minded, Minds
    <2>3. \A d \in Exec : log'[d] = log[d] \/ (log'[d] = "error" /\ (Host(d) => Done(d)))
      BY <2>1, <2>2, Parts DEF EndLog, RestOK
    <2>4. Tame
      BY <1>3, <2>3 DEF Terminalize, Tame, table
    <2>5. Become(p, To(f, "descendants"))
      BY <1>3 DEF Terminalize
    <2> QED
      BY <1>2, <2>1, <2>4, <2>5, OnwardFamily
  <1>4. CASE ListDescendants(p)
    <2> PICK g : g = [f EXCEPT !.pc = "kids", !.family = f.exec, !.kids = Children(f.exec)]
      OBVIOUS
    <2>1. f.pc = "descendants" /\ f.exec \in Exec /\ Become(p, g)
      BY <1>1, <1>4, FrameFacts DEF ListDescendants, Ruled
    <2>2. /\ g.pc = "kids" /\ g.todo = f.todo /\ g.kids = Children(f.exec)
          /\ g.caller = f.caller /\ g.goal = f.goal
      BY <1>1 DEF Frame
    <2>3. \A c \in Children(f.exec) : ~Host(c)
      BY <2>1, NoGrandchildren, ConstantsAssumption DEF Children, Rows
    <2>4. Minded(p, g)
      BY <1>1, <2>2, <2>3 DEF Minded, Minds, Tells, Cancels
    <2>5. Tame
      BY <1>4 DEF ListDescendants, Tame, table
    <2> QED
      BY <2>1, <2>2, <2>4, <2>5, BecomesFamily
  <1>5. CASE NextDescendant(p)
    <2>1. Tame /\ f.pc = "kids"
      BY <1>5 DEF NextDescendant, Tame, table
    <2>2. ASSUME NEW c \in f.kids,
                 Become(p, [f EXCEPT !.pc = "cancelRead", !.exec = c, !.kids = @ \ {c}])
          PROVE  Family'
      <3> PICK g : g = [f EXCEPT !.pc = "cancelRead", !.exec = c, !.kids = @ \ {c}]
        OBVIOUS
      <3>1. /\ g.pc = "cancelRead" /\ g.exec = c /\ g.todo = f.todo /\ g.kids = f.kids \ {c}
            /\ g.caller = f.caller /\ g.goal = f.goal
        BY <1>1 DEF Frame
      <3>2. Follows(f, g)
        BY <3>1 DEF Follows
      <3>3. ~Host(c)
        BY <1>1 DEF Minded, Minds
      <3>4. Minded(p, g)
        BY <1>1, <3>1, <3>2, <3>3, FollowsMinded
      <3>5. Become(p, g) /\ g.pc # "innerRun"
        BY <2>2, <3>1
      <3> QED
        BY <2>1, <3>4, <3>5, BecomesFamily
    <2>3. Onward(f, [f EXCEPT !.pc = "list", !.exec = f.family, !.family = None])
      BY <1>1 DEF Onward, Follows, Calm, Cancels, Frame
    <2>4. Onward(f, Idle)
      BY <1>1, OnwardFrames
    <2>5. CASE \/ Become(p, Idle)
               \/ Become(p, [f EXCEPT !.pc = "list", !.exec = f.family, !.family = None])
      BY <2>1, <2>3, <2>4, <2>5, OnwardFamily
    <2> QED
      BY <1>5, <2>2, <2>5 DEF NextDescendant
  <1>6. CASE CancelDescendantRun(p)
    <2> PICK c : c = f.exec
      OBVIOUS
    <2>1. f.pc = "kidRun" /\ c \in Exec
      BY <1>1, <1>6, FrameFacts DEF CancelDescendantRun, WithRow
    <2>2. ~Host(c)
      BY <1>1, <2>1 DEF Minded, Minds, Cancels
    <2>3. CASE (Become(p, To(f, "kids")) \/ Become(p, To(f, "list"))) /\ UNCHANGED <<log, run>>
      <3>1. Tame
        BY <1>6, <2>3 DEF CancelDescendantRun, Tame, table
      <3> QED
        BY <1>2, <2>1, <2>3, <3>1, OnwardFamily
    <2>4. CASE /\ status[c] = "processing" /\ EndLog(c, "error")
               /\ run' = [run EXCEPT ![c] = "CANCELED"]
               /\ proc' = [proc EXCEPT ![p] = To(f, "list"),
                                       ![Outer(c)] = Idle, ![Inner(c)] = Idle]
      <3>1. Asked(c)
        BY <2>1, <2>4 DEF Family, Home
      <3>2. \A d \in Exec : run'[d] = run[d] \/ (Asked(d) /\ ~Host(d))
        BY <2>2, <2>4, <3>1, Parts DEF RestOK
      <3>3. \A d \in Exec : log'[d] = log[d] \/ (log'[d] = "error" /\ ~Host(d))
        BY <2>2, <2>4, Parts DEF RestOK, EndLog
      <3>4. Tame
        BY <1>6, <3>2, <3>3 DEF CancelDescendantRun, Tame, table
      <3>5. Minded(p, To(f, "list")) /\ To(f, "list").pc # "innerRun"
        BY <1>1, <1>2, CalmMinded DEF Onward, Calm
      <3> QED
        BY <2>1, <2>2, <2>4, <3>4, <3>5, CancelsRun
    <2> QED
      BY <1>6, <2>3, <2>4 DEF CancelDescendantRun
  <1> QED
    BY <1>3, <1>4, <1>5, <1>6 DEF Finalize

\* What is cancelled has no children.
LEMMA CancelFamily ==
    ASSUME IInv, Family, NEW p \in Proc, Cancel(p)
    PROVE  Family'
  <1> PICK f : f = proc[p]
    OBVIOUS
  <1>1. f \in Frame /\ f \in Frames /\ Minded(p, f)
    BY ProcFacts DEF Frames, Family
  <1> PICK e : e = f.exec
    OBVIOUS
  <1>2. f.pc \in Cancels \ {"kidRun"} /\ e \in Exec /\ ~Host(e)
    <2>1. f.pc \in {"cancelRead", "cancelMark", "cancelClaim", "cancelTerminalize"}
      BY DEF Cancel, CancelRead, CancelMark, CancelClaim, CancelTerminalize
    <2> QED
      BY <1>1, <2>1, FrameFacts DEF Cancels, WithRow, Minded, Minds
  <1>3. /\ \A l \in {"list", "descendants"} : Onward(f, To(f, l))
        /\ Onward(f, Idle) /\ Onward(f, NothingCancelled(f))
    BY <1>1, OnwardFrames, OnwardEnds DEF Cancels
  <1>4. ASSUME NEW l \in Cancels
        PROVE  Minded(p, To(f, l)) /\ To(f, l).pc # "innerRun"
    <2> PICK g : g = To(f, l)
      OBVIOUS
    <2>1. /\ g.pc = l /\ g.exec = e /\ g.todo = f.todo /\ g.kids = f.kids
          /\ g.caller = f.caller /\ g.goal = f.goal
      BY <1>1 DEF To, Frame
    <2>2. Follows(f, g)
      BY <2>1 DEF Follows
    <2>3. g.pc \notin {"outerFailed", "trigger", "terminalize", "delete", "innerRun"}
      BY <1>4, <2>1 DEF Cancels
    <2> QED
      BY <1>1, <1>2, <2>1, <2>2, <2>3, FollowsMinded
  <1>5. ASSUME Tame,
               \/ \E g \in {Idle, NothingCancelled(f), To(f, "list"), To(f, "descendants")} :
                     Become(p, g)
               \/ \E l \in Cancels : Become(p, To(f, l))
        PROVE  Family'
    <2>1. f.pc \notin {"ok", "failed", "innerRun"}
      BY <1>2 DEF Cancels
    <2> QED
      BY <1>3, <1>4, <1>5, <2>1, OnwardFamily, BecomesFamily
  <1>6. status \in [Exec -> {"absent", "pending", "processing"}] /\ log \in [Exec -> {"none", "running"} \cup Ended]
    BY Parts DEF TableOK, RestOK
  <1>7. CASE CancelRead(p)
    <2>1. Tame
      BY <1>7 DEF CancelRead, Tame, table
    <2> QED
      BY <1>5, <1>7, <2>1 DEF CancelRead, Cancels
  <1>8. CASE CancelMark(p)
    <2>1. Tame
      BY <1>2, <1>8 DEF CancelMark, Tame
    <2> QED
      BY <1>5, <1>8, <2>1 DEF CancelMark, Cancels
  <1>9. CASE CancelClaim(p)
    <2>1. \A d \in Exec : status'[d] # "absent" => status[d] # "absent"
      BY <1>6, <1>9 DEF CancelClaim, SetStatus, table
    <2>2. \A d \in cancelRequested' : d \in cancelRequested \/ ~Host(d)
      BY <1>2, <1>9 DEF CancelClaim, table
    <2>3. Tame
      BY <1>9, <2>1, <2>2 DEF CancelClaim, Tame
    <2> QED
      BY <1>5, <1>9, <2>3 DEF CancelClaim, Cancels
  <1>10. CASE CancelTerminalize(p)
    <2>1. \A d \in Exec : status'[d] # "absent" => status[d] # "absent"
      BY <1>6, <1>10 DEF CancelTerminalize, SetStatus, table
    <2>2. \A d \in Exec : log'[d] = log[d] \/ (log'[d] = "error" /\ ~Host(d))
      BY <1>2, <1>6, <1>10 DEF CancelTerminalize, EndLog
    <2>3. \A d \in cancelRequested' : d \in cancelRequested
      BY <1>10 DEF CancelTerminalize, table
    <2>4. Tame
      BY <1>10, <2>1, <2>2, <2>3 DEF CancelTerminalize, Tame
    <2> QED
      BY <1>5, <1>10, <2>4 DEF CancelTerminalize
  <1> QED
    BY <1>7, <1>8, <1>9, <1>10 DEF Cancel

-----------------------------------------------------------------------------
(* API processes, supervisors and jobs.                                     *)

\* A process that is not the job of a parent.
LEMMA BesideFamily ==
    ASSUME IInv, Family, Tame, NEW p \in Proc, \A d \in Exec : Host(d) => p # Inner(d),
           NEW g, Become(p, g), Minded(p, g)
    PROVE  Family'
  <1>1. proc'[p] = g /\ \A q \in Proc : q # p => proc'[q] = proc[q]
    BY ProcFacts DEF Become
  <1>2. Jobs
    BY <1>1, ProcFacts DEF Jobs
  <1>3. \A q \in Proc : proc'[q] = proc[q] \/ Minded(q, proc'[q])
    BY <1>1
  <1> QED
    BY <1>2, <1>3, FamilyNext

\* Frames with which a process begins.
Begun(g) ==
    /\ Calm(g) \/ g.pc = "innerRun"
    /\ g.todo = {} /\ g.kids = {} /\ g.caller # "outer" /\ g.goal # "failed"

LEMMA BegunMinded ==
    ASSUME NEW p, NEW g, Begun(g)
    PROVE  Minded(p, g)
  BY DEF Begun, Calm, Cancels, Minded, Minds, Tells

LEMMA BegunFrames ==
    /\ Begun(Idle) /\ \A goal : goal # "failed" => Begun(Dispatching(goal))
    /\ \A e : Begun([On("snapshot", e) EXCEPT !.goal = "duplicate"])
    /\ \A l \in {"outerStart", "outerWait", "innerRead", "innerStart", "innerRun", "ok", "failed"} :
          Begun(Starting(l))
    /\ \A e : \A l \in {"list", "descendants"} : Begun([On(l, e) EXCEPT !.caller = "inner"])
  BY DEF Begun, Calm, Cancels, Dispatching, Starting, On, Idle

LEMMA ClientApart ==
    ASSUME NEW p \in Client
    PROVE  p \in Proc /\ \A e \in Exec : p # Inner(e) /\ p # Outer(e)
  BY ConstantsAssumption DEF Proc, Worker, Inner, Outer

\* A child is queued while the job of its parent runs, so nobody settles the
\* parent.
LEMMA EnqueueFamily ==
    ASSUME IInv, Owned, Family, NEW p \in Client, NEW e \in Exec, Enqueue(p, e)
    PROVE  Family'
  <1>1. /\ status \in [Exec -> {"absent", "pending", "processing"}]
        /\ request \in [Exec -> {"none", "sent", "taken"}]
        /\ log' = log /\ run' = run
    BY Parts DEF TableOK, RestOK, Enqueue
  <1>2. /\ \A d \in Exec : d # e => request'[d] = request[d]
        /\ request'[e] # "sent"
        /\ Asked(e)'
        /\ Parent[e] = None \/ request[e] = "sent"
    BY <1>1 DEF Enqueue, Asked
  <1>3. \A d : Asked(d) => Asked(d)'
    <2> SUFFICES ASSUME NEW d, Asked(d)
                 PROVE  Asked(d)'
      OBVIOUS
    <2>1. CASE d = e
      BY <1>2, <2>1
    <2>2. CASE d # e
      <3>1. request'[d] = request[d]
        BY <1>1, <2>2 DEF Enqueue
      <3> QED
        BY <3>1 DEF Asked
    <2> QED
      BY <2>1, <2>2
  <1>4. /\ \A d \in Exec : d # e /\ status'[d] # "absent" => status[d] # "absent"
        /\ cancelRequested' \subseteq cancelRequested
    BY <1>1 DEF Enqueue, DropRows, table
  <1>5. /\ p \in Proc
        /\ \A q \in Proc : proc'[q] = proc[q] \/ Begun(proc'[q])
        /\ \A d \in Exec : proc'[Inner(d)] = proc[Inner(d)]
    <2>1. \/ proc' = proc
          \/ Become(p, [On("snapshot", e) EXCEPT !.goal = "duplicate"])
          \/ Become(p, Dispatching("wake")) \/ Become(p, Dispatching("once"))
      BY DEF Enqueue
    <2>2. proc' = proc \/ \E g : Become(p, g) /\ Begun(g)
      BY <2>1, BegunFrames
    <2> QED
      BY <2>2, ClientApart, ProcFacts DEF Become
  <1>6. \A d \in Exec : (Host(d)' <=> Host(d)) /\ (Done(d)' <=> Done(d))
    BY <1>5 DEF Host, Done
  <1>7. ASSUME NEW q \in Proc, proc'[q] = proc[q], proc[q].pc = "delete"
        PROVE  Children(proc[q].exec)' = {}
    <2> PICK d : d = proc[q].exec
      OBVIOUS
    <2>1. d \in Exec /\ Over(d) /\ Children(d) = {}
      BY <1>7, ProcFacts, FrameFacts DEF Family, Minded, Minds, Owned, Fit, Fits, FitsLabel, Ruled
    <2>2. Parent[e] # d
      <3> SUFFICES ASSUME Parent[e] = d
                   PROVE  FALSE
        OBVIOUS
      <3>1. Parent[e] # None /\ request[e] = "sent"
        BY <1>2, <2>1, ConstantsAssumption
      <3>2. proc[Inner(d)].pc = "innerRun" /\ Host(d)
        BY <2>1, <3>1 DEF Family, Home, Host
      <3>3. log[d] = "running"
        BY <2>1, <3>2 DEF Family, Home
      <3> QED
        BY <2>1, <3>3 DEF Over, Ended
    <2>3. Children(d)' \subseteq Children(d)
      BY <1>4, <2>2 DEF Children, Rows
    <2>4. Children(d)' = {}
      BY <2>1, <2>3
    <2> QED
      BY <1>7, <2>4
  <1>8. ASSUME NEW q \in Proc
        PROVE  Minded(q, proc[q])'
    <2> PICK g : g = proc'[q]
      OBVIOUS
    <2>1. Minded(q, g)
      BY <1>5, BegunMinded DEF Family
    <2>2. g.pc = "delete" => Children(g.exec)' = {}
      <3>1. CASE Begun(g)
        BY <3>1 DEF Begun, Calm
      <3>2. CASE proc'[q] = proc[q]
        BY <1>7, <3>2
      <3> QED
        BY <1>5, <3>1, <3>2
    <2>3. Minded(q, g)'
      BY <1>3, <1>6, <2>1, <2>2, MindedLasts
    <2> QED
      BY <2>3
  <1>9. ASSUME NEW d \in Exec
        PROVE  Home(d)'
    <2>1. Home(d)
      BY DEF Family
    <2>2. status'[d] # "absent" \/ run'[d] # "none" \/ log'[d] = "success" => Asked(d)'
      BY <1>1, <1>2, <1>3, <1>4, <2>1 DEF Home
    <2>3. ASSUME Parent[d] # None, request'[d] = "sent"
          PROVE  proc'[Inner(Parent[d])].pc = "innerRun"
      <3>1. request[d] = "sent"
        BY <1>2, <2>3
      <3> QED
        BY <1>5, <2>1, <2>3, <3>1, NoGrandchildren DEF Home
    <2>4. Host(d) => /\ d \notin cancelRequested'
                     /\ run'[d] # "CANCELED"
                     /\ run'[d] = "FAILED" => Done(d)'
                     /\ proc'[Inner(d)].pc = "innerRun" => log'[d] = "running"
      BY <1>1, <1>4, <1>5, <1>6, <2>1 DEF Home
    <2> QED
      BY <1>6, <2>2, <2>3, <2>4 DEF Home
  <1> QED
    BY <1>8, <1>9 DEF Family

LEMMA ClientFamily ==
    ASSUME ParentsUndisturbed, IInv, Family, NEW p \in Client,
           ClientCrash(p) \/ \E e \in Exec : CancelByUser(p, e)
    PROVE  Family'
  <1>1. Tame
    BY DEF ClientCrash, CancelByUser, Tame, table
  <1>2. CASE ClientCrash(p)
    BY <1>1, <1>2, ClientApart, BegunFrames, BegunMinded, BesideFamily DEF ClientCrash
  <1>3. ASSUME NEW e \in Exec, CancelByUser(p, e)
        PROVE  Family'
    <2> PICK g : g = [On("cancelRead", e) EXCEPT !.caller = "cancel"]
      OBVIOUS
    <2>1. ~Host(e)
      BY <1>3 DEF CancelByUser, ParentsUndisturbed, Host
    <2>2. /\ g.pc = "cancelRead" /\ g.exec = e /\ g.caller = "cancel" /\ g.goal = "none"
          /\ g.todo = {} /\ g.kids = {}
      BY DEF On, Idle
    <2>3. Minded(p, g)
      BY <2>1, <2>2 DEF Minded, Minds, Tells
    <2>4. Become(p, g)
      BY <1>3 DEF CancelByUser
    <2> QED
      BY <1>1, <2>3, <2>4, ClientApart, BesideFamily
  <1> QED
    BY <1>2, <1>3

\* The supervisor of a parent ends a log only when the job has run.
LEMMA SuperviseFamily ==
    ASSUME ParentsUndisturbed, IInv, Owned, Family, NEW e \in Exec,
           Supervise(e) \/ OuterCrash(e)
    PROVE  Family'
  <1> PICK p \in Proc : p = Outer(e)
    BY ProcFacts
  <1> PICK f : f = proc[p]
    OBVIOUS
  <1>1. Minded(p, f) /\ \A d \in Exec : (p # Inner(d)) /\ (p = Outer(d) => d = e)
    BY WorkerOf DEF Family
  <1>2. ASSUME Tame, NEW g, Begun(g), Become(p, g)
        PROVE  Family'
    BY <1>1, <1>2, BegunMinded, BesideFamily
  <1>3. CASE OuterStart(e)
    <2>1. Tame
      BY <1>3 DEF OuterStart, Tame, table
    <2>2. CASE Become(p, Dispatching("completed"))
      BY <1>2, <2>1, <2>2, BegunFrames
    <2>3. CASE proc' = [proc EXCEPT ![p] = Starting("outerWait"),
                                    ![Inner(e)] = IF @ = Idle THEN Starting("innerRead") ELSE @]
      <3>1. Inner(e) \in Proc /\ Inner(e) # p
        BY ProcFacts
      <3>2. \A q \in Proc : \/ proc'[q] = proc[q] \/ proc'[q] = Starting("outerWait")
                            \/ proc'[q] = Starting("innerRead")
        BY <2>3, <3>1, ProcFacts
      <3>3. \A q \in Proc : proc'[q] = proc[q] \/ Minded(q, proc'[q])
        BY <3>2, BegunFrames, BegunMinded
      <3>4. Idle.pc = "idle" /\ Starting("innerRead").pc = "innerRead"
        BY DEF Starting, Idle
      <3>5. ASSUME NEW d \in Exec
            PROVE  \/ proc'[Inner(d)] = proc[Inner(d)]
                   \/ proc[Inner(d)].pc = "idle" /\ proc'[Inner(d)].pc = "innerRead"
        <4>1. Inner(d) \in Proc /\ Inner(d) # p
          BY <1>1, ProcFacts
        <4>2. CASE d = e
          BY <2>3, <3>1, <3>4, <4>2, ProcFacts
        <4>3. CASE d # e
          BY <2>3, <3>1, <4>1, <4>3, ProcFacts, WorkerOf
        <4> QED
          BY <4>2, <4>3
      <3>6. Jobs
        BY <3>5 DEF Jobs
      <3> QED
        BY <2>1, <3>3, <3>6, FamilyNext
    <2> QED
      BY <1>3, <2>2, <2>3 DEF OuterStart
  <1>4. CASE OuterWait(e)
    <2>1. Tame
      BY <1>4 DEF OuterWait, Tame, table
    <2>2. CASE Become(p, Dispatching("completed"))
      BY <1>2, <2>1, <2>2, BegunFrames
    <2>3. CASE proc[Inner(e)].pc = "failed" /\ Become(p, Starting("outerFailed"))
      <3> PICK g : g = Starting("outerFailed")
        OBVIOUS
      <3>1. /\ g.pc = "outerFailed" /\ g.todo = {} /\ g.kids = {} /\ g.caller = "none"
            /\ g.goal = "none"
        BY DEF Starting, Idle
      <3>2. Done(e)
        BY <2>3 DEF Done
      <3>3. Minded(p, g)
        BY <1>1, <3>1, <3>2 DEF Minded, Minds, Tells, Cancels
      <3> QED
        BY <1>1, <2>1, <2>3, <3>3, BesideFamily
    <2> QED
      BY <1>4, <2>2, <2>3 DEF OuterWait
  <1>5. CASE OuterFailed(e)
    <2>1. Tame /\ f.pc = "outerFailed"
      BY <1>5 DEF OuterFailed, Tame, table
    <2>2. Host(e) => Done(e)
      BY <1>1, <2>1 DEF Minded, Tells
    <2>3. CASE Become(p, Dispatching("completed"))
      BY <1>2, <2>1, <2>3, BegunFrames
    <2>4. CASE Become(p, [On("terminalize", e) EXCEPT !.caller = "outer"])
      <3> PICK g : g = [On("terminalize", e) EXCEPT !.caller = "outer"]
        OBVIOUS
      <3>1. /\ g.pc = "terminalize" /\ g.exec = e /\ g.todo = {} /\ g.kids = {}
        BY DEF On, Idle
      <3>2. Minded(p, g)
        BY <1>1, <2>2, <3>1 DEF Minded, Minds, Tells, Cancels
      <3> QED
        BY <1>1, <2>1, <2>4, <3>2, BesideFamily
    <2> QED
      BY <1>5, <2>3, <2>4 DEF OuterFailed
  <1>6. CASE OuterExit(e)
    <2>1. /\ f.pc = "exit" /\ Become(p, Idle) /\ UNCHANGED <<table, log, request>>
          /\ run' = [run EXCEPT ![e] = IF f.goal = "failed" THEN "FAILED" ELSE "COMPLETED"]
      BY <1>6 DEF OuterExit, EndRun
    <2>2. run[e] # "none"
      BY <2>1 DEF Owned, Fit, Works
    <2>3. Asked(e)
      BY <2>2 DEF Family, Home
    <2>4. Host(e) /\ f.goal = "failed" => Done(e)
      BY <1>1 DEF Minded, Tells
    <2>5. \A d \in Exec : \/ run'[d] = run[d]
                          \/ /\ Asked(d)
                             /\ Host(d) => run'[d] = "COMPLETED" \/ (run'[d] = "FAILED" /\ Done(d))
      BY <2>1, <2>3, <2>4, Parts DEF RestOK
    <2>6. Tame
      BY <2>1, <2>5 DEF Tame, table
    <2> QED
      BY <1>2, <2>1, <2>6, BegunFrames
  <1>7. CASE OuterCrash(e)
    <2>1. Become(p, Starting("outerStart")) /\ UNCHANGED <<table, log, run, request>>
      BY <1>7 DEF OuterCrash, ParentsUndisturbed
    <2>2. Tame
      BY <2>1 DEF Tame, table
    <2> QED
      BY <1>2, <2>1, <2>2, BegunFrames
  <1> QED
    BY <1>3, <1>4, <1>5, <1>6, <1>7 DEF Supervise

\* A job that goes on, and leaves no POST in flight where it stops.
LEMMA JobFamily ==
    ASSUME IInv, Family, NEW e \in Exec, ~Done(e), NEW g, Become(Inner(e), g), Begun(g),
           UNCHANGED <<table, run, request>>,
           \A d \in Exec : d # e => log'[d] = log[d],
           log'[e] = "success" => Asked(e),
           g.pc = "innerRun" => log'[e] = "running",
           \A c \in Exec : Parent[c] = e /\ request[c] = "sent" => g.pc = "innerRun"
    PROVE  Family'
  <1>1. /\ Inner(e) \in Proc /\ proc'[Inner(e)] = g
        /\ \A q \in Proc : q # Inner(e) => proc'[q] = proc[q]
    BY ProcFacts DEF Become
  <1>2. \A d \in Exec : d # e => proc'[Inner(d)] = proc[Inner(d)]
    BY <1>1, ProcFacts, WorkerOf
  <1>3. \A d : (Asked(d)' <=> Asked(d)) /\ (Host(d)' <=> Host(d))
    BY DEF Asked, Host
  <1>4. \A d \in Exec : Done(d) => Done(d)'
    BY <1>2 DEF Done
  <1>5. \A d : Children(d)' = Children(d)
    BY DEF Children, Rows, table
  <1>6. ASSUME NEW q \in Proc
        PROVE  Minded(q, proc[q])'
    <2> PICK h : h = proc'[q]
      OBVIOUS
    <2>1. Minded(q, h)
      BY <1>1, BegunMinded DEF Family
    <2>2. h.pc = "delete" => Children(h.exec)' = {}
      BY <1>5, <2>1 DEF Minded, Minds
    <2>3. Minded(q, h)'
      BY <1>3, <1>4, <2>1, <2>2, MindedLasts
    <2> QED
      BY <2>3
  <1>7. ASSUME NEW d \in Exec
        PROVE  Home(d)'
    <2>1. /\ Home(d) /\ status' = status /\ cancelRequested' = cancelRequested
          /\ run' = run /\ request' = request
      BY DEF Family, table
    <2>2. status'[d] # "absent" \/ run'[d] # "none" \/ log'[d] = "success" => Asked(d)'
      BY <1>3, <2>1 DEF Home
    <2>3. ASSUME Parent[d] # None, request'[d] = "sent"
          PROVE  proc'[Inner(Parent[d])].pc = "innerRun"
      BY <1>1, <1>2, <2>1, <2>3, NoGrandchildren DEF Home
    <2>4. ASSUME Host(d)
          PROVE  /\ d \notin cancelRequested'
                 /\ run'[d] # "CANCELED"
                 /\ run'[d] = "FAILED" => Done(d)'
                 /\ proc'[Inner(d)].pc = "innerRun" => log'[d] = "running"
      BY <1>1, <1>2, <1>4, <2>1, <2>4 DEF Home
    <2> QED
      BY <1>3, <2>2, <2>3, <2>4 DEF Home
  <1> QED
    BY <1>6, <1>7 DEF Family

LEMMA RunJobFamily ==
    ASSUME ParentsUndisturbed, IInv, Owned, Family, NEW e \in Exec,
           InnerRead(e) \/ InnerStart(e) \/ JobSucceeds(e) \/ JobFails(e) \/ InnerKilled(e)
    PROVE  Family'
  <1> PICK l : l = proc[Inner(e)].pc
    OBVIOUS
  <1>1. /\ l \notin {"idle", "ok", "failed"}
        /\ l = "innerRun" => JobSucceeds(e) \/ JobFails(e)
    BY DEF InnerRead, InnerStart, JobSucceeds, JobFails, InnerKilled, ParentsUndisturbed
  <1>2. ~Done(e)
    BY <1>1 DEF Done
  <1>3. run[e] # "none"
    BY <1>1, ProcFacts DEF Owned, Fit, Works
  <1>4. Asked(e)
    BY <1>3 DEF Family, Home
  <1>5. \A c \in Exec : Parent[c] = e /\ request[c] = "sent" => l = "innerRun"
    BY ConstantsAssumption DEF Family, Home
  <1>6. log \in [Exec -> {"none", "running"} \cup Ended]
    BY Parts DEF RestOK
  <1>7. CASE InnerRead(e) \/ InnerKilled(e)
    <2>1. l # "innerRun"
      BY <1>7 DEF InnerRead, InnerKilled, ParentsUndisturbed
    <2>2. PICK h \in {"innerStart", "ok", "failed"} : Become(Inner(e), Starting(h))
      BY <1>7 DEF InnerRead, InnerKilled
    <2>3. Begun(Starting(h)) /\ Starting(h).pc # "innerRun"
      BY BegunFrames DEF Starting, Idle
    <2>4. UNCHANGED <<table, run, request>> /\ log' = log
      BY <1>7 DEF InnerRead, InnerKilled
    <2>5. \A c \in Exec : ~(Parent[c] = e /\ request[c] = "sent")
      BY <1>5, <2>1
    <2> QED
      BY <1>2, <1>4, <2>2, <2>3, <2>4, <2>5, JobFamily
  <1>8. CASE InnerStart(e)
    <2>1. l # "innerRun"
      BY <1>8 DEF InnerStart
    <2> PICK h : h = IF log[e] \in Ended THEN "failed" ELSE "innerRun"
      OBVIOUS
    <2>2. Become(Inner(e), Starting(h)) /\ Begun(Starting(h)) /\ Starting(h).pc = h
      BY <1>8, BegunFrames DEF InnerStart, Starting, Idle
    <2>3. /\ UNCHANGED <<table, run, request>>
          /\ \A d \in Exec : d # e => log'[d] = log[d]
          /\ h = "innerRun" => log'[e] = "running"
      BY <1>6, <1>8 DEF InnerStart, Ended
    <2>4. \A c \in Exec : ~(Parent[c] = e /\ request[c] = "sent")
      BY <1>5, <2>1
    <2> QED
      BY <1>2, <1>4, <2>2, <2>3, <2>4, JobFamily
  <1>9. CASE JobSucceeds(e) \/ JobFails(e)
    <2>1. PICK h \in {"list", "descendants"} : Become(Inner(e), [On(h, e) EXCEPT !.caller = "inner"])
      BY <1>9 DEF JobSucceeds, JobFails
    <2> PICK g : g = [On(h, e) EXCEPT !.caller = "inner"]
      OBVIOUS
    <2>2. Begun(g) /\ g.pc # "innerRun" /\ Become(Inner(e), g)
      BY <2>1, BegunFrames DEF On, Idle
    <2>3. UNCHANGED <<table, run, request>> /\ \A d \in Exec : d # e => log'[d] = log[d]
      BY <1>6, <1>9 DEF JobSucceeds, JobFails, EndLog
    <2>4. ASSUME NEW c \in Exec, Parent[c] = e, request[c] = "sent"
          PROVE  FALSE
      <3>1. log[c] = "success"
        BY <1>9, <2>4 DEF JobSucceeds, JobFails
      <3>2. Asked(c)
        BY <3>1 DEF Family, Home
      <3> QED
        BY <2>4, <3>2, ConstantsAssumption DEF Asked
    <2> QED
      BY <1>2, <1>4, <2>2, <2>3, <2>4, JobFamily
  <1> QED
    BY <1>7, <1>8, <1>9

LEMMA RequestFamily ==
    ASSUME IInv, Family, NEW e \in Exec, NEW c \in Exec, RequestChild(e, c)
    PROVE  Family'
  <1>1. /\ request \in [Exec -> {"none", "sent", "taken"}]
        /\ status' = status /\ cancelRequested' = cancelRequested
        /\ log' = log /\ run' = run /\ proc' = proc
    BY Parts DEF RestOK, RequestChild, table
  <1>2. /\ Parent[c] = e /\ request[c] = "none" /\ proc[Inner(e)].pc = "innerRun"
        /\ request'[c] = "sent" /\ \A d \in Exec : d # c => request'[d] = request[d]
    BY <1>1 DEF RequestChild
  <1>3. \A d : Asked(d) => Asked(d)'
    <2> SUFFICES ASSUME NEW d, Asked(d)
                 PROVE  Asked(d)'
      OBVIOUS
    <2>1. d # c \/ Parent[d] = None
      BY <1>2 DEF Asked
    <2>2. Parent[d] = None \/ request'[d] = request[d]
      BY <1>1, <2>1 DEF RequestChild
    <2> QED
      BY <2>2 DEF Asked
  <1>4. \A d : (Host(d)' <=> Host(d)) /\ (Done(d)' <=> Done(d)) /\ Children(d)' = Children(d)
    BY <1>1 DEF Host, Done, Children, Rows
  <1>5. ASSUME NEW q \in Proc
        PROVE  Minded(q, proc[q])'
    <2> PICK g : g = proc[q]
      OBVIOUS
    <2>1. Minded(q, g) /\ (g.pc = "delete" => Children(g.exec)' = {})
      BY <1>4 DEF Family, Minded, Minds
    <2>2. Minded(q, g)'
      BY <1>3, <1>4, <2>1, MindedLasts
    <2> QED
      BY <1>1, <2>2
  <1>6. ASSUME NEW d \in Exec
        PROVE  Home(d)'
    <2>1. Home(d)
      BY DEF Family
    <2>2. Parent[d] # None /\ request'[d] = "sent" => proc'[Inner(Parent[d])].pc = "innerRun"
      BY <1>1, <1>2, <2>1 DEF Home
    <2> QED
      BY <1>1, <1>3, <1>4, <2>1, <2>2 DEF Home
  <1> QED
    BY <1>5, <1>6 DEF Family

LEMMA StutterFamily ==
    ASSUME IInv, Family, UNCHANGED vars
    PROVE  Family'
  <1>1. Tame /\ Jobs
    BY DEF vars, Tame, Jobs
  <1>2. \A q \in Proc : proc'[q] = proc[q]
    BY DEF vars
  <1> QED
    BY <1>1, <1>2, FamilyNext

LEMMA InitFamily == Init => Family
  <1> SUFFICES ASSUME Init
               PROVE  Family
    OBVIOUS
  <1>1. \A p \in Proc : Minded(p, proc[p])
    BY BegunFrames, BegunMinded DEF Init
  <1>2. ASSUME NEW e \in Exec
        PROVE  Home(e)
    <2>1. proc[Inner(e)] = Idle /\ Idle.pc = "idle"
      BY DEF Init, Proc, Worker, Inner, Idle
    <2>2. /\ status[e] = "absent" /\ run[e] = "none" /\ log[e] = "none" /\ request[e] = "none"
          /\ cancelRequested = {}
      BY DEF Init
    <2> QED
      BY <2>1, <2>2 DEF Home
  <1> QED
    BY <1>1, <1>2 DEF Family

LEMMA NextFamily ==
    ASSUME ParentsUndisturbed, IInv, Owned, Family, [Next]_vars
    PROVE  Family'
  BY DispatchFamily, SettleFamily, FinalizeFamily, CancelFamily, EnqueueFamily, ClientFamily,
     SuperviseFamily, RunJobFamily, RequestFamily, StutterFamily DEF Next, RunJob

LEMMA FamilyHolds ==
    ASSUME ParentsUndisturbed
    PROVE  Spec => [](IInv /\ Owned /\ Family)
  <1>1. NothingRefused
    BY DEF ParentsUndisturbed, NothingRefused
  <1>2. IInv /\ Owned /\ Family /\ [Next]_vars => IInv' /\ Owned' /\ Family'
    BY <1>1, NextKeeps, NextOwned, NextFamily
  <1> QED
    BY <1>2, InitHolds, InitOwned, InitFamily, PTL DEF Spec

-----------------------------------------------------------------------------
(* What the families show.                                                  *)

\* Only a settlement removes a row that is processing: what expires is pending.
LEMMA OnlyDelete ==
    ASSUME IInv, [Next]_vars, NEW e \in Exec, status[e] = "processing", status'[e] = "absent"
    PROVE  \E p \in Proc : Delete(p) /\ proc[p].exec = e
  <1>1. status \in [Exec -> {"absent", "pending", "processing"}]
    BY Parts DEF TableOK
  <1>2. status' # status
    OBVIOUS
  <1>3. ASSUME NEW p \in Proc, Dispatch(p)
        PROVE  FALSE
    <2>1. CASE Claim(p) \/ Revert(p)
      BY <1>1, <2>1 DEF Claim, Revert, SetStatus
    <2>2. CASE TakeSnapshot(p) \/ Reconcile(p) \/ CheckReleased(p) \/ Trigger(p) \/ RecheckRow(p)
      BY <1>2, <2>2 DEF TakeSnapshot, Reconcile, CheckReleased, Trigger, RecheckRow, table
    <2> QED
      BY <1>3, <2>1, <2>2 DEF Dispatch
  <1>4. ASSUME NEW p \in Proc, Settle(p)
        PROVE  Delete(p) /\ proc[p].exec = e
    <2>1. Delete(p)
      BY <1>2, <1>4 DEF Settle, ListChildren, MarkOwnerCompleted, RecheckOwner, table
    <2> QED
      BY <1>1, <2>1 DEF Delete, DropRows
  <1>5. ASSUME NEW p \in Proc, Finalize(p)
        PROVE  FALSE
    BY <1>2, <1>5 DEF Finalize, Terminalize, ListDescendants, NextDescendant,
       CancelDescendantRun, table
  <1>6. ASSUME NEW p \in Proc, Cancel(p)
        PROVE  FALSE
    BY <1>1, <1>2, <1>6 DEF Cancel, CancelRead, CancelMark, CancelClaim, CancelTerminalize,
       SetStatus, table
  <1>7. ASSUME NEW p \in Client, NEW d \in Exec, Enqueue(p, d)
        PROVE  FALSE
    <2>1. PICK stale \in StaleRows : e \notin stale => status'[e] # "absent"
      BY <1>1, <1>7 DEF Enqueue, DropRows, table
    <2>2. e \notin stale
      BY DEF StaleRows, Pending
    <2> QED
      BY <2>1, <2>2
  <1>8. ASSUME NEW d \in Exec, Supervise(d) \/ RunJob(d) \/ OuterCrash(d) \/ InnerKilled(d)
        PROVE  FALSE
    BY <1>2, <1>8 DEF Supervise, RunJob, OuterStart, OuterWait, OuterFailed, OuterExit,
       OuterCrash, EndRun, InnerRead, InnerStart, RequestChild, JobSucceeds, JobFails,
       InnerKilled, table
  <1>9. ASSUME NEW p \in Client, ClientCrash(p) \/ \E d \in Exec : CancelByUser(p, d)
        PROVE  FALSE
    BY <1>2, <1>9 DEF ClientCrash, CancelByUser, table
  <1>10. ~ UNCHANGED vars
    BY <1>2 DEF vars
  <1> QED
    BY <1>3, <1>4, <1>5, <1>6, <1>7, <1>8, <1>9, <1>10 DEF Next

LEMMA DeletesAlone ==
    ASSUME Family, NEW p \in Proc, Delete(p)
    PROVE  Children(proc[p].exec) = {}
  BY DEF Family, Minded, Minds, Delete

\* The row of a parent that nobody cancels or kills is not removed while a child
\* holds one (settlePendingExecutionOwner, completeOwnerWithoutChildren): for any
\* number of parents, children and API processes, whatever crashes, is lost,
\* expires or is submitted again, and whichever children are cancelled.
THEOREM ParentsOutlive == ParentsUndisturbed => (Spec => ParentOutlivesChildren)
  <1> SUFFICES ASSUME ParentsUndisturbed
               PROVE  Spec => ParentOutlivesChildren
    OBVIOUS
  <1>1. ASSUME IInv, Family, [Next]_vars, NEW e \in Exec, status[e] = "processing",
               status'[e] = "absent", NEW c \in Processing
        PROVE  Parent[c] # e
    <2>1. PICK p \in Proc : Delete(p) /\ proc[p].exec = e
      BY <1>1, OnlyDelete
    <2>2. Children(e) = {}
      BY <1>1, <2>1, DeletesAlone
    <2> QED
      BY <2>2 DEF Children, Rows, Processing
  <1>2. IInv /\ Family /\ [Next]_vars =>
           [\A e \in Exec : status[e] = "processing" /\ status'[e] = "absent" =>
               \A c \in Processing : Parent[c] # e]_vars
    BY <1>1
  <1> QED
    BY <1>2, FamilyHolds, PTL DEF Spec, ParentOutlivesChildren

\* The executions that use a slot of their own.
Slots == Counted \ cancelRequested

LEMMA FewerSlots ==
    ASSUME \A e \in Exec : status'[e] = "processing" /\ e \notin cancelRequested' =>
              status[e] = "processing" /\ e \notin cancelRequested,
           \A c \in Processing : Parent[c] \in Processing => status'[Parent[c]] = "processing"
    PROVE  Slots' \subseteq Slots
  BY DEF Slots, Counted, Borrows, Processing

LEMMA SameRowsSlots ==
    ASSUME UNCHANGED status, cancelRequested \subseteq cancelRequested'
    PROVE  Slots' \subseteq Slots
  BY FewerSlots DEF Processing

\* A parent that stops processing has no child that borrows its slot.
LEMMA SlotsOnlyByClaim ==
    ASSUME IInv, Owned, Family, [Next]_vars, ~ \E p \in Proc : Claim(p)
    PROVE  Slots' \subseteq Slots
  <1>1. status \in [Exec -> {"absent", "pending", "processing"}]
    BY Parts DEF TableOK
  <1>2. ASSUME NEW p \in Proc, Dispatch(p)
        PROVE  Slots' \subseteq Slots
    <2>1. ~Revert(p)
      BY DEF Revert, Owned, Fit, Fits, FitsLabel
    <2>2. CASE TakeSnapshot(p) \/ Reconcile(p) \/ CheckReleased(p) \/ Trigger(p) \/ RecheckRow(p)
      BY <2>2, SameRowsSlots DEF TakeSnapshot, Reconcile, CheckReleased, Trigger, RecheckRow, table
    <2> QED
      BY <1>2, <2>1, <2>2 DEF Dispatch
  <1>3. ASSUME NEW p \in Proc, Settle(p)
        PROVE  Slots' \subseteq Slots
    <2>1. CASE Delete(p)
      <3> PICK d : d = proc[p].exec
        OBVIOUS
      <3>1. Children(d) = {} /\ DropRows({d})
        BY <2>1, DeletesAlone DEF Delete
      <3>2. \A c \in Processing : Parent[c] # d
        BY <3>1 DEF Children, Rows, Processing
      <3>3. \A c \in Processing : Parent[c] \in Processing => status'[Parent[c]] = "processing"
        BY <1>1, <3>1, <3>2 DEF DropRows, Processing
      <3>4. \A e \in Exec : status'[e] = "processing" /\ e \notin cancelRequested' =>
               status[e] = "processing" /\ e \notin cancelRequested
        BY <1>1, <3>1 DEF DropRows
      <3> QED
        BY <3>3, <3>4, FewerSlots
    <2>2. CASE ListChildren(p) \/ MarkOwnerCompleted(p) \/ RecheckOwner(p)
      BY <2>2, SameRowsSlots DEF ListChildren, MarkOwnerCompleted, RecheckOwner, table
    <2> QED
      BY <1>3, <2>1, <2>2 DEF Settle
  <1>4. ASSUME NEW p \in Proc, Finalize(p)
        PROVE  Slots' \subseteq Slots
    BY <1>4, SameRowsSlots DEF Finalize, Terminalize, ListDescendants, NextDescendant,
       CancelDescendantRun, table
  <1>5. ASSUME NEW p \in Proc, Cancel(p)
        PROVE  Slots' \subseteq Slots
    <2> PICK d : d = proc[p].exec
      OBVIOUS
    <2>1. CASE /\ CancelClaim(p) /\ status[d] = "pending"
               /\ SetStatus(d, "processing") /\ cancelRequested' = cancelRequested \cup {d}
      <3>1. \A c \in Processing : Parent[c] \in Processing => status'[Parent[c]] = "processing"
        BY <1>1, <2>1 DEF SetStatus, Processing
      <3>2. \A e \in Exec : status'[e] = "processing" /\ e \notin cancelRequested' =>
               status[e] = "processing" /\ e \notin cancelRequested
        BY <1>1, <2>1 DEF SetStatus
      <3> QED
        BY <3>1, <3>2, FewerSlots
    <2>2. CASE CancelTerminalize(p) /\ SetStatus(d, "pending") /\ UNCHANGED cancelRequested
      <3>1. ~Host(d)
        BY <2>2 DEF CancelTerminalize, Family, Minded, Minds, Cancels
      <3>2. \A c \in Processing : Parent[c] \in Processing => Parent[c] # d
        BY <3>1 DEF Host, Processing
      <3>3. \A c \in Processing : Parent[c] \in Processing => status'[Parent[c]] = "processing"
        BY <1>1, <2>2, <3>2 DEF SetStatus, Processing
      <3>4. \A e \in Exec : status'[e] = "processing" /\ e \notin cancelRequested' =>
               status[e] = "processing" /\ e \notin cancelRequested
        BY <1>1, <2>2 DEF SetStatus
      <3> QED
        BY <3>3, <3>4, FewerSlots
    <2>3. CASE UNCHANGED <<status, cancelRequested>>
      BY <2>3, SameRowsSlots
    <2>4. CASE CancelRead(p) \/ CancelMark(p)
      BY <2>4, SameRowsSlots DEF CancelRead, CancelMark, table
    <2> QED
      BY <1>5, <2>1, <2>2, <2>3, <2>4 DEF Cancel, CancelClaim, CancelTerminalize, table
  <1>6. ASSUME NEW e \in Exec, Supervise(e) \/ RunJob(e) \/ OuterCrash(e) \/ InnerKilled(e)
        PROVE  Slots' \subseteq Slots
    BY <1>6, SameRowsSlots DEF Supervise, RunJob, OuterStart, OuterWait, OuterFailed, OuterExit,
       OuterCrash, EndRun, InnerRead, InnerStart, RequestChild, JobSucceeds, JobFails,
       InnerKilled, table
  <1>7. ASSUME NEW p \in Client, NEW e \in Exec, Enqueue(p, e)
        PROVE  Slots' \subseteq Slots
    <2>1. PICK stale \in StaleRows :
             \/ UNCHANGED table
             \/ /\ \A d \in Exec : d \notin stale /\ d # e => status'[d] = status[d]
                /\ \A d \in stale : status'[d] # "processing"
                /\ status[e] = "processing" => status'[e] = "processing"
                /\ status'[e] = "processing" => status[e] = "processing"
                /\ cancelRequested' = cancelRequested \ stale
      <3>1. \A S \in StaleRows : S \subseteq Pending
        BY DEF StaleRows
      <3> QED
        BY <1>1, <1>7, <3>1 DEF Enqueue, DropRows, Rows, Pending
    <2>2. CASE UNCHANGED table
      BY <2>2, SameRowsSlots DEF table
    <2>3. CASE ~ UNCHANGED table
      <3>1. stale \subseteq Pending
        BY DEF StaleRows
      <3>2. \A d \in Exec : status'[d] = "processing" <=> status[d] = "processing"
        BY <2>1, <2>3, <3>1 DEF Pending
      <3>3. \A d \in Exec : status[d] = "processing" => d \notin stale
        BY <3>1 DEF Pending
      <3>4. \A c \in Processing : Parent[c] \in Processing => status'[Parent[c]] = "processing"
        BY <3>2 DEF Processing
      <3> QED
        BY <2>1, <2>3, <3>2, <3>3, <3>4, FewerSlots
    <2> QED
      BY <2>2, <2>3
  <1>8. ASSUME NEW p \in Client, ClientCrash(p) \/ \E e \in Exec : CancelByUser(p, e)
        PROVE  Slots' \subseteq Slots
    BY <1>8, SameRowsSlots DEF ClientCrash, CancelByUser, table
  <1>9. CASE UNCHANGED vars
    BY <1>9, SameRowsSlots DEF vars
  <1> QED
    BY <1>2, <1>3, <1>4, <1>5, <1>6, <1>7, <1>8, <1>9 DEF Next

\* A claim adds one execution, below the limit unless it borrows a slot.
LEMMA ClaimSlots ==
    ASSUME IInv, ConcurrencyLimit # None, IsFiniteSet(Slots), Cardinality(Slots) <= ConcurrencyLimit,
           NEW p \in Proc, Claim(p)
    PROVE  Cardinality(Slots') <= ConcurrencyLimit
  <1>1. /\ status \in [Exec -> {"absent", "pending", "processing"}]
        /\ cancelRequested' = cancelRequested
    BY Parts DEF TableOK, Claim
  <1>2. ConcurrencyLimit \in Nat /\ IsFiniteSet(Counted)
    <2>1. Counted \subseteq Exec
      BY DEF Counted, Processing
    <2> QED
      BY <2>1, ConstantsAssumption, FS_Subset
  <1>3. Cardinality(Slots) \in Nat
    BY FS_CardinalityType
  <1>4. CASE Slots' \subseteq Slots
    <2>1. Cardinality(Slots') <= Cardinality(Slots) /\ Cardinality(Slots') \in Nat
      BY <1>4, FS_Subset, FS_CardinalityType
    <2> QED
      BY <1>2, <1>3, <2>1
  <1>5. CASE ~(Slots' \subseteq Slots)
    <2>1. PICK e \in Exec : HasCapacity(e) /\ SetStatus(e, "processing")
      BY <1>5, SameRowsSlots DEF Claim
    <2>2. Processing' = Processing \cup {e}
      BY <1>1, <2>1 DEF SetStatus, Processing
    <2>3. Slots' \subseteq Slots \cup {e}
      BY <1>1, <2>2 DEF Slots, Counted, Borrows
    <2>4. e \in Slots'
      BY <1>5, <2>3
    <2>5. ~Borrows(e)
      BY <2>2, <2>4 DEF Slots, Counted, Borrows
    <2>6. Cardinality(Counted) < ConcurrencyLimit
      BY <2>1, <2>5 DEF HasCapacity
    <2>7. Slots \subseteq Counted
      BY DEF Slots
    <2>8. Cardinality(Slots) <= Cardinality(Counted) /\ Cardinality(Counted) \in Nat
      BY <1>2, <2>7, FS_Subset, FS_CardinalityType
    <2>9. e \notin Slots
      BY <1>5, <2>3
    <2>10. IsFiniteSet(Slots \cup {e}) /\ Cardinality(Slots \cup {e}) = Cardinality(Slots) + 1
      BY <2>9, FS_AddElement
    <2>11. Cardinality(Slots') <= Cardinality(Slots) + 1 /\ Cardinality(Slots') \in Nat
      BY <2>3, <2>10, FS_Subset, FS_CardinalityType
    <2> QED
      BY <1>2, <1>3, <2>6, <2>8, <2>11
  <1> QED
    BY <1>4, <1>5

\* The executions that use a slot of their own never exceed the limit, children
\* included, where no parent is cancelled, killed or ended early: a child takes no
\* slot while its parent holds one, and its parent holds one as long as it
\* (claimNextPendingExecution, settlePendingExecutionOwner).
THEOREM ChildCapacity == ParentsUndisturbed => (Spec => []CapacityRespected)
  <1> SUFFICES ASSUME ParentsUndisturbed
               PROVE  Spec => []CapacityRespected
    OBVIOUS
  <1>1. Init => CapacityRespected
    <2> SUFFICES ASSUME Init, ConcurrencyLimit # None
                 PROVE  Cardinality(Slots) <= ConcurrencyLimit
      BY DEF CapacityRespected, Slots
    <2>1. Slots = {}
      BY DEF Init, Slots, Counted, Processing
    <2> QED
      BY <2>1, FS_EmptySet, ConstantsAssumption
  <1>2. IInv /\ Owned /\ Family /\ CapacityRespected /\ [Next]_vars => CapacityRespected'
    <2> SUFFICES ASSUME IInv, Owned, Family, CapacityRespected, [Next]_vars,
                        ConcurrencyLimit # None
                 PROVE  Cardinality(Slots') <= ConcurrencyLimit
      BY DEF CapacityRespected, Slots
    <2>1. Cardinality(Slots) <= ConcurrencyLimit
      BY DEF CapacityRespected, Slots
    <2>2. IsFiniteSet(Slots)
      <3>1. Slots \subseteq Exec
        BY DEF Slots, Counted, Processing
      <3> QED
        BY <3>1, ConstantsAssumption, FS_Subset
    <2>3. CASE \E p \in Proc : Claim(p)
      BY <2>1, <2>2, <2>3, ClaimSlots
    <2>4. CASE ~ \E p \in Proc : Claim(p)
      <3>1. Slots' \subseteq Slots
        BY <2>4, SlotsOnlyByClaim
      <3>2. /\ Cardinality(Slots') <= Cardinality(Slots)
            /\ Cardinality(Slots') \in Nat /\ Cardinality(Slots) \in Nat
        BY <2>2, <3>1, FS_Subset, FS_CardinalityType
      <3> QED
        BY <2>1, <3>2, ConstantsAssumption
    <2> QED
      BY <2>3, <2>4
  <1> QED
    BY <1>1, <1>2, FamilyHolds, PTL DEF Spec

-----------------------------------------------------------------------------
(* The order of the queue.                                                  *)

\* Rows are created one after the other.
Ordered ==
    /\ \A e \in Exec : before[e] \subseteq Rows \ {e}
    /\ \A e, f \in Rows : e = f \/ e \in before[f] \/ f \in before[e]
    /\ \A e, f \in Rows : e \in before[f] => before[e] \subseteq before[f]

LEMMA SameRowsOrdered ==
    ASSUME Ordered, before' = before, \A e \in Exec : status'[e] = "absent" <=> status[e] = "absent"
    PROVE  Ordered'
  <1>1. Rows' = Rows
    BY DEF Rows
  <1> QED
    BY <1>1 DEF Ordered

LEMMA DropRowsOrdered ==
    ASSUME IInv, Ordered, NEW S, DropRows(S)
    PROVE  Ordered'
  <1>1. Rows' = Rows \ S
    BY DEF Rows, DropRows
  <1>2. \A e \in Exec : before'[e] = IF e \in S THEN {} ELSE before[e] \ S
    BY DEF DropRows
  <1>3. Rows \subseteq Exec
    BY DEF Rows
  <1>4. ASSUME NEW e \in Exec
        PROVE  before'[e] \subseteq Rows' \ {e}
    <2>1. before[e] \subseteq Rows \ {e}
      BY DEF Ordered
    <2>2. before'[e] = {} \/ before'[e] = before[e] \ S
      BY <1>2
    <2> QED
      BY <1>1, <2>1, <2>2
  <1>5. ASSUME NEW e \in Rows', NEW f \in Rows'
        PROVE  e = f \/ e \in before'[f] \/ f \in before'[e]
    <2>1. e \in Rows \ S /\ f \in Rows \ S /\ e \in Exec /\ f \in Exec
      BY <1>1, <1>3
    <2>2. e = f \/ e \in before[f] \/ f \in before[e]
      BY <2>1 DEF Ordered
    <2>3. before'[e] = before[e] \ S /\ before'[f] = before[f] \ S
      BY <1>2, <2>1
    <2> QED
      BY <2>1, <2>2, <2>3
  <1>6. ASSUME NEW e \in Rows', NEW f \in Rows', e \in before'[f]
        PROVE  before'[e] \subseteq before'[f]
    <2>1. e \in Rows \ S /\ f \in Rows \ S /\ e \in Exec /\ f \in Exec
      BY <1>1, <1>3, <1>6
    <2>2. before'[e] = before[e] \ S /\ before'[f] = before[f] \ S
      BY <1>2, <2>1
    <2>3. before[e] \subseteq before[f]
      BY <1>6, <2>1, <2>2 DEF Ordered
    <2> QED
      BY <2>2, <2>3
  <1> QED
    BY <1>4, <1>5, <1>6 DEF Ordered

LEMMA EnqueueOrdered ==
    ASSUME IInv, Ordered, NEW p, NEW e \in Exec, Enqueue(p, e)
    PROVE  Ordered'
  <1> PICK stale \in StaleRows :
            \/ DropRows(stale)
            \/ UNCHANGED table
            \/ /\ e \notin Rows \ stale
               /\ status' = [f \in Exec |-> IF f = e THEN "pending"
                                            ELSE IF f \in stale THEN "absent" ELSE status[f]]
               /\ before' = [f \in Exec |-> IF f = e THEN Rows \ stale
                                            ELSE IF f \in stale THEN {} ELSE before[f] \ stale]
    BY DEF Enqueue
  <1>1. CASE UNCHANGED table
    BY <1>1, SameRowsOrdered DEF table
  <1>2. CASE /\ e \notin Rows \ stale
             /\ status' = [f \in Exec |-> IF f = e THEN "pending"
                                          ELSE IF f \in stale THEN "absent" ELSE status[f]]
             /\ before' = [f \in Exec |-> IF f = e THEN Rows \ stale
                                          ELSE IF f \in stale THEN {} ELSE before[f] \ stale]
    <2>1. Rows' = (Rows \ stale) \cup {e}
      BY <1>2 DEF Rows
    <2>2. /\ before'[e] = Rows \ stale
          /\ \A f \in Exec : f # e => before'[f] = IF f \in stale THEN {} ELSE before[f] \ stale
      BY <1>2
    <2>3. Rows \subseteq Exec /\ \A f \in Exec : before[f] \subseteq Rows \ {f}
      BY DEF Rows, Ordered
    <2>4. ASSUME NEW f \in Exec
          PROVE  before'[f] \subseteq Rows' \ {f}
      <3>1. CASE f = e
        BY <1>2, <2>1, <2>2, <3>1
      <3>2. CASE f # e
        <4>1. before'[f] = {} \/ before'[f] = before[f] \ stale
          BY <2>2, <3>2
        <4> QED
          BY <2>1, <2>3, <4>1
      <3> QED
        BY <3>1, <3>2
    <2>5. ASSUME NEW f \in Rows', NEW g \in Rows'
          PROVE  f = g \/ f \in before'[g] \/ g \in before'[f]
      <3>1. f \in Exec /\ g \in Exec
        BY <2>1, <2>3
      <3>2. CASE f = e \/ g = e
        BY <2>1, <2>2, <3>2
      <3>3. CASE f # e /\ g # e
        <4>1. f \in Rows \ stale /\ g \in Rows \ stale
          BY <2>1, <3>3
        <4>2. f = g \/ f \in before[g] \/ g \in before[f]
          BY <4>1 DEF Ordered
        <4> QED
          BY <2>2, <3>1, <3>3, <4>1, <4>2
      <3> QED
        BY <3>2, <3>3
    <2>6. ASSUME NEW f \in Rows', NEW g \in Rows', f \in before'[g]
          PROVE  before'[f] \subseteq before'[g]
      <3>1. CASE g = e
        BY <1>2, <2>1, <2>2, <2>3, <2>6, <3>1
      <3>2. CASE g # e
        <4>1. g \in Rows \ stale /\ g \in Exec /\ f \in before[g] \ stale
          BY <2>1, <2>2, <2>3, <2>6, <3>2
        <4>2. f \in Rows \ stale /\ f # e
          BY <1>2, <2>3, <4>1
        <4>3. before[f] \subseteq before[g]
          BY <4>1, <4>2 DEF Ordered
        <4> QED
          BY <2>2, <2>3, <3>2, <4>1, <4>2, <4>3
      <3> QED
        BY <3>1, <3>2
    <2> QED
      BY <2>4, <2>5, <2>6 DEF Ordered
  <1> QED
    BY <1>1, <1>2, DropRowsOrdered

LEMMA NextOrdered ==
    ASSUME IInv, Ordered, [Next]_vars
    PROVE  Ordered'
  <1>1. status \in [Exec -> {"absent", "pending", "processing"}]
    BY Parts DEF TableOK
  <1>2. CASE UNCHANGED <<status, before>>
    BY <1>2, SameRowsOrdered
  <1>3. ASSUME NEW e \in Exec, status[e] # "absent", NEW s \in {"pending", "processing"}, SetStatus(e, s)
        PROVE  Ordered'
    BY <1>1, <1>3, SameRowsOrdered DEF SetStatus
  <1>4. ASSUME NEW p \in Proc, Dispatch(p)
        PROVE  Ordered'
    <2>1. CASE Claim(p)
      BY <1>2, <1>3, <2>1 DEF Claim, Candidate, Pending
    <2>2. CASE Revert(p)
      <3>1. proc[p].exec \in Exec
        BY <2>2, ProcFacts, FrameFacts DEF Revert, Ruled
      <3> QED
        BY <1>2, <1>3, <2>2, <3>1 DEF Revert
    <2>3. CASE TakeSnapshot(p) \/ Reconcile(p) \/ CheckReleased(p) \/ Trigger(p) \/ RecheckRow(p)
      BY <1>2, <2>3 DEF TakeSnapshot, Reconcile, CheckReleased, Trigger, RecheckRow, table
    <2> QED
      BY <1>4, <2>1, <2>2, <2>3 DEF Dispatch
  <1>5. ASSUME NEW p \in Proc, Settle(p)
        PROVE  Ordered'
    BY <1>2, <1>5, DropRowsOrdered DEF Settle, ListChildren, MarkOwnerCompleted, RecheckOwner,
       Delete, table
  <1>6. ASSUME NEW p \in Proc, Finalize(p)
        PROVE  Ordered'
    BY <1>2, <1>6 DEF Finalize, Terminalize, ListDescendants, NextDescendant,
       CancelDescendantRun, table
  <1>7. ASSUME NEW p \in Proc, Cancel(p)
        PROVE  Ordered'
    <2>1. proc[p].pc \in {"cancelClaim", "cancelTerminalize"} => proc[p].exec \in Exec
      BY ProcFacts, FrameFacts DEF WithRow
    <2>2. CASE CancelClaim(p)
      BY <1>2, <1>3, <2>1, <2>2 DEF CancelClaim, table
    <2>3. CASE CancelTerminalize(p)
      BY <1>2, <1>3, <2>1, <2>3 DEF CancelTerminalize, table
    <2>4. CASE CancelRead(p) \/ CancelMark(p)
      BY <1>2, <2>4 DEF CancelRead, CancelMark, table
    <2> QED
      BY <1>7, <2>2, <2>3, <2>4 DEF Cancel
  <1>8. ASSUME NEW e \in Exec, Supervise(e) \/ RunJob(e) \/ OuterCrash(e) \/ InnerKilled(e)
        PROVE  Ordered'
    BY <1>2, <1>8 DEF Supervise, RunJob, OuterStart, OuterWait, OuterFailed, OuterExit,
       OuterCrash, EndRun, InnerRead, InnerStart, RequestChild, JobSucceeds, JobFails,
       InnerKilled, table
  <1>9. ASSUME NEW p \in Client, ClientCrash(p) \/ \E e \in Exec : CancelByUser(p, e)
        PROVE  Ordered'
    BY <1>2, <1>9 DEF ClientCrash, CancelByUser, table
  <1>10. CASE UNCHANGED vars
    BY <1>2, <1>10 DEF vars
  <1> QED
    BY <1>4, <1>5, <1>6, <1>7, <1>8, <1>9, <1>10, EnqueueOrdered DEF Next

\* Some row comes first: the one with the fewest before it.
LEMMA FirstPending ==
    ASSUME Ordered, Pending # {}
    PROVE  \E e \in Pending : \A f \in Pending \ {e} : e \in before[f]
  <1>1. Pending \subseteq Rows /\ Rows \subseteq Exec /\ IsFiniteSet(Rows)
    <2>1. Pending \subseteq Rows /\ Rows \subseteq Exec
      BY DEF Pending, Rows
    <2> QED
      BY <2>1, ConstantsAssumption, FS_Subset
  <1>2. \A e \in Exec : IsFiniteSet(before[e]) /\ Cardinality(before[e]) \in Nat
    <2> SUFFICES ASSUME NEW e \in Exec
                 PROVE  IsFiniteSet(before[e]) /\ Cardinality(before[e]) \in Nat
      OBVIOUS
    <2>1. before[e] \subseteq Rows
      BY DEF Ordered
    <2> QED
      BY <1>1, <2>1, FS_Subset, FS_CardinalityType
  <1> DEFINE Sizes == {Cardinality(before[e]) : e \in Pending}
  <1>3. Sizes \in SUBSET Nat /\ Sizes # {}
    BY <1>1, <1>2
  <1>4. PICK m \in Sizes : \A k \in Sizes : m <= k
    BY <1>3, Least
  <1>5. PICK e \in Pending : Cardinality(before[e]) = m
    BY <1>4
  <1>6. ASSUME NEW f \in Pending \ {e}
        PROVE  e \in before[f]
    <2> SUFFICES ASSUME e \notin before[f]
                 PROVE  FALSE
      OBVIOUS
    <2>1. f \in before[e] /\ e \in Rows /\ f \in Rows /\ e \in Exec /\ f \in Exec
      BY <1>1, <1>6 DEF Ordered
    <2>2. before[f] \subseteq before[e] /\ f \notin before[f]
      BY <2>1 DEF Ordered
    <2>3. before[f] # before[e]
      BY <2>1, <2>2
    <2>4. Cardinality(before[f]) < Cardinality(before[e])
      BY <1>2, <2>1, <2>2, <2>3, FS_Subset
    <2>5. Cardinality(before[f]) \in Sizes
      BY <1>6
    <2>6. m <= Cardinality(before[f])
      BY <1>4, <2>5
    <2> HIDE DEF Sizes
    <2> QED
      BY <1>2, <1>5, <2>1, <2>4, <2>6
  <1> QED
    BY <1>6

-----------------------------------------------------------------------------
(* Wakes.  Where no execution has children and no fault ends a dispatch     *)
(* early, each free slot that a pending row could take has a process on its *)
(* way to claim it.                                                         *)

Flat == \A e \in Exec : Parent[e] = None

\* No process that is to wake the scope is stopped for good before it has.
WakesArrive ==
    Faults \subseteq {"expiry", "resubmission", "jobKilled", "settleKilled", "workerCrash"}

Gone(e) == Over(e) /\ status[e] = "absent"
Held(e) == Over(e) \/ status[e] = "processing"

Settling == {"terminalize", "descendants", "kids", "list", "delete", "released"}
Runs == {"innerRead", "innerStart", "innerRun"}
UserCancels == {"cancelRead", "cancelMark", "cancelClaim", "cancelTerminalize"}

\* The execution that a process settles.
Subject(f) == IF f.pc = "kids" THEN f.family ELSE f.exec

Settles(f, caller) == f.pc \in Settling /\ f.caller = caller

\* What is known of every frame: nobody is on a child's account, and what is
\* settled for a reconciliation is the row that uses the slot.
Tidy(f) ==
    /\ f.pc \notin {"revert", "recheckRow", "mark", "recheck", "kidRun"}
    /\ f.later = None /\ f.kids = {}
    /\ f.family # None => f.pc = "kids"
    /\ \A row \in f.todo : row.owner = row.id /\ Held(row.id)
    /\ f.pc \in UserCancels => f.caller = "cancel"
    /\ f.pc = "terminalize" => Held(f.exec)
    /\ f.pc \in Settling => f.caller \in {"reconcile", "inner", "outer", "cancel"}
    /\ Settles(f, "reconcile") => /\ f.owner \in Exec /\ Held(f.owner)
                                  /\ f.pc # "released" => Subject(f) = f.owner
    /\ f.pc = "released" => f.caller = "reconcile"

\* What workers do: a job settles its own execution, and a supervisor dispatches
\* when its execution is gone.
Placed(p, f) ==
    /\ \A e \in Exec :
          /\ p = Inner(e) => f.pc \in {"idle", "ok", "failed"} \cup Runs \/ Settles(f, "inner")
          /\ p = Inner(e) /\ f.pc = "ok" => Gone(e)
          /\ p = Outer(e) => \/ f.pc \in {"idle", "outerStart", "outerWait", "outerFailed"}
                             \/ Settles(f, "outer")
                             \/ Gone(e)
    /\ Settles(f, "inner") => p = Inner(Subject(f))
    /\ Settles(f, "outer") => p = Outer(Subject(f))

InOrder(p) == Tidy(proc[p]) /\ Placed(p, proc[p])

\* A job at work has a supervisor that waits for it, or starts again.
Waits(e) ==
    \/ proc[Inner(e)].pc \in {"idle", "ok", "failed"}
    \/ Gone(e)
    \/ proc[Outer(e)].pc \in {"outerStart", "outerWait"}

Busy == {p \in Proc : proc[p].pc # "idle"}

Attended ==
    /\ \A p \in Proc : InOrder(p)
    /\ \A e \in Exec : Waits(e) /\ (status[e] = "pending" => ~Over(e))
    /\ ownerCompleted = {}
    /\ Ordered
    /\ IsFiniteSet(Busy)

\* A process that is going to look for a row to claim, and has not yet given up
\* a look that a slot was freed for.
Unfinished(e) ==
    \/ proc[Outer(e)].pc \in {"outerStart", "outerFailed"}
    \/ Settles(proc[Outer(e)], "outer")
    \/ proc[Outer(e)].pc = "outerWait" /\ proc[Inner(e)].pc \notin Runs

Looks(p) ==
    \/ proc[p].pc \in {"claim", "claimAgain"}
    \/ Settles(proc[p], "reconcile") /\ Gone(proc[p].owner)
    \/ \E e \in Exec : p = Outer(e) /\ Gone(e) /\ Unfinished(e)

Lookers == {p \in Proc : Looks(p)}

\* There is a look for each pending row or for each free slot.
Watched ==
    \/ Cardinality(Pending) <= Cardinality(Lookers)
    \/ /\ ConcurrencyLimit # None
       /\ ConcurrencyLimit <= Cardinality(Processing) + Cardinality(Lookers)

\* What every step does for executions: what is gone stays gone, and what is
\* held stays held until it is over.
Firm ==
    \A e \in Exec : /\ Gone(e) => Gone(e)'
                    /\ Held(e) => Held(e)'
                    /\ status'[e] = "pending" => ~Over(e)'

\* A step on which the rest of the argument can stand.
Ground ==
    /\ IInv /\ IInv' /\ Owned /\ Attended /\ Watched
    /\ Firm /\ Ordered' /\ ownerCompleted' = {}

Kept == Attended' /\ Watched'

-----------------------------------------------------------------------------
(* A queue without children.                                                *)

LEMMA FlatFacts ==
    ASSUME Flat
    PROVE  /\ Counted = Processing
           /\ \A e \in Exec : Children(e) = {} /\ Parent[e] = None /\ ~Borrows(e)
           /\ \A e \in Exec : Candidate(e) <=> /\ e \in Pending
                                               /\ \A f \in Pending \ {e} : e \in before[f]
  <1>1. \A e \in Exec : Parent[e] = None /\ ~Borrows(e)
    BY ConstantsAssumption DEF Flat, Borrows, Processing
  <1>2. \A e \in Exec : Children(e) = {}
    BY <1>1, ConstantsAssumption DEF Children, Rows
  <1>3. Counted = Processing
    BY <1>1 DEF Counted, Processing
  <1>4. \A e \in Exec : Rank(e) = 2
    BY <1>1 DEF Rank
  <1>5. ASSUME NEW e \in Exec
        PROVE  Candidate(e) <=> /\ e \in Pending
                                /\ \A f \in Pending \ {e} : e \in before[f]
    <2>1. \A f \in Pending \ {e} : Rank(e) = Rank(f) /\ ~(Rank(e) < Rank(f))
      BY <1>4 DEF Pending
    <2> QED
      BY <2>1 DEF Candidate
  <1> QED
    BY <1>1, <1>2, <1>3, <1>5

Counts ==
    /\ IsFiniteSet(Pending) /\ Cardinality(Pending) \in Nat
    /\ IsFiniteSet(Processing) /\ Cardinality(Processing) \in Nat
    /\ IsFiniteSet(Lookers) /\ Cardinality(Lookers) \in Nat

LEMMA Numbers == Attended => Counts
  <1> SUFFICES ASSUME Attended
               PROVE  Counts
    OBVIOUS
  <1>1. Pending \subseteq Exec /\ Processing \subseteq Exec
    BY DEF Pending, Processing
  <1>2. ASSUME NEW p \in Lookers
        PROVE  p \in Busy
    BY <1>2 DEF Lookers, Looks, Unfinished, Settles, Settling, Busy
  <1>3. Lookers \subseteq Busy /\ IsFiniteSet(Busy) /\ IsFiniteSet(Exec)
    BY <1>2, ConstantsAssumption DEF Attended
  <1> QED
    BY <1>1, <1>3, FS_Subset, FS_CardinalityType DEF Counts

LEMMA NumbersNext == Attended' => Counts'
  BY Numbers, PTL

\* An execution that was started has its row until it is over.
LEMMA Returned ==
    ASSUME IInv, Owned, Attended, NEW e \in Exec, run[e] # "none"
    PROVE  Held(e) /\ (status[e] # "processing" => Gone(e))
  <1>1. Taken(e)
    BY DEF Owned, Ledger
  <1>2. status[e] \in {"absent", "pending", "processing"}
    BY LogFacts
  <1> QED
    BY <1>1, <1>2 DEF Taken, Held, Gone, Attended

-----------------------------------------------------------------------------
(* What a step keeps in general.                                            *)

LEMMA SubjectIn ==
    ASSUME NEW f \in Frames
    PROVE  /\ f.pc \in Settling \ {"released"} => Subject(f) \in Exec
           /\ f.pc = "terminalize" => f.exec \in Exec
           /\ \A row \in f.todo : row.id \in Exec
           /\ f.pc = "kids" => f.family \in Exec
  <1>1. f.pc \in WithRow => f.exec \in Exec
    BY FrameFacts
  <1>2. f.pc = "kids" => f.family \in Exec
    BY DEF Frames, Complete
  <1> QED
    BY <1>1, <1>2, FrameFacts DEF Subject, Settling, WithRow

LEMMA TidyLasts ==
    ASSUME Firm, NEW f \in Frames, Tidy(f)
    PROVE  Tidy(f)'
  <1>1. \A row \in f.todo : row.owner = row.id /\ Held(row.id)'
    BY SubjectIn DEF Tidy, Firm
  <1>2. f.pc = "terminalize" => Held(f.exec)'
    BY SubjectIn DEF Tidy, Firm
  <1>3. Settles(f, "reconcile") => /\ f.owner \in Exec /\ Held(f.owner)'
                                   /\ f.pc # "released" => Subject(f) = f.owner
    BY DEF Tidy, Firm
  <1> QED
    BY <1>1, <1>2, <1>3 DEF Tidy

LEMMA PlacedLasts ==
    ASSUME Firm, NEW p, NEW f, Placed(p, f)
    PROVE  Placed(p, f)'
  BY DEF Placed, Firm

LEMMA AttendedNext ==
    ASSUME Ground, \A q \in Proc : proc'[q] = proc[q] \/ InOrder(q)',
           \A e \in Exec : Waits(e)', IsFiniteSet(Busy)'
    PROVE  Attended'
  <1>1. ASSUME NEW q \in Proc, proc'[q] = proc[q]
        PROVE  InOrder(q)'
    <2> PICK f : f = proc[q]
      OBVIOUS
    <2>1. f \in Frames /\ Tidy(f) /\ Placed(q, f)
      BY ProcFacts DEF Ground, Attended, InOrder
    <2>2. Tidy(f)' /\ Placed(q, f)'
      BY <2>1, TidyLasts, PlacedLasts DEF Ground
    <2> QED
      BY <1>1, <2>2 DEF InOrder
  <1>2. \A e \in Exec : status'[e] = "pending" => ~Over(e)'
    BY DEF Ground, Firm
  <1> QED
    BY <1>1, <1>2 DEF Ground, Attended

\* Few processes change at a step.
LEMMA BusyNext ==
    ASSUME Ground, NEW S, IsFiniteSet(S), \A s \in Proc \ S : proc'[s] = proc[s]
    PROVE  IsFiniteSet(Busy)'
  <1>1. IsFiniteSet(Busy \cup S)
    BY FS_Union DEF Ground, Attended
  <1>2. Busy' \subseteq Busy \cup S
    BY DEF Busy
  <1> QED
    BY <1>1, <1>2, FS_Subset

LEMMA Few ==
    ASSUME NEW p, NEW q, NEW r
    PROVE  IsFiniteSet({p}) /\ IsFiniteSet({p, q}) /\ IsFiniteSet({p, q, r})
  <1>1. IsFiniteSet({p}) /\ IsFiniteSet({q}) /\ IsFiniteSet({r})
    BY FS_Singleton
  <1>2. IsFiniteSet({p} \cup {q})
    BY <1>1, FS_Union
  <1>3. IsFiniteSet(({p} \cup {q}) \cup {r})
    BY <1>1, <1>2, FS_Union
  <1>4. {p} \cup {q} = {p, q} /\ ({p} \cup {q}) \cup {r} = {p, q, r}
    OBVIOUS
  <1> QED
    BY <1>1, <1>2, <1>3, <1>4

\* Whoever was on its way is still on its way.
LEMMA LooksLast ==
    ASSUME Ground, NEW q \in Proc, proc'[q] = proc[q], Looks(q),
           \A e \in Exec : q = Outer(e) /\ Gone(e) /\ proc[q].pc = "outerWait" =>
              proc[Inner(e)].pc \in Runs \/ proc'[Inner(e)].pc \notin Runs
    PROVE  Looks(q)'
  <1>1. CASE proc[q].pc \in {"claim", "claimAgain"}
    BY <1>1 DEF Looks
  <1>2. CASE Settles(proc[q], "reconcile") /\ Gone(proc[q].owner)
    <2>1. proc[q].owner \in Exec
      BY <1>2 DEF Ground, Attended, InOrder, Tidy
    <2>2. Gone(proc[q].owner)'
      BY <1>2, <2>1 DEF Ground, Firm
    <2>3. Settles(proc[q], "reconcile")'
      BY <1>2 DEF Settles
    <2> QED
      BY <2>2, <2>3 DEF Looks
  <1>3. ASSUME NEW e \in Exec, q = Outer(e), Gone(e), Unfinished(e)
        PROVE  Looks(q)'
    <2>1. Gone(e)'
      BY <1>3 DEF Ground, Firm
    <2>2. Unfinished(e)'
      BY <1>3 DEF Unfinished, Settles
    <2> QED
      BY <1>3, <2>1, <2>2 DEF Looks
  <1> QED
    BY <1>1, <1>2, <1>3 DEF Looks

LEMMA WatchKept ==
    ASSUME Ground, Attended', Pending' \subseteq Pending, Processing \subseteq Processing',
           Cardinality(Lookers) <= Cardinality(Lookers')
    PROVE  Watched'
  <1>1. /\ IsFiniteSet(Pending) /\ Cardinality(Pending) \in Nat
        /\ Cardinality(Processing) \in Nat /\ Cardinality(Lookers) \in Nat
    BY Numbers DEF Ground, Counts
  <1>2. /\ Cardinality(Pending') \in Nat /\ IsFiniteSet(Processing')
        /\ Cardinality(Processing') \in Nat /\ Cardinality(Lookers') \in Nat
    BY NumbersNext DEF Counts
  <1>3. Cardinality(Pending') <= Cardinality(Pending)
    BY <1>1, FS_Subset
  <1>4. Cardinality(Processing) <= Cardinality(Processing')
    BY <1>2, FS_Subset
  <1>5. ConcurrencyLimit \in Nat \cup {None}
    BY ConstantsAssumption
  <1> QED
    BY <1>1, <1>2, <1>3, <1>4, <1>5 DEF Ground, Watched

LEMMA MoreLookers ==
    ASSUME Ground, Attended', Lookers \subseteq Lookers'
    PROVE  Cardinality(Lookers) <= Cardinality(Lookers')
  <1>1. IsFiniteSet(Lookers')
    BY NumbersNext DEF Counts
  <1> QED
    BY <1>1, FS_Subset

\* One process takes a step and keeps its look.
LEMMA LoneStep ==
    ASSUME Ground, NEW p \in Proc, NEW g, Become(p, g), Tidy(g), Placed(p, g) \/ Placed(p, g)',
           \A e \in Exec : Waits(e)', g.pc \in Runs => proc[p].pc \in Runs
    PROVE  /\ Attended'
           /\ \A q \in Proc \ {p} : Looks(q) => Looks(q)'
  <1>1. proc'[p] = g /\ \A q \in Proc : q # p => proc'[q] = proc[q]
    BY ProcFacts DEF Become, Ground
  <1>2. g \in Frames
    BY <1>1 DEF Ground, IInv
  <1>3. Tidy(g)' /\ Placed(p, g)'
    BY <1>2, TidyLasts, PlacedLasts DEF Ground
  <1>4. InOrder(p)'
    BY <1>1, <1>3 DEF InOrder
  <1>5. IsFiniteSet(Busy)'
    <2>1. \A q \in Proc \ {p} : proc'[q] = proc[q]
      BY <1>1
    <2>2. IsFiniteSet({p})
      BY Few
    <2> QED
      BY <2>1, <2>2, BusyNext
  <1>6. Attended'
    BY <1>1, <1>4, <1>5, AttendedNext
  <1>7. ASSUME NEW q \in Proc \ {p}, Looks(q)
        PROVE  Looks(q)'
    <2>1. \A e \in Exec : proc[Inner(e)].pc \in Runs \/ proc'[Inner(e)].pc \notin Runs
      BY <1>1, ProcFacts DEF Ground
    <2> QED
      BY <1>1, <1>7, <2>1, LooksLast
  <1> QED
    BY <1>6, <1>7

LEMMA LoneKept ==
    ASSUME Ground, NEW p \in Proc, NEW g, Become(p, g), Tidy(g), Placed(p, g) \/ Placed(p, g)',
           \A e \in Exec : Waits(e)', g.pc \in Runs => proc[p].pc \in Runs,
           Pending' \subseteq Pending, Processing \subseteq Processing',
           Looks(p) => Looks(p)'
    PROVE  Kept
  <1>1. Attended' /\ \A q \in Proc \ {p} : Looks(q) => Looks(q)'
    BY LoneStep
  <1>2. Lookers \subseteq Lookers'
    BY <1>1 DEF Lookers
  <1> QED
    BY <1>1, <1>2, MoreLookers, WatchKept DEF Kept

\* The frames of processes that act for the whole scope, or for a user.
Roaming == {"claim", "claimAgain", "snapshot", "reconcile", "trigger", "exit"} \cup UserCancels
Roams(f) == f.pc \in Roaming \/ Settles(f, "reconcile") \/ Settles(f, "cancel")

\* The frames with which they may go on.
Roamer(g) == Tidy(g) /\ ~Settles(g, "inner") /\ ~Settles(g, "outer") /\ g.pc \notin Runs

LEMMA RoamingFacts ==
    ASSUME Ground, NEW p \in Proc, Roams(proc[p])
    PROVE  \A e \in Exec : p # Inner(e) /\ (p = Outer(e) => Gone(e))
  <1> SUFFICES ASSUME NEW e \in Exec
               PROVE  p # Inner(e) /\ (p = Outer(e) => Gone(e))
    OBVIOUS
  <1> PICK f : f = proc[p]
    OBVIOUS
  <1>1. Placed(p, f) /\ Roams(f)
    BY DEF Ground, Attended, InOrder
  <1>2. /\ f.pc \notin {"idle", "ok", "failed", "outerStart", "outerWait", "outerFailed"} \cup Runs
        /\ ~Settles(f, "inner") /\ ~Settles(f, "outer")
    BY <1>1 DEF Roams, Roaming, UserCancels, Settles, Settling, Runs
  <1> QED
    BY <1>1, <1>2 DEF Placed

LEMMA RoamStep ==
    ASSUME Ground, NEW p \in Proc, Roams(proc[p]), NEW g, Become(p, g), Roamer(g)
    PROVE  /\ Attended'
           /\ \A q \in Proc \ {p} : Looks(q) => Looks(q)'
           /\ /\ Pending' \subseteq Pending /\ Processing \subseteq Processing'
              /\ Looks(p) => Looks(p)'
              => Kept
  <1>1. \A e \in Exec : p # Inner(e) /\ (p = Outer(e) => Gone(e))
    BY RoamingFacts
  <1>2. Placed(p, g) /\ Tidy(g) /\ g.pc \notin Runs
    BY <1>1 DEF Placed, Roamer
  <1>3. ASSUME NEW e \in Exec
        PROVE  Waits(e)'
    <2>1. proc'[Inner(e)] = proc[Inner(e)]
      BY <1>1, ProcFacts DEF Become, Ground
    <2>2. Gone(e) => Gone(e)'
      BY DEF Ground, Firm
    <2>3. p # Outer(e) => proc'[Outer(e)] = proc[Outer(e)]
      BY ProcFacts DEF Become, Ground
    <2>4. Waits(e)
      BY DEF Ground, Attended
    <2> QED
      BY <1>1, <2>1, <2>2, <2>3, <2>4 DEF Waits
  <1> QED
    BY <1>2, <1>3, LoneStep, LoneKept

\* A settlement goes on with its subject.
LEMMA SettleStep ==
    ASSUME Ground, NEW p \in Proc, NEW g, Become(p, g),
           proc[p].pc \in Settling \ {"released"}, g.pc \in Settling,
           g.pc \notin {"terminalize", "released"},
           g.caller = proc[p].caller, g.owner = proc[p].owner, g.todo = proc[p].todo,
           g.later = None, g.kids = {}, g.family # None => g.pc = "kids",
           Subject(g) = Subject(proc[p]),
           Pending' \subseteq Pending, Processing \subseteq Processing'
    PROVE  Kept
  <1> PICK f : f = proc[p]
    OBVIOUS
  <1>1. Tidy(f) /\ Placed(p, f) /\ f \in Frames
    BY ProcFacts DEF Ground, Attended, InOrder
  <1>2. \A caller : Settles(g, caller) <=> Settles(f, caller)
    BY DEF Settles
  <1>3. Tidy(g)
    BY <1>1, <1>2 DEF Tidy, Settles, Settling, UserCancels
  <1>4. Placed(p, g)
    BY <1>1, <1>2 DEF Placed, Settling, Runs
  <1>5. proc'[p] = g /\ \A q \in Proc : q # p => proc'[q] = proc[q]
    BY ProcFacts DEF Become, Ground
  <1>6. ASSUME NEW e \in Exec
        PROVE  Waits(e)'
    <2>1. f.pc \notin {"idle", "ok", "failed", "outerStart", "outerWait"}
      BY DEF Settling
    <2>2. Gone(e) => Gone(e)'
      BY DEF Ground, Firm
    <2>3. Waits(e) /\ Inner(e) \in Proc /\ Outer(e) \in Proc /\ Inner(e) # Outer(e)
      BY ProcFacts DEF Ground, Attended
    <2>4. CASE p = Inner(e)
      BY <1>5, <2>1, <2>2, <2>3, <2>4 DEF Waits
    <2>5. CASE p # Inner(e)
      BY <1>5, <2>1, <2>2, <2>3, <2>5 DEF Waits
    <2> QED
      BY <2>4, <2>5
  <1>7. ASSUME Looks(p)
        PROVE  Looks(p)'
    <2>1. f.pc \notin {"claim", "claimAgain", "outerStart", "outerFailed", "outerWait"}
      BY DEF Settling
    <2>2. CASE Settles(f, "reconcile") /\ Gone(f.owner)
      <3>1. f.owner \in Exec
        BY <1>1, <2>2 DEF Tidy
      <3>2. Gone(f.owner)'
        BY <2>2, <3>1 DEF Ground, Firm
      <3>3. Settles(g, "reconcile")' /\ Gone(g.owner)'
        BY <1>2, <2>2, <3>2 DEF Settles
      <3> QED
        BY <1>5, <3>3 DEF Looks
    <2>3. ASSUME NEW e \in Exec, p = Outer(e), Gone(e), Settles(f, "outer")
          PROVE  Looks(p)'
      <3>1. Gone(e)'
        BY <2>3 DEF Ground, Firm
      <3>2. Unfinished(e)'
        BY <1>2, <1>5, <2>3 DEF Unfinished, Settles
      <3> QED
        BY <2>3, <3>1, <3>2 DEF Looks
    <2> QED
      BY <1>7, <2>1, <2>2, <2>3 DEF Looks, Unfinished
  <1>8. g.pc \notin Runs
    BY DEF Settling, Runs
  <1> QED
    BY <1>3, <1>4, <1>6, <1>7, <1>8, LoneKept

\* Who may be looking, by label.
LEMMA LooksOnly ==
    ASSUME NEW p \in Proc, Looks(p)
    PROVE  \/ proc[p].pc \in {"claim", "claimAgain", "outerStart", "outerFailed", "outerWait"}
           \/ Settles(proc[p], "reconcile") /\ Gone(proc[p].owner)
           \/ Settles(proc[p], "outer")
  BY DEF Looks, Unfinished

LEMMA WorkersLook ==
    ASSUME Ground, NEW e \in Exec
    PROVE  ~Looks(Inner(e)) /\ (Looks(Outer(e)) => Gone(e))
  <1> PICK p \in Proc, q \in Proc : p = Inner(e) /\ q = Outer(e)
    BY ProcFacts DEF Ground
  <1>1. Placed(p, proc[p]) /\ Placed(q, proc[q])
    BY DEF Ground, Attended, InOrder
  <1>2. proc[p].pc \in {"idle", "ok", "failed"} \cup Runs \/ Settles(proc[p], "inner")
    BY <1>1 DEF Placed
  <1>3. ~Looks(p)
    <2>1. \A d \in Exec : p # Outer(d)
      BY DEF Inner, Outer
    <2> QED
      BY <1>2, <2>1 DEF Looks, Settles, Settling, Runs
  <1>4. ASSUME Looks(q)
        PROVE  Gone(e)
    <2>1. \/ proc[q].pc \in {"idle", "outerStart", "outerWait", "outerFailed"}
          \/ Settles(proc[q], "outer")
          \/ Gone(e)
      BY <1>1 DEF Placed
    <2>2. \A d \in Exec : q = Outer(d) => d = e
      BY DEF Outer
    <2> QED
      BY <1>4, <2>1, <2>2 DEF Looks, Settles, Settling
  <1> QED
    BY <1>3, <1>4

LEMMA Exchange ==
    ASSUME NEW S, NEW T, IsFiniteSet(S), IsFiniteSet(T), NEW o, NEW n,
           S \ {o} \subseteq T, o \in S => n \in T \ S
    PROVE  Cardinality(S) <= Cardinality(T)
  <1>1. CASE o \notin S
    BY <1>1, FS_Subset
  <1>2. CASE o \in S
    <2> DEFINE M == S \ {o}
    <2>1. IsFiniteSet(M) /\ Cardinality(M) = Cardinality(S) - 1
      BY <1>2, FS_RemoveElement
    <2>2. IsFiniteSet(M \cup {n}) /\ Cardinality(M \cup {n}) = Cardinality(M) + 1
      BY <1>2, <2>1, FS_AddElement
    <2>3. M \cup {n} \subseteq T
      BY <1>2
    <2>4. Cardinality(M \cup {n}) <= Cardinality(T)
      BY <2>3, FS_Subset
    <2>5. Cardinality(S) \in Nat /\ Cardinality(M) \in Nat /\ Cardinality(T) \in Nat
      BY <2>1, FS_CardinalityType
    <2> HIDE DEF M
    <2> QED
      BY <2>1, <2>2, <2>4, <2>5
  <1> QED
    BY <1>1, <1>2

\* One more process is on its way: one row more may wait, or one slot more be free.
LEMMA WatchMore ==
    ASSUME Ground, Attended', Lookers \subseteq Lookers', NEW n \in Lookers', n \notin Lookers,
           NEW d, Pending' \subseteq Pending \cup {d}, Processing \subseteq Processing' \cup {d}
    PROVE  Watched'
  <1>1. Counts /\ Counts'
    BY Numbers, NumbersNext DEF Ground
  <1>2. Cardinality(Lookers) + 1 <= Cardinality(Lookers')
    <2>1. IsFiniteSet(Lookers \cup {n}) /\ Cardinality(Lookers \cup {n}) = Cardinality(Lookers) + 1
      BY <1>1, FS_AddElement DEF Counts
    <2>2. Cardinality(Lookers \cup {n}) <= Cardinality(Lookers')
      BY <1>1, FS_Subset DEF Counts
    <2> QED
      BY <2>1, <2>2
  <1>3. \A S : IsFiniteSet(S) =>
           /\ IsFiniteSet(S \cup {d}) /\ Cardinality(S \cup {d}) \in Nat
           /\ Cardinality(S) \in Nat /\ Cardinality(S \cup {d}) <= Cardinality(S) + 1
    <2> SUFFICES ASSUME NEW S, IsFiniteSet(S)
                 PROVE  /\ IsFiniteSet(S \cup {d}) /\ Cardinality(S \cup {d}) \in Nat
                        /\ Cardinality(S) \in Nat
                        /\ Cardinality(S \cup {d}) <= Cardinality(S) + 1
      OBVIOUS
    <2>1. IsFiniteSet(S \cup {d})
      BY FS_AddElement
    <2>2. Cardinality(S \cup {d}) = IF d \in S THEN Cardinality(S) ELSE Cardinality(S) + 1
      BY FS_AddElement
    <2>3. Cardinality(S) \in Nat /\ Cardinality(S \cup {d}) \in Nat
      BY <2>1, FS_CardinalityType
    <2> QED
      BY <2>1, <2>2, <2>3
  <1>4. Cardinality(Pending') <= Cardinality(Pending) + 1
    <2>1. Cardinality(Pending') <= Cardinality(Pending \cup {d})
      BY <1>1, <1>3, FS_Subset DEF Counts
    <2> QED
      BY <1>1, <1>3, <2>1 DEF Counts
  <1>5. Cardinality(Processing) <= Cardinality(Processing') + 1
    <2>1. Cardinality(Processing) <= Cardinality(Processing' \cup {d})
      BY <1>1, <1>3, FS_Subset DEF Counts
    <2> QED
      BY <1>1, <1>3, <2>1 DEF Counts
  <1>6. ConcurrencyLimit \in Nat \cup {None}
    BY ConstantsAssumption
  <1> QED
    BY <1>1, <1>2, <1>4, <1>5, <1>6 DEF Ground, Watched, Counts

-----------------------------------------------------------------------------
(* Dispatchers.                                                             *)

LEMMA FreshRoamers ==
    /\ Roamer(Idle)
    /\ \A goal : Roamer(Dispatching(goal))
    /\ \A l \in {"outerStart", "outerFailed", "ok", "failed", "exit"} : Roamer(Starting(l))
    /\ \A l \in {"outerWait", "innerRead", "innerStart", "innerRun"} : Tidy(Starting(l))
  <1> DEFINE Plain(g) == /\ g.later = None /\ g.kids = {} /\ g.todo = {} /\ g.family = None
                         /\ g.pc \notin Settling \cup UserCancels
                         /\ g.pc \notin {"revert", "recheckRow", "mark", "recheck", "kidRun"}
  <1>1. ASSUME NEW g, Plain(g)
        PROVE  Tidy(g) /\ (g.pc \notin Runs => Roamer(g))
    <2>1. g.pc # "terminalize" /\ g.pc # "released" /\ \A c : ~Settles(g, c)
      BY <1>1 DEF Settling, Settles
    <2> QED
      BY <1>1, <2>1 DEF Tidy, Roamer
  <1>2. Plain(Idle) /\ Idle.pc \notin Runs
    BY DEF Idle, Settling, UserCancels, Runs
  <1>3. \A goal : Plain(Dispatching(goal)) /\ Dispatching(goal).pc \notin Runs
    BY DEF Dispatching, Idle, Settling, UserCancels, Runs
  <1>4. \A l \in {"outerStart", "outerFailed", "ok", "failed", "exit"} :
           Plain(Starting(l)) /\ Starting(l).pc \notin Runs
    BY DEF Starting, Idle, Settling, UserCancels, Runs
  <1>5. \A l \in {"outerWait", "innerRead", "innerStart", "innerRun"} : Plain(Starting(l))
    BY DEF Starting, Idle, Settling, UserCancels
  <1> HIDE DEF Plain
  <1> QED
    BY <1>1, <1>2, <1>3, <1>4, <1>5

\* The labels at which a process has nothing in hand but its snapshot.
Between == {"claim", "claimAgain", "snapshot", "reconcile", "trigger", "exit"}

LEMMA BetweenRoamers ==
    ASSUME NEW g, g.pc \in Between, g.later = None, g.kids = {}, g.family = None,
           \A row \in g.todo : row.owner = row.id /\ Held(row.id)
    PROVE  Roamer(g)
  <1>1. /\ g.pc \notin {"revert", "recheckRow", "mark", "recheck", "kidRun", "terminalize", "released"}
        /\ g.pc \notin UserCancels /\ g.pc \notin Runs /\ g.pc \notin Settling
    BY DEF Between, UserCancels, Runs, Settling
  <1> QED
    BY <1>1 DEF Tidy, Roamer, Settles

LEMMA RoamingFrames ==
    ASSUME NEW f \in Frames, Tidy(f), f.family = None
    PROVE  /\ \A l \in {"claim", "claimAgain"} : Roamer(Again(f, l))
           /\ Roamer(Dispatched(f)) /\ Roamer(Drained(f)) /\ Roamer(NextRow(f))
           /\ Roamer(Reconciled(f)) /\ Roamer(Admitted(f))
           /\ \A l \in Between : Roamer(To(f, l))
  <1>1. /\ f.later = None /\ f.kids = {}
        /\ \A row \in f.todo : row.owner = row.id /\ Held(row.id)
    BY DEF Tidy
  <1>2. ASSUME NEW l \in {"claim", "claimAgain"}
        PROVE  Roamer(Again(f, l))
    <2> PICK g : g = Again(f, l)
      OBVIOUS
    <2>1. g.pc = l /\ g.later = None /\ g.kids = {} /\ g.family = None /\ g.todo = {}
      BY <1>1 DEF Again, On, Idle
    <2> QED
      BY <2>1, BetweenRoamers DEF Between
  <1>3. ASSUME NEW l \in Between
        PROVE  Roamer(To(f, l))
    <2> PICK g : g = To(f, l)
      OBVIOUS
    <2>1. g.pc = l /\ g.later = None /\ g.kids = {} /\ g.family = None /\ g.todo = f.todo
      BY <1>1 DEF To, Frames, Frame
    <2> QED
      BY <1>1, <2>1, BetweenRoamers
  <1>4. Roamer(NextRow(f))
    <2> PICK g : g = NextRow(f)
      OBVIOUS
    <2>1. g.pc = "reconcile" /\ g.later = None /\ g.kids = {} /\ g.family = None /\ g.todo = f.todo
      BY <1>1 DEF NextRow, Frames, Frame
    <2> QED
      BY <1>1, <2>1, BetweenRoamers DEF Between
  <1>5. Roamer(Dispatched(f)) /\ Roamer(Reconciled(f))
    BY <1>2, FreshRoamers DEF Dispatched, Reconciled
  <1>6. Roamer(Drained(f))
    BY <1>1, <1>3, FreshRoamers DEF Drained, Between
  <1> QED
    BY <1>2, <1>3, <1>4, <1>5, <1>6 DEF Admitted

LEMMA RoamingNow ==
    ASSUME Ground, NEW p \in Proc
    PROVE  /\ Tidy(proc[p]) /\ proc[p] \in Frames /\ Placed(p, proc[p])
           /\ proc[p].pc # "kids" => proc[p].family = None
           /\ proc[p].later = None /\ proc[p].kids = {}
           /\ \A row \in proc[p].todo : row.owner = row.id /\ Held(row.id)
           /\ proc[p].pc \in Between => /\ Roams(proc[p])
                                        /\ proc[p].pc \notin {"claim", "claimAgain"} => ~Looks(p)
  <1>1. Tidy(proc[p]) /\ proc[p] \in Frames /\ Placed(p, proc[p])
    BY ProcFacts DEF Ground, Attended, InOrder
  <1>2. proc[p].pc \in Between => Roams(proc[p])
    BY DEF Between, Roams, Roaming
  <1>3. proc[p].pc \in Between \ {"claim", "claimAgain"} => ~Looks(p)
    BY LooksOnly DEF Between, Settles, Settling
  <1> QED
    BY <1>1, <1>2, <1>3 DEF Tidy

LEMMA SameRows ==
    ASSUME status' = status
    PROVE  Pending' \subseteq Pending /\ Processing \subseteq Processing'
  BY DEF Pending, Processing

LEMMA ClaimWatch ==
    ASSUME Flat, Ground, NEW p \in Proc, Claim(p)
    PROVE  Kept
  <1> PICK f : f = proc[p]
    OBVIOUS
  <1>1. /\ f.pc \in {"claim", "claimAgain"} /\ f \in Frames /\ Tidy(f) /\ Roams(f)
        /\ f.family = None /\ f.later = None /\ f.kids = {}
        /\ \A row \in f.todo : row.owner = row.id /\ Held(row.id)
    BY RoamingNow DEF Claim, Between
  <1>2. Looks(p)
    BY <1>1 DEF Looks
  <1>3. Counts
    BY Numbers DEF Ground
  <1>4. ASSUME NEW e \in Exec, Candidate(e), HasCapacity(e), SetStatus(e, "processing"),
               Become(p, [f EXCEPT !.pc = "trigger", !.exec = e, !.caller = "dispatch", !.owner = e])
        PROVE  Kept
    <2>1. PICK g : /\ Become(p, g) /\ g.pc = "trigger" /\ g.later = None /\ g.kids = {}
                   /\ g.family = None /\ g.todo = f.todo
      <3> PICK g : g = [f EXCEPT !.pc = "trigger", !.exec = e, !.caller = "dispatch", !.owner = e]
        OBVIOUS
      <3>1. /\ g.pc = "trigger" /\ g.later = None /\ g.kids = {} /\ g.family = None
            /\ g.todo = f.todo
        BY <1>1 DEF Frames, Frame
      <3> QED
        BY <1>4, <3>1
    <2>2. Roamer(g)
      BY <1>1, <2>1, BetweenRoamers DEF Between
    <2>3. Attended' /\ \A q \in Proc \ {p} : Looks(q) => Looks(q)'
      BY <1>1, <2>1, <2>2, RoamStep
    <2>4. Counts'
      BY <2>3, NumbersNext
    <2>5. e \in Pending /\ Pending' = Pending \ {e} /\ Processing' = Processing \cup {e} /\ e \notin Processing
      <3>1. status[e] = "pending" /\ status' = [status EXCEPT ![e] = "processing"]
        BY <1>4 DEF Candidate, SetStatus, Pending
      <3>2. status \in [Exec -> {"absent", "pending", "processing"}]
        BY Parts DEF Ground, TableOK
      <3> QED
        BY <3>1, <3>2 DEF Pending, Processing
    <2>6. Cardinality(Pending') = Cardinality(Pending) - 1
      BY <1>3, <2>5, FS_RemoveElement DEF Counts
    <2>7. Cardinality(Processing') = Cardinality(Processing) + 1
      BY <1>3, <2>5, FS_AddElement DEF Counts
    <2>8. Cardinality(Lookers) - 1 <= Cardinality(Lookers')
      <3>1. p \in Lookers /\ Lookers \ {p} \subseteq Lookers'
        BY <1>2, <2>3 DEF Lookers
      <3>2. IsFiniteSet(Lookers \ {p}) /\ Cardinality(Lookers \ {p}) = Cardinality(Lookers) - 1
        BY <1>3, <3>1, FS_RemoveElement DEF Counts
      <3>3. Cardinality(Lookers \ {p}) <= Cardinality(Lookers')
        BY <2>4, <3>1, FS_Subset DEF Counts
      <3> QED
        BY <3>2, <3>3
    <2>9. ConcurrencyLimit \in Nat \cup {None}
      BY ConstantsAssumption
    <2>10. Watched'
      BY <1>3, <2>4, <2>6, <2>7, <2>8, <2>9 DEF Ground, Watched, Counts
    <2> QED
      BY <2>3, <2>10 DEF Kept
  <1>5. ASSUME \A e \in Exec : Candidate(e) => ~HasCapacity(e), status' = status,
               Become(p, IF f.pc = "claim" THEN To(f, "snapshot") ELSE Drained(f))
        PROVE  Kept
    <2> PICK g : g = IF f.pc = "claim" THEN To(f, "snapshot") ELSE Drained(f)
      OBVIOUS
    <2>1. Roamer(g)
      BY <1>1, RoamingFrames DEF Between
    <2>2. Attended'
      BY <1>1, <1>5, <2>1, RoamStep
    <2>3. Counts'
      BY <2>2, NumbersNext
    <2>4. Pending' = Pending /\ Processing' = Processing
      BY <1>5 DEF Pending, Processing
    <2>5. CASE Pending = {}
      <3>1. Cardinality(Pending') = 0
        BY <2>4, <2>5, FS_EmptySet
      <3> QED
        BY <2>2, <2>3, <3>1 DEF Kept, Watched, Counts
    <2>6. CASE Pending # {}
      <3>1. PICK e \in Pending : \A d \in Pending \ {e} : e \in before[d]
        BY <2>6, FirstPending DEF Ground, Attended
      <3>2. e \in Exec /\ Candidate(e)
        BY <3>1, FlatFacts DEF Pending
      <3>3. ConcurrencyLimit # None /\ ~(Cardinality(Processing) < ConcurrencyLimit)
        BY <1>5, <3>2, FlatFacts DEF HasCapacity
      <3>4. ConcurrencyLimit \in Nat
        BY <3>3, ConstantsAssumption
      <3>5. ConcurrencyLimit <= Cardinality(Processing') + Cardinality(Lookers')
        BY <1>3, <2>3, <2>4, <3>3, <3>4 DEF Counts
      <3> QED
        BY <2>2, <3>3, <3>5 DEF Kept, Watched
    <2> QED
      BY <2>5, <2>6
  <1> QED
    BY <1>4, <1>5 DEF Claim

LEMMA TakeSnapshotWatch ==
    ASSUME Flat, Ground, NEW p \in Proc, TakeSnapshot(p)
    PROVE  Kept
  <1> PICK f : f = proc[p]
    OBVIOUS
  <1>1. /\ f.pc = "snapshot" /\ f \in Frames /\ Roams(f) /\ ~Looks(p)
        /\ f.family = None /\ f.later = None /\ f.kids = {}
    BY RoamingNow DEF TakeSnapshot, Between
  <1> DEFINE rowOf(e) == [id |-> e, cancel |-> e \in cancelRequested,
                          done |-> e \in ownerCompleted,
                          owner |-> IF Borrows(e) THEN Parent[e] ELSE e,
                          earlier |-> IF e = f.exec THEN {}
                                      ELSE (before[e] \cup {f.exec}) \cap Processing]
  <1> PICK rows : rows = {rowOf(e) : e \in Processing}
    OBVIOUS
  <1>2. PICK g : /\ Become(p, g) /\ g.pc = "reconcile" /\ g.later = None /\ g.kids = {}
                 /\ g.family = None /\ g.todo = rows
    <2> PICK g : g = [f EXCEPT !.pc = "reconcile", !.exec = None, !.todo = rows]
      OBVIOUS
    <2>1. Become(p, g)
      BY DEF TakeSnapshot
    <2> HIDE DEF rowOf
    <2>2. /\ g.pc = "reconcile" /\ g.later = None /\ g.kids = {} /\ g.family = None
          /\ g.todo = rows
      BY <1>1 DEF Frames, Frame
    <2> QED
      BY <2>1, <2>2
  <1>3. ASSUME NEW row \in rows
        PROVE  row.owner = row.id /\ Held(row.id)
    <2>1. PICK e \in Processing : row = rowOf(e)
      OBVIOUS
    <2>2. row.id = e /\ row.owner = IF Borrows(e) THEN Parent[e] ELSE e
      BY <2>1
    <2>3. e \in Exec /\ status[e] = "processing" /\ ~Borrows(e)
      BY FlatFacts DEF Processing
    <2> QED
      BY <2>2, <2>3 DEF Held
  <1> HIDE DEF rowOf
  <1>4. Roamer(g)
    BY <1>2, <1>3, BetweenRoamers DEF Between
  <1>5. status' = status
    BY DEF TakeSnapshot, table
  <1> QED
    BY <1>1, <1>2, <1>4, <1>5, SameRows, RoamStep

\* A reconciliation cancels a run while its supervisor and its job are stopped;
\* if the supervisor was to look for a row, the reconciliation is now.
LEMMA InterruptWatch ==
    ASSUME Ground, NEW p \in Proc, proc[p].pc = "reconcile", NEW e \in Exec, NEW g,
           proc' = [proc EXCEPT ![p] = g, ![Outer(e)] = Idle, ![Inner(e)] = Idle],
           UNCHANGED table, Roamer(g), Settles(g, "reconcile"), g.owner = e
    PROVE  Kept
  <1>1. Outer(e) \in Proc /\ Inner(e) \in Proc /\ Outer(e) # Inner(e)
    BY ProcFacts DEF Ground
  <1>2. Roams(proc[p]) /\ ~Looks(p)
    BY RoamingNow DEF Between
  <1>3. \A d \in Exec : p # Inner(d) /\ (p = Outer(d) => Gone(d))
    BY <1>2, RoamingFacts
  <1>4. /\ proc'[Outer(e)] = Idle /\ proc'[Inner(e)] = Idle
        /\ p # Outer(e) => proc'[p] = g
        /\ \A q \in Proc : q \notin {p, Outer(e), Inner(e)} => proc'[q] = proc[q]
    BY <1>1, <1>3, ProcFacts DEF Ground
  <1>5. ASSUME NEW q \in Proc, proc'[q] = Idle
        PROVE  InOrder(q)'
    <2>1. Tidy(Idle)' /\ Idle.pc = "idle"
      <3>1. Tidy(Idle) /\ Idle \in Frames
        BY FreshRoamers, IdleFrame DEF Roamer
      <3> QED
        BY <3>1, TidyLasts DEF Ground, Idle
    <2>2. Placed(q, Idle)'
      BY <2>1 DEF Placed, Settles, Settling
    <2> QED
      BY <1>5, <2>1, <2>2 DEF InOrder
  <1>6. ASSUME p # Outer(e)
        PROVE  InOrder(p)'
    <2>1. g \in Frames
      BY <1>4, <1>6 DEF Ground, IInv
    <2>2. Tidy(g)' /\ Placed(p, g)
      BY <1>3, <2>1, TidyLasts DEF Roamer, Placed, Ground
    <2>3. Placed(p, g)'
      BY <2>2, PlacedLasts DEF Ground
    <2> QED
      BY <1>4, <1>6, <2>2, <2>3 DEF InOrder
  <1>7. ASSUME NEW d \in Exec
        PROVE  Waits(d)'
    <2>1. CASE d = e
      <3>1. Idle.pc = "idle"
        BY DEF Idle
      <3>2. proc'[Inner(d)].pc = "idle"
        BY <1>4, <2>1, <3>1
      <3> QED
        BY <3>2 DEF Waits
    <2>2. CASE d # e
      <3>1. /\ Inner(d) \notin {p, Outer(e), Inner(e)} /\ Outer(d) \notin {Outer(e), Inner(e)}
            /\ Inner(d) \in Proc /\ Outer(d) \in Proc
        BY <1>3, <2>2, ProcFacts DEF Inner, Outer, Ground
      <3>2. Gone(d) => Gone(d)'
        BY DEF Ground, Firm
      <3>3. Waits(d)
        BY DEF Ground, Attended
      <3> QED
        BY <1>3, <1>4, <3>1, <3>2, <3>3 DEF Waits
    <2> QED
      BY <2>1, <2>2
  <1>8. IsFiniteSet(Busy)'
    <2>1. \A q \in Proc \ {p, Outer(e), Inner(e)} : proc'[q] = proc[q]
      BY <1>4
    <2>2. IsFiniteSet({p, Outer(e), Inner(e)})
      BY Few
    <2> QED
      BY <2>1, <2>2, BusyNext
  <1>9. Attended'
    BY <1>4, <1>5, <1>6, <1>7, <1>8, AttendedNext
  <1>10. ASSUME NEW q \in Lookers, q # Outer(e)
         PROVE  q \in Lookers'
    <2>1. q \in Proc /\ Looks(q) /\ q # p /\ q # Inner(e)
      BY <1>2, <1>10, WorkersLook DEF Lookers
    <2>2. proc'[q] = proc[q]
      BY <1>4, <1>10, <2>1
    <2>3. \A d \in Exec : q = Outer(d) => proc'[Inner(d)] = proc[Inner(d)]
      <3> SUFFICES ASSUME NEW d \in Exec, q = Outer(d)
                   PROVE  proc'[Inner(d)] = proc[Inner(d)]
        OBVIOUS
      <3>1. Inner(d) \notin {p, Outer(e), Inner(e)} /\ Inner(d) \in Proc
        BY <1>3, <1>10, ProcFacts DEF Inner, Outer, Ground
      <3> QED
        BY <1>4, <3>1
    <2> QED
      BY <2>1, <2>2, <2>3, LooksLast DEF Lookers
  <1>11. ASSUME Outer(e) \in Lookers
         PROVE  p \in Lookers' \ Lookers
    <2>1. p # Outer(e) /\ Gone(e)
      BY <1>2, <1>11, WorkersLook DEF Lookers
    <2>2. Gone(e)'
      BY <2>1 DEF Ground, Firm
    <2>3. Looks(p)'
      BY <1>4, <2>1, <2>2 DEF Looks, Settles
    <2> QED
      BY <1>2, <2>3 DEF Lookers
  <1>12. Cardinality(Lookers) <= Cardinality(Lookers')
    <2>1. IsFiniteSet(Lookers) /\ IsFiniteSet(Lookers')
      BY <1>9, Numbers, NumbersNext DEF Ground, Counts
    <2>2. Lookers \ {Outer(e)} \subseteq Lookers'
      BY <1>10
    <2> QED
      BY <1>11, <2>1, <2>2, Exchange
  <1>13. status' = status
    BY DEF table
  <1> QED
    BY <1>9, <1>12, <1>13, SameRows, WatchKept DEF Kept

LEMMA ReconcileWatch ==
    ASSUME Ground, NEW p \in Proc, Reconcile(p)
    PROVE  Kept
  <1> PICK f : f = proc[p]
    OBVIOUS
  <1>1. /\ f.pc = "reconcile" /\ f \in Frames /\ Tidy(f) /\ Roams(f) /\ ~Looks(p)
        /\ f.family = None /\ f.later = None /\ f.kids = {}
        /\ \A row \in f.todo : row.owner = row.id /\ Held(row.id)
    BY RoamingNow DEF Reconcile, Between
  <1>2. UNCHANGED table /\ status' = status
    BY DEF Reconcile, table
  <1>3. ASSUME NEW g, Roamer(g), Become(p, g)
        PROVE  Kept
    BY <1>1, <1>2, <1>3, SameRows, RoamStep
  <1>4. CASE Become(p, Reconciled(f))
    BY <1>1, <1>3, <1>4, RoamingFrames
  <1>5. CASE \E row \in f.todo :
                LET g == [f EXCEPT !.todo = @ \ {row}, !.caller = "reconcile"]
                IN  ReconcileRow(p, g, row, NextRow(g))
    <2> PICK row \in f.todo :
                LET g == [f EXCEPT !.todo = @ \ {row}, !.caller = "reconcile"]
                IN  ReconcileRow(p, g, row, NextRow(g))
      BY <1>5
    <2>1. PICK g : /\ ReconcileRow(p, g, row, NextRow(g)) /\ g \in Frame
                   /\ g.pc = "reconcile" /\ g.caller = "reconcile" /\ g.family = None
                   /\ g.later = None /\ g.kids = {} /\ g.todo \subseteq f.todo
      <3> PICK g : g = [f EXCEPT !.todo = @ \ {row}, !.caller = "reconcile"]
        OBVIOUS
      <3>1. ReconcileRow(p, g, row, NextRow(g))
        OBVIOUS
      <3>2. f \in Frame
        BY <1>1 DEF Frames
      <3>3. g \in Frame
        BY <3>2, ZenonT(60) DEF Frame, Callers
      <3>4. /\ g.pc = f.pc /\ g.caller = "reconcile" /\ g.family = f.family
            /\ g.later = f.later /\ g.kids = f.kids /\ g.todo = f.todo \ {row}
        BY <3>2 DEF Frame
      <3> QED
        BY <1>1, <3>1, <3>3, <3>4
    <2>2. PICK e \in Exec : e = row.id /\ e = row.owner /\ Held(e)
      BY <1>1, SubjectIn
    <2> DEFINE reach(l) == To([g EXCEPT !.exec = e, !.owner = row.owner], l)
    <2>3. \/ Become(p, NextRow(g))
          \/ Become(p, reach("trigger"))
          \/ Become(p, reach("list"))
          \/ Become(p, reach("terminalize"))
          \/ proc' = [proc EXCEPT ![p] = reach("terminalize"),
                                  ![Outer(e)] = Idle, ![Inner(e)] = Idle]
      BY <2>1, <2>2 DEF ReconcileRow
    <2>4. ASSUME NEW l \in {"trigger", "list", "terminalize"}
          PROVE  /\ Roamer(reach(l)) /\ reach(l).pc = l
                 /\ reach(l).caller = "reconcile" /\ reach(l).owner = e
      <3>1. PICK h : /\ h = reach(l) /\ h.pc = l /\ h.exec = e /\ h.owner = e /\ h.todo = g.todo
                     /\ h.family = None /\ h.later = None /\ h.kids = {} /\ h.caller = "reconcile"
        <4> PICK h : h = To([g EXCEPT !.exec = e, !.owner = row.owner], l)
          OBVIOUS
        <4>1. /\ h.pc = l /\ h.exec = e /\ h.owner = row.owner /\ h.todo = g.todo
              /\ h.family = g.family /\ h.later = g.later /\ h.kids = g.kids /\ h.caller = g.caller
          BY <2>1 DEF To, Frame
        <4> QED
          BY <2>1, <2>2, <4>1
      <3>2. \A r \in h.todo : r.owner = r.id /\ Held(r.id)
        BY <1>1, <2>1, <3>1
      <3> HIDE DEF reach
      <3>3. h.pc \notin UserCancels /\ h.pc \notin Runs
        BY <3>1 DEF UserCancels, Runs
      <3>4. Subject(h) = e /\ ~Settles(h, "inner") /\ ~Settles(h, "outer")
        BY <3>1 DEF Subject, Settles
      <3>5. Tidy(h)
        BY <2>2, <3>1, <3>2, <3>3, <3>4 DEF Tidy
      <3> QED
        BY <3>1, <3>3, <3>4, <3>5 DEF Roamer
    <2> HIDE DEF reach
    <2>5. Roamer(NextRow(g))
      <3> PICK h : h = NextRow(g)
        OBVIOUS
      <3>1. h.pc = "reconcile" /\ h.later = None /\ h.kids = {} /\ h.family = None /\ h.todo = g.todo
        BY <2>1 DEF NextRow, Frame
      <3>2. \A r \in h.todo : r.owner = r.id /\ Held(r.id)
        BY <1>1, <2>1, <3>1
      <3> QED
        BY <3>1, <3>2, BetweenRoamers DEF Between
    <2>6. CASE proc' = [proc EXCEPT ![p] = reach("terminalize"),
                                    ![Outer(e)] = Idle, ![Inner(e)] = Idle]
      <3>1. Settles(reach("terminalize"), "reconcile")
        BY <2>4 DEF Settles, Settling
      <3> QED
        BY <1>1, <1>2, <2>4, <2>6, <3>1, InterruptWatch
    <2> QED
      BY <1>3, <2>3, <2>4, <2>5, <2>6
  <1> QED
    BY <1>4, <1>5 DEF Reconcile

LEMMA CheckReleasedWatch ==
    ASSUME Ground, NEW p \in Proc, CheckReleased(p)
    PROVE  Kept
  <1> PICK f : f = proc[p]
    OBVIOUS
  <1>1. f.pc = "released" /\ f \in Frames /\ Tidy(f) /\ f.family = None
    BY RoamingNow DEF CheckReleased
  <1>2. Settles(f, "reconcile") /\ Roams(f) /\ f.owner \in Exec /\ Settles(f, "outer") = FALSE
    BY <1>1 DEF Tidy, Settles, Settling, Roams
  <1>3. status' = status
    BY DEF CheckReleased, table
  <1>4. CASE f.owner \in Processing /\ Become(p, NextRow(f))
    <2>1. ~Looks(p)
      <3>1. ~Gone(f.owner)
        BY <1>4 DEF Gone, Processing
      <3> QED
        BY <1>1, <1>2, <3>1, LooksOnly
    <2>2. Roamer(NextRow(f))
      BY <1>1, RoamingFrames
    <2> QED
      BY <1>2, <1>3, <1>4, <2>1, <2>2, SameRows, RoamStep
  <1>5. CASE Become(p, Reconciled(f))
    <2> PICK g : g = Reconciled(f)
      OBVIOUS
    <2>1. g.pc \in {"claim", "claimAgain"}
      BY DEF Reconciled, Dispatching, Again, On, Idle
    <2>2. proc'[p] = g
      BY <1>5, ProcFacts DEF Become, Ground
    <2>3. Looks(p)'
      BY <2>1, <2>2 DEF Looks
    <2>4. Roamer(g)
      BY <1>1, RoamingFrames
    <2> QED
      BY <1>2, <1>3, <1>5, <2>3, <2>4, SameRows, RoamStep
  <1> QED
    BY <1>4, <1>5 DEF CheckReleased

LEMMA TriggerWatch ==
    ASSUME WakesArrive, Ground, NEW p \in Proc, Trigger(p)
    PROVE  Kept
  <1> PICK f : f = proc[p]
    OBVIOUS
  <1>1. f.pc = "trigger" /\ f \in Frames /\ Tidy(f) /\ f.family = None /\ Roams(f) /\ ~Looks(p)
    BY RoamingNow DEF Trigger, Between
  <1>2. PICK e \in Exec : e = f.exec
    BY <1>1, FrameFacts DEF WithRow
  <1> PICK g : g = Admitted(f)
    OBVIOUS
  <1>3. StartRun(p, e, g) /\ status' = status
    <2>1. \A kind \in {"ambiguous", "refused", "rejected"} : kind \notin Faults
      BY DEF WakesArrive
    <2> QED
      BY <1>2, <2>1 DEF Trigger, table
  <1>4. Roamer(g)
    BY <1>1, RoamingFrames
  <1>5. proc \in [Proc -> Frames] /\ Outer(e) \in Proc
    BY ProcFacts, Parts DEF Ground, ProcOK
  <1>6. CASE run[e] # "none"
    <2>1. Become(p, g)
      <3>1. proc' = [proc EXCEPT ![p] = g, ![Outer(e)] = @]
        BY <1>3, <1>6 DEF StartRun
      <3>2. ASSUME NEW q \in Proc
            PROVE  proc'[q] = [proc EXCEPT ![p] = g][q]
        <4>1. CASE p = Outer(e)
          BY <1>5, <3>1, <4>1
        <4>2. CASE p # Outer(e)
          BY <1>5, <3>1, <4>2
        <4> QED
          BY <4>1, <4>2
      <3> QED
        BY <1>5, <3>1, <3>2 DEF Become
    <2> QED
      BY <1>1, <1>3, <1>4, <2>1, SameRows, RoamStep
  <1>7. CASE run[e] = "none"
    <2> PICK h : h = Starting("outerStart")
      OBVIOUS
    <2>1. h.pc = "outerStart" /\ Tidy(h) /\ h \in Frames
      <3>1. "outerStart" \in Labels \ (WithRow \cup {"kids", "kidRun", "recheckRow"})
        BY DEF Labels, WithRow
      <3> QED
        BY <3>1, FreshRoamers, StartingFrame DEF Roamer, Starting, Idle
    <2>2. proc[Outer(e)].pc = "idle" /\ p # Outer(e)
      BY <1>1, <1>5, <1>7 DEF Ground, Owned, Fit, Works
    <2>3. proc' = [proc EXCEPT ![p] = g, ![Outer(e)] = h]
      BY <1>3, <1>7 DEF StartRun
    <2>4. /\ proc'[p] = g /\ proc'[Outer(e)] = h
          /\ \A q \in Proc : q \notin {p, Outer(e)} => proc'[q] = proc[q]
      BY <1>5, <2>2, <2>3
    <2>5. \A d \in Exec : p # Inner(d) /\ (p = Outer(d) => Gone(d))
      BY <1>1, RoamingFacts
    <2>6. InOrder(p)'
      <3>1. g \in Frames
        BY <2>4 DEF Ground, IInv
      <3>2. Tidy(g)' /\ Placed(p, g)
        BY <1>4, <2>5, <3>1, TidyLasts DEF Roamer, Placed, Ground
      <3>3. Placed(p, g)'
        BY <3>2, PlacedLasts DEF Ground
      <3> QED
        BY <2>4, <3>2, <3>3 DEF InOrder
    <2>7. InOrder(Outer(e))'
      <3>1. Tidy(h)'
        BY <2>1, TidyLasts DEF Ground
      <3>2. \A d \in Exec : Outer(e) # Inner(d)
        BY DEF Outer, Inner
      <3>3. Placed(Outer(e), h)'
        BY <2>1, <3>2 DEF Placed, Settles, Settling
      <3> QED
        BY <2>4, <3>1, <3>3 DEF InOrder
    <2>8. ASSUME NEW d \in Exec
          PROVE  Waits(d)' /\ proc'[Inner(d)] = proc[Inner(d)]
      <3>1. Inner(d) \in Proc /\ Outer(d) \in Proc /\ Inner(d) \notin {p, Outer(e)}
        BY <2>5, ProcFacts DEF Inner, Outer, Ground
      <3>2. Gone(d) => Gone(d)'
        BY DEF Ground, Firm
      <3>3. Waits(d)
        BY DEF Ground, Attended
      <3>4. proc'[Inner(d)] = proc[Inner(d)]
        BY <2>4, <3>1
      <3>5. CASE Outer(d) = Outer(e)
        BY <2>1, <2>4, <3>4, <3>5 DEF Waits
      <3>6. CASE Outer(d) # Outer(e)
        BY <2>4, <2>5, <3>1, <3>2, <3>3, <3>4, <3>6 DEF Waits
      <3> QED
        BY <3>4, <3>5, <3>6
    <2>9. IsFiniteSet(Busy)'
      <3>1. \A q \in Proc \ {p, Outer(e)} : proc'[q] = proc[q]
        BY <2>4
      <3>2. IsFiniteSet({p, Outer(e)})
        BY Few
      <3> QED
        BY <3>1, <3>2, BusyNext
    <2>10. Attended'
      BY <2>4, <2>6, <2>7, <2>8, <2>9, AttendedNext
    <2>11. ASSUME NEW q \in Lookers
           PROVE  q \in Lookers'
      <3>1. q \in Proc /\ Looks(q) /\ q # p
        BY <1>1, <2>11 DEF Lookers
      <3>2. q # Outer(e)
        BY <2>2, <3>1, LooksOnly DEF Settles, Settling
      <3> QED
        BY <2>4, <2>8, <3>1, <3>2, LooksLast DEF Lookers
    <2>12. Lookers \subseteq Lookers'
      BY <2>11
    <2> QED
      BY <1>3, <2>10, <2>12, SameRows, MoreLookers, WatchKept DEF Kept
  <1> QED
    BY <1>6, <1>7

-----------------------------------------------------------------------------
(* Settlements.                                                             *)

LEMMA SettlingNow ==
    ASSUME Ground, NEW p \in Proc, proc[p].pc \in Settling
    PROVE  /\ proc[p] \in Frames /\ Tidy(proc[p]) /\ Placed(p, proc[p])
           /\ proc[p].later = None /\ proc[p].kids = {}
           /\ proc[p].family # None => proc[p].pc = "kids"
           /\ proc[p].caller \in {"reconcile", "inner", "outer", "cancel"}
           /\ proc[p].pc # "released" => Subject(proc[p]) \in Exec
           /\ proc[p].pc \notin {"kids", "released"} => proc[p].exec = Subject(proc[p])
  <1>1. Tidy(proc[p]) /\ proc[p] \in Frames /\ Placed(p, proc[p])
    BY RoamingNow
  <1> QED
    BY <1>1, SubjectIn DEF Tidy, Subject

LEMMA ListChildrenWatch ==
    ASSUME Flat, Ground, NEW p \in Proc, ListChildren(p)
    PROVE  Kept
  <1> PICK f : f = proc[p]
    OBVIOUS
  <1>1. f.pc = "list" /\ f.pc \in Settling \ {"released"}
    BY DEF ListChildren, Settling
  <1>2. f \in Frames /\ f.later = None /\ f.kids = {} /\ f.family = None /\ f.exec \in Exec
    BY <1>1, SettlingNow
  <1> PICK g : g = To(f, "delete")
    OBVIOUS
  <1>3. Become(p, g) /\ status' = status
    BY <1>2, FlatFacts DEF ListChildren, table
  <1>4. /\ g.pc = "delete" /\ g.caller = f.caller /\ g.owner = f.owner /\ g.todo = f.todo
        /\ g.later = None /\ g.kids = {} /\ g.family = None /\ g.exec = f.exec
    BY <1>2 DEF To, Frames, Frame
  <1>5. Subject(g) = Subject(f) /\ g.pc \in Settling
    BY <1>1, <1>4 DEF Subject, Settling
  <1> QED
    BY <1>1, <1>3, <1>4, <1>5, SameRows, SettleStep

LEMMA TerminalizeWatch ==
    ASSUME Ground, NEW p \in Proc, Terminalize(p)
    PROVE  Kept
  <1> PICK f : f = proc[p]
    OBVIOUS
  <1>1. f.pc = "terminalize" /\ f.pc \in Settling \ {"released"}
    BY DEF Terminalize, Settling
  <1>2. f \in Frames /\ f.later = None /\ f.kids = {} /\ f.family = None
    BY <1>1, SettlingNow
  <1> PICK g : g = To(f, "descendants")
    OBVIOUS
  <1>3. Become(p, g) /\ status' = status
    BY DEF Terminalize, table
  <1>4. /\ g.pc = "descendants" /\ g.caller = f.caller /\ g.owner = f.owner /\ g.todo = f.todo
        /\ g.later = None /\ g.kids = {} /\ g.family = None /\ g.exec = f.exec
    BY <1>2 DEF To, Frames, Frame
  <1>5. Subject(g) = Subject(f) /\ g.pc \in Settling
    BY <1>1, <1>4 DEF Subject, Settling
  <1> QED
    BY <1>1, <1>3, <1>4, <1>5, SameRows, SettleStep

LEMMA ListDescendantsWatch ==
    ASSUME Flat, Ground, NEW p \in Proc, ListDescendants(p)
    PROVE  Kept
  <1> PICK f : f = proc[p]
    OBVIOUS
  <1>1. f.pc = "descendants" /\ f.pc \in Settling \ {"released"}
    BY DEF ListDescendants, Settling
  <1>2. f \in Frames /\ f.later = None /\ f.exec \in Exec /\ Children(f.exec) = {}
    BY <1>1, SettlingNow, FlatFacts
  <1> PICK g : g = [f EXCEPT !.pc = "kids", !.family = f.exec, !.kids = Children(f.exec)]
    OBVIOUS
  <1>3. Become(p, g) /\ status' = status
    BY DEF ListDescendants, table
  <1>4. /\ g.pc = "kids" /\ g.caller = f.caller /\ g.owner = f.owner /\ g.todo = f.todo
        /\ g.later = None /\ g.kids = {} /\ g.family = f.exec
    BY <1>2 DEF Frames, Frame
  <1>5. Subject(g) = Subject(f) /\ g.pc \in Settling
    BY <1>1, <1>4 DEF Subject, Settling
  <1> QED
    BY <1>1, <1>3, <1>4, <1>5, SameRows, SettleStep

LEMMA NextDescendantWatch ==
    ASSUME Ground, NEW p \in Proc, NextDescendant(p)
    PROVE  Kept
  <1> PICK f : f = proc[p]
    OBVIOUS
  <1>1. f.pc = "kids" /\ f.pc \in Settling \ {"released"}
    BY DEF NextDescendant, Settling
  <1>2. f \in Frames /\ f.later = None /\ f.kids = {} /\ f.family \in Exec
    BY <1>1, SettlingNow DEF Subject
  <1>3. status' = status
    BY DEF NextDescendant, table
  <1>4. CASE f.caller = "cancel" /\ Become(p, Idle)
    <2>1. Settles(f, "cancel") /\ Roams(f)
      BY <1>1, <1>4 DEF Settles, Roams
    <2>2. ~Looks(p)
      BY <1>1, <1>4, LooksOnly DEF Settles
    <2> QED
      BY <1>3, <1>4, <2>1, <2>2, FreshRoamers, SameRows, RoamStep
  <1>5. CASE Become(p, [f EXCEPT !.pc = "list", !.exec = f.family, !.family = None])
    <2> PICK g : g = [f EXCEPT !.pc = "list", !.exec = f.family, !.family = None]
      OBVIOUS
    <2>1. /\ g.pc = "list" /\ g.caller = f.caller /\ g.owner = f.owner /\ g.todo = f.todo
          /\ g.later = None /\ g.kids = {} /\ g.family = None /\ g.exec = f.family
      BY <1>2 DEF Frames, Frame
    <2>2. Subject(g) = Subject(f) /\ g.pc \in Settling
      BY <1>1, <2>1 DEF Subject, Settling
    <2>3. Become(p, g)
      BY <1>5
    <2> QED
      BY <1>1, <1>3, <2>1, <2>2, <2>3, SameRows, SettleStep
  <1> QED
    BY <1>2, <1>4, <1>5 DEF NextDescendant

\* What follows a deletion.
LEMMA AfterDelete ==
    ASSUME Flat, Ground, NEW p \in Proc, Delete(p)
    PROVE  \E e \in Exec :
             /\ e = proc[p].exec /\ e = Subject(proc[p]) /\ Over(e) /\ Gone(e)'
             /\ \A d \in Exec : d # e => status'[d] = status[d]
             /\ \E g : /\ Become(p, g)
                       /\ \/ /\ Settles(proc[p], "reconcile") /\ g = To(proc[p], "released")
                             /\ proc[p].owner = e
                          \/ Settles(proc[p], "inner") /\ p = Inner(e) /\ g = Starting("ok")
                          \/ Settles(proc[p], "outer") /\ p = Outer(e) /\ g = Dispatching("failed")
                          \/ /\ Settles(proc[p], "cancel")
                             /\ \/ status[e] = "absent" /\ g = Idle
                                \/ g = Dispatching("cancelled")
  <1> PICK f : f = proc[p]
    OBVIOUS
  <1>1. f.pc = "delete" /\ f.pc \in Settling
    BY DEF Delete, Settling
  <1>2. /\ f \in Frames /\ Tidy(f) /\ Placed(p, f) /\ f.family = None
        /\ f.caller \in {"reconcile", "inner", "outer", "cancel"}
        /\ f.exec = Subject(f) /\ f.exec \in Exec
    BY <1>1, SettlingNow
  <1>3. PICK e \in Exec : e = f.exec
    BY <1>2
  <1>4. Over(e) /\ log' = log /\ DropRows({e})
    BY <1>1, <1>3 DEF Delete, Ground, Owned, Fit, Fits, FitsLabel
  <1>5. Gone(e)' /\ \A d \in Exec : d # e => status'[d] = status[d]
    BY <1>4 DEF Gone, Over, DropRows
  <1>6. Settles(f, f.caller)
    BY <1>1 DEF Settles
  <1>7. /\ f.caller = "reconcile" => f.owner = e
        /\ f.caller = "inner" => p = Inner(e)
        /\ f.caller = "outer" => p = Outer(e)
    BY <1>1, <1>2, <1>3, <1>6 DEF Tidy, Placed
  <1>8. /\ f.caller = "reconcile" => Settled(f) = To(f, "released")
        /\ f.caller = "inner" => Settled(f) = Starting("ok")
        /\ f.caller = "outer" => Settled(f) = Dispatching("failed")
        /\ f.caller = "cancel" => Settled(f) = Idle
    BY <1>2 DEF Settled
  <1>9. [Dispatching("cancelled") EXCEPT !.later = None] = Dispatching("cancelled")
    <2>1. PICK h : h = Dispatching("cancelled")
      OBVIOUS
    <2>2. h \in Frame
      BY <2>1, DispatchingFrame DEF Frames, Goals
    <2>3. h.later = None
      BY <2>1 DEF Dispatching, Idle
    <2>4. [h EXCEPT !.later = None] = h
      BY <2>2, <2>3 DEF Frame
    <2> QED
      BY <2>1, <2>4
  <1>10. Parent[f.exec] = None
    BY <1>2, FlatFacts
  <1>11. CASE f.caller # "cancel"
    <2>1. Become(p, Settled(f))
      BY <1>2, <1>10, <1>11 DEF Delete
    <2> QED
      BY <1>2, <1>3, <1>4, <1>5, <1>6, <1>7, <1>8, <1>11, <2>1
  <1>12. CASE f.caller = "cancel"
    <2>1. \/ status[e] = "absent" /\ Become(p, Idle)
          \/ Become(p, Dispatching("cancelled"))
      BY <1>2, <1>3, <1>8, <1>9, <1>10, <1>12 DEF Delete
    <2> QED
      BY <1>2, <1>3, <1>4, <1>5, <1>6, <1>12, <2>1
  <1> QED
    BY <1>11, <1>12

\* A row that is deleted frees a slot, and leaves a process that looks for a row:
\* the one that deleted it, or the supervisor of the job that did.
LEMMA DeleteWatch ==
    ASSUME Flat, Ground, NEW p \in Proc, Delete(p)
    PROVE  Kept
  <1> PICK f : f = proc[p]
    OBVIOUS
  <1>1. f.pc = "delete" /\ f.pc \in Settling \ {"released"}
    BY DEF Delete, Settling
  <1>2. /\ f \in Frames /\ Tidy(f) /\ Placed(p, f) /\ f.family = None
        /\ f.later = None /\ f.kids = {}
    BY <1>1, SettlingNow
  <1>3. PICK e \in Exec :
             /\ e = f.exec /\ e = Subject(f) /\ Over(e) /\ Gone(e)'
             /\ \A d \in Exec : d # e => status'[d] = status[d]
             /\ \E g : /\ Become(p, g)
                       /\ \/ /\ Settles(f, "reconcile") /\ g = To(f, "released")
                             /\ f.owner = e
                          \/ Settles(f, "inner") /\ p = Inner(e) /\ g = Starting("ok")
                          \/ Settles(f, "outer") /\ p = Outer(e) /\ g = Dispatching("failed")
                          \/ /\ Settles(f, "cancel")
                             /\ \/ status[e] = "absent" /\ g = Idle
                                \/ g = Dispatching("cancelled")
    BY AfterDelete
  <1>4. PICK g : /\ Become(p, g)
                 /\ \/ Settles(f, "reconcile") /\ g = To(f, "released") /\ f.owner = e
                    \/ Settles(f, "inner") /\ p = Inner(e) /\ g = Starting("ok")
                    \/ Settles(f, "outer") /\ p = Outer(e) /\ g = Dispatching("failed")
                    \/ /\ Settles(f, "cancel")
                       /\ \/ status[e] = "absent" /\ g = Idle
                          \/ g = Dispatching("cancelled")
    BY <1>3
  <1>5. /\ proc'[p] = g /\ \A q \in Proc : q # p => proc'[q] = proc[q]
        /\ Outer(e) \in Proc /\ Inner(e) \in Proc /\ Outer(e) # Inner(e)
    BY <1>4, ProcFacts DEF Become, Ground
  <1>6. status[e] \in {"absent", "processing"} /\ status'[e] = "absent"
    BY <1>3, LogFacts DEF Ground, Attended, Gone
  <1>7. Pending' \subseteq Pending /\ Processing \subseteq Processing' \cup {e}
    BY <1>3, <1>6 DEF Pending, Processing
  <1>8. status[e] = "absent" => Processing \subseteq Processing' /\ Gone(e)
    BY <1>3, <1>6 DEF Processing, Gone
  <1>9. ASSUME Attended', Lookers \subseteq Lookers',
               status[e] = "processing" => \E n \in Lookers' : n \notin Lookers
        PROVE  Kept
    <2>1. CASE status[e] = "absent"
      BY <1>7, <1>8, <1>9, <2>1, MoreLookers, WatchKept DEF Kept
    <2>2. CASE status[e] = "processing"
      <3>1. PICK n \in Lookers' : n \notin Lookers
        BY <1>9, <2>2
      <3>2. Pending' \subseteq Pending \cup {e}
        BY <1>7
      <3> QED
        BY <1>7, <1>9, <3>1, <3>2, WatchMore DEF Kept
    <2> QED
      BY <1>6, <2>1, <2>2
  <1>10. status[e] = "processing" => ~Gone(e)
    BY DEF Gone
  <1>11. CASE Settles(f, "reconcile") /\ g = To(f, "released") /\ f.owner = e
    <2>1. /\ g.pc = "released" /\ g.caller = "reconcile" /\ g.owner = e /\ g.todo = f.todo
          /\ g.later = None /\ g.kids = {} /\ g.family = None
      BY <1>2, <1>11 DEF To, Frames, Frame, Settles
    <2>2. Held(e) /\ \A row \in f.todo : row.owner = row.id /\ Held(row.id)
      BY <1>2, <1>11 DEF Tidy
    <2>3. Settles(g, "reconcile") /\ ~Settles(g, "inner") /\ ~Settles(g, "outer")
      BY <2>1 DEF Settles, Settling
    <2>4. Roamer(g)
      BY <2>1, <2>2, <2>3 DEF Roamer, Tidy, UserCancels, Runs
    <2>5. Roams(f)
      BY <1>11 DEF Roams
    <2>6. Attended' /\ \A q \in Proc \ {p} : Looks(q) => Looks(q)'
      BY <1>4, <2>4, <2>5, RoamStep
    <2>7. Looks(p)'
      BY <1>3, <1>5, <2>1, <2>3 DEF Looks, Settles
    <2>8. Lookers \subseteq Lookers' /\ p \in Lookers'
      BY <2>6, <2>7 DEF Lookers
    <2>9. status[e] = "processing" => ~Looks(p)
      BY <1>1, <1>10, <1>11, LooksOnly DEF Settles
    <2> QED
      BY <1>9, <2>6, <2>8, <2>9 DEF Lookers
  <1>12. CASE Settles(f, "cancel") /\ g \in {Idle, Dispatching("cancelled")}
              /\ (g = Idle => status[e] = "absent")
    <2>1. Roams(f) /\ Roamer(g)
      BY <1>12, FreshRoamers DEF Roams
    <2>2. Attended' /\ \A q \in Proc \ {p} : Looks(q) => Looks(q)'
      BY <1>4, <2>1, RoamStep
    <2>3. ~Looks(p)
      BY <1>1, <1>12, LooksOnly DEF Settles
    <2>4. status[e] = "processing" => Looks(p)'
      <3>1. g = Dispatching("cancelled") => g.pc = "claim"
        BY DEF Dispatching, Idle
      <3> QED
        BY <1>5, <1>12, <3>1 DEF Looks
    <2>5. Lookers \subseteq Lookers'
      BY <2>2, <2>3 DEF Lookers
    <2> QED
      BY <1>9, <2>2, <2>3, <2>4, <2>5 DEF Lookers
  <1>13. CASE Settles(f, "inner") /\ p = Inner(e) /\ g = Starting("ok")
    <2>1. Tidy(g) /\ g.pc = "ok"
      BY <1>13, FreshRoamers DEF Roamer, Starting, Idle
    <2>2. Placed(p, g)'
      <3>1. \A d \in Exec : /\ p = Inner(d) => d = e
                            /\ p # Outer(d)
        BY <1>13 DEF Inner, Outer
      <3> QED
        BY <1>3, <2>1, <3>1 DEF Placed, Settles, Settling
    <2>3. ASSUME NEW d \in Exec
          PROVE  Waits(d)'
      <3>1. Waits(d) /\ (Gone(d) => Gone(d)') /\ Outer(d) # p
        BY <1>13 DEF Ground, Firm, Attended, Inner, Outer
      <3>2. Inner(d) \in Proc /\ Outer(d) \in Proc
        BY ProcFacts DEF Ground
      <3>3. CASE Inner(d) = p
        BY <1>5, <2>1, <3>3 DEF Waits
      <3>4. CASE Inner(d) # p
        BY <1>5, <3>1, <3>2, <3>4 DEF Waits
      <3> QED
        BY <3>3, <3>4
    <2>4. g.pc \notin Runs
      BY <2>1 DEF Runs
    <2>5. Attended' /\ \A q \in Proc \ {p} : Looks(q) => Looks(q)'
      BY <1>4, <2>1, <2>2, <2>3, <2>4, LoneStep
    <2>6. ~Looks(p)
      BY <1>13, WorkersLook
    <2>7. Lookers \subseteq Lookers'
      BY <2>5, <2>6 DEF Lookers
    <2>8. ASSUME status[e] = "processing"
          PROVE  Outer(e) \in Lookers' /\ Outer(e) \notin Lookers
      <3>1. ~Gone(e) /\ Waits(e) /\ f.pc \notin {"idle", "ok", "failed"}
        BY <1>1, <1>10, <2>8 DEF Ground, Attended, Settling
      <3>2. proc[Outer(e)].pc \in {"outerStart", "outerWait"}
        BY <1>13, <3>1 DEF Waits
      <3>3. Unfinished(e)'
        BY <1>5, <1>13, <2>4, <3>2 DEF Unfinished
      <3>4. Looks(Outer(e))'
        BY <1>3, <3>3 DEF Looks
      <3>5. ~Looks(Outer(e))
        BY <3>1, WorkersLook
      <3> QED
        BY <1>5, <3>4, <3>5 DEF Lookers
    <2> QED
      BY <1>9, <2>5, <2>7, <2>8
  <1>14. CASE Settles(f, "outer") /\ p = Outer(e) /\ g = Dispatching("failed")
    <2>1. Tidy(g) /\ g.pc = "claim"
      BY <1>14, FreshRoamers DEF Roamer, Dispatching, Idle
    <2>2. Placed(p, g)'
      <3>1. \A d \in Exec : /\ p = Outer(d) => d = e
                            /\ p # Inner(d)
        BY <1>14 DEF Inner, Outer
      <3> QED
        BY <1>3, <2>1, <3>1 DEF Placed, Settles, Settling
    <2>3. ASSUME NEW d \in Exec
          PROVE  Waits(d)'
      <3>1. Waits(d) /\ (Gone(d) => Gone(d)') /\ Inner(d) # p /\ (Outer(d) = p => d = e)
        BY <1>14 DEF Ground, Firm, Attended, Inner, Outer
      <3>2. Inner(d) \in Proc /\ Outer(d) \in Proc
        BY ProcFacts DEF Ground
      <3>3. CASE d = e
        BY <1>3, <3>3 DEF Waits
      <3>4. CASE Outer(d) # p
        BY <1>5, <3>1, <3>2, <3>4 DEF Waits
      <3> QED
        BY <3>1, <3>3, <3>4
    <2>4. g.pc \notin Runs
      BY <2>1 DEF Runs
    <2>5. Attended' /\ \A q \in Proc \ {p} : Looks(q) => Looks(q)'
      BY <1>4, <2>1, <2>2, <2>3, <2>4, LoneStep
    <2>6. Looks(p)'
      BY <1>5, <2>1 DEF Looks
    <2>7. status[e] = "processing" => ~Looks(p)
      BY <1>10, <1>14, WorkersLook
    <2>8. Lookers \subseteq Lookers' /\ p \in Lookers'
      BY <2>5, <2>6 DEF Lookers
    <2> QED
      BY <1>9, <2>5, <2>7, <2>8 DEF Lookers
  <1>15. Idle # Dispatching("cancelled")
    BY DEF Dispatching, Idle
  <1> QED
    BY <1>4, <1>11, <1>12, <1>13, <1>14, <1>15

LEMMA SettleWatch ==
    ASSUME Flat, Ground, NEW p \in Proc, Settle(p)
    PROVE  Kept
  <1>1. ~MarkOwnerCompleted(p) /\ ~RecheckOwner(p)
    BY RoamingNow DEF MarkOwnerCompleted, RecheckOwner, Tidy
  <1> QED
    BY <1>1, ListChildrenWatch, DeleteWatch DEF Settle

LEMMA FinalizeWatch ==
    ASSUME Flat, Ground, NEW p \in Proc, Finalize(p)
    PROVE  Kept
  <1>1. ~CancelDescendantRun(p)
    BY RoamingNow DEF CancelDescendantRun, Tidy
  <1> QED
    BY <1>1, TerminalizeWatch, ListDescendantsWatch, NextDescendantWatch DEF Finalize

LEMMA DispatchWatch ==
    ASSUME Flat, WakesArrive, Ground, NEW p \in Proc, Dispatch(p)
    PROVE  Kept
  <1>1. ~Revert(p) /\ ~RecheckRow(p)
    BY RoamingNow DEF Revert, RecheckRow, Tidy
  <1> QED
    BY <1>1, ClaimWatch, TakeSnapshotWatch, ReconcileWatch, CheckReleasedWatch, TriggerWatch
       DEF Dispatch

-----------------------------------------------------------------------------
(* Cancellations and API requests.                                          *)

LEMMA CancelNow ==
    ASSUME Ground, NEW p \in Proc, proc[p].pc \in UserCancels
    PROVE  /\ Roams(proc[p]) /\ ~Looks(p) /\ proc[p].family = None
           /\ NothingCancelled(proc[p]) = Idle
           /\ \A l \in UserCancels \cup {"descendants", "list"} : Roamer(To(proc[p], l))
  <1> PICK f : f = proc[p]
    OBVIOUS
  <1>1. f.pc # "kids" /\ f.pc \notin Settling
    BY DEF UserCancels, Settling
  <1>2. /\ f \in Frames /\ f.family = None /\ f.later = None /\ f.kids = {}
        /\ \A row \in f.todo : row.owner = row.id /\ Held(row.id)
    BY <1>1, RoamingNow
  <1>3. f.caller = "cancel"
    BY RoamingNow DEF Tidy
  <1>4. Roams(f)
    BY DEF Roams, Roaming
  <1>5. ~Looks(p)
    BY <1>1, LooksOnly DEF UserCancels, Settles
  <1>6. NothingCancelled(f) = Idle
    BY <1>2 DEF NothingCancelled
  <1>7. ASSUME NEW l \in UserCancels \cup {"descendants", "list"}
        PROVE  Roamer(To(f, l))
    <2> PICK g : g = To(f, l)
      OBVIOUS
    <2>1. /\ g.pc = l /\ g.caller = "cancel" /\ g.later = None /\ g.kids = {}
          /\ g.family = None /\ g.todo = f.todo
      BY <1>2, <1>3 DEF To, Frames, Frame
    <2>2. /\ g.pc \notin {"revert", "recheckRow", "mark", "recheck", "kidRun", "terminalize",
                          "released"}
          /\ g.pc \notin Runs
      BY <2>1 DEF UserCancels, Runs
    <2>3. ~Settles(g, "inner") /\ ~Settles(g, "outer") /\ ~Settles(g, "reconcile")
      BY <2>1 DEF Settles
    <2> QED
      BY <1>2, <2>1, <2>2, <2>3 DEF Roamer, Tidy
  <1> QED
    BY <1>2, <1>4, <1>5, <1>6, <1>7

LEMMA CancelWatch ==
    ASSUME WakesArrive, Ground, NEW p \in Proc, Cancel(p)
    PROVE  Kept
  <1> PICK f : f = proc[p]
    OBVIOUS
  <1>1. f.pc \in UserCancels
    BY DEF Cancel, CancelRead, CancelMark, CancelClaim, CancelTerminalize, UserCancels
  <1>2. /\ Roams(f) /\ ~Looks(p) /\ f.family = None /\ NothingCancelled(f) = Idle
        /\ \A l \in UserCancels \cup {"descendants", "list"} : Roamer(To(f, l))
    BY <1>1, CancelNow
  <1>3. ASSUME NEW g, Become(p, g), Roamer(g),
               Pending' \subseteq Pending, Processing \subseteq Processing'
        PROVE  Kept
    BY <1>2, <1>3, RoamStep
  <1>4. Roamer(Idle)
    BY FreshRoamers
  <1>5. CASE CancelRead(p)
    <2>1. status' = status
      BY <1>5 DEF CancelRead, table
    <2>2. Roamer(To(f, "cancelMark")) /\ Roamer(To(f, "cancelClaim"))
      BY <1>2 DEF UserCancels
    <2>3. \/ Become(p, To(f, "cancelMark")) \/ Become(p, To(f, "cancelClaim"))
          \/ Become(p, Idle)
      BY <1>2, <1>5 DEF CancelRead
    <2> QED
      BY <1>3, <1>4, <2>1, <2>2, <2>3, SameRows
  <1>6. CASE CancelMark(p)
    <2>1. status' = status
      BY <1>6 DEF CancelMark
    <2>2. Become(p, Idle) \/ Become(p, To(f, "descendants"))
      BY <1>2, <1>6 DEF CancelMark
    <2> QED
      BY <1>2, <1>3, <1>4, <2>1, <2>2, SameRows
  <1>7. CASE CancelClaim(p)
    <2>1. CASE status' = status /\ Become(p, Idle)
      BY <1>3, <1>4, <2>1, SameRows
    <2>2. CASE SetStatus(f.exec, "processing") /\ Become(p, To(f, "cancelTerminalize"))
      <3>1. Pending' \subseteq Pending /\ Processing \subseteq Processing'
        <4>1. status \in [Exec -> {"absent", "pending", "processing"}]
          BY Parts DEF Ground, TableOK
        <4>2. status' = [status EXCEPT ![f.exec] = "processing"]
          BY <2>2 DEF SetStatus
        <4> QED
          BY <4>1, <4>2 DEF Pending, Processing
      <3>2. Roamer(To(f, "cancelTerminalize"))
        BY <1>2 DEF UserCancels
      <3> QED
        BY <1>3, <2>2, <3>1, <3>2
    <2> QED
      BY <1>2, <1>7, <2>1, <2>2 DEF CancelClaim, table
  <1>8. CASE CancelTerminalize(p)
    <2>1. Become(p, To(f, "list")) /\ status' = status
      BY <1>8 DEF CancelTerminalize, table, WakesArrive
    <2> QED
      BY <1>2, <1>3, <2>1, SameRows
  <1> QED
    BY <1>5, <1>6, <1>7, <1>8 DEF Cancel

\* No process takes a step.
LEMMA StillWatch ==
    ASSUME Ground, status' = status, proc' = proc
    PROVE  Kept
  <1>1. IsFiniteSet(Busy)'
    BY DEF Ground, Attended, Busy
  <1>2. ASSUME NEW e \in Exec
        PROVE  Waits(e)'
    BY DEF Ground, Attended, Firm, Waits
  <1>3. Attended'
    BY <1>1, <1>2, AttendedNext
  <1>4. \A q \in Proc : Looks(q) => Looks(q)'
    BY LooksLast
  <1>5. Lookers \subseteq Lookers'
    BY <1>4 DEF Lookers
  <1> QED
    BY <1>3, <1>5, SameRows, MoreLookers, WatchKept DEF Kept

LEMMA ClientStep ==
    ASSUME Ground, NEW p \in Client, proc[p].pc = "idle", NEW g, Become(p, g), Roamer(g)
    PROVE  /\ p \in Proc /\ ~Looks(p) /\ proc'[p] = g
           /\ Attended'
           /\ \A q \in Proc \ {p} : Looks(q) => Looks(q)'
           /\ Pending' \subseteq Pending /\ Processing \subseteq Processing' => Kept
  <1>1. p \in Proc /\ \A e \in Exec : p # Inner(e) /\ p # Outer(e)
    BY ClientApart
  <1>2. proc'[p] = g /\ \A q \in Proc : q # p => proc'[q] = proc[q]
    BY <1>1, ProcFacts DEF Become, Ground
  <1>3. ~Looks(p)
    BY <1>1, LooksOnly DEF Settles, Settling
  <1>4. Placed(p, g) /\ Tidy(g) /\ g.pc \notin Runs
    BY <1>1 DEF Placed, Roamer
  <1>5. ASSUME NEW e \in Exec
        PROVE  Waits(e)'
    <2>1. Inner(e) \in Proc /\ Outer(e) \in Proc
      BY ProcFacts DEF Ground
    <2>2. proc'[Inner(e)] = proc[Inner(e)] /\ proc'[Outer(e)] = proc[Outer(e)]
      BY <1>1, <1>2, <2>1
    <2>3. Gone(e) => Gone(e)'
      BY DEF Ground, Firm
    <2>4. Waits(e)
      BY DEF Ground, Attended
    <2> QED
      BY <2>2, <2>3, <2>4 DEF Waits
  <1>6. Attended' /\ \A q \in Proc \ {p} : Looks(q) => Looks(q)'
    BY <1>1, <1>4, <1>5, LoneStep
  <1>7. Lookers \subseteq Lookers'
    BY <1>3, <1>6 DEF Lookers
  <1> QED
    BY <1>1, <1>2, <1>3, <1>6, <1>7, MoreLookers, WatchKept DEF Kept

LEMMA CancelByUserWatch ==
    ASSUME Ground, NEW p \in Client, NEW e \in Exec, CancelByUser(p, e)
    PROVE  Kept
  <1> PICK g : g = [On("cancelRead", e) EXCEPT !.caller = "cancel"]
    OBVIOUS
  <1>1. Become(p, g) /\ status' = status /\ proc[p].pc = "idle"
    BY DEF CancelByUser, table
  <1>2. /\ g.pc = "cancelRead" /\ g.caller = "cancel" /\ g.later = None /\ g.kids = {}
        /\ g.family = None /\ g.todo = {}
    BY DEF On, Idle
  <1>3. Roamer(g)
    BY <1>2 DEF Roamer, Tidy, Settles, Settling, Runs
  <1> QED
    BY <1>1, <1>3, SameRows, ClientStep

\* A row that is queued comes with a process that looks for a row.
LEMMA EnqueueWatch ==
    ASSUME Ground, NEW p \in Client, NEW e \in Exec, Enqueue(p, e)
    PROVE  Kept
  <1>1. proc[p].pc = "idle"
    BY DEF Enqueue
  <1>2. PICK stale \in StaleRows :
          \/ UNCHANGED <<table, proc>>
          \/ /\ DropRows(stale)
             /\ \/ Become(p, [On("snapshot", e) EXCEPT !.goal = "duplicate"])
                \/ Become(p, Dispatching("wake"))
          \/ /\ e \notin Rows \ stale
             /\ status' = [f \in Exec |-> IF f = e THEN "pending"
                                          ELSE IF f \in stale THEN "absent" ELSE status[f]]
             /\ Become(p, Dispatching("once"))
    BY DEF Enqueue
  <1>3. stale \subseteq Pending
    BY DEF StaleRows
  <1>4. CASE UNCHANGED <<table, proc>>
    BY <1>4, StillWatch DEF table
  <1>5. CASE DropRows(stale) /\ \/ Become(p, [On("snapshot", e) EXCEPT !.goal = "duplicate"])
                                \/ Become(p, Dispatching("wake"))
    <2>1. Pending' \subseteq Pending /\ Processing \subseteq Processing'
      BY <1>3, <1>5 DEF DropRows, Pending, Processing
    <2>2. PICK g : /\ Become(p, g) /\ g.pc \in {"snapshot", "claim"} /\ g.later = None
                   /\ g.kids = {} /\ g.family = None /\ g.todo = {}
      <3>1. CASE Become(p, [On("snapshot", e) EXCEPT !.goal = "duplicate"])
        <4> PICK h : h = [On("snapshot", e) EXCEPT !.goal = "duplicate"]
          OBVIOUS
        <4>1. /\ h.pc = "snapshot" /\ h.later = None /\ h.kids = {} /\ h.family = None
              /\ h.todo = {}
          BY DEF On, Idle
        <4> QED
          BY <3>1, <4>1
      <3>2. CASE Become(p, Dispatching("wake"))
        <4> PICK h : h = Dispatching("wake")
          OBVIOUS
        <4>1. /\ h.pc = "claim" /\ h.later = None /\ h.kids = {} /\ h.family = None
              /\ h.todo = {}
          BY DEF Dispatching, Idle
        <4> QED
          BY <3>2, <4>1
      <3> QED
        BY <1>5, <3>1, <3>2
    <2>3. Roamer(g)
      BY <2>2, BetweenRoamers DEF Between
    <2> QED
      BY <1>1, <2>1, <2>2, <2>3, ClientStep
  <1>6. CASE /\ e \notin Rows \ stale
             /\ status' = [f \in Exec |-> IF f = e THEN "pending"
                                          ELSE IF f \in stale THEN "absent" ELSE status[f]]
             /\ Become(p, Dispatching("once"))
    <2>1. Pending' \subseteq Pending \cup {e} /\ Processing \subseteq Processing' \cup {e}
      BY <1>3, <1>6 DEF Pending, Processing
    <2>2. PICK g : Become(p, g) /\ Roamer(g) /\ g.pc = "claim"
      <3>1. Dispatching("once").pc = "claim"
        BY DEF Dispatching, Idle
      <3> QED
        BY <1>6, <3>1, FreshRoamers
    <2>3. /\ p \in Proc /\ ~Looks(p) /\ proc'[p] = g /\ Attended'
          /\ \A q \in Proc \ {p} : Looks(q) => Looks(q)'
      BY <1>1, <2>2, ClientStep
    <2>4. Looks(p)'
      BY <2>2, <2>3 DEF Looks
    <2>5. Lookers \subseteq Lookers' /\ p \in Lookers' /\ p \notin Lookers
      BY <2>3, <2>4 DEF Lookers
    <2> QED
      BY <2>1, <2>3, <2>5, WatchMore DEF Kept
  <1> QED
    BY <1>2, <1>4, <1>5, <1>6

-----------------------------------------------------------------------------
(* Supervisors and jobs.                                                    *)

LEMMA JobStep ==
    ASSUME Ground, NEW e \in Exec, proc[Inner(e)].pc \notin {"idle", "ok", "failed"},
           NEW g, Become(Inner(e), g), Tidy(g), status' = status,
           g.pc \in {"ok", "failed"} \cup Runs \/ (Settles(g, "inner") /\ Subject(g) = e),
           g.pc = "ok" => Gone(e)', g.pc \in Runs => proc[Inner(e)].pc \in Runs
    PROVE  Kept
  <1> PICK p \in Proc : p = Inner(e)
    BY ProcFacts DEF Ground
  <1>1. Placed(p, g)'
    <2>1. \A d \in Exec : (p = Inner(d) => d = e) /\ p # Outer(d)
      BY WorkerOf
    <2>2. ~Settles(g, "outer") /\ (Settles(g, "inner") => Subject(g) = e)
      BY DEF Settles, Settling, Runs
    <2> QED
      BY <2>1, <2>2 DEF Placed, Settles
  <1>2. proc'[p] = g /\ \A q \in Proc : q # p => proc'[q] = proc[q]
    BY ProcFacts DEF Become, Ground
  <1>3. ASSUME NEW d \in Exec
        PROVE  Waits(d)'
    <2>1. Waits(d) /\ (Gone(d) => Gone(d)') /\ Outer(d) # p /\ (Inner(d) = p => d = e)
      BY WorkerOf DEF Ground, Firm, Attended
    <2>2. Inner(d) \in Proc /\ Outer(d) \in Proc
      BY ProcFacts DEF Ground
    <2>3. CASE d = e
      BY <1>2, <2>1, <2>2, <2>3 DEF Waits
    <2>4. CASE Inner(d) # p
      BY <1>2, <2>1, <2>2, <2>4 DEF Waits
    <2> QED
      BY <2>1, <2>3, <2>4
  <1>4. ~Looks(p)
    BY WorkersLook
  <1> QED
    BY <1>1, <1>3, <1>4, SameRows, LoneKept

LEMMA StartingTidy ==
    /\ \A l \in {"outerStart", "outerWait", "outerFailed", "innerRead", "innerStart", "innerRun",
                 "ok", "failed"} : Tidy(Starting(l)) /\ Starting(l).pc = l
    /\ \A goal : Tidy(Dispatching(goal)) /\ Dispatching(goal).pc = "claim"
  <1>1. \A l : Starting(l).pc = l
    BY DEF Starting, Idle
  <1>2. \A goal : Dispatching(goal).pc = "claim"
    BY DEF Dispatching, Idle
  <1>3. \A goal : Tidy(Dispatching(goal))
    BY FreshRoamers DEF Roamer
  <1>4. \A l \in {"outerStart", "outerFailed", "ok", "failed"} : Tidy(Starting(l))
    BY FreshRoamers DEF Roamer
  <1>5. \A l \in {"outerWait", "innerRead", "innerStart", "innerRun"} : Tidy(Starting(l))
    BY FreshRoamers
  <1> QED
    BY <1>1, <1>2, <1>3, <1>4, <1>5

LEMMA JobWatch ==
    ASSUME Flat, Ground, NEW e \in Exec, RunJob(e) \/ InnerKilled(e)
    PROVE  Kept
  <1> PICK p \in Proc : p = Inner(e)
    BY ProcFacts DEF Ground
  <1>1. ASSUME NEW l \in {"ok", "failed"} \cup Runs, Become(p, Starting(l)), status' = status,
               proc[p].pc \notin {"idle", "ok", "failed"},
               l = "ok" => Gone(e)', l \in Runs => proc[p].pc \in Runs
        PROVE  Kept
    <2>1. Tidy(Starting(l)) /\ Starting(l).pc = l
      BY StartingTidy DEF Runs
    <2> QED
      BY <1>1, <2>1, JobStep
  <1>2. ASSUME NEW l \in {"list", "descendants"}, status' = status, proc[p].pc = "innerRun",
               Become(p, [On(l, e) EXCEPT !.caller = "inner"])
        PROVE  Kept
    <2> PICK g : g = [On(l, e) EXCEPT !.caller = "inner"]
      OBVIOUS
    <2>1. /\ g.pc = l /\ g.caller = "inner" /\ g.exec = e /\ g.todo = {} /\ g.family = None
          /\ g.later = None /\ g.kids = {}
      BY DEF On, Idle
    <2>2. Settles(g, "inner") /\ Subject(g) = e /\ ~Settles(g, "reconcile")
      BY <2>1 DEF Settles, Settling, Subject
    <2>3. Tidy(g)
      BY <2>1, <2>2 DEF Tidy, UserCancels
    <2>4. g.pc \notin Runs /\ g.pc # "ok" /\ Become(p, g)
      BY <1>2, <2>1 DEF Runs
    <2> QED
      BY <1>2, <2>2, <2>3, <2>4, JobStep
  <1>3. CASE InnerRead(e)
    <2>1. proc[p].pc = "innerRead" /\ status' = status /\ proc[p].pc \in Runs
      BY <1>3 DEF InnerRead, table, Runs
    <2>2. status[e] # "processing" => Gone(e)'
      <3>1. run[e] # "none"
        BY <2>1, HasRun DEF Ground
      <3> QED
        BY <3>1, Returned DEF Ground, Firm
    <2>3. PICK l \in {"innerStart", "ok"} : Become(p, Starting(l)) /\ (l = "ok" => Gone(e)')
      BY <1>3, <2>2 DEF InnerRead
    <2> QED
      BY <1>1, <2>1, <2>3 DEF Runs
  <1>4. CASE InnerStart(e)
    <2>1. proc[p].pc = "innerStart" /\ status' = status /\ proc[p].pc \in Runs
      BY <1>4 DEF InnerStart, table, Runs
    <2>2. PICK l \in {"failed", "innerRun"} : Become(p, Starting(l))
      BY <1>4 DEF InnerStart
    <2> QED
      BY <1>1, <2>1, <2>2 DEF Runs
  <1>5. CASE JobSucceeds(e) \/ JobFails(e)
    <2>1. proc[p].pc = "innerRun" /\ status' = status
      BY <1>5 DEF JobSucceeds, JobFails, table
    <2>2. PICK l \in {"list", "descendants"} : Become(p, [On(l, e) EXCEPT !.caller = "inner"])
      BY <1>5 DEF JobSucceeds, JobFails
    <2> QED
      BY <1>2, <2>1, <2>2
  <1>6. CASE InnerKilled(e)
    <2>1. /\ proc[p].pc \notin {"idle", "ok", "failed"} /\ status' = status
          /\ Become(p, Starting("failed"))
      BY <1>6 DEF InnerKilled, table
    <2> QED
      BY <1>1, <2>1 DEF Runs
  <1>7. \A c \in Exec : ~RequestChild(e, c)
    BY ConstantsAssumption DEF RequestChild, Flat
  <1> QED
    BY <1>3, <1>4, <1>5, <1>6, <1>7 DEF RunJob

LEMMA SupervisorStep ==
    ASSUME Ground, NEW e \in Exec, NEW g, Become(Outer(e), g), Tidy(g), status' = status,
           g.pc \notin Runs, ~Settles(g, "inner"),
           \/ g.pc \in {"outerStart", "outerFailed"}
           \/ Settles(g, "outer") /\ Subject(g) = e
           \/ Gone(e),
           \/ proc[Inner(e)].pc \in {"idle", "ok", "failed"}
           \/ Gone(e)
           \/ g.pc = "outerStart",
           Gone(e) => g.pc \in {"claim", "outerStart", "outerFailed"}
    PROVE  Kept
  <1> PICK p \in Proc : p = Outer(e)
    BY ProcFacts DEF Ground
  <1>1. Gone(e) => Gone(e)'
    BY DEF Ground, Firm
  <1>2. Placed(p, g)'
    <2>1. \A d \in Exec : (p = Outer(d) => d = e) /\ p # Inner(d)
      BY WorkerOf
    <2>2. Settles(g, "outer") => Subject(g) = e \/ Gone(e)
      BY DEF Settles, Settling
    <2>3. Gone(e) => ~Settles(g, "outer")
      BY DEF Settles, Settling
    <2> QED
      BY <1>1, <2>1, <2>2, <2>3 DEF Placed, Settles
  <1>3. proc'[p] = g /\ \A q \in Proc : q # p => proc'[q] = proc[q]
    BY ProcFacts DEF Become, Ground
  <1>4. ASSUME NEW d \in Exec
        PROVE  Waits(d)'
    <2>1. Waits(d) /\ (Gone(d) => Gone(d)') /\ Inner(d) # p /\ (Outer(d) = p => d = e)
      BY WorkerOf DEF Ground, Firm, Attended
    <2>2. Inner(d) \in Proc /\ Outer(d) \in Proc
      BY ProcFacts DEF Ground
    <2>3. CASE d = e
      BY <1>3, <2>1, <2>2, <2>3 DEF Waits
    <2>4. CASE Outer(d) # p
      BY <1>3, <2>1, <2>2, <2>4 DEF Waits
    <2> QED
      BY <2>1, <2>3, <2>4
  <1>5. Looks(p) => Looks(p)'
    <2>1. Looks(p) => Gone(e)
      BY WorkersLook
    <2>2. Gone(e) => Gone(e)' /\ g.pc \in {"claim", "outerStart", "outerFailed"}
      BY <1>1
    <2>3. g.pc \in {"outerStart", "outerFailed"} => Unfinished(e)'
      BY <1>3 DEF Unfinished
    <2> QED
      BY <1>3, <2>1, <2>2, <2>3 DEF Looks
  <1> QED
    BY <1>2, <1>4, <1>5, SameRows, LoneKept

\* The run starts, or starts again: its supervisor starts the job and waits.
LEMMA OuterStartWatch ==
    ASSUME Ground, NEW e \in Exec, OuterStart(e)
    PROVE  Kept
  <1> PICK p \in Proc, r \in Proc : p = Outer(e) /\ r = Inner(e)
    BY ProcFacts DEF Ground
  <1>1. proc[p].pc = "outerStart" /\ status' = status /\ ownerCompleted = {}
    BY DEF OuterStart, table, Ground, Attended
  <1>2. CASE status[e] # "processing"
    <2>1. run[e] # "none"
      BY <1>1, HasRun DEF Ground
    <2>2. Gone(e)
      BY <1>2, <2>1, Returned DEF Ground
    <2> PICK g : g = Dispatching("completed")
      OBVIOUS
    <2>3. Become(Outer(e), g)
      BY <1>2 DEF OuterStart
    <2>4. Tidy(g) /\ g.pc = "claim"
      BY StartingTidy
    <2>5. g.pc \notin Runs /\ ~Settles(g, "inner")
      BY <2>4 DEF Runs, Settles, Settling
    <2> QED
      BY <1>1, <2>2, <2>3, <2>4, <2>5, SupervisorStep
  <1>3. CASE status[e] = "processing"
    <2> PICK g, h : /\ g = Starting("outerWait")
                    /\ h = IF proc[r] = Idle THEN Starting("innerRead") ELSE proc[r]
      OBVIOUS
    <2>1. proc' = [proc EXCEPT ![p] = g, ![r] = h]
      BY <1>1, <1>3 DEF OuterStart
    <2>2. p # r
      BY WorkerOf
    <2>3. /\ proc'[p] = g /\ proc'[r] = h
          /\ \A q \in Proc : q # p /\ q # r => proc'[q] = proc[q]
      BY <2>1, <2>2, ProcFacts DEF Ground
    <2>4. Tidy(g) /\ g.pc = "outerWait"
      BY StartingTidy
    <2>5. g \in Frames /\ h \in Frames
      BY <2>3, ProcFacts DEF Ground, IInv
    <2>6. InOrder(p)'
      <3>1. Tidy(g)'
        BY <2>4, <2>5, TidyLasts DEF Ground
      <3>2. Placed(p, g)'
        <4>1. \A d \in Exec : p # Inner(d)
          BY WorkerOf
        <4>2. \A caller : ~Settles(g, caller)
          BY <2>4 DEF Settles, Settling
        <4> QED
          BY <2>4, <4>1, <4>2 DEF Placed, Settles
      <3> QED
        BY <2>3, <3>1, <3>2 DEF InOrder
    <2>7. proc'[r] = proc[r] \/ InOrder(r)'
      <3>1. CASE proc[r] # Idle
        BY <2>3, <3>1
      <3>2. CASE proc[r] = Idle
        <4>1. Tidy(h) /\ h.pc = "innerRead"
          BY <3>2, StartingTidy
        <4>2. Tidy(h)'
          BY <2>5, <4>1, TidyLasts DEF Ground
        <4>3. Placed(r, h)'
          <5>1. \A d \in Exec : r # Outer(d)
            BY WorkerOf
          <5>2. \A caller : ~Settles(h, caller)
            BY <4>1 DEF Settles, Settling
          <5>3. h.pc \in Runs
            BY <4>1 DEF Runs
          <5> QED
            BY <4>1, <5>1, <5>2, <5>3 DEF Placed, Settles
        <4> QED
          BY <2>3, <4>2, <4>3 DEF InOrder
      <3> QED
        BY <3>1, <3>2
    <2>8. ASSUME NEW d \in Exec
          PROVE  Waits(d)'
      <3>1. CASE d = e
        BY <2>3, <2>4, <3>1 DEF Waits
      <3>2. CASE d # e
        <4>1. /\ Inner(d) \in Proc /\ Outer(d) \in Proc /\ Inner(d) \notin {p, r}
              /\ Outer(d) \notin {p, r}
          BY <3>2, WorkerOf, ProcFacts DEF Ground
        <4>2. Waits(d) /\ (Gone(d) => Gone(d)')
          BY DEF Ground, Firm, Attended
        <4> QED
          BY <2>3, <4>1, <4>2 DEF Waits
      <3> QED
        BY <3>1, <3>2
    <2>9. IsFiniteSet(Busy)'
      <3>1. IsFiniteSet({p, r})
        BY Few
      <3>2. \A q \in Proc \ {p, r} : proc'[q] = proc[q]
        BY <2>3
      <3> QED
        BY <3>1, <3>2, BusyNext
    <2>10. Attended'
      <3>1. \A q \in Proc : proc'[q] = proc[q] \/ InOrder(q)'
        BY <2>3, <2>6, <2>7
      <3> QED
        BY <2>8, <2>9, <3>1, AttendedNext
    <2>11. ~Gone(e)
      BY <1>3 DEF Gone
    <2>12. ASSUME NEW q \in Proc, Looks(q)
           PROVE  Looks(q)'
      <3>1. q # p /\ q # r
        BY <2>11, <2>12, WorkersLook
      <3>2. proc'[q] = proc[q]
        BY <2>3, <3>1
      <3>3. \A d \in Exec : d # e => proc'[Inner(d)] = proc[Inner(d)]
        BY <2>3, WorkerOf, ProcFacts DEF Ground
      <3> QED
        BY <2>11, <2>12, <3>2, <3>3, LooksLast
    <2>13. Lookers \subseteq Lookers'
      BY <2>12 DEF Lookers
    <2> QED
      BY <1>1, <2>10, <2>13, SameRows, MoreLookers, WatchKept DEF Kept
  <1> QED
    BY <1>2, <1>3

LEMMA OuterWaitWatch ==
    ASSUME Ground, NEW e \in Exec, OuterWait(e)
    PROVE  Kept
  <1>1. status' = status /\ Inner(e) \in Proc
    BY ProcFacts DEF OuterWait, table, Ground
  <1>2. CASE proc[Inner(e)].pc = "ok" /\ Become(Outer(e), Dispatching("completed"))
    <2>1. Gone(e)
      BY <1>1, <1>2 DEF Ground, Attended, InOrder, Placed
    <2> PICK g : g = Dispatching("completed")
      OBVIOUS
    <2>2. Tidy(g) /\ g.pc = "claim"
      BY StartingTidy
    <2>3. g.pc \notin Runs /\ ~Settles(g, "inner")
      BY <2>2 DEF Runs, Settles, Settling
    <2> QED
      BY <1>1, <1>2, <2>1, <2>2, <2>3, SupervisorStep
  <1>3. CASE proc[Inner(e)].pc = "failed" /\ Become(Outer(e), Starting("outerFailed"))
    <2> PICK g : g = Starting("outerFailed")
      OBVIOUS
    <2>1. Tidy(g) /\ g.pc = "outerFailed"
      BY StartingTidy
    <2>2. g.pc \notin Runs /\ ~Settles(g, "inner")
      BY <2>1 DEF Runs, Settles, Settling
    <2> QED
      BY <1>1, <1>3, <2>1, <2>2, SupervisorStep
  <1> QED
    BY <1>2, <1>3 DEF OuterWait

LEMMA OuterFailedWatch ==
    ASSUME Ground, NEW e \in Exec, OuterFailed(e)
    PROVE  Kept
  <1>1. status' = status /\ proc[Outer(e)].pc = "outerFailed"
    BY DEF OuterFailed, table
  <1>2. run[e] # "none"
    BY <1>1, HasRun DEF Ground
  <1>3. CASE status[e] = "processing"
    <2> PICK g : g = [On("terminalize", e) EXCEPT !.caller = "outer"]
      OBVIOUS
    <2>1. Become(Outer(e), g)
      BY <1>3 DEF OuterFailed
    <2>2. /\ g.pc = "terminalize" /\ g.caller = "outer" /\ g.exec = e /\ g.todo = {}
          /\ g.family = None /\ g.later = None /\ g.kids = {}
      BY DEF On, Idle
    <2>3. Settles(g, "outer") /\ Subject(g) = e /\ ~Settles(g, "reconcile") /\ ~Settles(g, "inner")
      BY <2>2 DEF Settles, Settling, Subject
    <2>4. Held(e) /\ ~Gone(e)
      BY <1>3 DEF Held, Gone
    <2>5. Tidy(g)
      BY <2>2, <2>3, <2>4 DEF Tidy, UserCancels
    <2>6. proc[Inner(e)].pc \in {"idle", "ok", "failed"}
      BY <1>1, <2>4 DEF Ground, Attended, Waits
    <2>7. g.pc \notin Runs
      BY <2>2 DEF Runs
    <2> QED
      BY <1>1, <2>1, <2>3, <2>4, <2>5, <2>6, <2>7, SupervisorStep
  <1>4. CASE status[e] # "processing"
    <2>1. Gone(e)
      BY <1>2, <1>4, Returned DEF Ground
    <2> PICK g : g = Dispatching("completed")
      OBVIOUS
    <2>2. Become(Outer(e), g)
      BY <1>4 DEF OuterFailed
    <2>3. Tidy(g) /\ g.pc = "claim"
      BY StartingTidy
    <2>4. g.pc \notin Runs /\ ~Settles(g, "inner")
      BY <2>3 DEF Runs, Settles, Settling
    <2> QED
      BY <1>1, <2>1, <2>2, <2>3, <2>4, SupervisorStep
  <1> QED
    BY <1>3, <1>4

LEMMA SuperviseWatch ==
    ASSUME WakesArrive, Ground, NEW e \in Exec, Supervise(e) \/ OuterCrash(e)
    PROVE  Kept
  <1>1. CASE OuterExit(e)
    <2>1. Outer(e) \in Proc /\ proc[Outer(e)].pc = "exit"
      BY <1>1, ProcFacts DEF OuterExit, Ground
    <2>2. status' = status /\ Become(Outer(e), Idle)
      BY <1>1 DEF OuterExit, EndRun, table
    <2>3. Roams(proc[Outer(e)]) /\ ~Looks(Outer(e))
      BY <2>1, RoamingNow DEF Between
    <2> QED
      BY <2>1, <2>2, <2>3, FreshRoamers, SameRows, RoamStep
  <1>2. CASE OuterCrash(e)
    <2> PICK g : g = Starting("outerStart")
      OBVIOUS
    <2>1. status' = status /\ Become(Outer(e), g)
      BY <1>2 DEF OuterCrash, WakesArrive, table
    <2>2. Tidy(g) /\ g.pc = "outerStart"
      BY StartingTidy
    <2>3. g.pc \notin Runs /\ ~Settles(g, "inner")
      BY <2>2 DEF Runs, Settles, Settling
    <2> QED
      BY <2>1, <2>2, <2>3, SupervisorStep
  <1> QED
    BY <1>1, <1>2, OuterStartWatch, OuterWaitWatch, OuterFailedWatch DEF Supervise

-----------------------------------------------------------------------------
(* The invariant.                                                           *)

\* What a step may do to an execution.
Mild(e) ==
    \/ log'[e] = log[e] /\ status'[e] = status[e]
    \/ status'[e] = status[e] /\ status[e] # "pending" /\ log'[e] \in Ended
    \/ status'[e] = status[e] /\ log[e] = "none" /\ log'[e] = "running"
    \/ log'[e] = log[e] /\ ~Over(e) /\ status[e] # "processing"
    \/ log'[e] = log[e] /\ Over(e) /\ status'[e] = "absent"

Mildly == ownerCompleted' = {} /\ \A e \in Exec : Mild(e)

LEMMA MildlyFirm ==
    ASSUME Attended, \A e \in Exec : Mild(e)
    PROVE  Firm
  <1> SUFFICES ASSUME NEW e \in Exec
               PROVE  /\ Gone(e) => Gone(e)'
                      /\ Held(e) => Held(e)'
                      /\ status'[e] = "pending" => ~Over(e)'
    BY DEF Firm
  <1>1. Mild(e) /\ (status[e] = "pending" => ~Over(e))
    BY DEF Attended
  <1>2. "none" \notin Ended /\ "running" \notin Ended
    BY DEF Ended
  <1> QED
    BY <1>1, <1>2 DEF Mild, Gone, Held, Over

LEMMA SameMildly ==
    ASSUME Attended, UNCHANGED <<status, log, ownerCompleted>>
    PROVE  Mildly
  BY DEF Attended, Mildly, Mild

LEMMA EndsMildly ==
    ASSUME IInv, Attended, NEW e \in Exec, NEW outcome \in Ended, EndLog(e, outcome),
           UNCHANGED table, Held(e)
    PROVE  Mildly
  <1>1. status[e] # "pending"
    BY DEF Attended, Held
  <1>2. \A d \in Exec : IF d = e THEN log'[d] \in Ended ELSE log'[d] = log[d]
    BY Parts DEF RestOK, EndLog
  <1> QED
    BY <1>1, <1>2 DEF Mildly, Mild, Attended, table

LEMMA ClaimsMildly ==
    ASSUME IInv, Attended, NEW e \in Exec, status[e] = "pending", SetStatus(e, "processing"),
           log' = log
    PROVE  Mildly
  <1>1. ~Over(e)
    BY DEF Attended
  <1>2. \A d \in Exec : d # e => status'[d] = status[d]
    BY Parts DEF TableOK, SetStatus
  <1> QED
    BY <1>1, <1>2 DEF Mildly, Mild, Attended, SetStatus

LEMMA QueueMildly ==
    ASSUME WakesArrive, IInv, Owned, Attended, NEW p \in Proc,
           Dispatch(p) \/ Settle(p) \/ Finalize(p) \/ Cancel(p)
    PROVE  Mildly
  <1> PICK f : f = proc[p]
    OBVIOUS
  <1>1. f \in Frames /\ Tidy(f) /\ FitsLabel(f) /\ ownerCompleted = {}
    BY ProcFacts DEF Attended, InOrder, Owned, Fit, Fits
  <1>2. f.pc \in WithRow => f.exec \in Exec
    BY <1>1, FrameFacts
  <1>3. f.pc \notin {"revert", "recheckRow", "mark", "recheck", "kidRun"}
    BY <1>1 DEF Tidy
  <1>4. CASE Claim(p)
    <2>1. log' = log
      BY <1>4 DEF Claim
    <2>2. CASE UNCHANGED <<status, before, ownerCompleted>>
      BY <2>1, <2>2, SameMildly
    <2>3. ASSUME NEW e \in Exec, Candidate(e), SetStatus(e, "processing")
          PROVE  Mildly
      BY <2>1, <2>3, ClaimsMildly DEF Candidate, Pending
    <2> QED
      BY <1>4, <2>2, <2>3 DEF Claim
  <1>5. CASE TakeSnapshot(p) \/ Reconcile(p) \/ CheckReleased(p) \/ Trigger(p) \/ ListChildren(p)
             \/ ListDescendants(p) \/ NextDescendant(p) \/ CancelRead(p) \/ CancelMark(p)
    BY <1>5, SameMildly DEF TakeSnapshot, Reconcile, CheckReleased, Trigger, ListChildren,
       ListDescendants, NextDescendant, CancelRead, CancelMark, table
  <1>6. CASE Delete(p)
    <2>1. f.pc = "delete" /\ f.exec \in Exec
      BY <1>2, <1>6 DEF Delete, WithRow
    <2>2. Over(f.exec)
      BY <1>1, <2>1 DEF FitsLabel
    <2>3. DropRows({f.exec}) /\ log' = log
      BY <1>6 DEF Delete
    <2>4. ownerCompleted' = {}
      BY <1>1, <2>3 DEF DropRows
    <2>5. \A d \in Exec : status'[d] = IF d = f.exec THEN "absent" ELSE status[d]
      BY <2>3 DEF DropRows
    <2> QED
      BY <2>2, <2>3, <2>4, <2>5 DEF Mildly, Mild
  <1>7. CASE Terminalize(p)
    <2>1. f.pc = "terminalize" /\ f.exec \in Exec
      BY <1>2, <1>7 DEF Terminalize, WithRow
    <2>2. Held(f.exec)
      BY <1>1, <2>1 DEF Tidy
    <2> QED
      BY <1>7, <2>1, <2>2, EndsMildly DEF Terminalize, Ended
  <1>8. CASE CancelClaim(p)
    <2>1. f.pc = "cancelClaim" /\ f.exec \in Exec
      BY <1>2, <1>8 DEF CancelClaim, WithRow
    <2>2. CASE UNCHANGED table
      BY <1>8, <2>2, SameMildly DEF CancelClaim, table
    <2>3. CASE status[f.exec] = "pending" /\ SetStatus(f.exec, "processing")
      BY <1>8, <2>1, <2>3, ClaimsMildly DEF CancelClaim
    <2> QED
      BY <1>8, <2>2, <2>3 DEF CancelClaim
  <1>9. CASE CancelTerminalize(p)
    <2>1. f.pc = "cancelTerminalize" /\ f.exec \in Exec
      BY <1>2, <1>9 DEF CancelTerminalize, WithRow
    <2>2. Held(f.exec)
      BY <1>1, <2>1 DEF FitsLabel, Claimed, Held
    <2>3. EndLog(f.exec, "error") /\ UNCHANGED table
      BY <1>9 DEF CancelTerminalize, WakesArrive
    <2> QED
      BY <2>1, <2>2, <2>3, EndsMildly DEF Ended
  <1>10. ~Revert(p) /\ ~RecheckRow(p) /\ ~MarkOwnerCompleted(p) /\ ~RecheckOwner(p)
         /\ ~CancelDescendantRun(p)
    BY <1>3 DEF Revert, RecheckRow, MarkOwnerCompleted, RecheckOwner, CancelDescendantRun
  <1> QED
    BY <1>4, <1>5, <1>6, <1>7, <1>8, <1>9, <1>10 DEF Dispatch, Settle, Finalize, Cancel

LEMMA EnqueueMildly ==
    ASSUME IInv, Attended, NEW p, NEW e \in Exec, Enqueue(p, e)
    PROVE  Mildly
  <1>1. log' = log /\ ownerCompleted = {}
    BY DEF Enqueue, Attended
  <1>2. PICK stale \in StaleRows :
          \/ UNCHANGED table
          \/ DropRows(stale)
          \/ /\ e \notin Rows \ stale /\ log[e] = "none"
             /\ status' = [f \in Exec |-> IF f = e THEN "pending"
                                          ELSE IF f \in stale THEN "absent" ELSE status[f]]
             /\ ownerCompleted' = ownerCompleted \ stale
    BY DEF Enqueue
  <1>3. \A d \in stale : d \in Exec /\ status[d] = "pending" /\ ~Over(d)
    BY DEF StaleRows, Pending, Attended
  <1>4. CASE UNCHANGED table
    BY <1>1, <1>4, SameMildly DEF table
  <1>5. CASE DropRows(stale)
    <2>1. \A d \in Exec : d \notin stale => status'[d] = status[d]
      BY <1>5 DEF DropRows
    <2>2. ownerCompleted' = {}
      BY <1>1, <1>5 DEF DropRows
    <2> QED
      BY <1>1, <1>3, <2>1, <2>2 DEF Mildly, Mild
  <1>6. CASE /\ e \notin Rows \ stale /\ log[e] = "none"
             /\ status' = [f \in Exec |-> IF f = e THEN "pending"
                                          ELSE IF f \in stale THEN "absent" ELSE status[f]]
             /\ ownerCompleted' = ownerCompleted \ stale
    <2>1. \A d \in Exec : d \notin stale /\ d # e => status'[d] = status[d]
      BY <1>6
    <2>2. ~Over(e) /\ status[e] # "processing"
      BY <1>3, <1>6 DEF Over, Ended, Rows
    <2>3. ownerCompleted' = {}
      BY <1>1, <1>6
    <2> QED
      BY <1>1, <1>3, <2>1, <2>2, <2>3 DEF Mildly, Mild
  <1> QED
    BY <1>2, <1>4, <1>5, <1>6

LEMMA WorkersMildly ==
    ASSUME IInv, Owned, Attended, NEW e \in Exec,
           Supervise(e) \/ RunJob(e) \/ OuterCrash(e) \/ InnerKilled(e)
    PROVE  Mildly
  <1>1. CASE Supervise(e) \/ OuterCrash(e) \/ InnerKilled(e) \/ InnerRead(e)
    BY <1>1, SameMildly DEF Supervise, OuterStart, OuterWait, OuterFailed, OuterExit, OuterCrash,
       EndRun, InnerKilled, InnerRead, table
  <1>2. CASE InnerStart(e)
    <2>1. UNCHANGED <<status, ownerCompleted>> /\ ownerCompleted = {}
      BY <1>2 DEF InnerStart, table, Attended
    <2>2. \A d \in Exec : log'[d] = log[d] \/ (log[d] = "none" /\ log'[d] = "running")
      BY <1>2, Parts DEF InnerStart, RestOK
    <2> QED
      BY <2>1, <2>2 DEF Mildly, Mild
  <1>3. CASE JobSucceeds(e) \/ JobFails(e)
    <2>1. proc[Inner(e)].pc = "innerRun" /\ UNCHANGED table
      BY <1>3 DEF JobSucceeds, JobFails
    <2>2. Held(e)
      BY <2>1, HasRun, Returned
    <2>3. PICK outcome \in Ended : EndLog(e, outcome)
      BY <1>3 DEF JobSucceeds, JobFails, Ended
    <2> QED
      BY <2>1, <2>2, <2>3, EndsMildly
  <1>4. CASE \E c \in Exec : RequestChild(e, c)
    BY <1>4, SameMildly DEF RequestChild, table
  <1> QED
    BY <1>1, <1>2, <1>3, <1>4 DEF RunJob

LEMMA NextMildly ==
    ASSUME WakesArrive, IInv, Owned, Attended, [Next]_vars
    PROVE  Mildly
  <1>1. ASSUME NEW p \in Client, (\E e \in Exec : CancelByUser(p, e)) \/ ClientCrash(p)
        PROVE  Mildly
    BY <1>1, SameMildly DEF CancelByUser, ClientCrash, table
  <1>2. ASSUME UNCHANGED vars
        PROVE  Mildly
    BY <1>2, SameMildly DEF vars
  <1> QED
    BY <1>1, <1>2, QueueMildly, EnqueueMildly, WorkersMildly DEF Next

LEMMA InitWatched == Init => Attended /\ Watched
  <1> SUFFICES ASSUME Init
               PROVE  Attended /\ Watched
    OBVIOUS
  <1>1. /\ \A e \in Exec : status[e] = "absent" /\ before[e] = {}
        /\ \A p \in Proc : proc[p] = Idle /\ proc[p].pc = "idle"
        /\ ownerCompleted = {}
    BY DEF Init, Idle
  <1>2. Ordered
    BY <1>1 DEF Ordered, Rows
  <1>3. ASSUME NEW p \in Proc
        PROVE  InOrder(p)
    <2>1. Tidy(proc[p])
      BY <1>1, FreshRoamers DEF Roamer
    <2>2. \A caller : ~Settles(proc[p], caller)
      BY <1>1 DEF Settles, Settling
    <2>3. Placed(p, proc[p])
      BY <1>1, <2>2 DEF Placed
    <2> QED
      BY <2>1, <2>3 DEF InOrder
  <1>4. \A e \in Exec : Waits(e) /\ status[e] # "pending"
    <2>1. \A e \in Exec : Inner(e) \in Proc
      BY DEF Inner, Proc, Worker
    <2> QED
      BY <1>1, <2>1 DEF Waits
  <1>5. IsFiniteSet(Busy)
    <2>1. Busy = {}
      BY <1>1 DEF Busy
    <2> QED
      BY <2>1, FS_EmptySet
  <1>6. Attended
    BY <1>1, <1>2, <1>3, <1>4, <1>5 DEF Attended
  <1>7. Watched
    <2>1. Pending = {}
      BY <1>1 DEF Pending
    <2>2. Cardinality(Pending) = 0
      BY <2>1, FS_EmptySet
    <2>3. Cardinality(Lookers) \in Nat
      BY <1>6, Numbers DEF Counts
    <2> QED
      BY <2>2, <2>3 DEF Watched
  <1> QED
    BY <1>6, <1>7

LEMMA NextWatched ==
    ASSUME Flat, WakesArrive, IInv, Owned, Attended, Watched, [Next]_vars
    PROVE  IInv' /\ Owned' /\ Attended' /\ Watched'
  <1>1. IInv'
    BY NextKeeps
  <1>2. Owned'
    BY <1>1, NextOwned DEF WakesArrive, NothingRefused
  <1>3. Ordered'
    BY NextOrdered DEF Attended
  <1>4. Firm /\ ownerCompleted' = {}
    BY NextMildly, MildlyFirm DEF Mildly
  <1>5. Ground
    BY <1>1, <1>3, <1>4 DEF Ground
  <1>6. ASSUME NEW p \in Client
        PROVE  ~ClientCrash(p)
    BY DEF ClientCrash, WakesArrive
  <1>7. UNCHANGED vars => Kept
    BY <1>5, StillWatch DEF vars
  <1>8. Kept
    BY <1>5, <1>6, <1>7, DispatchWatch, SettleWatch, FinalizeWatch, CancelWatch, EnqueueWatch,
       CancelByUserWatch, SuperviseWatch, JobWatch DEF Next
  <1> QED
    BY <1>1, <1>2, <1>8 DEF Kept

\* Where everyone rests nobody looks.
LEMMA WatchedEnough ==
    ASSUME Flat, IInv, Attended, Watched
    PROVE  NoLostWakeup
  <1> SUFFICES ASSUME \A p \in Proc : Resting(p), NEW e \in Exec, Candidate(e), HasCapacity(e)
               PROVE  FALSE
    BY DEF NoLostWakeup
  <1>1. ASSUME NEW p \in Proc, Looks(p)
        PROVE  FALSE
    <2>1. Resting(p)
      OBVIOUS
    <2>2. proc[p].pc \notin Settling \cup {"claim", "claimAgain", "outerStart", "outerFailed"}
      BY <2>1 DEF Resting, Settling
    <2>3. PICK d \in Exec : p = Outer(d) /\ proc[p].pc = "outerWait" /\ proc[Inner(d)].pc \notin Runs
      BY <1>1, <2>2 DEF Looks, Unfinished, Settles
    <2>4. p[1] = d
      BY <2>3 DEF Outer
    <2> QED
      BY <2>1, <2>3, <2>4 DEF Resting, Runs
  <1>2. Lookers = {}
    BY <1>1 DEF Lookers
  <1>3. Cardinality(Lookers) = 0
    BY <1>2, FS_EmptySet
  <1>4. Counts
    BY Numbers
  <1>5. e \in Pending
    BY DEF Candidate
  <1>6. Cardinality(Pending) # 0
    BY <1>4, <1>5, FS_EmptySet DEF Counts
  <1>7. ConcurrencyLimit # None /\ ConcurrencyLimit <= Cardinality(Processing) + 0
    BY <1>3, <1>4, <1>6 DEF Watched, Counts
  <1>8. Cardinality(Processing) < ConcurrencyLimit
    BY <1>7, FlatFacts DEF HasCapacity
  <1>9. ConcurrencyLimit \in Nat
    BY <1>7, ConstantsAssumption
  <1> QED
    BY <1>4, <1>7, <1>8, <1>9 DEF Counts

\* A row never waits for a slot that is free: where nobody has children, and no
\* API process crashes, no worker gives up, and no trigger or cancellation fails
\* on its way, a wake reaches every row, for any number of executions and API
\* processes, with every limit.
THEOREM WakeupsArrive == Flat /\ WakesArrive => (Spec => []NoLostWakeup)
  <1> SUFFICES ASSUME Flat, WakesArrive
               PROVE  Spec => []NoLostWakeup
    OBVIOUS
  <1>1. Init => IInv /\ Owned /\ Attended /\ Watched
    BY InitHolds, InitOwned, InitWatched
  <1>2. IInv /\ Owned /\ Attended /\ Watched /\ [Next]_vars
           => IInv' /\ Owned' /\ Attended' /\ Watched'
    BY NextWatched
  <1>3. IInv /\ Attended /\ Watched => NoLostWakeup
    BY WatchedEnough
  <1> QED
    BY <1>1, <1>2, <1>3, PTL DEF Spec

=============================================================================
