----------------------- MODULE PendingExecutionProofs -----------------------
(* Theorems about PendingExecution, for every value of its constants. *)
EXTENDS PendingExecution, FiniteSetTheorems, TLAPS

(***************************************************************************)
(* A process that has a row in hand knows which one: what TypeOK needs to  *)
(* be inductive, for a settlement goes on with the parent of its row.      *)
(***************************************************************************)
WithRow == {"trigger", "revert", "list", "mark", "recheck", "delete", "terminalize",
            "descendants", "kidRun", "cancelRead", "cancelMark", "cancelClaim",
            "cancelTerminalize"}

Complete(f) ==
    /\ f.pc \in WithRow => f.exec \in Exec
    /\ f.pc \in {"kids", "kidRun"} => f.family \in Exec
    /\ f.pc = "recheckRow" \/ f.caller \in {"dispatch", "dispatchRejected"} => f.owner \in Exec

Frames == {f \in Frame : Complete(f)}

IInv == TypeOK /\ proc \in [Proc -> Frames]

-----------------------------------------------------------------------------
(* Frames.                                                                  *)

\* Idle and Starting make complete frames.
LEMMA StartingFrame ==
    ASSUME NEW l \in Labels, l \notin WithRow \cup {"kids", "kidRun", "recheckRow"}
    PROVE  Starting(l) \in Frames
  BY DEF Starting, Idle, Frames, Frame, Complete, Goals, Callers

LEMMA IdleFrame == Idle \in Frames
  BY DEF Idle, Frames, Frame, Complete, Labels, WithRow, Goals, Callers, Snapshot

\* On makes a frame with a row in hand.
LEMMA OnFrame ==
    ASSUME NEW l \in Labels, NEW e \in Exec \cup {None},
           l \in WithRow => e \in Exec, l \notin {"kids", "kidRun", "recheckRow"}
    PROVE  On(l, e) \in Frames /\ On(l, e).caller = "none" /\ On(l, e).family = None
  BY DEF On, Idle, Frames, Frame, Complete, Goals, Callers

LEMMA DispatchingFrame ==
    ASSUME NEW g \in Goals
    PROVE  Dispatching(g) \in Frames
  BY DEF Dispatching, Idle, Frames, Frame, Complete, Labels, WithRow, Goals, Callers, Snapshot

\* To keeps a frame complete when it has what the new label needs.
LEMMA ToFrame ==
    ASSUME NEW f \in Frames, NEW l \in Labels,
           l \in WithRow => f.exec \in Exec,
           l \in {"kids", "kidRun"} => f.family \in Exec,
           l = "recheckRow" => f.owner \in Exec
    PROVE  To(f, l) \in Frames
  BY DEF To, Frames, Frame, Complete

LEMMA AgainFrame ==
    ASSUME NEW f \in Frames, NEW l \in {"claim", "claimAgain"}
    PROVE  Again(f, l) \in Frames
  <1>1. f.goal \in Goals /\ f.later \in Exec \cup {None}
    BY DEF Frames, Frame
  <1>2. l \in Labels /\ l \notin WithRow \cup {"kids", "kidRun", "recheckRow"}
    BY DEF Labels, WithRow
  <1>3. On(l, None) \in Frames
    BY <1>2, OnFrame
  <1>4. Again(f, l) \in Frame
    BY <1>1, <1>3 DEF Again, Frames, Frame
  <1>5. Again(f, l).pc = l /\ Again(f, l).caller = "none"
    BY DEF Again, On, Idle
  <1> QED
    BY <1>2, <1>4, <1>5 DEF Frames, Complete

LEMMA DispatchedFrame ==
    ASSUME NEW f \in Frames
    PROVE  Dispatched(f) \in Frames /\ Thrown(f) \in Frames
  BY AgainFrame, IdleFrame DEF Dispatched, Thrown

LEMMA DrainedFrame ==
    ASSUME NEW f \in Frames
    PROVE  Drained(f) \in Frames
  <1>1. "exit" \in Labels /\ "exit" \notin WithRow
    BY DEF Labels, WithRow
  <1>2. To(f, "exit") \in Frames
    BY <1>1, ToFrame
  <1>3. ASSUME f.later # None
        PROVE  [On("recheck", f.later) EXCEPT !.caller = "cancel"] \in Frames
    <2>1. f.later \in Exec
      BY <1>3 DEF Frames, Frame
    <2>2. "recheck" \in Labels
      BY DEF Labels
    <2>3. On("recheck", f.later) \in Frames
      BY <2>1, <2>2, OnFrame
    <2> QED
      BY <2>1, <2>3 DEF Frames, Frame, Complete, Callers, On, Idle
  <1> QED
    BY <1>2, <1>3, IdleFrame DEF Drained

LEMMA NextRowFrame ==
    ASSUME NEW f \in Frames
    PROVE  NextRow(f) \in Frames
  <1>1. "reconcile" \in Labels /\ "reconcile" \notin WithRow
    BY DEF Labels, WithRow
  <1> QED
    BY <1>1 DEF NextRow, Frames, Frame, Complete, Callers

LEMMA ReconciledFrame ==
    ASSUME NEW f \in Frames
    PROVE  Reconciled(f) \in Frames
  <1>1. "wake" \in Goals
    BY DEF Goals
  <1> QED
    BY <1>1, DispatchingFrame, AgainFrame DEF Reconciled

\* What follows a settlement is a complete frame.
LEMMA SettledFrame ==
    ASSUME NEW f \in Frames
    PROVE  Settled(f) \in Frames
  <1>1. /\ {"kids", "released", "recheckRow", "ok"} \subseteq Labels
        /\ {"kids", "released", "recheckRow", "ok"} \cap WithRow = {}
    BY DEF Labels, WithRow
  <1>2. CASE f.family # None
    <2>1. f.family \in Exec
      BY <1>2 DEF Frames, Frame
    <2> QED
      BY <1>1, <1>2, <2>1, ToFrame DEF Settled
  <1>3. CASE f.family = None /\ f.caller = "reconcile"
    BY <1>1, <1>3, ToFrame DEF Settled
  <1>4. CASE f.family = None /\ f.caller \in {"recheckRow", "rejected"}
    BY <1>4, DispatchedFrame DEF Settled
  <1>5. CASE f.family = None /\ f.caller = "dispatchRejected"
    <2>1. f.owner \in Exec
      BY <1>5 DEF Frames, Complete
    <2> QED
      BY <1>1, <1>5, <2>1, ToFrame DEF Settled
  <1>6. CASE f.family = None /\ f.caller = "inner"
    BY <1>1, <1>6, StartingFrame DEF Settled
  <1>7. CASE f.family = None /\ f.caller = "outer"
    <2>1. "failed" \in Goals
      BY DEF Goals
    <2> QED
      BY <1>7, <2>1, DispatchingFrame DEF Settled
  <1>8. CASE f.family = None /\ f.caller \notin {"reconcile", "recheckRow", "rejected",
                                                 "dispatchRejected", "inner", "outer"}
    BY <1>8, IdleFrame DEF Settled
  <1> QED
    BY <1>2, <1>3, <1>4, <1>5, <1>6, <1>7, <1>8

-----------------------------------------------------------------------------
(* The table and the processes under one step.                              *)

TableOK ==
    /\ status \in [Exec -> {"absent", "pending", "processing"}]
    /\ before \in [Exec -> SUBSET Exec]
    /\ cancelRequested \subseteq Rows
    /\ ownerCompleted \subseteq Rows

RestOK ==
    /\ log \in [Exec -> {"none", "running"} \cup Ended]
    /\ run \in [Exec -> {"none", "active"} \cup TerminalRun]
    /\ request \in [Exec -> {"none", "sent", "taken"}]

ProcOK == proc \in [Proc -> Frames]

LEMMA Parts == IInv <=> TableOK /\ RestOK /\ ProcOK
  <1>1. Frames \subseteq Frame
    BY DEF Frames
  <1> QED
    BY <1>1 DEF IInv, TypeOK, TableOK, RestOK, ProcOK

LEMMA PartsNext == TableOK' /\ RestOK' /\ ProcOK' => IInv'
  <1>1. Frames \subseteq Frame
    BY DEF Frames
  <1> QED
    BY <1>1 DEF IInv, TypeOK, TableOK, RestOK, ProcOK

\* A step that gives processes complete frames keeps all frames complete.
LEMMA BecomeKeeps ==
    ASSUME ProcOK, NEW p \in Proc, NEW f \in Frames, Become(p, f)
    PROVE  ProcOK'
  BY DEF ProcOK, Become

LEMMA DropRowsKeeps ==
    ASSUME TableOK, NEW S, DropRows(S)
    PROVE  TableOK'
  BY DEF TableOK, DropRows, Rows

\* The rows a step may change the status of exist.
LEMMA SetStatusKeeps ==
    ASSUME TableOK, NEW e, NEW s \in {"pending", "processing"}, SetStatus(e, s),
           cancelRequested' \subseteq cancelRequested \cup ({e} \cap Exec)
    PROVE  TableOK'
  BY DEF TableOK, SetStatus, Rows

LEMMA EndLogKeeps ==
    ASSUME RestOK, NEW e, NEW outcome \in Ended, EndLog(e, outcome),
           UNCHANGED <<run, request>>
    PROVE  RestOK'
  BY DEF RestOK, EndLog, Ended

-----------------------------------------------------------------------------
(* Each action keeps the invariant.                                         *)

LEMMA EnqueueKeeps ==
    ASSUME IInv, NEW p \in Client, NEW e \in Exec, Enqueue(p, e)
    PROVE  IInv'
  <1>1. p \in Proc /\ TableOK /\ RestOK /\ ProcOK
    BY Parts DEF Proc
  <1>2. RestOK'
    BY <1>1 DEF Enqueue, RestOK
  <1>3. PICK stale \in StaleRows :
          LET kept == Rows \ stale
              duplicate == e \in kept \/ log[e] # "none" \/ Overlaps(e, kept)
              full == MaxPendingCount # None
                        /\ Cardinality(Pending \ stale) >= MaxPendingCount
          IN \/ /\ duplicate
                /\ DropRows(stale)
                /\ Become(p, IF status[e] = "processing"
                             THEN [On("snapshot", e) EXCEPT !.goal = "duplicate"]
                             ELSE Dispatching("wake"))
             \/ /\ ~duplicate /\ full
                /\ UNCHANGED <<table, proc>>
             \/ /\ ~duplicate /\ ~full
                /\ status' = [f \in Exec |-> IF f = e THEN "pending"
                                             ELSE IF f \in stale THEN "absent" ELSE status[f]]
                /\ before' = [f \in Exec |-> IF f = e THEN kept
                                             ELSE IF f \in stale THEN {} ELSE before[f] \ stale]
                /\ cancelRequested' = cancelRequested \ stale
                /\ ownerCompleted' = ownerCompleted \ stale
                /\ Become(p, Dispatching("once"))
    BY DEF Enqueue
  <1>4. {"wake", "once", "duplicate"} \subseteq Goals
    BY DEF Goals
  <1>5. [On("snapshot", e) EXCEPT !.goal = "duplicate"] \in Frames
    <2>1. "snapshot" \in Labels /\ "snapshot" \notin WithRow
      BY DEF Labels, WithRow
    <2> QED
      BY <1>4, <2>1, OnFrame DEF Frames, Frame, Complete
  <1>6. ProcOK'
    <2>1. \/ Become(p, [On("snapshot", e) EXCEPT !.goal = "duplicate"])
          \/ \E g \in {"wake", "once"} : Become(p, Dispatching(g))
          \/ UNCHANGED proc
      BY <1>3
    <2>2. CASE Become(p, [On("snapshot", e) EXCEPT !.goal = "duplicate"])
      BY <1>1, <1>5, <2>2, BecomeKeeps
    <2>3. ASSUME NEW g \in {"wake", "once"}, Become(p, Dispatching(g))
          PROVE  ProcOK'
      BY <1>1, <1>4, <2>3, DispatchingFrame, BecomeKeeps
    <2> QED
      BY <1>1, <2>1, <2>2, <2>3 DEF ProcOK
  <1>7. TableOK'
    <2>1. CASE DropRows(stale)
      BY <1>1, <2>1, DropRowsKeeps
    <2>2. CASE UNCHANGED table
      BY <1>1, <2>2 DEF table, TableOK, Rows
    <2>3. CASE /\ status' = [f \in Exec |-> IF f = e THEN "pending"
                                            ELSE IF f \in stale THEN "absent" ELSE status[f]]
               /\ before' = [f \in Exec |-> IF f = e THEN Rows \ stale
                                            ELSE IF f \in stale THEN {} ELSE before[f] \ stale]
               /\ cancelRequested' = cancelRequested \ stale
               /\ ownerCompleted' = ownerCompleted \ stale
      BY <1>1, <2>3 DEF TableOK, Rows
    <2> QED
      BY <1>3, <2>1, <2>2, <2>3
  <1> QED
    BY <1>2, <1>6, <1>7, PartsNext

LEMMA ClaimKeeps ==
    ASSUME IInv, NEW p \in Proc, Claim(p)
    PROVE  IInv'
  <1>1. TableOK /\ RestOK /\ ProcOK
    BY Parts
  <1>2. RestOK'
    BY <1>1 DEF Claim, RestOK
  <1> DEFINE f == proc[p]
  <1>3. f \in Frames
    BY <1>1 DEF ProcOK
  <1>4. CASE \E e \in Exec : /\ SetStatus(e, "processing")
                             /\ Become(p, [f EXCEPT !.pc = "trigger", !.exec = e,
                                                    !.caller = "dispatch", !.owner = e])
    <2>1. PICK e \in Exec : /\ SetStatus(e, "processing")
                            /\ Become(p, [f EXCEPT !.pc = "trigger", !.exec = e,
                                                   !.caller = "dispatch", !.owner = e])
      BY <1>4
    <2>2. [f EXCEPT !.pc = "trigger", !.exec = e, !.caller = "dispatch", !.owner = e] \in Frames
      <3>1. "trigger" \in Labels /\ "dispatch" \in Callers
        BY DEF Labels, Callers
      <3> QED
        BY <1>3, <3>1 DEF Frames, Frame, Complete
    <2>3. ProcOK'
      BY <1>1, <2>1, <2>2, BecomeKeeps
    <2>4. cancelRequested' = cancelRequested
      BY DEF Claim
    <2>5. TableOK'
      BY <1>1, <2>1, <2>4, SetStatusKeeps
    <2> QED
      BY <1>2, <2>3, <2>5, PartsNext
  <1>5. CASE /\ Become(p, IF f.pc = "claim" THEN To(f, "snapshot") ELSE Drained(f))
             /\ UNCHANGED <<status, before, ownerCompleted>>
    <2>1. "snapshot" \in Labels /\ "snapshot" \notin WithRow
      BY DEF Labels, WithRow
    <2>2. To(f, "snapshot") \in Frames /\ Drained(f) \in Frames
      BY <1>3, <2>1, ToFrame, DrainedFrame
    <2>3. ProcOK'
      BY <1>1, <1>5, <2>2, BecomeKeeps
    <2>4. TableOK'
      BY <1>1, <1>5 DEF Claim, TableOK, Rows
    <2> QED
      BY <1>2, <2>3, <2>4, PartsNext
  <1> QED
    BY <1>4, <1>5 DEF Claim

\* The rows of a snapshot are executions.
LEMMA TakeSnapshotKeeps ==
    ASSUME IInv, NEW p \in Proc, TakeSnapshot(p)
    PROVE  IInv'
  <1>1. TableOK /\ RestOK /\ ProcOK
    BY Parts
  <1>2. RestOK' /\ TableOK'
    BY <1>1 DEF TakeSnapshot, RestOK, TableOK, Rows, table
  <1> DEFINE f == proc[p]
  <1> DEFINE rowOf(e) == [id |-> e, cancel |-> e \in cancelRequested,
                          done |-> e \in ownerCompleted,
                          owner |-> IF Borrows(e) THEN Parent[e] ELSE e,
                          earlier |-> IF e = f.exec THEN {}
                                      ELSE (before[e] \cup {f.exec}) \cap Processing]
  <1> DEFINE g == [f EXCEPT !.pc = "reconcile", !.exec = None,
                            !.todo = {rowOf(e) : e \in Processing}]
  <1>3. f \in Frames
    BY <1>1 DEF ProcOK
  <1>4. ASSUME NEW e \in Processing
        PROVE  rowOf(e) \in Snapshot
    BY DEF Snapshot, Processing, Borrows
  <1>5. {rowOf(e) : e \in Processing} \in SUBSET Snapshot
    BY <1>4
  <1>6. g \in Frames
    <2>1. "reconcile" \in Labels /\ "reconcile" \notin WithRow
      BY DEF Labels, WithRow
    <2> HIDE DEF rowOf
    <2> QED
      BY <1>3, <1>5, <2>1 DEF Frames, Frame, Complete
  <1>7. Become(p, g)
    BY DEF TakeSnapshot
  <1>8. ProcOK'
    <2> HIDE DEF g
    <2> QED
      BY <1>1, <1>6, <1>7, BecomeKeeps
  <1> QED
    BY <1>2, <1>8, PartsNext

\* A frame with an execution and an owner can go on with any row in hand.
LEMMA InHandFrame ==
    ASSUME NEW f \in Frame, f.exec \in Exec, f.owner \in Exec,
           NEW l \in WithRow \ {"kidRun"}
    PROVE  To(f, l) \in Frames
  <1>1. l \in Labels
    BY DEF WithRow, Labels
  <1>2. l # "kids" /\ l # "recheckRow"
    BY DEF WithRow
  <1> QED
    BY <1>1, <1>2 DEF To, Frames, Frame, Complete

LEMMA ReconcileRowKeeps ==
    ASSUME IInv, NEW p \in Proc, NEW f \in Frame, NEW row, NEW nothingToDo \in Frames,
           row.id \in Exec, row.owner \in Exec,
           ReconcileRow(p, f, row, nothingToDo),
           UNCHANGED <<table, log, request>>
    PROVE  IInv'
  <1>1. TableOK /\ RestOK /\ ProcOK
    BY Parts
  <1>2. TableOK'
    BY <1>1 DEF table, TableOK, Rows
  <1> DEFINE e == row.id
  <1> DEFINE g == [f EXCEPT !.exec = e, !.owner = row.owner]
  <1>3. g \in Frame /\ g.exec \in Exec /\ g.owner \in Exec
    BY DEF Frame
  <1>4. \A l \in {"trigger", "list", "terminalize"} : To(g, l) \in Frames
    <2>1. {"trigger", "list", "terminalize"} \subseteq WithRow \ {"kidRun"}
      BY DEF WithRow
    <2> HIDE DEF g
    <2> QED
      BY <1>3, <2>1, InHandFrame
  <1>5. CASE run' = run /\ \E h \in Frames : Become(p, h)
    <2>1. RestOK'
      BY <1>1, <1>5 DEF RestOK
    <2>2. ProcOK'
      BY <1>1, <1>5, BecomeKeeps
    <2> QED
      BY <1>2, <2>1, <2>2, PartsNext
  <1>6. CASE /\ run' = [run EXCEPT ![e] = "CANCELED"]
             /\ proc' = [proc EXCEPT ![p] = To(g, "terminalize"),
                                     ![Outer(e)] = Idle, ![Inner(e)] = Idle]
    <2>1. RestOK'
      BY <1>1, <1>6 DEF RestOK, TerminalRun
    <2>2. To(g, "terminalize") \in Frames
      BY <1>4
    <2>3. ProcOK'
      <3> HIDE DEF g
      <3> QED
        BY <1>1, <1>6, <2>2, IdleFrame DEF ProcOK
    <2> QED
      BY <1>2, <2>1, <2>3, PartsNext
  <1>7. \/ run' = run /\ \E h \in Frames : Become(p, h)
        \/ /\ run' = [run EXCEPT ![e] = "CANCELED"]
           /\ proc' = [proc EXCEPT ![p] = To(g, "terminalize"),
                                   ![Outer(e)] = Idle, ![Inner(e)] = Idle]
    <2> HIDE DEF g
    <2>1. \/ run' = run /\ \E h \in {nothingToDo, To(g, "trigger"), To(g, "list"),
                                     To(g, "terminalize")} : Become(p, h)
          \/ /\ run' = [run EXCEPT ![e] = "CANCELED"]
             /\ proc' = [proc EXCEPT ![p] = To(g, "terminalize"),
                                     ![Outer(e)] = Idle, ![Inner(e)] = Idle]
      BY DEF ReconcileRow, g
    <2> QED
      BY <1>4, <2>1
  <1> QED
    BY <1>5, <1>6, <1>7

LEMMA ReconcileKeeps ==
    ASSUME IInv, NEW p \in Proc, Reconcile(p)
    PROVE  IInv'
  <1>1. TableOK /\ RestOK /\ ProcOK
    BY Parts
  <1> DEFINE f == proc[p]
  <1>2. f \in Frames
    BY <1>1 DEF ProcOK
  <1>3. CASE Become(p, Reconciled(f)) /\ UNCHANGED run
    <2>1. ProcOK'
      BY <1>1, <1>2, <1>3, ReconciledFrame, BecomeKeeps
    <2>2. TableOK' /\ RestOK'
      BY <1>1, <1>3 DEF Reconcile, table, TableOK, Rows, RestOK
    <2> QED
      BY <2>1, <2>2, PartsNext
  <1>4. CASE \E row \in f.todo :
               ReconcileRow(p, [f EXCEPT !.todo = @ \ {row}, !.caller = "reconcile"], row,
                            NextRow([f EXCEPT !.todo = @ \ {row}, !.caller = "reconcile"]))
    <2>1. PICK row \in f.todo :
               ReconcileRow(p, [f EXCEPT !.todo = @ \ {row}, !.caller = "reconcile"], row,
                            NextRow([f EXCEPT !.todo = @ \ {row}, !.caller = "reconcile"]))
      BY <1>4
    <2> DEFINE g == [f EXCEPT !.todo = @ \ {row}, !.caller = "reconcile"]
    <2>2. row.id \in Exec /\ row.owner \in Exec
      BY <1>2, <2>1 DEF Frames, Frame, Snapshot
    <2>3. f.pc = "reconcile" /\ f.pc \notin WithRow
      BY DEF Reconcile, WithRow
    <2>4. g \in Frame
      BY <1>2 DEF Frames, Frame, Callers
    <2>5. g \in Frames
      BY <2>3, <2>4 DEF Frames, Complete, Frame
    <2>6. UNCHANGED <<table, log, request>>
      BY DEF Reconcile
    <2>7. NextRow(g) \in Frames
      <3> HIDE DEF g
      <3> QED
        BY <2>5, NextRowFrame
    <2> QED
      <3> HIDE DEF g
      <3>1. ReconcileRow(p, g, row, NextRow(g))
        BY <2>1 DEF g
      <3> QED
        BY <2>2, <2>4, <2>6, <2>7, <3>1, ReconcileRowKeeps
  <1> QED
    BY <1>3, <1>4 DEF Reconcile

\* A step that gives one process a complete frame and changes nothing else.
LEMMA OnlyBecome ==
    ASSUME IInv, NEW p \in Proc, NEW f \in Frames, Become(p, f),
           UNCHANGED <<table, log, run, request>>
    PROVE  IInv'
  <1>1. TableOK /\ RestOK /\ ProcOK
    BY Parts
  <1>2. TableOK' /\ RestOK'
    BY <1>1 DEF table, TableOK, Rows, RestOK
  <1>3. ProcOK'
    BY <1>1, BecomeKeeps
  <1> QED
    BY <1>2, <1>3, PartsNext

LEMMA CheckReleasedKeeps ==
    ASSUME IInv, NEW p \in Proc, CheckReleased(p)
    PROVE  IInv'
  <1>1. proc[p] \in Frames
    BY Parts DEF ProcOK
  <1>2. NextRow(proc[p]) \in Frames /\ Reconciled(proc[p]) \in Frames
    BY <1>1, NextRowFrame, ReconciledFrame
  <1> QED
    BY <1>2, OnlyBecome DEF CheckReleased

LEMMA AdmissionFrames ==
    ASSUME NEW f \in Frames
    PROVE  Admitted(f) \in Frames /\ AdmissionThrown(f) \in Frames
  <1>1. "recheckRow" \in Labels /\ "recheckRow" \notin WithRow
    BY DEF Labels, WithRow
  <1>2. f.caller = "dispatch" => f.owner \in Exec
    BY DEF Frames, Complete
  <1>3. f.caller = "dispatch" => To(f, "recheckRow") \in Frames
    BY <1>1, <1>2, ToFrame
  <1> QED
    BY <1>3, NextRowFrame, DispatchedFrame DEF Admitted, AdmissionThrown

LEMMA TriggerKeeps ==
    ASSUME IInv, NEW p \in Proc, Trigger(p)
    PROVE  IInv'
  <1>1. TableOK /\ RestOK /\ ProcOK
    BY Parts
  <1> DEFINE f == proc[p]
  <1>2. f \in Frames
    BY <1>1 DEF ProcOK
  <1>3. f.pc = "trigger" /\ f.exec \in Exec
    BY <1>2 DEF Trigger, Frames, Complete, WithRow
  <1>4. TableOK'
    BY <1>1 DEF Trigger, table, TableOK, Rows
  <1>5. ASSUME NEW h \in Frames, StartRun(p, f.exec, h)
        PROVE  IInv'
    <2>1. "outerStart" \in Labels /\ "outerStart" \notin WithRow
      BY DEF Labels, WithRow
    <2>2. Starting("outerStart") \in Frames
      BY <2>1, StartingFrame
    <2>3. ProcOK'
      BY <1>1, <1>5, <2>2 DEF ProcOK, StartRun
    <2>4. RestOK'
      BY <1>1, <1>5 DEF RestOK, StartRun, Trigger
    <2> QED
      BY <1>4, <2>3, <2>4, PartsNext
  <1>6. ASSUME NEW h \in Frames, Become(p, h), UNCHANGED run
        PROVE  IInv'
    BY <1>6, OnlyBecome DEF Trigger
  <1>7. To(f, "revert") \in Frames
    <2>1. "revert" \in Labels
      BY DEF Labels
    <2> QED
      BY <1>2, <1>3, <2>1, ToFrame
  <1>8. ASSUME NEW c \in {"dispatchRejected", "rejected"},
               c = "dispatchRejected" => f.caller = "dispatch"
        PROVE  [f EXCEPT !.pc = "terminalize", !.caller = c] \in Frames
    <2>1. "terminalize" \in Labels /\ c \in Callers
      BY DEF Labels, Callers
    <2> QED
      BY <1>2, <1>3, <1>8, <2>1 DEF Frames, Frame, Complete
  <1>9. [f EXCEPT !.pc = "terminalize",
                  !.caller = IF @ = "dispatch" THEN "dispatchRejected" ELSE "rejected"] \in Frames
    BY <1>8
  <1> QED
    BY <1>2, <1>5, <1>6, <1>7, <1>9, AdmissionFrames DEF Trigger

LEMMA RevertKeeps ==
    ASSUME IInv, NEW p \in Proc, Revert(p)
    PROVE  IInv'
  <1>1. TableOK /\ RestOK /\ ProcOK
    BY Parts
  <1> DEFINE f == proc[p]
  <1>2. f \in Frames
    BY <1>1 DEF ProcOK
  <1>3. ProcOK'
    BY <1>1, <1>2, AdmissionFrames, BecomeKeeps DEF Revert
  <1>4. RestOK'
    BY <1>1 DEF Revert, RestOK
  <1>5. TableOK'
    <2>1. CASE SetStatus(f.exec, "pending")
      BY <1>1, <2>1, SetStatusKeeps DEF Revert
    <2>2. CASE UNCHANGED <<status, before, ownerCompleted>>
      BY <1>1, <2>2 DEF Revert, TableOK, Rows
    <2> QED
      BY <2>1, <2>2 DEF Revert
  <1> QED
    BY <1>3, <1>4, <1>5, PartsNext

LEMMA RecheckRowKeeps ==
    ASSUME IInv, NEW p \in Proc, RecheckRow(p)
    PROVE  IInv'
  <1>1. TableOK /\ RestOK /\ ProcOK
    BY Parts
  <1> DEFINE f == proc[p]
  <1> DEFINE e == f.owner
  <1> DEFINE row == [id |-> e, cancel |-> e \in cancelRequested, done |-> e \in ownerCompleted,
                     owner |-> e, earlier |-> {}]
  <1> DEFINE g == [f EXCEPT !.caller = "recheckRow"]
  <1>2. f \in Frames
    BY <1>1 DEF ProcOK
  <1>3. f.pc = "recheckRow" /\ e \in Exec
    BY <1>2 DEF RecheckRow, Frames, Complete
  <1>4. g \in Frame
    BY <1>2 DEF Frames, Frame, Callers
  <1>5. g \in Frames
    BY <1>2, <1>3, <1>4 DEF Frames, Complete, Frame, WithRow
  <1>6. CASE Become(p, Thrown(f)) /\ UNCHANGED run
    BY <1>2, <1>6, DispatchedFrame, OnlyBecome DEF RecheckRow
  <1>7. CASE ReconcileRow(p, g, row, Dispatched(g))
    <2>1. row.id \in Exec /\ row.owner \in Exec
      BY <1>3
    <2>2. UNCHANGED <<table, log, request>>
      BY DEF RecheckRow
    <2> HIDE DEF g, row
    <2>3. Dispatched(g) \in Frames
      BY <1>5, DispatchedFrame
    <2> QED
      BY <1>4, <1>7, <2>1, <2>2, <2>3, ReconcileRowKeeps
  <1> QED
    BY <1>6, <1>7 DEF RecheckRow

LEMMA ListChildrenKeeps ==
    ASSUME IInv, NEW p \in Proc, ListChildren(p)
    PROVE  IInv'
  <1> DEFINE f == proc[p]
  <1>1. f \in Frames
    BY Parts DEF ProcOK
  <1>2. f.exec \in Exec
    BY <1>1 DEF ListChildren, Frames, Complete, WithRow
  <1>3. {"delete", "mark"} \subseteq Labels
    BY DEF Labels
  <1>4. \A l \in {"delete", "mark"} : To(f, l) \in Frames
    BY <1>1, <1>2, <1>3, ToFrame
  <1> QED
    BY <1>4, OnlyBecome DEF ListChildren

LEMMA MarkOwnerCompletedKeeps ==
    ASSUME IInv, NEW p \in Proc, MarkOwnerCompleted(p)
    PROVE  IInv'
  <1>1. TableOK /\ RestOK /\ ProcOK
    BY Parts
  <1> DEFINE f == proc[p]
  <1>2. f \in Frames
    BY <1>1 DEF ProcOK
  <1>3. f.exec \in Exec /\ "recheck" \in Labels
    BY <1>2 DEF MarkOwnerCompleted, Frames, Complete, WithRow, Labels
  <1>4. To(f, "recheck") \in Frames
    BY <1>2, <1>3, ToFrame
  <1>5. ProcOK'
    BY <1>1, <1>4, BecomeKeeps DEF MarkOwnerCompleted
  <1>6. TableOK' /\ RestOK'
    BY <1>1 DEF MarkOwnerCompleted, TableOK, RestOK, Rows, Processing
  <1> QED
    BY <1>5, <1>6, PartsNext

LEMMA RecheckOwnerKeeps ==
    ASSUME IInv, NEW p \in Proc, RecheckOwner(p)
    PROVE  IInv'
  <1> DEFINE f == proc[p]
  <1>1. f \in Frames
    BY Parts DEF ProcOK
  <1>2. f.exec \in Exec /\ "delete" \in Labels
    BY <1>1 DEF RecheckOwner, Frames, Complete, WithRow, Labels
  <1>3. To(f, "delete") \in Frames /\ Settled(f) \in Frames
    BY <1>1, <1>2, ToFrame, SettledFrame
  <1> QED
    BY <1>3, OnlyBecome DEF RecheckOwner

LEMMA DeleteKeeps ==
    ASSUME IInv, NEW p \in Proc, Delete(p)
    PROVE  IInv'
  <1>1. TableOK /\ RestOK /\ ProcOK
    BY Parts
  <1> DEFINE f == proc[p]
  <1> DEFINE parent == Parent[f.exec]
  <1>2. f \in Frames
    BY <1>1 DEF ProcOK
  <1>3. f.exec \in Exec
    BY <1>2 DEF Delete, Frames, Complete, WithRow
  <1>4. parent \in Exec \cup {None}
    BY <1>3, ConstantsAssumption
  <1>5. [Dispatching("cancelled") EXCEPT !.later = parent] \in Frames
    <2>1. "cancelled" \in Goals
      BY DEF Goals
    <2> QED
      BY <1>4, <2>1, DispatchingFrame DEF Frames, Frame, Complete
  <1>6. ASSUME parent # None
        PROVE  [f EXCEPT !.pc = "recheck", !.exec = parent] \in Frames
    <2>1. parent \in Exec /\ "recheck" \in Labels
      BY <1>4, <1>6 DEF Labels
    <2> QED
      BY <1>2, <2>1 DEF Frames, Frame, Complete
  <1>7. ProcOK'
    BY <1>1, <1>2, <1>5, <1>6, SettledFrame, BecomeKeeps DEF Delete
  <1>8. TableOK' /\ RestOK'
    BY <1>1, DropRowsKeeps DEF Delete, RestOK
  <1> QED
    BY <1>7, <1>8, PartsNext

LEMMA TerminalizeKeeps ==
    ASSUME IInv, NEW p \in Proc, Terminalize(p)
    PROVE  IInv'
  <1>1. TableOK /\ RestOK /\ ProcOK
    BY Parts
  <1> DEFINE f == proc[p]
  <1>2. f \in Frames
    BY <1>1 DEF ProcOK
  <1>3. f.exec \in Exec /\ "descendants" \in Labels
    BY <1>2 DEF Terminalize, Frames, Complete, WithRow, Labels
  <1>4. To(f, "descendants") \in Frames
    BY <1>2, <1>3, ToFrame
  <1>5. ProcOK'
    BY <1>1, <1>4, BecomeKeeps DEF Terminalize
  <1>6. TableOK'
    BY <1>1 DEF Terminalize, table, TableOK, Rows
  <1>7. RestOK'
    BY <1>1, EndLogKeeps DEF Terminalize, Ended
  <1> QED
    BY <1>5, <1>6, <1>7, PartsNext

LEMMA ListDescendantsKeeps ==
    ASSUME IInv, NEW p \in Proc, ListDescendants(p)
    PROVE  IInv'
  <1> DEFINE f == proc[p]
  <1> DEFINE g == [f EXCEPT !.pc = "kids", !.family = f.exec, !.kids = Children(f.exec)]
  <1>1. f \in Frames
    BY Parts DEF ProcOK
  <1>2. f.exec \in Exec /\ "kids" \in Labels /\ "kids" \notin WithRow
    BY <1>1 DEF ListDescendants, Frames, Complete, WithRow, Labels
  <1>3. Children(f.exec) \subseteq Exec
    BY DEF Children, Rows
  <1>4. g \in Frames
    BY <1>1, <1>2, <1>3 DEF Frames, Frame, Complete
  <1>5. Become(p, g) /\ UNCHANGED <<table, log, run, request>>
    BY DEF ListDescendants
  <1> HIDE DEF g
  <1> QED
    BY <1>4, <1>5, OnlyBecome

LEMMA NextDescendantKeeps ==
    ASSUME IInv, NEW p \in Proc, NextDescendant(p)
    PROVE  IInv'
  <1> DEFINE f == proc[p]
  <1>1. f \in Frames
    BY Parts DEF ProcOK
  <1>2. f.family \in Exec /\ {"list", "cancelRead"} \subseteq Labels
    BY <1>1 DEF NextDescendant, Frames, Complete, Labels
  <1>3. ASSUME NEW c \in f.kids
        PROVE  [f EXCEPT !.pc = "cancelRead", !.exec = c, !.kids = @ \ {c}] \in Frames
    <2>1. c \in Exec
      BY <1>1, <1>3 DEF Frames, Frame
    <2> QED
      BY <1>1, <1>2, <2>1 DEF Frames, Frame, Complete
  <1>4. [f EXCEPT !.pc = "list", !.exec = f.family, !.family = None] \in Frames
    BY <1>1, <1>2 DEF Frames, Frame, Complete
  <1>5. \E g \in Frames : Become(p, g)
    BY <1>3, <1>4, IdleFrame DEF NextDescendant
  <1>6. UNCHANGED <<table, log, run, request>>
    BY DEF NextDescendant
  <1> QED
    BY <1>5, <1>6, OnlyBecome

\* A step that ends a log, stops the run of that execution and goes on.
LEMMA CancelDescendantRunKeeps ==
    ASSUME IInv, NEW p \in Proc, CancelDescendantRun(p)
    PROVE  IInv'
  <1>1. TableOK /\ RestOK /\ ProcOK
    BY Parts
  <1> DEFINE f == proc[p]
  <1> DEFINE c == f.exec
  <1>2. f \in Frames
    BY <1>1 DEF ProcOK
  <1>3. c \in Exec /\ f.family \in Exec /\ {"list", "kids"} \subseteq Labels
    BY <1>2 DEF CancelDescendantRun, Frames, Frame, Complete, WithRow, Labels
  <1>4. To(f, "list") \in Frames /\ To(f, "kids") \in Frames
    BY <1>2, <1>3, ToFrame
  <1>5. TableOK'
    BY <1>1 DEF CancelDescendantRun, table, TableOK, Rows
  <1>6. CASE UNCHANGED <<log, run>> /\ \E l \in {"list", "kids"} : Become(p, To(f, l))
    BY <1>4, <1>6, OnlyBecome DEF CancelDescendantRun
  <1>7. CASE /\ EndLog(c, "error")
             /\ run' = [run EXCEPT ![c] = "CANCELED"]
             /\ proc' = [proc EXCEPT ![p] = To(f, "list"),
                                     ![Outer(c)] = Idle, ![Inner(c)] = Idle]
    <2>1. RestOK'
      BY <1>1, <1>7 DEF CancelDescendantRun, RestOK, EndLog, Ended, TerminalRun
    <2>2. ProcOK'
      BY <1>1, <1>4, <1>7, IdleFrame DEF ProcOK
    <2> QED
      BY <1>5, <2>1, <2>2, PartsNext
  <1> QED
    BY <1>6, <1>7 DEF CancelDescendantRun

\* A cancellation that found nothing goes back to its caller.
LEMMA NothingCancelledFrame ==
    ASSUME NEW f \in Frames
    PROVE  NothingCancelled(f) \in Frames
  <1>1. "kids" \in Labels /\ "kids" \notin WithRow
    BY DEF Labels, WithRow
  <1>2. f.family # None => f.family \in Exec
    BY DEF Frames, Frame
  <1> QED
    BY <1>1, <1>2, ToFrame, IdleFrame DEF NothingCancelled

LEMMA CancelByUserKeeps ==
    ASSUME IInv, NEW p \in Client, NEW e \in Exec, CancelByUser(p, e)
    PROVE  IInv'
  <1>1. "cancelRead" \in Labels /\ p \in Proc
    BY DEF Labels, Proc
  <1>2. [On("cancelRead", e) EXCEPT !.caller = "cancel"] \in Frames
    BY <1>1, OnFrame DEF Frames, Frame, Complete, Callers
  <1> QED
    BY <1>1, <1>2, OnlyBecome DEF CancelByUser

LEMMA CancelReadKeeps ==
    ASSUME IInv, NEW p \in Proc, CancelRead(p)
    PROVE  IInv'
  <1> DEFINE f == proc[p]
  <1>1. f \in Frames
    BY Parts DEF ProcOK
  <1>2. f.exec \in Exec /\ {"cancelMark", "cancelClaim"} \subseteq Labels
    BY <1>1 DEF CancelRead, Frames, Complete, WithRow, Labels
  <1>3. To(f, "cancelMark") \in Frames /\ To(f, "cancelClaim") \in Frames
    BY <1>1, <1>2, ToFrame
  <1>4. \E g \in Frames : Become(p, g)
    BY <1>1, <1>3, NothingCancelledFrame DEF CancelRead
  <1> QED
    BY <1>4, OnlyBecome DEF CancelRead

LEMMA CancelMarkKeeps ==
    ASSUME IInv, NEW p \in Proc, CancelMark(p)
    PROVE  IInv'
  <1>1. TableOK /\ RestOK /\ ProcOK
    BY Parts
  <1> DEFINE f == proc[p]
  <1>2. f \in Frames
    BY <1>1 DEF ProcOK
  <1>3. f.exec \in Exec /\ {"kidRun", "descendants"} \subseteq Labels
    BY <1>2 DEF CancelMark, Frames, Complete, WithRow, Labels
  <1>4. f.family # None => f.family \in Exec
    BY <1>2 DEF Frames, Frame
  <1>5. (f.family # None => To(f, "kidRun") \in Frames) /\ To(f, "descendants") \in Frames
    BY <1>2, <1>3, <1>4, ToFrame
  <1>6. \E g \in Frames : Become(p, g)
    BY <1>2, <1>5, NothingCancelledFrame, IdleFrame DEF CancelMark
  <1>7. ProcOK'
    BY <1>1, <1>6, BecomeKeeps
  <1>8. TableOK' /\ RestOK'
    BY <1>1 DEF CancelMark, TableOK, RestOK, Rows, Processing
  <1> QED
    BY <1>7, <1>8, PartsNext

LEMMA CancelClaimKeeps ==
    ASSUME IInv, NEW p \in Proc, CancelClaim(p)
    PROVE  IInv'
  <1>1. TableOK /\ RestOK /\ ProcOK
    BY Parts
  <1> DEFINE f == proc[p]
  <1>2. f \in Frames
    BY <1>1 DEF ProcOK
  <1>3. f.exec \in Exec /\ "cancelTerminalize" \in Labels
    BY <1>2 DEF CancelClaim, Frames, Complete, WithRow, Labels
  <1>4. To(f, "cancelTerminalize") \in Frames
    BY <1>2, <1>3, ToFrame
  <1>5. ProcOK'
    BY <1>1, <1>2, <1>4, NothingCancelledFrame, BecomeKeeps DEF CancelClaim
  <1>6. RestOK'
    BY <1>1 DEF CancelClaim, RestOK
  <1>7. TableOK'
    <2>1. CASE SetStatus(f.exec, "processing") /\ cancelRequested' = cancelRequested \cup {f.exec}
      BY <1>1, <1>3, <2>1, SetStatusKeeps
    <2>2. CASE UNCHANGED table
      BY <1>1, <2>2 DEF table, TableOK, Rows
    <2> QED
      BY <2>1, <2>2 DEF CancelClaim
  <1> QED
    BY <1>5, <1>6, <1>7, PartsNext

LEMMA CancelTerminalizeKeeps ==
    ASSUME IInv, NEW p \in Proc, CancelTerminalize(p)
    PROVE  IInv'
  <1>1. TableOK /\ RestOK /\ ProcOK
    BY Parts
  <1> DEFINE f == proc[p]
  <1>2. f \in Frames
    BY <1>1 DEF ProcOK
  <1>3. f.exec \in Exec /\ "list" \in Labels
    BY <1>2 DEF CancelTerminalize, Frames, Complete, WithRow, Labels
  <1>4. To(f, "list") \in Frames
    BY <1>2, <1>3, ToFrame
  <1>5. CASE EndLog(f.exec, "error") /\ Become(p, To(f, "list")) /\ UNCHANGED table
    <2>1. ProcOK'
      BY <1>1, <1>4, <1>5, BecomeKeeps
    <2>2. TableOK'
      BY <1>1, <1>5 DEF table, TableOK, Rows
    <2>3. RestOK'
      BY <1>1, <1>5, EndLogKeeps DEF CancelTerminalize, Ended
    <2> QED
      BY <2>1, <2>2, <2>3, PartsNext
  <1>6. CASE /\ \/ SetStatus(f.exec, "pending")
                \/ UNCHANGED <<status, before, ownerCompleted>>
             /\ Become(p, Idle)
             /\ UNCHANGED <<cancelRequested, log>>
    <2>1. ProcOK'
      BY <1>1, <1>6, IdleFrame, BecomeKeeps
    <2>2. RestOK'
      BY <1>1, <1>6 DEF CancelTerminalize, RestOK
    <2>3. TableOK'
      <3>1. CASE SetStatus(f.exec, "pending")
        BY <1>1, <1>6, <3>1, SetStatusKeeps
      <3>2. CASE UNCHANGED <<status, before, ownerCompleted>>
        BY <1>1, <1>6, <3>2 DEF TableOK, Rows
      <3> QED
        BY <1>6, <3>1, <3>2
    <2> QED
      BY <2>1, <2>2, <2>3, PartsNext
  <1> QED
    BY <1>5, <1>6 DEF CancelTerminalize

\* The labels a worker may start at.
LEMMA WorkerFrames ==
    /\ \A l \in {"outerStart", "outerWait", "outerFailed", "innerRead", "innerStart",
                 "innerRun", "ok", "failed"} : Starting(l) \in Frames
    /\ \A g \in {"completed", "failed"} : Dispatching(g) \in Frames
  <1>1. ASSUME NEW l \in {"outerStart", "outerWait", "outerFailed", "innerRead", "innerStart",
                          "innerRun", "ok", "failed"}
        PROVE  l \in Labels /\ l \notin WithRow \cup {"kids", "kidRun", "recheckRow"}
    BY DEF Labels, WithRow
  <1>2. {"completed", "failed"} \subseteq Goals
    BY DEF Goals
  <1> QED
    BY <1>1, <1>2, StartingFrame, DispatchingFrame

\* A worker that takes an execution in hand.
LEMMA WorkerOnFrame ==
    ASSUME NEW e \in Exec, NEW l \in {"terminalize", "list", "descendants"},
           NEW c \in {"outer", "inner"}
    PROVE  [On(l, e) EXCEPT !.caller = c] \in Frames
  <1>1. l \in Labels /\ c \in Callers
    BY DEF Labels, Callers
  <1>2. On(l, e) \in Frames
    BY <1>1, OnFrame
  <1>3. On(l, e).exec = e /\ On(l, e).pc = l
    BY DEF On, Idle
  <1> QED
    BY <1>1, <1>2, <1>3 DEF Frames, Frame, Complete

LEMMA Workers ==
    ASSUME NEW e \in Exec
    PROVE  Outer(e) \in Proc /\ Inner(e) \in Proc
  BY DEF Outer, Inner, Proc, Worker

LEMMA EndRunKeeps ==
    ASSUME IInv, NEW e \in Exec, NEW outcome \in TerminalRun, EndRun(e, outcome)
    PROVE  IInv'
  <1>1. TableOK /\ RestOK /\ ProcOK
    BY Parts
  <1>2. ProcOK'
    BY <1>1, Workers, IdleFrame, BecomeKeeps DEF EndRun
  <1>3. TableOK' /\ RestOK'
    BY <1>1 DEF EndRun, TableOK, RestOK, Rows, table
  <1> QED
    BY <1>2, <1>3, PartsNext

LEMMA SuperviseKeeps ==
    ASSUME IInv, NEW e \in Exec, Supervise(e) \/ OuterCrash(e)
    PROVE  IInv'
  <1>1. TableOK /\ RestOK /\ ProcOK
    BY Parts
  <1>2. CASE OuterStart(e)
    <2>1. ProcOK'
      BY <1>1, <1>2, Workers, WorkerFrames DEF OuterStart, ProcOK, Become
    <2>2. TableOK' /\ RestOK'
      BY <1>1, <1>2 DEF OuterStart, TableOK, RestOK, Rows, table
    <2> QED
      BY <2>1, <2>2, PartsNext
  <1>3. CASE OuterWait(e)
    BY <1>3, Workers, WorkerFrames, OnlyBecome DEF OuterWait
  <1>4. CASE OuterFailed(e)
    BY <1>4, Workers, WorkerFrames, WorkerOnFrame, OnlyBecome DEF OuterFailed
  <1>5. {"FAILED", "COMPLETED"} \subseteq TerminalRun
    BY DEF TerminalRun
  <1>6. CASE OuterExit(e)
    BY <1>5, <1>6, EndRunKeeps DEF OuterExit
  <1>7. CASE OuterCrash(e)
    BY <1>5, <1>7, Workers, WorkerFrames, OnlyBecome, EndRunKeeps DEF OuterCrash
  <1> QED
    BY <1>2, <1>3, <1>4, <1>6, <1>7 DEF Supervise

LEMMA RunJobKeeps ==
    ASSUME IInv, NEW e \in Exec, RunJob(e) \/ InnerKilled(e)
    PROVE  IInv'
  <1>1. TableOK /\ RestOK /\ ProcOK
    BY Parts
  <1>2. CASE InnerRead(e)
    BY <1>2, Workers, WorkerFrames, OnlyBecome DEF InnerRead
  <1>3. CASE InnerStart(e)
    <2>1. ProcOK'
      BY <1>1, <1>3, Workers, WorkerFrames, BecomeKeeps DEF InnerStart
    <2>2. TableOK' /\ RestOK'
      BY <1>1, <1>3 DEF InnerStart, TableOK, RestOK, Rows, table
    <2> QED
      BY <2>1, <2>2, PartsNext
  <1>4. CASE \E c \in Exec : RequestChild(e, c)
    <2>1. TableOK' /\ RestOK' /\ ProcOK'
      BY <1>1, <1>4 DEF RequestChild, TableOK, RestOK, ProcOK, Rows, table
    <2> QED
      BY <2>1, PartsNext
  <1>5. CASE JobSucceeds(e)
    <2>1. ProcOK'
      BY <1>1, <1>5, Workers, WorkerOnFrame, BecomeKeeps DEF JobSucceeds
    <2>2. TableOK'
      BY <1>1, <1>5 DEF JobSucceeds, TableOK, Rows, table
    <2>3. RestOK'
      BY <1>1, <1>5, EndLogKeeps DEF JobSucceeds, Ended
    <2> QED
      BY <2>1, <2>2, <2>3, PartsNext
  <1>6. CASE JobFails(e)
    <2>1. ProcOK'
      BY <1>1, <1>6, Workers, WorkerOnFrame, BecomeKeeps DEF JobFails
    <2>2. TableOK'
      BY <1>1, <1>6 DEF JobFails, TableOK, Rows, table
    <2>3. RestOK'
      BY <1>1, <1>6, EndLogKeeps DEF JobFails, Ended
    <2> QED
      BY <2>1, <2>2, <2>3, PartsNext
  <1>7. CASE InnerKilled(e)
    BY <1>7, Workers, WorkerFrames, OnlyBecome DEF InnerKilled
  <1> QED
    BY <1>2, <1>3, <1>4, <1>5, <1>6, <1>7 DEF RunJob

LEMMA InitHolds == Init => IInv
  <1>1. ASSUME Init
        PROVE  TableOK /\ RestOK /\ ProcOK
    BY <1>1, IdleFrame DEF Init, TableOK, RestOK, ProcOK, Rows
  <1> QED
    BY <1>1, Parts

LEMMA NextKeeps == IInv /\ [Next]_vars => IInv'
  <1> SUFFICES ASSUME IInv, [Next]_vars
               PROVE  IInv'
    OBVIOUS
  <1>1. ASSUME NEW p \in Proc, Dispatch(p)
        PROVE  IInv'
    BY <1>1, ClaimKeeps, TakeSnapshotKeeps, ReconcileKeeps, CheckReleasedKeeps,
       TriggerKeeps, RevertKeeps, RecheckRowKeeps DEF Dispatch
  <1>2. ASSUME NEW p \in Proc, Settle(p)
        PROVE  IInv'
    BY <1>2, ListChildrenKeeps, MarkOwnerCompletedKeeps, RecheckOwnerKeeps, DeleteKeeps
       DEF Settle
  <1>3. ASSUME NEW p \in Proc, Finalize(p)
        PROVE  IInv'
    BY <1>3, TerminalizeKeeps, ListDescendantsKeeps, NextDescendantKeeps,
       CancelDescendantRunKeeps DEF Finalize
  <1>4. ASSUME NEW p \in Proc, Cancel(p)
        PROVE  IInv'
    BY <1>4, CancelReadKeeps, CancelMarkKeeps, CancelClaimKeeps, CancelTerminalizeKeeps
       DEF Cancel
  <1>5. ASSUME NEW p \in Client, NEW e \in Exec, Enqueue(p, e) \/ CancelByUser(p, e)
        PROVE  IInv'
    BY <1>5, EnqueueKeeps, CancelByUserKeeps
  <1>6. ASSUME NEW e \in Exec, Supervise(e) \/ RunJob(e) \/ OuterCrash(e) \/ InnerKilled(e)
        PROVE  IInv'
    BY <1>6, SuperviseKeeps, RunJobKeeps
  <1>7. ASSUME NEW p \in Client, ClientCrash(p)
        PROVE  IInv'
    BY <1>7, IdleFrame, OnlyBecome DEF ClientCrash, Proc
  <1>8. CASE UNCHANGED vars
    <2>1. TableOK /\ RestOK /\ ProcOK
      BY Parts
    <2>2. TableOK' /\ RestOK' /\ ProcOK'
      BY <1>8, <2>1 DEF vars, TableOK, RestOK, ProcOK, Rows
    <2> QED
      BY <2>2, PartsNext
  <1> QED
    BY <1>1, <1>2, <1>3, <1>4, <1>5, <1>6, <1>7, <1>8 DEF Next

\* The state has its type in every reachable state, and a process that has a
\* row in hand knows which one.
THEOREM TypeCorrect == Spec => []TypeOK
  <1>1. Spec => []IInv
    BY InitHolds, NextKeeps, PTL DEF Spec
  <1>2. IInv => TypeOK
    BY DEF IInv
  <1> QED
    BY <1>1, <1>2, PTL

-----------------------------------------------------------------------------
(* What a step may do to the rows: every step that does not admit an        *)
(* execution removes rows, or changes the status of one that exists.        *)

NoNewRow ==
    \/ UNCHANGED status
    \/ \E S \in SUBSET Exec : DropRows(S)
    \/ \E e \in Rows, s \in {"pending", "processing"} : SetStatus(e, s)

LEMMA RowsOnlyByEnqueue ==
    ASSUME IInv, [Next]_vars,
           ~ \E p \in Client, e \in Exec : Enqueue(p, e)
    PROVE  NoNewRow
  <1>1. TableOK /\ RestOK /\ ProcOK
    BY Parts
  <1>2. ASSUME NEW p \in Proc, Dispatch(p)
        PROVE  NoNewRow
    <2>1. CASE Claim(p)
      BY <2>1 DEF Claim, NoNewRow, Candidate, Pending, Rows
    <2>2. CASE Revert(p)
      <3>1. proc[p].exec \in Exec
        BY <1>1, <2>2 DEF ProcOK, Revert, Frames, Complete, WithRow
      <3> QED
        BY <2>2, <3>1 DEF Revert, NoNewRow, Rows
    <2>3. CASE TakeSnapshot(p) \/ Reconcile(p) \/ CheckReleased(p) \/ Trigger(p) \/ RecheckRow(p)
      BY <2>3 DEF TakeSnapshot, Reconcile, CheckReleased, Trigger, RecheckRow, NoNewRow, table
    <2> QED
      BY <1>2, <2>1, <2>2, <2>3 DEF Dispatch
  <1>3. ASSUME NEW p \in Proc, Settle(p)
        PROVE  NoNewRow
    <2>1. CASE Delete(p)
      <3>1. proc[p].exec \in Exec
        BY <1>1, <2>1 DEF ProcOK, Delete, Frames, Complete, WithRow
      <3> QED
        BY <2>1, <3>1 DEF Delete, NoNewRow
    <2>2. CASE ListChildren(p) \/ MarkOwnerCompleted(p) \/ RecheckOwner(p)
      BY <2>2 DEF ListChildren, MarkOwnerCompleted, RecheckOwner, NoNewRow, table
    <2> QED
      BY <1>3, <2>1, <2>2 DEF Settle
  <1>4. ASSUME NEW p \in Proc, Finalize(p)
        PROVE  NoNewRow
    BY <1>4 DEF Finalize, Terminalize, ListDescendants, NextDescendant, CancelDescendantRun,
       NoNewRow, table
  <1>5. ASSUME NEW p \in Proc, Cancel(p)
        PROVE  NoNewRow
    <2>1. proc[p].pc \in WithRow => proc[p].exec \in Exec
      BY <1>1 DEF ProcOK, Frames, Complete
    <2>2. CASE CancelClaim(p)
      BY <2>1, <2>2 DEF CancelClaim, NoNewRow, Rows, table, WithRow
    <2>3. CASE CancelTerminalize(p)
      BY <2>1, <2>3 DEF CancelTerminalize, NoNewRow, Rows, table, WithRow
    <2>4. CASE CancelRead(p) \/ CancelMark(p)
      BY <2>4 DEF CancelRead, CancelMark, NoNewRow, table
    <2> QED
      BY <1>5, <2>2, <2>3, <2>4 DEF Cancel
  <1>6. ASSUME NEW e \in Exec, Supervise(e) \/ RunJob(e) \/ OuterCrash(e) \/ InnerKilled(e)
        PROVE  NoNewRow
    BY <1>6 DEF Supervise, RunJob, OuterStart, OuterWait, OuterFailed, OuterExit, OuterCrash,
       EndRun, InnerRead, InnerStart, RequestChild, JobSucceeds, JobFails, InnerKilled,
       NoNewRow, table
  <1>7. ASSUME NEW p \in Client, NEW e \in Exec, ClientCrash(p) \/ CancelByUser(p, e)
        PROVE  NoNewRow
    BY <1>7 DEF ClientCrash, CancelByUser, NoNewRow, table
  <1>8. ASSUME NEW p \in Client, ClientCrash(p)
        PROVE  NoNewRow
    BY <1>8 DEF ClientCrash, NoNewRow, table
  <1>9. CASE UNCHANGED vars
    BY <1>9 DEF vars, NoNewRow
  <1> QED
    BY <1>2, <1>3, <1>4, <1>5, <1>6, <1>7, <1>8, <1>9 DEF Next

\* Overlapping ordering keys are refused where rows are made, and rows are made
\* nowhere else: two rows never share a key.
THEOREM OrderingKeysExclusive == Spec => []OrderingKeyExclusive
  <1>1. Init => OrderingKeyExclusive
    BY DEF Init, OrderingKeyExclusive, Rows
  <1>2. IInv /\ OrderingKeyExclusive /\ [Next]_vars => OrderingKeyExclusive'
    <2> SUFFICES ASSUME IInv, OrderingKeyExclusive, [Next]_vars
                 PROVE  OrderingKeyExclusive'
      OBVIOUS
    <2>1. TableOK
      BY Parts
    <2>2. CASE Rows' \subseteq Rows
      BY <2>2 DEF OrderingKeyExclusive
    <2>3. CASE \E p \in Client, e \in Exec : Enqueue(p, e)
      <3>1. PICK p \in Client, e \in Exec : Enqueue(p, e)
        BY <2>3
      <3>2. PICK stale \in StaleRows :
              \/ DropRows(stale)
              \/ UNCHANGED status
              \/ /\ ~Overlaps(e, Rows \ stale)
                 /\ status' = [f \in Exec |-> IF f = e THEN "pending"
                                              ELSE IF f \in stale THEN "absent" ELSE status[f]]
        BY <3>1 DEF Enqueue, table
      <3>3. CASE DropRows(stale) \/ UNCHANGED status
        BY <2>1, <2>2, <3>3 DEF DropRows, Rows, TableOK
      <3>4. CASE /\ ~Overlaps(e, Rows \ stale)
                 /\ status' = [f \in Exec |-> IF f = e THEN "pending"
                                              ELSE IF f \in stale THEN "absent" ELSE status[f]]
        <4>1. Rows' = (Rows \ stale) \cup {e}
          BY <3>4 DEF Rows, StaleRows, Pending
        <4> QED
          BY <3>4, <4>1 DEF OrderingKeyExclusive, Overlaps
      <3> QED
        BY <3>2, <3>3, <3>4
    <2>4. CASE ~ \E p \in Client, e \in Exec : Enqueue(p, e)
      <3>1. NoNewRow
        BY <2>4, RowsOnlyByEnqueue
      <3>2. Rows' \subseteq Rows
        BY <2>1, <3>1 DEF NoNewRow, DropRows, SetStatus, Rows, TableOK
      <3> QED
        BY <2>2, <3>2
    <2> QED
      BY <2>3, <2>4
  <1> QED
    BY <1>1, <1>2, InitHolds, NextKeeps, PTL DEF Spec

-----------------------------------------------------------------------------
(* Only a claim adds a top-level execution to those that hold a slot.       *)

LEMMA DropRowsRoots ==
    ASSUME TableOK, NEW S, DropRows(S)
    PROVE  Roots' \subseteq Roots
  BY DEF TableOK, DropRows, Roots, Processing

LEMMA SameRowsRoots ==
    ASSUME UNCHANGED status, cancelRequested \subseteq cancelRequested'
    PROVE  Roots' \subseteq Roots
  BY DEF Roots, Processing

LEMMA PendingAgainRoots ==
    ASSUME TableOK, NEW e, SetStatus(e, "pending"), UNCHANGED cancelRequested
    PROVE  Roots' \subseteq Roots
  BY DEF TableOK, SetStatus, Roots, Processing

LEMMA RootsOnlyByClaim ==
    ASSUME IInv, [Next]_vars, ~ \E p \in Proc : Claim(p)
    PROVE  Roots' \subseteq Roots
  <1>1. TableOK /\ RestOK /\ ProcOK
    BY Parts
  <1>2. ASSUME NEW p \in Proc, Dispatch(p)
        PROVE  Roots' \subseteq Roots
    <2>1. CASE Revert(p)
      BY <1>1, <2>1, PendingAgainRoots, SameRowsRoots DEF Revert
    <2>2. CASE TakeSnapshot(p) \/ Reconcile(p) \/ CheckReleased(p) \/ Trigger(p) \/ RecheckRow(p)
      BY <2>2, SameRowsRoots DEF TakeSnapshot, Reconcile, CheckReleased, Trigger, RecheckRow, table
    <2> QED
      BY <1>2, <2>1, <2>2 DEF Dispatch
  <1>3. ASSUME NEW p \in Proc, Settle(p)
        PROVE  Roots' \subseteq Roots
    <2>1. CASE Delete(p)
      BY <1>1, <2>1, DropRowsRoots DEF Delete
    <2>2. CASE ListChildren(p) \/ MarkOwnerCompleted(p) \/ RecheckOwner(p)
      BY <2>2, SameRowsRoots DEF ListChildren, MarkOwnerCompleted, RecheckOwner, table
    <2> QED
      BY <1>3, <2>1, <2>2 DEF Settle
  <1>4. ASSUME NEW p \in Proc, Finalize(p)
        PROVE  Roots' \subseteq Roots
    BY <1>4, SameRowsRoots DEF Finalize, Terminalize, ListDescendants, NextDescendant,
       CancelDescendantRun, table
  <1>5. ASSUME NEW p \in Proc, Cancel(p)
        PROVE  Roots' \subseteq Roots
    <2>1. CASE CancelClaim(p)
      <3>1. CASE SetStatus(proc[p].exec, "processing")
                   /\ cancelRequested' = cancelRequested \cup {proc[p].exec}
        BY <1>1, <3>1 DEF TableOK, SetStatus, Roots, Processing
      <3>2. CASE UNCHANGED table
        BY <3>2, SameRowsRoots DEF table
      <3> QED
        BY <2>1, <3>1, <3>2 DEF CancelClaim
    <2>2. CASE CancelTerminalize(p)
      BY <1>1, <2>2, PendingAgainRoots, SameRowsRoots DEF CancelTerminalize, table
    <2>3. CASE CancelRead(p) \/ CancelMark(p)
      BY <2>3, SameRowsRoots DEF CancelRead, CancelMark, table
    <2> QED
      BY <1>5, <2>1, <2>2, <2>3 DEF Cancel
  <1>6. ASSUME NEW e \in Exec, Supervise(e) \/ RunJob(e) \/ OuterCrash(e) \/ InnerKilled(e)
        PROVE  Roots' \subseteq Roots
    BY <1>6, SameRowsRoots DEF Supervise, RunJob, OuterStart, OuterWait, OuterFailed, OuterExit,
       OuterCrash, EndRun, InnerRead, InnerStart, RequestChild, JobSucceeds, JobFails,
       InnerKilled, table
  <1>7. ASSUME NEW p \in Client, NEW e \in Exec, Enqueue(p, e)
        PROVE  Roots' \subseteq Roots
    <2>1. PICK stale \in StaleRows :
            \/ DropRows(stale)
            \/ UNCHANGED table
            \/ /\ status' = [f \in Exec |-> IF f = e THEN "pending"
                                            ELSE IF f \in stale THEN "absent" ELSE status[f]]
               /\ cancelRequested' = cancelRequested \ stale
      BY <1>7 DEF Enqueue
    <2>2. CASE DropRows(stale)
      BY <1>1, <2>2, DropRowsRoots
    <2>3. CASE UNCHANGED table
      BY <2>3, SameRowsRoots DEF table
    <2>4. CASE /\ status' = [f \in Exec |-> IF f = e THEN "pending"
                                            ELSE IF f \in stale THEN "absent" ELSE status[f]]
               /\ cancelRequested' = cancelRequested \ stale
      BY <2>4 DEF Roots, Processing
    <2> QED
      BY <2>1, <2>2, <2>3, <2>4
  <1>8. ASSUME NEW p \in Client, NEW e \in Exec, CancelByUser(p, e)
        PROVE  Roots' \subseteq Roots
    BY <1>8, SameRowsRoots DEF CancelByUser, table
  <1>9. ASSUME NEW p \in Client, ClientCrash(p)
        PROVE  Roots' \subseteq Roots
    BY <1>9, SameRowsRoots DEF ClientCrash, table
  <1>10. CASE UNCHANGED vars
    BY <1>10, SameRowsRoots DEF vars
  <1> QED
    BY <1>2, <1>3, <1>4, <1>5, <1>6, <1>7, <1>8, <1>9, <1>10 DEF Next

\* A claim adds one execution, and a top-level one only below the limit.
LEMMA ClaimRoots ==
    ASSUME IInv, RootCapacityRespected, NEW p \in Proc, Claim(p)
    PROVE  RootCapacityRespected'
  <1> SUFFICES ASSUME ConcurrencyLimit # None
               PROVE  Cardinality(Roots') <= ConcurrencyLimit
    BY DEF RootCapacityRespected
  <1>1. TableOK
    BY Parts
  <1>2. ConcurrencyLimit \in Nat /\ IsFiniteSet(Exec)
    BY ConstantsAssumption
  <1>3. IsFiniteSet(Roots) /\ IsFiniteSet(Counted)
    <2>1. Roots \subseteq Exec /\ Counted \subseteq Exec
      BY DEF Roots, Counted, Processing
    <2> QED
      BY <1>2, <2>1, FS_Subset
  <1>4. /\ Cardinality(Roots) \in Nat
        /\ Cardinality(Roots) <= ConcurrencyLimit
    BY <1>3, FS_CardinalityType DEF RootCapacityRespected
  <1>5. CASE Roots' \subseteq Roots
    <2>1. Cardinality(Roots') <= Cardinality(Roots) /\ Cardinality(Roots') \in Nat
      BY <1>3, <1>5, FS_Subset, FS_CardinalityType
    <2> QED
      BY <1>2, <1>4, <2>1
  <1>6. CASE ~(Roots' \subseteq Roots)
    <2>1. PICK e \in Exec : HasCapacity(e) /\ SetStatus(e, "processing")
      BY <1>6, SameRowsRoots DEF Claim
    <2>2. cancelRequested' = cancelRequested
      BY DEF Claim
    <2>3. Roots' \subseteq Roots \cup {e}
      BY <1>1, <2>1, <2>2 DEF TableOK, SetStatus, Roots, Processing
    <2>4. e \in Roots'
      BY <1>6, <2>3
    <2>5. Parent[e] = None
      BY <2>4 DEF Roots
    <2>6. Roots \subseteq Counted
      BY ConstantsAssumption DEF Roots, Counted, Borrows, Processing
    <2>7. Cardinality(Counted) < ConcurrencyLimit
      BY <2>1, <2>5, ConstantsAssumption DEF HasCapacity, Borrows, Processing
    <2>8. /\ Cardinality(Roots) <= Cardinality(Counted)
          /\ Cardinality(Counted) \in Nat
      BY <1>3, <2>6, FS_Subset, FS_CardinalityType
    <2>9. e \notin Roots
      BY <1>6, <2>3
    <2>10. IsFiniteSet(Roots \cup {e}) /\ Cardinality(Roots \cup {e}) = Cardinality(Roots) + 1
      BY <1>3, <2>9, FS_AddElement
    <2>11. Cardinality(Roots') <= Cardinality(Roots) + 1 /\ Cardinality(Roots') \in Nat
      BY <2>3, <2>10, FS_Subset, FS_CardinalityType
    <2> QED
      BY <1>2, <1>4, <2>7, <2>8, <2>11
  <1> QED
    BY <1>5, <1>6

\* Whatever triggers are refused and whatever becomes of the children, the
\* top-level executions that were admitted never exceed the limit.
THEOREM RootCapacity == Spec => []RootCapacityRespected
  <1>1. Init => RootCapacityRespected
    <2> SUFFICES ASSUME Init, ConcurrencyLimit # None
                 PROVE  Cardinality(Roots) <= ConcurrencyLimit
      BY DEF RootCapacityRespected
    <2>1. Roots = {}
      BY DEF Init, Roots, Processing
    <2> QED
      BY <2>1, FS_EmptySet, ConstantsAssumption
  <1>2. IInv /\ RootCapacityRespected /\ [Next]_vars => RootCapacityRespected'
    <2> SUFFICES ASSUME IInv, RootCapacityRespected, [Next]_vars
                 PROVE  RootCapacityRespected'
      OBVIOUS
    <2>1. CASE \E p \in Proc : Claim(p)
      BY <2>1, ClaimRoots
    <2>2. CASE ~ \E p \in Proc : Claim(p)
      <3>1. Roots' \subseteq Roots
        BY <2>2, RootsOnlyByClaim
      <3>2. IsFiniteSet(Roots)
        <4>1. Roots \subseteq Exec
          BY DEF Roots, Processing
        <4> QED
          BY <4>1, ConstantsAssumption, FS_Subset
      <3>3. /\ Cardinality(Roots') <= Cardinality(Roots)
            /\ Cardinality(Roots') \in Nat /\ Cardinality(Roots) \in Nat
        BY <3>1, <3>2, FS_Subset, FS_CardinalityType
      <3> QED
        BY <3>3, ConstantsAssumption DEF RootCapacityRespected
    <2> QED
      BY <2>1, <2>2
  <1> QED
    BY <1>1, <1>2, InitHolds, NextKeeps, PTL DEF Spec

\* Without nested workflows that is the whole limit.
COROLLARY FlatCapacity ==
    ASSUME \A e \in Exec : Parent[e] = None
    PROVE  Spec => []CapacityRespected
  <1>1. RootCapacityRespected => CapacityRespected
    <2>1. Counted \ cancelRequested = Roots
      BY ConstantsAssumption DEF Counted, Roots, Borrows, Processing
    <2> QED
      BY <2>1 DEF RootCapacityRespected, CapacityRespected
  <1> QED
    BY <1>1, RootCapacity, PTL

=============================================================================
