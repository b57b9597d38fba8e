------------------------------ MODULE Executor ------------------------------
(***************************************************************************)
(* One segment of a workflow run, from executor/index.ts: the main loop    *)
(* computes a layer of blocks that may run, runs them all at once, marks   *)
(* them executed, lets the PathTracker put the targets of what happened on *)
(* the active path, and lets the LoopManager and the ParallelManager       *)
(* schedule another pass of a container.  A block of a parallel runs as    *)
(* one virtual block per iteration.  Block outputs are reduced to what the *)
(* graph can see: an error, the option of a condition, the target of a     *)
(* router, whether the test of a while loop held, a pause.                 *)
(*                                                                         *)
(* A workflow is a record                                                  *)
(*   blocks   the sequence of its blocks: the first one is the trigger,    *)
(*   kind     what each block is,                                          *)
(*   wires    its connections [from, handle, to], without those into the   *)
(*            inner end handle of a container, which every reader of the   *)
(*            connections skips,                                           *)
(*   nodes    the blocks inside each loop and parallel (no nesting),       *)
(*   rounds   how often a container runs; 0 for a condition-driven loop    *)
(*            and for a parallel that finds no items,                      *)
(*   testLast the loops of type doWhile,                                   *)
(*   fallible the blocks whose handler may throw; for a container, the     *)
(*            evaluation of its items or of its condition.                 *)
(***************************************************************************)
EXTENDS Naturals, FiniteSets, Sequences, Functions

CONSTANTS
    Workflows,      \* the workflows a run may be started on
    LayerLimit,     \* maxIterations of execute, 500 in the code
    MaxRounds,      \* bounds the rounds of a container and the passes of a condition-driven loop
    None

ASSUME LimitAssumption == LayerLimit \in Nat /\ MaxRounds \in Nat \ {0}

\* What a handler may answer, besides an option or a target.
Words == {"ok", "error", "pause", "open", "close", "wait", "go", "stop"}

\* Workflows as the editor lets them be drawn: a connection enters a container
\* only at its start handle, a container is not put into another one, and a
\* trigger has no inputs and is not put into a container.
WellFormed(f) ==
    LET bs == Range(f.blocks)
        cs == DOMAIN f.nodes
    IN  /\ f.blocks \in Seq(bs) /\ f.blocks # <<>>
        /\ f.kind \in [bs -> {"trigger", "regular", "approval", "condition", "router", "loop", "parallel"}]
        /\ \A w \in f.wires : w.from \in bs /\ w.to \in bs \ {Head(f.blocks)}
        /\ cs = {b \in bs : f.kind[b] \in {"loop", "parallel"}}
        /\ f.rounds \in [cs -> 0 .. MaxRounds]
        /\ \A c \in cs : f.nodes[c] \subseteq bs \ (cs \cup {Head(f.blocks)})
        /\ \A c, d \in cs : c # d => f.nodes[c] \cap f.nodes[d] = {}
        /\ \A w \in f.wires : \A c \in cs :
              w.to \in f.nodes[c] /\ w.from \notin f.nodes[c] => w.from = c /\ w.handle = "start"
        /\ bs \cap Words = {} /\ None \notin Words \cup bs
        /\ \A w \in f.wires : f.kind[w.from] = "condition" => w.handle \notin Words \cup {None}

ASSUME WorkflowAssumption == \A f \in Workflows : WellFormed(f)

VARIABLES
    flow,       \* the workflow, fixed for a run
    pc,         \* where the main loop stands, or how the segment ended
    layers,     \* iteration: layers run so far, over all segments
    executed,   \* executedBlocks: pairs <<block, 0>>, or <<block, i>> for virtual blocks
    failed,     \* blockStates whose output holds an error
    choice,     \* decisions: the option or target selected
    path,       \* activeExecutionPath
    round,      \* loopIterations, 0 where the map has no entry
    kept,       \* loops whose block state, and with it the last bound, is stored
    opened,     \* parallelExecutions: parallels that are initialised
    done,       \* completedLoops: loops and parallels that are complete
    asked,      \* pausePoints of this segment
    answered,   \* resumeInputs
    runs        \* how often each block has completed: history, read by no action

context == <<executed, failed, choice, path, round, kept, opened, done, runs>>
vars == <<flow, pc, layers, asked, answered, context>>

-----------------------------------------------------------------------------
(* The workflow *)

Blocks == Range(flow.blocks)
Trigger == Head(flow.blocks)
Containers == DOMAIN flow.nodes
Loops == {c \in Containers : flow.kind[c] = "loop"}
Parallels == {c \in Containers : flow.kind[c] = "parallel"}

Counted(l) == flow.rounds[l] > 0
Iterations(p) == 1 .. flow.rounds[p]

Around(b, cs) == {c \in cs : b \in flow.nodes[c]}
Plain(bs) == {<<b, 0>> : b \in bs}
Virtual(p) == flow.nodes[p] \X Iterations(p)
Ids == Plain(Blocks) \cup UNION {Virtual(p) : p \in Parallels}

Into(b) == {w \in flow.wires : w.to = b}
OutOf(b) == {w \in flow.wires : w.from = b}
Behind(b, handle) == {w.to : w \in {v \in OutOf(b) : v.handle = handle}}

\* Routing.getCategory: containers keep their inner activation to themselves.
Regular(b) == flow.kind[b] \in {"trigger", "regular", "approval"}
FlowControl(b) == flow.kind[b] \in {"loop", "parallel"}
Skipped(w) == w.handle \in {"start", "end"} \/ flow.kind[w.from] = "condition"

\* The blocks of a container that something outside it leads to.
Entries(ns) == {b \in ns : Into(b) # {} /\ \A w \in Into(b) : w.from \notin ns}

-----------------------------------------------------------------------------
(* Which blocks may run: getNextExecutionLayer *)

\* checkDependencies for one connection.  A source that is not on the active
\* path does not hold its target back.
OffPathHolds(w) == FALSE   \* Mutant: it does.

OffPath(w) == w.from \notin path

\* Mutant: error connections are taken for plain ones.
PlainMetErrorBlind(w) ==
    LET ran == <<w.from, 0>> \in executed
        chosen == choice[<<w.from, 0>>]
    IN  CASE w.handle = "start"                -> ran
          [] w.handle = "end"                  -> w.from \in done
          [] flow.kind[w.from] = "condition"   -> ran /\ chosen # None
          [] flow.kind[w.from] = "router"      -> ran /\ chosen = w.to
          [] OTHER                             -> OffPath(w) \/ (ran /\ <<w.from, 0>> \notin failed)

\* Mutant: the end of a parallel is met as soon as the parallel has started.
PlainMetAtStart(w) ==
    LET ran == <<w.from, 0>> \in executed
        bad == <<w.from, 0>> \in failed
        chosen == choice[<<w.from, 0>>]
    IN  CASE w.handle \in {"start", "end"}     -> ran
          [] flow.kind[w.from] = "condition"   -> ran /\ chosen # None
          [] flow.kind[w.from] = "router"      -> ran /\ chosen = w.to
          [] w.handle = "error"                -> OffPath(w) \/ (ran /\ bad)
          [] OTHER                             -> OffPath(w) \/ (ran /\ ~bad)

PlainMet(w) ==
    LET ran == <<w.from, 0>> \in executed
        bad == <<w.from, 0>> \in failed
        chosen == choice[<<w.from, 0>>]
    IN  CASE w.handle = "start"                -> ran
          [] w.handle = "end"                  -> w.from \in done
          [] flow.kind[w.from] = "condition"   -> ran /\ chosen # None
          [] flow.kind[w.from] = "router"      -> ran /\ chosen = w.to
          [] w.handle = "error"                -> OffPath(w) \/ (ran /\ bad)
          [] OTHER                             -> OffPath(w) \/ (ran /\ ~bad)

\* A block that a loop block leads to is checked by rules of its own.
LoopTargetMet(w) ==
    LET ran == <<w.from, 0>> \in executed
        bad == <<w.from, 0>> \in failed
    IN  CASE w.handle = "error"  -> ran /\ bad
          [] w.handle = "source" -> ran /\ ~bad
          [] OTHER               -> OffPath(w) \/ ran

DependenciesMet(ws) ==
    IF \E w \in ws : flow.kind[w.from] = "loop"
    THEN \A w \in ws : LoopTargetMet(w)
    ELSE \A w \in ws : PlainMet(w)

Active(p) == p \in opened /\ p \notin done

\* Mutant: the blocks of a running parallel are not left to its iterations.
PlainReadyInside(b) == <<b, 0>> \notin executed /\ b \in path /\ DependenciesMet(Into(b))

PlainReady(b) ==
    /\ <<b, 0>> \notin executed
    /\ b \in path
    /\ \A p \in Around(b, Parallels) :
          /\ ~Active(p)
          /\ p \in opened => \E i \in Iterations(p) : <<b, i>> \notin executed
    /\ DependenciesMet(Into(b))

\* shouldBlockExecuteInParallelIteration
Reached(b, p, i) ==
    LET inner == {w \in Into(b) : w.from \in flow.nodes[p]}
    IN  IF inner = {} THEN Into(b) # {}
        ELSE \E w \in inner :
                /\ <<w.from, i>> \in executed
                /\ flow.kind[w.from] = "condition" => choice[<<w.from, i>>] = w.handle
                /\ flow.kind[w.from] = "router" => choice[<<w.from, i>>] = w.to

Missing(p, i) == {b \in flow.nodes[p] : <<b, i>> \notin executed /\ Reached(b, p, i)}

\* isIterationComplete, areAllRequiredVirtualBlocksExecuted
IterationComplete(p, i) == Missing(p, i) = {}
AllIterationsComplete(p) == \A i \in Iterations(p) : IterationComplete(p, i)

\* processParallelIteration: one unmet dependency outside holds back the iteration.
IterationReady(p, i) ==
    IF \A b \in Missing(p, i) : \A w \in Into(b) :
          w.from \notin flow.nodes[p] => DependenciesMet({w})
    THEN {<<b, i>> : b \in {c \in Missing(p, i) : \A w \in Into(c) : w.from \notin Missing(p, i)}}
    ELSE {}

NextLayer ==
    {<<b, 0>> : b \in {c \in Blocks : PlainReady(c)}}
        \cup UNION {UNION {IterationReady(p, i) : i \in Iterations(p)}
                    : p \in {q \in Parallels : Active(q)}}

-----------------------------------------------------------------------------
(* What the blocks of a layer may answer: the handlers *)

\* The bound of the last evaluation, while the block state of the loop holds it.
Exhausted(l) == l \in kept /\ round[l] > flow.rounds[l]

Outcomes(id) ==
    LET b == id[1]
        mayFail == IF b \in flow.fallible THEN {"error"} ELSE {}
    IN  CASE flow.kind[b] = "trigger"   -> {"ok"}
          [] flow.kind[b] = "regular"   -> {"ok"} \cup mayFail
          [] flow.kind[b] = "approval"  -> IF id \in answered THEN {"ok"} ELSE {"pause"}
          [] flow.kind[b] = "condition" -> {w.handle : w \in OutOf(b)} \cup {None} \cup mayFail
          [] flow.kind[b] = "router"    -> {w.to : w \in OutOf(b)} \cup mayFail
          [] flow.kind[b] = "parallel"  ->
                IF b \notin opened THEN {"open"} \cup mayFail
                ELSE IF AllIterationsComplete(b) THEN {"close"} ELSE {"wait"}
          [] flow.kind[b] = "loop" /\ Counted(b) ->
                IF Exhausted(b) THEN {"stop"} ELSE {"go"} \cup mayFail
          [] flow.kind[b] = "loop" /\ ~Counted(b) ->
                {"go" : x \in {y \in {b} : round[b] <= MaxRounds}}
                    \cup {"stop" : x \in {y \in {b} : b \in flow.testLast => round[b] > 1}} \cup mayFail

Answers == {r \in [NextLayer -> UNION {Outcomes(id) : id \in NextLayer}] :
               \A id \in NextLayer : r[id] \in Outcomes(id)}

\* No error path to follow: handleBlockFailure throws, and the run fails.
Unhandled(result) ==
    \E id \in DOMAIN result :
        /\ result[id] = "error"
        /\ flow.kind[id[1]] = "condition" \/ FlowControl(id[1]) \/ Behind(id[1], "error") = {}

-----------------------------------------------------------------------------
(* What a layer puts on the active path: PathTracker *)

\* What the blocks lead to step by step, in as many steps as there are blocks.
Closure(bs, next) ==
    LET reached[n \in 0 .. Len(flow.blocks)] ==
            IF n = 0 THEN bs
            ELSE LET before == reached[n - 1]
                 IN  before \cup UNION {next[b] : b \in before}
    IN  reached[Len(flow.blocks)]

\* activateDownstreamPathsSelectively: everything behind the block that is
\* not on the path yet, through blocks that are not containers.
Downstream(b, p) ==
    Closure({b}, [c \in Blocks |->
        IF FlowControl(c) THEN {}
        ELSE {w.to : w \in {v \in OutOf(c) : ~Skipped(v) /\ v.to \notin p}}])

Selected(b, p) == IF Regular(b) THEN Downstream(b, p \cup {b}) ELSE {b}

\* updateRegularBlockPaths, shouldActivateConnection
Follows(w, bad) ==
    /\ ~Skipped(w)
    /\ (w.handle = "error") = bad
    /\ \A l \in Around(w.from, Loops) : w.to \in flow.nodes[l] \/ l \in done

Activated(b, answer, p) ==
    CASE flow.kind[b] = "loop"      -> IF answer = "go" THEN Behind(b, "start") ELSE {}
      [] flow.kind[b] = "condition" -> UNION {Selected(c, p) : c \in Behind(b, answer)}
      [] flow.kind[b] = "router"    -> IF answer = "error" THEN {} ELSE Selected(answer, p)
      [] OTHER -> {w.to : w \in {v \in OutOf(b) : Follows(v, answer = "error")}}

\* The array of a layer: the blocks in the order of the workflow, then the
\* virtual blocks iteration by iteration.
LayerOrder(n) ==
    <<flow.blocks[((n - 1) % Len(flow.blocks)) + 1], (n - 1) \div Len(flow.blocks)>>

\* updateExecutionPaths: one block after the other.
Opened(result, ran, start) ==
    LET last == Len(flow.blocks) * (MaxRounds + 1)
        after[n \in 0 .. last] ==
            IF n = 0 THEN start
            ELSE LET id == LayerOrder(n)
                     before == after[n - 1]
                 IN  IF id \in ran THEN before \cup Activated(id[1], result[id], before) ELSE before
    IN  after[last]

-----------------------------------------------------------------------------
(* The main loop: execute *)

Init ==
    /\ flow \in Workflows
    /\ pc = "layer"
    /\ layers = 0
    /\ executed = {}
    /\ failed = {}
    /\ choice = [id \in Ids |-> None]
    /\ path = {Trigger}
    /\ round = [c \in Containers |-> 0]
    /\ kept = {}
    /\ opened = {}
    /\ done = {}
    /\ asked = {}
    /\ answered = {}
    /\ runs = [id \in Ids |-> 0]

MayRunOn == pc = "layer"   \* Mutant: nobody counts the layers.

MayRun == pc = "layer" /\ layers < LayerLimit

\* The handlers of the layer change the context; then what completed is marked
\* executed and opens the paths behind it.
RunLayer(result) ==
    LET layer == DOMAIN result
        answers(a) == {id \in layer : result[id] = a}
        of(a) == {id[1] : id \in answers(a)}
        ran == layer \ answers("pause")
        repeated == UNION {flow.nodes[l] : l \in {k \in of("go") : ~Counted(k)}}
        erring == UNION {Behind(b, "error") : b \in of("error")}
        begun == UNION {Behind(c, "start") : c \in of("go") \cup of("open")}
        ended == UNION {Behind(c, "end") : c \in of("stop") \cup of("close")}
        closed == UNION {Behind(l, "start") : l \in of("stop")}
        handled == (path \cup erring \cup begun \cup ended) \ (repeated \cup closed)
    IN  /\ ~Unhandled(result)
        /\ executed' = (executed \ Plain(repeated)) \cup ran
        /\ failed' = (failed \ (Plain(repeated) \cup ran)) \cup answers("error")
        /\ choice' = [id \in Ids |->
              IF id \in Plain(repeated) THEN None
              ELSE IF id \in ran /\ flow.kind[id[1]] \in {"condition", "router"}
                      /\ result[id] # "error" /\ choice[id] = None
                   THEN result[id] ELSE choice[id]]
        /\ path' = Opened(result, ran, handled)
        /\ round' = [c \in Containers |->
                        IF <<c, 0>> \in layer /\ c \in Loops /\ round[c] = 0 THEN 1 ELSE round[c]]
        /\ kept' = kept \cup {l \in Loops : <<l, 0>> \in layer}
        /\ opened' = opened \cup of("open")
        /\ done' = done \cup of("stop") \cup of("close")
        /\ asked' = answers("pause")
        /\ answered' = answered \ layer
        /\ runs' = [id \in Ids |-> IF id \in ran THEN runs[id] + 1 ELSE runs[id]]
        /\ pc' = "settled"
        /\ UNCHANGED <<flow, layers>>

ExecuteLayer ==
    /\ MayRun
    /\ \E result \in Answers : RunLayer(result)

\* All blocks of the layer settle first; then the first error is thrown.
LayerFails ==
    /\ MayRun
    /\ \E result \in Answers : Unhandled(result)
    /\ pc' = "failed"
    /\ UNCHANGED <<flow, layers, asked, answered, context>>

\* shouldStopExecution, asked before a layer and after it.
Cancel ==
    /\ MayRun \/ pc = "settled"
    /\ pc' = "cancelled"
    /\ UNCHANGED <<flow, layers, asked, answered, context>>

HitLimit ==
    /\ pc = "layer"
    /\ layers = LayerLimit
    /\ pc' = "limit"
    /\ UNCHANGED <<flow, layers, asked, answered, context>>

\* The containers are not looked at before the checkpoint is made.
Pause ==
    /\ pc = "settled"
    /\ asked # {}
    /\ pc' = "paused"
    /\ layers' = layers + 1
    /\ UNCHANGED <<flow, asked, answered, context>>

\* Another segment of the run, from restoreExecutionContext: every question of
\* the checkpoint has its answer.
Resume ==
    /\ pc = "paused"
    /\ pc' = "layer"
    /\ asked' = {}
    /\ answered' = asked
    /\ UNCHANGED <<flow, layers, context>>

\* allReachableBlocksExecuted
Body(l) ==
    LET ns == flow.nodes[l]
        Leads(w) == CASE flow.kind[w.from] = "router"    -> choice[<<w.from, 0>>] = w.to
                      [] flow.kind[w.from] = "condition" -> choice[<<w.from, 0>>] = w.handle
                      [] OTHER -> (w.handle = "error") = (<<w.from, 0>> \in failed)
    IN  Closure(Entries(ns), [b \in Blocks |->
            {w.to : w \in {v \in OutOf(b) : v.to \in ns /\ Leads(v)}}])

PassOver(l) == l \notin done /\ <<l, 0>> \in executed /\ Plain(Body(l)) \subseteq executed

LastPassLate(l) == Counted(l) /\ round[l] > flow.rounds[l]   \* Mutant: one pass too many.

LastPassUnkept(l) == FALSE   \* Mutant: the bound is dropped with the blocks of the pass.

LastPass(l) == Counted(l) /\ round[l] >= flow.rounds[l]

\* All iterations are over: the parallel runs once more, to join them.
Joined(p) == Active(p) /\ <<p, 0>> \in executed /\ AllIterationsComplete(p)

\* The blocks of a joined parallel leave the active path.
Vacated(ps) == UNION {flow.nodes[p] : p \in ps}

\* processLoopIterations, then processParallelIterations; the run goes on if
\* that leaves something to run.
Schedule ==
    LET over == {l \in Loops : PassOver(l)}
        last == {l \in over : LastPass(l)}
        reset == UNION {flow.nodes[l] : l \in {k \in over \ last : Counted(k)}}
        joined == {p \in Parallels : Joined(p)}
    IN  /\ pc = "settled"
        /\ asked = {}
        /\ executed' = executed \ Plain(reset \cup over \cup joined)
        /\ failed' = failed \ Plain(reset)
        /\ choice' = [id \in Ids |-> IF id \in Plain(reset) THEN None ELSE choice[id]]
        /\ path' = ((path \ reset) \cup last \cup joined) \ Vacated(joined)
        /\ round' = [c \in Containers |-> IF c \in over THEN round[c] + 1 ELSE round[c]]
        /\ kept' = kept \ (over \ last)
        /\ layers' = layers + 1
        /\ UNCHANGED <<flow, opened, done, asked, answered, runs>>
        /\ pc' = IF NextLayer' = {} THEN "success" ELSE "layer"

Next ==
    \/ ExecuteLayer \/ LayerFails \/ Cancel \/ HitLimit
    \/ Pause \/ Resume \/ Schedule

Spec == Init /\ [][Next]_vars

-----------------------------------------------------------------------------
(* What the engine promises *)

Own == Plain({b \in Blocks : Around(b, Parallels) = {}})
          \cup UNION {Virtual(p) : p \in Parallels}

\* The state of the main loop and of the execution context.
TypeOK ==
    /\ flow \in Workflows
    /\ pc \in {"layer", "settled", "paused", "success", "failed", "cancelled", "limit"}
    /\ layers \in 0 .. LayerLimit
    /\ executed \subseteq Ids
    /\ failed \subseteq executed
    /\ DOMAIN choice = Ids
    /\ path \subseteq Blocks
    /\ round \in [Containers -> Nat]
    /\ kept \subseteq Loops
    /\ opened \subseteq Parallels
    /\ done \subseteq Containers
    /\ asked \subseteq Ids
    /\ answered \subseteq Ids
    /\ runs \in [Ids -> Nat]

\* The virtual block, or the block, that a connection into <<b, i>> comes from.
Source(w, i) ==
    IF \E p \in Parallels : {w.from, w.to} \subseteq flow.nodes[p] THEN <<w.from, i>> ELSE <<w.from, 0>>

\* The passes of a loop that have begun.
Passes(l) ==
    IF l \notin done /\ <<l, 0>> \in executed THEN round[l]
    ELSE IF round[l] = 0 THEN 0 ELSE round[l] - 1

\* What happened at the source leads along the connection.
Taken(w, i) ==
    LET s == Source(w, i)
    IN  CASE w.handle = "start" /\ flow.kind[w.from] = "loop" -> Passes(w.from) > 0
          [] w.handle = "start" /\ flow.kind[w.from] = "parallel" -> w.from \in opened
          [] w.handle = "end"   -> w.from \in done
          [] w.handle = "error" -> s \in failed
          [] OTHER -> /\ s \in executed \ failed
                      /\ flow.kind[w.from] = "condition" => choice[s] = w.handle
                      /\ flow.kind[w.from] = "router" => choice[s] = w.to

\* What happened at the source rules the target out.
RuledOut(w, i) ==
    LET s == Source(w, i)
    IN  /\ s \in executed
        /\ CASE w.handle \in {"start", "end"}      -> FALSE
             [] flow.kind[w.from] = "condition" -> FALSE
             [] flow.kind[w.from] = "router"    -> choice[s] # w.to
             [] OTHER                           -> (w.handle = "error") # (s \in failed)

\* "The engine actively tracks execution paths": a block has run only if some
\* connection into it was taken, through an option that was selected, an error
\* that was raised or a container that was entered or left.
OnlyTakenRun ==
    \A id \in executed : id[1] = Trigger \/ \E w \in Into(id[1]) : Taken(w, id[2])

\* And when a run ends well, every block has run that a taken connection leads to
\* and no other rules out, so that a branch that was not selected holds nobody
\* back.
TakenPathsRun ==
    /\ OnlyTakenRun
    /\ pc = "success" =>
          \A id \in Own :
              /\ \E w \in Into(id[1]) : Taken(w, id[2])
              /\ \A w \in Into(id[1]) : ~RuledOut(w, id[2])
              => id \in executed

\* An error that does not fail the run is handled: what the error path of the
\* block leads to has run when the run ends well.
ErrorsAreHandled ==
    pc = "success" =>
        \A id \in failed : \A w \in OutOf(id[1]) :
            w.handle = "error" => \E t \in executed : t[1] = w.to

\* No block runs twice in one pass of its loop; no block outside a loop and no
\* virtual block runs twice at all, over every pause and resumption; and a block
\* inside a parallel never runs except as a virtual one.
OncePerPass ==
    /\ \A id \in Ids \ Own : runs[id] = 0
    /\ \A id \in Own :
          ~FlowControl(id[1]) =>
              /\ Around(id[1], Loops) = {} => runs[id] <= 1
              /\ \A l \in Around(id[1], Loops) : runs[id] <= Passes(l)

\* The blocks after a container run only when it is complete, and then its
\* first blocks have run in every pass and in every iteration, no more and no
\* fewer: a counted loop has made its number of passes.
ContainersFinish ==
    /\ \A c \in Containers \ done : \A b \in Behind(c, "end") : <<b, 0>> \notin executed
    /\ \A l \in Loops \cap done : Counted(l) => Passes(l) = flow.rounds[l]
    /\ \A l \in Loops \cap done : \A b \in Entries(flow.nodes[l]) : runs[<<b, 0>>] = Passes(l)
    /\ \A p \in Parallels \cap done : \A i \in Iterations(p) :
          \A b \in Entries(flow.nodes[p]) : runs[<<b, i>>] = 1

\* A run goes round only while it has something to run, and only a loop without
\* a count can bring it to the limit of layers.
EndsByItself ==
    /\ pc = "layer" => NextLayer # {}
    /\ pc = "limit" => \E l \in Loops : ~Counted(l)

\* "When blocks have multiple active dependencies, the execution engine waits
\* for those dependencies to complete": no block completes after, or together
\* with, a block that its outcome leads to.
WaitsForInputs ==
    [][\A w \in flow.wires : \A id \in Own :
          /\ id[1] = w.to
          /\ w.handle # "start"
          /\ Source(w, id[2]) \in executed' \ executed
          /\ Taken(w, id[2])'
          => id \notin executed']_vars

=============================================================================
