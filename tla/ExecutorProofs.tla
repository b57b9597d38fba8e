--------------------------- MODULE ExecutorProofs ---------------------------
(***************************************************************************)
(* Theorems about Executor, for every workflow that the editor lets one    *)
(* draw: the types of the context, that no block runs twice in a pass, and *)
(* that containers make all their passes; and, with a hypothesis each on   *)
(* how the workflow is drawn, that errors are handled, that only what was  *)
(* led to runs, that all of it does, that inputs come first, and that a    *)
(* run ends by itself.  What a layer puts on the active path is computed   *)
(* by a recursive function over its blocks; lemmas proved by the least     *)
(* counterexample say what it holds and what it cannot leave.  The first   *)
(* theorems rest on one fact: a block inside a container is put on the     *)
(* active path only while the container makes a pass, since it is entered  *)
(* only at its start.  The others rest on two: what is on the path was put *)
(* there by a connection that was taken or is yet to be decided, and what  *)
(* a taken connection leads to is on the path.                             *)
(***************************************************************************)
EXTENDS Executor, FiniteSetTheorems, LeastNumber, TLAPS

\* Nothing inside the container is on the active path.
Idle(c) == path \cap flow.nodes[c] = {}

\* The loop is in a pass.
Pass(l) == <<l, 0>> \in executed /\ l \notin done

Room == pc = "settled" => layers < LayerLimit

\* A container that fails fails the run.
BlocksFailed == \A id \in failed : ~FlowControl(id[1])

\* What no loop repeats stays executed after its run.
RanOnce ==
    \A id \in Ids : ~FlowControl(id[1]) /\ Around(id[1], Loops) = {} =>
        runs[id] = IF id \in executed THEN 1 ELSE 0

\* The blocks of a parallel are on the path only while it runs its iterations;
\* when it is to be joined, and ever after, these are complete.
ParallelOK(p) ==
    /\ ~Idle(p) => Active(p) /\ <<p, 0>> \in executed
    /\ p \in done => p \in opened
    /\ p \in opened /\ (<<p, 0>> \notin executed \/ p \in done) => AllIterationsComplete(p)
    /\ \A b \in flow.nodes[p] : <<b, 0>> \notin executed

\* The counter of a counted loop, and the bound that is kept with its state.
CountOK(l) ==
    /\ l \in done => <<l, 0>> \in executed
    /\ <<l, 0>> \in executed => round[l] > 0 /\ l \in kept
    /\ Counted(l) =>
          /\ round[l] <= flow.rounds[l] + 1
          /\ round[l] > flow.rounds[l] => l \in kept /\ ~Pass(l)
          /\ l \in done => round[l] > flow.rounds[l]
          /\ <<l, 0>> \notin executed /\ round[l] <= flow.rounds[l] =>
                Idle(l) /\ Plain(flow.nodes[l]) \cap executed = {}

\* A block of a loop has run at most once in each pass, and may run now only if
\* it has not in this one.
BlocksOK(l) ==
    \A b \in flow.nodes[l] :
        /\ runs[<<b, 0>>] <= Passes(l)
        /\ <<b, 0>> \in executed \/ runs[<<b, 0>>] < Passes(l) \/ Idle(l)

\* The first blocks of a loop have run in every pass that is over.
EntriesOK(l) ==
    /\ ~Pass(l) => Idle(l) \/ Plain(Entries(flow.nodes[l])) \subseteq executed
    /\ \A b \in Entries(flow.nodes[l]) :
          runs[<<b, 0>>] + (IF Pass(l) /\ <<b, 0>> \notin executed THEN 1 ELSE 0) = Passes(l)

LoopOK(l) == CountOK(l) /\ BlocksOK(l) /\ EntriesOK(l)

IInv ==
    /\ TypeOK /\ Room /\ BlocksFailed /\ RanOnce
    /\ \A p \in Parallels : ParallelOK(p)
    /\ \A l \in Loops : LoopOK(l)

-----------------------------------------------------------------------------
(* The workflow *)

\* WellFormed, of the workflow of the run.
Drawn ==
    /\ Len(flow.blocks) \in Nat
    /\ Trigger \in Blocks
    /\ \A w \in flow.wires : w.from \in Blocks /\ w.to \in Blocks \ {Trigger}
    /\ flow.kind \in [Blocks -> {"trigger", "regular", "approval", "condition", "router", "loop", "parallel"}]
    /\ Containers = {b \in Blocks : FlowControl(b)}
    /\ flow.rounds \in [Containers -> 0 .. MaxRounds]
    /\ \A c \in Containers : flow.nodes[c] \subseteq Blocks \ (Containers \cup {Trigger})
    /\ \A c, d \in Containers : c # d => flow.nodes[c] \cap flow.nodes[d] = {}
    /\ \A w \in flow.wires : \A c \in Containers :
          w.to \in flow.nodes[c] /\ w.from \notin flow.nodes[c] => w.from = c /\ w.handle = "start"
    /\ Blocks \cap Words = {} /\ None \notin Words \cup Blocks
    /\ \A w \in flow.wires : flow.kind[w.from] = "condition" => w.handle \notin Words \cup {None}

LEMMA FlowDrawn ==
    ASSUME flow \in Workflows
    PROVE  Drawn
  <1>1. WellFormed(flow)
    BY WorkflowAssumption
  <1>2. Range(flow.blocks) = Blocks /\ DOMAIN flow.nodes = Containers /\ Head(flow.blocks) = Trigger
    BY DEF Blocks, Containers, Trigger
  <1>3. flow.blocks \in Seq(Blocks) /\ flow.blocks # <<>>
    BY <1>1, <1>2 DEF WellFormed
  <1>4. Len(flow.blocks) \in Nat /\ Trigger \in Blocks
    BY <1>3 DEF Trigger
  <1>5. \A w \in flow.wires : w.from \in Blocks /\ w.to \in Blocks \ {Trigger}
    BY <1>1, <1>2 DEF WellFormed
  <1>6. Containers = {b \in Blocks : FlowControl(b)}
    BY <1>1, <1>2 DEF WellFormed, FlowControl
  <1>7. /\ flow.kind \in [Blocks -> {"trigger", "regular", "approval", "condition", "router", "loop", "parallel"}]
        /\ flow.rounds \in [Containers -> 0 .. MaxRounds]
        /\ \A c \in Containers : flow.nodes[c] \subseteq Blocks \ (Containers \cup {Trigger})
    BY <1>1, <1>2 DEF WellFormed
  <1>8. /\ \A c, d \in Containers : c # d => flow.nodes[c] \cap flow.nodes[d] = {}
        /\ \A w \in flow.wires : \A c \in Containers :
              w.to \in flow.nodes[c] /\ w.from \notin flow.nodes[c] => w.from = c /\ w.handle = "start"
    BY <1>1, <1>2 DEF WellFormed
  <1>9. /\ Blocks \cap Words = {} /\ None \notin Words \cup Blocks
        /\ \A w \in flow.wires : flow.kind[w.from] = "condition" => w.handle \notin Words \cup {None}
    BY <1>1, <1>2 DEF WellFormed
  <1> QED
    BY <1>4, <1>5, <1>6, <1>7, <1>8, <1>9 DEF Drawn

\* The workflow is fixed, and what is read off it.
LEMMA Fixed ==
    ASSUME flow' = flow
    PROVE  /\ Blocks' = Blocks /\ Trigger' = Trigger /\ Containers' = Containers
           /\ Loops' = Loops /\ Parallels' = Parallels /\ Ids' = Ids /\ Own' = Own
  BY DEF Blocks, Trigger, Containers, Loops, Parallels, Ids, Own, Virtual, Iterations, Plain, Around

\* Plain blocks and virtual blocks, and where they are.
LEMMA Places ==
    ASSUME Drawn
    PROVE  /\ Loops \subseteq Containers /\ Parallels \subseteq Containers
           /\ Containers = Loops \cup Parallels /\ Loops \cap Parallels = {}
           /\ \A l \in Containers : flow.rounds[l] \in Nat
           /\ \A b \in Blocks : <<b, 0>> \in Ids
           /\ \A c \in Containers : c \in Blocks /\ <<c, 0>> \in Ids
           /\ \A c \in Containers : \A b \in flow.nodes[c] :
                 b \in Blocks /\ b \notin Containers /\ b # Trigger /\ <<b, 0>> \in Ids
           /\ \A id \in Ids : id[1] \in Blocks
           /\ \A b \in Blocks : FlowControl(b) <=> b \in Containers
  <1>1. /\ Loops \subseteq Containers /\ Parallels \subseteq Containers
        /\ Containers = Loops \cup Parallels /\ Loops \cap Parallels = {}
    BY DEF Drawn, Loops, Parallels, FlowControl
  <1>2. \A l \in Containers : flow.rounds[l] \in Nat
    BY DEF Drawn
  <1>3. \A b \in Blocks : <<b, 0>> \in Ids
    BY DEF Ids, Plain
  <1>4. \A c \in Containers : c \in Blocks /\ <<c, 0>> \in Ids
    BY <1>3 DEF Drawn
  <1>5. \A c \in Containers : \A b \in flow.nodes[c] :
           b \in Blocks /\ b \notin Containers /\ b # Trigger /\ <<b, 0>> \in Ids
    BY <1>3 DEF Drawn
  <1>6. ASSUME NEW id \in Ids
        PROVE  id[1] \in Blocks
    <2>1. CASE id \in Plain(Blocks)
      BY <2>1 DEF Plain
    <2>2. ASSUME NEW p \in Parallels, id \in Virtual(p)
          PROVE  id[1] \in Blocks
      <3>1. id[1] \in flow.nodes[p]
        BY <2>2 DEF Virtual
      <3> QED
        BY <1>1, <1>5, <3>1
    <2> QED
      BY <2>1, <2>2 DEF Ids
  <1>7. \A b \in Blocks : FlowControl(b) <=> b \in Containers
    BY DEF Drawn
  <1> QED
    BY <1>1, <1>2, <1>3, <1>4, <1>5, <1>6, <1>7

-----------------------------------------------------------------------------
(* Recursive functions *)

\* What Closure and Opened compute, step by step.
ClosureSteps(F, bs, next) ==
    \A n \in 0 .. Len(flow.blocks) :
        F[n] = IF n = 0 THEN bs ELSE F[n - 1] \cup UNION {next[b] : b \in F[n - 1]}

OpenedSteps(F, result, ran, start) ==
    \A n \in 0 .. Len(flow.blocks) * (MaxRounds + 1) :
        F[n] = IF n = 0 THEN start
               ELSE IF LayerOrder(n) \in ran
               THEN F[n - 1] \cup Activated(LayerOrder(n)[1], result[LayerOrder(n)], F[n - 1])
               ELSE F[n - 1]

LEMMA ClosureRuns ==
    ASSUME NEW bs, NEW next, Len(flow.blocks) \in Nat
    PROVE  \E F : Closure(bs, next) = F[Len(flow.blocks)] /\ ClosureSteps(F, bs, next)
  <1> DEFINE N == Len(flow.blocks)
             Grow(s) == s \cup UNION {next[b] : b \in s}
             Def(f, k) == f = [n \in 0 .. k |-> IF n = 0 THEN bs ELSE Grow(f[n - 1])]
             F == CHOOSE f : Def(f, N)
  <1>1. Closure(bs, next) = F[N]
    BY DEF Closure
  <1> HIDE DEF Grow
  <1>2. ASSUME NEW k \in Nat
        PROVE  \E f : Def(f, k)
    <2> DEFINE T == {n \in Nat : ~\E f : Def(f, n)}
    <2> SUFFICES ASSUME T # {}
                 PROVE  FALSE
      OBVIOUS
    <2>1. PICK m \in T : \A n \in T : m <= n
      BY Least
    <2>2. CASE m = 0
      <3>1. Def([n \in 0 .. 0 |-> bs], 0)
        OBVIOUS
      <3> QED
        BY <2>2, <3>1
    <2>3. CASE m # 0
      <3>1. m - 1 \in Nat /\ ~(m <= m - 1)
        BY <2>3
      <3>2. m - 1 \notin T
        BY <2>1, <3>1
      <3>3. PICK g : Def(g, m - 1)
        BY <3>1, <3>2
      <3> DEFINE h == [n \in 0 .. m |-> IF n = m THEN Grow(g[m - 1]) ELSE g[n]]
      <3>4. Def(h, m)
        <4>1. ASSUME NEW n \in 0 .. m
              PROVE  h[n] = IF n = 0 THEN bs ELSE Grow(h[n - 1])
          BY <2>3, <3>3
        <4> HIDE DEF h
        <4>2. h = [n \in 0 .. m |-> h[n]]
          BY DEF h
        <4> QED
          BY <4>1, <4>2
      <3> QED
        BY <3>4
    <2> QED
      BY <2>2, <2>3
  <1>3. Def(F, N)
    BY <1>2
  <1> HIDE DEF F
  <1>4. \A n \in 0 .. N : F[n] = IF n = 0 THEN bs ELSE Grow(F[n - 1])
    BY <1>3
  <1> QED
    BY <1>1, <1>4 DEF Grow, ClosureSteps

LEMMA OpenedRuns ==
    ASSUME NEW result, NEW ran, NEW start, Len(flow.blocks) \in Nat
    PROVE  /\ Len(flow.blocks) * (MaxRounds + 1) \in Nat
           /\ \E F : /\ Opened(result, ran, start) = F[Len(flow.blocks) * (MaxRounds + 1)]
                     /\ OpenedSteps(F, result, ran, start)
  <1> DEFINE N == Len(flow.blocks) * (MaxRounds + 1)
             Grow(s, n) == IF LayerOrder(n) \in ran
                           THEN s \cup Activated(LayerOrder(n)[1], result[LayerOrder(n)], s)
                           ELSE s
             Def(f, k) == f = [n \in 0 .. k |-> IF n = 0 THEN start ELSE Grow(f[n - 1], n)]
             F == CHOOSE f : Def(f, N)
  <1>1. Opened(result, ran, start) = F[N]
    BY DEF Opened
  <1>2. N \in Nat
    <2>1. \A a, b \in Nat : a * b \in Nat
      OBVIOUS
    <2>2. MaxRounds + 1 \in Nat
      BY LimitAssumption
    <2> QED
      BY <2>1, <2>2
  <1> HIDE DEF N, Grow
  <1>3. ASSUME NEW k \in Nat
        PROVE  \E f : Def(f, k)
    <2> DEFINE T == {n \in Nat : ~\E f : Def(f, n)}
    <2> SUFFICES ASSUME T # {}
                 PROVE  FALSE
      OBVIOUS
    <2>1. PICK m \in T : \A n \in T : m <= n
      BY Least
    <2>2. CASE m = 0
      <3>1. Def([n \in 0 .. 0 |-> start], 0)
        OBVIOUS
      <3> QED
        BY <2>2, <3>1
    <2>3. CASE m # 0
      <3>1. m - 1 \in Nat /\ ~(m <= m - 1)
        BY <2>3
      <3>2. m - 1 \notin T
        BY <2>1, <3>1
      <3>3. PICK g : Def(g, m - 1)
        BY <3>1, <3>2
      <3> DEFINE h == [n \in 0 .. m |-> IF n = m THEN Grow(g[m - 1], m) ELSE g[n]]
      <3>4. Def(h, m)
        <4>1. ASSUME NEW n \in 0 .. m
              PROVE  h[n] = IF n = 0 THEN start ELSE Grow(h[n - 1], n)
          BY <2>3, <3>3
        <4> HIDE DEF h
        <4>2. h = [n \in 0 .. m |-> h[n]]
          BY DEF h
        <4> QED
          BY <4>1, <4>2
      <3> QED
        BY <3>4
    <2> QED
      BY <2>2, <2>3
  <1>4. Def(F, N)
    BY <1>2, <1>3
  <1> HIDE DEF F
  <1>5. \A n \in 0 .. N : F[n] = IF n = 0 THEN start ELSE Grow(F[n - 1], n)
    BY <1>4
  <1> QED
    BY <1>1, <1>2, <1>5 DEF N, Grow, OpenedSteps

\* Of sets that grow from one number to the next, an earlier one is part of a later one.
LEMMA Upwards ==
    ASSUME NEW N \in Nat, NEW F, \A n \in 0 .. N : n # 0 => F[n - 1] \subseteq F[n],
           NEW n \in 0 .. N, NEW m \in n .. N
    PROVE  F[n] \subseteq F[m]
  <1> DEFINE T == {k \in n .. N : ~(F[n] \subseteq F[k])}
  <1> SUFFICES ASSUME T # {}
               PROVE  FALSE
    OBVIOUS
  <1> T \in SUBSET Nat
    OBVIOUS
  <1>1. \E k \in T : \A j \in T : k <= j
    <2> HIDE DEF T
    <2> QED
      BY Least
  <1>2. PICK k \in T : \A j \in T : k <= j
    BY <1>1
  <1>3. k # n
    OBVIOUS
  <1>4. k - 1 \in n .. N /\ ~(k <= k - 1) /\ k \in 0 .. N /\ k # 0
    BY <1>3
  <1>5. k - 1 \notin T
    BY <1>2, <1>4
  <1>6. F[n] \subseteq F[k - 1] /\ F[k - 1] \subseteq F[k]
    BY <1>4, <1>5
  <1> QED
    BY <1>6

\* What the blocks lead to contains them, and is inside every set that contains
\* them and is not left by a step.
LEMMA ClosureStays ==
    ASSUME NEW bs, NEW next, NEW Z, Len(flow.blocks) \in Nat,
           bs \subseteq Z, \A b \in Z : next[b] \subseteq Z
    PROVE  bs \subseteq Closure(bs, next) /\ Closure(bs, next) \subseteq Z
  <1> DEFINE N == Len(flow.blocks)
             Grow(s) == s \cup UNION {next[b] : b \in s}
  <1>0. PICK F : Closure(bs, next) = F[N] /\ ClosureSteps(F, bs, next)
    BY ClosureRuns
  <1>1. /\ Closure(bs, next) = F[N]
        /\ \A n \in 0 .. N : F[n] = IF n = 0 THEN bs ELSE Grow(F[n - 1])
    BY <1>0 DEF ClosureSteps
  <1>2. \A s : s \subseteq Z => s \subseteq Grow(s) /\ Grow(s) \subseteq Z
    OBVIOUS
  <1> HIDE DEF Grow
  <1> DEFINE T == {n \in 0 .. N : ~(bs \subseteq F[n] /\ F[n] \subseteq Z)}
  <1>3. T = {}
    <2> SUFFICES ASSUME T # {}
                 PROVE  FALSE
      OBVIOUS
    <2> T \in SUBSET Nat
      OBVIOUS
    <2>1. \E m \in T : \A n \in T : m <= n
      <3> HIDE DEF T
      <3> QED
        BY Least
    <2>2. PICK m \in T : \A n \in T : m <= n
      BY <2>1
    <2>3. CASE m = 0
      BY <1>1, <2>3
    <2>4. CASE m # 0
      <3>1. m - 1 \in 0 .. N /\ ~(m <= m - 1)
        BY <2>4
      <3>2. m - 1 \notin T
        BY <2>2, <3>1
      <3>3. bs \subseteq F[m - 1] /\ F[m - 1] \subseteq Z
        BY <3>1, <3>2
      <3>4. F[m] = Grow(F[m - 1])
        BY <1>1, <2>4
      <3> QED
        BY <1>2, <3>3, <3>4
    <2> QED
      BY <2>3, <2>4
  <1>4. N \in 0 .. N
    OBVIOUS
  <1> QED
    BY <1>1, <1>3, <1>4

\* The blocks of the workflow are listed, so that there are not more of them than
\* the list is long.
LEMMA Listed ==
    ASSUME flow \in Workflows
    PROVE  /\ Len(flow.blocks) \in Nat /\ flow.blocks \in [1 .. Len(flow.blocks) -> Blocks]
           /\ \A b \in Blocks : \E k \in 1 .. Len(flow.blocks) : flow.blocks[k] = b
  <1>1. flow.blocks \in Seq(Blocks)
    BY WorkflowAssumption DEF WellFormed, Blocks
  <1>2. Len(flow.blocks) \in Nat /\ flow.blocks \in [1 .. Len(flow.blocks) -> Blocks]
    BY <1>1
  <1>3. Blocks = {flow.blocks[k] : k \in DOMAIN flow.blocks}
    BY DEF Blocks, Range
  <1> QED
    BY <1>2, <1>3

LEMMA FewBlocks ==
    ASSUME flow \in Workflows
    PROVE  IsFiniteSet(Blocks) /\ Cardinality(Blocks) <= Len(flow.blocks)
  <1> DEFINE N == Len(flow.blocks)
  <1>1. N \in Nat /\ flow.blocks \in [1 .. N -> Blocks] /\ \A b \in Blocks : \E k \in 1 .. N : flow.blocks[k] = b
    BY Listed
  <1> HIDE DEF N
  <1>2. flow.blocks \in Surjection(1 .. N, Blocks)
    BY <1>1 DEF Surjection, Range
  <1>3. IsFiniteSet(1 .. N) /\ Cardinality(1 .. N) = IF 1 > N THEN 0 ELSE N - 1 + 1
    <2>1. 1 \in Int /\ N \in Int
      BY <1>1
    <2> QED
      BY <2>1, FS_Interval
  <1>4. Cardinality(1 .. N) = N
    BY <1>1, <1>3
  <1>5. IsFiniteSet(Blocks) /\ Cardinality(Blocks) <= Cardinality(1 .. N)
    BY <1>2, <1>3, FS_Surjection
  <1> QED
    BY <1>4, <1>5 DEF N

\* What the blocks lead to is left by no step, and what is in it is one of them
\* or what a step leads to.
LEMMA ClosureClosed ==
    ASSUME flow \in Workflows, NEW bs \in SUBSET Blocks, NEW next, \A b \in Blocks : next[b] \subseteq Blocks
    PROVE  /\ \A b \in Closure(bs, next) : next[b] \subseteq Closure(bs, next)
           /\ \A b \in Closure(bs, next) : b \in bs \/ \E c \in Closure(bs, next) : b \in next[c]
           /\ bs \subseteq Closure(bs, next) /\ Closure(bs, next) \subseteq Blocks
  <1> DEFINE N == Len(flow.blocks)
             Grow(s) == s \cup UNION {next[b] : b \in s}
  <1> N \in Nat
    BY Listed
  <1>0. PICK F : Closure(bs, next) = F[N] /\ ClosureSteps(F, bs, next)
    BY ClosureRuns
  <1>1. /\ Closure(bs, next) = F[N]
        /\ \A n \in 0 .. N : F[n] = IF n = 0 THEN bs ELSE Grow(F[n - 1])
    BY <1>0 DEF ClosureSteps
  <1>2. bs \subseteq Closure(bs, next) /\ Closure(bs, next) \subseteq Blocks
    BY ClosureStays
  <1>3. \A n \in 0 .. N : n # 0 => F[n - 1] \subseteq F[n]
    BY <1>1
  <1>4. \A n \in 0 .. N : \A m \in n .. N : F[n] \subseteq F[m]
    BY <1>3, Upwards
  <1>5. \A n \in 0 .. N : F[n] \subseteq F[N] /\ F[n] \subseteq Blocks
    BY <1>1, <1>2, <1>4
  <1>6. ASSUME NEW n \in 0 .. N, n # N, F[n + 1] = F[n]
        PROVE  F[N] = F[n]
    <2> DEFINE T == {m \in n .. N : F[m] # F[n]}
    <2> SUFFICES ASSUME T # {}
                 PROVE  FALSE
      OBVIOUS
    <2> T \in SUBSET Nat
      OBVIOUS
    <2>1. \E m \in T : \A j \in T : m <= j
      <3> HIDE DEF T
      <3> QED
        BY Least
    <2>2. PICK m \in T : \A j \in T : m <= j
      BY <2>1
    <2>3. m # n
      OBVIOUS
    <2>4. m - 1 \in n .. N /\ ~(m <= m - 1) /\ m \in 0 .. N /\ m # 0 /\ n + 1 \in 0 .. N /\ n + 1 # 0
      BY <2>3, <1>6
    <2>5. F[m - 1] = F[n]
      BY <2>2, <2>4
    <2>6. F[m] = Grow(F[m - 1]) /\ F[n + 1] = Grow(F[n])
      <3>1. (n + 1) - 1 = n
        OBVIOUS
      <3> QED
        BY <1>1, <2>4, <3>1
    <2> QED
      BY <1>6, <2>5, <2>6
  <1>7. Grow(F[N]) \subseteq F[N]
    <2>1. CASE \E n \in 0 .. N : n # N /\ F[n + 1] = F[n]
      <3>1. PICK n \in 0 .. N : n # N /\ F[n + 1] = F[n]
        BY <2>1
      <3>2. F[N] = F[n]
        BY <1>6, <3>1
      <3>3. n + 1 \in 0 .. N /\ n + 1 # 0 /\ (n + 1) - 1 = n
        BY <3>1
      <3>4. F[n + 1] = Grow(F[n])
        BY <1>1, <3>3
      <3> QED
        BY <3>1, <3>2, <3>4
    <2>2. CASE \A n \in 0 .. N : n # N => F[n + 1] # F[n]
      <3>1. \A n \in 0 .. N : IsFiniteSet(F[n]) /\ Cardinality(F[n]) \in Nat
        BY <1>5, FewBlocks, FS_Subset, FS_CardinalityType
      <3> DEFINE T == {n \in 0 .. N : Cardinality(F[n]) < n}
      <3>2. T = {}
        <4> SUFFICES ASSUME T # {}
                     PROVE  FALSE
          OBVIOUS
        <4> T \in SUBSET Nat
          OBVIOUS
        <4>1. \E m \in T : \A j \in T : m <= j
          <5> HIDE DEF T
          <5> QED
            BY Least
        <4>2. PICK m \in T : \A j \in T : m <= j
          BY <4>1
        <4>3. m \in 0 .. N /\ Cardinality(F[m]) < m
          OBVIOUS
        <4>4. m # 0
          BY <3>1, <4>3
        <4>5. m - 1 \in 0 .. N /\ m - 1 # N /\ (m - 1) + 1 = m /\ ~(m <= m - 1)
          BY <4>3, <4>4
        <4>6. ~(Cardinality(F[m - 1]) < m - 1)
          BY <4>2, <4>5
        <4>7. F[m - 1] \subseteq F[m] /\ F[m - 1] # F[m]
          BY <1>3, <2>2, <4>3, <4>4, <4>5
        <4>8. Cardinality(F[m - 1]) <= Cardinality(F[m]) /\ Cardinality(F[m - 1]) # Cardinality(F[m])
          BY <3>1, <4>3, <4>7, FS_Subset
        <4>9. Cardinality(F[m]) \in Nat /\ Cardinality(F[m - 1]) \in Nat /\ m \in Nat
          BY <3>1, <4>3, <4>5
        <4> HIDE DEF T
        <4> QED
          BY <4>3, <4>6, <4>8, <4>9
      <3>3. N \in 0 .. N
        OBVIOUS
      <3>4. ~(Cardinality(F[N]) < N)
        BY <3>2, <3>3
      <3>5. Cardinality(F[N]) <= Cardinality(Blocks) /\ (Cardinality(Blocks) = Cardinality(F[N]) => Blocks = F[N])
        BY <1>5, <3>3, FewBlocks, FS_Subset
      <3>6. Cardinality(Blocks) \in Nat /\ Cardinality(Blocks) <= N
        BY FewBlocks, FS_CardinalityType
      <3>7. F[N] = Blocks
        BY <3>1, <3>3, <3>4, <3>5, <3>6
      <3> QED
        BY <3>7
    <2> QED
      BY <2>1, <2>2
  <1>8. ASSUME NEW b \in F[N]
        PROVE  b \in bs \/ \E c \in F[N] : b \in next[c]
    <2> DEFINE T == {n \in 0 .. N : b \in F[n]}
    <2> N \in 0 .. N
      OBVIOUS
    <2> T \in SUBSET Nat /\ T # {}
      BY <1>8
    <2>1. \E m \in T : \A j \in T : m <= j
      <3> HIDE DEF T
      <3> QED
        BY Least
    <2>2. PICK m \in T : \A j \in T : m <= j
      BY <2>1
    <2>3. CASE m = 0
      BY <1>1, <2>3
    <2>4. CASE m # 0
      <3>1. m - 1 \in 0 .. N /\ ~(m <= m - 1)
        BY <2>4
      <3>2. b \notin F[m - 1]
        BY <2>2, <3>1
      <3>3. F[m] = Grow(F[m - 1]) /\ b \in F[m]
        BY <1>1, <2>4
      <3>4. PICK c \in F[m - 1] : b \in next[c]
        BY <3>2, <3>3
      <3> QED
        BY <1>5, <3>1, <3>4
    <2> QED
      BY <2>3, <2>4
  <1> QED
    BY <1>1, <1>2, <1>7, <1>8

\* The active path after a layer contains the one before, and is inside every set
\* that contains that one and what the blocks of the layer activate.
LEMMA OpenedStays ==
    ASSUME NEW result, NEW ran, NEW start, NEW Z, Len(flow.blocks) \in Nat,
           start \subseteq Z,
           \A id \in ran : \A p \in SUBSET Z : Activated(id[1], result[id], p) \subseteq Z
    PROVE  start \subseteq Opened(result, ran, start) /\ Opened(result, ran, start) \subseteq Z
  <1> DEFINE N == Len(flow.blocks) * (MaxRounds + 1)
             Grow(s, n) == IF LayerOrder(n) \in ran
                           THEN s \cup Activated(LayerOrder(n)[1], result[LayerOrder(n)], s)
                           ELSE s
  <1>0. N \in Nat /\ \E F : Opened(result, ran, start) = F[N] /\ OpenedSteps(F, result, ran, start)
    BY OpenedRuns
  <1>1. PICK F : Opened(result, ran, start) = F[N] /\ OpenedSteps(F, result, ran, start)
    BY <1>0
  <1>2. \A s, n : s \subseteq Z => s \subseteq Grow(s, n) /\ Grow(s, n) \subseteq Z
    OBVIOUS
  <1>3. \A n \in 0 .. N : F[n] = IF n = 0 THEN start ELSE Grow(F[n - 1], n)
    BY <1>1 DEF OpenedSteps
  <1> HIDE DEF N, Grow
  <1> N \in Nat
    BY <1>0 DEF N
  <1> DEFINE T == {n \in 0 .. N : ~(start \subseteq F[n] /\ F[n] \subseteq Z)}
  <1>4. T = {}
    <2> SUFFICES ASSUME T # {}
                 PROVE  FALSE
      OBVIOUS
    <2> T \in SUBSET Nat
      OBVIOUS
    <2>1. \E m \in T : \A n \in T : m <= n
      <3> HIDE DEF T
      <3> QED
        BY Least
    <2>2. PICK m \in T : \A n \in T : m <= n
      BY <2>1
    <2>3. CASE m = 0
      BY <1>3, <2>3
    <2>4. CASE m # 0
      <3>1. m - 1 \in 0 .. N /\ ~(m <= m - 1)
        BY <2>4
      <3>2. m - 1 \notin T
        BY <2>2, <3>1
      <3>3. start \subseteq F[m - 1] /\ F[m - 1] \subseteq Z
        BY <3>1, <3>2
      <3>4. F[m] = Grow(F[m - 1], m)
        BY <1>3, <2>4
      <3> QED
        BY <1>2, <3>3, <3>4
    <2> QED
      BY <2>3, <2>4
  <1>5. N \in 0 .. N
    OBVIOUS
  <1> QED
    BY <1>1, <1>4, <1>5 DEF N

\* The active path after a layer contains the one before.
LEMMA OpenedHolds ==
    ASSUME NEW result, NEW ran, NEW start, Len(flow.blocks) \in Nat
    PROVE  start \subseteq Opened(result, ran, start)
  <1> DEFINE N == Len(flow.blocks) * (MaxRounds + 1)
  <1>1. N \in Nat /\ \E F : Opened(result, ran, start) = F[N] /\ OpenedSteps(F, result, ran, start)
    BY OpenedRuns
  <1>2. PICK F : Opened(result, ran, start) = F[N] /\ OpenedSteps(F, result, ran, start)
    BY <1>1
  <1>3. \A n \in 0 .. N : n # 0 => F[n - 1] \subseteq F[n]
    BY <1>2 DEF OpenedSteps
  <1>4. F[0] = start
    <2>1. \A n \in 0 .. N : n = 0 => F[n] = start
      BY <1>2 DEF OpenedSteps
    <2> HIDE DEF N
    <2> QED
      BY <1>1, <2>1
  <1> HIDE DEF N
  <1>5. F[0] \subseteq F[N]
    <2>1. 0 \in 0 .. N /\ N \in 0 .. N /\ N \in Nat
      BY <1>1
    <2> QED
      BY <1>3, <2>1, Upwards
  <1> QED
    BY <1>2, <1>4, <1>5

\* What a block that is not virtual activates when its turn comes is on the active
\* path after the layer.
LEMMA OpenedHas ==
    ASSUME flow \in Workflows, NEW result, NEW ran, NEW start, NEW b \in Blocks, <<b, 0>> \in ran
    PROVE  \E p : Activated(b, result[<<b, 0>>], p) \subseteq Opened(result, ran, start)
  <1> DEFINE L == Len(flow.blocks)
             N == L * (MaxRounds + 1)
             id == <<b, 0>>
  <1>1. L \in Nat /\ \E k \in 1 .. L : flow.blocks[k] = b
    BY Listed
  <1>2. PICK k \in 1 .. L : flow.blocks[k] = b
    BY <1>1
  <1>3. N \in Nat /\ \E F : Opened(result, ran, start) = F[N] /\ OpenedSteps(F, result, ran, start)
    BY <1>1, OpenedRuns
  <1>4. PICK F : Opened(result, ran, start) = F[N] /\ OpenedSteps(F, result, ran, start)
    BY <1>3
  <1>5. LayerOrder(k) = id
    <2> HIDE DEF L
    <2>1. (k - 1) % L = k - 1 /\ (k - 1) \div L = 0 /\ (k - 1) + 1 = k
      BY <1>1
    <2> QED
      BY <1>2, <2>1 DEF LayerOrder, L
  <1>6. k \in 0 .. N /\ k # 0
    <2>1. \A a \in Nat, m \in Nat \ {0} : a <= a * (m + 1)
      OBVIOUS
    <2> HIDE DEF L
    <2>2. L <= L * (MaxRounds + 1)
      BY <1>1, <2>1, LimitAssumption
    <2> HIDE DEF N
    <2>3. k \in Nat /\ k <= L /\ k # 0 /\ L <= N /\ N \in Nat /\ L \in Nat
      BY <1>1, <1>3, <2>2 DEF N, L
    <2> QED
      BY <2>3
  <1>7. \A n \in 0 .. N : n # 0 => F[n - 1] \subseteq F[n]
    BY <1>4 DEF OpenedSteps
  <1>8. F[k] = F[k - 1] \cup Activated(id[1], result[id], F[k - 1])
    BY <1>4, <1>5, <1>6 DEF OpenedSteps
  <1> HIDE DEF N, L
  <1>9. k \in 0 .. N /\ N \in k .. N /\ N \in Nat
    BY <1>3, <1>6 DEF N
  <1>10. F[k] \subseteq F[N]
    BY <1>7, <1>9, Upwards
  <1>11. Activated(b, result[<<b, 0>>], F[k - 1]) \subseteq Opened(result, ran, start)
    BY <1>4, <1>8, <1>10 DEF N, L
  <1> QED
    BY <1>11

-----------------------------------------------------------------------------
(* Which blocks may run, and what they answer *)

\* A block that may run has not run, and is either plain and ready or the
\* virtual block of an iteration that misses it.
LEMMA MayRunNext ==
    ASSUME Drawn, NEW id \in NextLayer
    PROVE  /\ id \in Ids /\ id \notin executed /\ id[1] \in Blocks
           /\ \/ id = <<id[1], 0>> /\ PlainReady(id[1])
              \/ \E p \in Parallels : \E i \in Iterations(p) :
                    /\ Active(p) /\ id[1] \in flow.nodes[p]
                    /\ id = <<id[1], i>> /\ id[1] \in Missing(p, i)
  <1>1. ASSUME NEW b \in Blocks, PlainReady(b), id = <<b, 0>>
        PROVE  id \in Ids /\ id \notin executed /\ id[1] = b
    BY <1>1, Places DEF PlainReady
  <1>2. ASSUME NEW p \in Parallels, Active(p), NEW i \in Iterations(p), id \in IterationReady(p, i)
        PROVE  /\ id \in Ids /\ id \notin executed /\ id[1] \in flow.nodes[p]
               /\ id = <<id[1], i>> /\ id[1] \in Missing(p, i)
    <2>1. PICK b \in Missing(p, i) : id = <<b, i>>
      BY <1>2 DEF IterationReady
    <2>2. b \in flow.nodes[p] /\ <<b, i>> \notin executed
      BY DEF Missing
    <2>3. <<b, i>> \in Virtual(p)
      BY <2>2 DEF Virtual
    <2> QED
      BY <2>1, <2>2, <2>3 DEF Ids
  <1>3. CASE \E b \in Blocks : PlainReady(b) /\ id = <<b, 0>>
    BY <1>1, <1>3
  <1>4. CASE \E p \in Parallels : Active(p) /\ \E i \in Iterations(p) : id \in IterationReady(p, i)
    <2>1. PICK p \in Parallels : Active(p) /\ \E i \in Iterations(p) : id \in IterationReady(p, i)
      BY <1>4
    <2>2. PICK i \in Iterations(p) : id \in IterationReady(p, i)
      BY <2>1
    <2> QED
      BY <1>2, <2>1, <2>2, Places
  <1> QED
    BY <1>3, <1>4 DEF NextLayer

\* A container has one block, which is plain.
LEMMA ContainerIsPlain ==
    ASSUME Drawn, NEW id \in NextLayer, id[1] \in Containers
    PROVE  id = <<id[1], 0>> /\ PlainReady(id[1])
  BY MayRunNext, Places

\* Nothing runs inside a loop that is not on the path.
LEMMA IdleLoopRests ==
    ASSUME Drawn, NEW l \in Loops, Idle(l), NEW id \in NextLayer
    PROVE  id[1] \notin flow.nodes[l]
  <1> SUFFICES ASSUME id[1] \in flow.nodes[l]
               PROVE  FALSE
    OBVIOUS
  <1>1. CASE PlainReady(id[1])
    BY <1>1 DEF PlainReady, Idle
  <1>2. ASSUME NEW p \in Parallels, id[1] \in flow.nodes[p]
        PROVE  FALSE
    BY <1>2, Places DEF Drawn
  <1> QED
    BY <1>1, <1>2, MayRunNext

\* A block of a loop is plain, and runs when it is on the path.
LEMMA LoopBlockIsPlain ==
    ASSUME Drawn, NEW l \in Loops, NEW id \in NextLayer, id[1] \in flow.nodes[l]
    PROVE  id = <<id[1], 0>> /\ id[1] \in path
  <1>1. ASSUME NEW p \in Parallels, id[1] \in flow.nodes[p]
        PROVE  FALSE
    BY <1>1, Places DEF Drawn
  <1> QED
    BY <1>1, MayRunNext DEF PlainReady

\* The words by which a container answers.
LEMMA Answer ==
    ASSUME Drawn, NEW id \in Ids, NEW a \in Outcomes(id)
    PROVE  /\ a = "go" => id[1] \in Loops /\ ~(Counted(id[1]) /\ Exhausted(id[1]))
           /\ a = "stop" => id[1] \in Loops /\ (Counted(id[1]) => Exhausted(id[1]))
           /\ a = "open" => id[1] \in Parallels /\ id[1] \notin opened
           /\ a = "close" => /\ id[1] \in Parallels /\ id[1] \in opened
                             /\ AllIterationsComplete(id[1])
           /\ a = "pause" => id[1] \notin Containers
           /\ id[1] \in Loops => a \in {"go", "stop", "error"}
           /\ id[1] \in Parallels => a \in {"open", "close", "wait", "error"}
           /\ flow.kind[id[1]] = "router" => a = "error" \/ \E w \in OutOf(id[1]) : a = w.to
  <1> DEFINE b == id[1]
  <1> b \in Blocks
    BY Places
  <1> HIDE DEF b
  <1>0. b = id[1]
    BY DEF b
  <1>1. \A c \in {"loop", "parallel"} : flow.kind[b] = c => b \in Containers
    BY DEF Drawn, FlowControl
  <1>2. /\ b \in Loops <=> flow.kind[b] = "loop"
        /\ b \in Parallels <=> flow.kind[b] = "parallel"
        /\ b \in Containers <=> flow.kind[b] \in {"loop", "parallel"}
    BY <1>1 DEF Drawn, Loops, Parallels, FlowControl
  <1>3. CASE flow.kind[b] = "trigger"
    BY <1>0, <1>2, <1>3 DEF Outcomes
  <1>4. CASE flow.kind[b] = "regular"
    BY <1>0, <1>2, <1>4 DEF Outcomes
  <1>5. CASE flow.kind[b] = "approval"
    BY <1>0, <1>2, <1>5 DEF Outcomes
  <1>6. CASE flow.kind[b] = "condition"
    <2>1. a = "error" \/ a = None \/ \E w \in OutOf(b) : a = w.handle
      BY <1>0, <1>6 DEF Outcomes
    <2>2. a = "error" \/ a \notin Words
      BY <2>1, <1>6 DEF Drawn, OutOf
    <2> QED
      BY <1>0, <1>2, <1>6, <2>2 DEF Words
  <1>7. CASE flow.kind[b] = "router"
    <2>1. a = "error" \/ \E w \in OutOf(b) : a = w.to
      BY <1>0, <1>7 DEF Outcomes
    <2>2. a = "error" \/ a \notin Words
      BY <2>1 DEF Drawn, OutOf
    <2> QED
      BY <1>0, <1>2, <1>7, <2>1, <2>2 DEF Words
  <1>8. CASE flow.kind[b] = "parallel"
    BY <1>0, <1>2, <1>8 DEF Outcomes
  <1>9. CASE flow.kind[b] = "loop"
    BY <1>0, <1>2, <1>9 DEF Outcomes
  <1> QED
    BY <1>3, <1>4, <1>5, <1>6, <1>7, <1>8, <1>9 DEF Drawn

-----------------------------------------------------------------------------
(* What a layer does *)

Ran(r) == {id \in NextLayer : r[id] # "pause"}
Saying(r, a) == {c \in Containers : <<c, 0>> \in NextLayer /\ r[<<c, 0>>] = a}
Repeated(r) == UNION {flow.nodes[l] : l \in {k \in Saying(r, "go") : ~Counted(k)}}

LEMMA Given ==
    ASSUME Drawn, NEW r \in Answers
    PROVE  /\ DOMAIN r = NextLayer
           /\ \A id \in NextLayer : id \in Ids /\ r[id] \in Outcomes(id)
           /\ \A a \in {"go", "stop", "open", "close"} :
                 {id[1] : id \in {i \in NextLayer : r[i] = a}} = Saying(r, a)
           /\ Saying(r, "go") \subseteq Loops /\ Saying(r, "stop") \subseteq Loops
           /\ Saying(r, "open") \subseteq Parallels /\ Saying(r, "close") \subseteq Parallels
  <1>1. DOMAIN r = NextLayer /\ \A id \in NextLayer : r[id] \in Outcomes(id)
    BY DEF Answers
  <1>2. \A id \in NextLayer : id \in Ids
    BY MayRunNext
  <1>3. ASSUME NEW a \in {"go", "stop", "open", "close"}, NEW id \in NextLayer, r[id] = a
        PROVE  id[1] \in Saying(r, a)
    <2>1. id[1] \in Containers
      BY <1>1, <1>2, <1>3, Answer, Places
    <2>2. id = <<id[1], 0>>
      BY <2>1, ContainerIsPlain
    <2> QED
      BY <1>3, <2>1, <2>2 DEF Saying
  <1>4. ASSUME NEW a, NEW c \in Saying(r, a)
        PROVE  \E id \in NextLayer : r[id] = a /\ c = id[1]
    BY DEF Saying
  <1>5. \A a \in {"go", "stop", "open", "close"} :
           {id[1] : id \in {i \in NextLayer : r[i] = a}} = Saying(r, a)
    BY <1>3, <1>4
  <1>6. ASSUME NEW a, NEW c \in Saying(r, a)
        PROVE  a \in Outcomes(<<c, 0>>) /\ <<c, 0>> \in Ids
    BY <1>1, <1>2 DEF Saying
  <1>7. /\ \A c \in Saying(r, "go") : c \in Loops
        /\ \A c \in Saying(r, "stop") : c \in Loops
        /\ \A c \in Saying(r, "open") : c \in Parallels
        /\ \A c \in Saying(r, "close") : c \in Parallels
    <2>1. \A c, a : a \in Outcomes(<<c, 0>>) /\ <<c, 0>> \in Ids =>
             /\ a \in {"go", "stop"} => c \in Loops
             /\ a \in {"open", "close"} => c \in Parallels
      BY Answer
    <2> QED
      BY <1>6, <2>1
  <1> QED
    BY <1>1, <1>2, <1>5, <1>7

\* The context after a layer, but for the active path.
LEMMA Effect ==
    ASSUME Drawn, NEW r \in Answers, RunLayer(r)
    PROVE  /\ flow' = flow /\ pc' = "settled" /\ layers' = layers
           /\ executed' = (executed \ Plain(Repeated(r))) \cup Ran(r)
           /\ failed' = (failed \ (Plain(Repeated(r)) \cup Ran(r)))
                           \cup {id \in NextLayer : r[id] = "error"}
           /\ DOMAIN choice' = Ids
           /\ \A id \in Ids : id \notin Plain(Repeated(r)) \cup Ran(r) => choice'[id] = choice[id]
           /\ round' = [c \in Containers |->
                 IF <<c, 0>> \in NextLayer /\ c \in Loops /\ round[c] = 0 THEN 1 ELSE round[c]]
           /\ kept' = kept \cup {l \in Loops : <<l, 0>> \in NextLayer}
           /\ opened' = opened \cup Saying(r, "open")
           /\ done' = done \cup Saying(r, "stop") \cup Saying(r, "close")
           /\ asked' \subseteq NextLayer /\ answered' \subseteq answered
           /\ runs' = [id \in Ids |-> IF id \in Ran(r) THEN runs[id] + 1 ELSE runs[id]]
           /\ \A id \in NextLayer : id[1] \in Containers => r[id] # "error"
  <1>1. Ran(r) = DOMAIN r \ {id \in DOMAIN r : r[id] = "pause"}
    BY Given DEF Ran
  <1>2. {id[1] : id \in {i \in DOMAIN r : r[i] = "go"}} = Saying(r, "go")
    BY Given
  <1>3. {id[1] : id \in {i \in DOMAIN r : r[i] = "stop"}} = Saying(r, "stop")
    BY Given
  <1>4. {id[1] : id \in {i \in DOMAIN r : r[i] = "open"}} = Saying(r, "open")
    BY Given
  <1>5. {id[1] : id \in {i \in DOMAIN r : r[i] = "close"}} = Saying(r, "close")
    BY Given
  <1>6. DOMAIN r = NextLayer
    BY Given
  <1>7. Plain(Repeated(r)) = Plain(UNION {flow.nodes[l] : l \in
            {k \in {id[1] : id \in {i \in DOMAIN r : r[i] = "go"}} : ~Counted(k)}})
    BY <1>2 DEF Repeated
  <1>8. flow' = flow /\ pc' = "settled" /\ layers' = layers /\ ~Unhandled(r)
    BY DEF RunLayer
  <1>9. executed' = (executed \ Plain(Repeated(r))) \cup Ran(r)
    BY <1>1, <1>7 DEF RunLayer
  <1>10. failed' = (failed \ (Plain(Repeated(r)) \cup Ran(r)))
                      \cup {id \in NextLayer : r[id] = "error"}
    BY <1>1, <1>6, <1>7 DEF RunLayer
  <1>11. /\ DOMAIN choice' = Ids
         /\ \A id \in Ids : id \notin Plain(Repeated(r)) \cup Ran(r) => choice'[id] = choice[id]
    BY <1>1, <1>7 DEF RunLayer
  <1>12. /\ round' = [c \in Containers |->
               IF <<c, 0>> \in NextLayer /\ c \in Loops /\ round[c] = 0 THEN 1 ELSE round[c]]
         /\ kept' = kept \cup {l \in Loops : <<l, 0>> \in NextLayer}
    BY <1>6 DEF RunLayer
  <1>13. opened' = opened \cup Saying(r, "open")
    BY <1>4 DEF RunLayer
  <1>14. done' = done \cup Saying(r, "stop") \cup Saying(r, "close")
    BY <1>3, <1>5 DEF RunLayer
  <1>15. asked' \subseteq NextLayer /\ answered' \subseteq answered
    BY <1>6 DEF RunLayer
  <1>16. runs' = [id \in Ids |-> IF id \in Ran(r) THEN runs[id] + 1 ELSE runs[id]]
    BY <1>1 DEF RunLayer
  <1>17. \A id \in NextLayer : id[1] \in Containers => r[id] # "error"
    BY <1>6, <1>8 DEF Unhandled, Drawn
  <1> QED
    BY <1>8, <1>9, <1>10, <1>11, <1>12, <1>13, <1>14, <1>15, <1>16, <1>17

\* The active path before the blocks of the layer open theirs: what failed, began
\* or ended has its targets on it, a pass that begins anew and a loop that ends
\* have their blocks off it.
Erring(r) == UNION {Behind(b, "error") : b \in {id[1] : id \in {i \in NextLayer : r[i] = "error"}}}
Begun(r) == UNION {Behind(c, "start") : c \in Saying(r, "go") \cup Saying(r, "open")}
Ended(r) == UNION {Behind(c, "end") : c \in Saying(r, "stop") \cup Saying(r, "close")}
Closed(r) == UNION {Behind(l, "start") : l \in Saying(r, "stop")}
Marked(r) == (path \cup Erring(r) \cup Begun(r) \cup Ended(r)) \ (Repeated(r) \cup Closed(r))

LEMMA PathRuns ==
    ASSUME Drawn, NEW r \in Answers, RunLayer(r)
    PROVE  path' = Opened(r, Ran(r), Marked(r))
  <1>1. Ran(r) = DOMAIN r \ {id \in DOMAIN r : r[id] = "pause"}
    BY Given DEF Ran
  <1>2. DOMAIN r = NextLayer
    BY Given
  <1>3. {id[1] : id \in {i \in DOMAIN r : r[i] = "go"}} = Saying(r, "go")
    BY Given
  <1>4. {id[1] : id \in {i \in DOMAIN r : r[i] = "stop"}} = Saying(r, "stop")
    BY Given
  <1>5. {id[1] : id \in {i \in DOMAIN r : r[i] = "open"}} = Saying(r, "open")
    BY Given
  <1>6. {id[1] : id \in {i \in DOMAIN r : r[i] = "close"}} = Saying(r, "close")
    BY Given
  <1> QED
    BY <1>1, <1>2, <1>3, <1>4, <1>5, <1>6 DEF RunLayer, Repeated, Marked, Erring, Begun, Ended, Closed

\* The active path never leaves a set of blocks that no connection leaves which
\* the layer, or what it activates, may follow.
LEMMA PathStaysIn ==
    ASSUME Drawn, NEW r \in Answers, RunLayer(r),
           NEW Z \in SUBSET Blocks, path \subseteq Z,
           \A x \in Z : ~FlowControl(x) => \A w \in OutOf(x) : ~Skipped(w) => w.to \in Z,
           \A id \in Ran(r) : \A w \in OutOf(id[1]) :
              \/ w.to \in Z
              \/ /\ id[1] \in Containers
                 /\ \/ w.handle = "start" /\ r[id] \notin {"go", "open"}
                    \/ w.handle = "end" /\ r[id] \notin {"stop", "close"}
    PROVE  path' \subseteq Z
  <1>1. path' = Opened(r, Ran(r), Marked(r))
    BY PathRuns
  <1>2. ASSUME NEW id \in Ran(r), NEW w \in OutOf(id[1]),
               id[1] \in Containers => /\ w.handle = "start" => r[id] \in {"go", "open"}
                                       /\ w.handle = "end" => r[id] \in {"stop", "close"}
        PROVE  w.to \in Z
    BY <1>2
  <1>3. Marked(r) \subseteq Z
    <2>1. Erring(r) \subseteq Z
      <3> SUFFICES ASSUME NEW id \in NextLayer, r[id] = "error", NEW w \in OutOf(id[1]), w.handle = "error"
                   PROVE  w.to \in Z
        BY DEF Behind, Erring
      <3> QED
        BY <1>2 DEF Ran
    <2>2. Begun(r) \subseteq Z
      <3>1. ASSUME NEW c \in Saying(r, "go") \cup Saying(r, "open")
            PROVE  Behind(c, "start") \subseteq Z
        <4>1. <<c, 0>> \in Ran(r) /\ r[<<c, 0>>] \in {"go", "open"}
          BY DEF Saying, Ran
        <4>2. \A w \in OutOf(c) : w.handle = "start" => w.to \in Z
          BY <1>2, <4>1
        <4> QED
          BY <4>2 DEF Behind
      <3> QED
        BY <3>1 DEF Begun
    <2>3. Ended(r) \subseteq Z
      <3>1. ASSUME NEW c \in Saying(r, "stop") \cup Saying(r, "close")
            PROVE  Behind(c, "end") \subseteq Z
        <4>1. <<c, 0>> \in Ran(r) /\ r[<<c, 0>>] \in {"stop", "close"}
          BY DEF Saying, Ran
        <4>2. \A w \in OutOf(c) : w.handle = "end" => w.to \in Z
          BY <1>2, <4>1
        <4> QED
          BY <4>2 DEF Behind
      <3> QED
        BY <3>1 DEF Ended
    <2> QED
      BY <2>1, <2>2, <2>3 DEF Marked
  <1>4. ASSUME NEW b \in Z, NEW p
        PROVE  Selected(b, p) \subseteq Z
    <2> DEFINE next(q) == [c \in Blocks |->
            IF FlowControl(c) THEN {}
            ELSE {w.to : w \in {v \in OutOf(c) : ~Skipped(v) /\ v.to \notin q}}]
    <2>1. ASSUME NEW q
          PROVE  Downstream(b, q) \subseteq Z
      <3>1. \A c \in Z : next(q)[c] \subseteq Z
        OBVIOUS
      <3> HIDE DEF next
      <3>2. Closure({b}, next(q)) \subseteq Z
        BY <3>1, ClosureStays DEF Drawn
      <3> QED
        BY <3>2 DEF Downstream, next
    <2> QED
      BY <2>1 DEF Selected
  <1>5. ASSUME NEW id \in Ran(r), NEW p
        PROVE  Activated(id[1], r[id], p) \subseteq Z
    <2> id \in NextLayer /\ id \in Ids /\ r[id] \in Outcomes(id) /\ id[1] \in Blocks
      BY Given, Places DEF Ran
    <2>1. CASE flow.kind[id[1]] = "loop"
      BY <1>2, <2>1 DEF Activated, Behind
    <2>2. CASE flow.kind[id[1]] = "condition"
      <3>1. id[1] \notin Containers
        BY <2>2 DEF Drawn, FlowControl
      <3>2. \A b \in Behind(id[1], r[id]) : b \in Z
        BY <1>2, <3>1 DEF Behind
      <3>3. Activated(id[1], r[id], p) = UNION {Selected(c, p) : c \in Behind(id[1], r[id])}
        BY <2>2 DEF Activated
      <3> QED
        BY <1>4, <3>2, <3>3
    <2>3. CASE flow.kind[id[1]] = "router"
      <3>1. id[1] \notin Containers
        BY <2>3 DEF Drawn, FlowControl
      <3>2. r[id] = "error" \/ r[id] \in Z
        BY <1>2, <2>3, <3>1, Answer
      <3>3. Activated(id[1], r[id], p) = IF r[id] = "error" THEN {} ELSE Selected(r[id], p)
        BY <2>3 DEF Activated
      <3> QED
        BY <1>4, <3>2, <3>3
    <2>4. CASE flow.kind[id[1]] \notin {"loop", "condition", "router"}
      <3>1. \A w \in OutOf(id[1]) : Follows(w, r[id] = "error") => w.handle \notin {"start", "end"}
        BY DEF Follows, Skipped
      <3> QED
        BY <1>2, <2>4, <3>1 DEF Activated
    <2> QED
      BY <2>1, <2>2, <2>3, <2>4
  <1>6. Opened(r, Ran(r), Marked(r)) \subseteq Z
    BY <1>3, <1>5, OpenedStays DEF Drawn
  <1> QED
    BY <1>1, <1>6

-----------------------------------------------------------------------------
(* A layer keeps the invariant *)

\* A container stays off the path while none of its blocks runs and it is not
\* entered.
LEMMA IdleStays ==
    ASSUME Drawn, path \subseteq Blocks, NEW r \in Answers, RunLayer(r),
           NEW c \in Containers, Idle(c),
           \A id \in Ran(r) : id[1] \notin flow.nodes[c],
           c \notin Saying(r, "go") \cup Saying(r, "open")
    PROVE  Idle(c)'
  <1> DEFINE Z == Blocks \ flow.nodes[c]
  <1>1. path \subseteq Z
    BY DEF Idle
  <1>2. ASSUME NEW x \in Z, NEW w \in OutOf(x), w.to \notin Z
        PROVE  x = c /\ w.handle = "start"
    BY <1>2 DEF Drawn, OutOf
  <1>3. \A x \in Z : ~FlowControl(x) => \A w \in OutOf(x) : ~Skipped(w) => w.to \in Z
    BY <1>2, Places
  <1>4. ASSUME NEW id \in Ran(r), NEW w \in OutOf(id[1]), w.to \notin Z
        PROVE  id[1] \in Containers /\ w.handle = "start" /\ r[id] \notin {"go", "open"}
    <2>1. id \in NextLayer /\ id[1] \in Z
      BY MayRunNext DEF Ran
    <2>2. id[1] = c /\ w.handle = "start"
      BY <1>2, <1>4, <2>1
    <2>3. id = <<c, 0>>
      BY <2>1, <2>2, ContainerIsPlain
    <2> QED
      BY <2>1, <2>2, <2>3 DEF Saying
  <1> HIDE DEF Z
  <1>5. path' \subseteq Z
    <2>1. Z \in SUBSET Blocks
      BY DEF Z
    <2> QED
      BY <1>1, <1>3, <1>4, <2>1, PathStaysIn
  <1>6. flow' = flow
    BY Effect
  <1> QED
    BY <1>5, <1>6 DEF Z, Idle

\* Complete iterations stay complete while their blocks keep what they did.
LEMMA CompleteStays ==
    ASSUME flow' = flow, NEW p \in Parallels, AllIterationsComplete(p),
           \A b \in flow.nodes[p] : \A i \in Iterations(p) :
              /\ <<b, i>> \in executed' <=> <<b, i>> \in executed
              /\ choice'[<<b, i>>] = choice[<<b, i>>]
    PROVE  AllIterationsComplete(p)'
  <1>1. Iterations(p)' = Iterations(p) /\ \A b : Into(b)' = Into(b)
    BY DEF Iterations, Into
  <1>2. ASSUME NEW i \in Iterations(p), NEW b \in flow.nodes[p], Reached(b, p, i)'
        PROVE  Reached(b, p, i)
    BY <1>1, <1>2 DEF Reached
  <1>3. ASSUME NEW i \in Iterations(p)
        PROVE  Missing(p, i)' \subseteq Missing(p, i)
    BY <1>2 DEF Missing
  <1> QED
    BY <1>1, <1>3 DEF AllIterationsComplete, IterationComplete

LEMMA LayerType ==
    ASSUME Drawn, IInv, pc = "layer", layers < LayerLimit, NEW r \in Answers, RunLayer(r)
    PROVE  TypeOK' /\ Room' /\ BlocksFailed'
  <1> TypeOK
    BY DEF IInv
  <1>1. /\ flow' = flow /\ pc' = "settled" /\ layers' = layers
        /\ executed' = (executed \ Plain(Repeated(r))) \cup Ran(r)
        /\ failed' = (failed \ (Plain(Repeated(r)) \cup Ran(r)))
                        \cup {id \in NextLayer : r[id] = "error"}
        /\ DOMAIN choice' = Ids
        /\ round' = [c \in Containers |->
              IF <<c, 0>> \in NextLayer /\ c \in Loops /\ round[c] = 0 THEN 1 ELSE round[c]]
        /\ kept' = kept \cup {l \in Loops : <<l, 0>> \in NextLayer}
        /\ opened' = opened \cup Saying(r, "open")
        /\ done' = done \cup Saying(r, "stop") \cup Saying(r, "close")
        /\ asked' \subseteq NextLayer /\ answered' \subseteq answered
        /\ runs' = [id \in Ids |-> IF id \in Ran(r) THEN runs[id] + 1 ELSE runs[id]]
        /\ \A id \in NextLayer : id[1] \in Containers => r[id] # "error"
    BY Effect
  <1>2. /\ Blocks' = Blocks /\ Containers' = Containers /\ Loops' = Loops
        /\ Parallels' = Parallels /\ Ids' = Ids
    BY <1>1, Fixed
  <1>3. NextLayer \subseteq Ids /\ Ran(r) \subseteq Ids
    BY MayRunNext DEF Ran
  <1>4. path' \subseteq Blocks
    BY PathStaysIn DEF TypeOK, Drawn, OutOf
  <1>5. failed' \subseteq executed'
    <2>1. {id \in NextLayer : r[id] = "error"} \subseteq Ran(r)
      BY DEF Ran
    <2> QED
      BY <1>1, <2>1 DEF TypeOK
  <1>6. round' \in [Containers -> Nat] /\ runs' \in [Ids -> Nat]
    BY <1>1 DEF TypeOK
  <1>7. opened' \subseteq Parallels /\ done' \subseteq Containers /\ kept' \subseteq Loops
    BY <1>1, Given, Places DEF TypeOK
  <1>8. TypeOK'
    BY <1>1, <1>2, <1>3, <1>4, <1>5, <1>6, <1>7 DEF TypeOK
  <1>9. Room'
    BY <1>1 DEF Room
  <1>10. BlocksFailed'
    <2>1. \A id \in failed' : ~FlowControl(id[1])
      BY <1>1, <1>3, Places DEF IInv, BlocksFailed
    <2> QED
      BY <1>1, <2>1 DEF BlocksFailed, FlowControl
  <1> QED
    BY <1>8, <1>9, <1>10

LEMMA LayerRanOnce ==
    ASSUME Drawn, IInv, NEW r \in Answers, RunLayer(r)
    PROVE  RanOnce'
  <1>1. /\ flow' = flow
        /\ executed' = (executed \ Plain(Repeated(r))) \cup Ran(r)
        /\ runs' = [id \in Ids |-> IF id \in Ran(r) THEN runs[id] + 1 ELSE runs[id]]
    BY Effect
  <1>2. Ids' = Ids /\ Loops' = Loops
    BY <1>1, Fixed
  <1>3. ASSUME NEW id \in Ids, ~FlowControl(id[1]), Around(id[1], Loops) = {}
        PROVE  runs'[id] = IF id \in executed' THEN 1 ELSE 0
    <2>1. runs[id] = IF id \in executed THEN 1 ELSE 0
      BY <1>3 DEF IInv, RanOnce
    <2>2. id \notin Plain(Repeated(r))
      BY <1>3, Given DEF Plain, Repeated, Around
    <2>3. id \in Ran(r) => id \notin executed
      BY MayRunNext DEF Ran
    <2> QED
      BY <1>1, <2>1, <2>2, <2>3
  <1> QED
    BY <1>1, <1>2, <1>3 DEF RanOnce, FlowControl, Around

LEMMA LayerParallel ==
    ASSUME Drawn, IInv, NEW r \in Answers, RunLayer(r), NEW p \in Parallels
    PROVE  ParallelOK(p)'
  <1> ParallelOK(p) /\ path \subseteq Blocks
    BY DEF IInv, TypeOK
  <1> p \in Containers /\ p \notin Loops
    BY Places
  <1>1. /\ flow' = flow
        /\ executed' = (executed \ Plain(Repeated(r))) \cup Ran(r)
        /\ \A id \in Ids : id \notin Plain(Repeated(r)) \cup Ran(r) => choice'[id] = choice[id]
        /\ opened' = opened \cup Saying(r, "open")
        /\ done' = done \cup Saying(r, "stop") \cup Saying(r, "close")
    BY Effect
  <1>2. \A x \in Repeated(r) : \E l \in Loops : x \in flow.nodes[l]
    BY Given DEF Repeated
  <1>3. <<p, 0>> \notin Plain(Repeated(r))
    BY <1>2, Places DEF Plain
  <1>4. \A b \in flow.nodes[p] : <<b, 0>> \notin NextLayer
    <2> SUFFICES ASSUME NEW b \in flow.nodes[p], <<b, 0>> \in NextLayer
                 PROVE  FALSE
      OBVIOUS
    <2>1. CASE PlainReady(b)
      <3>1. b \in path /\ ~Active(p)
        BY <2>1 DEF PlainReady, Around
      <3> QED
        BY <3>1 DEF ParallelOK, Idle
    <2>2. ASSUME NEW q \in Parallels, NEW i \in Iterations(q), <<b, 0>> = <<b, i>>
          PROVE  FALSE
      BY <2>2 DEF Iterations
    <2> QED
      BY <2>1, <2>2, MayRunNext
  <1>5. ASSUME NEW id \in NextLayer, id[1] \in flow.nodes[p]
        PROVE  Active(p) /\ <<p, 0>> \in executed /\ ~AllIterationsComplete(p)
    <2>1. PICK q \in Parallels : \E i \in Iterations(q) :
              /\ Active(q) /\ id[1] \in flow.nodes[q]
              /\ id = <<id[1], i>> /\ id[1] \in Missing(q, i)
      <3>1. id # <<id[1], 0>>
        BY <1>4, <1>5
      <3> QED
        BY <3>1, MayRunNext
    <2>2. q = p
      BY <1>5, <2>1, Places DEF Drawn
    <2>3. ~AllIterationsComplete(p)
      BY <2>1, <2>2 DEF AllIterationsComplete, IterationComplete
    <2> QED
      BY <2>1, <2>2, <2>3 DEF ParallelOK, Active
  <1>6. \A b \in flow.nodes[p] : \A i \in Iterations(p) :
           /\ <<b, i>> \in Ids
           /\ <<b, i>> \notin Plain(Repeated(r))
    BY DEF Ids, Virtual, Plain, Iterations
  <1>7. p \in Saying(r, "open") => p \notin opened
    BY Given, Answer DEF Saying
  <1>8. p \in Saying(r, "close") => p \in opened /\ AllIterationsComplete(p)
    BY Given, Answer DEF Saying
  <1>9. p \notin Saying(r, "stop") /\ p \notin Saying(r, "go")
    BY Given
  <1>10. \A a : a # "pause" /\ p \in Saying(r, a) => <<p, 0>> \in executed' /\ <<p, 0>> \notin executed
    BY <1>1, MayRunNext DEF Saying, Ran
  <1>11. <<p, 0>> \in executed => <<p, 0>> \in executed'
    BY <1>1, <1>3
  <1>12. ASSUME ~Idle(p)'
         PROVE  Active(p)' /\ <<p, 0>> \in executed'
    <2>1. CASE p \in Saying(r, "open")
      <3>1. p \notin done
        BY <1>7, <2>1 DEF ParallelOK
      <3>2. p \notin Saying(r, "close")
        BY <2>1 DEF Saying
      <3> QED
        BY <1>1, <1>9, <1>10, <2>1, <3>1, <3>2 DEF Active
    <2>2. CASE p \notin Saying(r, "open")
      <3>1. Active(p) /\ <<p, 0>> \in executed
        <4>1. CASE \E id \in Ran(r) : id[1] \in flow.nodes[p]
          BY <1>5, <4>1 DEF Ran
        <4>2. CASE \A id \in Ran(r) : id[1] \notin flow.nodes[p]
          <5>1. ~Idle(p)
            BY <1>9, <1>12, <2>2, <4>2, IdleStays
          <5> QED
            BY <5>1 DEF ParallelOK
        <4> QED
          BY <4>1, <4>2
      <3>2. p \notin Saying(r, "close")
        BY <1>10, <3>1
      <3> QED
        BY <1>1, <1>9, <1>11, <3>1, <3>2 DEF Active
    <2> QED
      BY <2>1, <2>2
  <1>13. p \in done' => p \in opened'
    BY <1>1, <1>8, <1>9 DEF ParallelOK
  <1>14. ASSUME p \in opened', <<p, 0>> \notin executed' \/ p \in done'
         PROVE  AllIterationsComplete(p)'
    <2>1. AllIterationsComplete(p)
      <3>1. CASE p \in Saying(r, "close")
        BY <1>8, <3>1
      <3>2. CASE p \notin Saying(r, "close")
        <4>1. <<p, 0>> \notin executed' => <<p, 0>> \notin executed
          BY <1>11
        <4>2. p \in Saying(r, "open") => <<p, 0>> \in executed' /\ p \notin done
          BY <1>7, <1>10 DEF ParallelOK
        <4> QED
          BY <1>1, <1>9, <1>14, <3>2, <4>1, <4>2 DEF ParallelOK
      <3> QED
        BY <3>1, <3>2
    <2>2. ASSUME NEW b \in flow.nodes[p], NEW i \in Iterations(p)
          PROVE  /\ <<b, i>> \in executed' <=> <<b, i>> \in executed
                 /\ choice'[<<b, i>>] = choice[<<b, i>>]
      <3>1. <<b, i>> \notin Ran(r)
        BY <1>5, <2>1 DEF Ran
      <3> QED
        BY <1>1, <1>6, <3>1
    <2> QED
      BY <1>1, <2>1, <2>2, CompleteStays
  <1>15. \A b \in flow.nodes[p] : <<b, 0>> \notin executed'
    BY <1>1, <1>4 DEF ParallelOK, Ran
  <1> QED
    BY <1>1, <1>12, <1>13, <1>14, <1>15 DEF ParallelOK

\* What a layer does to a loop: its block is not in the layer, begins a pass, or
\* ends the loop.
Rests(l, r) ==
    /\ l \notin Saying(r, "go") /\ round'[l] = round[l]
    /\ l \in done' <=> l \in done
    /\ <<l, 0>> \in executed' <=> <<l, 0>> \in executed
    /\ l \in kept' <=> l \in kept

Begins(l, r) ==
    /\ l \in Saying(r, "go") /\ <<l, 0>> \notin executed /\ l \notin done
    /\ l \notin done' /\ <<l, 0>> \in executed' /\ l \in kept' /\ ~(Counted(l) /\ Exhausted(l))
    /\ round'[l] = IF round[l] = 0 THEN 1 ELSE round[l]

Ends(l, r) ==
    /\ l \notin Saying(r, "go") /\ <<l, 0>> \notin executed /\ l \notin done
    /\ l \in done' /\ <<l, 0>> \in executed' /\ l \in kept' /\ (Counted(l) => Exhausted(l))
    /\ round'[l] = IF round[l] = 0 THEN 1 ELSE round[l]

LEMMA LoopTurn ==
    ASSUME Drawn, TypeOK, NEW r \in Answers, RunLayer(r), NEW l \in Loops, CountOK(l)
    PROVE  Rests(l, r) \/ Begins(l, r) \/ Ends(l, r)
  <1> l \in Containers /\ l \notin Parallels
    BY Places
  <1>1. /\ executed' = (executed \ Plain(Repeated(r))) \cup Ran(r)
        /\ round' = [c \in Containers |->
              IF <<c, 0>> \in NextLayer /\ c \in Loops /\ round[c] = 0 THEN 1 ELSE round[c]]
        /\ kept' = kept \cup {k \in Loops : <<k, 0>> \in NextLayer}
        /\ done' = done \cup Saying(r, "stop") \cup Saying(r, "close")
        /\ \A id \in NextLayer : id[1] \in Containers => r[id] # "error"
    BY Effect
  <1>2. l \notin Saying(r, "close")
    BY Given
  <1>3. <<l, 0>> \notin Plain(Repeated(r))
    <2>1. \A x \in Repeated(r) : \E k \in Loops : x \in flow.nodes[k]
      BY Given DEF Repeated
    <2> QED
      BY <2>1, Places DEF Plain
  <1>4. CASE <<l, 0>> \notin NextLayer
    BY <1>1, <1>2, <1>3, <1>4 DEF Rests, Saying, Ran
  <1>5. CASE <<l, 0>> \in NextLayer
    <2>1. r[<<l, 0>>] \in Outcomes(<<l, 0>>) /\ <<l, 0>> \in Ids /\ <<l, 0>>[1] = l
      BY <1>5, Given
    <2>2. r[<<l, 0>>] \in {"go", "stop", "error"} /\ r[<<l, 0>>] # "error"
      BY <1>1, <1>5, <2>1, Answer
    <2>3. <<l, 0>> \notin executed /\ l \notin done
      BY <1>5, MayRunNext DEF CountOK
    <2>4. <<l, 0>> \in executed'
      BY <1>1, <1>5, <2>2 DEF Ran
    <2>5. CASE r[<<l, 0>>] = "go"
      BY <1>1, <1>2, <1>5, <2>1, <2>3, <2>4, <2>5, Answer DEF Begins, Saying
    <2>6. CASE r[<<l, 0>>] = "stop"
      BY <1>1, <1>2, <1>5, <2>1, <2>3, <2>4, <2>6, Answer DEF Ends, Saying
    <2> QED
      BY <2>2, <2>5, <2>6
  <1> QED
    BY <1>4, <1>5

\* What a layer does to the blocks of a loop.
LEMMA LoopBlocks ==
    ASSUME Drawn, TypeOK, NEW r \in Answers, RunLayer(r), NEW l \in Loops
    PROVE  /\ \A b \in flow.nodes[l] :
                 /\ runs[<<b, 0>>] \in Nat
                 /\ <<b, 0>> \in Ran(r) => <<b, 0>> \notin executed /\ ~Idle(l)
                 /\ runs'[<<b, 0>>] = IF <<b, 0>> \in Ran(r) THEN runs[<<b, 0>>] + 1 ELSE runs[<<b, 0>>]
                 /\ <<b, 0>> \in executed' <=>
                       \/ <<b, 0>> \in Ran(r)
                       \/ <<b, 0>> \in executed /\ ~(l \in Saying(r, "go") /\ ~Counted(l))
           /\ Idle(l) /\ l \notin Saying(r, "go") => Idle(l)'
  <1> l \in Containers /\ l \notin Parallels
    BY Places
  <1>1. /\ executed' = (executed \ Plain(Repeated(r))) \cup Ran(r)
        /\ runs' = [id \in Ids |-> IF id \in Ran(r) THEN runs[id] + 1 ELSE runs[id]]
    BY Effect
  <1>2. ASSUME NEW b \in flow.nodes[l]
        PROVE  b \in Repeated(r) <=> l \in Saying(r, "go") /\ ~Counted(l)
    <2>1. \A k \in Saying(r, "go") : b \in flow.nodes[k] => k = l
      BY <1>2, Given, Places DEF Drawn
    <2> QED
      BY <1>2, <2>1 DEF Repeated
  <1>3. ASSUME NEW b \in flow.nodes[l]
        PROVE  /\ <<b, 0>> \in Ids /\ runs[<<b, 0>>] \in Nat
               /\ <<b, 0>> \in Plain(Repeated(r)) <=> l \in Saying(r, "go") /\ ~Counted(l)
    BY <1>2, <1>3, Places DEF Plain, TypeOK
  <1>4. ASSUME NEW b \in flow.nodes[l], <<b, 0>> \in Ran(r)
        PROVE  <<b, 0>> \notin executed /\ ~Idle(l)
    BY <1>4, MayRunNext, IdleLoopRests DEF Ran
  <1>5. ASSUME Idle(l), l \notin Saying(r, "go")
        PROVE  Idle(l)'
    <2>1. \A id \in Ran(r) : id[1] \notin flow.nodes[l]
      BY <1>5, IdleLoopRests DEF Ran
    <2>2. l \notin Saying(r, "open")
      BY Given
    <2> QED
      BY <1>5, <2>1, <2>2, IdleStays DEF TypeOK
  <1> QED
    BY <1>1, <1>3, <1>4, <1>5

\* The passes after a layer.
LEMMA PassesTurn ==
    ASSUME Drawn, TypeOK, NEW r \in Answers, NEW l \in Loops, CountOK(l), RunLayer(r)
    PROVE  /\ Passes(l) \in Nat
           /\ Rests(l, r) => Passes(l)' = Passes(l) /\ Pass(l)' = Pass(l)
           /\ Begins(l, r) => Passes(l)' = Passes(l) + 1 /\ Pass(l)' /\ ~Pass(l)
           /\ Ends(l, r) => Passes(l)' = Passes(l) /\ ~Pass(l)' /\ ~Pass(l)
  <1> round[l] \in Nat
    BY Places DEF TypeOK
  <1>1. Passes(l) \in Nat
    BY DEF Passes
  <1>2. Rests(l, r) => Passes(l)' = Passes(l) /\ Pass(l)' = Pass(l)
    BY DEF Rests, Passes, Pass
  <1>3. Begins(l, r) => Passes(l)' = Passes(l) + 1 /\ Pass(l)' /\ ~Pass(l)
    BY DEF Begins, Passes, Pass
  <1>4. Ends(l, r) => Passes(l)' = Passes(l) /\ ~Pass(l)' /\ ~Pass(l)
    BY DEF Ends, Passes, Pass
  <1> QED
    BY <1>1, <1>2, <1>3, <1>4

LEMMA LayerCount ==
    ASSUME Drawn, IInv, NEW r \in Answers, RunLayer(r), NEW l \in Loops
    PROVE  CountOK(l)'
  <1> TypeOK /\ CountOK(l)
    BY DEF IInv, LoopOK
  <1> round[l] \in Nat /\ flow.rounds[l] \in Nat
    BY Places DEF TypeOK
  <1>1. flow' = flow
    BY Effect
  <1>2. Counted(l)' = Counted(l)
    BY <1>1 DEF Counted
  <1>3. CASE Rests(l, r)
    <2>1. /\ Idle(l) => Idle(l)'
          /\ Idle(l) /\ Plain(flow.nodes[l]) \cap executed = {} => Plain(flow.nodes[l]) \cap executed' = {}
      BY <1>3, LoopBlocks DEF Rests, Plain
    <2>2. Pass(l)' = Pass(l)
      BY <1>3 DEF Rests, Pass
    <2>3. /\ l \in done' => <<l, 0>> \in executed'
          /\ <<l, 0>> \in executed' => round'[l] > 0 /\ l \in kept'
      BY <1>3 DEF Rests, CountOK
    <2>4. Counted(l) =>
            /\ round'[l] <= flow.rounds[l] + 1
            /\ round'[l] > flow.rounds[l] => l \in kept' /\ ~Pass(l)'
            /\ l \in done' => round'[l] > flow.rounds[l]
      BY <1>3, <2>2 DEF Rests, CountOK
    <2>5. Counted(l) /\ <<l, 0>> \notin executed' /\ round'[l] <= flow.rounds[l] =>
            Idle(l)' /\ Plain(flow.nodes[l]) \cap executed' = {}
      BY <1>3, <2>1 DEF Rests, CountOK
    <2> QED
      BY <1>1, <1>2, <2>3, <2>4, <2>5 DEF CountOK, Plain
  <1>4. CASE Begins(l, r)
    <2>1. /\ l \in done' => <<l, 0>> \in executed'
          /\ <<l, 0>> \in executed' => round'[l] > 0 /\ l \in kept'
      BY <1>4 DEF Begins
    <2>2. Counted(l) => round'[l] <= flow.rounds[l]
      BY <1>4 DEF Begins, CountOK, Exhausted, Counted
    <2> QED
      BY <1>1, <1>2, <1>4, <2>1, <2>2 DEF CountOK, Begins
  <1>5. CASE Ends(l, r)
    <2>1. /\ l \in done' => <<l, 0>> \in executed'
          /\ <<l, 0>> \in executed' => round'[l] > 0 /\ l \in kept'
      BY <1>5 DEF Ends
    <2>2. Counted(l) => round'[l] > flow.rounds[l] /\ round'[l] <= flow.rounds[l] + 1
      BY <1>5 DEF Ends, CountOK, Exhausted, Counted
    <2> QED
      BY <1>1, <1>2, <1>5, <2>1, <2>2 DEF CountOK, Ends, Pass
  <1> QED
    BY <1>3, <1>4, <1>5, LoopTurn

LEMMA LayerBlocks ==
    ASSUME Drawn, IInv, NEW r \in Answers, RunLayer(r), NEW l \in Loops
    PROVE  BlocksOK(l)'
  <1> TypeOK /\ CountOK(l) /\ BlocksOK(l)
    BY DEF IInv, LoopOK
  <1>1. flow' = flow
    BY Effect
  <1>2. ASSUME NEW b \in flow.nodes[l]
        PROVE  /\ runs'[<<b, 0>>] <= Passes(l)'
               /\ <<b, 0>> \in executed' \/ runs'[<<b, 0>>] < Passes(l)' \/ Idle(l)'
    <2> DEFINE B == <<b, 0>>
    <2>1. /\ runs[B] \in Nat /\ Passes(l) \in Nat
          /\ B \in Ran(r) => B \notin executed /\ ~Idle(l)
          /\ runs'[B] = IF B \in Ran(r) THEN runs[B] + 1 ELSE runs[B]
          /\ B \in executed' <=> B \in Ran(r) \/ (B \in executed /\ ~(l \in Saying(r, "go") /\ ~Counted(l)))
          /\ Idle(l) /\ l \notin Saying(r, "go") => Idle(l)'
      BY LoopBlocks, PassesTurn
    <2>2. runs[B] <= Passes(l) /\ (B \in executed \/ runs[B] < Passes(l) \/ Idle(l))
      BY DEF BlocksOK
    <2> HIDE DEF B
    <2>3. CASE Begins(l, r)
      <3>1. Passes(l)' = Passes(l) + 1
        BY <2>3, PassesTurn
      <3> QED
        BY <2>1, <2>2, <3>1 DEF B
    <2>4. CASE Rests(l, r) \/ Ends(l, r)
      <3>1. Passes(l)' = Passes(l) /\ l \notin Saying(r, "go")
        BY <2>4, PassesTurn DEF Rests, Ends
      <3> QED
        BY <2>1, <2>2, <3>1 DEF B
    <2> QED
      BY <2>3, <2>4, LoopTurn
  <1> QED
    BY <1>1, <1>2 DEF BlocksOK

LEMMA LayerEntries ==
    ASSUME Drawn, IInv, NEW r \in Answers, RunLayer(r), NEW l \in Loops
    PROVE  EntriesOK(l)'
  <1> TypeOK /\ CountOK(l) /\ BlocksOK(l) /\ EntriesOK(l)
    BY DEF IInv, LoopOK
  <1> DEFINE es == Entries(flow.nodes[l])
  <1>1. flow' = flow
    BY Effect
  <1>2. Entries(flow.nodes[l])' = es /\ es \subseteq flow.nodes[l]
    BY <1>1 DEF Entries, Into
  <1> HIDE DEF es
  <1>3. ASSUME ~Pass(l)'
        PROVE  Idle(l)' \/ Plain(es) \subseteq executed'
    <2>1. Rests(l, r) \/ Ends(l, r)
      BY <1>3, LoopTurn, PassesTurn
    <2>2. ~Pass(l) /\ l \notin Saying(r, "go")
      BY <1>3, <2>1, PassesTurn DEF Rests, Ends
    <2>3. Idle(l) \/ Plain(es) \subseteq executed
      BY <2>2 DEF EntriesOK, es
    <2> QED
      BY <1>2, <2>2, <2>3, LoopBlocks DEF Plain
  <1>4. ASSUME NEW b \in es
        PROVE  runs'[<<b, 0>>] + (IF Pass(l)' /\ <<b, 0>> \notin executed' THEN 1 ELSE 0) = Passes(l)'
    <2> DEFINE B == <<b, 0>>
    <2> b \in flow.nodes[l]
      BY <1>2
    <2>1. /\ runs[B] \in Nat /\ Passes(l) \in Nat
          /\ B \in Ran(r) => B \notin executed /\ ~Idle(l)
          /\ runs'[B] = IF B \in Ran(r) THEN runs[B] + 1 ELSE runs[B]
          /\ B \in executed' <=> B \in Ran(r) \/ (B \in executed /\ ~(l \in Saying(r, "go") /\ ~Counted(l)))
      BY LoopBlocks, PassesTurn
    <2>2. runs[B] + (IF Pass(l) /\ B \notin executed THEN 1 ELSE 0) = Passes(l)
      BY DEF EntriesOK, es
    <2>3. B \in executed \/ runs[B] < Passes(l) \/ Idle(l)
      BY DEF BlocksOK
    <2>4. ~Pass(l) => Idle(l) \/ B \in executed
      BY DEF EntriesOK, es, Plain
    <2>5. Begins(l, r) => l \in Saying(r, "go") /\ (Counted(l) => B \notin executed)
      <3>1. Begins(l, r) /\ Counted(l) => round[l] <= flow.rounds[l]
        BY Places DEF Begins, CountOK, Exhausted, TypeOK
      <3> QED
        BY <3>1 DEF Begins, CountOK, Plain
    <2> HIDE DEF B
    <2>6. CASE Begins(l, r)
      <3>1. Passes(l)' = Passes(l) + 1 /\ Pass(l)' /\ ~Pass(l)
        BY <2>6, PassesTurn
      <3>2. B \in executed' <=> B \in Ran(r)
        BY <2>1, <2>5, <2>6
      <3> QED
        BY <2>1, <2>2, <3>1, <3>2 DEF B
    <2>7. CASE Rests(l, r)
      <3>1. Passes(l)' = Passes(l) /\ Pass(l)' = Pass(l) /\ l \notin Saying(r, "go")
        BY <2>7, PassesTurn DEF Rests
      <3> QED
        BY <2>1, <2>2, <2>4, <3>1 DEF B
    <2>8. CASE Ends(l, r)
      <3>1. Passes(l)' = Passes(l) /\ ~Pass(l)' /\ ~Pass(l)
        BY <2>8, PassesTurn
      <3> QED
        BY <2>1, <2>2, <2>3, <3>1 DEF B
    <2> QED
      BY <2>6, <2>7, <2>8, LoopTurn
  <1> QED
    BY <1>1, <1>2, <1>3, <1>4 DEF EntriesOK, Plain

-----------------------------------------------------------------------------
(* What is done with the containers between two layers *)

Over == {l \in Loops : PassOver(l)}
Lasts == {l \in Over : LastPass(l)}
Reset == UNION {flow.nodes[l] : l \in {k \in Over \ Lasts : Counted(k)}}
Joins == {p \in Parallels : Joined(p)}

\* The first blocks of a loop are among those a pass must have run.
LEMMA EntriesInBody ==
    ASSUME Drawn, NEW l \in Loops
    PROVE  Entries(flow.nodes[l]) \subseteq Body(l)
  <1> DEFINE ns == flow.nodes[l]
             Leads(w) == CASE flow.kind[w.from] = "router"    -> choice[<<w.from, 0>>] = w.to
                           [] flow.kind[w.from] = "condition" -> choice[<<w.from, 0>>] = w.handle
                           [] OTHER -> (w.handle = "error") = (<<w.from, 0>> \in failed)
             next == [b \in Blocks |-> {w.to : w \in {v \in OutOf(b) : v.to \in ns /\ Leads(v)}}]
  <1>1. Body(l) = Closure(Entries(ns), next)
    BY DEF Body
  <1>2. \A b \in Blocks : next[b] \subseteq Blocks
    <2> HIDE DEF Leads
    <2> QED
      BY DEF Drawn, OutOf
  <1>3. Entries(ns) \subseteq Blocks
    BY Places DEF Entries
  <1> HIDE DEF next
  <1> QED
    BY <1>1, <1>2, <1>3, ClosureStays DEF Drawn

\* The context after the containers were looked at.
LEMMA ScheduleEffect ==
    ASSUME Drawn, TypeOK, Schedule
    PROVE  /\ flow' = flow /\ pc = "settled" /\ pc' \in {"success", "layer"} /\ layers' = layers + 1
           /\ executed' = executed \ Plain(Reset \cup Over \cup Joins)
           /\ failed' = failed \ Plain(Reset)
           /\ choice' = [id \in Ids |-> IF id \in Plain(Reset) THEN None ELSE choice[id]]
           /\ path' = ((path \ Reset) \cup Lasts \cup Joins) \ Vacated(Joins)
           /\ round' = [c \in Containers |-> IF c \in Over THEN round[c] + 1 ELSE round[c]]
           /\ kept' = kept \ (Over \ Lasts)
           /\ opened' = opened /\ done' = done /\ asked' = asked /\ answered' = answered /\ runs' = runs
           /\ \A x \in Reset : \E l \in Loops : x \in flow.nodes[l]
           /\ Over \subseteq Loops /\ Lasts \subseteq Over /\ Joins \subseteq Parallels
  <1>1. /\ flow' = flow /\ pc = "settled" /\ layers' = layers + 1
        /\ executed' = executed \ Plain(Reset \cup Over \cup Joins)
        /\ failed' = failed \ Plain(Reset)
        /\ choice' = [id \in Ids |-> IF id \in Plain(Reset) THEN None ELSE choice[id]]
        /\ path' = ((path \ Reset) \cup Lasts \cup Joins) \ Vacated(Joins)
        /\ round' = [c \in Containers |-> IF c \in Over THEN round[c] + 1 ELSE round[c]]
        /\ kept' = kept \ (Over \ Lasts)
        /\ opened' = opened /\ done' = done /\ asked' = asked /\ answered' = answered /\ runs' = runs
    BY DEF Schedule, Reset, Over, Lasts, Joins
  <1>2. pc' \in {"success", "layer"}
    BY DEF Schedule
  <1>3. Over \subseteq Loops /\ Lasts \subseteq Over /\ Joins \subseteq Parallels
    BY DEF Over, Lasts, Joins
  <1>4. \A x \in Reset : \E l \in Loops : x \in flow.nodes[l]
    BY <1>3 DEF Reset
  <1> QED
    BY <1>1, <1>2, <1>3, <1>4

LEMMA ScheduleType ==
    ASSUME Drawn, IInv, Schedule
    PROVE  TypeOK' /\ Room' /\ BlocksFailed' /\ RanOnce'
  <1> TypeOK
    BY DEF IInv
  <1>1. /\ flow' = flow /\ pc = "settled" /\ pc' \in {"success", "layer"} /\ layers' = layers + 1
        /\ executed' = executed \ Plain(Reset \cup Over \cup Joins)
        /\ failed' = failed \ Plain(Reset)
        /\ DOMAIN choice' = Ids
        /\ path' = ((path \ Reset) \cup Lasts \cup Joins) \ Vacated(Joins)
        /\ round' = [c \in Containers |-> IF c \in Over THEN round[c] + 1 ELSE round[c]]
        /\ kept' = kept \ (Over \ Lasts)
        /\ opened' = opened /\ done' = done /\ asked' = asked /\ answered' = answered /\ runs' = runs
        /\ Over \subseteq Loops /\ Lasts \subseteq Over /\ Joins \subseteq Parallels
    BY ScheduleEffect
  <1>2. \A x \in Reset : \E l \in Loops : x \in flow.nodes[l]
    BY ScheduleEffect
  <1>3. /\ Blocks' = Blocks /\ Containers' = Containers /\ Loops' = Loops
        /\ Parallels' = Parallels /\ Ids' = Ids
    BY <1>1, Fixed
  <1>4. layers' \in 0 .. LayerLimit
    <2>1. layers < LayerLimit /\ layers \in 0 .. LayerLimit
      BY <1>1 DEF IInv, Room, TypeOK
    <2> QED
      BY <1>1, <2>1, LimitAssumption
  <1>5. \A id \in failed : ~FlowControl(id[1])
    BY DEF IInv, BlocksFailed
  <1>6. failed' \subseteq executed'
    <2>1. ASSUME NEW id \in failed, id \in Plain(Over \cup Joins)
          PROVE  FALSE
      <3>1. id[1] \in Containers /\ id[1] \in Blocks
        BY <1>1, <2>1, Places DEF Plain
      <3> QED
        BY <1>5, <3>1, Places
    <2>2. Plain(Reset \cup Over \cup Joins) = Plain(Reset) \cup Plain(Over \cup Joins)
      BY DEF Plain
    <2> QED
      BY <1>1, <2>1, <2>2 DEF TypeOK
  <1>7. path' \subseteq Blocks /\ round' \in [Containers -> Nat]
    <2>1. Lasts \subseteq Blocks /\ Joins \subseteq Blocks
      BY <1>1, Places
    <2> QED
      BY <1>1, <2>1 DEF TypeOK
  <1>8. TypeOK'
    BY <1>1, <1>3, <1>4, <1>6, <1>7 DEF TypeOK
  <1>9. Room' /\ BlocksFailed'
    BY <1>1, <1>5 DEF Room, BlocksFailed, FlowControl
  <1>10. ASSUME NEW id \in Ids, ~FlowControl(id[1]), Around(id[1], Loops) = {}
         PROVE  id \in executed' <=> id \in executed
    <2>1. id \notin Plain(Reset)
      BY <1>2, <1>10 DEF Plain, Around
    <2>2. id[1] \notin Over \cup Joins
      BY <1>1, <1>10, Places
    <2>3. id \notin Plain(Reset \cup Over \cup Joins)
      BY <2>1, <2>2 DEF Plain
    <2> QED
      BY <1>1, <2>3
  <1>11. RanOnce'
    BY <1>1, <1>3, <1>10 DEF IInv, RanOnce, FlowControl, Around
  <1> QED
    BY <1>8, <1>9, <1>11

LEMMA ScheduleParallel ==
    ASSUME Drawn, IInv, Schedule, NEW p \in Parallels
    PROVE  ParallelOK(p)'
  <1> TypeOK /\ ParallelOK(p)
    BY DEF IInv
  <1> p \in Containers /\ p \notin Loops
    BY Places
  <1>1. /\ flow' = flow
        /\ executed' = executed \ Plain(Reset \cup Over \cup Joins)
        /\ choice' = [id \in Ids |-> IF id \in Plain(Reset) THEN None ELSE choice[id]]
        /\ path' = ((path \ Reset) \cup Lasts \cup Joins) \ Vacated(Joins)
        /\ opened' = opened /\ done' = done
        /\ Over \subseteq Loops /\ Lasts \subseteq Over /\ Joins \subseteq Parallels
    BY ScheduleEffect
  <1>2. \A x \in Reset : \E l \in Loops : x \in flow.nodes[l]
    BY ScheduleEffect
  <1>3. p \notin Reset /\ p \notin Over
    BY <1>1, <1>2, Places
  <1>4. <<p, 0>> \in executed' <=> <<p, 0>> \in executed /\ p \notin Joins
    BY <1>1, <1>3 DEF Plain
  <1>5. \A b \in flow.nodes[p] : b \notin Lasts /\ b \notin Joins
    BY <1>1, Places
  <1>6. ASSUME ~Idle(p)'
        PROVE  Active(p)' /\ <<p, 0>> \in executed'
    <2>1. PICK b \in flow.nodes[p] : b \in path'
      BY <1>1, <1>6 DEF Idle
    <2>2. b \in path /\ p \notin Joins
      BY <1>1, <1>5, <2>1 DEF Vacated
    <2>3. Active(p) /\ <<p, 0>> \in executed
      BY <2>2 DEF ParallelOK, Idle
    <2> QED
      BY <1>1, <1>4, <2>2, <2>3 DEF Active
  <1>7. ASSUME p \in opened', <<p, 0>> \notin executed' \/ p \in done'
        PROVE  AllIterationsComplete(p)'
    <2>1. AllIterationsComplete(p)
      BY <1>1, <1>4, <1>7 DEF ParallelOK, Joins, Joined
    <2>2. ASSUME NEW b \in flow.nodes[p], NEW i \in Iterations(p)
          PROVE  /\ <<b, i>> \in executed' <=> <<b, i>> \in executed
                 /\ choice'[<<b, i>>] = choice[<<b, i>>]
      <3>1. <<b, i>> \in Ids
        BY DEF Ids, Virtual
      <3>2. \A s : <<b, i>> \notin Plain(s)
        BY DEF Plain, Iterations
      <3> QED
        BY <1>1, <3>1, <3>2
    <2> QED
      BY <1>1, <2>1, <2>2, CompleteStays
  <1>8. /\ p \in done' => p \in opened'
        /\ \A b \in flow.nodes[p] : <<b, 0>> \notin executed'
    BY <1>1 DEF ParallelOK
  <1> QED
    BY <1>1, <1>6, <1>7, <1>8 DEF ParallelOK

\* A loop whose pass is not over, one that begins another, one that goes on to
\* its end with what it ran.
Goes(l) ==
    /\ l \notin Over /\ round'[l] = round[l]
    /\ <<l, 0>> \in executed' <=> <<l, 0>> \in executed
    /\ l \in kept' <=> l \in kept

Turns(l) ==
    /\ l \in Over /\ round'[l] = round[l] + 1
    /\ <<l, 0>> \in executed /\ l \notin done /\ <<l, 0>> \notin executed'
    /\ Plain(Entries(flow.nodes[l])) \subseteq executed

LEMMA LoopLooked ==
    ASSUME Drawn, IInv, Schedule, NEW l \in Loops
    PROVE  /\ Goes(l) \/ Turns(l)
           /\ Idle(l) => Idle(l)'
           /\ \/ \A b \in flow.nodes[l] : <<b, 0>> \in executed' <=> <<b, 0>> \in executed
              \/ /\ Turns(l) /\ Counted(l) /\ ~LastPass(l)
                 /\ Idle(l)' /\ \A b \in flow.nodes[l] : <<b, 0>> \notin executed'
           /\ Turns(l) /\ Counted(l) /\ ~LastPass(l) =>
                 Idle(l)' /\ \A b \in flow.nodes[l] : <<b, 0>> \notin executed'
           /\ Turns(l) /\ LastPass(l) => l \in kept'
  <1> TypeOK /\ CountOK(l)
    BY DEF IInv, LoopOK
  <1> l \in Containers /\ l \notin Parallels
    BY Places
  <1>1. /\ flow' = flow
        /\ executed' = executed \ Plain(Reset \cup Over \cup Joins)
        /\ path' = ((path \ Reset) \cup Lasts \cup Joins) \ Vacated(Joins)
        /\ round' = [c \in Containers |-> IF c \in Over THEN round[c] + 1 ELSE round[c]]
        /\ kept' = kept \ (Over \ Lasts)
        /\ Over \subseteq Loops /\ Lasts \subseteq Over /\ Joins \subseteq Parallels
    BY ScheduleEffect
  <1>2. \A x \in Reset : \E k \in Loops : x \in flow.nodes[k]
    BY ScheduleEffect
  <1>3. l \notin Reset /\ l \notin Joins
    BY <1>1, <1>2, Places
  <1>4. <<l, 0>> \in executed' <=> <<l, 0>> \in executed /\ l \notin Over
    BY <1>1, <1>3 DEF Plain
  <1>5. \A b \in flow.nodes[l] : b \notin Lasts /\ b \notin Joins /\ b \notin Over
    BY <1>1, Places
  <1>6. \A b \in flow.nodes[l] : b \in Reset <=> l \in Over /\ ~LastPass(l) /\ Counted(l)
    <2>1. \A b \in flow.nodes[l] : \A k \in Loops : b \in flow.nodes[k] => k = l
      BY Places DEF Drawn
    <2>2. \A b \in flow.nodes[l] : b \in Reset <=> l \in Over \ Lasts /\ Counted(l)
      BY <1>1, <2>1 DEF Reset
    <2> QED
      BY <2>2 DEF Lasts
  <1>7. Idle(l) => Idle(l)'
    BY <1>1, <1>5 DEF Idle
  <1>8. \A b \in flow.nodes[l] :
           <<b, 0>> \in executed' <=> <<b, 0>> \in executed /\ ~(l \in Over /\ ~LastPass(l) /\ Counted(l))
    BY <1>1, <1>5, <1>6 DEF Plain
  <1>9. l \in Over /\ ~LastPass(l) /\ Counted(l) => Idle(l)'
    BY <1>1, <1>5, <1>6 DEF Idle
  <1>10. l \notin Over => Goes(l)
    BY <1>1, <1>4 DEF Goes
  <1>11. l \in Over => Turns(l)
    <2>1. l \in Over => <<l, 0>> \in executed /\ l \notin done /\ Plain(Body(l)) \subseteq executed
      BY DEF Over, PassOver
    <2>2. l \in Over => Plain(Entries(flow.nodes[l])) \subseteq executed
      BY <2>1, EntriesInBody DEF Plain
    <2> QED
      BY <1>1, <1>4, <2>1, <2>2 DEF Turns
  <1>12. Turns(l) /\ LastPass(l) => l \in kept'
    BY <1>1 DEF Turns, CountOK, Lasts
  <1>13. Turns(l) => l \in Over
    BY DEF Turns
  <1> QED
    BY <1>7, <1>8, <1>9, <1>10, <1>11, <1>12, <1>13

\* The passes do not change.
LEMMA PassesLooked ==
    ASSUME Drawn, IInv, Schedule, NEW l \in Loops
    PROVE  /\ Passes(l) \in Nat /\ Passes(l)' = Passes(l)
           /\ Goes(l) => Pass(l)' = Pass(l)
           /\ Turns(l) => Pass(l) /\ ~Pass(l)'
  <1> round[l] \in Nat
    BY Places DEF IInv, TypeOK
  <1>1. done' = done
    BY ScheduleEffect DEF IInv
  <1>2. Passes(l) \in Nat
    BY DEF Passes
  <1>3. Goes(l) => Passes(l)' = Passes(l) /\ Pass(l)' = Pass(l)
    BY <1>1 DEF Goes, Passes, Pass
  <1>4. Turns(l) => Passes(l)' = Passes(l) /\ Pass(l) /\ ~Pass(l)'
    BY <1>1 DEF Turns, Passes, Pass
  <1> QED
    BY <1>2, <1>3, <1>4, LoopLooked

LEMMA ScheduleLoop ==
    ASSUME Drawn, IInv, Schedule, NEW l \in Loops
    PROVE  LoopOK(l)'
  <1> TypeOK /\ CountOK(l) /\ BlocksOK(l) /\ EntriesOK(l)
    BY DEF IInv, LoopOK
  <1> round[l] \in Nat /\ flow.rounds[l] \in Nat
    BY Places DEF TypeOK
  <1>1. flow' = flow /\ done' = done /\ runs' = runs
    BY ScheduleEffect
  <1>2. Counted(l)' = Counted(l) /\ Entries(flow.nodes[l])' = Entries(flow.nodes[l])
    BY <1>1 DEF Counted, Entries, Into
  <1>3. Entries(flow.nodes[l]) \subseteq flow.nodes[l]
    BY DEF Entries
  <1>4. CountOK(l)'
    <2>1. CASE Goes(l)
      <3>1. \A b \in flow.nodes[l] : <<b, 0>> \in executed' => <<b, 0>> \in executed
        BY <2>1, LoopLooked
      <3>2. Idle(l) => Idle(l)'
        BY LoopLooked
      <3>3. Plain(flow.nodes[l]) \cap executed = {} => Plain(flow.nodes[l]) \cap executed' = {}
        BY <3>1 DEF Plain
      <3>4. Pass(l)' = Pass(l)
        BY <2>1, PassesLooked
      <3>5. /\ l \in done' => <<l, 0>> \in executed'
            /\ <<l, 0>> \in executed' => round'[l] > 0 /\ l \in kept'
        BY <1>1, <2>1 DEF Goes, CountOK
      <3>6. Counted(l) =>
              /\ round'[l] <= flow.rounds[l] + 1
              /\ round'[l] > flow.rounds[l] => l \in kept' /\ ~Pass(l)'
              /\ l \in done' => round'[l] > flow.rounds[l]
        BY <1>1, <2>1, <3>4 DEF Goes, CountOK
      <3>7. Counted(l) /\ <<l, 0>> \notin executed' /\ round'[l] <= flow.rounds[l] =>
              Idle(l)' /\ Plain(flow.nodes[l]) \cap executed' = {}
        BY <2>1, <3>2, <3>3 DEF Goes, CountOK
      <3> QED
        BY <1>1, <1>2, <3>5, <3>6, <3>7 DEF CountOK, Plain
    <2>2. CASE Turns(l)
      <3>1. Counted(l) => round[l] <= flow.rounds[l]
        BY <2>2 DEF Turns, CountOK, Pass
      <3>2. Counted(l) => round'[l] <= flow.rounds[l] + 1
        BY <2>2, <3>1 DEF Turns
      <3>3. Counted(l) /\ round'[l] > flow.rounds[l] => l \in kept' /\ ~Pass(l)'
        <4>1. Counted(l) /\ round'[l] > flow.rounds[l] => LastPass(l)
          BY <2>2 DEF Turns, LastPass
        <4> QED
          BY <2>2, <4>1, LoopLooked, PassesLooked
      <3>4. Counted(l) /\ round'[l] <= flow.rounds[l] =>
              Idle(l)' /\ Plain(flow.nodes[l]) \cap executed' = {}
        <4>1. Counted(l) /\ round'[l] <= flow.rounds[l] => ~LastPass(l)
          BY <2>2 DEF Turns, LastPass
        <4>2. Counted(l) /\ round'[l] <= flow.rounds[l] =>
                Idle(l)' /\ \A b \in flow.nodes[l] : <<b, 0>> \notin executed'
          BY <2>2, <4>1, LoopLooked
        <4> QED
          BY <4>2 DEF Plain
      <3>5. l \notin done' /\ <<l, 0>> \notin executed'
        BY <1>1, <2>2 DEF Turns
      <3> QED
        BY <1>1, <1>2, <3>2, <3>3, <3>4, <3>5 DEF CountOK, Plain
    <2> QED
      BY <2>1, <2>2, LoopLooked
  <1>5. BlocksOK(l)'
    <2>1. ASSUME NEW b \in flow.nodes[l]
          PROVE  /\ runs'[<<b, 0>>] <= Passes(l)'
                 /\ <<b, 0>> \in executed' \/ runs'[<<b, 0>>] < Passes(l)' \/ Idle(l)'
      <3>1. /\ runs[<<b, 0>>] <= Passes(l)
            /\ <<b, 0>> \in executed \/ runs[<<b, 0>>] < Passes(l) \/ Idle(l)
        BY DEF BlocksOK
      <3> QED
        BY <1>1, <3>1, LoopLooked, PassesLooked
    <2> QED
      BY <1>1, <2>1 DEF BlocksOK
  <1>6. EntriesOK(l)'
    <2> DEFINE es == Entries(flow.nodes[l])
    <2>1. ~Pass(l) => Idle(l) \/ Plain(es) \subseteq executed
      BY DEF EntriesOK
    <2>2. \A b \in es : runs[<<b, 0>>] + (IF Pass(l) /\ <<b, 0>> \notin executed THEN 1 ELSE 0) = Passes(l)
      BY DEF EntriesOK
    <2>3. es' = es
      BY <1>2
    <2>4. \A b \in es : b \in flow.nodes[l]
      BY <1>3
    <2> HIDE DEF es
    <2>5. ASSUME ~Pass(l)'
          PROVE  Idle(l)' \/ Plain(es) \subseteq executed'
      <3>1. Idle(l) \/ Plain(es) \subseteq executed
        BY <2>1, <2>5, LoopLooked, PassesLooked DEF Turns, es
      <3> QED
        BY <2>4, <3>1, LoopLooked DEF Plain
    <2>6. ASSUME NEW b \in es
          PROVE  runs'[<<b, 0>>] + (IF Pass(l)' /\ <<b, 0>> \notin executed' THEN 1 ELSE 0) = Passes(l)'
      <3>1. runs[<<b, 0>>] + (IF Pass(l) /\ <<b, 0>> \notin executed THEN 1 ELSE 0) = Passes(l)
        BY <2>2
      <3>2. CASE Goes(l)
        <4>1. <<b, 0>> \in executed' <=> <<b, 0>> \in executed
          BY <2>4, <3>2, LoopLooked DEF Goes, Turns
        <4> QED
          BY <1>1, <3>1, <3>2, <4>1, PassesLooked
      <3>3. CASE Turns(l)
        <4>1. <<b, 0>> \in executed
          BY <3>3 DEF Turns, es, Plain
        <4>2. runs[<<b, 0>>] = Passes(l)
          <5>1. runs[<<b, 0>>] \in Nat
            BY <2>4, Places DEF TypeOK
          <5> QED
            BY <3>1, <4>1, <5>1
        <4> QED
          BY <1>1, <3>3, <4>2, PassesLooked
      <3> QED
        BY <3>2, <3>3, LoopLooked
    <2> QED
      BY <1>1, <2>3, <2>5, <2>6 DEF EntriesOK, Plain, es
  <1> QED
    BY <1>4, <1>5, <1>6 DEF LoopOK

-----------------------------------------------------------------------------
(* The invariant *)

LEMMA Start ==
    ASSUME Init
    PROVE  IInv
  <1> flow \in Workflows
    BY DEF Init
  <1> Drawn
    BY FlowDrawn
  <1>1. Trigger \in Blocks
    BY DEF Drawn
  <1>2. TypeOK
    BY <1>1, LimitAssumption DEF Init, TypeOK
  <1>3. Room /\ BlocksFailed /\ RanOnce
    BY DEF Init, Room, BlocksFailed, RanOnce
  <1>4. \A c \in Containers : Idle(c)
    BY Places DEF Init, Idle
  <1>5. ASSUME NEW p \in Parallels
        PROVE  ParallelOK(p)
    BY <1>4, Places DEF Init, ParallelOK
  <1>6. ASSUME NEW l \in Loops
        PROVE  LoopOK(l)
    <2> l \in Containers /\ flow.rounds[l] \in Nat
      BY Places
    <2>1. round[l] = 0 /\ l \notin done /\ <<l, 0>> \notin executed /\ Idle(l) /\ executed = {}
      BY <1>4 DEF Init
    <2>2. Passes(l) = 0 /\ ~Pass(l)
      BY <2>1 DEF Passes, Pass
    <2>3. \A b \in flow.nodes[l] : runs[<<b, 0>>] = 0
      BY Places DEF Init
    <2>4. CountOK(l)
      BY <2>1, <2>2 DEF CountOK, Counted
    <2>5. BlocksOK(l)
      <3>1. 0 <= 0
        OBVIOUS
      <3>2. \A b \in flow.nodes[l] : runs[<<b, 0>>] <= Passes(l)
        BY <2>2, <2>3, <3>1
      <3> QED
        BY <2>1, <3>2 DEF BlocksOK
    <2>6. EntriesOK(l)
      <3>1. Entries(flow.nodes[l]) \subseteq flow.nodes[l]
        BY DEF Entries
      <3> QED
        BY <2>1, <2>2, <2>3, <3>1 DEF EntriesOK
    <2> QED
      BY <2>4, <2>5, <2>6 DEF LoopOK
  <1> QED
    BY <1>2, <1>3, <1>5, <1>6 DEF IInv

\* Steps of the main loop that leave the context alone.
LEMMA ContextKept ==
    ASSUME IInv, UNCHANGED <<flow, context>>, TypeOK', Room'
    PROVE  IInv'
  <1>1. /\ flow' = flow /\ executed' = executed /\ failed' = failed /\ choice' = choice /\ path' = path
        /\ round' = round /\ kept' = kept /\ opened' = opened /\ done' = done /\ runs' = runs
    BY DEF context
  <1>2. Loops' = Loops /\ Parallels' = Parallels /\ Ids' = Ids
    BY <1>1, Fixed
  <1>3. BlocksFailed'
    BY <1>1 DEF IInv, BlocksFailed, FlowControl
  <1>4. RanOnce'
    BY <1>1, <1>2 DEF IInv, RanOnce, FlowControl, Around
  <1>5. ASSUME NEW p \in Parallels
        PROVE  ParallelOK(p)'
    <2>1. AllIterationsComplete(p) => AllIterationsComplete(p)'
      BY <1>1, CompleteStays
    <2>2. Idle(p)' = Idle(p) /\ Active(p)' = Active(p)
      BY <1>1 DEF Idle, Active
    <2>3. ParallelOK(p)
      BY DEF IInv
    <2> QED
      BY <1>1, <2>1, <2>2, <2>3 DEF ParallelOK
  <1>6. ASSUME NEW l \in Loops
        PROVE  LoopOK(l)'
    <2>1. /\ Idle(l)' = Idle(l) /\ Pass(l)' = Pass(l) /\ Passes(l)' = Passes(l)
          /\ Counted(l)' = Counted(l) /\ Entries(flow.nodes[l])' = Entries(flow.nodes[l])
      BY <1>1 DEF Idle, Pass, Passes, Counted, Entries, Into
    <2>2. CountOK(l) /\ BlocksOK(l) /\ EntriesOK(l)
      BY DEF IInv, LoopOK
    <2>3. CountOK(l)'
      BY <1>1, <2>1, <2>2 DEF CountOK, Plain
    <2>4. BlocksOK(l)'
      BY <1>1, <2>1, <2>2 DEF BlocksOK
    <2>5. EntriesOK(l)'
      BY <1>1, <2>1, <2>2 DEF EntriesOK, Plain
    <2> QED
      BY <2>3, <2>4, <2>5 DEF LoopOK
  <1> QED
    BY <1>2, <1>3, <1>4, <1>5, <1>6 DEF IInv

LEMMA TypesKept ==
    ASSUME TypeOK, UNCHANGED <<flow, context>>, layers' \in 0 .. LayerLimit,
           pc' \in {"layer", "settled", "paused", "success", "failed", "cancelled", "limit"},
           asked' \subseteq Ids, answered' \subseteq Ids
    PROVE  TypeOK'
  <1>1. /\ flow' = flow /\ executed' = executed /\ failed' = failed /\ choice' = choice /\ path' = path
        /\ round' = round /\ kept' = kept /\ opened' = opened /\ done' = done /\ runs' = runs
    BY DEF context
  <1>2. /\ Blocks' = Blocks /\ Containers' = Containers /\ Loops' = Loops
        /\ Parallels' = Parallels /\ Ids' = Ids
    BY <1>1, Fixed
  <1> QED
    BY <1>1, <1>2 DEF TypeOK

LEMMA Step ==
    ASSUME IInv, [Next]_vars
    PROVE  IInv'
  <1> TypeOK /\ Room
    BY DEF IInv
  <1> flow \in Workflows
    BY DEF TypeOK
  <1> Drawn
    BY FlowDrawn
  <1>1. CASE ExecuteLayer
    <2>1. PICK r \in Answers : RunLayer(r) /\ pc = "layer" /\ layers < LayerLimit
      BY <1>1 DEF ExecuteLayer, MayRun
    <2>2. TypeOK' /\ Room' /\ BlocksFailed'
      BY <2>1, LayerType
    <2>3. RanOnce'
      BY <2>1, LayerRanOnce
    <2>4. Loops' = Loops /\ Parallels' = Parallels
      BY <2>1, Effect, Fixed
    <2>5. \A p \in Parallels : ParallelOK(p)'
      BY <2>1, LayerParallel
    <2>6. \A l \in Loops : LoopOK(l)'
      BY <2>1, LayerCount, LayerBlocks, LayerEntries DEF LoopOK
    <2> QED
      BY <2>2, <2>3, <2>4, <2>5, <2>6 DEF IInv
  <1>2. CASE Schedule
    <2>1. TypeOK' /\ Room' /\ BlocksFailed' /\ RanOnce'
      BY <1>2, ScheduleType
    <2>2. Loops' = Loops /\ Parallels' = Parallels
      BY <1>2, ScheduleEffect, Fixed
    <2>3. (\A p \in Parallels : ParallelOK(p)') /\ \A l \in Loops : LoopOK(l)'
      BY <1>2, ScheduleParallel, ScheduleLoop
    <2> QED
      BY <2>1, <2>2, <2>3 DEF IInv
  <1>3. CASE LayerFails
    <2>1. TypeOK'
      BY <1>3, TypesKept DEF LayerFails, TypeOK
    <2> QED
      BY <1>3, <2>1, ContextKept DEF LayerFails, Room
  <1>4. CASE Cancel
    <2>1. TypeOK'
      BY <1>4, TypesKept DEF Cancel, TypeOK
    <2> QED
      BY <1>4, <2>1, ContextKept DEF Cancel, Room
  <1>5. CASE HitLimit
    <2>1. TypeOK'
      BY <1>5, TypesKept DEF HitLimit, TypeOK
    <2> QED
      BY <1>5, <2>1, ContextKept DEF HitLimit, Room
  <1>6. CASE Pause
    <2>1. layers' \in 0 .. LayerLimit
      BY <1>6, LimitAssumption DEF Pause, Room, TypeOK
    <2>2. TypeOK'
      BY <1>6, <2>1, TypesKept DEF Pause, TypeOK
    <2> QED
      BY <1>6, <2>2, ContextKept DEF Pause, Room
  <1>7. CASE Resume
    <2>1. TypeOK'
      BY <1>7, TypesKept DEF Resume, TypeOK
    <2> QED
      BY <1>7, <2>1, ContextKept DEF Resume, Room
  <1>8. CASE UNCHANGED vars
    <2>1. UNCHANGED <<flow, context, pc, layers, asked, answered>>
      BY <1>8 DEF vars
    <2>2. TypeOK'
      BY <2>1, TypesKept DEF TypeOK
    <2> QED
      BY <2>1, <2>2, ContextKept DEF Room
  <1> QED
    BY <1>1, <1>2, <1>3, <1>4, <1>5, <1>6, <1>7, <1>8 DEF Next

LEMMA Invariant == Spec => []IInv
  BY Start, Step, PTL DEF Spec

\* The context keeps its types, for every workflow: a failed block is an executed
\* one, containers and virtual blocks are those of the workflow, and no run makes
\* more layers than the limit allows.
THEOREM TypeCorrect == Spec => []TypeOK
  <1>1. IInv => TypeOK
    BY DEF IInv
  <1> QED
    BY <1>1, Invariant, PTL

\* For every workflow, over every pause and resumption: no block outside a loop
\* and no virtual block runs twice, no block of a loop runs twice in a pass, and
\* the blocks of a parallel run as virtual ones only.
THEOREM RunsOncePerPass == Spec => []OncePerPass
  <1>1. ASSUME IInv
        PROVE  OncePerPass
    <2> flow \in Workflows /\ runs \in [Ids -> Nat]
      BY <1>1 DEF IInv, TypeOK
    <2> Drawn
      BY FlowDrawn
    <2>1. ASSUME NEW p \in Parallels, NEW b \in flow.nodes[p]
          PROVE  Around(b, Loops) = {} /\ ~FlowControl(b)
      BY <2>1, Places DEF Drawn, Around
    <2>2. ASSUME NEW id \in Ids, id \notin Own
          PROVE  runs[id] = 0
      <3>1. id \in Plain(Blocks)
        BY <2>2 DEF Ids, Own
      <3>2. PICK b \in Blocks : id = <<b, 0>>
        BY <3>1 DEF Plain
      <3>3. Around(b, Parallels) # {}
        BY <2>2, <3>2 DEF Own, Plain
      <3>4. PICK p \in Parallels : b \in flow.nodes[p]
        BY <3>3 DEF Around
      <3>5. id \notin executed
        BY <1>1, <3>2, <3>4 DEF IInv, ParallelOK
      <3>6. Around(id[1], Loops) = {} /\ ~FlowControl(id[1])
        BY <2>1, <3>2, <3>4
      <3> QED
        BY <1>1, <3>5, <3>6 DEF IInv, RanOnce
    <2>3. ASSUME NEW id \in Own
          PROVE  id \in Ids
      BY <2>3 DEF Own, Ids, Plain
    <2>4. ASSUME NEW id \in Own, ~FlowControl(id[1]), Around(id[1], Loops) = {}
          PROVE  runs[id] <= 1
      BY <1>1, <2>3, <2>4 DEF IInv, RanOnce
    <2>5. ASSUME NEW id \in Own, NEW l \in Around(id[1], Loops)
          PROVE  runs[id] <= Passes(l)
      <3>1. l \in Loops /\ id[1] \in flow.nodes[l]
        BY DEF Around
      <3>2. id = <<id[1], 0>>
        <4>1. ASSUME NEW p \in Parallels, id \in Virtual(p)
              PROVE  FALSE
          BY <2>1, <3>1, <4>1 DEF Virtual, Around
        <4> QED
          BY <4>1 DEF Own, Plain
      <3> QED
        BY <1>1, <3>1, <3>2 DEF IInv, LoopOK, BlocksOK
    <2> QED
      BY <2>2, <2>4, <2>5 DEF OncePerPass
  <1> QED
    BY <1>1, Invariant, PTL

-----------------------------------------------------------------------------
(* Containers *)

\* A block behind the end of a container has no connection from a loop, or has
\* no connections but those from the end of this container.
PlainExits ==
    \A f \in Workflows : \A v \in f.wires :
        v.handle = "end" /\ v.from \in DOMAIN f.nodes =>
            \/ \A w \in f.wires : w.to = v.to => f.kind[w.from] # "loop"
            \/ \A w \in f.wires : w.to = v.to => w.from = v.from /\ w.handle = "end"

Sole(v) == \A w \in Into(v.to) : w.from = v.from /\ w.handle = "end"

\* What is behind a container has not run before the container is complete, and
\* what is only behind it is not on the path.
ExitOK(v) ==
    v.handle = "end" /\ v.from \in Containers \ done =>
        <<v.to, 0>> \notin executed /\ (Sole(v) => v.to \notin path)

EInv == IInv /\ \A v \in flow.wires : ExitOK(v)

LEMMA StartExits ==
    ASSUME Init
    PROVE  EInv
  <1>1. IInv
    BY Start
  <1>2. Drawn
    BY FlowDrawn DEF Init
  <1> QED
    BY <1>1, <1>2 DEF EInv, ExitOK, Init, Drawn

LEMMA LayerExits ==
    ASSUME Drawn, EInv, PlainExits, flow \in Workflows, NEW r \in Answers, RunLayer(r), NEW v \in flow.wires
    PROVE  ExitOK(v)'
  <1> IInv /\ TypeOK /\ ExitOK(v)
    BY DEF EInv, IInv
  <1>1. /\ flow' = flow
        /\ executed' = (executed \ Plain(Repeated(r))) \cup Ran(r)
        /\ done' = done \cup Saying(r, "stop") \cup Saying(r, "close")
    BY Effect
  <1>2. Containers' = Containers /\ Sole(v)' = Sole(v)
    BY <1>1, Fixed DEF Sole, Into
  <1> SUFFICES ASSUME v.handle = "end", v.from \in Containers \ done'
               PROVE  <<v.to, 0>> \notin executed' /\ (Sole(v) => v.to \notin path')
    BY <1>1, <1>2 DEF ExitOK
  <1>3. v.from \in Containers \ done /\ v.to \in Blocks /\ v \in Into(v.to)
    BY <1>1 DEF Drawn, Into
  <1>4. <<v.to, 0>> \notin executed /\ (Sole(v) => v.to \notin path)
    BY <1>3 DEF ExitOK
  <1>5. ~PlainReady(v.to)
    <2>1. CASE Sole(v)
      BY <1>4, <2>1 DEF PlainReady
    <2>2. CASE \A w \in flow.wires : w.to = v.to => flow.kind[w.from] # "loop"
      <3>1. \A w \in Into(v.to) : flow.kind[w.from] # "loop"
        BY <2>2 DEF Into
      <3>2. flow.kind[v.from] \in {"loop", "parallel"}
        BY <1>3 DEF Drawn, FlowControl
      <3>3. ~PlainMet(v)
        BY <1>3, <3>2 DEF PlainMet
      <3> QED
        BY <1>3, <3>1, <3>3 DEF PlainReady, DependenciesMet
    <2> QED
      BY <1>3, <2>1, <2>2 DEF PlainExits, Sole, Into, Containers
  <1>6. <<v.to, 0>> \notin NextLayer
    <2>1. ASSUME NEW q \in Parallels, NEW i \in Iterations(q), <<v.to, 0>> = <<v.to, i>>
          PROVE  FALSE
      BY <2>1 DEF Iterations
    <2> QED
      BY <1>5, <2>1, MayRunNext
  <1>7. ASSUME Sole(v)
        PROVE  v.to \notin path'
    <2> DEFINE Z == Blocks \ {v.to}
    <2>1. path \subseteq Z
      BY <1>4, <1>7 DEF TypeOK
    <2>2. ASSUME NEW x, NEW w \in OutOf(x)
          PROVE  w.to \in Z \/ (w.to = v.to /\ x = v.from /\ w.handle = "end")
      BY <1>7, <2>2 DEF Drawn, OutOf, Sole, Into
    <2>3. ASSUME NEW x \in Z, ~FlowControl(x), NEW w \in OutOf(x), ~Skipped(w)
          PROVE  w.to \in Z
      BY <2>2, <2>3 DEF Skipped
    <2>4. ASSUME NEW id \in Ran(r), NEW w \in OutOf(id[1]), w.to \notin Z
          PROVE  id[1] \in Containers /\ w.handle = "end" /\ r[id] \notin {"stop", "close"}
      <3>1. id[1] = v.from /\ w.handle = "end" /\ id \in NextLayer
        BY <2>2, <2>4 DEF Ran
      <3>2. id = <<v.from, 0>>
        BY <1>3, <3>1, ContainerIsPlain
      <3> QED
        BY <1>1, <1>3, <3>1, <3>2 DEF Saying
    <2>5. Z \in SUBSET Blocks
      OBVIOUS
    <2> HIDE DEF Z
    <2>6. path' \subseteq Z
      BY <2>1, <2>3, <2>4, <2>5, PathStaysIn
    <2> QED
      BY <2>6 DEF Z
  <1> QED
    BY <1>1, <1>4, <1>6, <1>7 DEF Ran

LEMMA StepExits ==
    ASSUME PlainExits, EInv, [Next]_vars
    PROVE  EInv'
  <1> IInv /\ TypeOK
    BY DEF EInv, IInv
  <1> flow \in Workflows
    BY DEF TypeOK
  <1> Drawn
    BY FlowDrawn
  <1>1. IInv'
    BY Step
  <1>2. CASE ExecuteLayer
    <2>1. PICK r \in Answers : RunLayer(r)
      BY <1>2 DEF ExecuteLayer
    <2> QED
      BY <1>1, <2>1, LayerExits, Effect DEF EInv
  <1>3. CASE Schedule
    <2>1. /\ flow' = flow /\ done' = done /\ executed' \subseteq executed
          /\ path' \subseteq path \cup Lasts \cup Joins
          /\ Lasts \subseteq Over
      BY <1>3, ScheduleEffect
    <2>2. \A c \in Lasts \cup Joins : <<c, 0>> \in executed
      BY <2>1 DEF Over, PassOver, Joins, Joined
    <2>3. Containers' = Containers
      BY <2>1, Fixed
    <2>4. ASSUME NEW v \in flow.wires
          PROVE  ExitOK(v)'
      <3>1. Sole(v)' = Sole(v)
        BY <2>1 DEF Sole, Into
      <3>2. ExitOK(v)
        BY DEF EInv
      <3> QED
        BY <2>1, <2>2, <2>3, <3>1, <3>2 DEF ExitOK
    <2> QED
      BY <1>1, <2>1, <2>4 DEF EInv
  <1>4. CASE UNCHANGED <<flow, context>>
    <2>1. flow' = flow /\ done' = done /\ executed' = executed /\ path' = path
      BY <1>4 DEF context
    <2>2. Containers' = Containers
      BY <2>1, Fixed
    <2>3. ASSUME NEW v \in flow.wires
          PROVE  ExitOK(v)'
      <3>1. Sole(v)' = Sole(v)
        BY <2>1 DEF Sole, Into
      <3>2. ExitOK(v)
        BY DEF EInv
      <3> QED
        BY <2>1, <2>2, <3>1, <3>2 DEF ExitOK
    <2> QED
      BY <1>1, <2>1, <2>3 DEF EInv
  <1>5. \/ ExecuteLayer \/ Schedule \/ UNCHANGED <<flow, context>>
    BY DEF Next, LayerFails, Cancel, HitLimit, Pause, Resume, vars, context
  <1> QED
    BY <1>2, <1>3, <1>4, <1>5

\* For every workflow in which a block behind a container is not also fed by a
\* loop: nothing behind a container runs before the container is complete, and
\* then its first blocks have run once in every pass and every iteration, and a
\* counted loop has made its number of passes.
THEOREM ContainersComplete == PlainExits => (Spec => []ContainersFinish)
  <1>1. ASSUME EInv
        PROVE  ContainersFinish
    <2> IInv /\ TypeOK
      BY <1>1 DEF EInv, IInv
    <2> flow \in Workflows
      BY DEF TypeOK
    <2> Drawn
      BY FlowDrawn
    <2>1. ASSUME NEW c \in Containers, c \notin done, NEW b \in Behind(c, "end")
          PROVE  <<b, 0>> \notin executed
      <3>1. PICK v \in flow.wires : v.from = c /\ v.handle = "end" /\ v.to = b
        BY <2>1 DEF Behind, OutOf
      <3>2. ExitOK(v)
        BY <1>1 DEF EInv
      <3> QED
        BY <2>1, <3>1, <3>2 DEF ExitOK
    <2>2. ASSUME NEW l \in Loops, l \in done
          PROVE  /\ Counted(l) => Passes(l) = flow.rounds[l]
                 /\ \A b \in Entries(flow.nodes[l]) : runs[<<b, 0>>] = Passes(l)
      <3> CountOK(l) /\ BlocksOK(l) /\ EntriesOK(l)
        BY DEF IInv, LoopOK
      <3> round[l] \in Nat /\ flow.rounds[l] \in Nat
        BY Places DEF TypeOK
      <3>1. Counted(l) => Passes(l) = flow.rounds[l]
        BY <2>2 DEF CountOK, Passes
      <3>2. ASSUME NEW b \in Entries(flow.nodes[l])
            PROVE  runs[<<b, 0>>] = Passes(l)
        <4>1. b \in flow.nodes[l]
          BY DEF Entries
        <4>2. runs[<<b, 0>>] \in Nat
          BY <4>1, Places DEF TypeOK
        <4>3. runs[<<b, 0>>] + (IF Pass(l) /\ <<b, 0>> \notin executed THEN 1 ELSE 0) = Passes(l)
          BY DEF EntriesOK
        <4> QED
          BY <2>2, <4>2, <4>3 DEF Pass
      <3> QED
        BY <3>1, <3>2
    <2>3. ASSUME NEW p \in Parallels, p \in done, NEW i \in Iterations(p), NEW b \in Entries(flow.nodes[p])
          PROVE  runs[<<b, i>>] = 1
      <3> DEFINE id == <<b, i>>
      <3>1. b \in flow.nodes[p] /\ Into(b) # {} /\ \A w \in Into(b) : w.from \notin flow.nodes[p]
        BY DEF Entries
      <3>2. Reached(b, p, i)
        BY <3>1 DEF Reached
      <3>3. AllIterationsComplete(p)
        BY <2>3 DEF IInv, ParallelOK
      <3>4. <<b, i>> \in executed
        BY <3>1, <3>2, <3>3 DEF AllIterationsComplete, IterationComplete, Missing
      <3>5. <<b, i>> \in Ids
        BY <3>1 DEF Ids, Virtual
      <3>6. ~FlowControl(b) /\ Around(b, Loops) = {}
        BY <3>1, Places DEF Drawn, Around
      <3>7. id \in Ids /\ id \in executed /\ ~FlowControl(id[1]) /\ Around(id[1], Loops) = {}
        BY <3>4, <3>5, <3>6
      <3> HIDE DEF id
      <3>8. runs[id] = 1
        BY <3>7 DEF IInv, RanOnce
      <3> QED
        BY <3>8 DEF id
    <2> QED
      BY <2>1, <2>2, <2>3 DEF ContainersFinish
  <1>2. PlainExits => (Spec => []EInv)
    <2> SUFFICES ASSUME PlainExits
                 PROVE  Spec => []EInv
      OBVIOUS
    <2>1. Init => EInv
      BY StartExits
    <2>2. EInv /\ [Next]_vars => EInv'
      BY StepExits
    <2> QED
      BY <2>1, <2>2, PTL DEF Spec
  <1>3. EInv => ContainersFinish
    BY <1>1
  <1> QED
    BY <1>2, <1>3, PTL

-----------------------------------------------------------------------------
(* Errors *)

\* Every error path leads to handlers of its own: a block that only this
\* connection leads to, in the same container.  A router has none: what it
\* activates is its choice, and an error path of it would lead nowhere.
OwnHandlers ==
    \A f \in Workflows : \A w \in f.wires :
        w.handle = "error" /\ f.kind[w.from] \notin {"loop", "parallel"} =>
            /\ f.kind[w.from] # "router"
            /\ \A v \in f.wires : v.to = w.to => v = w
            /\ \A c \in DOMAIN f.nodes : w.from \in f.nodes[c] => w.to \in f.nodes[c]

\* A block that failed has its handlers on the active path, or runs in a parallel
\* that has begun; a condition that fails fails the run.
ErrorOK(id) ==
    /\ flow.kind[id[1]] # "condition"
    /\ \A w \in OutOf(id[1]) : id[2] = 0 /\ w.handle = "error" => w.to \in path

VirtualsOpened ==
    \A p \in Parallels : \A b \in flow.nodes[p] : \A i \in Iterations(p) :
        <<b, i>> \in executed => p \in opened

\* A run that has ended well has nothing left to run.
Exhaustive == pc = "success" => NextLayer = {}

HInv == IInv /\ VirtualsOpened /\ Exhaustive /\ \A id \in failed : ErrorOK(id)

\* A failed block and its handler, as they are drawn.
LEMMA Handler ==
    ASSUME OwnHandlers, flow \in Workflows, NEW w \in flow.wires, w.handle = "error", ~FlowControl(w.from)
    PROVE  /\ flow.kind[w.from] # "router"
           /\ \A v \in Into(w.to) : v = w
           /\ \A c \in Containers : w.from \in flow.nodes[c] <=> w.to \in flow.nodes[c]
           /\ w.from \in Blocks /\ w.to \in Blocks
  <1> Drawn
    BY FlowDrawn
  <1>1. /\ flow.kind[w.from] # "router"
        /\ \A v \in flow.wires : v.to = w.to => v = w
        /\ \A c \in Containers : w.from \in flow.nodes[c] => w.to \in flow.nodes[c]
    BY DEF OwnHandlers, FlowControl, Containers
  <1>2. \A c \in Containers : w.to \in flow.nodes[c] => w.from \in flow.nodes[c]
    BY DEF Drawn
  <1> QED
    BY <1>1, <1>2 DEF Into, Drawn

\* What may run depends on the context only.
LEMMA LayerKept ==
    ASSUME UNCHANGED <<flow, executed, failed, choice, path, opened, done>>
    PROVE  NextLayer' = NextLayer
  <1>1. Blocks' = Blocks /\ Parallels' = Parallels /\ Containers' = Containers
    BY Fixed
  <1>2. \A ws : DependenciesMet(ws)' = DependenciesMet(ws)
    BY DEF DependenciesMet, LoopTargetMet, PlainMet, OffPath
  <1>3. \A b : Into(b)' = Into(b)
    BY DEF Into
  <1>4. \A b : PlainReady(b)' = PlainReady(b)
    BY <1>1, <1>2, <1>3 DEF PlainReady, Around, Active, Iterations
  <1>5. \A p, i : Missing(p, i)' = Missing(p, i)
    BY <1>3 DEF Missing, Reached
  <1>6. \A p, i : IterationReady(p, i)' = IterationReady(p, i)
    BY <1>2, <1>3, <1>5 DEF IterationReady
  <1> QED
    BY <1>1, <1>4, <1>6 DEF NextLayer, Active, Iterations

LEMMA StartErrors ==
    ASSUME Init
    PROVE  HInv
  <1>1. IInv
    BY Start
  <1> QED
    BY <1>1 DEF HInv, Init, VirtualsOpened, Exhaustive

LEMMA LayerErrors ==
    ASSUME OwnHandlers, HInv, Drawn, flow \in Workflows, NEW r \in Answers, RunLayer(r)
    PROVE  VirtualsOpened' /\ \A id \in failed' : ErrorOK(id)'
  <1> IInv /\ TypeOK
    BY DEF HInv, IInv
  <1>1. /\ flow' = flow
        /\ executed' = (executed \ Plain(Repeated(r))) \cup Ran(r)
        /\ failed' = (failed \ (Plain(Repeated(r)) \cup Ran(r))) \cup {id \in NextLayer : r[id] = "error"}
        /\ opened' = opened \cup Saying(r, "open")
        /\ \A id \in NextLayer : id[1] \in Containers => r[id] # "error"
    BY Effect
  <1>2. path' = Opened(r, Ran(r), Marked(r)) /\ Marked(r) \subseteq path'
    <2>1. path' = Opened(r, Ran(r), Marked(r))
      BY PathRuns
    <2>2. Marked(r) \subseteq Opened(r, Ran(r), Marked(r))
      BY OpenedHolds DEF Drawn
    <2> QED
      BY <2>1, <2>2
  <1>3. VirtualsOpened'
    <2>1. Parallels' = Parallels
      BY <1>1, Fixed
    <2>2. ASSUME NEW p \in Parallels, NEW b \in flow.nodes[p], NEW i \in Iterations(p), <<b, i>> \in executed'
          PROVE  p \in opened'
      <3>1. CASE <<b, i>> \in executed
        BY <1>1, <3>1 DEF HInv, VirtualsOpened
      <3>2. CASE <<b, i>> \in NextLayer
        <4>1. i # 0
          BY DEF Iterations
        <4>2. PICK q \in Parallels : Active(q) /\ b \in flow.nodes[q]
          BY <3>2, <4>1, MayRunNext
        <4>3. q = p
          BY <4>2, Places DEF Drawn
        <4> QED
          BY <1>1, <4>2, <4>3 DEF Active
      <3> QED
        BY <1>1, <2>2, <3>1, <3>2 DEF Ran
    <2> QED
      BY <1>1, <2>1, <2>2 DEF VirtualsOpened, Iterations
  <1>4. ASSUME NEW id \in failed'
        PROVE  /\ flow.kind[id[1]] # "condition"
               /\ \A w \in OutOf(id[1]) : id[2] = 0 /\ w.handle = "error" => w.to \in path'
    <2>1. CASE id \in NextLayer /\ r[id] = "error"
      <3>1. flow.kind[id[1]] # "condition" /\ ~FlowControl(id[1])
        BY <2>1, Given DEF RunLayer, Unhandled
      <3>2. ASSUME NEW w \in OutOf(id[1]), id[2] = 0, w.handle = "error"
            PROVE  w.to \in path'
        <4>1. w \in flow.wires /\ w.from = id[1] /\ id = <<id[1], 0>> /\ id \in Ran(r) /\ id[1] \in Blocks
          <5>1. \E b, i : id = <<b, i>>
            BY <2>1, MayRunNext
          <5> QED
            BY <2>1, <3>2, <5>1, MayRunNext DEF OutOf, Ran
        <4>2. /\ flow.kind[w.from] # "router"
              /\ \A c \in Containers : w.from \in flow.nodes[c] <=> w.to \in flow.nodes[c]
          BY <3>1, <3>2, <4>1, Handler
        <4>3. Follows(w, TRUE)
          BY <3>1, <3>2, <4>1, <4>2, Places DEF Follows, Skipped, Around
        <4>4. ASSUME NEW p
              PROVE  w.to \in Activated(id[1], r[id], p)
          <5>1. flow.kind[id[1]] \notin {"loop", "condition", "router"}
            BY <3>1, <4>1, <4>2 DEF FlowControl
          <5> QED
            BY <2>1, <4>3, <5>1 DEF Activated
        <4>5. PICK p : Activated(id[1], r[<<id[1], 0>>], p) \subseteq Opened(r, Ran(r), Marked(r))
          BY <4>1, OpenedHas
        <4> QED
          BY <1>2, <4>1, <4>4, <4>5
      <3> QED
        BY <3>1, <3>2
    <2>2. CASE id \in failed \ (Plain(Repeated(r)) \cup Ran(r))
      <3>1. ErrorOK(id) /\ ~FlowControl(id[1]) /\ id \in Ids
        BY <2>2 DEF HInv, IInv, BlocksFailed, TypeOK
      <3>2. ASSUME NEW w \in OutOf(id[1]), id[2] = 0, w.handle = "error"
            PROVE  w.to \in path'
        <4>1. w \in flow.wires /\ w.from = id[1] /\ w.to \in path
          BY <3>1, <3>2 DEF OutOf, ErrorOK
        <4>2. /\ \A v \in Into(w.to) : v = w
              /\ \A c \in Containers : w.from \in flow.nodes[c] <=> w.to \in flow.nodes[c]
          BY <3>1, <3>2, <4>1, Handler
        <4>3. id = <<id[1], 0>>
          BY <3>1, <3>2 DEF Ids, Plain, Virtual
        <4>4. w.to \notin Repeated(r)
          <5>1. Saying(r, "go") \subseteq Containers
            BY DEF Saying
          <5>2. w.to \in Repeated(r) => w.from \in Repeated(r)
            BY <4>2, <5>1 DEF Repeated
          <5> QED
            BY <2>2, <4>1, <4>3, <5>2 DEF Plain
        <4>5. w.to \notin Closed(r)
          <5>1. ASSUME NEW v \in flow.wires, v.handle = "start", v.to = w.to
                PROVE  FALSE
            BY <3>2, <4>2, <5>1 DEF Into
          <5> QED
            BY <5>1 DEF Closed, Behind, OutOf
        <4> QED
          BY <1>2, <4>1, <4>4, <4>5 DEF Marked
      <3> QED
        BY <3>1, <3>2 DEF ErrorOK
    <2> QED
      BY <1>1, <2>1, <2>2
  <1> QED
    BY <1>1, <1>3, <1>4 DEF ErrorOK, OutOf

LEMMA ScheduleErrors ==
    ASSUME OwnHandlers, HInv, Drawn, flow \in Workflows, Schedule
    PROVE  VirtualsOpened' /\ Exhaustive' /\ \A id \in failed' : ErrorOK(id)'
  <1> IInv /\ TypeOK
    BY DEF HInv, IInv
  <1>1. /\ flow' = flow
        /\ executed' = executed \ Plain(Reset \cup Over \cup Joins)
        /\ failed' = failed \ Plain(Reset)
        /\ path' = ((path \ Reset) \cup Lasts \cup Joins) \ Vacated(Joins)
        /\ opened' = opened
        /\ Over \subseteq Loops /\ Lasts \subseteq Over /\ Joins \subseteq Parallels
    BY ScheduleEffect
  <1>2. VirtualsOpened'
    <2>1. Parallels' = Parallels
      BY <1>1, Fixed
    <2> QED
      BY <1>1, <2>1 DEF HInv, VirtualsOpened, Iterations
  <1>3. Exhaustive'
    BY DEF Schedule, Exhaustive
  <1>4. ASSUME NEW id \in failed'
        PROVE  ErrorOK(id)'
    <2>1. id \in failed /\ id \notin Plain(Reset) /\ ErrorOK(id) /\ ~FlowControl(id[1]) /\ id \in executed /\ id \in Ids
      BY <1>1 DEF HInv, IInv, BlocksFailed, TypeOK
    <2>2. ASSUME NEW w \in OutOf(id[1]), id[2] = 0, w.handle = "error"
          PROVE  w.to \in path'
      <3>1. w \in flow.wires /\ w.from = id[1] /\ w.to \in path /\ id = <<id[1], 0>>
        BY <2>1, <2>2 DEF OutOf, ErrorOK, Ids, Plain, Virtual
      <3>2. \A c \in Containers : w.from \in flow.nodes[c] <=> w.to \in flow.nodes[c]
        BY <2>1, <2>2, <3>1, Handler
      <3>3. w.to \notin Reset
        <4>1. w.to \in Reset => w.from \in Reset
          BY <1>1, <3>2, Places DEF Reset
        <4> QED
          BY <2>1, <3>1, <4>1 DEF Plain
      <3>4. w.to \notin Vacated(Joins)
        <4>1. ASSUME NEW p \in Parallels, w.to \in flow.nodes[p]
              PROVE  FALSE
          <5>1. w.from \in flow.nodes[p]
            BY <3>2, <4>1, Places
          <5> QED
            BY <2>1, <3>1, <5>1 DEF IInv, ParallelOK
        <4> QED
          BY <1>1, <4>1 DEF Vacated
      <3> QED
        BY <1>1, <3>1, <3>3, <3>4
    <2> QED
      BY <1>1, <2>1, <2>2 DEF ErrorOK, OutOf
  <1> QED
    BY <1>2, <1>3, <1>4

LEMMA StepErrors ==
    ASSUME OwnHandlers, HInv, [Next]_vars
    PROVE  HInv'
  <1> IInv /\ TypeOK
    BY DEF HInv, IInv
  <1> flow \in Workflows
    BY DEF TypeOK
  <1> Drawn
    BY FlowDrawn
  <1>1. IInv'
    BY Step DEF HInv
  <1>2. CASE ExecuteLayer
    <2>1. PICK r \in Answers : RunLayer(r)
      BY <1>2 DEF ExecuteLayer
    <2>2. pc' = "settled"
      BY <2>1, Effect
    <2> QED
      BY <1>1, <2>1, <2>2, LayerErrors DEF HInv, Exhaustive
  <1>3. CASE Schedule
    BY <1>1, <1>3, ScheduleErrors DEF HInv
  <1>4. CASE UNCHANGED <<flow, context>> /\ (pc' = "success" => pc = "success")
    <2>1. /\ flow' = flow /\ opened' = opened /\ executed' = executed /\ failed' = failed /\ path' = path
          /\ choice' = choice /\ done' = done
      BY <1>4 DEF context
    <2>2. Parallels' = Parallels /\ Blocks' = Blocks
      BY <2>1, Fixed
    <2>3. VirtualsOpened'
      BY <2>1, <2>2 DEF HInv, VirtualsOpened, Iterations
    <2>4. \A id \in failed' : ErrorOK(id)'
      BY <2>1 DEF HInv, ErrorOK, OutOf
    <2>5. NextLayer' = NextLayer
      BY <2>1, <2>2, LayerKept
    <2>6. Exhaustive'
      BY <1>4, <2>5 DEF HInv, Exhaustive
    <2> QED
      BY <1>1, <2>3, <2>4, <2>6 DEF HInv
  <1>5. \/ ExecuteLayer \/ Schedule
        \/ UNCHANGED <<flow, context>> /\ (pc' = "success" => pc = "success")
    BY DEF Next, LayerFails, Cancel, HitLimit, Pause, Resume, vars, context
  <1> QED
    BY <1>2, <1>3, <1>4, <1>5

\* For every workflow whose error paths lead to handlers of their own: a block
\* whose handler threw, inside a loop, inside a parallel or outside, has what its
\* error path leads to run before the run ends well.
THEOREM ErrorsHandled == OwnHandlers => (Spec => []ErrorsAreHandled)
  <1> SUFFICES ASSUME OwnHandlers
               PROVE  Spec => []ErrorsAreHandled
    OBVIOUS
  <1>1. ASSUME HInv
        PROVE  ErrorsAreHandled
    <2> IInv /\ TypeOK
      BY <1>1 DEF HInv, IInv
    <2> flow \in Workflows
      BY DEF TypeOK
    <2> Drawn
      BY FlowDrawn
    <2> SUFFICES ASSUME pc = "success", NEW id \in failed, NEW w \in OutOf(id[1]), w.handle = "error",
                        \A t \in executed : t[1] # w.to
                 PROVE  FALSE
      BY DEF ErrorsAreHandled
    <2>1. NextLayer = {} /\ ErrorOK(id) /\ ~FlowControl(id[1]) /\ id \in executed /\ id \in Ids
      BY <1>1 DEF HInv, Exhaustive, IInv, BlocksFailed, TypeOK
    <2>2. w \in flow.wires /\ w.from = id[1]
      BY DEF OutOf
    <2>3. /\ flow.kind[w.from] # "router"
          /\ \A v \in Into(w.to) : v = w
          /\ \A c \in Containers : w.from \in flow.nodes[c] <=> w.to \in flow.nodes[c]
          /\ w.from \in Blocks /\ w.to \in Blocks
      BY <1>1, <2>1, <2>2, Handler
    <2>4. w \in Into(w.to)
      BY <2>2 DEF Into
    <2>5. ASSUME id \in Plain(Blocks)
          PROVE  FALSE
      <3>1. id = <<w.from, 0>> /\ w.to \in path
        BY <2>1, <2>2, <2>5 DEF Plain, ErrorOK
      <3>2. Around(w.to, Parallels) = {}
        BY <2>1, <2>3, <3>1, Places DEF Around, IInv, ParallelOK
      <3>3. DependenciesMet(Into(w.to))
        <4>1. flow.kind[w.from] \notin {"loop", "condition", "router"}
          BY <2>1, <2>2, <2>3 DEF FlowControl, ErrorOK
        <4>2. PlainMet(w)
          BY <2>1, <3>1, <4>1 DEF PlainMet
        <4> QED
          BY <2>3, <4>1, <4>2 DEF DependenciesMet
      <3>4. PlainReady(w.to)
        BY <3>1, <3>2, <3>3 DEF PlainReady
      <3>5. <<w.to, 0>> \in {<<b, 0>> : b \in {c \in Blocks : PlainReady(c)}}
        BY <2>3, <3>4
      <3>6. <<w.to, 0>> \in NextLayer
        BY <3>5 DEF NextLayer
      <3> QED
        BY <2>1, <3>6
    <2>6. ASSUME NEW p \in Parallels, id \in Virtual(p)
          PROVE  FALSE
      <3>1. PICK i \in Iterations(p) : id = <<w.from, i>> /\ w.from \in flow.nodes[p]
        BY <2>2, <2>6 DEF Virtual
      <3>2. w.to \in flow.nodes[p]
        BY <2>3, <3>1, Places
      <3>3. Reached(w.to, p, i)
        BY <2>1, <2>2, <2>3, <2>4, <3>1 DEF Reached, ErrorOK
      <3>4. w.to \in Missing(p, i) /\ w.from \notin Missing(p, i)
        BY <2>1, <3>1, <3>2, <3>3 DEF Missing
      <3>5. ~AllIterationsComplete(p)
        BY <3>4 DEF AllIterationsComplete, IterationComplete
      <3>6. p \in opened
        BY <1>1, <2>1, <3>1 DEF HInv, VirtualsOpened
      <3>7. Active(p) /\ <<p, 0>> \in executed
        BY <3>5, <3>6 DEF IInv, ParallelOK, Active
      <3>8. <<w.to, i>> \in IterationReady(p, i)
        <4>1. \A b \in Missing(p, i) : b \in flow.nodes[p]
          BY DEF Missing
        <4>2. ASSUME NEW b \in Missing(p, i), NEW v \in Into(b), v.from \notin flow.nodes[p]
              PROVE  DependenciesMet({v})
          <5>1. v.from = p /\ v.handle = "start"
            BY <4>1, <4>2, Places DEF Drawn, Into
          <5>2. PlainMet(v) /\ flow.kind[v.from] # "loop"
            BY <3>7, <5>1 DEF PlainMet, Parallels
          <5> QED
            BY <5>2 DEF DependenciesMet
        <4>3. w.to \in {c \in Missing(p, i) : \A v \in Into(c) : v.from \notin Missing(p, i)}
          BY <2>3, <3>4
        <4> QED
          BY <4>2, <4>3 DEF IterationReady
      <3> QED
        BY <2>1, <3>7, <3>8 DEF NextLayer
    <2> QED
      BY <2>1, <2>5, <2>6 DEF Ids
  <1>2. Init => HInv
    BY StartErrors
  <1>3. HInv /\ [Next]_vars => HInv'
    BY StepErrors
  <1>4. HInv => ErrorsAreHandled
    BY <1>1
  <1> QED
    BY <1>2, <1>3, <1>4, PTL DEF Spec

-----------------------------------------------------------------------------
(* Connections *)

\* Connections that keep to their containers: a container has its start, its end
\* and its error path, and nothing else has a start or an end; what a container
\* starts is inside it, and what is inside leads to nothing outside; in a parallel
\* nothing has an error path.  A block that a loop leads to has no other input,
\* for the inputs of such a block are met by weaker rules, and a router has no
\* error path, which would wait for its choice.
Orderly ==
    \A f \in Workflows : \A w \in f.wires :
        /\ w.from \in DOMAIN f.nodes => w.handle \in {"start", "end", "error"}
        /\ w.handle \in {"start", "end"} => w.from \in DOMAIN f.nodes
        /\ w.handle = "start" => w.to \in f.nodes[w.from]
        /\ \A c \in DOMAIN f.nodes : w.from \in f.nodes[c] =>
              w.to \in f.nodes[c] /\ (f.kind[c] = "parallel" => w.handle # "error")
        /\ f.kind[w.from] = "loop" => \A v \in f.wires : v.to = w.to => v = w
        /\ f.kind[w.from] = "router" => w.handle # "error"

\* Of the workflow of the run.
Ordered ==
    \A w \in flow.wires :
        /\ w.from \in Containers => w.handle \in {"start", "end", "error"}
        /\ w.handle \in {"start", "end"} => w.from \in Containers
        /\ w.handle = "start" => w.to \in flow.nodes[w.from]
        /\ \A c \in Containers : w.from \in flow.nodes[c] => w.to \in flow.nodes[c]
        /\ \A p \in Parallels : w.from \in flow.nodes[p] => w.handle # "error"
        /\ w.from \in Loops => \A v \in flow.wires : v.to = w.to => v = w
        /\ flow.kind[w.from] = "router" => w.handle # "error"

Outside(b) == Around(b, Parallels) = {}

\* The start of a container is the only way in.
Entered(b) == \E v \in Into(b) : v.handle = "start"

\* A decision is that of a block that has run and not failed.
ChoiceOK ==
    \A id \in Ids : choice[id] # None => id \in executed \ failed /\ ~FlowControl(id[1])

DoneOK == \A c \in done : <<c, 0>> \in executed

LEMMA FlowOrdered ==
    ASSUME Orderly, flow \in Workflows
    PROVE  Ordered
  <1> Drawn
    BY FlowDrawn
  <1>1. ASSUME NEW w \in flow.wires
        PROVE  /\ w.from \in Containers => w.handle \in {"start", "end", "error"}
               /\ w.handle \in {"start", "end"} => w.from \in Containers
               /\ w.handle = "start" => w.to \in flow.nodes[w.from]
               /\ \A c \in Containers : w.from \in flow.nodes[c] => w.to \in flow.nodes[c]
               /\ \A p \in Parallels : w.from \in flow.nodes[p] => w.handle # "error"
    BY DEF Orderly, Containers, Parallels
  <1>2. ASSUME NEW w \in flow.wires
        PROVE  /\ w.from \in Loops => \A v \in flow.wires : v.to = w.to => v = w
               /\ flow.kind[w.from] = "router" => w.handle # "error"
    BY DEF Orderly, Loops
  <1> QED
    BY <1>1, <1>2 DEF Ordered

\* Where a connection begins and ends.
LEMMA WireEnds ==
    ASSUME Drawn, Ordered, NEW w \in flow.wires
    PROVE  /\ w.from \in Blocks /\ w.to \in Blocks /\ w.to # Trigger
           /\ <<w.from, 0>> \in Ids /\ <<w.to, 0>> \in Ids
           /\ \A c \in Containers : w.from \in flow.nodes[c] =>
                 w.to \in flow.nodes[c] /\ w.handle \notin {"start", "end"} /\ w.from \notin Containers
           /\ \A c \in Containers : w.to \in flow.nodes[c] =>
                 w.from \in flow.nodes[c] \/ (w.from = c /\ w.handle = "start")
           /\ Outside(w.to) => Outside(w.from) /\ (w.from \in Parallels => w.handle # "start")
           /\ w.from \in Containers <=> flow.kind[w.from] \in {"loop", "parallel"}
           /\ w.from \in Loops <=> flow.kind[w.from] = "loop"
           /\ w.from \in Parallels <=> flow.kind[w.from] = "parallel"
  <1>1. w.from \in Blocks /\ w.to \in Blocks /\ w.to # Trigger
    BY DEF Drawn
  <1>2. <<w.from, 0>> \in Ids /\ <<w.to, 0>> \in Ids
    BY <1>1, Places
  <1>3. ASSUME NEW c \in Containers, w.from \in flow.nodes[c]
        PROVE  w.to \in flow.nodes[c] /\ w.handle \notin {"start", "end"} /\ w.from \notin Containers
    BY <1>3, Places DEF Ordered
  <1>4. ASSUME NEW c \in Containers, w.to \in flow.nodes[c]
        PROVE  w.from \in flow.nodes[c] \/ (w.from = c /\ w.handle = "start")
    BY <1>4 DEF Drawn
  <1>5. Outside(w.to) => Outside(w.from) /\ (w.from \in Parallels => w.handle # "start")
    BY <1>3, Places DEF Outside, Around, Ordered
  <1>6. w.from \in Containers <=> flow.kind[w.from] \in {"loop", "parallel"}
    BY <1>1, Places DEF FlowControl
  <1>7. /\ w.from \in Loops <=> flow.kind[w.from] = "loop"
        /\ w.from \in Parallels <=> flow.kind[w.from] = "parallel"
    BY <1>6 DEF Loops, Parallels
  <1> QED
    BY <1>1, <1>2, <1>3, <1>4, <1>5, <1>6, <1>7

\* When a connection between plain blocks is taken: the four cases.
StartTaken(w) ==
    /\ w.handle = "start"
    /\ \/ w.from \in Loops /\ Passes(w.from) > 0
       \/ w.from \in Parallels /\ w.from \in opened

EndTaken(w) == w.handle = "end" /\ w.from \in done

ErrorTaken(w) == w.handle = "error" /\ <<w.from, 0>> \in failed

ResultTaken(w) ==
    /\ w.handle \notin {"start", "end", "error"} /\ w.from \notin Containers
    /\ <<w.from, 0>> \in executed \ failed
    /\ flow.kind[w.from] = "condition" => choice[<<w.from, 0>>] = w.handle
    /\ flow.kind[w.from] = "router" => choice[<<w.from, 0>>] = w.to

Led(w) == StartTaken(w) \/ EndTaken(w) \/ ErrorTaken(w) \/ ResultTaken(w)

LEMMA TakenIsLed ==
    ASSUME Drawn, Ordered, NEW w \in flow.wires
    PROVE  /\ Taken(w, 0) <=> Led(w)
           /\ flow' = flow => (Taken(w, 0)' <=> Led(w)')
  <1>1. /\ w.from \in Containers => w.handle \in {"start", "end", "error"}
        /\ w.handle \in {"start", "end"} => w.from \in Containers
        /\ w.from \in Containers <=> flow.kind[w.from] \in {"loop", "parallel"}
        /\ w.from \in Loops <=> flow.kind[w.from] = "loop"
        /\ w.from \in Parallels <=> flow.kind[w.from] = "parallel"
    BY WireEnds DEF Ordered
  <1>2. Source(w, 0) = <<w.from, 0>> /\ Source(w, 0)' = <<w.from, 0>>
    BY DEF Source
  <1>3. Taken(w, 0) <=> Led(w)
    <2>1. CASE w.handle = "start"
      <3>1. CASE flow.kind[w.from] = "loop"
        <4>1. w.from \in Loops /\ w.from \notin Parallels
          BY <1>1, <3>1
        <4>2. Taken(w, 0) <=> Passes(w.from) > 0
          BY <2>1, <3>1 DEF Taken
        <4>3. StartTaken(w) <=> Passes(w.from) > 0
          BY <2>1, <4>1, Zenon DEF StartTaken
        <4>4. Led(w) <=> StartTaken(w)
          BY <2>1 DEF Led, EndTaken, ErrorTaken, ResultTaken
        <4> QED
          BY <4>2, <4>3, <4>4, Zenon
      <3>2. CASE flow.kind[w.from] = "parallel"
        <4>1. w.from \notin Loops /\ w.from \in Parallels
          BY <1>1, <3>2
        <4>2. Taken(w, 0) <=> w.from \in opened
          BY <2>1, <3>2 DEF Taken
        <4> QED
          BY <2>1, <4>1, <4>2 DEF Led, StartTaken, EndTaken, ErrorTaken, ResultTaken
      <3> QED
        BY <1>1, <2>1, <3>1, <3>2
    <2>2. CASE w.handle = "end"
      BY <2>2 DEF Taken, Led, StartTaken, EndTaken, ErrorTaken, ResultTaken
    <2>3. CASE w.handle = "error"
      BY <1>2, <2>3 DEF Taken, Led, StartTaken, EndTaken, ErrorTaken, ResultTaken
    <2>4. CASE w.handle \notin {"start", "end", "error"}
      BY <1>1, <1>2, <2>4 DEF Taken, Led, StartTaken, EndTaken, ErrorTaken, ResultTaken
    <2> QED
      BY <2>1, <2>2, <2>3, <2>4
  <1>4. ASSUME flow' = flow
        PROVE  Taken(w, 0)' <=> Led(w)'
    <2>0. Loops' = Loops /\ Parallels' = Parallels /\ Containers' = Containers
      BY <1>4, Fixed
    <2>1. CASE w.handle = "start"
      <3>1. CASE flow.kind[w.from] = "loop"
        <4>1. w.from \in Loops /\ w.from \notin Parallels
          BY <1>1, <3>1
        <4>2. Taken(w, 0)' <=> Passes(w.from)' > 0
          BY <1>4, <2>1, <3>1 DEF Taken
        <4>3. StartTaken(w)' <=> Passes(w.from)' > 0
          BY <2>0, <2>1, <4>1, Zenon DEF StartTaken
        <4>4. Led(w)' <=> StartTaken(w)'
          BY <2>1 DEF Led, EndTaken, ErrorTaken, ResultTaken
        <4> QED
          BY <4>2, <4>3, <4>4, Zenon
      <3>2. CASE flow.kind[w.from] = "parallel"
        <4>1. w.from \notin Loops /\ w.from \in Parallels
          BY <1>1, <3>2
        <4>2. Taken(w, 0)' <=> w.from \in opened'
          BY <1>4, <2>1, <3>2 DEF Taken
        <4> QED
          BY <2>0, <2>1, <4>1, <4>2 DEF Led, StartTaken, EndTaken, ErrorTaken, ResultTaken
      <3> QED
        BY <1>1, <2>1, <3>1, <3>2
    <2>2. CASE w.handle = "end"
      BY <2>2 DEF Taken, Led, StartTaken, EndTaken, ErrorTaken, ResultTaken
    <2>3. CASE w.handle = "error"
      BY <1>2, <2>3 DEF Taken, Led, StartTaken, EndTaken, ErrorTaken, ResultTaken
    <2>4. CASE w.handle \notin {"start", "end", "error"}
      BY <1>1, <1>2, <1>4, <2>0, <2>4 DEF Taken, Led, StartTaken, EndTaken, ErrorTaken, ResultTaken
    <2> QED
      BY <2>1, <2>2, <2>3, <2>4
  <1> QED
    BY <1>3, <1>4

-----------------------------------------------------------------------------
(* Why a block is on the path, and why it has run *)

\* A connection into a block on the path that put it there: it was taken, or the
\* block was put there ahead of its source, with all that comes after a decision.
Lit(w) == Led(w) \/ (~Skipped(w) /\ ~FlowControl(w.from) /\ w.from \in path /\ ~Entered(w.from))

ReasonOK == \A t \in path : Outside(t) /\ t # Trigger => \E w \in Into(t) : Lit(w)

\* A block has run only behind a connection that was taken.
ExecOK == \A t \in Blocks : <<t, 0>> \in executed /\ t # Trigger => \E w \in Into(t) : Led(w)

\* Between two passes every block of a loop has run that the loop or a taken
\* connection leads to, or none has run and none may: before the first pass, or
\* before another pass of a counted loop.
Sated(l) ==
    \A w \in flow.wires : w.to \in flow.nodes[l] /\ (w.from = l \/ Led(w)) => <<w.to, 0>> \in executed

Between(l) == Counted(l) /\ <<l, 0>> \notin executed /\ 0 < round[l] /\ round[l] <= flow.rounds[l]

Fresh(l) ==
    /\ Idle(l) /\ \A b \in flow.nodes[l] : <<b, 0>> \notin executed
    /\ Passes(l) = 0 \/ Between(l)

SatedOK == \A l \in Loops : Pass(l) \/ Fresh(l) \/ Sated(l)

\* A block that may run has a connection into it that was taken.
LEMMA ReadyIsLed ==
    ASSUME Drawn, Ordered, IInv, ChoiceOK, ReasonOK, NEW t \in Blocks, PlainReady(t), t # Trigger
    PROVE  Outside(t) /\ \E w \in Into(t) : Led(w)
  <1>1. t \in path /\ DependenciesMet(Into(t))
    BY DEF PlainReady
  <1>2. Outside(t)
    <2>1. ASSUME NEW p \in Parallels, t \in flow.nodes[p]
          PROVE  FALSE
      <3>1. Active(p)
        BY <1>1, <2>1 DEF IInv, ParallelOK, Idle
      <3> QED
        BY <2>1, <3>1 DEF PlainReady, Around
    <2> QED
      BY <2>1 DEF Outside, Around
  <1>3. PICK w \in Into(t) : Lit(w)
    BY <1>1, <1>2 DEF ReasonOK
  <1>4. ASSUME ~Skipped(w), ~FlowControl(w.from), w.from \in path
        PROVE  Led(w)
    <2> DEFINE id == <<w.from, 0>>
    <2>1. w \in flow.wires /\ w.to = t
      BY DEF Into
    <2>2. w.from \in Blocks /\ id \in Ids /\ w.to \in Blocks /\ w.from \notin Containers
      BY <1>4, <2>1, WireEnds, Places
    <2>3. \A v \in Into(t) : flow.kind[v.from] # "loop"
      <3>1. ASSUME NEW v \in Into(t), flow.kind[v.from] = "loop"
            PROVE  v = w
        BY <2>1, <3>1, WireEnds DEF Ordered, Into
      <3> QED
        BY <1>4, <3>1 DEF FlowControl
    <2>4. PlainMet(w)
      BY <1>1, <2>3 DEF DependenciesMet
    <2>5. w.handle \notin {"start", "end"} /\ flow.kind[w.from] # "condition"
      BY <1>4 DEF Skipped
    <2>6. CASE w.handle = "error"
      <3>1. flow.kind[w.from] # "router"
        BY <2>1, <2>6 DEF Ordered
      <3>2. id \in failed
        BY <1>4, <2>4, <2>5, <2>6, <3>1 DEF PlainMet, OffPath
      <3> QED
        BY <2>6, <3>2 DEF Led, ErrorTaken
    <2>7. CASE w.handle # "error" /\ flow.kind[w.from] = "router"
      <3>1. choice[id] = w.to
        BY <2>4, <2>5, <2>7 DEF PlainMet
      <3>2. choice[id] # None
        BY <2>2, <3>1 DEF Drawn
      <3>3. id \in executed \ failed
        BY <2>2, <3>2 DEF ChoiceOK
      <3> QED
        BY <2>2, <2>5, <2>7, <3>1, <3>3 DEF Led, ResultTaken
    <2>8. CASE w.handle # "error" /\ flow.kind[w.from] # "router"
      <3>1. id \in executed \ failed
        BY <1>4, <2>4, <2>5, <2>8 DEF PlainMet, OffPath
      <3> QED
        BY <2>2, <2>5, <2>8, <3>1 DEF Led, ResultTaken
    <2> QED
      BY <2>6, <2>7, <2>8
  <1> QED
    BY <1>2, <1>3, <1>4 DEF Lit

\* Between two passes of a loop nothing in it may run.
LEMMA LoopRests ==
    ASSUME Drawn, Ordered, IInv, ChoiceOK, ReasonOK, SatedOK,
           NEW l \in Loops, ~Pass(l), NEW id \in NextLayer
    PROVE  id[1] \notin flow.nodes[l]
  <1>1. CASE Fresh(l)
    BY <1>1, IdleLoopRests DEF Fresh
  <1>2. CASE Sated(l)
    <2> SUFFICES ASSUME id[1] \in flow.nodes[l]
                 PROVE  FALSE
      OBVIOUS
    <2>1. id = <<id[1], 0>> /\ id \notin executed /\ id[1] \in Blocks /\ id[1] # Trigger
      BY LoopBlockIsPlain, MayRunNext, Places
    <2>2. PlainReady(id[1])
      <3>1. ASSUME NEW p \in Parallels, NEW i \in Iterations(p), id = <<id[1], i>>
            PROVE  FALSE
        BY <2>1, <3>1 DEF Iterations
      <3> QED
        BY <3>1, MayRunNext
    <2>3. PICK w \in Into(id[1]) : Led(w)
      BY <2>1, <2>2, ReadyIsLed
    <2> QED
      BY <1>2, <2>1, <2>3 DEF Sated, Into
  <1> QED
    BY <1>1, <1>2 DEF SatedOK

\* What is repeated is not in the layer.
LEMMA NoneRepeated ==
    ASSUME Drawn, Ordered, IInv, ChoiceOK, ReasonOK, SatedOK, NEW r \in Answers, NEW id \in NextLayer
    PROVE  id[1] \notin Repeated(r) /\ \A l \in Saying(r, "go") : l \in Loops /\ ~Pass(l) /\ id[1] \notin flow.nodes[l]
  <1>1. ASSUME NEW l \in Saying(r, "go")
        PROVE  l \in Loops /\ ~Pass(l) /\ id[1] \notin flow.nodes[l]
    <2>1. l \in Loops /\ <<l, 0>> \in NextLayer
      BY Given DEF Saying
    <2>2. ~Pass(l)
      BY <2>1, MayRunNext DEF Pass
    <2> QED
      BY <2>1, <2>2, LoopRests
  <1> QED
    BY <1>1 DEF Repeated

\* A connection stays taken in a layer that does not repeat its source; and the
\* outcome of a block that is not in the layer leads where it led.
LEMMA LayerLed ==
    ASSUME Drawn, Ordered, IInv, ChoiceOK, NEW r \in Answers, RunLayer(r), NEW w \in flow.wires, w.from \notin Repeated(r)
    PROVE  /\ Led(w) => Led(w)'
           /\ Led(w)' /\ w.handle \notin {"start", "end"} /\ <<w.from, 0>> \notin NextLayer => Led(w)
  <1> DEFINE id == <<w.from, 0>>
  <1> TypeOK
    BY DEF IInv
  <1>1. /\ flow' = flow
        /\ executed' = (executed \ Plain(Repeated(r))) \cup Ran(r)
        /\ failed' = (failed \ (Plain(Repeated(r)) \cup Ran(r))) \cup {i \in NextLayer : r[i] = "error"}
        /\ \A i \in Ids : i \notin Plain(Repeated(r)) \cup Ran(r) => choice'[i] = choice[i]
        /\ opened' = opened \cup Saying(r, "open")
        /\ done' = done \cup Saying(r, "stop") \cup Saying(r, "close")
    BY Effect
  <1>2. id \in Ids /\ id \notin Plain(Repeated(r))
    BY WireEnds DEF Plain
  <1>3. ASSUME id \notin NextLayer
        PROVE  /\ id \in executed' <=> id \in executed
               /\ id \in failed' <=> id \in failed
               /\ choice'[id] = choice[id]
    BY <1>1, <1>2, <1>3 DEF Ran
  <1>4. id \in executed => id \notin NextLayer
    BY MayRunNext
  <1>5. Loops' = Loops /\ Parallels' = Parallels /\ Containers' = Containers
    BY <1>1, Fixed
  <1>6. StartTaken(w) => StartTaken(w)'
    <2>1. ASSUME w.from \in Loops, Passes(w.from) > 0
          PROVE  Passes(w.from)' > 0
      <3>1. CountOK(w.from)
        BY <2>1 DEF IInv, LoopOK
      <3>2. Passes(w.from) \in Nat /\ (Passes(w.from)' = Passes(w.from) \/ Passes(w.from)' = Passes(w.from) + 1)
        BY <2>1, <3>1, LoopTurn, PassesTurn
      <3> QED
        BY <2>1, <3>2
    <2> QED
      BY <1>1, <1>5, <2>1 DEF StartTaken
  <1>7. EndTaken(w) => EndTaken(w)'
    BY <1>1 DEF EndTaken
  <1>8. ErrorTaken(w) => ErrorTaken(w)'
    BY <1>3, <1>4 DEF ErrorTaken, TypeOK
  <1>9. ResultTaken(w) => ResultTaken(w)'
    BY <1>1, <1>3, <1>4, <1>5 DEF ResultTaken
  <1>10. ASSUME Led(w)', w.handle \notin {"start", "end"}, id \notin NextLayer
         PROVE  Led(w)
    <2>1. ErrorTaken(w)' => ErrorTaken(w)
      BY <1>3, <1>10 DEF ErrorTaken
    <2>2. ResultTaken(w)' => ResultTaken(w)
      BY <1>1, <1>3, <1>5, <1>10 DEF ResultTaken
    <2> QED
      BY <1>10, <2>1, <2>2 DEF Led, StartTaken, EndTaken
  <1> QED
    BY <1>6, <1>7, <1>8, <1>9, <1>10 DEF Led

\* A connection whose source keeps its outcome is taken after the containers were
\* looked at just when it was before.
LEMMA ScheduleLed ==
    ASSUME Drawn, Ordered, IInv, ChoiceOK, Schedule, NEW w \in flow.wires
    PROVE  /\ Led(w) /\ w.from \notin Reset => Led(w)'
           /\ Led(w)' => Led(w)
  <1> DEFINE id == <<w.from, 0>>
  <1> TypeOK
    BY DEF IInv
  <1>1. /\ flow' = flow /\ opened' = opened /\ done' = done
        /\ executed' = executed \ Plain(Reset \cup Over \cup Joins)
        /\ failed' = failed \ Plain(Reset)
        /\ choice' = [i \in Ids |-> IF i \in Plain(Reset) THEN None ELSE choice[i]]
        /\ Over \subseteq Loops /\ Joins \subseteq Parallels
    BY ScheduleEffect
  <1>2. id \in Ids /\ (id \in Plain(Reset) <=> w.from \in Reset)
    BY WireEnds DEF Plain
  <1>3. id \in executed' <=> id \in executed /\ w.from \notin Reset /\ w.from \notin Over \cup Joins
    BY <1>1 DEF Plain
  <1>4. w.from \in Over \cup Joins => w.from \in Containers
    BY <1>1, Places
  <1>5. Loops' = Loops /\ Parallels' = Parallels /\ Containers' = Containers
    BY <1>1, Fixed
  <1>6. StartTaken(w)' <=> StartTaken(w)
    <2>1. w.from \in Loops => Passes(w.from)' = Passes(w.from)
      BY PassesLooked
    <2> QED
      BY <1>1, <1>5, <2>1 DEF StartTaken
  <1>7. EndTaken(w)' <=> EndTaken(w)
    BY <1>1 DEF EndTaken
  <1>8. /\ ErrorTaken(w) /\ w.from \notin Reset => ErrorTaken(w)'
        /\ ErrorTaken(w)' => ErrorTaken(w)
    BY <1>1, <1>2 DEF ErrorTaken
  <1>9. /\ ResultTaken(w) /\ w.from \notin Reset => ResultTaken(w)'
        /\ ResultTaken(w)' => ResultTaken(w)
    <2>1. w.from \notin Reset => choice'[id] = choice[id] /\ (id \in failed' <=> id \in failed)
      BY <1>1, <1>2
    <2> QED
      BY <1>1, <1>3, <1>4, <1>5, <2>1 DEF ResultTaken
  <1> QED
    BY <1>6, <1>7, <1>8, <1>9 DEF Led

-----------------------------------------------------------------------------
(* What has run was led to *)

\* The same inside a parallel: a virtual block has run behind the start of the
\* parallel, or behind a virtual block of the same iteration that led to it.
VirtuallyLed(w, p, i) ==
    \/ w.from = p
    \/ /\ w.from \in flow.nodes[p] /\ <<w.from, i>> \in executed
       /\ flow.kind[w.from] = "condition" => choice[<<w.from, i>>] = w.handle
       /\ flow.kind[w.from] = "router" => choice[<<w.from, i>>] = w.to

VirtualOK ==
    \A p \in Parallels : \A b \in flow.nodes[p] : \A i \in Iterations(p) : <<b, i>> \in executed =>
        /\ p \in opened /\ <<b, i>> \notin failed
        /\ \E w \in Into(b) : VirtuallyLed(w, p, i)

\* What a connection leads out of and into is repeated, or reset, together.
LEMMA Together ==
    ASSUME Drawn, Ordered, NEW w \in flow.wires
    PROVE  /\ \A r \in Answers : w.from \in Repeated(r) => w.to \in Repeated(r)
           /\ w.from \in Reset => w.to \in Reset
  <1>1. \A ls \in SUBSET Loops : w.from \in UNION {flow.nodes[l] : l \in ls} => w.to \in UNION {flow.nodes[l] : l \in ls}
    BY WireEnds, Places
  <1>2. ASSUME NEW r \in Answers
        PROVE  {k \in Saying(r, "go") : ~Counted(k)} \in SUBSET Loops
    BY Given
  <1>3. {k \in Over \ Lasts : Counted(k)} \in SUBSET Loops
    BY DEF Over
  <1>4. \A r \in Answers : w.from \in Repeated(r) => w.to \in Repeated(r)
    BY <1>1, <1>2 DEF Repeated
  <1>5. w.from \in Reset => w.to \in Reset
    BY <1>1, <1>3 DEF Reset
  <1> QED
    BY <1>4, <1>5

\* Containers are neither repeated nor reset.
LEMMA ContainersStand ==
    ASSUME Drawn, NEW c \in Containers
    PROVE  c \notin Reset /\ \A r \in Answers : c \notin Repeated(r)
  <1>1. \A l \in Loops : c \notin flow.nodes[l]
    BY Places
  <1>2. c \notin Reset
    BY <1>1 DEF Reset, Over
  <1>3. \A r \in Answers : c \notin Repeated(r)
    BY <1>1, Given DEF Repeated
  <1> QED
    BY <1>2, <1>3

LEMMA PlainNext ==
    ASSUME Drawn, NEW t, <<t, 0>> \in NextLayer
    PROVE  t \in Blocks /\ PlainReady(t) /\ <<t, 0>> \notin executed
  <1>1. ASSUME NEW p \in Parallels, NEW i \in Iterations(p), <<t, 0>> = <<t, i>>
        PROVE  FALSE
    BY <1>1 DEF Iterations
  <1> QED
    BY <1>1, MayRunNext

\* The decisions after a layer.
LEMMA LayerChoice ==
    ASSUME Drawn, NEW r \in Answers, RunLayer(r)
    PROVE  choice' = [id \in Ids |->
              IF id \in Plain(Repeated(r)) THEN None
              ELSE IF id \in Ran(r) /\ flow.kind[id[1]] \in {"condition", "router"}
                      /\ r[id] # "error" /\ choice[id] = None
                   THEN r[id] ELSE choice[id]]
  <1>1. Ran(r) = DOMAIN r \ {id \in DOMAIN r : r[id] = "pause"}
    BY Given DEF Ran
  <1>2. {id[1] : id \in {i \in DOMAIN r : r[i] = "go"}} = Saying(r, "go")
    BY Given
  <1>3. Plain(Repeated(r)) = Plain(UNION {flow.nodes[l] : l \in
            {k \in {id[1] : id \in {i \in DOMAIN r : r[i] = "go"}} : ~Counted(k)}})
    BY <1>2 DEF Repeated
  <1> QED
    BY <1>1, <1>3 DEF RunLayer

LEMMA LayerDecides ==
    ASSUME Drawn, IInv, ChoiceOK, DoneOK, NEW r \in Answers, RunLayer(r)
    PROVE  ChoiceOK' /\ DoneOK'
  <1>1. /\ flow' = flow
        /\ executed' = (executed \ Plain(Repeated(r))) \cup Ran(r)
        /\ failed' = (failed \ (Plain(Repeated(r)) \cup Ran(r))) \cup {id \in NextLayer : r[id] = "error"}
        /\ done' = done \cup Saying(r, "stop") \cup Saying(r, "close")
    BY Effect
  <1>2. Ids' = Ids
    BY <1>1, Fixed
  <1>3. ASSUME NEW id \in Ids, choice'[id] # None
        PROVE  id \in executed' \ failed' /\ ~FlowControl(id[1])
    <2>1. CASE /\ id \in Ran(r) /\ flow.kind[id[1]] \in {"condition", "router"}
               /\ r[id] # "error"
      BY <1>1, <2>1 DEF FlowControl
    <2>2. CASE choice[id] # None /\ id \notin Plain(Repeated(r))
      <3>1. id \in executed \ failed /\ ~FlowControl(id[1])
        BY <2>2 DEF ChoiceOK
      <3>2. id \notin NextLayer
        BY <3>1, MayRunNext
      <3> QED
        BY <1>1, <2>2, <3>1, <3>2
    <2> QED
      BY <1>3, <2>1, <2>2, LayerChoice
  <1>4. ASSUME NEW c \in done'
        PROVE  <<c, 0>> \in executed'
    <2>1. CASE c \in done
      <3>1. c \in Containers /\ <<c, 0>> \in executed
        BY <2>1 DEF IInv, TypeOK, DoneOK
      <3>2. <<c, 0>> \notin Plain(Repeated(r))
        BY <3>1, ContainersStand DEF Plain
      <3> QED
        BY <1>1, <3>1, <3>2
    <2>2. CASE c \in Saying(r, "stop") \cup Saying(r, "close")
      BY <1>1, <2>2 DEF Saying, Ran
    <2> QED
      BY <1>1, <2>1, <2>2
  <1> QED
    BY <1>1, <1>2, <1>3, <1>4 DEF ChoiceOK, DoneOK, FlowControl

LEMMA ScheduleDecides ==
    ASSUME Drawn, IInv, ChoiceOK, DoneOK, Schedule
    PROVE  ChoiceOK' /\ DoneOK'
  <1> TypeOK
    BY DEF IInv
  <1>1. /\ flow' = flow /\ done' = done
        /\ executed' = executed \ Plain(Reset \cup Over \cup Joins)
        /\ failed' = failed \ Plain(Reset)
        /\ choice' = [id \in Ids |-> IF id \in Plain(Reset) THEN None ELSE choice[id]]
        /\ Over \subseteq Loops /\ Joins \subseteq Parallels
    BY ScheduleEffect
  <1>2. Ids' = Ids
    BY <1>1, Fixed
  <1>3. ASSUME NEW id \in Ids, choice'[id] # None
        PROVE  id \in executed' \ failed' /\ ~FlowControl(id[1])
    <2>1. id \notin Plain(Reset) /\ choice[id] # None
      BY <1>1, <1>3
    <2>2. id \in executed \ failed /\ ~FlowControl(id[1])
      BY <2>1 DEF ChoiceOK
    <2>3. id[1] \notin Over \cup Joins
      BY <1>1, <2>2, Places
    <2> QED
      BY <1>1, <2>1, <2>2, <2>3 DEF Plain
  <1>4. ASSUME NEW c \in done
        PROVE  <<c, 0>> \in executed'
    <2>1. c \in Containers /\ <<c, 0>> \in executed
      BY DEF TypeOK, DoneOK
    <2>2. c \notin Over \cup Joins
      BY DEF Over, PassOver, Joins, Joined, Active
    <2> QED
      BY <1>1, <2>1, <2>2, ContainersStand DEF Plain
  <1> QED
    BY <1>1, <1>2, <1>3, <1>4 DEF ChoiceOK, DoneOK, FlowControl

\* An iteration misses only what something in it led to.
LEMMA ReachedIsLed ==
    ASSUME Drawn, Ordered, NEW p \in Parallels, NEW b \in flow.nodes[p], NEW i, Reached(b, p, i)
    PROVE  \E w \in Into(b) : VirtuallyLed(w, p, i)
  <1>1. CASE {w \in Into(b) : w.from \in flow.nodes[p]} = {}
    <2>1. PICK w \in Into(b) : w.from \notin flow.nodes[p]
      BY <1>1 DEF Reached
    <2>2. w.from = p
      BY <2>1, WireEnds, Places DEF Into
    <2> QED
      BY <2>2 DEF VirtuallyLed
  <1>2. CASE {w \in Into(b) : w.from \in flow.nodes[p]} # {}
    BY <1>2 DEF Reached, VirtuallyLed
  <1> QED
    BY <1>1, <1>2

LEMMA LayerVirtual ==
    ASSUME Drawn, Ordered, IInv, VirtualOK, NEW r \in Answers, RunLayer(r)
    PROVE  VirtualOK'
  <1>1. /\ flow' = flow
        /\ executed' = (executed \ Plain(Repeated(r))) \cup Ran(r)
        /\ failed' = (failed \ (Plain(Repeated(r)) \cup Ran(r))) \cup {id \in NextLayer : r[id] = "error"}
        /\ opened' = opened \cup Saying(r, "open")
        /\ \A i \in Ids : i \notin Plain(Repeated(r)) \cup Ran(r) => choice'[i] = choice[i]
    BY Effect
  <1>2. Parallels' = Parallels
    BY <1>1, Fixed
  <1>3. ASSUME NEW p \in Parallels, NEW b \in flow.nodes[p], NEW i \in Iterations(p), <<b, i>> \in executed
        PROVE  /\ <<b, i>> \in executed' /\ choice'[<<b, i>>] = choice[<<b, i>>]
               /\ <<b, i>> \in failed' => <<b, i>> \in failed
    <2>1. <<b, i>> \in Ids /\ <<b, i>> \notin Plain(Repeated(r))
      BY DEF Ids, Virtual, Plain, Iterations
    <2>2. <<b, i>> \notin NextLayer
      BY <1>3, MayRunNext
    <2> QED
      BY <1>1, <1>3, <2>1, <2>2 DEF Ran
  <1>4. ASSUME NEW p \in Parallels, NEW b \in flow.nodes[p], NEW i \in Iterations(p), <<b, i>> \in executed'
        PROVE  /\ p \in opened' /\ <<b, i>> \notin failed'
               /\ \E w \in Into(b) : VirtuallyLed(w, p, i)
    <2>1. CASE <<b, i>> \in executed
      BY <1>1, <1>3, <2>1 DEF VirtualOK
    <2>2. CASE <<b, i>> \in NextLayer /\ <<b, i>> \notin executed
      <3>1. i # 0
        BY DEF Iterations
      <3>2. PICK q \in Parallels : Active(q) /\ b \in flow.nodes[q] /\ b \in Missing(q, i)
        BY <2>2, <3>1, MayRunNext
      <3>3. q = p
        BY <3>2, Places DEF Drawn
      <3>4. r[<<b, i>>] # "error"
        <4>1. \A w \in OutOf(b) : w.handle # "error"
          BY DEF Ordered, OutOf
        <4>2. Behind(b, "error") = {}
          BY <4>1 DEF Behind
        <4>3. DOMAIN r = NextLayer /\ ~Unhandled(r)
          BY Given DEF RunLayer
        <4>4. \A id \in NextLayer : r[id] = "error" => Behind(id[1], "error") # {}
          BY <4>3 DEF Unhandled
        <4> QED
          BY <2>2, <4>2, <4>4
      <3>5. <<b, i>> \notin failed
        BY <2>2 DEF IInv, TypeOK
      <3>6. Reached(b, p, i)
        BY <3>2, <3>3 DEF Missing
      <3>7. \E w \in Into(b) : VirtuallyLed(w, p, i)
        BY <3>6, ReachedIsLed
      <3> QED
        BY <1>1, <2>2, <3>2, <3>3, <3>4, <3>5, <3>7 DEF Active
    <2> QED
      BY <1>1, <1>4, <2>1, <2>2 DEF Ran
  <1>5. ASSUME NEW p \in Parallels, NEW i \in Iterations(p), NEW w, VirtuallyLed(w, p, i)
        PROVE  VirtuallyLed(w, p, i)'
    BY <1>1, <1>3, <1>5 DEF VirtuallyLed
  <1>6. ASSUME NEW p \in Parallels, NEW b \in flow.nodes[p], NEW i \in Iterations(p), <<b, i>> \in executed'
        PROVE  \E w \in Into(b) : VirtuallyLed(w, p, i)'
    BY <1>4, <1>5, <1>6
  <1> QED
    BY <1>1, <1>2, <1>4, <1>6 DEF VirtualOK, Iterations, Into

LEMMA ScheduleVirtual ==
    ASSUME Drawn, IInv, VirtualOK, Schedule
    PROVE  VirtualOK'
  <1> TypeOK
    BY DEF IInv
  <1>1. /\ flow' = flow /\ opened' = opened
        /\ executed' = executed \ Plain(Reset \cup Over \cup Joins)
        /\ failed' = failed \ Plain(Reset)
        /\ choice' = [i \in Ids |-> IF i \in Plain(Reset) THEN None ELSE choice[i]]
    BY ScheduleEffect
  <1>2. Parallels' = Parallels
    BY <1>1, Fixed
  <1>3. ASSUME NEW p \in Parallels, NEW b \in flow.nodes[p], NEW i \in Iterations(p)
        PROVE  /\ <<b, i>> \in executed' <=> <<b, i>> \in executed
               /\ choice'[<<b, i>>] = choice[<<b, i>>]
    <2>1. <<b, i>> \in Ids /\ \A s : <<b, i>> \notin Plain(s)
      BY DEF Ids, Virtual, Plain, Iterations
    <2> QED
      BY <1>1, <2>1
  <1>4. ASSUME NEW p \in Parallels, NEW i \in Iterations(p), NEW w, VirtuallyLed(w, p, i)
        PROVE  VirtuallyLed(w, p, i)'
    BY <1>1, <1>3, <1>4 DEF VirtuallyLed
  <1>5. ASSUME NEW p \in Parallels, NEW b \in flow.nodes[p], NEW i \in Iterations(p), <<b, i>> \in executed
        PROVE  /\ p \in opened' /\ <<b, i>> \notin failed'
               /\ \E w \in Into(b) : VirtuallyLed(w, p, i)'
    BY <1>1, <1>4, <1>5 DEF VirtualOK
  <1> QED
    BY <1>1, <1>2, <1>3, <1>5 DEF VirtualOK, Iterations, Into

LEMMA LayerExec ==
    ASSUME Drawn, Ordered, IInv, ChoiceOK, ReasonOK, SatedOK, ExecOK, NEW r \in Answers, RunLayer(r)
    PROVE  ExecOK'
  <1>1. flow' = flow /\ executed' = (executed \ Plain(Repeated(r))) \cup Ran(r)
    BY Effect
  <1>2. Blocks' = Blocks /\ Trigger' = Trigger
    BY <1>1, Fixed
  <1>3. ASSUME NEW t \in Blocks, <<t, 0>> \in executed', t # Trigger
        PROVE  \E w \in Into(t) : Led(w)'
    <2>1. t \notin Repeated(r) /\ \E w \in Into(t) : Led(w)
      <3>1. CASE <<t, 0>> \in NextLayer
        <4>1. t \notin Repeated(r)
          BY <3>1, NoneRepeated
        <4>2. PlainReady(t)
          BY <3>1, PlainNext
        <4> QED
          BY <1>3, <4>1, <4>2, ReadyIsLed
      <3>2. CASE <<t, 0>> \in executed \ Plain(Repeated(r))
        BY <1>3, <3>2 DEF ExecOK, Plain
      <3> QED
        BY <1>1, <1>3, <3>1, <3>2 DEF Ran
    <2>2. PICK w \in Into(t) : Led(w)
      BY <2>1
    <2>3. w \in flow.wires /\ w.to = t /\ w.from \notin Repeated(r)
      BY <2>1, Together DEF Into
    <2> QED
      BY <2>2, <2>3, LayerLed
  <1> QED
    BY <1>1, <1>2, <1>3 DEF ExecOK, Into

LEMMA ScheduleExec ==
    ASSUME Drawn, Ordered, IInv, ChoiceOK, ExecOK, Schedule
    PROVE  ExecOK'
  <1>1. flow' = flow /\ executed' = executed \ Plain(Reset \cup Over \cup Joins)
    BY ScheduleEffect DEF IInv
  <1>2. Blocks' = Blocks /\ Trigger' = Trigger
    BY <1>1, Fixed
  <1>3. ASSUME NEW t \in Blocks, <<t, 0>> \in executed', t # Trigger
        PROVE  \E w \in Into(t) : Led(w)'
    <2>1. t \notin Reset /\ <<t, 0>> \in executed
      BY <1>1, <1>3 DEF Plain
    <2>2. PICK w \in Into(t) : Led(w)
      BY <1>3, <2>1 DEF ExecOK
    <2>3. w \in flow.wires /\ w.to = t /\ w.from \notin Reset
      BY <2>1, Together DEF Into
    <2> QED
      BY <2>2, <2>3, ScheduleLed
  <1> QED
    BY <1>1, <1>2, <1>3 DEF ExecOK, Into

-----------------------------------------------------------------------------
(* Why a block is put on the path *)

\* What is on the active path after a layer was on it, or is among what a block of
\* the layer activated; all of that is on it.
LEMMA OpenedWhy ==
    ASSUME NEW result, NEW ran, NEW start, Len(flow.blocks) \in Nat,
           NEW t \in Opened(result, ran, start)
    PROVE  \/ t \in start
           \/ \E id \in ran : \E p : /\ t \in Activated(id[1], result[id], p)
                                     /\ Activated(id[1], result[id], p) \subseteq Opened(result, ran, start)
  <1> DEFINE N == Len(flow.blocks) * (MaxRounds + 1)
  <1>1. N \in Nat /\ \E F : Opened(result, ran, start) = F[N] /\ OpenedSteps(F, result, ran, start)
    BY OpenedRuns
  <1>2. PICK F : Opened(result, ran, start) = F[N] /\ OpenedSteps(F, result, ran, start)
    BY <1>1
  <1>3. \A n \in 0 .. N :
           F[n] = IF n = 0 THEN start
                  ELSE IF LayerOrder(n) \in ran
                  THEN F[n - 1] \cup Activated(LayerOrder(n)[1], result[LayerOrder(n)], F[n - 1])
                  ELSE F[n - 1]
    BY <1>2 DEF OpenedSteps
  <1> HIDE DEF N
  <1>4. N \in 0 .. N /\ t \in F[N]
    BY <1>1, <1>2
  <1>5. \A n \in 0 .. N : n # 0 => F[n - 1] \subseteq F[n]
    BY <1>3
  <1> DEFINE T == {n \in 0 .. N : t \in F[n]}
  <1>6. \E m \in T : \A j \in T : m <= j
    <2>1. T \in SUBSET Nat /\ T # {}
      BY <1>1, <1>4
    <2> HIDE DEF T
    <2> QED
      BY <2>1, Least
  <1>7. PICK m \in T : \A j \in T : m <= j
    BY <1>6
  <1>8. CASE m = 0
    BY <1>3, <1>7, <1>8
  <1>9. CASE m # 0
    <2>1. m - 1 \in 0 .. N /\ ~(m <= m - 1) /\ m \in 0 .. N
      BY <1>1, <1>9
    <2>2. t \notin F[m - 1] /\ t \in F[m]
      BY <1>7, <2>1
    <2> DEFINE id == LayerOrder(m)
               A == Activated(id[1], result[id], F[m - 1])
    <2>3. id \in ran /\ F[m] = F[m - 1] \cup A
      BY <1>3, <1>9, <2>1, <2>2
    <2> HIDE DEF A
    <2>4. t \in A /\ A \subseteq F[m]
      BY <2>2, <2>3
    <2>5. m \in 0 .. N /\ N \in m .. N /\ N \in Nat
      BY <1>1, <2>1
    <2>6. F[m] \subseteq F[N]
      BY <1>5, <2>5, Upwards
    <2>7. A \subseteq Opened(result, ran, start)
      BY <1>2, <2>4, <2>6 DEF N
    <2> QED
      BY <2>3, <2>4, <2>7 DEF A
  <1> QED
    BY <1>8, <1>9

\* What a decision puts on the path beyond the block it leads to comes after a
\* block that is put there too, and that the start of no container leads to.
LEMMA SelectedWhy ==
    ASSUME Drawn, Ordered, flow \in Workflows, NEW u \in flow.wires, u.from \notin Containers, NEW p
    PROVE  /\ \A q \in Parallels : u.to \in flow.nodes[q] => Selected(u.to, p) \subseteq flow.nodes[q]
           /\ \A t \in Selected(u.to, p) : t # u.to =>
                 \E w \in Into(t) :
                    /\ w.from \in Selected(u.to, p) /\ ~Skipped(w) /\ ~FlowControl(w.from)
                    /\ Outside(t) => ~Entered(w.from)
  <1> DEFINE c == u.to
             q == p \cup {c}
             next == [d \in Blocks |->
                        IF FlowControl(d) THEN {}
                        ELSE {w.to : w \in {v \in OutOf(d) : ~Skipped(v) /\ v.to \notin q}}]
             S == Closure({c}, next)
  <1>0. c \in Blocks
    BY WireEnds
  <1>1. Selected(c, p) = IF Regular(c) THEN S ELSE {c}
    BY DEF Selected, Downstream
  <1>2. \A d \in Blocks : \A t \in next[d] : \E w \in Into(t) : w.from = d /\ ~Skipped(w) /\ ~FlowControl(d)
    BY DEF OutOf, Into
  <1>3. \A d \in Blocks : next[d] \subseteq Blocks
    BY WireEnds DEF OutOf
  <1> HIDE DEF next
  <1>4. /\ \A t \in S : t \in {c} \/ \E d \in S : t \in next[d]
        /\ {c} \subseteq S /\ S \subseteq Blocks
    <2> HIDE DEF c
    <2>1. {c} \in SUBSET Blocks
      BY <1>0
    <2> QED
      BY <1>3, <2>1, ClosureClosed, Zenon
  <1>5. ASSUME NEW k \in Parallels, c \in flow.nodes[k]
        PROVE  S \subseteq flow.nodes[k]
    <2>1. ASSUME NEW d \in flow.nodes[k]
          PROVE  next[d] \subseteq flow.nodes[k]
      <3>1. d \in Blocks /\ k \in Containers
        BY Places
      <3> SUFFICES ASSUME NEW t \in next[d]
                   PROVE  t \in flow.nodes[k]
        OBVIOUS
      <3>2. PICK w \in Into(t) : w.from = d
        BY <1>2, <3>1
      <3> QED
        BY <3>1, <3>2, WireEnds DEF Into
    <2> QED
      BY <1>5, <2>1, ClosureStays DEF Drawn
  <1> HIDE DEF S
  <1>6. \A t \in S : t # c => \E w \in Into(t) : w.from \in S /\ ~Skipped(w) /\ ~FlowControl(w.from)
    BY <1>2, <1>4
  <1>7. ASSUME NEW d \in S, NEW w \in flow.wires, w.from = d, Outside(w.to)
        PROVE  ~Entered(d)
    <2> SUFFICES ASSUME NEW v \in Into(d), v.handle = "start"
                 PROVE  FALSE
      BY DEF Entered
    <2>1. PICK x \in Into(d) : x.from \notin Containers
      <3>1. CASE d = c
        BY <3>1 DEF Into
      <3>2. CASE d # c
        BY <1>6, <3>2, WireEnds, Places DEF Into
      <3> QED
        BY <3>1, <3>2
    <2>2. v \in flow.wires /\ v.to = d /\ x \in flow.wires /\ x.to = d
      BY DEF Into
    <2>3. v.from \in Containers /\ d \in flow.nodes[v.from]
      BY <2>2 DEF Ordered
    <2>4. v.from \notin Loops
      BY <2>1, <2>2, <2>3 DEF Ordered
    <2>5. v.from \in Parallels
      BY <2>3, <2>4, Places
    <2> QED
      BY <1>7, <2>3, <2>5, WireEnds DEF Outside, Around
  <1>8. ASSUME NEW t \in S, t # c
        PROVE  \E w \in Into(t) : w.from \in S /\ ~Skipped(w) /\ ~FlowControl(w.from) /\ (Outside(t) => ~Entered(w.from))
    <2>1. PICK w \in Into(t) : w.from \in S /\ ~Skipped(w) /\ ~FlowControl(w.from)
      BY <1>6, <1>8
    <2> QED
      BY <1>7, <2>1 DEF Into
  <1> QED
    BY <1>1, <1>5, <1>8

\* What a layer puts on the path before the blocks open theirs.
LEMMA MarkedWhy ==
    ASSUME Drawn, Ordered, IInv, ChoiceOK, ReasonOK, SatedOK, NEW r \in Answers, RunLayer(r),
           NEW t \in Marked(r), Marked(r) \subseteq path', Outside(t), t # Trigger
    PROVE  \E w \in Into(t) : Lit(w)'
  <1> TypeOK
    BY DEF IInv
  <1>1. /\ flow' = flow
        /\ failed' = (failed \ (Plain(Repeated(r)) \cup Ran(r))) \cup {id \in NextLayer : r[id] = "error"}
        /\ done' = done \cup Saying(r, "stop") \cup Saying(r, "close")
    BY Effect
  <1>2. Loops' = Loops
    BY <1>1, Fixed
  <1>3. CASE t \in Erring(r)
    <2>1. PICK id \in NextLayer : r[id] = "error" /\ t \in Behind(id[1], "error")
      BY <1>3 DEF Erring
    <2>2. PICK w \in OutOf(id[1]) : w.handle = "error" /\ w.to = t
      BY <2>1 DEF Behind
    <2>3. w \in flow.wires /\ w \in Into(t) /\ w.from = id[1]
      BY <2>2 DEF OutOf, Into
    <2>4. \A p \in Parallels : id[1] \notin flow.nodes[p]
      BY <2>2, <2>3 DEF Ordered
    <2>5. id = <<w.from, 0>>
      BY <2>3, <2>4, MayRunNext
    <2>6. ErrorTaken(w)'
      BY <1>1, <2>1, <2>2, <2>5 DEF ErrorTaken
    <2> QED
      BY <2>3, <2>6 DEF Lit, Led
  <1>4. CASE t \in Begun(r)
    <2>1. PICK c \in Saying(r, "go") \cup Saying(r, "open") : t \in Behind(c, "start")
      BY <1>4 DEF Begun
    <2>2. PICK w \in OutOf(c) : w.handle = "start" /\ w.to = t
      BY <2>1 DEF Behind
    <2>3. w \in flow.wires /\ w \in Into(t) /\ w.from = c
      BY <2>2 DEF OutOf, Into
    <2>4. c \notin Parallels
      BY <2>2, <2>3, WireEnds
    <2>5. c \in Loops /\ c \in Saying(r, "go")
      BY <2>1, <2>4, Given, Places
    <2>6. Passes(c)' > 0
      <3>1. CountOK(c)
        BY <2>5 DEF IInv, LoopOK
      <3>2. Begins(c, r)
        BY <2>5, <3>1, LoopTurn DEF Rests, Ends
      <3> QED
        BY <2>5, <3>1, <3>2, PassesTurn
    <2>7. StartTaken(w)'
      BY <1>1, <1>2, <2>2, <2>3, <2>5, <2>6 DEF StartTaken
    <2> QED
      BY <2>3, <2>7 DEF Lit, Led
  <1>5. CASE t \in Ended(r)
    <2>1. PICK c \in Saying(r, "stop") \cup Saying(r, "close") : t \in Behind(c, "end")
      BY <1>5 DEF Ended
    <2>2. PICK w \in OutOf(c) : w.handle = "end" /\ w.to = t
      BY <2>1 DEF Behind
    <2>3. w \in flow.wires /\ w \in Into(t) /\ w.from = c
      BY <2>2 DEF OutOf, Into
    <2>4. EndTaken(w)'
      BY <1>1, <2>1, <2>2, <2>3 DEF EndTaken
    <2> QED
      BY <2>3, <2>4 DEF Lit, Led
  <1>6. CASE t \in path \ Repeated(r)
    <2>1. PICK w \in Into(t) : Lit(w)
      BY <1>6 DEF ReasonOK
    <2>2. w \in flow.wires /\ w.to = t
      BY DEF Into
    <2>3. w.from \notin Repeated(r)
      BY <1>6, <2>2, Together
    <2>4. CASE Led(w)
      BY <2>2, <2>3, <2>4, LayerLed DEF Lit
    <2>5. CASE ~Skipped(w) /\ ~FlowControl(w.from) /\ w.from \in path /\ ~Entered(w.from)
      <3>1. w.from \notin Closed(r)
        BY <2>5 DEF Closed, Behind, OutOf, Entered, Into
      <3>2. w.from \in path'
        BY <2>3, <2>5, <3>1 DEF Marked
      <3>3. ~Skipped(w)' /\ ~FlowControl(w.from)' /\ ~Entered(w.from)'
        BY <1>1, <2>5 DEF Skipped, FlowControl, Entered, Into
      <3> QED
        BY <3>2, <3>3 DEF Lit
    <2> QED
      BY <2>1, <2>4, <2>5 DEF Lit
  <1> QED
    BY <1>3, <1>4, <1>5, <1>6 DEF Marked

\* What a block of the layer puts there.
LEMMA ActivatedWhy ==
    ASSUME Drawn, Ordered, IInv, ChoiceOK, ReasonOK, SatedOK, flow \in Workflows, NEW r \in Answers, RunLayer(r),
           NEW id \in Ran(r), NEW p, NEW t \in Activated(id[1], r[id], p),
           Activated(id[1], r[id], p) \subseteq path', Outside(t)
    PROVE  \E w \in Into(t) : Lit(w)'
  <1> DEFINE b == id[1]
  <1> TypeOK
    BY DEF IInv
  <1>1. /\ flow' = flow
        /\ executed' = (executed \ Plain(Repeated(r))) \cup Ran(r)
        /\ failed' = (failed \ (Plain(Repeated(r)) \cup Ran(r))) \cup {i \in NextLayer : r[i] = "error"}
        /\ \A i \in NextLayer : i[1] \in Containers => r[i] # "error"
    BY Effect
  <1>2. Loops' = Loops /\ Containers' = Containers
    BY <1>1, Fixed
  <1>3. id \in NextLayer /\ id \in Ids /\ id \notin executed /\ b \in Blocks /\ r[id] \in Outcomes(id)
    BY MayRunNext, Given DEF Ran
  <1>4. r[id] # "error" => id \in executed' \ failed'
    BY <1>1
  <1>5. r[id] = "error" => id \in failed'
    BY <1>1, <1>3
  <1>6. /\ b \in Containers <=> flow.kind[b] \in {"loop", "parallel"}
        /\ b \in Loops <=> flow.kind[b] = "loop"
        /\ b \in Parallels <=> flow.kind[b] = "parallel"
    <2>1. b \in Containers <=> flow.kind[b] \in {"loop", "parallel"}
      BY <1>3, Places DEF FlowControl
    <2> QED
      BY <2>1 DEF Loops, Parallels
  <1>7. ASSUME NEW w \in flow.wires, w.from = b, Outside(w.to)
        PROVE  id = <<w.from, 0>>
    <2>1. Outside(b)
      BY <1>7, WireEnds
    <2>2. \A q \in Parallels : b \notin flow.nodes[q]
      BY <2>1 DEF Outside, Around
    <2> QED
      BY <1>3, <1>7, <2>2, MayRunNext
  \* A decision that was made.
  <1>8. ASSUME NEW u \in flow.wires, u.from = b, b \notin Containers, r[id] # "error",
               Outside(u.to) => ResultTaken(u)', t \in Selected(u.to, p), Selected(u.to, p) \subseteq path'
        PROVE  \E w \in Into(t) : Lit(w)'
    <2>1. CASE t = u.to
      <3>1. u \in Into(t) /\ Led(u)'
        BY <1>8, <2>1 DEF Into, Led
      <3> QED
        BY <3>1 DEF Lit
    <2>2. CASE t # u.to
      <3>1. PICK w \in Into(t) : /\ w.from \in Selected(u.to, p) /\ ~Skipped(w) /\ ~FlowControl(w.from)
                                 /\ Outside(t) => ~Entered(w.from)
        BY <1>8, <2>2, SelectedWhy
      <3>2. ~Skipped(w)' /\ ~FlowControl(w.from)' /\ ~Entered(w.from)' /\ w.from \in path'
        BY <1>1, <1>8, <3>1 DEF Skipped, FlowControl, Entered, Into
      <3> QED
        BY <3>2 DEF Lit
    <2> QED
      BY <2>1, <2>2
  <1>9. ASSUME flow.kind[b] \in {"condition", "router"}, r[id] # "error"
        PROVE  choice'[id] = r[id]
    <2>1. choice[id] = None
      BY <1>3 DEF ChoiceOK
    <2>2. id \notin Plain(Repeated(r))
      BY <1>3, NoneRepeated DEF Plain
    <2> QED
      BY <1>3, <1>9, <2>1, <2>2, LayerChoice
  <1>10. CASE flow.kind[b] = "loop"
    <2>1. r[id] = "go" /\ t \in Behind(b, "start")
      BY <1>10 DEF Activated
    <2>2. PICK w \in OutOf(b) : w.handle = "start" /\ w.to = t
      BY <2>1 DEF Behind
    <2>3. w \in flow.wires /\ w \in Into(t) /\ w.from = b /\ b \in Loops
      BY <1>6, <1>10, <2>2 DEF OutOf, Into
    <2>4. b \in Saying(r, "go")
      BY <1>3, <1>7, <2>1, <2>2, <2>3, Places DEF Saying
    <2>5. Passes(b)' > 0
      <3>1. CountOK(b)
        BY <2>3 DEF IInv, LoopOK
      <3>2. Begins(b, r)
        BY <2>3, <2>4, <3>1, LoopTurn DEF Rests, Ends
      <3> QED
        BY <2>3, <3>1, <3>2, PassesTurn
    <2>6. StartTaken(w)'
      BY <1>1, <1>2, <2>2, <2>3, <2>5 DEF StartTaken
    <2> QED
      BY <2>3, <2>6 DEF Lit, Led
  <1>11. CASE flow.kind[b] = "condition"
    <2>1. Activated(b, r[id], p) = UNION {Selected(c, p) : c \in Behind(b, r[id])}
      BY <1>11 DEF Activated
    <2>2. PICK c \in Behind(b, r[id]) : t \in Selected(c, p)
      BY <2>1
    <2>3. PICK u \in OutOf(b) : u.handle = r[id] /\ u.to = c
      BY <2>2 DEF Behind
    <2>4. u \in flow.wires /\ u.from = b /\ b \notin Containers
      BY <1>6, <1>11, <2>3 DEF OutOf
    <2>5. u.handle \notin {"start", "end", "error"} /\ r[id] # "error"
      BY <1>11, <2>3, <2>4 DEF Drawn, Words, Ordered
    <2>6. ASSUME Outside(u.to)
          PROVE  ResultTaken(u)'
      <3>1. id = <<u.from, 0>>
        BY <1>7, <2>4, <2>6
      <3>2. choice'[id] = u.handle
        BY <1>9, <1>11, <2>3, <2>5
      <3> QED
        BY <1>1, <1>2, <1>4, <1>11, <2>4, <2>5, <3>1, <3>2 DEF ResultTaken
    <2>7. Selected(c, p) \subseteq path' /\ Selected(u.to, p) \subseteq path' /\ t \in Selected(u.to, p)
      BY <2>1, <2>2, <2>3
    <2> QED
      BY <1>8, <2>4, <2>5, <2>6, <2>7
  <1>12. CASE flow.kind[b] = "router"
    <2>1. Activated(b, r[id], p) = IF r[id] = "error" THEN {} ELSE Selected(r[id], p)
      BY <1>12 DEF Activated
    <2>2. r[id] # "error" /\ t \in Selected(r[id], p)
      BY <2>1
    <2>3. PICK u \in OutOf(b) : r[id] = u.to
      BY <1>3, <1>12, <2>2, Answer
    <2>4. u \in flow.wires /\ u.from = b /\ b \notin Containers
      BY <1>6, <1>12, <2>3 DEF OutOf
    <2>5. u.handle \notin {"start", "end", "error"}
      BY <1>12, <2>4 DEF Ordered
    <2>6. ASSUME Outside(u.to)
          PROVE  ResultTaken(u)'
      <3>1. id = <<u.from, 0>>
        BY <1>7, <2>4, <2>6
      <3>2. choice'[id] = u.to
        BY <1>9, <1>12, <2>2, <2>3
      <3> QED
        BY <1>1, <1>2, <1>4, <1>12, <2>2, <2>4, <2>5, <3>1, <3>2 DEF ResultTaken
    <2>7. Selected(u.to, p) \subseteq path' /\ t \in Selected(u.to, p)
      BY <2>1, <2>2, <2>3
    <2> QED
      BY <1>8, <2>2, <2>4, <2>6, <2>7
  <1>13. CASE flow.kind[b] \notin {"loop", "condition", "router"}
    <2>1. t \in {w.to : w \in {v \in OutOf(b) : Follows(v, r[id] = "error")}}
      BY <1>13 DEF Activated
    <2>2. PICK w \in OutOf(b) : Follows(w, r[id] = "error") /\ w.to = t
      BY <2>1
    <2>3. w \in flow.wires /\ w \in Into(t) /\ w.from = b
      BY <2>2 DEF OutOf, Into
    <2>4. id = <<w.from, 0>>
      BY <1>7, <2>2, <2>3
    <2>5. w.handle \notin {"start", "end"} /\ ((w.handle = "error") <=> (r[id] = "error"))
      BY <2>2 DEF Follows, Skipped
    <2>6. b \notin Containers
      BY <1>1, <1>3, <2>3, <2>5 DEF Ordered
    <2>7. CASE r[id] = "error"
      BY <1>5, <2>3, <2>4, <2>5, <2>7 DEF Lit, Led, ErrorTaken
    <2>8. CASE r[id] # "error"
      <3>1. ResultTaken(w)'
        BY <1>1, <1>2, <1>4, <1>13, <2>3, <2>4, <2>5, <2>6, <2>8 DEF ResultTaken
      <3> QED
        BY <2>3, <3>1 DEF Lit, Led
    <2> QED
      BY <2>7, <2>8
  <1> QED
    BY <1>10, <1>11, <1>12, <1>13

LEMMA LayerReason ==
    ASSUME Drawn, Ordered, IInv, ChoiceOK, ReasonOK, SatedOK, flow \in Workflows, NEW r \in Answers, RunLayer(r)
    PROVE  ReasonOK'
  <1>1. flow' = flow
    BY Effect
  <1>2. Trigger' = Trigger /\ Parallels' = Parallels
    BY <1>1, Fixed
  <1>3. path' = Opened(r, Ran(r), Marked(r))
    BY PathRuns
  <1>4. Marked(r) \subseteq path'
    BY <1>3, OpenedHolds DEF Drawn
  <1>5. ASSUME NEW t \in path', Outside(t), t # Trigger
        PROVE  \E w \in Into(t) : Lit(w)'
    <2>1. CASE t \in Marked(r)
      BY <1>4, <1>5, <2>1, MarkedWhy
    <2>2. CASE \E id \in Ran(r) : \E p : t \in Activated(id[1], r[id], p) /\ Activated(id[1], r[id], p) \subseteq path'
      BY <1>5, <2>2, ActivatedWhy
    <2>3. \/ t \in Marked(r)
          \/ \E id \in Ran(r) : \E p : t \in Activated(id[1], r[id], p) /\ Activated(id[1], r[id], p) \subseteq path'
      BY <1>3, <1>5, OpenedWhy DEF Drawn
    <2> QED
      BY <2>1, <2>2, <2>3
  <1> QED
    BY <1>1, <1>2, <1>5 DEF ReasonOK, Outside, Around, Into

LEMMA ScheduleReason ==
    ASSUME Drawn, Ordered, IInv, ChoiceOK, ReasonOK, ExecOK, Schedule
    PROVE  ReasonOK'
  <1>1. /\ flow' = flow
        /\ path' = ((path \ Reset) \cup Lasts \cup Joins) \ Vacated(Joins)
        /\ Over \subseteq Loops /\ Lasts \subseteq Over /\ Joins \subseteq Parallels
    BY ScheduleEffect DEF IInv
  <1>2. Trigger' = Trigger /\ Parallels' = Parallels
    BY <1>1, Fixed
  <1>3. ASSUME NEW t \in path', Outside(t), t # Trigger
        PROVE  \E w \in Into(t) : Lit(w)'
    <2>1. CASE t \in Lasts \cup Joins
      <3>1. t \in Containers /\ t \in Blocks /\ <<t, 0>> \in executed
        BY <1>1, <2>1, Places DEF Over, PassOver, Joins, Joined
      <3>2. PICK w \in Into(t) : Led(w)
        BY <1>3, <3>1 DEF ExecOK
      <3>3. w \in flow.wires /\ w.to = t /\ w.from \notin Reset
        BY <3>1, Together, ContainersStand DEF Into
      <3> QED
        BY <3>2, <3>3, ScheduleLed DEF Lit
    <2>2. CASE t \in path \ Reset
      <3>1. PICK w \in Into(t) : Lit(w)
        BY <1>3, <2>2 DEF ReasonOK
      <3>2. w \in flow.wires /\ w.to = t
        BY DEF Into
      <3>3. w.from \notin Reset
        BY <2>2, <3>2, Together
      <3>4. CASE Led(w)
        BY <3>2, <3>3, <3>4, ScheduleLed DEF Lit
      <3>5. CASE ~Skipped(w) /\ ~FlowControl(w.from) /\ w.from \in path /\ ~Entered(w.from)
        <4>1. Outside(w.from)
          BY <1>3, <3>2, WireEnds
        <4>2. w.from \notin Vacated(Joins)
          BY <1>1, <4>1 DEF Vacated, Outside, Around
        <4>3. w.from \in path'
          BY <1>1, <3>3, <3>5, <4>2
        <4>4. ~Skipped(w)' /\ ~FlowControl(w.from)' /\ ~Entered(w.from)'
          BY <1>1, <3>5 DEF Skipped, FlowControl, Entered, Into
        <4> QED
          BY <4>3, <4>4 DEF Lit
      <3> QED
        BY <3>1, <3>4, <3>5 DEF Lit
    <2> QED
      BY <1>1, <1>3, <2>1, <2>2
  <1> QED
    BY <1>1, <1>2, <1>3 DEF ReasonOK, Outside, Around, Into

-----------------------------------------------------------------------------
(* Passes that are over *)

\* In a loop, what a set of its blocks leads to while it holds what the loop starts.
Within(l, Z) ==
    \A w \in flow.wires : w.to \in flow.nodes[l] /\ (w.from = l \/ (w.from \in Z /\ Led(w))) => w.to \in Z

\* What has run in a loop is reached from its start over connections that were
\* taken: it is in every set that they do not leave.
GroundedOK ==
    \A l \in Loops : \A Z \in SUBSET flow.nodes[l] :
        Within(l, Z) => \A b \in flow.nodes[l] : <<b, 0>> \in executed => b \in Z

\* Where a connection inside a loop comes from.
LEMMA InLoop ==
    ASSUME Drawn, Ordered, IInv, NEW l \in Loops, NEW w \in flow.wires, w.to \in flow.nodes[l]
    PROVE  /\ w.from = l \/ w.from \in flow.nodes[l]
           /\ w.from \in flow.nodes[l] =>
                 /\ w.from # l /\ w.from \notin Containers /\ w.handle \notin {"start", "end"}
                 /\ Led(w) => <<w.from, 0>> \in executed
           /\ w.from = l => w.to \in Entries(flow.nodes[l])
  <1> l \in Containers
    BY Places
  <1>1. w.from = l \/ w.from \in flow.nodes[l]
    BY WireEnds
  <1>2. ASSUME w.from \in flow.nodes[l]
        PROVE  /\ w.from # l /\ w.from \notin Containers /\ w.handle \notin {"start", "end"}
               /\ Led(w) => <<w.from, 0>> \in executed
    <2>1. w.from # l /\ w.from \notin Containers /\ w.handle \notin {"start", "end"}
      BY <1>2, WireEnds
    <2>2. Led(w) => <<w.from, 0>> \in executed
      BY <2>1 DEF Led, StartTaken, EndTaken, ErrorTaken, ResultTaken, IInv, TypeOK
    <2> QED
      BY <2>1, <2>2
  <1>3. ASSUME w.from = l
        PROVE  w.to \in Entries(flow.nodes[l])
    <2>1. \A v \in Into(w.to) : v = w
      BY <1>3 DEF Ordered, Into
    <2>2. l \notin flow.nodes[l]
      BY Places
    <2> QED
      BY <1>3, <2>1, <2>2 DEF Entries, Into
  <1> QED
    BY <1>1, <1>2, <1>3

\* What the pass of a loop must have run is not left by a connection that was taken.
LEMMA BodyLed ==
    ASSUME Drawn, Ordered, IInv, flow \in Workflows, NEW l \in Loops, NEW w \in flow.wires, w.to \in flow.nodes[l],
           w.from = l \/ (w.from \in Body(l) \cap flow.nodes[l] /\ Led(w))
    PROVE  w.to \in Body(l)
  <1> DEFINE ns == flow.nodes[l]
             Leads(v) == CASE flow.kind[v.from] = "router"    -> choice[<<v.from, 0>>] = v.to
                           [] flow.kind[v.from] = "condition" -> choice[<<v.from, 0>>] = v.handle
                           [] OTHER -> (v.handle = "error") = (<<v.from, 0>> \in failed)
             next == [b \in Blocks |-> {v.to : v \in {u \in OutOf(b) : u.to \in ns /\ Leads(u)}}]
  <1>1. Body(l) = Closure(Entries(ns), next)
    BY DEF Body
  <1>2. CASE w.from = l
    BY <1>2, InLoop, EntriesInBody
  <1>3. CASE w.from \in Body(l) /\ w.from \in flow.nodes[l] /\ Led(w)
    <2>1. w.from \in Blocks /\ w.handle \notin {"start", "end"} /\ w.from \notin Containers
      BY <1>3, InLoop, WireEnds
    <2>2. ErrorTaken(w) \/ ResultTaken(w)
      BY <1>3, <2>1 DEF Led, StartTaken, EndTaken
    <2>3. Leads(w)
      <3>1. CASE ErrorTaken(w)
        <4>1. flow.kind[w.from] # "router" /\ flow.kind[w.from] # "condition"
          BY <3>1 DEF ErrorTaken, Ordered, Drawn, Words
        <4> QED
          BY <3>1, <4>1 DEF ErrorTaken
      <3>2. CASE ResultTaken(w)
        BY <3>2 DEF ResultTaken
      <3> QED
        BY <2>2, <3>1, <3>2
    <2>4. w.to \in next[w.from]
      <3>1. w \in {u \in OutOf(w.from) : u.to \in ns /\ Leads(u)}
        BY <2>3 DEF OutOf
      <3> HIDE DEF Leads
      <3> QED
        BY <2>1, <3>1
    <2>5. \A b \in Blocks : next[b] \subseteq Blocks
      <3> HIDE DEF Leads
      <3> QED
        BY DEF Drawn, OutOf
    <2>6. Entries(ns) \in SUBSET Blocks
      BY Places DEF Entries
    <2> HIDE DEF next
    <2>7. \A b \in Closure(Entries(ns), next) : next[b] \subseteq Closure(Entries(ns), next)
      BY <2>5, <2>6, ClosureClosed
    <2> QED
      BY <1>1, <1>3, <2>4, <2>7
  <1> QED
    BY <1>2, <1>3

\* A loop whose pass is over has run all that a connection inside it, which was
\* taken, leads to.
LEMMA PassSated ==
    ASSUME Drawn, Ordered, IInv, GroundedOK, flow \in Workflows, NEW l \in Loops, PassOver(l)
    PROVE  Sated(l)
  <1> DEFINE Z == Body(l) \cap flow.nodes[l]
  <1>1. Within(l, Z)
    BY BodyLed DEF Within
  <1>2. \A b \in flow.nodes[l] : <<b, 0>> \in executed => b \in Z
    BY <1>1 DEF GroundedOK
  <1>3. ASSUME NEW w \in flow.wires, w.to \in flow.nodes[l], w.from = l \/ Led(w)
        PROVE  <<w.to, 0>> \in executed
    <2>1. w.from = l \/ (w.from \in flow.nodes[l] /\ Led(w) /\ <<w.from, 0>> \in executed)
      BY <1>3, InLoop
    <2>2. w.to \in Body(l)
      BY <1>2, <1>3, <2>1, BodyLed
    <2> QED
      BY <2>2 DEF PassOver, Plain
  <1> QED
    BY <1>3 DEF Sated

LEMMA LayerSated ==
    ASSUME Drawn, Ordered, IInv, ChoiceOK, ReasonOK, SatedOK, NEW r \in Answers, RunLayer(r)
    PROVE  SatedOK'
  <1> TypeOK
    BY DEF IInv
  <1>1. flow' = flow
    BY Effect
  <1>2. Loops' = Loops
    BY <1>1, Fixed
  <1>3. ASSUME NEW l \in Loops
        PROVE  Pass(l)' \/ Fresh(l)' \/ Sated(l)'
    <2> CountOK(l) /\ l \in Containers
      BY Places DEF IInv, LoopOK
    <2>1. CASE Pass(l)
      BY <2>1, LoopTurn, PassesTurn
    <2>2. CASE ~Pass(l) /\ Begins(l, r)
      BY <2>2, PassesTurn
    <2>3. CASE ~Pass(l) /\ (Rests(l, r) \/ Ends(l, r))
      <3>1. l \notin Saying(r, "go") /\ Passes(l)' = Passes(l)
        BY <2>3, PassesTurn DEF Rests, Ends
      <3>2. \A b \in flow.nodes[l] : <<b, 0>> \notin NextLayer /\ (<<b, 0>> \in executed' <=> <<b, 0>> \in executed)
        <4>1. \A b \in flow.nodes[l] : <<b, 0>> \notin NextLayer
          BY <2>3, LoopRests
        <4> QED
          BY <3>1, <4>1, LoopBlocks DEF Ran
      <3>3. CASE Fresh(l)
        <4>1. Idle(l)'
          BY <3>1, <3>3, LoopBlocks DEF Fresh
        <4>2. Between(l) => Between(l)'
          <5>1. ASSUME Between(l), Rests(l, r)
                PROVE  Between(l)'
            BY <1>1, <5>1 DEF Between, Rests, Counted
          <5>2. ASSUME Between(l), Ends(l, r)
                PROVE  FALSE
            <6>1. round[l] \in Nat /\ flow.rounds[l] \in Nat
              BY Places DEF TypeOK
            <6> QED
              BY <5>2, <6>1 DEF Between, Ends, Exhausted
          <5> QED
            BY <2>3, <5>1, <5>2
        <4>3. \A b \in flow.nodes[l] : <<b, 0>> \notin executed'
          BY <3>2, <3>3 DEF Fresh
        <4>4. Passes(l)' = 0 \/ Between(l)'
          BY <3>1, <3>3, <4>2 DEF Fresh
        <4> QED
          BY <1>1, <4>1, <4>3, <4>4 DEF Fresh
      <3>4. CASE Sated(l)
        <4>1. ASSUME NEW w \in flow.wires, w.to \in flow.nodes[l], w.from = l \/ Led(w)'
              PROVE  <<w.to, 0>> \in executed'
          <5>1. CASE w.from = l
            BY <3>2, <3>4, <4>1, <5>1 DEF Sated
          <5>2. CASE w.from \in flow.nodes[l] /\ Led(w)'
            <6>1. w.from \notin Repeated(r)
              <7>1. \A k \in Saying(r, "go") : w.from \in flow.nodes[k] => k = l
                BY <5>2, Given, Places DEF Drawn
              <7> QED
                BY <3>1, <7>1 DEF Repeated
            <6>2. Led(w)
              BY <3>2, <4>1, <5>2, <6>1, InLoop, LayerLed
            <6> QED
              BY <3>2, <3>4, <4>1, <6>2 DEF Sated
          <5> QED
            BY <4>1, <5>1, <5>2, InLoop
        <4> QED
          BY <1>1, <4>1 DEF Sated
      <3> QED
        BY <2>3, <3>3, <3>4 DEF SatedOK
    <2> QED
      BY <2>1, <2>2, <2>3, LoopTurn
  <1> QED
    BY <1>2, <1>3 DEF SatedOK

LEMMA ScheduleSated ==
    ASSUME Drawn, Ordered, IInv, ChoiceOK, SatedOK, GroundedOK, flow \in Workflows, Schedule
    PROVE  SatedOK'
  <1> TypeOK
    BY DEF IInv
  <1>1. flow' = flow
    BY ScheduleEffect
  <1>2. Loops' = Loops
    BY <1>1, Fixed
  <1>3. ASSUME NEW l \in Loops, Sated(l), \A b \in flow.nodes[l] : <<b, 0>> \in executed' <=> <<b, 0>> \in executed
        PROVE  Sated(l)'
    BY <1>1, <1>3, ScheduleLed DEF Sated
  <1>4. ASSUME NEW l \in Loops
        PROVE  Pass(l)' \/ Fresh(l)' \/ Sated(l)'
    <2> CountOK(l) /\ l \in Containers /\ round[l] \in Nat /\ flow.rounds[l] \in Nat
      BY Places DEF IInv, LoopOK, TypeOK
    <2>1. CASE Goes(l)
      <3>1. \A b \in flow.nodes[l] : <<b, 0>> \in executed' <=> <<b, 0>> \in executed
        BY <2>1, LoopLooked DEF Goes, Turns
      <3>2. Pass(l)' = Pass(l) /\ Passes(l)' = Passes(l)
        BY <2>1, PassesLooked
      <3>3. CASE Fresh(l)
        <4>1. Idle(l)'
          BY <3>3, LoopLooked DEF Fresh
        <4>2. Between(l) => Between(l)'
          BY <1>1, <2>1 DEF Between, Goes, Counted
        <4> QED
          BY <1>1, <3>1, <3>2, <3>3, <4>1, <4>2 DEF Fresh
      <3> QED
        BY <1>3, <3>1, <3>2, <3>3 DEF SatedOK
    <2>2. CASE Turns(l) /\ Counted(l) /\ ~LastPass(l)
      <3>1. Idle(l)' /\ \A b \in flow.nodes[l] : <<b, 0>> \notin executed'
        BY <2>2, LoopLooked
      <3>2. Between(l)'
        BY <1>1, <2>2 DEF Turns, Between, LastPass, Counted
      <3> QED
        BY <1>1, <3>1, <3>2 DEF Fresh
    <2>3. CASE Turns(l) /\ ~(Counted(l) /\ ~LastPass(l))
      <3>1. \A b \in flow.nodes[l] : <<b, 0>> \in executed' <=> <<b, 0>> \in executed
        BY <2>3, LoopLooked
      <3>2. PassOver(l)
        BY <2>3 DEF Turns, Over
      <3> QED
        BY <1>3, <3>1, <3>2, PassSated
    <2> QED
      BY <2>1, <2>2, <2>3, LoopLooked
  <1> QED
    BY <1>2, <1>4 DEF SatedOK

LEMMA LayerGrounded ==
    ASSUME Drawn, Ordered, IInv, ChoiceOK, ReasonOK, SatedOK, GroundedOK, NEW r \in Answers, RunLayer(r)
    PROVE  GroundedOK'
  <1> TypeOK
    BY DEF IInv
  <1>1. flow' = flow
    BY Effect
  <1>2. Loops' = Loops
    BY <1>1, Fixed
  <1>3. ASSUME NEW l \in Loops, NEW Z \in SUBSET flow.nodes[l], Within(l, Z)',
               NEW b \in flow.nodes[l], <<b, 0>> \in executed'
        PROVE  b \in Z
    <2> l \in Containers
      BY Places
    <2>1. \A w \in flow.wires : w.to \in flow.nodes[l] /\ (w.from = l \/ (w.from \in Z /\ Led(w)')) => w.to \in Z
      BY <1>1, <1>3 DEF Within
    <2>2. CASE l \in Saying(r, "go") /\ ~Counted(l)
      <3>1. <<b, 0>> \notin Ran(r)
        BY <2>2, NoneRepeated DEF Ran
      <3> QED
        BY <1>3, <2>2, <3>1, LoopBlocks
    <2>3. CASE ~(l \in Saying(r, "go") /\ ~Counted(l))
      <3>1. \A c \in flow.nodes[l] : c \notin Repeated(r)
        <4>1. \A c \in flow.nodes[l] : \A k \in Saying(r, "go") : c \in flow.nodes[k] => k = l
          BY Given, Places DEF Drawn
        <4> QED
          BY <2>3, <4>1 DEF Repeated
      <3>2. \A w \in flow.wires : w.from \in flow.nodes[l] /\ Led(w) => Led(w)'
        BY <3>1, LayerLed
      <3>3. Within(l, Z)
        BY <2>1, <3>2 DEF Within
      <3>4. \A c \in flow.nodes[l] : <<c, 0>> \in executed => c \in Z
        BY <3>3 DEF GroundedOK
      <3>5. CASE <<b, 0>> \in NextLayer
        <4>1. b \in Blocks /\ b # Trigger /\ PlainReady(b)
          BY <3>5, PlainNext, Places
        <4>2. PICK w \in Into(b) : Led(w)
          BY <4>1, ReadyIsLed
        <4>3. w \in flow.wires /\ w.to = b
          BY DEF Into
        <4>4. w.from = l \/ (w.from \in flow.nodes[l] /\ <<w.from, 0>> \in executed)
          BY <4>2, <4>3, InLoop
        <4> QED
          BY <2>1, <3>2, <3>4, <4>2, <4>3, <4>4
      <3>6. CASE <<b, 0>> \in executed
        BY <3>4, <3>6
      <3> QED
        BY <1>3, <3>5, <3>6, LoopBlocks DEF Ran
    <2> QED
      BY <2>2, <2>3
  <1>4. \A l \in Loops : \A Z \in SUBSET flow.nodes[l] :
           Within(l, Z)' => \A b \in flow.nodes[l] : <<b, 0>> \in executed' => b \in Z
    BY <1>3
  <1> QED
    BY <1>1, <1>2, <1>4 DEF GroundedOK

LEMMA ScheduleGrounded ==
    ASSUME Drawn, Ordered, IInv, ChoiceOK, GroundedOK, Schedule
    PROVE  GroundedOK'
  <1> TypeOK
    BY DEF IInv
  <1>1. flow' = flow /\ Over \subseteq Loops
    BY ScheduleEffect
  <1>2. Loops' = Loops
    BY <1>1, Fixed
  <1>3. ASSUME NEW l \in Loops, NEW Z \in SUBSET flow.nodes[l], Within(l, Z)',
               NEW b \in flow.nodes[l], <<b, 0>> \in executed'
        PROVE  b \in Z
    <2> l \in Containers
      BY Places
    <2>1. ~(Turns(l) /\ Counted(l) /\ ~LastPass(l)) /\ <<b, 0>> \in executed
      BY <1>3, LoopLooked
    <2>2. l \in Over => Turns(l)
      BY LoopLooked DEF Goes
    <2>3. \A c \in flow.nodes[l] : c \notin Reset
      <3>1. \A c \in flow.nodes[l] : \A k \in Loops : c \in flow.nodes[k] => k = l
        BY Places DEF Drawn
      <3>2. \A c \in flow.nodes[l] : c \in Reset => l \in Over \ Lasts /\ Counted(l)
        BY <1>1, <3>1 DEF Reset
      <3> QED
        BY <2>1, <2>2, <3>2 DEF Lasts
    <2>4. \A w \in flow.wires : w.from \in flow.nodes[l] /\ Led(w) => Led(w)'
      BY <2>3, ScheduleLed
    <2>5. \A w \in flow.wires : w.to \in flow.nodes[l] /\ (w.from = l \/ (w.from \in Z /\ Led(w)')) => w.to \in Z
      BY <1>1, <1>3 DEF Within
    <2>6. Within(l, Z)
      BY <2>4, <2>5 DEF Within
    <2> QED
      BY <2>1, <2>6 DEF GroundedOK
  <1>4. \A l \in Loops : \A Z \in SUBSET flow.nodes[l] :
           Within(l, Z)' => \A b \in flow.nodes[l] : <<b, 0>> \in executed' => b \in Z
    BY <1>3
  <1> QED
    BY <1>1, <1>2, <1>4 DEF GroundedOK

-----------------------------------------------------------------------------
(* What a connection that was taken leads to is on the path *)

PathOK ==
    \A w \in flow.wires :
        Outside(w.to) /\ Led(w) /\ (\A l \in Around(w.to, Loops) : Pass(l)) => w.to \in path

\* A loop that has counted was itself led to, and stays on the path.
EverOK == \A l \in Loops : round[l] > 0 => l \in path /\ (l = Trigger \/ \E w \in Into(l) : Led(w))

\* While the loops around a block make a pass, a layer does not take it off the path.
LEMMA StaysMarked ==
    ASSUME Drawn, Ordered, NEW r \in Answers, NEW t, \A l \in Around(t, Loops) : Pass(l)
    PROVE  /\ t \notin Repeated(r) /\ t \notin Closed(r)
           /\ t \in path \cup Erring(r) \cup Begun(r) \cup Ended(r) => t \in Marked(r)
  <1>1. \A l \in Saying(r, "go") \cup Saying(r, "stop") : l \in Loops /\ ~Pass(l)
    <2>1. \A l \in Saying(r, "go") \cup Saying(r, "stop") : l \in Loops /\ <<l, 0>> \in NextLayer
      BY Given DEF Saying
    <2> QED
      BY <2>1, MayRunNext DEF Pass
  <1>2. t \notin Repeated(r)
    BY <1>1 DEF Repeated, Around
  <1>3. t \notin Closed(r)
    <2> SUFFICES ASSUME NEW l \in Saying(r, "stop"), NEW w \in flow.wires, w.from = l, w.handle = "start", w.to = t
                 PROVE  FALSE
      BY DEF Closed, Behind, OutOf
    <2>1. t \in flow.nodes[l]
      BY DEF Ordered
    <2> QED
      BY <1>1, <2>1 DEF Around
  <1> QED
    BY <1>2, <1>3 DEF Marked

\* What a block of the layer leads to by its result is among what it activates.
LEMMA ResultActivates ==
    ASSUME Drawn, Ordered, IInv, ChoiceOK, flow \in Workflows, NEW r \in Answers, RunLayer(r), NEW w \in flow.wires,
           <<w.from, 0>> \in NextLayer, ResultTaken(w)', NEW p
    PROVE  <<w.from, 0>> \in Ran(r) /\ w.to \in Activated(w.from, r[<<w.from, 0>>], p)
  <1> DEFINE id == <<w.from, 0>>
             b == w.from
  <1> TypeOK
    BY DEF IInv
  <1>1. /\ flow' = flow
        /\ executed' = (executed \ Plain(Repeated(r))) \cup Ran(r)
        /\ failed' = (failed \ (Plain(Repeated(r)) \cup Ran(r))) \cup {i \in NextLayer : r[i] = "error"}
    BY Effect
  <1>2. Containers' = Containers
    BY <1>1, Fixed
  <1>3. id \notin executed /\ id \in Ids
    BY MayRunNext
  <1>4. /\ w.handle \notin {"start", "end", "error"} /\ b \notin Containers
        /\ id \in executed' \ failed'
        /\ flow.kind[b] = "condition" => choice'[id] = w.handle
        /\ flow.kind[b] = "router" => choice'[id] = w.to
    BY <1>1, <1>2 DEF ResultTaken
  <1>5. id \in Ran(r) /\ r[id] # "error"
    BY <1>1, <1>3, <1>4
  <1>6. ASSUME flow.kind[b] \in {"condition", "router"}
        PROVE  r[id] = choice'[id]
    <2>1. choice[id] = None
      BY <1>3 DEF ChoiceOK
    <2>2. id \notin Plain(Repeated(r)) \/ choice'[id] = None
      BY <1>3, LayerChoice
    <2>3. choice'[id] # None
      BY <1>4, <1>6, WireEnds DEF Drawn
    <2> QED
      BY <1>3, <1>5, <1>6, <2>1, <2>2, <2>3, LayerChoice
  <1>7. \A c \in Blocks : c \in Selected(c, p)
    <2> SUFFICES ASSUME NEW c \in Blocks
                 PROVE  c \in Selected(c, p)
      OBVIOUS
    <2> DEFINE q == p \cup {c}
               next == [d \in Blocks |->
                          IF FlowControl(d) THEN {}
                          ELSE {v.to : v \in {u \in OutOf(d) : ~Skipped(u) /\ u.to \notin q}}]
    <2>1. \A d \in Blocks : next[d] \subseteq Blocks
      BY WireEnds DEF OutOf
    <2> HIDE DEF next
    <2>2. {c} \subseteq Closure({c}, next)
      BY <2>1, ClosureStays DEF Drawn
    <2> QED
      BY <2>2 DEF Selected, Downstream, next
  <1>8. w.to \in Blocks /\ w \in OutOf(b)
    BY WireEnds DEF OutOf
  <1>9. CASE flow.kind[b] = "condition"
    <2>1. w.to \in Behind(b, r[id])
      BY <1>4, <1>6, <1>8, <1>9 DEF Behind
    <2>2. Activated(b, r[id], p) = UNION {Selected(c, p) : c \in Behind(b, r[id])}
      BY <1>9 DEF Activated
    <2> QED
      BY <1>5, <1>7, <1>8, <2>1, <2>2
  <1>10. CASE flow.kind[b] = "router"
    <2>1. Activated(b, r[id], p) = Selected(w.to, p)
      BY <1>4, <1>5, <1>6, <1>10 DEF Activated
    <2> QED
      BY <1>5, <1>7, <1>8, <2>1
  <1>11. CASE flow.kind[b] \notin {"condition", "router"}
    <2>1. flow.kind[b] # "loop"
      BY <1>4, WireEnds
    <2>2. Follows(w, FALSE)
      BY <1>4, <1>11, WireEnds, Places DEF Follows, Skipped, Around
    <2>3. Activated(b, r[id], p) = {v.to : v \in {u \in OutOf(b) : Follows(u, FALSE)}}
      <3>1. (r[id] = "error") = FALSE
        BY <1>5
      <3> QED
        BY <1>11, <2>1, <3>1 DEF Activated
    <2> QED
      BY <1>5, <1>8, <2>2, <2>3
  <1> QED
    BY <1>9, <1>10, <1>11

LEMMA LayerPath ==
    ASSUME Drawn, Ordered, IInv, IInv', ChoiceOK, ReasonOK, SatedOK, PathOK, flow \in Workflows, NEW r \in Answers, RunLayer(r)
    PROVE  PathOK'
  <1> TypeOK
    BY DEF IInv
  <1>1. /\ flow' = flow
        /\ executed' = (executed \ Plain(Repeated(r))) \cup Ran(r)
        /\ failed' = (failed \ (Plain(Repeated(r)) \cup Ran(r))) \cup {i \in NextLayer : r[i] = "error"}
        /\ opened' = opened \cup Saying(r, "open")
        /\ done' = done \cup Saying(r, "stop") \cup Saying(r, "close")
    BY Effect
  <1>2. Loops' = Loops /\ Parallels' = Parallels /\ Containers' = Containers /\ failed' \subseteq executed'
    BY <1>1, Fixed DEF IInv, TypeOK
  <1>3. path' = Opened(r, Ran(r), Marked(r)) /\ Marked(r) \subseteq path'
    BY PathRuns, OpenedHolds DEF Drawn
  <1>4. ASSUME NEW b \in Blocks, <<b, 0>> \in Ran(r)
        PROVE  \E p : Activated(b, r[<<b, 0>>], p) \subseteq path'
    BY <1>3, <1>4, OpenedHas
  <1>5. ASSUME NEW w \in flow.wires, Outside(w.to), Led(w)', \A l \in Around(w.to, Loops) : Pass(l)'
        PROVE  w.to \in path'
    <2> DEFINE id == <<w.from, 0>>
    <2>1. CASE \E l \in Loops : w.to \in flow.nodes[l] /\ ~Pass(l)
      <3>1. PICK l \in Loops : w.to \in flow.nodes[l] /\ ~Pass(l)
        BY <2>1
      <3> CountOK(l) /\ l \in Containers /\ round[l] \in Nat /\ flow.rounds[l] \in Nat
        BY Places DEF IInv, LoopOK, TypeOK
      <3>2. Begins(l, r)
        BY <1>5, <3>1, LoopTurn, PassesTurn DEF Around
      <3>3. <<l, 0>> \in Ran(r) /\ r[<<l, 0>>] = "go" /\ l \in Blocks
        BY <3>2, Places DEF Begins, Saying, Ran
      <3>4. CASE w.from = l
        <4>1. w.handle = "start"
          BY <3>1, <3>4, WireEnds, Places
        <4>2. w.to \in Behind(l, "start")
          BY <3>4, <4>1 DEF Behind, OutOf
        <4>3. \A p : Activated(l, r[<<l, 0>>], p) = Behind(l, "start")
          BY <3>3 DEF Activated, Loops
        <4> QED
          BY <1>4, <3>3, <4>2, <4>3
      <3>5. CASE w.from \in flow.nodes[l]
        <4>1. w.from \notin Containers /\ w.handle \notin {"start", "end"} /\ l \in Saying(r, "go")
          BY <3>1, <3>2, <3>5, InLoop DEF Begins
        <4>2. id \in executed'
          BY <1>2, <1>5, <4>1 DEF Led, StartTaken, EndTaken, ErrorTaken, ResultTaken
        <4>3. id \notin Ran(r)
          BY <3>5, <4>1, NoneRepeated DEF Ran
        <4>4. id \in executed /\ Counted(l)
          BY <3>5, <4>1, <4>2, <4>3, LoopBlocks
        <4>5. \A b \in flow.nodes[l] : <<b, 0>> \notin executed
          BY <3>2, <4>4 DEF Begins, CountOK, Exhausted, Plain
        <4> QED
          BY <3>5, <4>4, <4>5
      <3> QED
        BY <3>1, <3>4, <3>5, InLoop
    <2>2. CASE \A l \in Loops : w.to \in flow.nodes[l] => Pass(l)
      <3>1. \A l \in Around(w.to, Loops) : Pass(l)
        BY <2>2 DEF Around
      <3>2. /\ w.to \notin Repeated(r)
            /\ w.to \in path \cup Erring(r) \cup Begun(r) \cup Ended(r) => w.to \in path'
        BY <1>3, <3>1, StaysMarked
      <3>3. w.from \notin Repeated(r) /\ w \in OutOf(w.from) /\ w.from \in Blocks
        BY <3>2, Together, WireEnds DEF OutOf
      <3>4. CASE Led(w)
        BY <1>5, <3>1, <3>2, <3>4 DEF PathOK
      <3>5. CASE StartTaken(w)'
        <4>1. w.handle = "start" /\ (w.from \in Loops \/ w.from \in Parallels)
          BY <1>2, <3>5 DEF StartTaken
        <4>2. w.to \in flow.nodes[w.from]
          BY <4>1 DEF Ordered
        <4>3. w.from \in Loops /\ Pass(w.from)
          BY <1>5, <2>2, <4>1, <4>2 DEF Outside, Around
        <4>4. Passes(w.from) > 0
          BY <4>3 DEF IInv, LoopOK, CountOK, Passes, Pass
        <4> QED
          BY <3>4, <4>1, <4>3, <4>4 DEF Led, StartTaken
      <3>6. CASE EndTaken(w)'
        <4>1. w.handle = "end" /\ (w.from \in done \/ w.from \in Saying(r, "stop") \cup Saying(r, "close"))
          BY <1>1, <3>6 DEF EndTaken
        <4>2. CASE w.from \in done
          BY <3>4, <4>1, <4>2 DEF Led, EndTaken
        <4>3. CASE w.from \in Saying(r, "stop") \cup Saying(r, "close")
          <5>1. w.to \in Ended(r)
            BY <3>3, <4>1, <4>3 DEF Ended, Behind
          <5> QED
            BY <3>2, <5>1
        <4> QED
          BY <4>1, <4>2, <4>3
      <3>7. CASE ErrorTaken(w)'
        <4>1. w.handle = "error" /\ (id \in failed \/ (id \in NextLayer /\ r[id] = "error"))
          BY <1>1, <3>7 DEF ErrorTaken
        <4>2. CASE id \in failed
          BY <3>4, <4>1, <4>2 DEF Led, ErrorTaken
        <4>3. CASE id \in NextLayer /\ r[id] = "error"
          <5>1. w.to \in Behind(id[1], "error")
            BY <3>3, <4>1 DEF Behind
          <5>2. w.to \in Erring(r)
            BY <4>3, <5>1 DEF Erring
          <5> QED
            BY <3>2, <5>2
        <4> QED
          BY <4>1, <4>2, <4>3
      <3>8. CASE ResultTaken(w)'
        <4>1. w.handle \notin {"start", "end"}
          BY <3>8 DEF ResultTaken
        <4>2. CASE id \notin NextLayer
          BY <1>5, <3>3, <3>4, <4>1, <4>2, LayerLed
        <4>3. CASE id \in NextLayer
          <5>1. id \in Ran(r) /\ \A p : w.to \in Activated(w.from, r[id], p)
            BY <3>8, <4>3, ResultActivates
          <5> QED
            BY <1>4, <3>3, <5>1
        <4> QED
          BY <4>2, <4>3
      <3> QED
        BY <1>5, <3>5, <3>6, <3>7, <3>8 DEF Led
    <2> QED
      BY <2>1, <2>2
  <1> QED
    BY <1>1, <1>2, <1>5 DEF PathOK, Outside, Around

LEMMA SchedulePath ==
    ASSUME Drawn, Ordered, IInv, ChoiceOK, PathOK, Schedule
    PROVE  PathOK'
  <1>1. /\ flow' = flow
        /\ path' = ((path \ Reset) \cup Lasts \cup Joins) \ Vacated(Joins)
        /\ Over \subseteq Loops /\ Joins \subseteq Parallels
    BY ScheduleEffect DEF IInv
  <1>2. Loops' = Loops /\ Parallels' = Parallels
    BY <1>1, Fixed
  <1>3. ASSUME NEW w \in flow.wires, Outside(w.to), Led(w)', \A l \in Around(w.to, Loops) : Pass(l)'
        PROVE  w.to \in path'
    <2>1. \A l \in Around(w.to, Loops) : Goes(l) /\ Pass(l)
      <3> SUFFICES ASSUME NEW l \in Loops, w.to \in flow.nodes[l]
                   PROVE  Goes(l) /\ Pass(l)
        BY DEF Around
      <3>1. Pass(l)'
        BY <1>3 DEF Around
      <3> QED
        BY <3>1, LoopLooked, PassesLooked
    <2>2. w.to \in path
      BY <1>3, <2>1, ScheduleLed DEF PathOK
    <2>3. w.to \notin Reset
      BY <1>1, <2>1 DEF Reset, Around, Goes
    <2>4. w.to \notin Vacated(Joins)
      BY <1>1, <1>3 DEF Vacated, Outside, Around
    <2> QED
      BY <1>1, <2>2, <2>3, <2>4
  <1> QED
    BY <1>1, <1>2, <1>3 DEF PathOK, Outside, Around

LEMMA LayerEver ==
    ASSUME Drawn, Ordered, IInv, ChoiceOK, ReasonOK, EverOK, NEW r \in Answers, RunLayer(r)
    PROVE  EverOK'
  <1> TypeOK
    BY DEF IInv
  <1>1. /\ flow' = flow
        /\ round' = [c \in Containers |->
              IF <<c, 0>> \in NextLayer /\ c \in Loops /\ round[c] = 0 THEN 1 ELSE round[c]]
    BY Effect
  <1>2. Loops' = Loops /\ Trigger' = Trigger
    BY <1>1, Fixed
  <1>3. Marked(r) \subseteq path'
    BY PathRuns, OpenedHolds DEF Drawn
  <1>4. ASSUME NEW l \in Loops, round'[l] > 0
        PROVE  l \in path' /\ (l = Trigger \/ \E w \in Into(l) : Led(w)')
    <2> l \in Containers /\ l \in Blocks /\ round[l] \in Nat
      BY Places DEF TypeOK
    <2>1. l \in path /\ (l = Trigger \/ \E w \in Into(l) : Led(w))
      <3>1. CASE round[l] > 0
        BY <3>1 DEF EverOK
      <3>2. CASE <<l, 0>> \in NextLayer
        <4>1. PlainReady(l)
          BY <3>2, PlainNext
        <4> QED
          BY <4>1, ReadyIsLed DEF PlainReady
      <3> QED
        BY <1>1, <1>4, <3>1, <3>2
    <2>2. Around(l, Loops) = {}
      BY Places DEF Around
    <2>3. l \in path'
      BY <1>3, <2>1, <2>2, StaysMarked
    <2>4. ASSUME NEW w \in Into(l), Led(w)
          PROVE  Led(w)'
      <3>1. w \in flow.wires /\ w.from \notin Repeated(r)
        BY Together, ContainersStand DEF Into
      <3> QED
        BY <2>4, <3>1, LayerLed
    <2> QED
      BY <2>1, <2>3, <2>4
  <1> QED
    BY <1>1, <1>2, <1>4 DEF EverOK, Into

LEMMA ScheduleEver ==
    ASSUME Drawn, Ordered, IInv, ChoiceOK, EverOK, Schedule
    PROVE  EverOK'
  <1> TypeOK
    BY DEF IInv
  <1>1. /\ flow' = flow
        /\ path' = ((path \ Reset) \cup Lasts \cup Joins) \ Vacated(Joins)
        /\ round' = [c \in Containers |-> IF c \in Over THEN round[c] + 1 ELSE round[c]]
        /\ Joins \subseteq Parallels
    BY ScheduleEffect
  <1>2. Loops' = Loops /\ Trigger' = Trigger
    BY <1>1, Fixed
  <1>3. ASSUME NEW l \in Loops, round'[l] > 0
        PROVE  l \in path' /\ (l = Trigger \/ \E w \in Into(l) : Led(w)')
    <2> l \in Containers /\ CountOK(l)
      BY Places DEF IInv, LoopOK
    <2>1. round[l] > 0
      BY <1>1, <1>3 DEF Over, PassOver, CountOK
    <2>2. l \in path /\ (l = Trigger \/ \E w \in Into(l) : Led(w))
      BY <2>1 DEF EverOK
    <2>3. l \notin Vacated(Joins)
      BY <1>1, Places DEF Vacated
    <2>4. l \in path'
      BY <1>1, <2>2, <2>3, ContainersStand
    <2>5. ASSUME NEW w \in Into(l), Led(w)
          PROVE  Led(w)'
      <3>1. w \in flow.wires /\ w.from \notin Reset
        BY Together, ContainersStand DEF Into
      <3> QED
        BY <2>5, <3>1, ScheduleLed
    <2> QED
      BY <2>2, <2>4, <2>5
  <1> QED
    BY <1>1, <1>2, <1>3 DEF EverOK, Into

-----------------------------------------------------------------------------
(* Paths that were taken *)

TInv ==
    /\ IInv /\ ChoiceOK /\ DoneOK /\ VirtualOK /\ ReasonOK /\ ExecOK
    /\ SatedOK /\ GroundedOK /\ PathOK /\ EverOK /\ Exhaustive

LEMMA StartTaking ==
    ASSUME Init
    PROVE  TInv
  <1> TypeOK /\ flow \in Workflows
    BY Start DEF IInv, TypeOK
  <1> Drawn
    BY FlowDrawn
  <1>1. IInv
    BY Start
  <1>2. ChoiceOK /\ DoneOK /\ VirtualOK /\ ReasonOK /\ ExecOK /\ Exhaustive
    BY DEF Init, ChoiceOK, DoneOK, VirtualOK, ReasonOK, ExecOK, Exhaustive
  <1>3. \A l \in Loops : Passes(l) = 0 /\ Idle(l) /\ round[l] = 0
    BY Places DEF Init, Passes, Idle
  <1>4. SatedOK /\ GroundedOK /\ EverOK
    BY <1>3 DEF Init, SatedOK, Fresh, GroundedOK, EverOK
  <1>5. PathOK
    BY <1>3 DEF Init, PathOK, Led, StartTaken, EndTaken, ErrorTaken, ResultTaken, Outside, Around
  <1> QED
    BY <1>1, <1>2, <1>4, <1>5 DEF TInv

LEMMA TakenKept ==
    ASSUME TInv, UNCHANGED <<flow, context>>
    PROVE  /\ ChoiceOK' /\ DoneOK' /\ VirtualOK' /\ ReasonOK' /\ ExecOK'
           /\ SatedOK' /\ GroundedOK' /\ PathOK' /\ EverOK' /\ NextLayer' = NextLayer
  <1>1. /\ flow' = flow /\ executed' = executed /\ failed' = failed /\ choice' = choice /\ path' = path
        /\ round' = round /\ opened' = opened /\ done' = done
    BY DEF context
  <1>2. /\ Blocks' = Blocks /\ Trigger' = Trigger /\ Containers' = Containers
        /\ Loops' = Loops /\ Parallels' = Parallels /\ Ids' = Ids
    BY <1>1, Fixed
  <1>3. ChoiceOK' /\ DoneOK'
    BY <1>1, <1>2 DEF TInv, ChoiceOK, DoneOK, FlowControl
  <1>4. VirtualOK'
    BY <1>1, <1>2 DEF TInv, VirtualOK, VirtuallyLed, Iterations, Into
  <1>5. \A l : Passes(l)' = Passes(l) /\ Pass(l)' = Pass(l)
    BY <1>1 DEF Passes, Pass
  <1>6. \A w : Led(w)' <=> Led(w)
    BY <1>1, <1>2, <1>5 DEF Led, StartTaken, EndTaken, ErrorTaken, ResultTaken
  <1>7. \A w : Lit(w)' <=> Lit(w)
    BY <1>1, <1>6 DEF Lit, Skipped, FlowControl, Entered, Into
  <1>8. \A b : Outside(b)' = Outside(b) /\ Into(b)' = Into(b) /\ Around(b, Loops)' = Around(b, Loops)
    BY <1>1, <1>2 DEF Outside, Around, Into
  <1>9. ReasonOK' /\ ExecOK' /\ EverOK'
    BY <1>1, <1>2, <1>6, <1>7, <1>8 DEF TInv, ReasonOK, ExecOK, EverOK
  <1>10. \A l : (Fresh(l)' <=> Fresh(l)) /\ (Sated(l)' <=> Sated(l))
    BY <1>1, <1>5, <1>6 DEF Fresh, Sated, Between, Counted, Idle
  <1>11. SatedOK'
    BY <1>2, <1>5, <1>10 DEF TInv, SatedOK
  <1>12. \A l, Z : Within(l, Z)' <=> Within(l, Z)
    BY <1>1, <1>6 DEF Within
  <1>13. GroundedOK'
    BY <1>1, <1>2, <1>12 DEF TInv, GroundedOK
  <1>14. PathOK'
    BY <1>1, <1>5, <1>6, <1>8 DEF TInv, PathOK
  <1>15. NextLayer' = NextLayer
    BY <1>1, LayerKept
  <1> QED
    BY <1>3, <1>4, <1>9, <1>11, <1>13, <1>14, <1>15

LEMMA StepTaken ==
    ASSUME Orderly, TInv, [Next]_vars
    PROVE  TInv'
  <1> IInv /\ TypeOK
    BY DEF TInv, IInv
  <1> flow \in Workflows
    BY DEF TypeOK
  <1> Drawn /\ Ordered
    BY FlowDrawn, FlowOrdered
  <1>1. IInv'
    BY Step
  <1>2. CASE ExecuteLayer
    <2>1. PICK r \in Answers : RunLayer(r)
      BY <1>2 DEF ExecuteLayer
    <2>2. Exhaustive'
      BY <2>1, Effect DEF Exhaustive
    <2>3. ChoiceOK' /\ DoneOK' /\ VirtualOK' /\ ExecOK'
      BY <2>1, LayerDecides, LayerVirtual, LayerExec DEF TInv
    <2>4. ReasonOK' /\ SatedOK' /\ GroundedOK'
      BY <2>1, LayerReason, LayerSated, LayerGrounded DEF TInv
    <2>5. PathOK' /\ EverOK'
      BY <1>1, <2>1, LayerPath, LayerEver DEF TInv
    <2> QED
      BY <1>1, <2>2, <2>3, <2>4, <2>5 DEF TInv
  <1>3. CASE Schedule
    <2>1. Exhaustive'
      BY <1>3 DEF Schedule, Exhaustive
    <2>2. ChoiceOK' /\ DoneOK' /\ VirtualOK' /\ ExecOK'
      BY <1>3, ScheduleDecides, ScheduleVirtual, ScheduleExec DEF TInv
    <2>3. ReasonOK' /\ SatedOK' /\ GroundedOK'
      BY <1>3, ScheduleReason, ScheduleSated, ScheduleGrounded DEF TInv
    <2>4. PathOK' /\ EverOK'
      BY <1>3, SchedulePath, ScheduleEver DEF TInv
    <2> QED
      BY <1>1, <2>1, <2>2, <2>3, <2>4 DEF TInv
  <1>4. CASE UNCHANGED <<flow, context>> /\ (pc' = "success" => pc = "success")
    BY <1>1, <1>4, TakenKept DEF TInv, Exhaustive
  <1>5. \/ ExecuteLayer \/ Schedule
        \/ UNCHANGED <<flow, context>> /\ (pc' = "success" => pc = "success")
    BY DEF Next, LayerFails, Cancel, HitLimit, Pause, Resume, vars, context
  <1> QED
    BY <1>2, <1>3, <1>4, <1>5

\* A connection inside a parallel that led to a virtual block was taken.
LEMMA VirtuallyTaken ==
    ASSUME Drawn, Ordered, VirtualOK, NEW p \in Parallels, NEW i \in Iterations(p), p \in opened,
           NEW w \in flow.wires, w.to \in flow.nodes[p]
    PROVE  Taken(w, i) <=> VirtuallyLed(w, p, i)
  <1>1. p \in Containers /\ flow.kind[p] = "parallel"
    BY Places DEF Parallels
  <1>2. CASE w.from = p
    <2>1. w.handle = "start"
      BY <1>1, <1>2, WireEnds, Places
    <2> QED
      BY <1>1, <1>2, <2>1 DEF Taken, VirtuallyLed
  <1>3. CASE w.from \in flow.nodes[p]
    <2>1. Source(w, i) = <<w.from, i>>
      BY <1>3 DEF Source
    <2>2. w.handle \notin {"start", "end", "error"} /\ w.from # p
      BY <1>1, <1>3, WireEnds DEF Ordered
    <2>3. <<w.from, i>> \in executed => <<w.from, i>> \notin failed
      BY <1>3 DEF VirtualOK
    <2> QED
      BY <1>3, <2>1, <2>2, <2>3 DEF Taken, VirtuallyLed
  <1> QED
    BY <1>1, <1>2, <1>3, WireEnds

LEMMA OnlyTakenHolds ==
    ASSUME Orderly, TInv
    PROVE  OnlyTakenRun
  <1> IInv /\ TypeOK /\ VirtualOK
    BY DEF TInv, IInv
  <1> flow \in Workflows
    BY DEF TypeOK
  <1> Drawn /\ Ordered
    BY FlowDrawn, FlowOrdered
  <1> SUFFICES ASSUME NEW id \in executed, id[1] # Trigger
               PROVE  \E w \in Into(id[1]) : Taken(w, id[2])
    BY DEF OnlyTakenRun
  <1>1. CASE id \in Plain(Blocks)
    <2>1. id = <<id[1], 0>> /\ id[1] \in Blocks
      BY <1>1 DEF Plain
    <2>2. PICK w \in Into(id[1]) : Led(w)
      BY <2>1 DEF TInv, ExecOK
    <2> QED
      BY <2>1, <2>2, TakenIsLed DEF Into
  <1>2. ASSUME NEW p \in Parallels, id \in Virtual(p)
        PROVE  \E w \in Into(id[1]) : Taken(w, id[2])
    <2>1. id = <<id[1], id[2]>> /\ id[1] \in flow.nodes[p] /\ id[2] \in Iterations(p)
      BY <1>2 DEF Virtual
    <2>2. PICK w \in Into(id[1]) : p \in opened /\ VirtuallyLed(w, p, id[2])
      BY <2>1 DEF VirtualOK
    <2> QED
      BY <2>1, <2>2, VirtuallyTaken DEF Into
  <1> QED
    BY <1>1, <1>2 DEF TypeOK, Ids

\* For every workflow whose connections keep to their containers: a block has run
\* only behind an option that was selected, an error that was raised, a block that
\* succeeded or a container that was entered or left, whatever joins there are,
\* however often the run pauses and whatever the blocks answer.
THEOREM OnlyTaken == Orderly => (Spec => []OnlyTakenRun)
  <1> SUFFICES ASSUME Orderly
               PROVE  Spec => []OnlyTakenRun
    OBVIOUS
  <1>1. Init => TInv
    BY StartTaking
  <1>2. TInv /\ [Next]_vars => TInv'
    BY StepTaken
  <1>3. TInv => OnlyTakenRun
    BY OnlyTakenHolds
  <1> QED
    BY <1>1, <1>2, <1>3, PTL DEF Spec

-----------------------------------------------------------------------------
(* Workflows without joins *)

\* No two connections lead into one block, so that no block waits for a branch
\* that may not come.
Joinless == \A f \in Workflows : \A v, w \in f.wires : v.to = w.to => v = w

\* A block on the path that was led to may run, if it has no other input.
LEMMA LedReady ==
    ASSUME Drawn, Ordered, TInv, NEW b \in Blocks, \A v, w \in Into(b) : v = w, b \in path, <<b, 0>> \notin executed, Outside(b),
           b = Trigger \/ \E w \in Into(b) : Led(w),
           \A l \in Around(b, Loops) : Pass(l)
    PROVE  <<b, 0>> \in NextLayer
  <1> IInv /\ TypeOK
    BY DEF TInv, IInv
  <1>1. ASSUME NEW w \in flow.wires, w.to = b, Led(w)
        PROVE  DependenciesMet({w})
    <2> DEFINE id == <<w.from, 0>>
    <2>1. /\ w.from \in Containers <=> flow.kind[w.from] \in {"loop", "parallel"}
          /\ w.from \in Loops <=> flow.kind[w.from] = "loop"
          /\ w.from \in Parallels <=> flow.kind[w.from] = "parallel"
          /\ w.from \in Blocks /\ id \in Ids
      BY WireEnds
    <2>2. ASSUME StartTaken(w)
          PROVE  w.from \in Loops /\ id \in executed /\ w.handle = "start"
      <3>1. w.handle = "start" /\ w.to \in flow.nodes[w.from]
        BY <2>2 DEF StartTaken, Ordered
      <3>2. w.from \in Loops
        BY <1>1, <2>2, <3>1 DEF StartTaken, Outside, Around
      <3> QED
        BY <1>1, <3>1, <3>2 DEF Around, Pass
    <2>3. EndTaken(w) => id \in executed /\ w.handle = "end"
      BY DEF EndTaken, TInv, DoneOK
    <2>4. ErrorTaken(w) => /\ id \in failed /\ id \in executed /\ w.handle = "error"
                           /\ flow.kind[w.from] \notin {"loop", "parallel", "condition", "router"}
      <3>1. ErrorTaken(w) => ~FlowControl(w.from)
        BY DEF ErrorTaken, IInv, BlocksFailed
      <3> QED
        BY <3>1 DEF ErrorTaken, FlowControl, Drawn, Words, Ordered, TypeOK
    <2>5. CASE flow.kind[w.from] = "loop"
      <3>1. LoopTargetMet(w)
        BY <1>1, <2>1, <2>2, <2>3, <2>4, <2>5 DEF Led, ResultTaken, LoopTargetMet
      <3> QED
        BY <2>5, <3>1 DEF DependenciesMet
    <2>6. CASE flow.kind[w.from] # "loop"
      <3>1. ~StartTaken(w)
        BY <2>1, <2>2, <2>6
      <3>2. ASSUME EndTaken(w)
            PROVE  PlainMet(w)
        <4>1. flow.kind[w.from] \notin {"condition", "router"}
          BY <2>1, <2>3, <3>2 DEF Ordered
        <4> QED
          BY <3>2, <4>1 DEF EndTaken, PlainMet
      <3>3. ASSUME ErrorTaken(w)
            PROVE  PlainMet(w)
        BY <2>4, <3>3 DEF PlainMet
      <3>4. ASSUME ResultTaken(w)
            PROVE  PlainMet(w)
        <4>1. flow.kind[w.from] = "condition" => w.handle # None
          BY DEF Drawn
        <4> QED
          BY <3>4, <4>1 DEF ResultTaken, PlainMet
      <3>5. PlainMet(w)
        BY <1>1, <3>1, <3>2, <3>3, <3>4 DEF Led
      <3> QED
        BY <2>6, <3>5 DEF DependenciesMet
    <2> QED
      BY <2>5, <2>6
  <1>2. DependenciesMet(Into(b))
    <2>1. CASE b = Trigger
      <3>1. Into(b) = {}
        BY <2>1 DEF Drawn, Into
      <3> QED
        BY <3>1 DEF DependenciesMet
    <2>2. CASE \E w \in Into(b) : Led(w)
      <3>1. PICK w \in Into(b) : Led(w)
        BY <2>2
      <3>2. Into(b) = {w} /\ w \in flow.wires /\ w.to = b
        BY DEF Into
      <3> QED
        BY <1>1, <3>1, <3>2
    <2> QED
      BY <2>1, <2>2
  <1>3. PlainReady(b)
    BY <1>2 DEF PlainReady, Outside
  <1>4. <<b, 0>> \in {<<c, 0>> : c \in {d \in Blocks : PlainReady(d)}}
    BY <1>3
  <1> QED
    BY <1>4 DEF NextLayer

\* The same for a virtual block.
LEMMA VirtualReady ==
    ASSUME Drawn, Ordered, IInv, NEW p \in Parallels, NEW b \in flow.nodes[p], NEW i \in Iterations(p),
           NEW w, Into(b) = {w}, p \in opened, VirtuallyLed(w, p, i), <<b, i>> \notin executed
    PROVE  <<b, i>> \in NextLayer
  <1> p \in Containers /\ flow.kind[p] = "parallel"
    BY Places DEF Parallels
  <1>1. w \in flow.wires /\ w.to = b
    BY DEF Into
  <1>2. w.from = p \/ w.from \in flow.nodes[p]
    BY <1>1, WireEnds
  <1>3. Reached(b, p, i)
    <2>1. p \notin flow.nodes[p]
      BY Places
    <2> QED
      BY <1>2, <2>1 DEF Reached, VirtuallyLed
  <1>4. b \in Missing(p, i) /\ w.from \notin Missing(p, i)
    <2>1. b \in Missing(p, i)
      BY <1>3 DEF Missing
    <2>2. w.from \notin Missing(p, i)
      BY Places DEF Missing, VirtuallyLed
    <2> QED
      BY <2>1, <2>2
  <1>5. ~AllIterationsComplete(p)
    BY <1>4 DEF AllIterationsComplete, IterationComplete
  <1>6. Active(p) /\ <<p, 0>> \in executed
    BY <1>5 DEF IInv, ParallelOK, Active
  <1>7. <<b, i>> \in IterationReady(p, i)
    <2>1. \A c \in Missing(p, i) : c \in flow.nodes[p]
      BY DEF Missing
    <2>2. ASSUME NEW c \in Missing(p, i), NEW v \in Into(c), v.from \notin flow.nodes[p]
          PROVE  DependenciesMet({v})
      <3>1. v.from = p /\ v.handle = "start"
        BY <2>1, <2>2, Places DEF Drawn, Into
      <3>2. PlainMet(v) /\ flow.kind[v.from] # "loop"
        BY <1>6, <3>1 DEF PlainMet
      <3> QED
        BY <3>2 DEF DependenciesMet
    <2>3. b \in {c \in Missing(p, i) : \A v \in Into(c) : v.from \notin Missing(p, i)}
      BY <1>4
    <2> QED
      BY <2>2, <2>3 DEF IterationReady
  <1> QED
    BY <1>6, <1>7 DEF NextLayer

\* When nothing may run, what a taken connection leads to has run: outside a parallel ...
LEMMA PlainTakenRun ==
    ASSUME Orderly, Joinless, TInv, NextLayer = {}, NEW b \in Blocks, Outside(b), NEW w \in Into(b), Led(w)
    PROVE  <<b, 0>> \in executed
  <1> IInv /\ TypeOK
    BY DEF TInv, IInv
  <1> flow \in Workflows
    BY DEF TypeOK
  <1> Drawn /\ Ordered
    BY FlowDrawn, FlowOrdered
  <1> w \in flow.wires /\ w.to = b
    BY DEF Into
  <1> \A c : \A u, v \in Into(c) : u = v
    BY DEF Into, Joinless
  <1> SUFFICES ASSUME <<b, 0>> \notin executed
               PROVE  FALSE
    OBVIOUS
  <1>1. CASE \A l \in Around(b, Loops) : Pass(l)
    <2>1. b \in path
      BY <1>1 DEF TInv, PathOK
    <2> QED
      BY <1>1, <2>1, LedReady
  <1>2. CASE \E l \in Around(b, Loops) : ~Pass(l)
    <2>1. PICK l \in Loops : b \in flow.nodes[l] /\ ~Pass(l)
      BY <1>2 DEF Around
    <2> l \in Containers /\ l \in Blocks
      BY Places
    <2>2. Fresh(l)
      BY <2>1 DEF TInv, SatedOK, Sated
    <2>3. w.from = l
      BY <2>1, <2>2, InLoop DEF Fresh
    <2>4. w.handle = "start"
      BY <2>1, <2>3, WireEnds, Places
    <2>5. Passes(l) > 0
      <3>1. l \notin Parallels
        BY Places
      <3> QED
        BY <2>3, <2>4, <3>1 DEF Led, StartTaken, EndTaken, ErrorTaken, ResultTaken
    <2>6. Between(l)
      BY <2>2, <2>5 DEF Fresh
    <2>7. l \in path /\ <<l, 0>> \notin executed /\ (l = Trigger \/ \E v \in Into(l) : Led(v))
      BY <2>6 DEF Between, TInv, EverOK
    <2>8. Outside(l) /\ Around(l, Loops) = {}
      BY Places DEF Outside, Around
    <2> QED
      BY <2>7, <2>8, LedReady
  <1> QED
    BY <1>1, <1>2

\* ... and inside.
LEMMA VirtualTakenRun ==
    ASSUME Orderly, Joinless, TInv, NextLayer = {}, NEW p \in Parallels, NEW b \in flow.nodes[p],
           NEW i \in Iterations(p), NEW w \in Into(b), Taken(w, i)
    PROVE  <<b, i>> \in executed
  <1> IInv /\ TypeOK /\ VirtualOK
    BY DEF TInv, IInv
  <1> flow \in Workflows
    BY DEF TypeOK
  <1> Drawn /\ Ordered
    BY FlowDrawn, FlowOrdered
  <1> w \in flow.wires /\ w.to = b /\ p \in Containers /\ flow.kind[p] = "parallel"
    BY Places DEF Into, Parallels
  <1> SUFFICES ASSUME <<b, i>> \notin executed
               PROVE  FALSE
    OBVIOUS
  <1>1. Into(b) = {w}
    BY DEF Into, Joinless
  <1>2. w.from = p \/ w.from \in flow.nodes[p]
    BY WireEnds
  <1>3. p \in opened
    <2>1. CASE w.from = p
      <3>1. w.handle = "start"
        BY <2>1, WireEnds, Places
      <3> QED
        BY <2>1, <3>1 DEF Taken
    <2>2. CASE w.from \in flow.nodes[p]
      <3>1. Source(w, i) = <<w.from, i>> /\ w.handle \notin {"start", "end", "error"}
        <4>1. w.handle \notin {"start", "end", "error"}
          BY <2>2, WireEnds DEF Ordered
        <4> QED
          BY <2>2, <4>1 DEF Source
      <3>2. <<w.from, i>> \in executed
        BY <3>1 DEF Taken
      <3> QED
        BY <2>2, <3>2 DEF VirtualOK
    <2> QED
      BY <1>2, <2>1, <2>2
  <1>4. VirtuallyLed(w, p, i)
    BY <1>3, VirtuallyTaken
  <1> QED
    BY <1>1, <1>3, <1>4, VirtualReady

\* For every workflow without joins whose connections keep to their containers: a
\* run that ends well has run all that it led to and nothing else, through any
\* number of conditions, routers, error paths, passes, iterations and pauses.
THEOREM TakenPaths == Orderly /\ Joinless => (Spec => []TakenPathsRun)
  <1> SUFFICES ASSUME Orderly, Joinless
               PROVE  Spec => []TakenPathsRun
    OBVIOUS
  <1>1. ASSUME TInv
        PROVE  TakenPathsRun
    <2> IInv /\ TypeOK
      BY <1>1 DEF TInv, IInv
    <2> flow \in Workflows
      BY DEF TypeOK
    <2> Drawn /\ Ordered
      BY FlowDrawn, FlowOrdered
    <2>1. OnlyTakenRun
      BY <1>1, OnlyTakenHolds
    <2>2. ASSUME pc = "success", NEW id \in Own, NEW w \in Into(id[1]), Taken(w, id[2])
          PROVE  id \in executed
      <3>1. NextLayer = {}
        BY <1>1, <2>2 DEF TInv, Exhaustive
      <3>2. CASE id \in Plain({b \in Blocks : Around(b, Parallels) = {}})
        <4>1. id = <<id[1], 0>> /\ id[1] \in Blocks /\ Outside(id[1])
          BY <3>2 DEF Plain, Outside
        <4>2. Led(w)
          BY <2>2, <4>1, TakenIsLed DEF Into
        <4> QED
          BY <1>1, <3>1, <4>1, <4>2, PlainTakenRun
      <3>3. ASSUME NEW p \in Parallels, id \in Virtual(p)
            PROVE  id \in executed
        <4>1. id = <<id[1], id[2]>> /\ id[1] \in flow.nodes[p] /\ id[2] \in Iterations(p)
          BY <3>3 DEF Virtual
        <4>2. <<id[1], id[2]>> \in executed
          BY <1>1, <2>2, <3>1, <4>1, VirtualTakenRun
        <4> QED
          BY <4>1, <4>2
      <3> QED
        BY <3>2, <3>3 DEF Own
    <2> QED
      BY <2>1, <2>2 DEF TakenPathsRun
  <1>2. Init => TInv
    BY StartTaking
  <1>3. TInv /\ [Next]_vars => TInv'
    BY StepTaken
  <1>4. TInv => TakenPathsRun
    BY <1>1
  <1> QED
    BY <1>2, <1>3, <1>4, PTL DEF Spec

\* Of two blocks the second of which waits for the first, the second has not
\* completed before the first does, nor with it.
LEMMA InputBefore ==
    ASSUME Orderly, Joinless, TInv, [Next]_vars, NEW w \in flow.wires, NEW id \in Own, id[1] = w.to,
           w.handle # "start", Source(w, id[2]) \in executed' \ executed
    PROVE  id \notin executed'
  <1> IInv /\ TypeOK /\ VirtualOK
    BY DEF TInv, IInv
  <1> flow \in Workflows
    BY DEF TypeOK
  <1> Drawn /\ Ordered
    BY FlowDrawn, FlowOrdered
  <1> SUFFICES ASSUME id \in executed'
               PROVE  FALSE
    OBVIOUS
  <1>1. Into(id[1]) = {w} /\ id[1] # Trigger
    <2>1. w \in Into(id[1]) /\ \A v \in Into(id[1]) : v = w
      BY DEF Into, Joinless
    <2> QED
      BY <2>1, WireEnds
  <1>2. id \in executed \cup NextLayer
    <2>1. CASE ExecuteLayer
      <3>1. PICK r \in Answers : RunLayer(r)
        BY <2>1 DEF ExecuteLayer
      <3> QED
        BY <3>1, Effect DEF Ran
    <2>2. CASE Schedule
      BY <2>2, ScheduleEffect
    <2>3. CASE UNCHANGED context
      BY <2>3 DEF context
    <2> QED
      BY <2>1, <2>2, <2>3 DEF Next, LayerFails, Cancel, HitLimit, Pause, Resume, vars
  <1>3. CASE id \in Plain(Blocks)
    <2>1. id = <<id[1], 0>> /\ id[1] \in Blocks
      BY <1>3 DEF Plain
    <2>2. Led(w)
      <3>1. CASE id \in executed
        BY <1>1, <2>1, <3>1 DEF TInv, ExecOK
      <3>2. CASE id \in NextLayer
        <4>1. PlainReady(id[1])
          BY <2>1, <3>2, PlainNext
        <4> QED
          BY <1>1, <2>1, <4>1, ReadyIsLed DEF TInv
      <3> QED
        BY <1>2, <3>1, <3>2
    <2>3. <<w.from, 0>> \in executed
      BY <2>2 DEF Led, StartTaken, EndTaken, ErrorTaken, ResultTaken, TInv, DoneOK, TypeOK
    <2>4. Source(w, 0) = <<w.from, 0>>
      BY DEF Source
    <2> QED
      BY <2>1, <2>3, <2>4
  <1>4. ASSUME NEW p \in Parallels, id \in Virtual(p)
        PROVE  FALSE
    <2>1. id = <<id[1], id[2]>> /\ id[1] \in flow.nodes[p] /\ id[2] \in Iterations(p) /\ id[2] # 0
      BY <1>4 DEF Virtual, Iterations
    <2>2. VirtuallyLed(w, p, id[2])
      <3>1. CASE id \in executed
        BY <1>1, <2>1, <3>1 DEF VirtualOK
      <3>2. CASE id \in NextLayer
        <4>1. PICK q \in Parallels : \E i \in Iterations(q) : id[1] \in flow.nodes[q] /\ id = <<id[1], i>> /\ id[1] \in Missing(q, i)
          BY <2>1, <3>2, MayRunNext
        <4>2. q = p
          BY <2>1, <4>1, Places DEF Drawn
        <4>3. Reached(id[1], p, id[2])
          BY <2>1, <4>1, <4>2 DEF Missing
        <4> QED
          BY <1>1, <2>1, <4>3, ReachedIsLed
      <3> QED
        BY <1>2, <3>1, <3>2
    <2>3. w.from # p
      BY <2>1, WireEnds, Places
    <2>4. w.from \in flow.nodes[p] /\ <<w.from, id[2]>> \in executed
      BY <2>2, <2>3 DEF VirtuallyLed
    <2>5. Source(w, id[2]) = <<w.from, id[2]>>
      BY <2>1, <2>4 DEF Source
    <2> QED
      BY <2>4, <2>5
  <1> QED
    BY <1>3, <1>4 DEF Own, Plain

\* For the same workflows: no block completes after, or in one layer with, a block
\* that its outcome leads to.
THEOREM InputsFirst == Orderly /\ Joinless => (Spec => WaitsForInputs)
  <1> SUFFICES ASSUME Orderly, Joinless
               PROVE  Spec => WaitsForInputs
    OBVIOUS
  <1>1. TInv /\ [Next]_vars =>
           [\A w \in flow.wires : \A id \in Own :
              /\ id[1] = w.to
              /\ w.handle # "start"
              /\ Source(w, id[2]) \in executed' \ executed
              /\ Taken(w, id[2])'
              => id \notin executed']_vars
    BY InputBefore
  <1>2. Init => TInv
    BY StartTaking
  <1>3. TInv /\ [Next]_vars => TInv'
    BY StepTaken
  <1> QED
    BY <1>1, <1>2, <1>3, PTL DEF Spec, WaitsForInputs

-----------------------------------------------------------------------------
(* Runs that end by themselves *)

\* An approval has one input, so that what was asked is asked again.
AskedAlone ==
    \A f \in Workflows : \A v, w \in f.wires :
        v.to = w.to /\ f.kind[w.to] = "approval" => v = w

\* The turns that the blocks of a workflow can take while its loops are counted: a
\* block runs once, in a loop once in each pass, in a parallel once in each
\* iteration; a loop runs before each pass and after the last one, a parallel
\* before its iterations and after them; and an approval asks before it runs.
TurnsOf(f) ==
    {t \in (Range(f.blocks) \X (0 .. MaxRounds)) \X ((1 .. MaxRounds + 1) \X {"run", "ask"}) :
        LET b == t[1][1]
            i == t[1][2]
            k == t[2][1]
        IN  /\ t[2][2] = "ask" => f.kind[b] = "approval"
            /\ f.kind[b] = "loop" => i = 0 /\ k <= f.rounds[b] + 1
            /\ f.kind[b] = "parallel" => i = 0 /\ k <= 2
            /\ \A c \in DOMAIN f.nodes : b \in f.nodes[c] =>
                  IF f.kind[c] = "parallel" THEN i \in 1 .. f.rounds[c] /\ k = 1
                  ELSE i = 0 /\ k <= f.rounds[c]
            /\ (\A c \in DOMAIN f.nodes : b # c /\ b \notin f.nodes[c]) => i = 0 /\ k = 1}

\* The limit of layers leaves room for every turn, one by one.
Roomy ==
    \A f \in Workflows :
        (\A l \in DOMAIN f.nodes : f.kind[l] = "loop" => f.rounds[l] > 0) => Cardinality(TurnsOf(f)) < LayerLimit

AllCounted == \A l \in Loops : Counted(l)

\* The turns that were taken.
Took ==
    {t \in TurnsOf(flow) :
        /\ t[1] \in Ids
        /\ t[2][2] = "run" => t[2][1] <= runs[t[1]]
        /\ t[2][2] = "ask" => t[2][1] <= runs[t[1]] + (IF t[1] \in asked \cup answered THEN 1 ELSE 0)}

\* What is asked may run, and what is answered runs in the next layer.
AskedOK ==
    /\ pc = "layer" => asked = {} /\ answered \subseteq NextLayer /\ NextLayer # {}
    /\ pc \in {"settled", "paused"} => asked \subseteq NextLayer /\ answered = {}
    /\ pc = "paused" => asked # {}

\* A loop runs before each pass and after the last one.
LoopRunsOK ==
    \A l \in Loops :
        runs[<<l, 0>>] + (IF <<l, 0>> \in executed THEN 0 ELSE 1) <= (IF round[l] = 0 THEN 1 ELSE round[l])

\* A parallel runs before its iterations and after them.
ParallelRunsOK ==
    \A p \in Parallels :
        runs[<<p, 0>>] = (IF p \in opened THEN 1 ELSE 0) + (IF p \in done THEN 1 ELSE 0)

\* Every layer took a turn.
TurnsOK ==
    AllCounted /\ pc \in {"layer", "settled", "paused"} =>
        layers + (IF pc = "settled" THEN 1 ELSE 0) <= Cardinality(Took)

LInv == TInv /\ AskedOK /\ LoopRunsOK /\ ParallelRunsOK /\ TurnsOK /\ (pc = "limit" => ~AllCounted)

\* What LedReady and VirtualReady say of a state.
LedMayRun ==
    \A b \in Blocks :
        /\ \A v, w \in Into(b) : v = w
        /\ b \in path /\ <<b, 0>> \notin executed /\ Outside(b)
        /\ b = Trigger \/ \E w \in Into(b) : Led(w)
        /\ \A l \in Around(b, Loops) : Pass(l)
        => <<b, 0>> \in NextLayer

VirtuallyLedMayRun ==
    \A p \in Parallels : \A b \in flow.nodes[p] : \A i \in Iterations(p) : \A w :
        Into(b) = {w} /\ p \in opened /\ VirtuallyLed(w, p, i) /\ <<b, i>> \notin executed
            => <<b, i>> \in NextLayer

LEMMA LedRuns == Drawn /\ Ordered /\ TInv => LedMayRun /\ VirtuallyLedMayRun
  <1> SUFFICES ASSUME Drawn, Ordered, TInv
               PROVE  LedMayRun /\ VirtuallyLedMayRun
    OBVIOUS
  <1>1. LedMayRun
    BY LedReady DEF LedMayRun
  <1>2. VirtuallyLedMayRun
    <2> IInv
      BY DEF TInv
    <2> QED
      BY VirtualReady DEF VirtuallyLedMayRun
  <1> QED
    BY <1>1, <1>2

LEMMA LedRunsNext == Drawn' /\ Ordered' /\ TInv' => LedMayRun' /\ VirtuallyLedMayRun'
  BY LedRuns, PTL

\* Only approvals ask, and they do not ask when they are answered.
LEMMA Asking ==
    ASSUME Drawn, NEW id \in Ids
    PROVE  /\ "pause" \in Outcomes(id) => flow.kind[id[1]] = "approval" /\ id \notin answered
           /\ flow.kind[id[1]] = "approval" /\ id \in answered => Outcomes(id) = {"ok"}
  <1> DEFINE b == id[1]
  <1> b \in Blocks
    BY Places
  <1>1. flow.kind[b] \in {"trigger", "regular", "approval", "condition", "router", "loop", "parallel"}
    BY DEF Drawn
  <1>2. CASE flow.kind[b] = "approval"
    BY <1>2 DEF Outcomes
  <1>3. CASE flow.kind[b] = "condition"
    <2>1. ASSUME "pause" \in Outcomes(id)
          PROVE  FALSE
      <3>1. "pause" = None \/ \E w \in OutOf(b) : "pause" = w.handle
        BY <1>3, <2>1 DEF Outcomes
      <3> QED
        BY <1>3, <3>1 DEF Drawn, Words, OutOf
    <2> QED
      BY <1>3, <2>1
  <1>4. CASE flow.kind[b] = "router"
    <2>1. ASSUME "pause" \in Outcomes(id)
          PROVE  FALSE
      <3>1. \E w \in OutOf(b) : "pause" = w.to
        BY <1>4, <2>1 DEF Outcomes
      <3> QED
        BY <3>1 DEF Drawn, Words, OutOf
    <2> QED
      BY <1>4, <2>1
  <1>5. CASE flow.kind[b] \in {"trigger", "regular", "parallel"}
    BY <1>5 DEF Outcomes
  <1>6. CASE flow.kind[b] = "loop"
    BY <1>6 DEF Outcomes
  <1> QED
    BY <1>1, <1>2, <1>3, <1>4, <1>5, <1>6

\* An approval that asks may run as soon as it is answered, whatever ran with it.
LEMMA AskedStays ==
    ASSUME AskedAlone, Orderly, TInv, TInv', NEW r \in Answers, RunLayer(r), NEW id \in NextLayer, r[id] = "pause"
    PROVE  id \in NextLayer'
  <1> IInv /\ TypeOK /\ ChoiceOK /\ ReasonOK /\ SatedOK
    BY DEF TInv, IInv
  <1> flow \in Workflows
    BY DEF TypeOK
  <1> Drawn /\ Ordered
    BY FlowDrawn, FlowOrdered
  <1>1. /\ flow' = flow
        /\ executed' = (executed \ Plain(Repeated(r))) \cup Ran(r)
        /\ opened' = opened \cup Saying(r, "open")
        /\ \A j \in Ids : j \notin Plain(Repeated(r)) \cup Ran(r) => choice'[j] = choice[j]
    BY Effect
  <1>2. Blocks' = Blocks /\ Trigger' = Trigger /\ Loops' = Loops /\ Parallels' = Parallels
    BY <1>1, Fixed
  <1>3. LedMayRun' /\ VirtuallyLedMayRun'
    <2>1. flow' \in Workflows
      BY <1>1
    <2>2. Drawn' /\ Ordered'
      BY <1>1, <1>2, Fixed DEF Drawn, Ordered, FlowControl
    <2> QED
      BY <2>2, LedRunsNext
  <1> DEFINE b == id[1]
  <1>4. id \in Ids /\ id \notin executed /\ id \notin Ran(r) /\ b \in Blocks /\ flow.kind[b] = "approval"
    <2>1. id \in Ids /\ r[id] \in Outcomes(id)
      BY Given
    <2> QED
      BY <2>1, Asking, MayRunNext DEF Ran
  <1>5. \A v, w \in Into(b) : v = w
    BY <1>4 DEF AskedAlone, Into
  <1>6. Into(b)' = Into(b)
    BY <1>1 DEF Into
  <1>7. CASE id = <<b, 0>> /\ PlainReady(b)
    <2>1. b \in path
      BY <1>7 DEF PlainReady
    <2>2. Outside(b) /\ (b = Trigger \/ \E w \in Into(b) : Led(w))
      <3>1. CASE b = Trigger
        BY <3>1, Places DEF Outside, Around
      <3> QED
        BY <1>4, <1>7, <3>1, ReadyIsLed
    <2>3. \A l \in Around(b, Loops) : Pass(l)
      BY LoopRests DEF Around
    <2>4. \A l \in Around(b, Loops) : Pass(l)'
      <3> TAKE l \in Around(b, Loops)
      <3>1. l \in Loops /\ Pass(l) /\ CountOK(l)
        BY <2>3 DEF Around, IInv, LoopOK
      <3> QED
        BY <3>1, LoopTurn, PassesTurn
    <2>5. b \notin Repeated(r) /\ b \in Marked(r)
      BY <2>1, <2>3, StaysMarked
    <2>6. b \in path'
      BY <2>5, PathRuns, OpenedHolds DEF Drawn
    <2>7. \A w \in Into(b) : Led(w) => Led(w)'
      <3> TAKE w \in Into(b)
      <3>1. w \in flow.wires /\ w.to = b
        BY DEF Into
      <3>2. w.from \notin Repeated(r)
        BY <2>5, <3>1, Together
      <3> QED
        BY <3>1, <3>2, LayerLed
    <2>8. Outside(b)' /\ Around(b, Loops)' = Around(b, Loops)
      BY <1>1, <1>2, <2>2 DEF Outside, Around
    <2>9. <<b, 0>> \notin executed'
      BY <1>1, <1>4, <1>7
    <2> QED
      BY <1>2, <1>3, <1>4, <1>5, <1>6, <1>7, <2>2, <2>4, <2>6, <2>7, <2>8, <2>9 DEF LedMayRun
  <1>8. ASSUME NEW p \in Parallels, NEW i \in Iterations(p), Active(p), b \in flow.nodes[p],
               id = <<b, i>>, b \in Missing(p, i)
        PROVE  id \in NextLayer'
    <2>1. PICK w \in Into(b) : VirtuallyLed(w, p, i)
      BY <1>8, ReachedIsLed DEF Missing
    <2>2. Into(b) = {w}
      BY <1>5, <2>1
    <2>3. p \in opened'
      BY <1>1, <1>8 DEF Active
    <2>4. i # 0 /\ i \in Iterations(p)'
      BY <1>1 DEF Iterations
    <2>5. ASSUME w.from \in flow.nodes[p], <<w.from, i>> \in executed
          PROVE  <<w.from, i>> \in executed' /\ choice'[<<w.from, i>>] = choice[<<w.from, i>>]
      <3>1. <<w.from, i>> \in Ids /\ <<w.from, i>> \notin Plain(Repeated(r))
        BY <2>4, <2>5 DEF Ids, Virtual, Plain
      <3>2. <<w.from, i>> \notin NextLayer
        BY <2>5, MayRunNext
      <3> QED
        BY <1>1, <2>5, <3>1, <3>2 DEF Ran
    <2>6. VirtuallyLed(w, p, i)'
      BY <1>1, <2>1, <2>5 DEF VirtuallyLed
    <2>7. <<b, i>> \notin executed'
      BY <1>1, <1>4, <1>8
    <2> QED
      BY <1>1, <1>2, <1>3, <1>6, <1>8, <2>2, <2>3, <2>4, <2>6, <2>7 DEF VirtuallyLedMayRun
  <1> QED
    BY <1>7, <1>8, MayRunNext

LEMMA FewTurns ==
    ASSUME flow \in Workflows
    PROVE  IsFiniteSet(TurnsOf(flow))
  <1>1. IsFiniteSet(Range(flow.blocks))
    BY FewBlocks DEF Blocks
  <1>2. IsFiniteSet(0 .. MaxRounds) /\ IsFiniteSet(1 .. MaxRounds + 1)
    <2>1. 0 \in Int /\ MaxRounds \in Int /\ 1 \in Int /\ MaxRounds + 1 \in Int
      BY LimitAssumption
    <2> QED
      BY <2>1, FS_Interval
  <1>3. IsFiniteSet({"run", "ask"})
    <2>1. IsFiniteSet({} \cup {"run"})
      BY FS_EmptySet, FS_AddElement
    <2>2. IsFiniteSet(({} \cup {"run"}) \cup {"ask"})
      BY <2>1, FS_AddElement
    <2>3. ({} \cup {"run"}) \cup {"ask"} = {"run", "ask"}
      OBVIOUS
    <2> QED
      BY <2>2, <2>3
  <1>4. IsFiniteSet(Range(flow.blocks) \X (0 .. MaxRounds)) /\ IsFiniteSet((1 .. MaxRounds + 1) \X {"run", "ask"})
    BY <1>1, <1>2, <1>3, FS_Product
  <1> DEFINE All == (Range(flow.blocks) \X (0 .. MaxRounds)) \X ((1 .. MaxRounds + 1) \X {"run", "ask"})
  <1>5. IsFiniteSet(All)
    BY <1>4, FS_Product
  <1>6. TurnsOf(flow) \in SUBSET All
    BY DEF TurnsOf
  <1> QED
    BY <1>5, <1>6, FS_Subset

\* A block that may run has a turn left.
LEMMA TurnLeft ==
    ASSUME Drawn, IInv, DoneOK, LoopRunsOK, ParallelRunsOK, AllCounted, NEW id \in NextLayer, NEW what \in {"run", "ask"},
           what = "ask" => flow.kind[id[1]] = "approval"
    PROVE  <<id, <<runs[id] + 1, what>>>> \in TurnsOf(flow)
  <1> TypeOK
    BY DEF IInv
  <1> DEFINE b == id[1]
             i == id[2]
             k == runs[id] + 1
  <1>1. id \in Ids /\ id \notin executed /\ b \in Blocks /\ runs[id] \in Nat /\ k \in Nat \ {0}
    BY MayRunNext DEF TypeOK
  <1>2. /\ Containers = DOMAIN flow.nodes /\ Blocks = Range(flow.blocks)
        /\ \A c \in Containers : c \in Loops <=> flow.kind[c] = "loop"
        /\ \A c \in Containers : c \in Parallels <=> flow.kind[c] = "parallel"
        /\ b \in Containers <=> flow.kind[b] \in {"loop", "parallel"}
        /\ \A c \in Containers : flow.rounds[c] \in 0 .. MaxRounds
    BY <1>1 DEF Containers, Blocks, Loops, Parallels, Drawn, FlowControl
  <1>3. MaxRounds \in Nat \ {0}
    BY LimitAssumption
  <1>4. CASE b \in Loops
    <2>1. i = 0 /\ id = <<b, 0>> /\ b \in Containers
      BY <1>4, ContainerIsPlain, Places
    <2>2. k <= (IF round[b] = 0 THEN 1 ELSE round[b])
      BY <1>1, <1>4, <2>1 DEF LoopRunsOK
    <2>3. round[b] <= flow.rounds[b] + 1 /\ round[b] \in Nat /\ flow.rounds[b] \in 0 .. MaxRounds
      BY <1>2, <1>4, <2>1 DEF AllCounted, IInv, LoopOK, CountOK, TypeOK
    <2>4. k <= flow.rounds[b] + 1 /\ k <= MaxRounds + 1
      BY <1>1, <1>3, <2>2, <2>3
    <2>5. \A c \in Containers : b \notin flow.nodes[c]
      BY <2>1, Places
    <2>6. <<id, <<k, what>>>> \in (Range(flow.blocks) \X (0 .. MaxRounds)) \X ((1 .. MaxRounds + 1) \X {"run", "ask"})
      BY <1>1, <1>2, <1>3, <2>1, <2>4
    <2> QED
      BY <1>2, <1>4, <2>1, <2>4, <2>5, <2>6 DEF TurnsOf
  <1>5. CASE b \in Parallels
    <2>1. i = 0 /\ id = <<b, 0>> /\ b \in Containers /\ b \notin Loops
      BY <1>5, ContainerIsPlain, Places
    <2>2. b \notin done
      BY <1>1, <2>1 DEF DoneOK
    <2>3. k <= 2 /\ k <= MaxRounds + 1
      BY <1>1, <1>3, <1>5, <2>1, <2>2 DEF ParallelRunsOK
    <2>4. \A c \in Containers : b \notin flow.nodes[c]
      BY <2>1, Places
    <2>5. <<id, <<k, what>>>> \in (Range(flow.blocks) \X (0 .. MaxRounds)) \X ((1 .. MaxRounds + 1) \X {"run", "ask"})
      BY <1>1, <1>2, <1>3, <2>1, <2>3
    <2> QED
      BY <1>2, <1>5, <2>1, <2>3, <2>4, <2>5 DEF TurnsOf
  <1>6. ASSUME NEW l \in Loops, b \in flow.nodes[l]
        PROVE  <<id, <<k, what>>>> \in TurnsOf(flow)
    <2> l \in Containers
      BY Places
    <2>1. i = 0 /\ id = <<b, 0>> /\ b \in path /\ b \notin Containers
      BY <1>6, LoopBlockIsPlain, Places
    <2>2. BlocksOK(l) /\ CountOK(l) /\ Counted(l) /\ round[l] \in Nat /\ flow.rounds[l] \in 0 .. MaxRounds
      BY <1>2, Places DEF IInv, LoopOK, AllCounted, TypeOK
    <2>3. runs[id] < Passes(l)
      BY <1>1, <1>6, <2>1, <2>2 DEF BlocksOK, Idle
    <2>4. Passes(l) <= flow.rounds[l] /\ Passes(l) \in Nat
      BY <2>2 DEF Passes, CountOK, Pass
    <2>5. k <= flow.rounds[l] /\ k <= MaxRounds + 1
      BY <1>1, <1>3, <2>2, <2>3, <2>4
    <2>6. \A c \in Containers : b \in flow.nodes[c] => c = l
      BY <1>6 DEF Drawn
    <2>7. <<id, <<k, what>>>> \in (Range(flow.blocks) \X (0 .. MaxRounds)) \X ((1 .. MaxRounds + 1) \X {"run", "ask"})
      BY <1>1, <1>2, <1>3, <2>1, <2>5
    <2>8. flow.kind[l] # "parallel"
      BY <1>2, <1>6, Places
    <2> QED
      BY <1>2, <1>6, <2>1, <2>5, <2>6, <2>7, <2>8 DEF TurnsOf
  <1>7. ASSUME b \notin Containers, \A l \in Loops : b \notin flow.nodes[l]
        PROVE  runs[id] = 0 /\ k = 1
    <2>1. ~FlowControl(b) /\ Around(b, Loops) = {}
      BY <1>1, <1>7, Places DEF Around
    <2> QED
      BY <1>1, <2>1 DEF IInv, RanOnce
  <1>8. ASSUME NEW p \in Parallels, b \in flow.nodes[p]
        PROVE  <<id, <<k, what>>>> \in TurnsOf(flow)
    <2> p \in Containers
      BY Places
    <2>1. \A c \in Containers : b \in flow.nodes[c] => c = p
      BY <1>8 DEF Drawn
    <2>2. b \notin Containers /\ \A l \in Loops : b \notin flow.nodes[l]
      BY <1>8, <2>1, Places
    <2>3. k = 1
      BY <1>7, <2>2
    <2>4. id = <<b, i>> /\ i \in 1 .. flow.rounds[p]
      <3>1. CASE id = <<b, 0>> /\ PlainReady(b)
        <4>1. ~Active(p) /\ b \in path
          BY <1>8, <3>1 DEF PlainReady, Around
        <4> QED
          BY <1>8, <4>1 DEF IInv, ParallelOK, Idle
      <3>2. ASSUME NEW q \in Parallels, NEW j \in Iterations(q), b \in flow.nodes[q], id = <<b, j>>
            PROVE  id = <<b, i>> /\ i \in 1 .. flow.rounds[p]
        BY <2>1, <3>2, Places DEF Iterations
      <3> QED
        BY <3>1, <3>2, MayRunNext
    <2>5. i \in 0 .. MaxRounds /\ flow.kind[p] = "parallel"
      BY <1>2, <1>3, <2>4
    <2>6. <<id, <<k, what>>>> \in (Range(flow.blocks) \X (0 .. MaxRounds)) \X ((1 .. MaxRounds + 1) \X {"run", "ask"})
      BY <1>1, <1>2, <1>3, <2>3, <2>4, <2>5
    <2> QED
      BY <1>2, <1>8, <2>1, <2>2, <2>3, <2>4, <2>5, <2>6 DEF TurnsOf
  <1>9. CASE b \notin Containers /\ \A c \in Containers : b \notin flow.nodes[c]
    <2>1. k = 1
      BY <1>7, <1>9, Places
    <2>2. id = <<b, 0>> /\ i = 0
      BY <1>9, MayRunNext, Places
    <2>3. <<id, <<k, what>>>> \in (Range(flow.blocks) \X (0 .. MaxRounds)) \X ((1 .. MaxRounds + 1) \X {"run", "ask"})
      BY <1>1, <1>2, <1>3, <2>1, <2>2
    <2> QED
      BY <1>2, <1>9, <2>1, <2>2, <2>3 DEF TurnsOf
  <1> QED
    BY <1>4, <1>5, <1>6, <1>8, <1>9, Places

\* A layer takes a turn that was not taken, and gives none back.
LEMMA LayerTakes ==
    ASSUME Drawn, IInv, DoneOK, AskedOK, LoopRunsOK, ParallelRunsOK, AllCounted, flow \in Workflows, pc = "layer",
           NEW r \in Answers, RunLayer(r)
    PROVE  Cardinality(Took) + 1 <= Cardinality(Took') /\ Cardinality(Took) \in Nat /\ Cardinality(Took') \in Nat
  <1> TypeOK
    BY DEF IInv
  <1>1. /\ flow' = flow
        /\ runs' = [id \in Ids |-> IF id \in Ran(r) THEN runs[id] + 1 ELSE runs[id]]
    BY Effect
  <1>2. Ids' = Ids /\ TurnsOf(flow)' = TurnsOf(flow)
    BY <1>1, Fixed
  <1>3. asked = {} /\ answered \subseteq NextLayer /\ asked' = {id \in NextLayer : r[id] = "pause"}
    <2>1. DOMAIN r = NextLayer
      BY Given
    <2> QED
      BY <2>1 DEF AskedOK, RunLayer
  <1>4. \A id \in Ids : runs[id] \in Nat
    BY DEF TypeOK
  <1>5. \A id \in answered : id \in Ran(r)
    <2> SUFFICES ASSUME NEW id \in answered
                 PROVE  id \in NextLayer /\ r[id] # "pause"
      BY DEF Ran
    <2>1. id \in NextLayer /\ id \in Ids /\ r[id] \in Outcomes(id)
      BY <1>3, Given
    <2> QED
      BY <2>1, Asking
  <1>6. Took \subseteq Took'
    <2> SUFFICES ASSUME NEW t \in Took
                 PROVE  t \in Took'
      OBVIOUS
    <2>1. t \in TurnsOf(flow) /\ t[1] \in Ids /\ t[2][1] \in Nat
      BY LimitAssumption DEF Took, TurnsOf
    <2>2. t[2][2] = "run" => t[2][1] <= runs'[t[1]]
      BY <1>1, <1>4, <2>1 DEF Took
    <2>3. t[2][2] = "ask" => t[2][1] <= runs'[t[1]] + (IF t[1] \in asked' \cup answered' THEN 1 ELSE 0)
      <3>1. t[1] \in answered => runs'[t[1]] = runs[t[1]] + 1
        BY <1>1, <1>5, <2>1
      <3>2. runs'[t[1]] \in Nat /\ runs[t[1]] \in Nat /\ runs[t[1]] <= runs'[t[1]]
        BY <1>1, <1>4, <2>1
      <3>3. t[2][2] = "ask" => t[2][1] <= runs[t[1]] + (IF t[1] \in answered THEN 1 ELSE 0)
        BY <1>3 DEF Took
      <3> QED
        BY <2>1, <3>1, <3>2, <3>3
    <2> QED
      BY <1>2, <2>1, <2>2, <2>3 DEF Took
  <1>7. PICK id \in NextLayer : TRUE
    BY DEF AskedOK
  <1>8. id \in Ids /\ r[id] \in Outcomes(id)
    BY Given
  <1>9. \E t \in Took' : t \notin Took
    <2>1. CASE r[id] = "pause"
      <3> DEFINE t == <<id, <<runs[id] + 1, "ask">>>>
      <3>1. flow.kind[id[1]] = "approval" /\ id \notin answered
        BY <1>8, <2>1, Asking
      <3>2. t \in TurnsOf(flow)
        BY <3>1, TurnLeft
      <3>3. t \notin Took
        BY <1>3, <1>4, <1>8, <3>1 DEF Took
      <3>4. t \in Took'
        BY <1>1, <1>2, <1>3, <1>4, <1>8, <2>1, <3>2 DEF Took, Ran
      <3> QED
        BY <3>3, <3>4
    <2>2. CASE r[id] # "pause"
      <3> DEFINE t == <<id, <<runs[id] + 1, "run">>>>
      <3>1. t \in TurnsOf(flow)
        BY TurnLeft
      <3>2. t \notin Took
        BY <1>4, <1>8 DEF Took
      <3>3. t \in Took'
        BY <1>1, <1>2, <1>4, <1>8, <2>2, <3>1 DEF Took, Ran
      <3> QED
        BY <3>2, <3>3
    <2> QED
      BY <2>1, <2>2
  <1>10. Took \in SUBSET Took' /\ Took' \in SUBSET TurnsOf(flow) /\ Took # Took'
    BY <1>2, <1>6, <1>9 DEF Took
  <1>11. IsFiniteSet(Took')
    BY <1>10, FewTurns, FS_Subset
  <1>12. IsFiniteSet(Took) /\ Cardinality(Took) <= Cardinality(Took') /\ Cardinality(Took) # Cardinality(Took')
    BY <1>10, <1>11, FS_Subset
  <1> QED
    BY <1>11, <1>12, FS_CardinalityType

LEMMA LayerRuns ==
    ASSUME Drawn, IInv, DoneOK, LoopRunsOK, ParallelRunsOK, NEW r \in Answers, RunLayer(r)
    PROVE  LoopRunsOK' /\ ParallelRunsOK'
  <1> TypeOK
    BY DEF IInv
  <1>1. /\ flow' = flow
        /\ executed' = (executed \ Plain(Repeated(r))) \cup Ran(r)
        /\ opened' = opened \cup Saying(r, "open")
        /\ done' = done \cup Saying(r, "stop") \cup Saying(r, "close")
        /\ runs' = [id \in Ids |-> IF id \in Ran(r) THEN runs[id] + 1 ELSE runs[id]]
        /\ \A id \in NextLayer : id[1] \in Containers => r[id] # "error"
    BY Effect
  <1>2. Loops' = Loops /\ Parallels' = Parallels
    BY <1>1, Fixed
  <1>3. \A c \in Containers : <<c, 0>> \in Ids /\ runs[<<c, 0>>] \in Nat
    BY Places DEF TypeOK
  <1>4. \A c \in Containers : <<c, 0>> \in NextLayer => <<c, 0>> \in Ran(r) /\ <<c, 0>> \notin executed
    <2> SUFFICES ASSUME NEW c \in Containers, <<c, 0>> \in NextLayer
                 PROVE  r[<<c, 0>>] # "pause" /\ <<c, 0>> \notin executed
      BY DEF Ran
    <2>1. r[<<c, 0>>] \in Outcomes(<<c, 0>>)
      BY Given
    <2> QED
      BY <1>3, <2>1, Answer, MayRunNext
  <1>5. ASSUME NEW l \in Loops
        PROVE  runs'[<<l, 0>>] + (IF <<l, 0>> \in executed' THEN 0 ELSE 1) <= (IF round'[l] = 0 THEN 1 ELSE round'[l])
    <2> l \in Containers /\ CountOK(l) /\ round[l] \in Nat
      BY Places DEF IInv, LoopOK, TypeOK
    <2>1. Rests(l, r) \/ Begins(l, r) \/ Ends(l, r)
      BY LoopTurn
    <2>2. CASE <<l, 0>> \in Ran(r)
      <3>1. runs'[<<l, 0>>] = runs[<<l, 0>>] + 1 /\ <<l, 0>> \in executed' /\ <<l, 0>> \notin executed
        BY <1>1, <1>3, <1>4, <2>2 DEF Ran
      <3>2. round'[l] = IF round[l] = 0 THEN 1 ELSE round[l]
        BY <2>1, <3>1 DEF Rests, Begins, Ends
      <3> QED
        BY <1>3, <3>1, <3>2 DEF LoopRunsOK
    <2>3. CASE <<l, 0>> \notin Ran(r)
      <3>1. runs'[<<l, 0>>] = runs[<<l, 0>>]
        BY <1>1, <1>3, <2>3
      <3>2. <<l, 0>> \notin NextLayer
        BY <1>4, <2>3
      <3>3. <<l, 0>> \in executed' <=> <<l, 0>> \in executed
        BY <1>1, <2>3, ContainersStand DEF Plain
      <3>4. round'[l] = round[l]
        BY <3>2, Effect
      <3> QED
        BY <3>1, <3>3, <3>4 DEF LoopRunsOK
    <2> QED
      BY <2>2, <2>3
  <1>6. ASSUME NEW p \in Parallels
        PROVE  runs'[<<p, 0>>] = (IF p \in opened' THEN 1 ELSE 0) + (IF p \in done' THEN 1 ELSE 0)
    <2> p \in Containers /\ p \notin Loops /\ ParallelOK(p)
      BY Places DEF IInv
    <2>1. p \notin Saying(r, "stop")
      BY Given
    <2>2. CASE <<p, 0>> \in NextLayer
      <3>1. runs'[<<p, 0>>] = runs[<<p, 0>>] + 1 /\ <<p, 0>> \notin executed
        BY <1>1, <1>3, <1>4, <2>2
      <3>2. p \notin done
        BY <3>1 DEF DoneOK
      <3>3. CASE p \notin opened
        <4>1. r[<<p, 0>>] = "open"
          <5>1. r[<<p, 0>>] \in Outcomes(<<p, 0>>) /\ r[<<p, 0>>] # "error"
            BY <1>1, <2>2, Given
          <5>2. flow.kind[p] = "parallel"
            BY DEF Parallels
          <5> QED
            BY <3>3, <5>1, <5>2 DEF Outcomes
        <4>2. p \in Saying(r, "open") /\ p \notin Saying(r, "close")
          BY <2>2, <4>1 DEF Saying
        <4> QED
          BY <1>1, <2>1, <3>1, <3>2, <3>3, <4>2 DEF ParallelRunsOK
      <3>4. CASE p \in opened
        <4>1. r[<<p, 0>>] = "close"
          <5>1. r[<<p, 0>>] \in Outcomes(<<p, 0>>)
            BY <2>2, Given
          <5>2. flow.kind[p] = "parallel" /\ AllIterationsComplete(p)
            BY <3>1, <3>4 DEF Parallels, ParallelOK
          <5> QED
            BY <3>4, <5>1, <5>2 DEF Outcomes
        <4>2. p \in Saying(r, "close")
          BY <2>2, <4>1 DEF Saying
        <4> QED
          BY <1>1, <3>1, <3>2, <3>4, <4>2 DEF ParallelRunsOK
      <3> QED
        BY <3>3, <3>4
    <2>3. CASE <<p, 0>> \notin NextLayer
      <3>1. runs'[<<p, 0>>] = runs[<<p, 0>>]
        BY <1>1, <1>3, <2>3 DEF Ran
      <3>2. p \notin Saying(r, "open") /\ p \notin Saying(r, "close")
        BY <2>3 DEF Saying
      <3> QED
        BY <1>1, <2>1, <3>1, <3>2 DEF ParallelRunsOK
    <2> QED
      BY <2>2, <2>3
  <1> QED
    BY <1>2, <1>5, <1>6 DEF LoopRunsOK, ParallelRunsOK

LEMMA ScheduleRuns ==
    ASSUME Drawn, IInv, LoopRunsOK, ParallelRunsOK, Schedule
    PROVE  LoopRunsOK' /\ ParallelRunsOK'
  <1> TypeOK
    BY DEF IInv
  <1>1. /\ flow' = flow /\ opened' = opened /\ done' = done /\ runs' = runs
        /\ executed' = executed \ Plain(Reset \cup Over \cup Joins)
        /\ round' = [c \in Containers |-> IF c \in Over THEN round[c] + 1 ELSE round[c]]
        /\ Joins \subseteq Parallels
    BY ScheduleEffect
  <1>2. Loops' = Loops /\ Parallels' = Parallels
    BY <1>1, Fixed
  <1>3. ASSUME NEW l \in Loops
        PROVE  runs'[<<l, 0>>] + (IF <<l, 0>> \in executed' THEN 0 ELSE 1) <= (IF round'[l] = 0 THEN 1 ELSE round'[l])
    <2>1. l \in Containers /\ l \notin Parallels /\ round[l] \in Nat /\ runs[<<l, 0>>] \in Nat /\ CountOK(l)
      BY Places DEF IInv, LoopOK, TypeOK
    <2>2. l \notin Reset /\ l \notin Joins
      BY <1>1, <2>1, ContainersStand
    <2>3. CASE l \in Over
      <3>1. <<l, 0>> \in executed /\ round[l] > 0
        BY <2>1, <2>3 DEF Over, PassOver, CountOK
      <3>2. round'[l] = round[l] + 1
        BY <1>1, <2>1, <2>3
      <3> QED
        BY <1>1, <2>1, <3>1, <3>2 DEF LoopRunsOK
    <2>4. CASE l \notin Over
      <3>1. round'[l] = round[l] /\ (<<l, 0>> \in executed' <=> <<l, 0>> \in executed)
        BY <1>1, <2>1, <2>2, <2>4 DEF Plain
      <3> QED
        BY <1>1, <3>1 DEF LoopRunsOK
    <2> QED
      BY <2>3, <2>4
  <1> QED
    BY <1>1, <1>2, <1>3 DEF LoopRunsOK, ParallelRunsOK

LEMMA StartEnding ==
    ASSUME Init
    PROVE  LInv
  <1>1. TInv
    BY StartTaking
  <1> IInv /\ TypeOK /\ flow \in Workflows
    BY <1>1 DEF TInv, IInv, TypeOK
  <1> Drawn
    BY FlowDrawn
  <1>2. PlainReady(Trigger) /\ Trigger \in Blocks
    <2>1. Into(Trigger) = {}
      BY DEF Drawn, Into
    <2>2. Around(Trigger, Parallels) = {}
      BY Places DEF Around
    <2> QED
      BY <2>1, <2>2 DEF Init, PlainReady, DependenciesMet, Drawn
  <1>3. <<Trigger, 0>> \in {<<b, 0>> : b \in {c \in Blocks : PlainReady(c)}}
    BY <1>2
  <1>4. AskedOK
    BY <1>3 DEF Init, AskedOK, NextLayer
  <1>5. LoopRunsOK /\ ParallelRunsOK
    <2>1. \A c \in Containers : <<c, 0>> \in Ids
      BY Places
    <2> QED
      BY <2>1, Places DEF Init, LoopRunsOK, ParallelRunsOK
  <1>6. Cardinality(Took) \in Nat
    <2>1. Took \in SUBSET TurnsOf(flow)
      BY DEF Took
    <2> QED
      BY <2>1, FewTurns, FS_Subset, FS_CardinalityType
  <1>7. TurnsOK
    BY <1>6 DEF Init, TurnsOK
  <1> QED
    BY <1>1, <1>4, <1>5, <1>7 DEF LInv, Init

\* Where the context stays, so do the turns, if what was asked is answered.
LEMMA TurnsKept ==
    ASSUME LInv, UNCHANGED <<flow, context>>, asked' \cup answered' = asked \cup answered
    PROVE  /\ LoopRunsOK' /\ ParallelRunsOK' /\ NextLayer' = NextLayer
           /\ Took' = Took /\ (AllCounted' <=> AllCounted)
  <1>1. /\ flow' = flow /\ executed' = executed /\ round' = round /\ opened' = opened /\ done' = done
        /\ runs' = runs
    BY DEF context
  <1>2. Ids' = Ids /\ Loops' = Loops /\ Parallels' = Parallels /\ TurnsOf(flow)' = TurnsOf(flow)
    BY <1>1, Fixed
  <1>3. NextLayer' = NextLayer
    BY TakenKept DEF LInv
  <1>4. Took' = Took
    BY <1>1, <1>2 DEF Took
  <1> QED
    BY <1>1, <1>2, <1>3, <1>4 DEF LInv, LoopRunsOK, ParallelRunsOK, AllCounted, Counted

LEMMA StepEnding ==
    ASSUME Orderly, AskedAlone, Roomy, LInv, [Next]_vars
    PROVE  LInv'
  <1> TInv /\ IInv /\ TypeOK
    BY DEF LInv, TInv, IInv
  <1> flow \in Workflows
    BY DEF TypeOK
  <1> Drawn
    BY FlowDrawn
  <1>1. TInv'
    BY StepTaken
  <1>2. layers \in Nat /\ LayerLimit \in Nat
    BY LimitAssumption DEF TypeOK
  <1>3. CASE ExecuteLayer
    <2>1. PICK r \in Answers : RunLayer(r)
      BY <1>3 DEF ExecuteLayer
    <2>2. pc = "layer" /\ pc' = "settled" /\ layers' = layers /\ flow' = flow
      BY <1>3, <2>1, Effect DEF ExecuteLayer, MayRun
    <2>3. LoopRunsOK' /\ ParallelRunsOK'
      BY <2>1, LayerRuns DEF LInv, TInv
    <2>4. AskedOK'
      <3>1. asked' = {id \in NextLayer : r[id] = "pause"} /\ answered' = answered \ NextLayer
        BY <2>1, Given DEF RunLayer
      <3>2. answered' = {}
        BY <2>2, <3>1 DEF LInv, AskedOK
      <3>3. asked' \subseteq NextLayer'
        BY <1>1, <2>1, <3>1, AskedStays
      <3> QED
        BY <2>2, <3>2, <3>3 DEF AskedOK
    <2>5. TurnsOK'
      <3>1. AllCounted' <=> AllCounted
        BY <2>2, Fixed DEF AllCounted, Counted
      <3>2. ASSUME AllCounted
            PROVE  layers' + 1 <= Cardinality(Took')
        <4>1. layers <= Cardinality(Took)
          BY <1>2, <2>2, <3>2 DEF LInv, TurnsOK
        <4>2. Cardinality(Took) + 1 <= Cardinality(Took') /\ Cardinality(Took) \in Nat /\ Cardinality(Took') \in Nat
          BY <2>1, <2>2, <3>2, LayerTakes DEF LInv, TInv
        <4> QED
          BY <1>2, <2>2, <4>1, <4>2
      <3> QED
        BY <2>2, <3>1, <3>2 DEF TurnsOK
    <2> QED
      BY <1>1, <2>2, <2>3, <2>4, <2>5 DEF LInv
  <1>4. CASE Schedule
    <2>1. /\ flow' = flow /\ pc = "settled" /\ pc' \in {"success", "layer"} /\ layers' = layers + 1
          /\ runs' = runs /\ asked' = asked /\ answered' = answered
      BY <1>4, ScheduleEffect
    <2>2. LoopRunsOK' /\ ParallelRunsOK'
      BY <1>4, ScheduleRuns DEF LInv
    <2>3. asked = {} /\ answered = {} /\ (pc' = "layer" => NextLayer' # {})
      BY <1>4, <2>1 DEF Schedule, LInv, AskedOK
    <2>4. AskedOK'
      BY <2>1, <2>3 DEF AskedOK
    <2>5. Took' = Took /\ (AllCounted' <=> AllCounted)
      BY <2>1, Fixed DEF Took, AllCounted, Counted
    <2>6. TurnsOK'
      BY <1>2, <2>1, <2>5 DEF LInv, TurnsOK
    <2> QED
      BY <1>1, <2>1, <2>2, <2>4, <2>6 DEF LInv
  <1>5. CASE Pause
    <2>1. /\ UNCHANGED <<flow, context>> /\ asked' = asked /\ answered' = answered /\ asked # {}
          /\ pc = "settled" /\ pc' = "paused" /\ layers' = layers + 1
      BY <1>5 DEF Pause
    <2>2. LoopRunsOK' /\ ParallelRunsOK' /\ NextLayer' = NextLayer /\ Took' = Took /\ (AllCounted' <=> AllCounted)
      BY <2>1, TurnsKept
    <2>3. AskedOK'
      BY <2>1, <2>2 DEF LInv, AskedOK
    <2>4. TurnsOK'
      BY <1>2, <2>1, <2>2 DEF LInv, TurnsOK
    <2> QED
      BY <1>1, <2>1, <2>2, <2>3, <2>4 DEF LInv
  <1>6. CASE Resume
    <2>1. /\ UNCHANGED <<flow, context>> /\ asked' = {} /\ answered' = asked
          /\ pc = "paused" /\ pc' = "layer" /\ layers' = layers
      BY <1>6 DEF Resume
    <2>2. answered = {} /\ asked # {} /\ asked \subseteq NextLayer
      BY <2>1 DEF LInv, AskedOK
    <2>3. LoopRunsOK' /\ ParallelRunsOK' /\ NextLayer' = NextLayer /\ Took' = Took /\ (AllCounted' <=> AllCounted)
      BY <2>1, <2>2, TurnsKept
    <2>4. AskedOK'
      BY <2>1, <2>2, <2>3 DEF AskedOK
    <2>5. TurnsOK'
      BY <1>2, <2>1, <2>3 DEF LInv, TurnsOK
    <2> QED
      BY <1>1, <2>1, <2>3, <2>4, <2>5 DEF LInv
  <1>7. CASE HitLimit
    <2>1. /\ UNCHANGED <<flow, context, asked, answered, layers>>
          /\ pc = "layer" /\ layers = LayerLimit /\ pc' = "limit"
      BY <1>7 DEF HitLimit
    <2>2. LoopRunsOK' /\ ParallelRunsOK' /\ Took' = Took /\ (AllCounted' <=> AllCounted)
      BY <2>1, TurnsKept
    <2>3. ~AllCounted
      <3> SUFFICES ASSUME AllCounted
                   PROVE  FALSE
        OBVIOUS
      <3>1. layers <= Cardinality(Took)
        BY <1>2, <2>1 DEF LInv, TurnsOK
      <3>2. Took \in SUBSET TurnsOf(flow)
        BY DEF Took
      <3>3. /\ Cardinality(Took) <= Cardinality(TurnsOf(flow))
            /\ Cardinality(Took) \in Nat /\ Cardinality(TurnsOf(flow)) \in Nat
        BY <3>2, FewTurns, FS_Subset, FS_CardinalityType
      <3>4. \A l \in DOMAIN flow.nodes : flow.kind[l] = "loop" => flow.rounds[l] > 0
        BY DEF AllCounted, Counted, Loops, Containers
      <3>5. Cardinality(TurnsOf(flow)) < LayerLimit
        BY <3>4 DEF Roomy
      <3> QED
        BY <1>2, <2>1, <3>1, <3>3, <3>5
    <2>4. AskedOK' /\ TurnsOK'
      BY <2>1 DEF AskedOK, TurnsOK
    <2> QED
      BY <1>1, <2>2, <2>3, <2>4 DEF LInv
  <1>8. CASE LayerFails \/ Cancel
    <2>1. UNCHANGED <<flow, context, asked, answered, layers>> /\ pc' \in {"failed", "cancelled"}
      BY <1>8 DEF LayerFails, Cancel
    <2>2. LoopRunsOK' /\ ParallelRunsOK'
      BY <2>1, TurnsKept
    <2>3. AskedOK' /\ TurnsOK'
      BY <2>1 DEF AskedOK, TurnsOK
    <2> QED
      BY <1>1, <2>1, <2>2, <2>3 DEF LInv
  <1>9. CASE UNCHANGED vars
    <2>1. UNCHANGED <<flow, context, asked, answered, layers, pc>>
      BY <1>9 DEF vars
    <2>2. LoopRunsOK' /\ ParallelRunsOK' /\ NextLayer' = NextLayer /\ Took' = Took /\ (AllCounted' <=> AllCounted)
      BY <2>1, TurnsKept
    <2>3. AskedOK' /\ TurnsOK'
      BY <2>1, <2>2 DEF LInv, AskedOK, TurnsOK
    <2> QED
      BY <1>1, <2>1, <2>2, <2>3 DEF LInv
  <1> QED
    BY <1>3, <1>4, <1>5, <1>6, <1>7, <1>8, <1>9 DEF Next

\* For every workflow whose connections keep to their containers, whose approvals
\* have one input, and whose turns are fewer than the limit of layers: a run goes
\* round only while it has something to run, after every resumption too, and only
\* a loop without a count brings it to the limit.
THEOREM EndsAlone == Orderly /\ AskedAlone /\ Roomy => (Spec => []EndsByItself)
  <1> SUFFICES ASSUME Orderly, AskedAlone, Roomy
               PROVE  Spec => []EndsByItself
    OBVIOUS
  <1>1. Init => LInv
    BY StartEnding
  <1>2. LInv /\ [Next]_vars => LInv'
    BY StepEnding
  <1>3. LInv => EndsByItself
    BY DEF LInv, AskedOK, AllCounted, EndsByItself
  <1> QED
    BY <1>1, <1>2, <1>3, PTL DEF Spec

=============================================================================
