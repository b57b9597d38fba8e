-------------------------- MODULE CheckpointProofs --------------------------
(***************************************************************************)
(* Theorems about Checkpoint, for all executions, parents and reviews, any *)
(* number of pauses, and whatever jobs are killed.                         *)
(*                                                                         *)
(* The invariant has four parts: World relates the log row of an execution *)
(* to the queue rows of its segments; Shape says what the frame of a       *)
(* process refers to; Fits relates a job that runs its segment to the log  *)
(* row; Sound says that a row is settled only when its segment is over,    *)
(* and Exclusive that a row a cancellation has claimed is nobody else's.   *)
(***************************************************************************)
EXTENDS Checkpoint, SequenceTheorems, TLAPS

Statuses == {"absent", "pending", "processing"}

StoreType ==
    /\ log \in [Exec -> {"none", "running"} \cup Ended]
    /\ checkpoint \in [Exec -> [revision : Segment, points : SUBSET Point,
                                submitted : SUBSET Point, active : BOOLEAN]]
    /\ paused \subseteq Exec
    /\ rows \in [Job -> Statuses]

-----------------------------------------------------------------------------
(* The log and the queue.                                                   *)

\* The segment of a row is over: its execution has ended, or has paused since,
\* or its pause was taken back before it could resume.
Past(j) ==
    LET e == j[1]
        c == checkpoint[e]
    IN \/ log[e] \in Ended
       \/ /\ log[e] = "running"
          /\ c.revision > j[2] \/ (j[2] # 0 /\ c.revision = j[2] /\ e \notin paused /\ ~c.active)

\* A continuation was queued: its pause was answered.
Reached(j) ==
    LET e == j[1]
        c == checkpoint[e]
    IN \/ log[e] \in Ended
       \/ /\ log[e] = "running"
          /\ c.revision > j[2] \/ (c.revision = j[2] /\ (c.active \/ e \notin paused))

Gone == {j \in Job : Past(j)}
Fresh == {j \in Job : At(j, "unstarted")}

Waited(points) == \A x \in points \cap Exec : Parent[x] # None

LogOK(e) ==
    LET c == checkpoint[e] IN
    /\ log[e] # "running" => c = NoCheckpoint /\ e \notin paused
    /\ e \in paused => c.revision # 0
    /\ c.submitted \subseteq c.points /\ Waited(c.points)
    /\ c.active => c.revision # 0 /\ rows[ResumeJob(e)] # "absent"

RowOK(j) ==
    /\ rows[j] # "absent" /\ j[2] # 0 => Reached(j)
    /\ rows[j] = "pending" => j \in Fresh
    /\ j \in Fresh \/ rows[j] = "processing" \/ Past(j)

World == StoreType /\ (\A e \in Exec : LogOK(e)) /\ (\A j \in Job : RowOK(j))

-----------------------------------------------------------------------------
(* Frames.                                                                  *)

Early == {"unstarted", "begin", "claim", "run", "save", "fail", "final"}
Cancels == {"cancelRead", "cancelMark", "decide", "cancelClaim", "cancelTerminalize"}
After == {"settle", "descendants", "kids", "repair", "cancelRun"}

Todo(s) == {s[i] : i \in DOMAIN s}
Doing(f, labels) == f.prog # <<>> /\ Head(f.prog) \in labels

\* The row of a frame belongs to the execution it works for.
OwnRow(f) == f.row \in Job /\ f.row[1] = f.exec

Shape(p, f) ==
    /\ f.prog # <<>> => f.exec \in Exec /\ Todo(Tail(f.prog)) \subseteq After
    /\ Todo(f.rest) \subseteq After \ {"kids", "cancelRun"}
    /\ "settle" \in Todo(f.rest) => f.family # None /\ f.home \in Job /\ f.home[1] = f.family
    /\ f.child # None => Parent[f.child] # None
    /\ Doing(f, {"tell", "submit"}) => f.child # None
    /\ Waited(f.todo)
    /\ "kids" \in Todo(f.prog) \/ "cancelRun" \in Todo(f.prog) => f.family # None
    /\ "descendants" \in Todo(f.prog) => f.family = None
    /\ "settle" \in Todo(f.prog) \/ "cancelRun" \in Todo(f.prog) => OwnRow(f)
    /\ Doing(f, Cancels) => OwnRow(f) /\ (f.owner # None => f.owner[1] = f.exec)

\* The frame of a job, at home or while it cancels a child.
JobShape(j, f) ==
    /\ Doing(f, {"unstarted"}) => f = JobFrame(j)
    /\ Doing(f, {"begin"}) => j[2] = 0
    /\ Doing(f, {"claim"}) => j[2] # 0
    /\ Doing(f, {"save"}) => f.points # {} /\ Waited(f.points)
    /\ f.prog # <<>> => IF f.family = None THEN f.row = j /\ f.exec = j[1]
                                           ELSE f.home = j /\ f.family = j[1]
    /\ Doing(f, Early) => f.family = None
    /\ Doing(f, Cancels) => f.family # None

Shaped(p, f) ==
    /\ f \in Frame /\ Shape(p, f)
    /\ p \in Job => JobShape(p, f)
    /\ Doing(f, Early) => p \in Job

\* A job that has not begun has no checkpoint to answer for; one that runs has
\* the current revision, and nothing of it is paused.
Fits(j, f) ==
    LET e == j[1]
        c == checkpoint[e]
    IN /\ Doing(f, {"unstarted", "begin"}) => j[2] # 0 \/ log[e] # "running"
       /\ Doing(f, {"unstarted", "claim"}) /\ c.revision = j[2] /\ c.active => e \in paused
       /\ Doing(f, {"run", "save"}) =>
             /\ log[e] # "none"
             /\ log[e] = "running" =>
                  /\ e \notin paused /\ c.revision = j[2] /\ (j[2] # 0 => c.active)
                  /\ Doing(f, {"save"}) => j[2] < MaxRevision

\* Of the rows a frame holds: which are over, have no job yet, and are where.
Sound(p, f, gone, fresh, status) ==
    /\ p \in Job => \/ p \in gone \/ f.mode = "cancelled" \/ Doing(f, Early)
                    \/ Doing(f, {"terminalize"}) /\ f.family = None
    /\ "settle" \in Todo(f.prog) =>
          /\ status[f.row] # "pending"
          /\ f.row \in gone \/ (Doing(f, {"terminalize"}) /\ f.row \notin fresh)
    /\ "settle" \in Todo(f.rest) => status[f.home] # "pending" /\ f.home \in gone
    /\ Doing(f, {"cancelTerminalize"}) => f.row \in fresh /\ status[f.row] = "processing"

Claims(f, j) == Doing(f, {"cancelTerminalize"}) /\ f.row = j

Holds(f, j) ==
    \/ Claims(f, j)
    \/ "settle" \in Todo(f.prog) /\ f.row = j
    \/ "settle" \in Todo(f.rest) /\ f.home = j

Exclusive ==
    \A p, q \in Proc, j \in Job : p # q /\ Claims(proc[p], j) => ~Holds(proc[q], j)

Framed(p) ==
    /\ Shaped(p, proc[p])
    /\ p \in Job => Fits(p, proc[p])
    /\ Sound(p, proc[p], Gone, Fresh, rows)

Marked == \A j \in cancelRequested : j \in Job /\ rows[j] # "absent"

IInv ==
    /\ World /\ Marked
    /\ proc \in [Proc -> Frame] /\ \A p \in Proc : Framed(p)
    /\ Exclusive

-----------------------------------------------------------------------------
(* Programs: what is left to do of them, as a set.                          *)

LEMMA Short ==
    /\ Todo(<<>>) = {}
    /\ \A a : /\ Todo(<<a>>) = {a} /\ <<a>> # <<>>
              /\ Head(<<a>>) = a /\ Tail(<<a>>) = <<>>
    /\ \A a, b : /\ Todo(<<a, b>>) = {a, b} /\ <<a, b>> # <<>>
                 /\ Head(<<a, b>>) = a /\ Tail(<<a, b>>) = <<b>>
    /\ \A a, b, c : /\ Todo(<<a, b, c>>) = {a, b, c} /\ <<a, b, c>> # <<>>
                    /\ Head(<<a, b, c>>) = a /\ Tail(<<a, b, c>>) = <<b, c>>
  <1>1. Todo(<<>>) = {}
    BY DEF Todo
  <1>2. ASSUME NEW a
        PROVE  /\ Todo(<<a>>) = {a} /\ <<a>> # <<>>
               /\ Head(<<a>>) = a /\ Tail(<<a>>) = <<>>
    BY DEF Todo
  <1>3. ASSUME NEW a, NEW b
        PROVE  /\ Todo(<<a, b>>) = {a, b} /\ <<a, b>> # <<>>
               /\ Head(<<a, b>>) = a /\ Tail(<<a, b>>) = <<b>>
    <2>1. Todo(<<a, b>>) = {a, b}
      <3>1. DOMAIN <<a, b>> = {1, 2} /\ <<a, b>>[1] = a /\ <<a, b>>[2] = b
        OBVIOUS
      <3>2. QED
        BY <3>1 DEF Todo
    <2>2. QED
      BY <2>1
  <1>4. ASSUME NEW a, NEW b, NEW c
        PROVE  /\ Todo(<<a, b, c>>) = {a, b, c} /\ <<a, b, c>> # <<>>
               /\ Head(<<a, b, c>>) = a /\ Tail(<<a, b, c>>) = <<b, c>>
    <2>1. Todo(<<a, b, c>>) = {a, b, c}
      <3>1. /\ DOMAIN <<a, b, c>> = {1, 2, 3}
            /\ <<a, b, c>>[1] = a /\ <<a, b, c>>[2] = b /\ <<a, b, c>>[3] = c
        OBVIOUS
      <3>2. QED
        BY <3>1 DEF Todo
    <2>2. QED
      BY <2>1
  <1>5. QED
    BY <1>1, <1>2, <1>3, <1>4

LEMMA Listed ==
    /\ <<>> \in Seq(Labels)
    /\ \A a \in Labels : <<a>> \in Seq(Labels)
    /\ \A a, b \in Labels : <<a, b>> \in Seq(Labels)
    /\ \A a, b, c \in Labels : <<a, b, c>> \in Seq(Labels)
  OBVIOUS

LEMMA Rests ==
    ASSUME NEW s \in Seq(Labels), s # <<>>
    PROVE  /\ Tail(s) \in Seq(Labels) /\ Head(s) \in Labels
           /\ Todo(s) = {Head(s)} \cup Todo(Tail(s))
  <1>1. /\ Tail(s) \in Seq(Labels) /\ Len(Tail(s)) = Len(s) - 1 /\ Head(s) \in Labels
        /\ \A i \in 1 .. Len(Tail(s)) : Tail(s)[i] = s[i + 1]
    BY HeadTailProperties
  <1>2. Head(s) = s[1] /\ Len(s) \in Nat \ {0}
    BY EmptySeq
  <1>3. DOMAIN s = 1 .. Len(s) /\ DOMAIN Tail(s) = 1 .. Len(Tail(s))
    BY <1>1, LenProperties
  <1>4. ASSUME NEW l \in Todo(s) PROVE l \in {Head(s)} \cup Todo(Tail(s))
    <2>1. PICK i \in 1 .. Len(s) : l = s[i]
      BY <1>3 DEF Todo
    <2>2. CASE i = 1
      BY <1>2, <2>1, <2>2
    <2>3. CASE i # 1
      <3>1. i - 1 \in 1 .. Len(Tail(s)) /\ Tail(s)[i - 1] = s[i]
        BY <1>1, <1>2, <2>3
      <3>2. QED
        BY <1>3, <2>1, <3>1 DEF Todo
    <2>4. QED
      BY <2>2, <2>3
  <1>5. ASSUME NEW l \in Todo(Tail(s)) PROVE l \in Todo(s)
    <2>1. PICK i \in 1 .. Len(Tail(s)) : l = Tail(s)[i]
      BY <1>3 DEF Todo
    <2>2. i + 1 \in 1 .. Len(s) /\ s[i + 1] = l
      BY <1>1, <1>2, <2>1
    <2>3. QED
      BY <1>3, <2>2 DEF Todo
  <1>6. Head(s) \in Todo(s)
    BY <1>2, <1>3 DEF Todo
  <1>7. QED
    BY <1>1, <1>4, <1>5, <1>6

LEMMA Preceded ==
    ASSUME NEW a \in Labels, NEW t \in Seq(Labels)
    PROVE  /\ <<>> \o t = t
           /\ <<a>> \o t \in Seq(Labels) /\ <<a>> \o t # <<>>
           /\ Head(<<a>> \o t) = a /\ Tail(<<a>> \o t) = t
           /\ Todo(<<a>> \o t) = {a} \cup Todo(t)
  <1> DEFINE s == <<a>> \o t
  <1>1. <<>> \o t = t
    BY ConcatEmptySeq
  <1>2. /\ s \in Seq(Labels) /\ Len(s) = 1 + Len(t)
        /\ s[1] = a /\ \A i \in 1 .. Len(t) : s[i + 1] = t[i]
    <2>1. <<a>> \in Seq(Labels) /\ Len(<<a>>) = 1 /\ <<a>>[1] = a /\ Len(t) \in Nat
      BY LenProperties
    <2>2. /\ s \in Seq(Labels) /\ Len(s) = Len(<<a>>) + Len(t)
          /\ \A i \in 1 .. Len(<<a>>) + Len(t) :
                s[i] = IF i <= Len(<<a>>) THEN <<a>>[i] ELSE t[i - Len(<<a>>)]
      BY <2>1, ConcatProperties
    <2>3. QED
      BY <2>1, <2>2
  <1>3. s # <<>>
    BY <1>2, LenProperties
  <1>4. Head(s) = a
    BY <1>2, <1>3
  <1>5. Tail(s) = t
    <2>1. /\ Tail(s) \in Seq(Labels) /\ Len(Tail(s)) = Len(s) - 1
          /\ \A i \in 1 .. Len(Tail(s)) : Tail(s)[i] = s[i + 1]
      BY <1>2, <1>3, HeadTailProperties
    <2>2. Len(t) \in Nat
      BY LenProperties
    <2>3. Len(Tail(s)) = Len(t) /\ \A i \in 1 .. Len(t) : Tail(s)[i] = t[i]
      BY <1>2, <2>1, <2>2
    <2>4. QED
      BY <2>1, <2>3, SeqEqual
  <1>6. QED
    BY <1>1, <1>2, <1>3, <1>4, <1>5, Rests


LEMMA Pairs ==
    ASSUME NEW a \in Labels, NEW b \in Labels
    PROVE  <<a>> \o <<b>> = <<a, b>>
  <1>1. /\ <<a>> \in Seq(Labels) /\ <<b>> \in Seq(Labels) /\ <<a, b>> \in Seq(Labels)
        /\ Len(<<a>>) = 1 /\ Len(<<b>>) = 1 /\ Len(<<a, b>>) = 2
        /\ <<a>>[1] = a /\ <<b>>[1] = b /\ <<a, b>>[1] = a /\ <<a, b>>[2] = b
    OBVIOUS
  <1> DEFINE s == <<a>> \o <<b>>
  <1>2. /\ s \in Seq(Labels) /\ Len(s) = Len(<<a>>) + Len(<<b>>)
        /\ \A i \in 1 .. Len(<<a>>) + Len(<<b>>) :
              s[i] = IF i <= Len(<<a>>) THEN <<a>>[i] ELSE <<b>>[i - Len(<<a>>)]
    BY <1>1, ConcatProperties
  <1> HIDE DEF s
  <1>3. Len(s) = 2 /\ s[1] = a /\ s[2] = b
    BY <1>1, <1>2
  <1>4. \A i \in 1 .. Len(s) : s[i] = <<a, b>>[i]
    BY <1>1, <1>3
  <1>5. s = <<a, b>>
    BY <1>1, <1>2, <1>3, <1>4, SeqEqual
  <1>6. QED
    BY <1>5 DEF s
-----------------------------------------------------------------------------
(* Jobs, and frames by their fields.                                        *)

LEMMA Jobs ==
    /\ \A e \in Exec, r \in Segment : /\ <<e, r>> \in Job
                                      /\ <<e, r>>[1] = e /\ <<e, r>>[2] = r
    /\ \A j \in Job : j[1] \in Exec /\ j[2] \in Segment /\ j[2] \in Nat /\ j = <<j[1], j[2]>>
    /\ 0 \in Segment /\ Segment \subseteq Nat
    /\ \A j \in Job : j \in Proc /\ j \notin User
    /\ \A p \in Proc : p \in Job \/ p \in User
    /\ None \notin Exec /\ None \notin Job
    /\ \A x \in Exec : Parent[x] # None => Parent[x] \in Exec
  BY CheckpointAssumption DEF Job, Segment, Proc

LEMMA BlankFrame ==
    /\ Blank \in Frame /\ Blank.prog = <<>> /\ Blank.rest = <<>> /\ Blank.family = None
    /\ Blank.child = None /\ Blank.todo = {} /\ Blank.points = {}
  BY Jobs, Listed DEF Blank, Frame, Modes

LEMMA BlankIn ==
    ASSUME NEW m \in Modes
    PROVE  LET b == [Blank EXCEPT !.mode = m] IN
           /\ b \in Frame /\ b.prog = <<>> /\ b.rest = <<>> /\ b.mode = m
           /\ b.child = None /\ b.todo = {}
  BY BlankFrame DEF Blank, Frame

LEMMA JobFrames ==
    ASSUME NEW j \in Job
    PROVE  LET f == JobFrame(j) IN
           /\ f \in Frame /\ f.prog = <<"unstarted">> /\ f.mode = "job"
           /\ f.exec = j[1] /\ f.row = j /\ f.family = None /\ f.rest = <<>>
           /\ f.child = None /\ f.todo = {}
  <1>1. <<"unstarted">> \in Seq(Labels) /\ "job" \in Modes /\ j[1] \in Exec
    BY Jobs, Listed DEF Labels, Modes
  <1>2. JobFrame(j) \in Frame
    BY <1>1, BlankFrame DEF JobFrame, Frame
  <1>3. QED
    BY <1>1, <1>2, BlankFrame DEF JobFrame, Frame

LEMMA FrameFields ==
    ASSUME NEW f \in Frame
    PROVE  /\ f.prog \in Seq(Labels) /\ f.rest \in Seq(Labels) /\ f.mode \in Modes
           /\ f.exec \in Exec \cup {None} /\ f.row \in Job \cup {None}
           /\ f.child \in Exec \cup {None} /\ f.seen \in Segment /\ f.todo \subseteq Exec
           /\ f.points \subseteq Point /\ f.owner \in Job \cup {None}
           /\ f.family \in Exec \cup {None} /\ f.home \in Job \cup {None}
           /\ f.read \in {"absent", "pending", "processing"}
  BY DEF Frame

\* Instead and Then change the program alone.
LEMMA InsteadFrame ==
    ASSUME NEW f \in Frame, NEW s \in Seq(Labels)
    PROVE  LET g == Instead(f, s) IN
           /\ g \in Frame /\ g.prog = s
           /\ g.mode = f.mode /\ g.exec = f.exec /\ g.row = f.row /\ g.points = f.points
           /\ g.child = f.child /\ g.seen = f.seen /\ g.todo = f.todo /\ g.read = f.read
           /\ g.owner = f.owner /\ g.family = f.family /\ g.home = f.home /\ g.rest = f.rest
  BY DEF Instead, Frame

LEMMA ChildFrame ==
    ASSUME NEW f \in Frame, NEW c \in Exec
    PROVE  LET g == [f EXCEPT !.child = c] IN
           /\ g \in Frame /\ g.prog = f.prog /\ g.mode = f.mode /\ g.exec = f.exec
           /\ g.row = f.row /\ g.points = f.points /\ g.child = c /\ g.todo = f.todo
           /\ g.family = f.family /\ g.home = f.home /\ g.rest = f.rest
  BY DEF Frame

LEMMA ThenFrame ==
    ASSUME NEW f \in Frame, NEW s, s \o Tail(f.prog) \in Seq(Labels)
    PROVE  Then(f, s) = Instead(f, s \o Tail(f.prog))
  BY DEF Then, Instead, Frame

\* A frame without a program is left blank.
Left(f) == IF f.prog = <<>> THEN Over(f) ELSE f

LEMMA BecomeLeft == \A p, f : Become(p, f) <=> proc' = [proc EXCEPT ![p] = Left(f)]
  BY DEF Become, Left

LEMMA LeftFine ==
    ASSUME NEW p \in Proc, NEW f, Shaped(p, f)
    PROVE  /\ Left(f) \in Frame /\ Shaped(p, Left(f))
           /\ \A gone, fresh, status :
                 Sound(p, f, gone, fresh, status) => Sound(p, Left(f), gone, fresh, status)
           /\ \A labels : Doing(Left(f), labels) <=> Doing(f, labels)
           /\ \A j : /\ Claims(Left(f), j) <=> Claims(f, j)
                     /\ Holds(Left(f), j) => Holds(f, j)
  <1>1. CASE f.prog # <<>>
    BY <1>1 DEF Left, Shaped
  <1>2. CASE f.prog = <<>>
    <2> DEFINE b == Left(f)
    <2>1. /\ b \in Frame /\ b.prog = <<>> /\ b.rest = <<>> /\ b.mode = f.mode
          /\ b.child = None /\ b.todo = {}
      BY <1>2, BlankIn, FrameFields DEF Left, Over, Shaped
    <2> HIDE DEF b
    <2>2. /\ \A labels : ~Doing(b, labels) /\ ~Doing(f, labels)
          /\ \A l : l \notin Todo(b.prog) /\ l \notin Todo(b.rest)
      BY <1>2, <2>1, Short DEF Doing
    <2>3. Shaped(p, b)
      <3>1. Shape(p, b)
        BY <2>1, <2>2, Short DEF Shape, Waited
      <3>2. JobShape(p, b)
        BY <2>1, <2>2 DEF JobShape
      <3>3. QED
        BY <2>1, <2>2, <3>1, <3>2 DEF Shaped
    <2>4. ASSUME NEW gone, NEW fresh, NEW status, Sound(p, f, gone, fresh, status)
          PROVE  Sound(p, b, gone, fresh, status)
      BY <2>1, <2>2, <2>4 DEF Sound
    <2>5. QED
      BY <2>1, <2>2, <2>3, <2>4 DEF b, Claims, Holds
  <1>3. QED
    BY <1>1, <1>2

\* A process that goes on with what it has left to do still refers to what it
\* should, and holds no other row.
Later == {"tell", "submit", "reconcile", "repair", "settle", "descendants", "kids", "cancelRun"}

SameBut(f, g) ==
    /\ g.mode = f.mode /\ g.exec = f.exec /\ g.row = f.row /\ g.points = f.points
    /\ g.owner = f.owner /\ g.family = f.family /\ g.home = f.home /\ g.rest = f.rest

OverBy(p, f, gone) ==
    /\ p \in Job => p \in gone \/ f.mode = "cancelled"
    /\ "settle" \in Todo(f.prog) => f.row \in gone

\* A process goes on with what it has left to do.
Onward(f, g) ==
    /\ g \in Frame /\ SameBut(f, g)
    /\ Todo(g.prog) \subseteq Todo(f.prog) \cup {"tell", "submit", "repair"}
    /\ g.prog # <<>> => /\ Todo(Tail(g.prog)) \subseteq After
                        /\ Head(g.prog) \in After \cup {"tell", "submit"}
    /\ g.child # None => Parent[g.child] # None
    /\ Doing(g, {"tell", "submit"}) => g.child # None
    /\ Waited(g.todo)

LEMMA LaterOver ==
    ASSUME NEW p, NEW f, NEW gone, NEW fresh, NEW status, Sound(p, f, gone, fresh, status),
           Doing(f, Later)
    PROVE  OverBy(p, f, gone)
  <1>1. ~Doing(f, Early) /\ ~Doing(f, {"terminalize"})
    BY DEF Doing, Early, Later
  <1>2. QED
    BY <1>1 DEF Sound, OverBy

LEMMA GoesOn ==
    ASSUME NEW p \in Proc, NEW f, Shaped(p, f), f.prog # <<>>, NEW g, Onward(f, g)
    PROVE  /\ Shaped(p, g)
           /\ \A labels : labels \cap (After \cup {"tell", "submit"}) = {} => ~Doing(g, labels)
           /\ \A j : ~Claims(g, j) /\ (Holds(g, j) => Holds(f, j))
           /\ \A gone, fresh, status : Sound(p, f, gone, fresh, status) /\ OverBy(p, f, gone)
                                          => Sound(p, g, gone, fresh, status)
  <1>1. \A labels : labels \cap (After \cup {"tell", "submit"}) = {} => ~Doing(g, labels)
    BY DEF Doing, Onward
  <1>2. /\ ~Doing(g, Early) /\ ~Doing(g, Cancels)
        /\ \A l \in Early \cup {"terminalize", "cancelTerminalize"} : ~Doing(g, {l})
    BY <1>1 DEF Early, Cancels, After
  <1>3. \A l \in After \ {"repair"} : l \in Todo(g.prog) => l \in Todo(f.prog)
    BY DEF After, Onward
  <1>4. Shape(p, g)
    BY <1>2, <1>3 DEF Shape, Shaped, SameBut, After, OwnRow, Onward
  <1>5. p \in Job => JobShape(p, g)
    BY <1>2 DEF JobShape, Shaped, SameBut, Early, Onward
  <1>6. Shaped(p, g)
    BY <1>2, <1>4, <1>5 DEF Shaped, Onward
  <1>7. ASSUME NEW gone, NEW fresh, NEW status, Sound(p, f, gone, fresh, status),
               OverBy(p, f, gone)
        PROVE  Sound(p, g, gone, fresh, status)
    <2>1. "settle" \in Todo(g.prog) => status[g.row] # "pending" /\ g.row \in gone
      BY <1>3, <1>7 DEF Sound, SameBut, OverBy, After, Onward
    <2>2. QED
      BY <1>2, <1>7, <2>1 DEF Sound, SameBut, OverBy, Onward
  <1>8. \A j : ~Claims(g, j) /\ (Holds(g, j) => Holds(f, j))
    BY <1>2, <1>3 DEF Claims, Holds, SameBut, After, Onward
  <1>9. QED
    BY <1>1, <1>6, <1>7, <1>8

\* The program of such a process: the rest of the old one, with more repairs and
\* a child to tell of first.
LEMMA OnwardProgram ==
    ASSUME NEW p, NEW f \in Frame, Shape(p, f), f.prog # <<>>, NEW g \in Frame, SameBut(f, g),
           NEW t \in Seq(Labels), Todo(t) \subseteq Todo(Tail(f.prog)) \cup {"repair"},
           \/ g.prog = t
           \/ (\E a \in {"tell", "submit"} : g.prog = <<a>> \o t) /\ g.child # None,
           g.child # None => Parent[g.child] # None, Waited(g.todo)
    PROVE  Onward(f, g)
  <1>1. /\ Todo(f.prog) = {Head(f.prog)} \cup Todo(Tail(f.prog))
        /\ Todo(Tail(f.prog)) \subseteq After /\ "repair" \in After
    BY Rests, FrameFields DEF Shape, After
  <1>2. CASE g.prog = t
    <2>1. t # <<>> => Todo(t) = {Head(t)} \cup Todo(Tail(t))
      BY Rests
    <2>2. QED
      BY <1>1, <1>2, <2>1 DEF Onward, Doing, After
  <1>3. ASSUME NEW a \in {"tell", "submit"}, g.prog = <<a>> \o t, g.child # None
        PROVE  Onward(f, g)
    <2>1. a \in Labels
      BY DEF Labels
    <2>2. /\ Todo(g.prog) = {a} \cup Todo(t) /\ Head(g.prog) = a /\ Tail(g.prog) = t
      BY <1>3, <2>1, Preceded
    <2>3. QED
      BY <1>1, <1>3, <2>2 DEF Onward
  <1>4. QED
    BY <1>2, <1>3

\* The frames of a job at its own segment.
AtHome(j, f, g) ==
    /\ g.exec = f.exec /\ g.row = f.row /\ g.todo = f.todo
    /\ g.family = f.family /\ g.home = f.home /\ g.rest = f.rest

HomePrograms ==
    {<<"begin">>, <<"claim">>, <<"run">>, <<"save">>, <<"fail">>, <<"final">>, <<"settle">>,
     <<"reconcile", "settle">>, <<"descendants", "settle">>, <<"tell", "settle">>,
     <<"terminalize", "descendants", "settle">>}

HomeHeads == {"begin", "claim", "run", "save", "fail", "final", "settle", "reconcile",
              "descendants", "tell", "terminalize"}

HomeNext(j, f, g) ==
    /\ g \in Frame /\ AtHome(j, f, g) /\ g.prog \in HomePrograms
    /\ Doing(g, {"begin"}) => j[2] = 0
    /\ Doing(g, {"claim"}) => j[2] # 0
    /\ Doing(g, {"save"}) => g.points # {} /\ Waited(g.points)
    /\ g.child # None => Parent[g.child] # None
    /\ Doing(g, {"tell"}) => g.child # None

LEMMA HomeProgram ==
    ASSUME NEW s \in HomePrograms
    PROVE  /\ s \in Seq(Labels) /\ s # <<>> /\ Head(s) \in HomeHeads
           /\ Todo(Tail(s)) \subseteq {"settle", "descendants"}
           /\ Todo(s) = {Head(s)} \cup Todo(Tail(s))
  <1>1. CASE \E a \in HomeHeads : s = <<a>>
    <2>1. PICK a \in HomeHeads : s = <<a>>
      BY <1>1
    <2>2. a \in Labels
      BY DEF HomeHeads, Labels
    <2>3. QED
      BY <2>1, <2>2, Listed, Short, Rests
  <1>2. CASE \E a \in HomeHeads : s = <<a, "settle">>
    <2>1. PICK a \in HomeHeads : s = <<a, "settle">>
      BY <1>2
    <2>2. a \in Labels /\ "settle" \in Labels
      BY DEF HomeHeads, Labels
    <2>3. QED
      BY <2>1, <2>2, Listed, Short, Rests
  <1>3. CASE s = <<"terminalize", "descendants", "settle">>
    <2>1. {"terminalize", "descendants", "settle"} \subseteq Labels /\ "terminalize" \in HomeHeads
      BY DEF HomeHeads, Labels
    <2>2. QED
      BY <1>3, <2>1, Listed, Short, Rests
  <1>4. QED
    BY <1>1, <1>2, <1>3 DEF HomePrograms, HomeHeads

LEMMA HomeFrame ==
    ASSUME NEW j \in Job, NEW f, Shaped(j, f), f.prog # <<>>, f.family = None,
           NEW g, HomeNext(j, f, g)
    PROVE  /\ Shaped(j, g) /\ ~Doing(g, {"unstarted"})
           /\ \A i : ~Claims(g, i) /\ (Holds(g, i) => i = j)
           /\ \A gone, fresh, status :
                 /\ j \in gone \/ Doing(g, Early) \/ (Doing(g, {"terminalize"}) /\ j \notin fresh)
                 /\ "settle" \in Todo(g.prog) => status[j] # "pending"
                 => Sound(j, g, gone, fresh, status)
  <1>1. /\ g.row = j /\ g.exec = j[1] /\ g.family = None /\ j[1] \in Exec
        /\ "settle" \notin Todo(g.rest)
    BY Jobs DEF Shaped, Shape, JobShape, HomeNext, AtHome
  <1>2. /\ Todo(g.prog) = {Head(g.prog)} \cup Todo(Tail(g.prog)) /\ g.prog # <<>>
        /\ Head(g.prog) \in HomeHeads /\ Todo(Tail(g.prog)) \subseteq {"settle", "descendants"}
    BY HomeProgram DEF HomeNext
  <1>3. /\ ~Doing(g, Cancels) /\ ~Doing(g, {"unstarted"}) /\ ~Doing(g, {"submit"})
        /\ ~Doing(g, {"cancelTerminalize"})
        /\ Doing(g, {"tell", "submit"}) => Doing(g, {"tell"})
        /\ "kids" \notin Todo(g.prog) /\ "cancelRun" \notin Todo(g.prog)
    BY <1>2 DEF Doing, Cancels, HomeHeads
  <1>4. Shape(j, g)
    BY <1>1, <1>2, <1>3 DEF Shape, Shaped, HomeNext, AtHome, OwnRow, After
  <1>5. JobShape(j, g)
    BY <1>1, <1>3 DEF JobShape, HomeNext
  <1>6. "settle" \in Todo(g.prog) => ~Doing(g, Early)
    <2>1. Todo(<<"begin">>) = {"begin"} /\ Todo(<<"claim">>) = {"claim"} /\ Todo(<<"run">>) = {"run"}
          /\ Todo(<<"save">>) = {"save"} /\ Todo(<<"fail">>) = {"fail"} /\ Todo(<<"final">>) = {"final"}
      BY Short
    <2>2. Doing(g, Early) => g.prog \in {<<"begin">>, <<"claim">>, <<"run">>, <<"save">>, <<"fail">>, <<"final">>}
      BY Short DEF HomeNext, HomePrograms, Doing, Early
    <2>3. QED
      BY <2>1, <2>2
  <1>7. QED
    BY <1>1, <1>3, <1>4, <1>5, <1>6 DEF Shaped, Sound, Claims, Holds, HomeNext

-----------------------------------------------------------------------------
(* What a step does to the log and the queue.                               *)

Lasts == \A j \in Job : Past(j) => Past(j)'

Leaves(jobs) == \A j \in Job \ jobs, f \in Frame : Fits(j, f) => Fits(j, f)'

\* What a process with frame f may do to a row.
RowMoves(f) ==
    \A j \in Job :
        \/ rows'[j] = rows[j]
        \/ rows[j] = "absent" /\ rows'[j] = "pending" /\ j \in Fresh /\ ~Past(j)
        \/ rows[j] = "pending" /\ rows'[j] = "processing"
        \/ rows'[j] = "absent" /\ Holds(f, j)
        \/ rows'[j] = "pending" /\ Claims(f, j)

LEMMA Quiet ==
    ASSUME World, UNCHANGED <<store, rows, Fresh>>
    PROVE  World' /\ Lasts /\ (\A jobs : Leaves(jobs)) /\ (\A f : RowMoves(f))
           /\ \A j : Past(j)' <=> Past(j)
  BY DEF World, StoreType, LogOK, RowOK, Past, Reached, Lasts, Leaves, Fits, RowMoves, store,
     ResumeJob

\* An execution in view: its log row has the types it should.
LEMMA LogTypes ==
    ASSUME StoreType, NEW e \in Exec
    PROVE  /\ log[e] \in {"none", "running", "success", "error"}
           /\ checkpoint[e].revision \in Segment /\ checkpoint[e].revision \in Nat
           /\ checkpoint[e].points \subseteq Point /\ checkpoint[e].submitted \subseteq Point
           /\ checkpoint[e].active \in BOOLEAN
           /\ ResumeJob(e) \in Job /\ ResumeJob(e)[1] = e
           /\ ResumeJob(e)[2] = checkpoint[e].revision
  BY Jobs DEF StoreType, Ended, ResumeJob

LEMMA NoCheckpointType ==
    /\ NoCheckpoint \in [revision : Segment, points : SUBSET Point,
                         submitted : SUBSET Point, active : BOOLEAN]
    /\ NoCheckpoint.revision = 0 /\ NoCheckpoint.points = {} /\ NoCheckpoint.submitted = {}
    /\ NoCheckpoint.active = FALSE
  BY Jobs DEF NoCheckpoint

\* The end of a log, which it may have already.
LEMMA EndLogEffect ==
    ASSUME World, NEW e \in Exec, NEW o \in Ended, EndLog(e, o), UNCHANGED <<rows, Fresh>>
    PROVE  /\ World' /\ Lasts /\ (\A jobs : Leaves(jobs)) /\ (\A f : RowMoves(f))
           /\ \A j \in Job : j[1] = e => Past(j)'
  <1>1. CASE log[e] \in Ended
    <2>1. UNCHANGED store
      BY <1>1 DEF EndLog
    <2>2. \A j \in Job : j[1] = e => Past(j)'
      BY <1>1, <2>1 DEF Past, store
    <2>3. QED
      BY <2>1, <2>2, Quiet
  <1>2. CASE log[e] \notin Ended
    <2>1. /\ log' = [log EXCEPT ![e] = o]
          /\ checkpoint' = [checkpoint EXCEPT ![e] = NoCheckpoint]
          /\ paused' = paused \ {e}
      BY <1>2 DEF EndLog
    <2>2. StoreType'
      BY <2>1, NoCheckpointType DEF World, StoreType
    <2>3. /\ log'[e] = o /\ log'[e] # "running" /\ log'[e] # "none" /\ checkpoint'[e] = NoCheckpoint /\ e \notin paused'
          /\ \A d \in Exec \ {e} : /\ log'[d] = log[d] /\ checkpoint'[d] = checkpoint[d]
                                   /\ d \in paused' <=> d \in paused
      BY <2>1 DEF World, StoreType, Ended
    <2>4. ASSUME NEW d \in Exec PROVE LogOK(d)'
      <3>1. CASE d = e
        BY <2>3, <3>1, NoCheckpointType DEF LogOK, Waited
      <3>2. CASE d # e
        BY <2>3, <3>2 DEF World, LogOK, ResumeJob
      <3>3. QED
        BY <3>1, <3>2
    <2>5. ASSUME NEW j \in Job
          PROVE  (Past(j) => Past(j)') /\ (Reached(j) => Reached(j)') /\ (j[1] = e => Past(j)' /\ Reached(j)')
      BY <2>3, Jobs DEF Past, Reached
    <2>6. ASSUME NEW j \in Job PROVE RowOK(j)'
      BY <2>5 DEF World, RowOK
    <2>7. ASSUME NEW j \in Job, NEW f \in Frame, Fits(j, f) PROVE Fits(j, f)'
      BY <2>3, <2>7, Jobs, NoCheckpointType DEF Fits
    <2>8. QED
      BY <2>2, <2>4, <2>5, <2>6, <2>7 DEF World, Lasts, Leaves, RowMoves
  <1>3. QED
    BY <1>1, <1>2

\* A row is inserted for a segment that is not over.
LEMMA InsertEffect ==
    ASSUME World, NEW j \in Job, rows[j] = "absent", ~Past(j), j[2] # 0 => Reached(j),
           SetRow(j, "pending"), UNCHANGED <<store, Fresh>>
    PROVE  World' /\ Lasts /\ (\A jobs : Leaves(jobs)) /\ (\A f : RowMoves(f))
  <1>1. /\ rows' \in [Job -> Statuses] /\ rows'[j] = "pending"
        /\ \A i \in Job \ {j} : rows'[i] = rows[i]
    BY DEF SetRow, World, StoreType, Statuses
  <1>2. j \in Fresh
    BY DEF World, RowOK
  <1>3. \A i : (Past(i)' <=> Past(i)) /\ (Reached(i)' <=> Reached(i))
    BY DEF store, Past, Reached
  <1>4. ASSUME NEW i \in Job PROVE RowOK(i)'
    BY <1>1, <1>2, <1>3 DEF World, RowOK
  <1>5. ASSUME NEW e \in Exec PROVE LogOK(e)'
    <2>1. ResumeJob(e)' = ResumeJob(e) /\ ResumeJob(e) \in Job
      BY LogTypes DEF World, ResumeJob, store
    <2>2. rows[ResumeJob(e)] # "absent" => rows'[ResumeJob(e)] # "absent"
      BY <1>1, <2>1
    <2>3. QED
      BY <2>1, <2>2 DEF World, LogOK, store
  <1>6. QED
    BY <1>1, <1>2, <1>3, <1>4, <1>5 DEF World, StoreType, store, Lasts, Leaves, Fits, RowMoves

\* The answer to a point, and the continuation after the last one.
LEMMA SubmitEffect ==
    ASSUME World, NEW e \in Exec, NEW r, NEW point, SubmitPoint(e, r, point),
           UNCHANGED <<log, paused, Fresh>>
    PROVE  World' /\ Lasts /\ (\A jobs : Leaves(jobs)) /\ (\A f : RowMoves(f))
  <1> DEFINE c == checkpoint[e]
             current == log[e] = "running" /\ c.revision = r /\ point \in c.points
             first == current /\ point \notin c.submitted /\ e \in paused /\ ~c.active
             again == current /\ point \in c.submitted /\ e \in paused /\ c.active
             all == c.submitted \cup {point} = c.points
  <1>0. PICK k \in Job : k = ResumeJob(e)
    BY LogTypes DEF World
  <1>1. k \in Job /\ k[1] = e /\ k[2] = c.revision /\ c.revision \in Nat
    BY <1>0, LogTypes DEF World
  <1>2. c.active => rows[k] # "absent"
    BY <1>0 DEF World, LogOK
  <1>3. CASE ~first
    <2>1. UNCHANGED checkpoint
      BY <1>3 DEF SubmitPoint
    <2>2. UNCHANGED rows
      BY <1>0, <1>2, <1>3 DEF SubmitPoint
    <2>3. QED
      BY <2>1, <2>2, Quiet DEF store
  <1>4. CASE first
    <2>0. /\ log[e] = "running" /\ point \in c.points /\ e \in paused /\ ~c.active
          /\ c.revision # 0 /\ ~Past(k)
      BY <1>1, <1>4 DEF World, LogOK, Past, Ended
    <2>1. checkpoint' = [checkpoint EXCEPT ![e].submitted = @ \cup {point}, ![e].active = all]
      BY <1>4 DEF SubmitPoint
    <2>2. /\ checkpoint' \in [Exec -> [revision : Segment, points : SUBSET Point,
                                        submitted : SUBSET Point, active : BOOLEAN]]
          /\ checkpoint'[e].revision = c.revision /\ checkpoint'[e].points = c.points
          /\ checkpoint'[e].submitted = c.submitted \cup {point}
          /\ checkpoint'[e].active = all
          /\ \A d \in Exec \ {e} : checkpoint'[d] = checkpoint[d]
      <3>1. c \in [revision : Segment, points : SUBSET Point, submitted : SUBSET Point,
                   active : BOOLEAN]
        BY DEF World, StoreType
      <3>2. point \in Point
        BY <2>0, <3>1
      <3> HIDE DEF all
      <3>3. all \in BOOLEAN
        BY DEF all
      <3>4. QED
        BY <2>1, <3>1, <3>2, <3>3 DEF World, StoreType
    <2>3. /\ \A i \in Job \ {k} : rows'[i] = rows[i]
          /\ rows' \in [Job -> Statuses]
          /\ IF all /\ rows[k] = "absent" THEN rows'[k] = "pending" ELSE rows'[k] = rows[k]
          /\ all => rows'[k] # "absent"
      BY <1>0, <1>1, <1>4 DEF SubmitPoint, SetRow, World, StoreType, Statuses
    <2> HIDE DEF first, again, current, all
    <2>4. \A d \in Exec : checkpoint'[d].revision = checkpoint[d].revision /\ ResumeJob(d)' = ResumeJob(d)
      BY <2>2 DEF ResumeJob
    <2>5. ASSUME NEW d \in Exec PROVE LogOK(d)'
      <3>1. CASE d = e
        BY <1>0, <1>1, <2>0, <2>2, <2>3, <2>4, <3>1 DEF World, LogOK
      <3>2. CASE d # e
        <4>1. ResumeJob(d) # k
          BY <1>1, <3>2, LogTypes DEF World
        <4>2. rows'[ResumeJob(d)] = rows[ResumeJob(d)]
          BY <2>3, <4>1, LogTypes DEF World
        <4>3. QED
          BY <2>2, <2>4, <3>2, <4>2 DEF World, LogOK
      <3>3. QED
        BY <3>1, <3>2
    <2>6. ASSUME NEW j \in Job
          PROVE  (Past(j)' <=> Past(j)) /\ (Reached(j) => Reached(j)')
      BY <2>0, <2>2, Jobs DEF Past, Reached
    <2>7. rows[k] = "absent" => k \in Fresh
      BY <1>1, <2>0 DEF World, RowOK
    <2>8. ASSUME NEW j \in Job PROVE RowOK(j)'
      <3>1. CASE j = k
        <4>1. all => Reached(k)'
          BY <1>1, <2>0, <2>2 DEF Reached
        <4>2. QED
          BY <1>1, <2>3, <2>6, <2>7, <3>1, <4>1 DEF World, RowOK
      <3>2. CASE j # k
        BY <2>3, <2>6, <3>2 DEF World, RowOK
      <3>3. QED
        BY <3>1, <3>2
    <2>9. ASSUME NEW j \in Job, NEW f \in Frame, Fits(j, f) PROVE Fits(j, f)'
      BY <2>0, <2>2, <2>9, Jobs DEF Fits
    <2>10. \A f : RowMoves(f)
      BY <1>1, <2>0, <2>3, <2>7 DEF RowMoves
    <2>11. QED
      BY <2>2, <2>3, <2>5, <2>6, <2>8, <2>9, <2>10 DEF World, StoreType, Lasts, Leaves
  <1>5. QED
    BY <1>3, <1>4

\* The first segment of an execution begins.
LEMMA BeginEffect ==
    ASSUME World, NEW e \in Exec, log[e] = "none", log' = [log EXCEPT ![e] = "running"],
           UNCHANGED <<checkpoint, paused, rows, Fresh>>
    PROVE  World' /\ Lasts /\ Leaves({<<e, 0>>}) /\ (\A f : RowMoves(f))
           /\ log'[e] = "running" /\ e \notin paused' /\ checkpoint'[e].revision = 0
  <1>1. log' \in [Exec -> {"none", "running"} \cup Ended] /\ log'[e] = "running"
        /\ \A d \in Exec \ {e} : log'[d] = log[d]
    BY DEF World, StoreType
  <1>2. checkpoint[e] = NoCheckpoint /\ e \notin paused /\ checkpoint[e].revision = 0 /\ ~checkpoint[e].active
    BY NoCheckpointType DEF World, LogOK
  <1>3. ASSUME NEW d \in Exec PROVE LogOK(d)'
    BY <1>1, <1>2 DEF World, LogOK, ResumeJob
  <1>4. ASSUME NEW j \in Job PROVE (Past(j) => Past(j)') /\ (Reached(j) => Reached(j)')
    BY <1>1, Jobs DEF Past, Reached, Ended
  <1>5. ASSUME NEW j \in Job PROVE RowOK(j)'
    BY <1>4 DEF World, RowOK
  <1>6. ASSUME NEW j \in Job \ {<<e, 0>>}, NEW f \in Frame, Fits(j, f) PROVE Fits(j, f)'
    <2>1. j[1] = e => j[2] # 0
      BY Jobs
    <2>2. QED
      BY <1>1, <1>2, <1>6, <2>1, Jobs DEF Fits
  <1>7. QED
    BY <1>1, <1>2, <1>3, <1>4, <1>5, <1>6 DEF World, StoreType, Lasts, Leaves, RowMoves

\* A continuation claims its pause.
LEMMA ResumeEffect ==
    ASSUME World, NEW e \in Exec, log[e] = "running", e \in paused, checkpoint[e].active,
           paused' = paused \ {e}, UNCHANGED <<log, checkpoint, rows, Fresh>>
    PROVE  World' /\ Lasts /\ Leaves({ResumeJob(e)}) /\ (\A f : RowMoves(f))
  <1>1. ASSUME NEW d \in Exec PROVE LogOK(d)'
    BY DEF World, LogOK, ResumeJob
  <1>2. ASSUME NEW j \in Job PROVE (Past(j) => Past(j)') /\ (Reached(j) => Reached(j)')
    BY DEF Past, Reached
  <1>3. ASSUME NEW j \in Job PROVE RowOK(j)'
    BY <1>2 DEF World, RowOK
  <1>4. ASSUME NEW j \in Job \ {ResumeJob(e)}, NEW f \in Frame, Fits(j, f) PROVE Fits(j, f)'
    <2>1. j[1] = e => j[2] # checkpoint[e].revision
      BY Jobs DEF ResumeJob
    <2>2. QED
      BY <1>4, <2>1, Jobs DEF Fits
  <1>5. QED
    BY <1>1, <1>2, <1>3, <1>4 DEF World, StoreType, Lasts, Leaves, RowMoves

\* A cancellation takes a pause back.
LEMMA TakeBackEffect ==
    ASSUME World, NEW e \in Exec, log[e] = "running", checkpoint[e].revision # 0,
           ~checkpoint[e].active, paused' = paused \ {e},
           checkpoint' = [checkpoint EXCEPT ![e].active = FALSE], UNCHANGED <<log, rows, Fresh>>
    PROVE  World' /\ Lasts /\ (\A jobs : Leaves(jobs)) /\ (\A f : RowMoves(f))
           /\ UNCHANGED checkpoint
  <1>1. UNCHANGED checkpoint
    <2>1. checkpoint[e].active = FALSE /\ checkpoint[e] \in [revision : Segment, points : SUBSET Point,
                                        submitted : SUBSET Point, active : BOOLEAN]
      BY DEF World, StoreType
    <2>2. QED
      BY <2>1 DEF World, StoreType
  <1>2. ASSUME NEW d \in Exec PROVE LogOK(d)'
    BY <1>1 DEF World, LogOK, ResumeJob
  <1>3. ASSUME NEW j \in Job PROVE (Past(j) => Past(j)') /\ (Reached(j) => Reached(j)')
    BY <1>1 DEF Past, Reached
  <1>4. ASSUME NEW j \in Job PROVE RowOK(j)'
    BY <1>3 DEF World, RowOK
  <1>5. ASSUME NEW j \in Job, NEW f \in Frame, Fits(j, f) PROVE Fits(j, f)'
    BY <1>1, <1>5, Jobs DEF Fits
  <1>6. QED
    BY <1>1, <1>2, <1>3, <1>4, <1>5 DEF World, StoreType, Lasts, Leaves, RowMoves

\* The job of the current segment saves a pause.
LEMMA SaveEffect ==
    ASSUME World, NEW j \in Job, NEW e \in Exec, e = j[1], NEW points \in SUBSET Point, Waited(points),
           log[e] = "running", e \notin paused, checkpoint[e].revision = j[2], j[2] < MaxRevision,
           checkpoint' = [checkpoint EXCEPT ![e] = [NoCheckpoint EXCEPT
                             !.revision = checkpoint[e].revision + 1, !.points = points]],
           paused' = paused \cup {e}, UNCHANGED <<log, rows, Fresh>>
    PROVE  World' /\ Lasts /\ Leaves({j}) /\ (\A f : RowMoves(f)) /\ Past(j)'
           /\ checkpoint'[e].revision = j[2] + 1 /\ checkpoint'[e].points = points
           /\ checkpoint'[e].submitted = {} /\ ~checkpoint'[e].active
  <1>1. j[2] + 1 \in Segment /\ j[2] \in Nat /\ j[2] + 1 > j[2] /\ j[2] + 1 # 0
    BY Jobs, CheckpointAssumption DEF Segment
  <1> DEFINE d == [NoCheckpoint EXCEPT !.revision = checkpoint[e].revision + 1, !.points = points]
  <1>2. /\ d.revision = j[2] + 1 /\ d.points = points /\ d.submitted = {} /\ d.active = FALSE
        /\ d \in [revision : Segment, points : SUBSET Point, submitted : SUBSET Point, active : BOOLEAN]
    BY <1>1 DEF NoCheckpoint
  <1>3. PICK x : x = d
    OBVIOUS
  <1>4. checkpoint' = [checkpoint EXCEPT ![e] = x]
    BY <1>3
  <1> HIDE DEF d
  <1>5. /\ checkpoint' \in [Exec -> [revision : Segment, points : SUBSET Point,
                                     submitted : SUBSET Point, active : BOOLEAN]]
        /\ checkpoint'[e] = x /\ \A i \in Exec \ {e} : checkpoint'[i] = checkpoint[i]
    <2> DEFINE T == [revision : Segment, points : SUBSET Point, submitted : SUBSET Point,
                     active : BOOLEAN]
    <2>1. x \in T
      BY <1>2, <1>3
    <2>2. checkpoint \in [Exec -> T]
      BY DEF World, StoreType
    <2> HIDE DEF T
    <2>3. checkpoint' \in [Exec -> T] /\ checkpoint'[e] = x
          /\ \A i \in Exec \ {e} : checkpoint'[i] = checkpoint[i]
      BY <1>4, <2>1, <2>2
    <2>4. QED
      BY <2>3 DEF T
  <1>6. checkpoint'[e].revision = j[2] + 1 /\ checkpoint'[e].points = points
        /\ checkpoint'[e].submitted = {} /\ checkpoint'[e].active = FALSE
    BY <1>2, <1>3, <1>5
  <1>7. ASSUME NEW i \in Exec PROVE LogOK(i)'
    <2>1. CASE i = e
      BY <1>1, <1>6, <2>1 DEF LogOK
    <2>2. CASE i # e
      BY <1>5, <2>2 DEF World, LogOK, ResumeJob
    <2>3. QED
      BY <2>1, <2>2
  <1>8. ASSUME NEW i \in Job
        PROVE  (Past(i) => Past(i)') /\ (Reached(i) => Reached(i)')
    <2>1. CASE i[1] = e
      BY <1>1, <1>6, <2>1, Jobs DEF Past, Reached
    <2>2. CASE i[1] # e
      BY <1>5, <2>2, Jobs DEF Past, Reached
    <2>3. QED
      BY <2>1, <2>2
  <1>9. ASSUME NEW i \in Job PROVE RowOK(i)'
    BY <1>8 DEF World, RowOK
  <1>10. ASSUME NEW i \in Job \ {j}, NEW f \in Frame, Fits(i, f) PROVE Fits(i, f)'
    <2>1. CASE i[1] = e
      <3>1. i[2] # j[2]
        BY <2>1, Jobs
      <3>2. QED
        BY <1>6, <1>10, <2>1, <3>1, Jobs DEF Fits
    <2>2. CASE i[1] # e
      BY <1>5, <1>10, <2>2, Jobs DEF Fits
    <2>3. QED
      BY <2>1, <2>2
  <1>11. Past(j)'
    BY <1>1, <1>6 DEF Past
  <1>12. QED
    BY <1>5, <1>6, <1>7, <1>8, <1>9, <1>10, <1>11 DEF World, StoreType, Lasts, Leaves, RowMoves

\* A row leaves the queue when its segment is over.
LEMMA SettleEffect ==
    ASSUME World, NEW j \in Job, Past(j), SetRow(j, "absent"), UNCHANGED <<store, Fresh>>,
           NEW g, Holds(g, j)
    PROVE  World' /\ Lasts /\ (\A jobs : Leaves(jobs)) /\ RowMoves(g)
  <1>1. /\ rows' \in [Job -> Statuses] /\ rows'[j] = "absent"
        /\ \A i \in Job \ {j} : rows'[i] = rows[i]
    BY DEF SetRow, World, StoreType, Statuses
  <1>2. \A i : (Past(i)' <=> Past(i)) /\ (Reached(i)' <=> Reached(i))
    BY DEF store, Past, Reached
  <1>3. ASSUME NEW i \in Job PROVE RowOK(i)'
    BY <1>1, <1>2 DEF World, RowOK
  <1>4. ASSUME NEW e \in Exec PROVE LogOK(e)'
    <2>1. checkpoint[e].active => ResumeJob(e) # j
      <3>1. SUFFICES ASSUME checkpoint[e].active, ResumeJob(e) = j PROVE FALSE
        OBVIOUS
      <3>2. j[1] = e /\ j[2] = checkpoint[e].revision /\ checkpoint[e].revision \in Nat
        BY <3>1, LogTypes DEF World
      <3>3. log[e] = "running"
        BY <3>1, NoCheckpointType DEF World, LogOK
      <3>4. QED
        BY <3>1, <3>2, <3>3 DEF Past, Ended
    <2>2. ResumeJob(e)' = ResumeJob(e) /\ ResumeJob(e) \in Job
      BY LogTypes DEF World, ResumeJob, store
    <2>3. QED
      BY <1>1, <2>1, <2>2 DEF World, LogOK, store
  <1>5. QED
    BY <1>1, <1>2, <1>3, <1>4 DEF World, StoreType, store, Lasts, Leaves, Fits, RowMoves

\* A row is claimed, to start its job or to end it.
LEMMA TakeEffect ==
    ASSUME World, NEW j \in Job, rows[j] = "pending", SetRow(j, "processing"), UNCHANGED store,
           Fresh' \in {Fresh, Fresh \ {j}}
    PROVE  World' /\ Lasts /\ (\A jobs : Leaves(jobs)) /\ (\A f : RowMoves(f))
           /\ rows'[j] = "processing"
  <1>1. /\ rows' \in [Job -> Statuses] /\ rows'[j] = "processing"
        /\ \A i \in Job \ {j} : rows'[i] = rows[i]
    BY DEF SetRow, World, StoreType, Statuses
  <1>2. \A i : (Past(i)' <=> Past(i)) /\ (Reached(i)' <=> Reached(i))
    BY DEF store, Past, Reached
  <1>3. ASSUME NEW i \in Job PROVE RowOK(i)'
    BY <1>1, <1>2 DEF World, RowOK
  <1>4. ASSUME NEW e \in Exec PROVE LogOK(e)'
    <2>1. ResumeJob(e)' = ResumeJob(e) /\ ResumeJob(e) \in Job
      BY LogTypes DEF World, ResumeJob, store
    <2>2. QED
      BY <1>1, <2>1 DEF World, LogOK, store
  <1>5. QED
    BY <1>1, <1>2, <1>3, <1>4 DEF World, StoreType, store, Lasts, Leaves, Fits, RowMoves

\* A cancellation that fails gives the row back.
LEMMA GiveBackEffect ==
    ASSUME World, NEW j \in Job, j \in Fresh, rows[j] = "processing", SetRow(j, "pending"),
           UNCHANGED <<store, Fresh>>, NEW g, Claims(g, j)
    PROVE  World' /\ Lasts /\ (\A jobs : Leaves(jobs)) /\ RowMoves(g)
  <1>1. /\ rows' \in [Job -> Statuses] /\ rows'[j] = "pending"
        /\ \A i \in Job \ {j} : rows'[i] = rows[i]
    BY DEF SetRow, World, StoreType, Statuses
  <1>2. \A i : (Past(i)' <=> Past(i)) /\ (Reached(i)' <=> Reached(i))
    BY DEF store, Past, Reached
  <1>3. ASSUME NEW i \in Job PROVE RowOK(i)'
    BY <1>1, <1>2 DEF World, RowOK
  <1>4. ASSUME NEW e \in Exec PROVE LogOK(e)'
    <2>1. ResumeJob(e)' = ResumeJob(e) /\ ResumeJob(e) \in Job
      BY LogTypes DEF World, ResumeJob, store
    <2>2. QED
      BY <1>1, <2>1 DEF World, LogOK, store
  <1>5. QED
    BY <1>1, <1>2, <1>3, <1>4 DEF World, StoreType, store, Lasts, Leaves, Fits, RowMoves

-----------------------------------------------------------------------------
(* A step of one process, and the frames of the others.                     *)

FreshMoves == Fresh' \subseteq Fresh /\ \A j \in Fresh \ Fresh' : rows[j] = "pending"

\* What no process but the mover holds, the mover may not touch; what a process
\* has claimed, only this process.
LEMMA Bystander ==
    ASSUME World, NEW q \in Proc, NEW h, Shaped(q, h), Sound(q, h, Gone, Fresh, rows),
           NEW f, Lasts, RowMoves(f), FreshMoves,
           \A j \in Job : /\ Claims(f, j) => ~Holds(h, j)
                          /\ Claims(h, j) => ~Holds(f, j)
    PROVE  Sound(q, h, Gone', Fresh', rows')
  <1>1. Gone \subseteq Gone'
    BY DEF Gone, Lasts
  <1>2. ASSUME NEW j \in Job, Holds(h, j), rows[j] # "pending", j \in Gone \/ j \notin Fresh
        PROVE  rows'[j] # "pending"
    BY <1>2 DEF RowMoves, Gone
  <1>3. ASSUME "settle" \in Todo(h.prog)
        PROVE  /\ rows'[h.row] # "pending"
               /\ h.row \in Gone' \/ (Doing(h, {"terminalize"}) /\ h.row \notin Fresh')
    <2>1. h.row \in Job /\ Holds(h, h.row)
      BY <1>3 DEF Shaped, Shape, OwnRow, Holds
    <2>2. /\ rows[h.row] # "pending"
          /\ h.row \in Gone \/ (Doing(h, {"terminalize"}) /\ h.row \notin Fresh)
      BY <1>3 DEF Sound
    <2>3. QED
      BY <1>1, <1>2, <2>1, <2>2 DEF FreshMoves
  <1>4. ASSUME "settle" \in Todo(h.rest)
        PROVE  rows'[h.home] # "pending" /\ h.home \in Gone'
    <2>1. h.home \in Job /\ Holds(h, h.home)
      BY <1>4 DEF Shaped, Shape, Holds
    <2>2. rows[h.home] # "pending" /\ h.home \in Gone
      BY <1>4 DEF Sound
    <2>3. QED
      BY <1>1, <1>2, <2>1, <2>2
  <1>5. ASSUME Doing(h, {"cancelTerminalize"})
        PROVE  h.row \in Fresh' /\ rows'[h.row] = "processing"
    <2>1. h.row \in Job
      BY <1>5 DEF Shaped, Shape, OwnRow, Doing, Cancels
    <2>2. h.row \in Fresh /\ rows[h.row] = "processing" /\ Claims(h, h.row)
      BY <1>5 DEF Sound, Claims
    <2>3. ~Holds(f, h.row) /\ ~Claims(f, h.row)
      BY <2>1, <2>2 DEF Holds
    <2>4. QED
      BY <2>1, <2>2, <2>3 DEF RowMoves, FreshMoves
  <1>6. q \in Job => \/ q \in Gone' \/ h.mode = "cancelled" \/ Doing(h, Early)
                     \/ Doing(h, {"terminalize"}) /\ h.family = None
    BY <1>1 DEF Sound
  <1>7. QED
    BY <1>3, <1>4, <1>5, <1>6 DEF Sound

LEMMA FreshKept ==
    ASSUME proc \in [Proc -> Frame], NEW p \in Proc, NEW g, Become(p, g), Shaped(p, g),
           ~Doing(proc[p], {"unstarted"}), ~Doing(g, {"unstarted"})
    PROVE  UNCHANGED Fresh
  <1>1. proc' = [proc EXCEPT ![p] = Left(g)] /\ ~Doing(Left(g), {"unstarted"})
    BY BecomeLeft, LeftFine
  <1>2. ASSUME NEW j \in Job PROVE j \in Fresh' <=> j \in Fresh
    BY <1>1, Jobs DEF Fresh, At, Doing
  <1>3. QED
    BY <1>2 DEF Fresh

\* A step of process p, which becomes g.
LEMMA Moves ==
    ASSUME IInv, NEW p \in Proc, NEW g, Become(p, g), Shaped(p, g),
           World', Marked', Lasts, Leaves({p}), RowMoves(proc[p]), FreshMoves,
           p \in Job => Fits(p, g)', Sound(p, g, Gone', Fresh', rows'),
           \A j \in Job : Claims(g, j) => rows[j] = "pending",
           \A j \in Job : Holds(g, j) => \/ Holds(proc[p], j) \/ j \notin Fresh
                                         \/ rows[j] = "pending"
    PROVE  IInv'
  <1>1. /\ proc' = [proc EXCEPT ![p] = Left(g)] /\ Left(g) \in Frame /\ Shaped(p, Left(g))
        /\ Sound(p, Left(g), Gone', Fresh', rows')
        /\ \A labels : Doing(Left(g), labels) <=> Doing(g, labels)
        /\ \A j : (Claims(Left(g), j) <=> Claims(g, j)) /\ (Holds(Left(g), j) => Holds(g, j))
    BY BecomeLeft, LeftFine
  <1>2. proc' \in [Proc -> Frame] /\ proc'[p] = Left(g) /\ \A q \in Proc \ {p} : proc'[q] = proc[q]
    BY <1>1 DEF IInv
  <1>3. Framed(p)'
    <2>1. p \in Job => Fits(p, Left(g))'
      BY <1>1 DEF Fits, Left, Over
    <2>2. QED
      BY <1>1, <1>2, <2>1 DEF Framed
  <1>4. ASSUME NEW q \in Proc \ {p} PROVE Framed(q)'
    <2>1. Shaped(q, proc[q]) /\ Sound(q, proc[q], Gone, Fresh, rows) /\ proc'[q] = proc[q]
      BY <1>2 DEF IInv, Framed
    <2>2. \A j \in Job : /\ Claims(proc[p], j) => ~Holds(proc[q], j)
                         /\ Claims(proc[q], j) => ~Holds(proc[p], j)
      BY DEF IInv, Exclusive
    <2>3. Sound(q, proc[q], Gone', Fresh', rows')
      BY <2>1, <2>2, Bystander DEF IInv
    <2>4. q \in Job => Fits(q, proc[q])'
      <3>1. PICK f \in Frame : f = proc[q]
        BY DEF IInv
      <3>2. q \in Job => Fits(q, f)
        BY <3>1 DEF IInv, Framed
      <3>3. q \in Job => Fits(q, f)'
        BY <3>2 DEF Leaves
      <3>4. QED
        BY <2>1, <3>1, <3>3
    <2>5. QED
      BY <2>1, <2>3, <2>4 DEF Framed
  <1>5. Exclusive'
    <2> SUFFICES ASSUME NEW a \in Proc, NEW b \in Proc, NEW j \in Job, a # b,
                        Claims(proc'[a], j), Holds(proc'[b], j)
                 PROVE  FALSE
      BY DEF Exclusive
    <2>1. CASE a # p /\ b # p
      BY <1>2, <2>1 DEF IInv, Exclusive
    <2>2. CASE a = p
      <3>1. rows[j] = "pending" /\ proc'[b] = proc[b]
        BY <1>1, <1>2, <2>2
      <3>2. Shaped(b, proc[b]) /\ Sound(b, proc[b], Gone, Fresh, rows)
        BY DEF IInv, Framed
      <3>3. QED
        BY <3>1, <3>2 DEF Holds, Claims, Sound
    <2>3. CASE b = p
      <3>1. Holds(proc[p], j) \/ j \notin Fresh \/ rows[j] = "pending"
        BY <1>1, <1>2, <2>3
      <3>2. proc'[a] = proc[a] /\ Claims(proc[a], j)
        BY <1>2, <2>3
      <3>3. j \in Fresh /\ rows[j] = "processing"
        BY <3>2 DEF IInv, Framed, Sound, Claims
      <3>4. QED
        BY <2>3, <3>1, <3>2, <3>3 DEF IInv, Exclusive
    <2>4. QED
      BY <2>1, <2>2, <2>3
  <1>6. QED
    BY <1>2, <1>3, <1>4, <1>5 DEF IInv

\* A step that changes neither the log nor the queue.
LEMMA QuietMoves ==
    ASSUME IInv, NEW p \in Proc, NEW g, Become(p, g), Shaped(p, g), UNCHANGED <<store, rows>>,
           Marked', ~Doing(proc[p], {"unstarted"}), ~Doing(g, {"unstarted"}),
           p \in Job => Fits(p, g), Sound(p, g, Gone, Fresh, rows),
           \A j \in Job : ~Claims(g, j),
           \A j \in Job : Holds(g, j) => Holds(proc[p], j) \/ j \notin Fresh \/ rows[j] = "pending"
    PROVE  IInv'
  <1>1. UNCHANGED Fresh
    BY FreshKept DEF IInv
  <1>2. /\ World' /\ Lasts /\ Leaves({p}) /\ RowMoves(proc[p])
        /\ \A j : Past(j)' <=> Past(j)
    BY <1>1, Quiet DEF IInv
  <1>3. Gone' = Gone /\ FreshMoves
    BY <1>1, <1>2 DEF Gone, FreshMoves
  <1>4. p \in Job => Fits(p, g)'
    BY DEF Fits, store
  <1>5. Sound(p, g, Gone', Fresh', rows')
    BY <1>1, <1>3
  <1>6. QED
    BY <1>2, <1>3, <1>4, <1>5, Moves

-----------------------------------------------------------------------------
(* The steps of a job at its own segment.                                   *)

LEMMA HomeFacts ==
    ASSUME IInv, NEW j \in Job, Doing(proc[j], Early)
    PROVE  /\ proc[j] \in Frame /\ Shaped(j, proc[j]) /\ proc[j].prog # <<>>
           /\ proc[j].family = None /\ proc[j].row = j /\ proc[j].exec = j[1]
           /\ Fits(j, proc[j]) /\ RowOK(j) /\ LogOK(j[1])
           /\ proc[j].child # None => Parent[proc[j].child] # None
           /\ j[1] \in Exec
  BY Jobs DEF IInv, World, Framed, Shaped, Shape, JobShape, Doing

LEMMA HomeFresh ==
    ASSUME IInv, NEW j \in Job, ~At(j, "unstarted"), NEW f, Shaped(j, f), f.prog # <<>>,
           f.family = None, NEW g, HomeNext(j, f, g), Become(j, g)
    PROVE  UNCHANGED Fresh /\ FreshMoves /\ j \notin Fresh
  <1>1. ~Doing(proc[j], {"unstarted"}) /\ j \in Proc
    BY Jobs DEF At, Doing
  <1>2. UNCHANGED Fresh
    BY <1>1, HomeFrame, FreshKept DEF IInv
  <1>3. QED
    BY <1>2 DEF FreshMoves, Fresh

LEMMA HomeMoves ==
    ASSUME IInv, NEW j \in Job, ~At(j, "unstarted"), NEW f, Shaped(j, f), f.prog # <<>>,
           f.family = None, NEW g, HomeNext(j, f, g), Become(j, g),
           World', UNCHANGED <<rows, cancelRequested>>, Lasts, Leaves({j}), RowMoves(proc[j]),
           Fits(j, g)',
           Past(j)' \/ Doing(g, Early) \/ Doing(g, {"terminalize"})
    PROVE  IInv'
  <1>1. UNCHANGED Fresh /\ FreshMoves /\ j \notin Fresh /\ j \in Proc
    BY HomeFresh, Jobs
  <1>2. Marked'
    BY DEF IInv, Marked
  <1>3. /\ Shaped(j, g)
        /\ \A i : ~Claims(g, i) /\ (Holds(g, i) => i = j)
        /\ \A gone, fresh, status :
              /\ j \in gone \/ Doing(g, Early) \/ (Doing(g, {"terminalize"}) /\ j \notin fresh)
              /\ "settle" \in Todo(g.prog) => status[j] # "pending"
              => Sound(j, g, gone, fresh, status)
    BY HomeFrame
  <1>4. rows'[j] # "pending"
    BY <1>1 DEF World, RowOK
  <1>5. j \in Gone' \/ Doing(g, Early) \/ (Doing(g, {"terminalize"}) /\ j \notin Fresh')
    BY <1>1 DEF Gone
  <1>6. Sound(j, g, Gone', Fresh', rows')
    BY <1>3, <1>4, <1>5
  <1>7. QED
    BY <1>1, <1>2, <1>3, <1>6, Moves

\* Instead, with another mode, other points or a child to tell of.
LEMMA HomeInstead ==
    ASSUME NEW j \in Job, NEW f \in Frame, Shaped(j, f), f.prog # <<>>, f.family = None,
           NEW s \in HomePrograms, NEW g \in Frame, g.prog = s, AtHome(j, f, g),
           Head(s) = "begin" => j[2] = 0,
           Head(s) = "claim" => j[2] # 0,
           Head(s) = "save" => g.points # {} /\ Waited(g.points),
           g.child # None => Parent[g.child] # None,
           Head(s) = "tell" => g.child # None
    PROVE  HomeNext(j, f, g) /\ \A labels : Doing(g, labels) <=> Head(s) \in labels
  BY HomeProgram DEF HomeNext, Doing

LEMMA DispatchKeeps ==
    ASSUME IInv, NEW j \in Job, Dispatch(j)
    PROVE  IInv'
  <1> DEFINE s == IF j[2] = 0 THEN <<"begin">> ELSE <<"claim">>
  <1>1. rows[j] = "pending" /\ At(j, "unstarted") /\ SetRow(j, "processing") /\ UNCHANGED <<store, cancelRequested>>
    BY DEF Dispatch
  <1>2. Doing(proc[j], Early) /\ Doing(proc[j], {"unstarted"}) /\ j \in Proc
    BY <1>1, Jobs DEF At, Doing, Early
  <1>3. PICK g : g = Instead(proc[j], s)
    OBVIOUS
  <1>4. s \in HomePrograms /\ Head(s) = IF j[2] = 0 THEN "begin" ELSE "claim"
    BY Short DEF HomePrograms
  <1>5. HomeNext(j, proc[j], g) /\ Doing(g, {"begin", "claim"})
        /\ (Doing(g, {"begin"}) => j[2] = 0) /\ (Doing(g, {"claim"}) => j[2] # 0)
    <2>1. s \in Seq(Labels)
      BY <1>4, HomeProgram
    <2>2. g \in Frame /\ g.prog = s /\ AtHome(j, proc[j], g) /\ (g.child # None => Parent[g.child] # None)
      BY <1>2, <1>3, <2>1, InsteadFrame, HomeFacts DEF AtHome
    <2> HIDE DEF s
    <2>3. HomeNext(j, proc[j], g) /\ \A labels : Doing(g, labels) <=> Head(s) \in labels
      BY <1>2, <1>4, <2>2, HomeInstead, HomeFacts
    <2>4. QED
      BY <1>4, <2>3
  <1>6. Become(j, g)
    BY <1>3 DEF Dispatch
  <1> HIDE DEF s
  <1>7. /\ Shaped(j, g) /\ ~Doing(g, {"unstarted"})
        /\ \A i : ~Claims(g, i) /\ (Holds(g, i) => i = j)
        /\ \A gone, fresh, status :
              /\ j \in gone \/ Doing(g, Early) \/ (Doing(g, {"terminalize"}) /\ j \notin fresh)
              /\ "settle" \in Todo(g.prog) => status[j] # "pending"
              => Sound(j, g, gone, fresh, status)
    BY <1>2, <1>5, HomeFrame, HomeFacts
  <1>8. Fresh' = Fresh \ {j}
    <2>1. proc' = [proc EXCEPT ![j] = Left(g)] /\ ~Doing(Left(g), {"unstarted"})
      BY <1>6, <1>7, BecomeLeft, LeftFine, Jobs
    <2>2. ASSUME NEW i \in Job PROVE i \in Fresh' <=> i \in Fresh \ {j}
      BY <2>1, Jobs DEF Fresh, At, Doing, IInv
    <2>3. QED
      BY <2>2 DEF Fresh
  <1>9. /\ World' /\ Lasts /\ Leaves({j}) /\ RowMoves(proc[j]) /\ rows'[j] = "processing"
    BY <1>1, <1>8, TakeEffect DEF IInv
  <1>10. FreshMoves
    BY <1>1, <1>8 DEF FreshMoves
  <1>11. Marked'
    BY <1>1, <1>9 DEF IInv, Marked, SetRow, World, StoreType
  <1>12. Fits(j, g)'
    <2>1. Fits(j, proc[j])
      BY <1>2, HomeFacts
    <2>2. Doing(proc[j], {"unstarted", "begin"}) /\ Doing(proc[j], {"unstarted", "claim"})
      BY <1>2 DEF Doing
    <2>3. ~Doing(g, {"run", "save"}) /\ (Doing(g, {"unstarted", "begin"}) => j[2] = 0)
      BY <1>5 DEF Doing
    <2>4. QED
      BY <1>1, <2>1, <2>2, <2>3 DEF Fits, store
  <1>13. Sound(j, g, Gone', Fresh', rows')
    <2>1. Doing(g, Early)
      BY <1>5 DEF Doing, Early
    <2>2. QED
      BY <1>7, <1>9, <2>1
  <1>14. QED
    BY <1>1, <1>2, <1>6, <1>7, <1>9, <1>10, <1>11, <1>12, <1>13, Moves

\* A job that is under way is not fresh, and its row is not pending.
LEMMA EarlyHeads ==
    ASSUME NEW p, NEW l \in Early, At(p, l)
    PROVE  /\ Doing(proc[p], Early) /\ Doing(proc[p], {l}) /\ proc[p].prog # <<>>
           /\ l # "unstarted" => ~At(p, "unstarted")
  BY DEF At, Doing, Early

\* A step of a job that changes neither the log nor the queue.
LEMMA HomeQuiet ==
    ASSUME IInv, NEW j \in Job, ~At(j, "unstarted"), NEW f, Shaped(j, f), f.prog # <<>>,
           f.family = None, NEW g, HomeNext(j, f, g), Become(j, g),
           UNCHANGED <<store, rows, cancelRequested>>, Fits(j, g),
           Past(j) \/ Doing(g, Early) \/ Doing(g, {"terminalize"})
    PROVE  IInv'
  <1>1. UNCHANGED Fresh
    BY HomeFresh
  <1>2. /\ World' /\ Lasts /\ Leaves({j}) /\ RowMoves(proc[j])
        /\ Past(j)' <=> Past(j)
    BY <1>1, Quiet DEF IInv
  <1>3. Fits(j, g)'
    BY DEF Fits, store
  <1>4. QED
    BY <1>2, <1>3, HomeMoves

\* A job that fails leaves the rest to its supervisor.
LEMMA FinalKeeps ==
    ASSUME IInv, NEW j \in Job, ~At(j, "unstarted"), NEW f \in Frame, Shaped(j, f),
           f.prog # <<>>, f.family = None, UNCHANGED <<store, queue>>,
           Become(j, [f EXCEPT !.prog = <<"final">>, !.mode = "supervisor"])
    PROVE  IInv'
  <1>1. PICK g : g = [f EXCEPT !.prog = <<"final">>, !.mode = "supervisor"]
    OBVIOUS
  <1>2. <<"final">> \in HomePrograms /\ Head(<<"final">>) = "final" /\ <<"final">> \in Seq(Labels)
    BY Short, HomeProgram DEF HomePrograms
  <1>3. /\ g \in Frame /\ g.prog = <<"final">> /\ AtHome(j, f, g)
        /\ g.child # None => Parent[g.child] # None
    <2>1. "supervisor" \in Modes
      BY DEF Modes
    <2>2. /\ g \in Frame /\ g.prog = <<"final">> /\ g.child = f.child /\ g.exec = f.exec
          /\ g.row = f.row /\ g.todo = f.todo /\ g.family = f.family /\ g.home = f.home
          /\ g.rest = f.rest
      BY <1>1, <1>2, <2>1 DEF Frame
    <2>3. f.child # None => Parent[f.child] # None
      BY DEF Shaped, Shape
    <2>4. QED
      BY <2>2, <2>3 DEF AtHome
  <1>4. HomeNext(j, f, g) /\ Doing(g, Early) /\ ~Doing(g, {"unstarted", "begin"})
        /\ ~Doing(g, {"unstarted", "claim"}) /\ ~Doing(g, {"run", "save"})
    BY <1>2, <1>3, HomeInstead DEF Early
  <1>5. Fits(j, g)
    BY <1>4 DEF Fits
  <1>6. QED
    BY <1>1, <1>4, <1>5, HomeQuiet DEF queue

\* The frame a job starts with.
LEMMA FirstFrame ==
    ASSUME NEW j \in Job
    PROVE  LET f == JobFrame(j) IN
           /\ Shaped(j, f) /\ f.prog # <<>> /\ f.family = None /\ f \in Frame
           /\ Head(f.prog) = "unstarted" /\ Todo(f.prog) = {"unstarted"} /\ Todo(f.rest) = {}
  <1>1. PICK f : f = JobFrame(j)
    OBVIOUS
  <1>2. /\ f \in Frame /\ f.prog = <<"unstarted">> /\ f.mode = "job"
        /\ f.exec = j[1] /\ f.row = j /\ f.family = None /\ f.rest = <<>>
        /\ f.child = None /\ f.todo = {}
    BY <1>1, JobFrames
  <1>3. /\ Todo(f.prog) = {"unstarted"} /\ f.prog # <<>> /\ Head(f.prog) = "unstarted"
        /\ Tail(f.prog) = <<>> /\ Todo(<<>>) = {}
    BY <1>2, Short
  <1>4. Shape(j, f)
    BY <1>2, <1>3, Jobs DEF Shape, Doing, Waited, Cancels
  <1>5. JobShape(j, f)
    BY <1>1, <1>2, <1>3 DEF JobShape, Doing, Cancels
  <1>6. QED
    BY <1>1, <1>2, <1>3, <1>4, <1>5 DEF Shaped

LEMMA JobKilledKeeps ==
    ASSUME IInv, NEW j \in Job, JobKilled(j) \/ SupervisorCrash(j)
    PROVE  IInv'
  <1>1. /\ ~At(j, "unstarted") /\ UNCHANGED <<store, queue>>
        /\ Become(j, [JobFrame(j) EXCEPT !.prog = <<"final">>, !.mode = "supervisor"])
    BY DEF JobKilled, SupervisorCrash, Active
  <1>2. PICK f : f = JobFrame(j)
    OBVIOUS
  <1>3. Shaped(j, f) /\ f.prog # <<>> /\ f.family = None /\ f \in Frame
    BY <1>2, FirstFrame
  <1>4. QED
    BY <1>1, <1>2, <1>3, FinalKeeps
LEMMA BeginKeeps ==
    ASSUME IInv, NEW j \in Job, Begin(j)
    PROVE  IInv'
  <1> DEFINE e == j[1]
             f == proc[j]
  <1>1. /\ At(j, "begin") /\ e \in Exec /\ UNCHANGED <<checkpoint, paused, rows, cancelRequested>>
        /\ log' = [log EXCEPT ![e] = IF @ = "none" THEN "running" ELSE @]
    BY Jobs DEF Begin, queue
  <1>2. /\ Doing(f, Early) /\ Doing(f, {"begin"}) /\ ~At(j, "unstarted") /\ f.prog # <<>>
        /\ f \in Frame /\ Shaped(j, f) /\ f.family = None /\ Fits(j, f) /\ j[2] = 0
        /\ f.child # None => Parent[f.child] # None
    BY <1>1, EarlyHeads, HomeFacts DEF Early, Shaped, JobShape
  <1>3. log[e] # "running"
    BY <1>2 DEF Fits, Doing
  <1>4. CASE log[e] \in Ended
    <2>1. UNCHANGED <<store, queue>>
      BY <1>1, <1>3, <1>4 DEF store, queue, Ended, IInv, World, StoreType
    <2>2. Become(j, [Instead(f, <<"final">>) EXCEPT !.mode = "supervisor"])
      BY <1>4 DEF Begin
    <2>3. [Instead(f, <<"final">>) EXCEPT !.mode = "supervisor"]
             = [f EXCEPT !.prog = <<"final">>, !.mode = "supervisor"]
      BY DEF Instead
    <2>4. QED
      BY <1>2, <2>1, <2>2, <2>3, FinalKeeps
  <1>5. CASE log[e] = "none"
    <2>1. PICK g : g = Instead(f, <<"run">>)
      OBVIOUS
    <2>2. <<"run">> \in HomePrograms /\ Head(<<"run">>) = "run" /\ <<"run">> \in Seq(Labels)
      BY Short, HomeProgram DEF HomePrograms
    <2>3. /\ g \in Frame /\ g.prog = <<"run">> /\ AtHome(j, f, g)
          /\ g.child # None => Parent[g.child] # None
      BY <1>2, <2>1, <2>2, InsteadFrame DEF AtHome
    <2>4. HomeNext(j, f, g) /\ Doing(g, Early) /\ ~Doing(g, {"unstarted", "begin"})
          /\ ~Doing(g, {"unstarted", "claim"}) /\ ~Doing(g, {"save"})
      BY <1>2, <2>2, <2>3, HomeInstead DEF Early
    <2>5. Become(j, g)
      BY <1>5, <2>1 DEF Begin, Ended
    <2>6. log' = [log EXCEPT ![e] = "running"]
      BY <1>1, <1>5
    <2>7. UNCHANGED Fresh
      BY <1>2, <2>4, <2>5, HomeFresh
    <2>8. /\ World' /\ Lasts /\ Leaves({<<e, 0>>}) /\ RowMoves(proc[j])
          /\ log'[e] = "running" /\ e \notin paused' /\ checkpoint'[e].revision = 0
      BY <1>1, <1>5, <2>6, <2>7, BeginEffect DEF IInv
    <2>9. <<e, 0>> = j
      BY <1>2, Jobs
    <2>10. Fits(j, g)'
      BY <1>2, <2>4, <2>8 DEF Fits
    <2>11. QED
      BY <1>1, <1>2, <2>4, <2>5, <2>8, <2>9, <2>10, HomeMoves
  <1>6. QED
    BY <1>1, <1>3, <1>4, <1>5, LogTypes DEF IInv, World, Ended


\* A job of its own segment that takes up another program, and nothing else.
LEMMA HomeInsteadNext ==
    ASSUME NEW j \in Job, NEW f \in Frame, Shaped(j, f), f.prog # <<>>, f.family = None,
           NEW s \in HomePrograms, Head(s) \notin {"begin", "claim", "save", "tell"}
    PROVE  /\ HomeNext(j, f, Instead(f, s))
           /\ \A labels : Doing(Instead(f, s), labels) <=> Head(s) \in labels
  <1>1. PICK g : g = Instead(f, s)
    OBVIOUS
  <1>2. s \in Seq(Labels)
    BY HomeProgram
  <1>3. /\ g \in Frame /\ g.prog = s /\ AtHome(j, f, g)
        /\ g.child # None => Parent[g.child] # None
    BY <1>1, <1>2, InsteadFrame DEF AtHome, Shaped, Shape
  <1>4. HomeNext(j, f, g) /\ \A labels : Doing(g, labels) <=> Head(s) \in labels
    BY <1>3, HomeInstead
  <1>5. QED
    BY <1>1, <1>4

LEMMA HomeProgramHeads ==
    /\ HomePrograms # {}
    /\ <<"run">> \in HomePrograms /\ Head(<<"run">>) = "run"
    /\ <<"fail">> \in HomePrograms /\ Head(<<"fail">>) = "fail"
    /\ <<"save">> \in HomePrograms /\ Head(<<"save">>) = "save"
    /\ <<"settle">> \in HomePrograms /\ Head(<<"settle">>) = "settle"
    /\ <<"reconcile", "settle">> \in HomePrograms /\ Head(<<"reconcile", "settle">>) = "reconcile"
    /\ <<"descendants", "settle">> \in HomePrograms /\ Head(<<"descendants", "settle">>) = "descendants"
    /\ <<"tell", "settle">> \in HomePrograms /\ Head(<<"tell", "settle">>) = "tell"
    /\ <<"terminalize", "descendants", "settle">> \in HomePrograms
    /\ Head(<<"terminalize", "descendants", "settle">>) = "terminalize"
  BY Short DEF HomePrograms

LEMMA ClaimKeeps ==
    ASSUME IInv, NEW j \in Job, ClaimCheckpoint(j)
    PROVE  IInv'
  <1> DEFINE e == j[1]
             f == proc[j]
             mine == log[e] = "running" /\ e \in paused /\ checkpoint[e].revision = j[2]
                       /\ checkpoint[e].active
  <1>1. At(j, "claim") /\ e \in Exec /\ UNCHANGED <<log, checkpoint, rows, cancelRequested>>
    BY Jobs DEF ClaimCheckpoint, queue
  <1>2. /\ Doing(f, Early) /\ Doing(f, {"claim"}) /\ ~At(j, "unstarted") /\ f.prog # <<>>
        /\ f \in Frame /\ Shaped(j, f) /\ f.family = None /\ Fits(j, f) /\ j[2] # 0
        /\ RowOK(j) /\ LogOK(e)
    BY <1>1, EarlyHeads, HomeFacts DEF Early, Shaped, JobShape
  <1>3. CASE mine /\ paused' = paused \ {e} /\ Become(j, Instead(f, <<"run">>))
    <2>1. PICK g : g = Instead(f, <<"run">>)
      OBVIOUS
    <2>2. HomeNext(j, f, g) /\ \A labels : Doing(g, labels) <=> "run" \in labels
      BY <1>2, <2>1, HomeInsteadNext, HomeProgramHeads
    <2>3. Become(j, g)
      BY <1>3, <2>1
    <2>4. UNCHANGED Fresh
      BY <1>2, <2>2, <2>3, HomeFresh
    <2>5. ResumeJob(e) = j
      BY <1>3, Jobs DEF ResumeJob
    <2>6. World' /\ Lasts /\ Leaves({ResumeJob(e)}) /\ RowMoves(f)
      BY <1>1, <1>3, <2>4, ResumeEffect DEF IInv
    <2>7. Fits(j, g)'
      BY <1>1, <1>3, <2>2 DEF Fits
    <2>8. Doing(g, Early)
      BY <2>2 DEF Early
    <2>9. QED
      BY <1>1, <1>2, <2>2, <2>3, <2>5, <2>6, <2>7, <2>8, HomeMoves
  <1>4. CASE ~mine /\ UNCHANGED paused /\ Become(j, Instead(f, <<"reconcile", "settle">>))
    <2>1. PICK g : g = Instead(f, <<"reconcile", "settle">>)
      OBVIOUS
    <2>2. HomeNext(j, f, g) /\ \A labels : Doing(g, labels) <=> "reconcile" \in labels
      BY <1>2, <2>1, HomeInsteadNext, HomeProgramHeads
    <2>3. Become(j, g)
      BY <1>4, <2>1
    <2>4. Past(j)
      <3>1. j \notin Fresh
        BY <1>2 DEF Fresh
      <3>2. CASE rows[j] = "absent"
        BY <1>2, <3>1, <3>2 DEF RowOK
      <3>3. CASE rows[j] # "absent"
        <4>1. Reached(j)
          BY <1>2, <3>3 DEF RowOK
        <4>2. log[e] = "running" /\ checkpoint[e].revision = j[2] /\ checkpoint[e].active
                => e \in paused
          BY <1>2 DEF Fits, Doing
        <4>3. QED
          BY <1>2, <1>4, <4>1, <4>2 DEF Reached, Past
      <3>4. QED
        BY <3>2, <3>3
    <2>5. Fits(j, g)
      BY <2>2 DEF Fits
    <2>6. UNCHANGED <<store, rows, cancelRequested>>
      BY <1>1, <1>4 DEF store
    <2>7. QED
      BY <1>2, <2>2, <2>3, <2>4, <2>5, <2>6, HomeQuiet
  <1>5. CASE UNCHANGED paused /\ Become(j, [Instead(f, <<"final">>) EXCEPT !.mode = "supervisor"])
    <2>1. UNCHANGED <<store, queue>>
      BY <1>1, <1>5 DEF store, queue
    <2>2. [Instead(f, <<"final">>) EXCEPT !.mode = "supervisor"]
             = [f EXCEPT !.prog = <<"final">>, !.mode = "supervisor"]
      BY DEF Instead
    <2>3. QED
      BY <1>2, <1>5, <2>1, <2>2, FinalKeeps
  <1>6. QED
    BY <1>3, <1>4, <1>5 DEF ClaimCheckpoint

LEMMA PauseKeeps ==
    ASSUME IInv, NEW j \in Job, Pause(j)
    PROVE  IInv'
  <1> DEFINE e == j[1]
             f == proc[j]
  <1>1. /\ At(j, "run") /\ e \in Exec /\ UNCHANGED <<store, rows, cancelRequested>>
        /\ checkpoint[e].revision < MaxRevision
    BY Jobs DEF Pause, queue
  <1>2. /\ Doing(f, Early) /\ Doing(f, {"run", "save"}) /\ ~At(j, "unstarted") /\ f.prog # <<>>
        /\ f \in Frame /\ Shaped(j, f) /\ f.family = None /\ Fits(j, f)
        /\ f.child # None => Parent[f.child] # None
    BY <1>1, EarlyHeads, HomeFacts DEF Early, Doing
  <1>3. PICK points \in SUBSET (Review[e] \cup (Polled(e) \cap paused)) :
             points # {} /\ Become(j, [Instead(f, <<"save">>) EXCEPT !.points = points])
    BY DEF Pause
  <1>4. points \subseteq Point /\ Waited(points)
    <2>1. Review[e] \subseteq ReviewPoint /\ ReviewPoint \cap Exec = {}
      BY <1>1, CheckpointAssumption DEF ReviewPoint
    <2>2. \A c \in Polled(e) : c \in Exec /\ Parent[c] = e
      BY DEF Polled, Children
    <2>3. e # None
      BY <1>1, Jobs
    <2>4. QED
      BY <2>1, <2>2, <2>3 DEF Point, Waited
  <1>5. PICK g : g = [Instead(f, <<"save">>) EXCEPT !.points = points]
    OBVIOUS
  <1>6. g \in Frame /\ g.prog = <<"save">> /\ g.points = points /\ AtHome(j, f, g) /\ g.child = f.child
    <2>1. PICK h : h = Instead(f, <<"save">>)
      OBVIOUS
    <2>2. <<"save">> \in Seq(Labels)
      BY HomeProgram, HomeProgramHeads
    <2>3. h \in Frame /\ h.prog = <<"save">> /\ AtHome(j, f, h) /\ h.child = f.child
      BY <1>2, <2>1, <2>2, InsteadFrame DEF AtHome
    <2>4. g = [h EXCEPT !.points = points]
      BY <1>5, <2>1
    <2>5. QED
      BY <1>4, <2>3, <2>4 DEF Frame, AtHome
  <1>7. HomeNext(j, f, g) /\ \A labels : Doing(g, labels) <=> "save" \in labels
    BY <1>2, <1>3, <1>4, <1>6, HomeInstead, HomeProgramHeads
  <1>8. Become(j, g)
    BY <1>3, <1>5
  <1>9. Fits(j, g)
    BY <1>1, <1>2, <1>7 DEF Fits
  <1>10. Doing(g, Early)
    BY <1>7 DEF Early
  <1>11. QED
    BY <1>1, <1>2, <1>7, <1>8, <1>9, <1>10, HomeQuiet

LEMMA SaveKeeps ==
    ASSUME IInv, NEW j \in Job, Save(j)
    PROVE  IInv'
  <1> DEFINE e == j[1]
             f == proc[j]
             refused == log[e] # "running" \/ j \in cancelRequested
  <1>1. At(j, "save") /\ e \in Exec /\ UNCHANGED <<log, rows, cancelRequested>>
    BY Jobs DEF Save, queue
  <1>2. /\ Doing(f, Early) /\ Doing(f, {"run", "save"}) /\ Doing(f, {"save"}) /\ ~At(j, "unstarted")
        /\ f.prog # <<>> /\ f \in Frame /\ Shaped(j, f) /\ f.family = None /\ Fits(j, f)
        /\ f.points \subseteq Point /\ Waited(f.points)
    BY <1>1, EarlyHeads, HomeFacts, FrameFields DEF Early, Doing, Shaped, JobShape
  <1>3. CASE refused
    <2>1. PICK g : g = Instead(f, <<"fail">>)
      OBVIOUS
    <2>2. HomeNext(j, f, g) /\ \A labels : Doing(g, labels) <=> "fail" \in labels
      BY <1>2, <2>1, HomeInsteadNext, HomeProgramHeads
    <2>3. Become(j, g) /\ UNCHANGED <<store, rows, cancelRequested>>
      BY <1>1, <1>3, <2>1 DEF Save, store
    <2>4. Fits(j, g) /\ Doing(g, Early)
      BY <2>2 DEF Fits, Early
    <2>5. QED
      BY <1>2, <2>2, <2>3, <2>4, HomeQuiet
  <1>4. CASE ~refused
    <2>1. /\ log[e] = "running" /\ e \notin paused /\ checkpoint[e].revision = j[2]
          /\ (j[2] # 0 => checkpoint[e].active) /\ j[2] < MaxRevision
      BY <1>2, <1>4 DEF Fits
    <2>2. /\ checkpoint' = [checkpoint EXCEPT ![e] =
                     [NoCheckpoint EXCEPT !.revision = checkpoint[e].revision + 1,
                                          !.points = f.points]]
          /\ paused' = paused \cup {e}
          /\ Become(j, Instead(f, <<"reconcile", "settle">>))
      BY <1>4, <2>1 DEF Save
    <2>3. PICK g : g = Instead(f, <<"reconcile", "settle">>)
      OBVIOUS
    <2>4. HomeNext(j, f, g) /\ \A labels : Doing(g, labels) <=> "reconcile" \in labels
      BY <1>2, <2>3, HomeInsteadNext, HomeProgramHeads
    <2>5. Become(j, g)
      BY <2>2, <2>3
    <2>6. UNCHANGED Fresh
      BY <1>2, <2>4, <2>5, HomeFresh
    <2>7. World' /\ Lasts /\ Leaves({j}) /\ RowMoves(f) /\ Past(j)'
      BY <1>1, <1>2, <2>1, <2>2, <2>6, SaveEffect DEF IInv
    <2>8. Fits(j, g)'
      BY <2>4 DEF Fits
    <2>9. QED
      BY <1>1, <1>2, <2>4, <2>5, <2>7, <2>8, HomeMoves
  <1>5. QED
    BY <1>3, <1>4

LEMMA HomeEnds ==
    ASSUME IInv, NEW j \in Job, Doing(proc[j], Early), ~At(j, "unstarted"),
           NEW o \in Ended, EndLog(j[1], o), UNCHANGED queue,
           NEW g, HomeNext(j, proc[j], g), ~Doing(g, Early), Become(j, g)
    PROVE  IInv'
  <1>1. /\ Shaped(j, proc[j]) /\ proc[j].prog # <<>> /\ proc[j].family = None /\ j[1] \in Exec
    BY HomeFacts
  <1>2. UNCHANGED Fresh
    BY <1>1, HomeFresh
  <1>3. World' /\ Lasts /\ Leaves({j}) /\ RowMoves(proc[j]) /\ Past(j)'
    BY <1>1, <1>2, EndLogEffect DEF IInv, queue
  <1>4. Fits(j, g)'
    BY DEF Fits, Doing, Early
  <1>5. QED
    BY <1>1, <1>3, <1>4, HomeMoves DEF queue

\* A job that has ended its log tells a parent that waits, and settles its row.
LEMMA HomeTells ==
    ASSUME NEW j \in Job, NEW f \in Frame, Shaped(j, f), f.prog # <<>>, f.family = None
    PROVE  HomeNext(j, f, Tell(f, <<"settle">>)) /\ ~Doing(Tell(f, <<"settle">>), Early)
  <1>1. f.exec \in Exec /\ f.exec = j[1] /\ (f.child # None => Parent[f.child] # None)
    BY Jobs DEF Shaped, Shape, JobShape
  <1>2. CASE Parent[f.exec] = None
    <2>1. Tell(f, <<"settle">>) = Instead(f, <<"settle">>)
      BY <1>2 DEF Tell
    <2>2. QED
      BY <2>1, HomeInsteadNext, HomeProgramHeads DEF Early
  <1>3. CASE Parent[f.exec] # None
    <2>1. <<"tell">> \o <<"settle">> = <<"tell", "settle">>
      BY Pairs DEF Labels
    <2>2. PICK g : g = [Instead(f, <<"tell", "settle">>) EXCEPT !.child = f.exec]
      OBVIOUS
    <2>3. g = Tell(f, <<"settle">>)
      BY <1>3, <2>1, <2>2 DEF Tell
    <2>4. g \in Frame /\ g.prog = <<"tell", "settle">> /\ g.child = f.exec /\ AtHome(j, f, g)
      <3>1. PICK h : h = Instead(f, <<"tell", "settle">>)
        OBVIOUS
      <3>2. <<"tell", "settle">> \in Seq(Labels)
        BY HomeProgram, HomeProgramHeads
      <3>3. h \in Frame /\ h.prog = <<"tell", "settle">> /\ AtHome(j, f, h)
        BY <3>1, <3>2, InsteadFrame DEF AtHome
      <3>4. g = [h EXCEPT !.child = f.exec]
        BY <2>2, <3>1
      <3>5. PICK c \in Exec : c = f.exec
        BY <1>1
      <3>6. g \in Frame /\ g.prog = h.prog /\ g.child = c /\ g.exec = h.exec
            /\ g.row = h.row /\ g.todo = h.todo /\ g.family = h.family /\ g.home = h.home
            /\ g.rest = h.rest
        BY <3>3, <3>4, <3>5, ChildFrame
      <3>7. QED
        BY <3>3, <3>5, <3>6 DEF AtHome
    <2>5. f.exec # None
      BY <1>1, Jobs
    <2>6. HomeNext(j, f, g) /\ \A labels : Doing(g, labels) <=> "tell" \in labels
      BY <1>3, <2>4, <2>5, HomeInstead, HomeProgramHeads
    <2>7. QED
      BY <2>3, <2>6 DEF Early
  <1>4. QED
    BY <1>2, <1>3

LEMMA SucceedKeeps ==
    ASSUME IInv, NEW j \in Job, Succeed(j)
    PROVE  IInv'
  <1>1. /\ At(j, "run") /\ EndLog(j[1], "success") /\ UNCHANGED queue
        /\ Become(j, Tell(proc[j], <<"settle">>))
    BY DEF Succeed
  <1>2. Doing(proc[j], Early) /\ ~At(j, "unstarted") /\ "success" \in Ended
    BY <1>1, EarlyHeads DEF Early, Ended
  <1>3. proc[j] \in Frame /\ Shaped(j, proc[j]) /\ proc[j].prog # <<>> /\ proc[j].family = None
    BY <1>2, HomeFacts
  <1>4. PICK g : g = Tell(proc[j], <<"settle">>)
    OBVIOUS
  <1>5. HomeNext(j, proc[j], g) /\ ~Doing(g, Early) /\ Become(j, g)
    BY <1>1, <1>3, <1>4, HomeTells
  <1>6. QED
    BY <1>1, <1>2, <1>5, HomeEnds

LEMMA FailKeeps ==
    ASSUME IInv, NEW j \in Job, Fail(j)
    PROVE  IInv'
  <1>1. /\ At(j, "run") \/ At(j, "fail")
        /\ EndLog(j[1], "error") /\ UNCHANGED queue
        /\ \/ Become(j, Instead(proc[j], <<"descendants", "settle">>))
           \/ Become(j, Tell(proc[j], <<"settle">>))
    BY DEF Fail
  <1>2. Doing(proc[j], Early) /\ ~At(j, "unstarted") /\ "error" \in Ended
    BY <1>1, EarlyHeads DEF Early, Ended
  <1>3. proc[j] \in Frame /\ Shaped(j, proc[j]) /\ proc[j].prog # <<>> /\ proc[j].family = None
    BY <1>2, HomeFacts
  <1>4. CASE Become(j, Tell(proc[j], <<"settle">>))
    <2>1. PICK g : g = Tell(proc[j], <<"settle">>)
      OBVIOUS
    <2>2. HomeNext(j, proc[j], g) /\ ~Doing(g, Early) /\ Become(j, g)
      BY <1>3, <1>4, <2>1, HomeTells
    <2>3. QED
      BY <1>1, <1>2, <2>2, HomeEnds
  <1>5. CASE Become(j, Instead(proc[j], <<"descendants", "settle">>))
    <2>1. PICK g : g = Instead(proc[j], <<"descendants", "settle">>)
      OBVIOUS
    <2>2. HomeNext(j, proc[j], g) /\ ~Doing(g, Early) /\ Become(j, g)
      BY <1>3, <1>5, <2>1, HomeInsteadNext, HomeProgramHeads DEF Early
    <2>3. QED
      BY <1>1, <1>2, <2>2, HomeEnds
  <1>6. QED
    BY <1>1, <1>4, <1>5

\* A process that has nothing left to do.
LEMMA Stops ==
    ASSUME NEW p \in Proc, NEW f, Shaped(p, f), f.family = None,
           NEW g \in Frame, g.prog = <<>>, g.family = None, g.rest = f.rest,
           g.child = f.child, g.todo = f.todo
    PROVE  /\ Shaped(p, g) /\ \A labels : ~Doing(g, labels)
           /\ \A j : ~Claims(g, j) /\ ~Holds(g, j)
           /\ \A gone, fresh, status : (p \in Job => p \in gone \/ g.mode = "cancelled")
                                          => Sound(p, g, gone, fresh, status)
  <1>1. (\A labels : ~Doing(g, labels)) /\ Todo(g.prog) = {} /\ "settle" \notin Todo(g.rest)
    BY Short DEF Doing, Shaped, Shape
  <1>2. Shaped(p, g)
    BY <1>1, FrameFields DEF Shaped, Shape, JobShape
  <1>3. QED
    BY <1>1, <1>2 DEF Claims, Holds, Sound

LEMMA FinalizeKeeps ==
    ASSUME IInv, NEW j \in Job, Finalize(j)
    PROVE  IInv'
  <1> DEFINE f == proc[j]
  <1>1. /\ At(j, "final") /\ UNCHANGED <<store, rows, cancelRequested>>
        /\ \/ rows[j] # "processing" /\ Become(j, Instead(f, <<>>))
           \/ rows[j] = "processing" /\ Recovers(j) /\ Become(j, Instead(f, <<"reconcile", "settle">>))
           \/ Become(j, Instead(f, <<"terminalize", "descendants", "settle">>))
    BY DEF Finalize, queue
  <1>2. /\ Doing(f, Early) /\ ~At(j, "unstarted") /\ j \notin Fresh
        /\ f.prog # <<>> /\ f \in Frame /\ Shaped(j, f) /\ f.family = None /\ RowOK(j)
    BY <1>1, EarlyHeads, HomeFacts DEF Early, Fresh
  <1>3. CASE rows[j] # "processing" /\ Become(j, Instead(f, <<>>))
    <2>1. PICK g : g = Instead(f, <<>>)
      OBVIOUS
    <2>2. /\ g \in Frame /\ g.prog = <<>> /\ g.family = None /\ g.rest = f.rest
          /\ g.child = f.child /\ g.todo = f.todo
      BY <1>2, <2>1, Listed, InsteadFrame
    <2>3. j \in Gone /\ j \in Proc
      BY <1>2, <1>3, Jobs DEF RowOK, Gone
    <2>4. /\ Shaped(j, g) /\ (\A labels : ~Doing(g, labels))
          /\ (\A i : ~Claims(g, i) /\ ~Holds(g, i))
          /\ Sound(j, g, Gone, Fresh, rows)
      BY <1>2, <2>2, <2>3, Stops
    <2>5. Become(j, g) /\ Fits(j, g) /\ Marked' /\ ~Doing(f, {"unstarted"})
      BY <1>1, <1>2, <1>3, <2>1, <2>4 DEF Fits, IInv, Marked, At, Doing
    <2>6. QED
      BY <1>1, <2>3, <2>4, <2>5, QuietMoves
  <1>4. CASE rows[j] = "processing" /\ Recovers(j) /\ Become(j, Instead(f, <<"reconcile", "settle">>))
    <2>1. PICK g : g = Instead(f, <<"reconcile", "settle">>)
      OBVIOUS
    <2>2. HomeNext(j, f, g) /\ \A labels : Doing(g, labels) <=> "reconcile" \in labels
      BY <1>2, <2>1, HomeInsteadNext, HomeProgramHeads
    <2>3. Become(j, g) /\ Fits(j, g) /\ Past(j)
      BY <1>4, <2>1, <2>2 DEF Fits, Recovers, Past
    <2>4. QED
      BY <1>1, <1>2, <2>2, <2>3, HomeQuiet
  <1>5. CASE Become(j, Instead(f, <<"terminalize", "descendants", "settle">>))
    <2>1. PICK g : g = Instead(f, <<"terminalize", "descendants", "settle">>)
      OBVIOUS
    <2>2. HomeNext(j, f, g) /\ \A labels : Doing(g, labels) <=> "terminalize" \in labels
      BY <1>2, <2>1, HomeInsteadNext, HomeProgramHeads
    <2>3. Become(j, g) /\ Fits(j, g) /\ Doing(g, {"terminalize"})
      BY <1>5, <2>1, <2>2 DEF Fits
    <2>4. QED
      BY <1>1, <1>2, <2>2, <2>3, HomeQuiet
  <1>6. QED
    BY <1>1, <1>3, <1>4, <1>5

-----------------------------------------------------------------------------
(* The steps that any process takes.                                        *)

LEMMA ServeFacts ==
    ASSUME IInv, NEW p \in Proc, proc[p].prog # <<>>
    PROVE  LET f == proc[p] IN
           /\ f \in Frame /\ Shaped(p, f) /\ Shape(p, f) /\ (p \in Job => JobShape(p, f))
           /\ Sound(p, f, Gone, Fresh, rows) /\ f.exec \in Exec /\ Waited(f.todo)
           /\ f.child # None => Parent[f.child] # None
           /\ f.prog \in Seq(Labels) /\ Tail(f.prog) \in Seq(Labels)
           /\ Todo(f.prog) = {Head(f.prog)} \cup Todo(Tail(f.prog))
  BY Rests, FrameFields DEF IInv, Framed, Shaped, Shape

LEMMA OnwardFresh ==
    ASSUME IInv, NEW p \in Proc, proc[p].prog # <<>>, ~Doing(proc[p], {"unstarted"}),
           NEW g, Onward(proc[p], g), Become(p, g)
    PROVE  UNCHANGED Fresh /\ FreshMoves /\ Shaped(p, g)
  <1>1. Shaped(p, g) /\ ~Doing(g, {"unstarted"})
    BY ServeFacts, GoesOn DEF After
  <1>2. UNCHANGED Fresh
    BY <1>1, FreshKept DEF IInv
  <1>3. QED
    BY <1>1, <1>2 DEF FreshMoves

LEMMA OnwardMoves ==
    ASSUME IInv, NEW p \in Proc, proc[p].prog # <<>>, ~Doing(proc[p], {"unstarted"}),
           ~Doing(proc[p], {"cancelTerminalize"}),
           NEW g, Onward(proc[p], g), Become(p, g),
           World', Marked', Lasts, Leaves({p}), RowMoves(proc[p]),
           Doing(proc[p], Later) \/ OverBy(p, proc[p], Gone')
    PROVE  IInv'
  <1>1. UNCHANGED Fresh /\ FreshMoves
    BY OnwardFresh
  <1>2. Shaped(p, proc[p]) /\ Sound(p, proc[p], Gone, Fresh, rows)
    BY ServeFacts
  <1>3. \A j \in Job : ~Claims(proc[p], j)
    BY DEF Claims
  <1>4. Sound(p, proc[p], Gone', Fresh', rows')
    BY <1>1, <1>2, <1>3, Bystander DEF IInv
  <1>5. OverBy(p, proc[p], Gone')
    BY <1>4, LaterOver
  <1>6. /\ Shaped(p, g) /\ Sound(p, g, Gone', Fresh', rows')
        /\ ~Doing(g, {"unstarted", "begin"}) /\ ~Doing(g, {"unstarted", "claim"})
        /\ ~Doing(g, {"run", "save"})
        /\ \A j : ~Claims(g, j) /\ (Holds(g, j) => Holds(proc[p], j))
    BY <1>2, <1>4, <1>5, GoesOn DEF After
  <1>7. Fits(p, g)'
    BY <1>6 DEF Fits
  <1>8. QED
    BY <1>1, <1>6, <1>7, Moves

LEMMA OnwardQuiet ==
    ASSUME IInv, NEW p \in Proc, Doing(proc[p], Later), NEW g, Onward(proc[p], g), Become(p, g),
           UNCHANGED <<store, queue>>
    PROVE  IInv'
  <1>1. /\ proc[p].prog # <<>> /\ ~Doing(proc[p], {"unstarted"})
        /\ ~Doing(proc[p], {"cancelTerminalize"})
    BY DEF Doing, Later
  <1>2. UNCHANGED Fresh
    BY <1>1, OnwardFresh
  <1>3. World' /\ Lasts /\ Leaves({p}) /\ RowMoves(proc[p])
    BY <1>2, Quiet DEF IInv, queue
  <1>4. Marked'
    BY DEF IInv, Marked, queue
  <1>5. QED
    BY <1>1, <1>3, <1>4, OnwardMoves

\* A step at a label of Later.
LEMMA LaterHeads ==
    ASSUME IInv, NEW p \in Proc, NEW l \in Later, At(p, l)
    PROVE  /\ Doing(proc[p], Later) /\ Doing(proc[p], {l}) /\ proc[p].prog # <<>>
           /\ ~Doing(proc[p], {"unstarted"}) /\ ~Doing(proc[p], {"cancelTerminalize"})
           /\ l \in Todo(proc[p].prog)
  <1>1. /\ Doing(proc[p], Later) /\ Doing(proc[p], {l}) /\ proc[p].prog # <<>>
        /\ ~Doing(proc[p], {"unstarted"}) /\ ~Doing(proc[p], {"cancelTerminalize"})
        /\ Head(proc[p].prog) = l
    BY DEF At, Doing, Later
  <1>2. QED
    BY <1>1, ServeFacts

\* The end of a step of a program, and of telling a parent.
LEMMA ThenNext ==
    ASSUME NEW p, NEW f \in Frame, Shape(p, f), f.prog # <<>>
    PROVE  /\ Onward(f, Then(f, <<>>)) /\ Onward(f, Told(f))
           /\ Then(f, <<>>) = Instead(f, Tail(f.prog))
  <1>1. PICK t : t = Tail(f.prog)
    OBVIOUS
  <1>2. t \in Seq(Labels) /\ <<>> \o t = t /\ (f.child # None => Parent[f.child] # None)
        /\ Waited(f.todo) /\ None \in Exec \cup {None} /\ 0 \in Segment
    BY <1>1, Rests, FrameFields, ConcatEmptySeq, Jobs DEF Shape
  <1>3. PICK g : g = Instead(f, t)
    OBVIOUS
  <1>4. /\ g \in Frame /\ g.prog = t /\ SameBut(f, g) /\ g.child = f.child /\ g.todo = f.todo
    BY <1>2, <1>3, InsteadFrame DEF SameBut
  <1>5. Then(f, <<>>) = g
    BY <1>1, <1>2, <1>3, ThenFrame
  <1>6. Onward(f, g)
    BY <1>1, <1>2, <1>4, OnwardProgram
  <1>7. PICK h : h = [g EXCEPT !.child = None, !.seen = 0]
    OBVIOUS
  <1>8. /\ h \in Frame /\ h.prog = t /\ SameBut(f, h) /\ h.child = None /\ h.todo = f.todo
    BY <1>2, <1>4, <1>7 DEF Frame, SameBut
  <1>9. Onward(f, h)
    BY <1>1, <1>2, <1>8, OnwardProgram
  <1>10. QED
    BY <1>1, <1>3, <1>5, <1>6, <1>7, <1>9 DEF Told

LEMMA ReadParentKeeps ==
    ASSUME IInv, NEW p \in Proc, ReadParent(p)
    PROVE  IInv'
  <1> DEFINE f == proc[p]
             e == Parent[f.child]
  <1>1. /\ At(p, "tell") /\ UNCHANGED <<store, queue>>
        /\ \/ Become(p, [Then(f, <<"submit">>) EXCEPT !.seen = checkpoint[e].revision])
           \/ Become(p, Told(f))
    BY DEF ReadParent
  <1>2. /\ Doing(f, Later) /\ Doing(f, {"tell", "submit"}) /\ f.prog # <<>>
    BY <1>1, LaterHeads DEF Later, Doing
  <1>3. f \in Frame /\ Shape(p, f) /\ Tail(f.prog) \in Seq(Labels) /\ Waited(f.todo)
        /\ f.child # None /\ Parent[f.child] # None
    BY <1>2, ServeFacts DEF Shape
  <1>4. CASE Become(p, Told(f))
    BY <1>1, <1>2, <1>3, <1>4, ThenNext, OnwardQuiet
  <1>5. CASE Become(p, [Then(f, <<"submit">>) EXCEPT !.seen = checkpoint[e].revision])
    <2>1. checkpoint[e].revision \in Segment
      <3>1. e \in Exec
        BY <1>3, Jobs, FrameFields
      <3>2. QED
        BY <3>1, LogTypes DEF IInv, World
    <2>2. PICK s : s = <<"submit">> \o Tail(f.prog)
      OBVIOUS
    <2>3. s \in Seq(Labels)
      BY <1>3, <2>2, Preceded DEF Labels
    <2>4. PICK g : g = [Instead(f, s) EXCEPT !.seen = checkpoint[e].revision]
      OBVIOUS
    <2>5. /\ g \in Frame /\ g.prog = s /\ SameBut(f, g) /\ g.child = f.child /\ g.todo = f.todo
      <3>1. PICK h : h = Instead(f, s)
        OBVIOUS
      <3>2. /\ h \in Frame /\ h.prog = s /\ SameBut(f, h) /\ h.child = f.child /\ h.todo = f.todo
        BY <1>3, <2>3, <3>1, InsteadFrame DEF SameBut
      <3>3. g = [h EXCEPT !.seen = checkpoint[e].revision]
        BY <2>4, <3>1
      <3>4. QED
        BY <2>1, <3>2, <3>3 DEF Frame, SameBut
    <2>6. Onward(f, g)
      BY <1>2, <1>3, <2>2, <2>5, OnwardProgram
    <2>7. Become(p, g)
      BY <1>3, <1>5, <2>2, <2>3, <2>4, ThenFrame
    <2>8. QED
      BY <1>1, <1>2, <2>6, <2>7, OnwardQuiet
  <1>6. QED
    BY <1>1, <1>4, <1>5

LEMMA SubmitChildKeeps ==
    ASSUME IInv, NEW p \in Proc, SubmitChild(p)
    PROVE  IInv'
  <1> DEFINE f == proc[p]
             e == Parent[f.child]
  <1>1. /\ At(p, "submit") /\ SubmitPoint(e, f.seen, f.child) /\ Become(p, Told(f))
        /\ UNCHANGED <<log, paused, cancelRequested>>
    BY DEF SubmitChild
  <1>2. /\ Doing(f, Later) /\ Doing(f, {"tell", "submit"}) /\ f.prog # <<>>
        /\ ~Doing(f, {"unstarted"}) /\ ~Doing(f, {"cancelTerminalize"})
    BY <1>1, LaterHeads DEF Later, Doing
  <1>3. f \in Frame /\ Shape(p, f) /\ f.child # None /\ Parent[f.child] # None
    BY <1>2, ServeFacts DEF Shape
  <1>4. PICK g : g = Told(f)
    OBVIOUS
  <1>5. Onward(f, g) /\ Become(p, g)
    BY <1>1, <1>2, <1>3, <1>4, ThenNext
  <1>6. UNCHANGED Fresh
    BY <1>2, <1>5, OnwardFresh
  <1>7. e \in Exec
    BY <1>3, Jobs, FrameFields
  <1>8. World' /\ Lasts /\ Leaves({p}) /\ RowMoves(f)
    BY <1>1, <1>6, <1>7, SubmitEffect DEF IInv
  <1>9. Marked'
    <2>1. ResumeJob(e) \in Job
      BY <1>7, LogTypes DEF IInv, World
    <2>2. UNCHANGED rows \/ SetRow(ResumeJob(e), "pending")
      BY <1>1 DEF SubmitPoint
    <2>3. \A j \in Job : rows[j] # "absent" => rows'[j] # "absent"
      BY <2>1, <2>2 DEF SetRow, IInv, World, StoreType
    <2>4. QED
      BY <1>1, <2>3 DEF IInv, Marked
  <1>10. QED
    BY <1>2, <1>5, <1>8, <1>9, OnwardMoves

\* The children that are still to be told of.
LEMMA RepairNext ==
    ASSUME NEW p, NEW f \in Frame, Shape(p, f), f.prog # <<>>, NEW todo \in SUBSET Exec,
           Waited(todo)
    PROVE  /\ Onward(f, Repairing(f, todo))
           /\ \A c \in Exec : Parent[c] # None =>
                 Onward(f, [Repairing(f, todo) EXCEPT !.prog = <<"tell">> \o @, !.child = c])
  <1>1. /\ Tail(f.prog) \in Seq(Labels) /\ (f.child # None => Parent[f.child] # None)
        /\ <<>> \o Tail(f.prog) = Tail(f.prog)
    BY Rests, FrameFields, ConcatEmptySeq DEF Shape
  <1>2. PICK t : t = (IF todo = {} THEN <<>> ELSE <<"repair">>) \o Tail(f.prog)
    OBVIOUS
  <1>3. t \in Seq(Labels) /\ Todo(t) \subseteq Todo(Tail(f.prog)) \cup {"repair"}
    <2>1. "repair" \in Labels
      BY DEF Labels
    <2>2. CASE todo = {}
      BY <1>1, <1>2, <2>2
    <2>3. CASE todo # {}
      <3>1. t = <<"repair">> \o Tail(f.prog)
        BY <1>2, <2>3
      <3>2. QED
        BY <1>1, <2>1, <3>1, Preceded
    <2>4. QED
      BY <2>2, <2>3
  <1>4. PICK g : g = Repairing(f, todo)
    OBVIOUS
  <1>5. g \in Frame /\ g.prog = t /\ SameBut(f, g) /\ g.child = f.child /\ g.todo = todo
    <2>1. PICK h : h = Instead(f, t)
      OBVIOUS
    <2>2. h \in Frame /\ h.prog = t /\ SameBut(f, h) /\ h.child = f.child
      BY <1>3, <2>1, InsteadFrame DEF SameBut
    <2>3. Then(f, IF todo = {} THEN <<>> ELSE <<"repair">>) = h
      BY <1>2, <1>3, <2>1, ThenFrame
    <2>4. g = [h EXCEPT !.todo = todo]
      BY <1>4, <2>3 DEF Repairing
    <2>5. QED
      BY <2>2, <2>4 DEF Frame, SameBut
  <1>6. Onward(f, g)
    BY <1>1, <1>3, <1>5, OnwardProgram
  <1>7. ASSUME NEW c \in Exec, Parent[c] # None
        PROVE  Onward(f, [g EXCEPT !.prog = <<"tell">> \o @, !.child = c])
    <2>1. PICK s : s = <<"tell">> \o t
      OBVIOUS
    <2>2. s \in Seq(Labels) /\ c # None
      <3>1. "tell" \in Labels
        BY DEF Labels
      <3>2. QED
        BY <1>3, <2>1, <3>1, Preceded, Jobs
    <2>3. PICK h : h = [g EXCEPT !.prog = <<"tell">> \o @, !.child = c]
      OBVIOUS
    <2>4. h = [g EXCEPT !.prog = s, !.child = c]
      BY <1>5, <2>1, <2>3 DEF Frame
    <2>5. h \in Frame /\ h.prog = s /\ SameBut(f, h) /\ h.child = c /\ h.todo = todo
      BY <1>5, <2>2, <2>4 DEF Frame, SameBut
    <2>6. Onward(f, h)
      BY <1>3, <1>7, <2>1, <2>2, <2>5, OnwardProgram
    <2>7. QED
      BY <2>3, <2>6
  <1>8. QED
    BY <1>4, <1>6, <1>7

LEMMA ReconcileKeeps ==
    ASSUME IInv, NEW p \in Proc, ReconcileChildren(p)
    PROVE  IInv'
  <1> DEFINE f == proc[p]
             ended == {c \in checkpoint[f.exec].points \cap Exec : log[c] \in Ended}
  <1>1. /\ At(p, "reconcile") /\ UNCHANGED <<store, queue>>
        /\ Become(p, Repairing(f, ended)) \/ Become(p, Then(f, <<>>))
    BY DEF ReconcileChildren
  <1>2. Doing(f, Later) /\ f.prog # <<>>
    BY <1>1, LaterHeads DEF Later
  <1>3. f \in Frame /\ Shape(p, f) /\ f.exec \in Exec
    BY <1>2, ServeFacts
  <1>4. ended \in SUBSET Exec /\ Waited(ended)
    BY <1>3 DEF IInv, World, LogOK, Waited
  <1> HIDE DEF ended
  <1>5. Onward(f, Repairing(f, ended)) /\ Onward(f, Then(f, <<>>))
    BY <1>2, <1>3, <1>4, RepairNext, ThenNext
  <1>6. QED
    BY <1>1, <1>2, <1>5, OnwardQuiet

LEMMA RepairKeeps ==
    ASSUME IInv, NEW p \in Proc, RepairChild(p)
    PROVE  IInv'
  <1> DEFINE f == proc[p]
  <1>1. At(p, "repair") /\ UNCHANGED <<store, queue>>
    BY DEF RepairChild
  <1>2. PICK c \in f.todo :
            Become(p, [Repairing(f, f.todo \ {c}) EXCEPT !.prog = <<"tell">> \o @, !.child = c])
    BY DEF RepairChild
  <1>3. Doing(f, Later) /\ f.prog # <<>>
    BY <1>1, LaterHeads DEF Later
  <1>4. f \in Frame /\ Shape(p, f) /\ Waited(f.todo) /\ f.todo \subseteq Exec
    BY <1>3, ServeFacts, FrameFields
  <1>5. Waited(f.todo \ {c}) /\ f.todo \ {c} \in SUBSET Exec /\ c \in Exec /\ Parent[c] # None
    BY <1>4 DEF Waited
  <1>6. Onward(f, [Repairing(f, f.todo \ {c}) EXCEPT !.prog = <<"tell">> \o @, !.child = c])
    BY <1>3, <1>4, <1>5, RepairNext
  <1>7. QED
    BY <1>1, <1>2, <1>3, <1>6, OnwardQuiet

LEMMA SettleKeeps ==
    ASSUME IInv, NEW p \in Proc, SettleRow(p)
    PROVE  IInv'
  <1> DEFINE f == proc[p]
  <1>1. /\ At(p, "settle") /\ SetRow(f.row, "absent") /\ UNCHANGED store
        /\ cancelRequested' = cancelRequested \ {f.row}
        /\ Become(p, Then(f, <<>>))
    BY DEF SettleRow
  <1>2. /\ Doing(f, Later) /\ Doing(f, {"settle"}) /\ f.prog # <<>> /\ "settle" \in Todo(f.prog)
        /\ ~Doing(f, {"unstarted"}) /\ ~Doing(f, {"cancelTerminalize"})
    BY <1>1, LaterHeads DEF Later
  <1>3. /\ f \in Frame /\ Shape(p, f) /\ f.row \in Job /\ Sound(p, f, Gone, Fresh, rows)
    BY <1>2, ServeFacts DEF Shape, OwnRow
  <1>4. PICK g : g = Then(f, <<>>)
    OBVIOUS
  <1>5. Onward(f, g) /\ Become(p, g)
    BY <1>1, <1>2, <1>3, <1>4, ThenNext
  <1>6. UNCHANGED Fresh
    BY <1>2, <1>5, OnwardFresh
  <1>7. Past(f.row)
    <2>1. ~Doing(f, {"terminalize"})
      BY <1>2 DEF Doing
    <2>2. QED
      BY <1>2, <1>3, <2>1 DEF Sound, Gone
  <1>8. Holds(f, f.row)
    BY <1>2 DEF Holds
  <1>9. World' /\ Lasts /\ Leaves({p}) /\ RowMoves(f)
    BY <1>1, <1>3, <1>6, <1>7, <1>8, SettleEffect DEF IInv
  <1>10. Marked'
    BY <1>1 DEF IInv, Marked, SetRow, World, StoreType
  <1>11. QED
    BY <1>2, <1>5, <1>9, <1>10, OnwardMoves

\* The end of a log that a parent may wait for.
LEMMA TellNext ==
    ASSUME NEW p, NEW f \in Frame, Shape(p, f), f.prog # <<>>
    PROVE  Onward(f, Tell(f, Tail(f.prog)))
  <1>1. PICK t : t = Tail(f.prog)
    OBVIOUS
  <1>2. /\ t \in Seq(Labels) /\ (f.child # None => Parent[f.child] # None)
        /\ Waited(f.todo) /\ f.exec \in Exec /\ f.exec # None
    BY <1>1, Rests, FrameFields, Jobs DEF Shape
  <1>3. CASE Parent[f.exec] = None
    <2>1. PICK g : g = Instead(f, t)
      OBVIOUS
    <2>2. g \in Frame /\ g.prog = t /\ SameBut(f, g) /\ g.child = f.child /\ g.todo = f.todo
      BY <1>2, <2>1, InsteadFrame DEF SameBut
    <2>3. Onward(f, g)
      BY <1>1, <1>2, <2>2, OnwardProgram
    <2>4. QED
      BY <1>1, <1>3, <2>1, <2>3 DEF Tell
  <1>4. CASE Parent[f.exec] # None
    <2>1. PICK s : s = <<"tell">> \o t
      OBVIOUS
    <2>2. s \in Seq(Labels)
      <3>1. "tell" \in Labels
        BY DEF Labels
      <3>2. QED
        BY <1>2, <2>1, <3>1, Preceded
    <2>3. PICK g : g = [Instead(f, s) EXCEPT !.child = f.exec]
      OBVIOUS
    <2>4. g \in Frame /\ g.prog = s /\ SameBut(f, g) /\ g.child = f.exec /\ g.todo = f.todo
      <3>1. PICK h : h = Instead(f, s)
        OBVIOUS
      <3>2. h \in Frame /\ h.prog = s /\ SameBut(f, h) /\ h.todo = f.todo
        BY <2>2, <3>1, InsteadFrame DEF SameBut
      <3>3. g = [h EXCEPT !.child = f.exec]
        BY <2>3, <3>1
      <3>4. QED
        BY <1>2, <3>2, <3>3 DEF Frame, SameBut
    <2>5. Onward(f, g)
      BY <1>1, <1>2, <1>4, <2>1, <2>4, OnwardProgram
    <2>6. g = Tell(f, t)
      BY <1>4, <2>1, <2>3 DEF Tell
    <2>7. QED
      BY <1>1, <2>5, <2>6
  <1>5. QED
    BY <1>3, <1>4

LEMMA TerminalizeKeeps ==
    ASSUME IInv, NEW p \in Proc, Terminalize(p)
    PROVE  IInv'
  <1> DEFINE f == proc[p]
  <1>1. /\ At(p, "terminalize") /\ EndLog(f.exec, "error") /\ UNCHANGED <<rows, cancelRequested>>
        /\ Become(p, Tell(f, Tail(f.prog)))
    BY DEF Terminalize, queue
  <1>2. /\ f.prog # <<>> /\ Doing(f, {"terminalize"}) /\ ~Doing(f, Early)
        /\ ~Doing(f, {"unstarted"}) /\ ~Doing(f, {"cancelTerminalize"}) /\ "error" \in Ended
    BY <1>1 DEF At, Doing, Early, Ended
  <1>3. /\ f \in Frame /\ Shape(p, f) /\ f.exec \in Exec /\ (p \in Job => JobShape(p, f))
        /\ Sound(p, f, Gone, Fresh, rows)
    BY <1>2, ServeFacts
  <1>4. PICK g : g = Tell(f, Tail(f.prog))
    OBVIOUS
  <1>5. Onward(f, g) /\ Become(p, g)
    BY <1>1, <1>2, <1>3, <1>4, TellNext
  <1>6. UNCHANGED Fresh
    BY <1>2, <1>5, OnwardFresh
  <1>7. /\ World' /\ Lasts /\ Leaves({p}) /\ RowMoves(f)
        /\ \A j \in Job : j[1] = f.exec => Past(j)'
    BY <1>1, <1>2, <1>3, <1>6, EndLogEffect DEF IInv
  <1>8. OverBy(p, f, Gone')
    <2>1. p \in Job => p \in Gone' \/ f.mode = "cancelled"
      <3>1. SUFFICES ASSUME p \in Job, f.mode # "cancelled" PROVE Past(p)'
        BY DEF Gone
      <3>2. CASE p \in Gone
        BY <1>7, <3>1, <3>2 DEF Gone, Lasts
      <3>3. CASE f.family = None
        <4>1. f.exec = p[1]
          BY <1>2, <1>3, <3>1, <3>3 DEF JobShape
        <4>2. QED
          BY <1>7, <3>1, <4>1
      <3>4. QED
        BY <1>2, <1>3, <3>1, <3>2, <3>3 DEF Sound
    <2>2. "settle" \in Todo(f.prog) => f.row \in Gone'
      BY <1>3, <1>7 DEF Shape, OwnRow, Gone
    <2>3. QED
      BY <2>1, <2>2 DEF OverBy
  <1>9. Marked'
    BY <1>1 DEF IInv, Marked
  <1>10. QED
    BY <1>2, <1>5, <1>7, <1>8, <1>9, OnwardMoves

-----------------------------------------------------------------------------
(* The cancellation of the children of an execution.                        *)

\* A step of a cancellation that changes neither the log nor the queue, except
\* for the requests it marks.
LEMMA CancelQuiet ==
    ASSUME IInv, NEW p \in Proc, ~Doing(proc[p], {"unstarted"}),
           NEW g, Shaped(p, g), Become(p, g), UNCHANGED <<store, rows>>, Marked',
           ~Doing(g, Early), ~Doing(g, {"cancelTerminalize"}),
           Sound(p, g, Gone, Fresh, rows),
           \A j \in Job : Holds(g, j) => Holds(proc[p], j) \/ j \notin Fresh
    PROVE  IInv'
  <1>1. /\ ~Doing(g, {"unstarted"}) /\ ~Doing(g, {"unstarted", "begin"})
        /\ ~Doing(g, {"unstarted", "claim"}) /\ ~Doing(g, {"run", "save"})
    BY DEF Doing, Early
  <1>2. Fits(p, g) /\ \A j \in Job : ~Claims(g, j)
    BY <1>1 DEF Fits, Claims
  <1>3. QED
    BY <1>1, <1>2, QuietMoves

LEMMA ListKeeps ==
    ASSUME IInv, NEW p \in Proc, ListDescendants(p)
    PROVE  IInv'
  <1> DEFINE f == proc[p]
             todo == {c \in Children(f.exec) : rows[<<c, 0>>] # "absent" \/ log[c] = "running"}
  <1>1. /\ At(p, "descendants") /\ UNCHANGED <<store, queue>>
        /\ \/ Become(p, Then(f, <<>>))
           \/ Become(p, [Instead(f, <<"kids">>) EXCEPT
                            !.family = f.exec, !.home = f.row, !.rest = Tail(f.prog), !.todo = todo])
    BY DEF ListDescendants
  <1>2. Doing(f, Later) /\ Doing(f, {"descendants"}) /\ f.prog # <<>> /\ ~Doing(f, {"unstarted"})
        /\ "descendants" \in Todo(f.prog)
    BY <1>1, LaterHeads DEF Later
  <1>3. /\ f \in Frame /\ Shaped(p, f) /\ Shape(p, f) /\ f.exec \in Exec
        /\ (p \in Job => JobShape(p, f)) /\ Sound(p, f, Gone, Fresh, rows)
        /\ Tail(f.prog) \in Seq(Labels)
        /\ Todo(f.prog) = {Head(f.prog)} \cup Todo(Tail(f.prog))
        /\ f.child # None => Parent[f.child] # None
    BY <1>2, ServeFacts
  <1>4. /\ f.family = None /\ OverBy(p, f, Gone)
        /\ Todo(Tail(f.prog)) \subseteq After \ {"kids", "cancelRun"} /\ f.exec # None
    BY <1>2, <1>3, LaterOver, Jobs DEF Shape
  <1>5. CASE Become(p, Then(f, <<>>))
    BY <1>1, <1>2, <1>3, <1>5, ThenNext, OnwardQuiet
  <1>6. CASE Become(p, [Instead(f, <<"kids">>) EXCEPT
                            !.family = f.exec, !.home = f.row, !.rest = Tail(f.prog), !.todo = todo])
    <2>1. PICK g : g = [Instead(f, <<"kids">>) EXCEPT
                            !.family = f.exec, !.home = f.row, !.rest = Tail(f.prog), !.todo = todo]
      OBVIOUS
    <2>2. todo \subseteq Exec /\ Waited(todo)
      BY <1>4 DEF Children, Waited
    <2> HIDE DEF todo
    <2>3. /\ g \in Frame /\ g.prog = <<"kids">> /\ g.mode = f.mode /\ g.exec = f.exec
          /\ g.row = f.row /\ g.child = f.child /\ g.family = f.exec /\ g.home = f.row
          /\ g.rest = Tail(f.prog) /\ g.todo = todo
      <3>1. PICK h : h = Instead(f, <<"kids">>)
        OBVIOUS
      <3>2. <<"kids">> \in Seq(Labels)
        BY Listed DEF Labels
      <3>3. /\ h \in Frame /\ h.prog = <<"kids">> /\ h.mode = f.mode /\ h.exec = f.exec
            /\ h.row = f.row /\ h.child = f.child
        BY <1>3, <3>1, <3>2, InsteadFrame
      <3>4. g = [h EXCEPT !.family = f.exec, !.home = f.row, !.rest = Tail(f.prog), !.todo = todo]
        BY <2>1, <3>1
      <3>5. f.row \in Job \cup {None}
        BY <1>3, FrameFields
      <3>6. QED
        BY <1>3, <2>2, <3>3, <3>4, <3>5 DEF Frame
    <2>4. /\ Todo(g.prog) = {"kids"} /\ g.prog # <<>> /\ Head(g.prog) = "kids"
          /\ Tail(g.prog) = <<>> /\ Todo(<<>>) = {}
      BY <2>3, Short
    <2>5. /\ ~Doing(g, Early) /\ ~Doing(g, Cancels) /\ ~Doing(g, {"tell", "submit"})
          /\ \A l \in Early \cup {"terminalize", "cancelTerminalize"} : ~Doing(g, {l})
      BY <2>4 DEF Doing, Early, Cancels
    <2>6. "settle" \in Todo(g.rest) => "settle" \in Todo(f.prog)
      BY <1>3, <2>3
    <2>7. Shape(p, g)
      BY <1>3, <1>4, <2>2, <2>3, <2>4, <2>5, <2>6 DEF Shape, OwnRow
    <2>8. p \in Job => JobShape(p, g)
      BY <1>2, <1>3, <1>4, <2>3, <2>5 DEF JobShape, Early
    <2>9. Shaped(p, g)
      BY <2>3, <2>5, <2>7, <2>8 DEF Shaped
    <2>10. Sound(p, g, Gone, Fresh, rows)
      BY <1>3, <1>4, <2>3, <2>4, <2>5, <2>6 DEF Sound, OverBy
    <2>11. \A j : Holds(g, j) => Holds(f, j)
      BY <2>3, <2>4, <2>5, <2>6 DEF Holds, Claims
    <2>12. Become(p, g)
      BY <1>6, <2>1
    <2>13. Marked'
      BY <1>1 DEF IInv, Marked, queue
    <2>14. QED
      BY <1>1, <1>2, <2>5, <2>9, <2>10, <2>11, <2>12, <2>13, CancelQuiet DEF queue
  <1>7. QED
    BY <1>1, <1>5, <1>6

Mid == {"cancelRead", "cancelMark", "decide", "cancelClaim"}

LEMMA NextKeeps ==
    ASSUME IInv, NEW p \in Proc, NextDescendant(p)
    PROVE  IInv'
  <1> DEFINE f == proc[p]
  <1>1. /\ At(p, "kids") /\ UNCHANGED <<store, queue>>
        /\ \/ \E c \in f.todo :
                Become(p, [Cancelling(f, <<c, 0>>) EXCEPT !.todo = @ \ {c}])
           \/ Become(p, [Instead(f, f.rest) EXCEPT !.exec = f.family, !.row = f.home,
                                                   !.family = None, !.home = None, !.rest = <<>>])
    BY DEF NextDescendant
  <1>2. Doing(f, Later) /\ Doing(f, {"kids"}) /\ f.prog # <<>> /\ ~Doing(f, {"unstarted"})
        /\ "kids" \in Todo(f.prog)
    BY <1>1, LaterHeads DEF Later
  <1>3. /\ f \in Frame /\ Shaped(p, f) /\ Shape(p, f) /\ f.exec \in Exec
        /\ (p \in Job => JobShape(p, f)) /\ Sound(p, f, Gone, Fresh, rows)
        /\ f.child # None => Parent[f.child] # None
    BY <1>2, ServeFacts
  <1>4. /\ f.family # None /\ OverBy(p, f, Gone) /\ f.family \in Exec
        /\ f.todo \subseteq Exec /\ Waited(f.todo) /\ f.rest \in Seq(Labels)
        /\ f.home \in Job \cup {None}
    BY <1>2, <1>3, LaterOver, FrameFields DEF Shape
  <1>5. Marked'
    BY <1>1 DEF IInv, Marked, queue
  <1>6. ASSUME NEW c \in f.todo,
               Become(p, [Cancelling(f, <<c, 0>>) EXCEPT !.todo = @ \ {c}])
        PROVE  IInv'
    <2>1. PICK g : g = [Cancelling(f, <<c, 0>>) EXCEPT !.todo = @ \ {c}]
      OBVIOUS
    <2>2. <<c, 0>> \in Job /\ <<c, 0>>[1] = c /\ c \in Exec
      BY <1>4, Jobs
    <2>3. /\ g \in Frame /\ g.prog = <<"cancelRead">> /\ g.mode = f.mode /\ g.exec = c
          /\ g.row = <<c, 0>> /\ g.child = f.child /\ g.family = f.family /\ g.home = f.home
          /\ g.rest = f.rest /\ g.todo = f.todo \ {c} /\ g.owner = None
      <3>1. PICK h : h = Instead(f, <<"cancelRead">>)
        OBVIOUS
      <3>2. <<"cancelRead">> \in Seq(Labels)
        BY Listed DEF Labels
      <3>3. /\ h \in Frame /\ h.prog = <<"cancelRead">> /\ h.mode = f.mode /\ h.todo = f.todo
            /\ h.child = f.child /\ h.family = f.family /\ h.home = f.home /\ h.rest = f.rest
        BY <1>3, <3>1, <3>2, InsteadFrame
      <3>4. PICK j : j = <<c, 0>>
        OBVIOUS
      <3>5. j \in Job /\ j[1] = c /\ c \in Exec
        BY <2>2, <3>4
      <3>6. Cancelling(f, j) = [h EXCEPT !.exec = j[1], !.row = j, !.owner = None]
        BY <3>1 DEF Cancelling
      <3>7. PICK k : k = [h EXCEPT !.exec = j[1], !.row = j, !.owner = None]
        OBVIOUS
      <3>8. /\ k \in Frame /\ k.prog = <<"cancelRead">> /\ k.mode = f.mode /\ k.exec = c
            /\ k.row = j /\ k.child = f.child /\ k.family = f.family /\ k.home = f.home
            /\ k.rest = f.rest /\ k.todo = f.todo /\ k.owner = None
        BY <3>3, <3>5, <3>7 DEF Frame
      <3>9. g = [k EXCEPT !.todo = @ \ {c}]
        BY <2>1, <3>4, <3>6, <3>7
      <3>10. QED
        BY <3>4, <3>8, <3>9 DEF Frame
    <2>4. /\ Todo(g.prog) = {"cancelRead"} /\ g.prog # <<>> /\ Head(g.prog) = "cancelRead"
          /\ Tail(g.prog) = <<>> /\ Todo(<<>>) = {}
      BY <2>3, Short
    <2>5. /\ ~Doing(g, Early) /\ ~Doing(g, {"tell", "submit"})
          /\ \A l \in Early \cup {"terminalize", "cancelTerminalize"} : ~Doing(g, {l})
      BY <2>4 DEF Doing, Early
    <2>6. Waited(g.todo)
      BY <1>4, <2>3 DEF Waited
    <2>7. Shape(p, g)
      BY <1>3, <2>2, <2>3, <2>4, <2>5, <2>6 DEF Shape, OwnRow
    <2>8. p \in Job => JobShape(p, g)
      BY <1>2, <1>3, <1>4, <2>3, <2>5 DEF JobShape, Early
    <2>9. Shaped(p, g)
      BY <2>3, <2>5, <2>7, <2>8 DEF Shaped
    <2>10. Sound(p, g, Gone, Fresh, rows)
      BY <1>3, <1>4, <2>3, <2>4, <2>5 DEF Sound, OverBy
    <2>11. \A j : Holds(g, j) => Holds(f, j)
      BY <2>3, <2>4, <2>5 DEF Holds, Claims
    <2>12. Become(p, g)
      BY <1>6, <2>1
    <2>13. QED
      BY <1>1, <1>2, <1>5, <2>5, <2>9, <2>10, <2>11, <2>12, CancelQuiet DEF queue
  <1>7. CASE Become(p, [Instead(f, f.rest) EXCEPT !.exec = f.family, !.row = f.home,
                                                   !.family = None, !.home = None, !.rest = <<>>])
    <2>1. PICK g : g = [Instead(f, f.rest) EXCEPT !.exec = f.family, !.row = f.home,
                                                   !.family = None, !.home = None, !.rest = <<>>]
      OBVIOUS
    <2>2. /\ g \in Frame /\ g.prog = f.rest /\ g.mode = f.mode /\ g.exec = f.family
          /\ g.row = f.home /\ g.child = f.child /\ g.family = None /\ g.rest = <<>>
          /\ g.todo = f.todo
      <3>1. PICK h : h = Instead(f, f.rest)
        OBVIOUS
      <3>2. /\ h \in Frame /\ h.prog = f.rest /\ h.mode = f.mode /\ h.todo = f.todo
            /\ h.child = f.child
        BY <1>3, <1>4, <3>1, InsteadFrame
      <3>3. g = [h EXCEPT !.exec = f.family, !.row = f.home,
                          !.family = None, !.home = None, !.rest = <<>>]
        BY <2>1, <3>1
      <3>4. QED
        BY <1>4, <3>2, <3>3, Listed DEF Frame
    <2>3. /\ Todo(g.prog) \subseteq After \ {"kids", "cancelRun"} /\ Todo(g.rest) = {}
          /\ g.prog # <<>> => Todo(g.prog) = {Head(g.prog)} \cup Todo(Tail(g.prog))
      BY <1>3, <1>4, <2>2, Short, Rests DEF Shape
    <2>4. /\ ~Doing(g, Early) /\ ~Doing(g, Cancels) /\ ~Doing(g, {"tell", "submit"})
          /\ \A l \in Early \cup {"terminalize", "cancelTerminalize"} : ~Doing(g, {l})
      <3>1. g.prog # <<>> => Head(g.prog) \in After
        BY <2>3
      <3>2. QED
        BY <3>1 DEF Doing, Early, Cancels, After
    <2>5. "settle" \in Todo(g.prog) => OwnRow(g)
      BY <1>3, <2>2 DEF Shape, OwnRow
    <2>6. Shape(p, g)
      BY <1>3, <1>4, <2>2, <2>3, <2>4, <2>5 DEF Shape
    <2>7. p \in Job => JobShape(p, g)
      BY <1>2, <1>3, <1>4, <2>2, <2>4 DEF JobShape, Early
    <2>8. Shaped(p, g)
      BY <2>2, <2>4, <2>6, <2>7 DEF Shaped
    <2>9. Sound(p, g, Gone, Fresh, rows)
      BY <1>3, <1>4, <2>2, <2>3, <2>4 DEF Sound, OverBy
    <2>10. \A j : Holds(g, j) => Holds(f, j)
      BY <2>2, <2>3, <2>4 DEF Holds, Claims
    <2>11. Become(p, g)
      BY <1>7, <2>1
    <2>12. QED
      BY <1>1, <1>2, <1>5, <2>4, <2>8, <2>9, <2>10, <2>11, CancelQuiet DEF queue
  <1>8. QED
    BY <1>1, <1>6, <1>7

-----------------------------------------------------------------------------
(* The cancellation of one execution.                                       *)

CancelSame(f, g) ==
    /\ g.mode = f.mode /\ g.exec = f.exec /\ g.family = f.family /\ g.home = f.home
    /\ g.rest = f.rest /\ g.child = f.child /\ g.todo = f.todo

\* From one step of a cancellation to the next.
LEMMA CancelNext ==
    ASSUME NEW p \in Proc, NEW f, Shaped(p, f), Doing(f, Cancels), NEW l \in Cancels,
           NEW g \in Frame, CancelSame(f, g), g.prog = <<l>>, OwnRow(g),
           g.owner # None => g.owner[1] = g.exec
    PROVE  /\ Shaped(p, g) /\ ~Doing(g, Early) /\ (l # "cancelTerminalize" => ~Doing(g, {"cancelTerminalize"}))
           /\ \A j : Holds(g, j) => Holds(f, j) \/ (l = "cancelTerminalize" /\ j = g.row)
           /\ \A j : Claims(g, j) => j = g.row
           /\ \A gone, fresh, status :
                 /\ Sound(p, f, gone, fresh, status)
                 /\ l = "cancelTerminalize" => g.row \in fresh /\ status[g.row] = "processing"
                 => Sound(p, g, gone, fresh, status)
  <1>1. /\ Todo(g.prog) = {l} /\ g.prog # <<>> /\ Head(g.prog) = l
        /\ Tail(g.prog) = <<>> /\ Todo(<<>>) = {}
        /\ l \notin {"tell", "submit", "kids", "cancelRun", "descendants", "settle", "terminalize"}
    BY Short DEF Cancels
  <1>2. /\ ~Doing(g, Early) /\ ~Doing(g, {"tell", "submit"}) /\ ~Doing(g, {"terminalize"})
        /\ \A a \in Early : ~Doing(g, {a})
        /\ Doing(g, {"cancelTerminalize"}) => l = "cancelTerminalize"
        /\ ~Doing(f, Early) /\ ~Doing(f, {"terminalize"}) /\ f.prog # <<>>
    BY <1>1 DEF Doing, Early, Cancels
  <1>3. Shape(p, g)
    BY <1>1, <1>2 DEF Shape, Shaped, CancelSame
  <1>4. p \in Job => JobShape(p, g)
    <2>1. SUFFICES ASSUME p \in Job PROVE JobShape(p, g)
      OBVIOUS
    <2>2. f.family # None /\ f.home = p /\ f.family = p[1]
      BY <1>2, <2>1 DEF JobShape, Shaped
    <2>3. QED
      BY <1>2, <2>2 DEF JobShape, CancelSame, Early
  <1>5. Shaped(p, g)
    BY <1>2, <1>3, <1>4 DEF Shaped
  <1>6. \A j : Holds(g, j) => Holds(f, j) \/ (l = "cancelTerminalize" /\ j = g.row)
    BY <1>1, <1>2 DEF Holds, Claims, CancelSame
  <1>7. ASSUME NEW gone, NEW fresh, NEW status, Sound(p, f, gone, fresh, status),
               l = "cancelTerminalize" => g.row \in fresh /\ status[g.row] = "processing"
        PROVE  Sound(p, g, gone, fresh, status)
    BY <1>1, <1>2, <1>7 DEF Sound, CancelSame
  <1>8. QED
    BY <1>2, <1>5, <1>6, <1>7 DEF Claims

\* A cancellation has its answer.
LEMMA AnswerNext ==
    ASSUME NEW p \in Proc, NEW f, Shaped(p, f), Doing(f, Cancels),
           NEW s \in {<<>>, <<"descendants">>, <<"kids">>, <<"cancelRun">>},
           NEW g \in Frame, CancelSame(f, g), g.prog = s \/ g.prog = <<"terminalize">> \o s,
           s \in {<<"kids">>, <<"cancelRun">>} => f.family # None,
           s = <<"descendants">> => f.family = None,
           s = <<"cancelRun">> => OwnRow(g)
    PROVE  /\ Shaped(p, g) /\ ~Doing(g, Early) /\ ~Doing(g, {"cancelTerminalize"})
           /\ \A j : Holds(g, j) => Holds(f, j)
           /\ \A gone, fresh, status :
                 Sound(p, f, gone, fresh, status) => Sound(p, g, gone, fresh, status)
  <1>1. s \in Seq(Labels) /\ "terminalize" \in Labels
    <2>1. {"descendants", "kids", "cancelRun", "terminalize"} \subseteq Labels
      BY DEF Labels
    <2>2. QED
      BY <2>1, Listed
  <1>2. /\ Todo(s) \subseteq {"descendants", "kids", "cancelRun"}
        /\ s # <<>> => Head(s) \in {"descendants", "kids", "cancelRun"} /\ Tail(s) = <<>>
        /\ "kids" \in Todo(s) => s = <<"kids">>
        /\ "cancelRun" \in Todo(s) => s = <<"cancelRun">>
        /\ "descendants" \in Todo(s) => s = <<"descendants">>
        /\ Todo(<<>>) = {}
    BY Short
  <1>3. g.prog = <<"terminalize">> \o s => /\ Todo(g.prog) = {"terminalize"} \cup Todo(s)
                                          /\ g.prog # <<>> /\ Head(g.prog) = "terminalize"
                                          /\ Tail(g.prog) = s
    BY <1>1, Preceded
  <1>4. /\ Todo(g.prog) \subseteq {"terminalize", "descendants", "kids", "cancelRun"}
        /\ g.prog # <<>> => /\ Head(g.prog) \in {"terminalize", "descendants", "kids", "cancelRun"}
                            /\ Todo(Tail(g.prog)) \subseteq {"descendants", "kids", "cancelRun"}
        /\ \A l \in {"descendants", "kids", "cancelRun"} : l \in Todo(g.prog) => l \in Todo(s)
    BY <1>2, <1>3
  <1>5. /\ ~Doing(g, Early) /\ ~Doing(g, Cancels) /\ ~Doing(g, {"tell", "submit"})
        /\ \A a \in Early \cup {"cancelTerminalize"} : ~Doing(g, {a})
        /\ ~Doing(f, Early) /\ ~Doing(f, {"terminalize"}) /\ f.prog # <<>>
    BY <1>4 DEF Doing, Early, Cancels
  <1>6. Shape(p, g)
    BY <1>2, <1>4, <1>5 DEF Shape, Shaped, CancelSame, After
  <1>7. p \in Job => JobShape(p, g)
    <2>1. SUFFICES ASSUME p \in Job PROVE JobShape(p, g)
      OBVIOUS
    <2>2. f.family # None /\ f.home = p /\ f.family = p[1]
      BY <1>5, <2>1 DEF JobShape, Shaped
    <2>3. QED
      BY <1>5, <2>2 DEF JobShape, CancelSame, Early
  <1>8. Shaped(p, g)
    BY <1>5, <1>6, <1>7 DEF Shaped
  <1>9. "settle" \notin Todo(g.prog)
    BY <1>4
  <1>10. ASSUME NEW gone, NEW fresh, NEW status, Sound(p, f, gone, fresh, status)
         PROVE  Sound(p, g, gone, fresh, status)
    BY <1>5, <1>9, <1>10 DEF Sound, CancelSame
  <1>11. \A j : Holds(g, j) => Holds(f, j)
    BY <1>5, <1>9 DEF Holds, Claims, CancelSame
  <1>12. QED
    BY <1>5, <1>8, <1>10, <1>11

\* The frame of the answer, for a frame f that differs from h in what was read.
LEMMA AnsweredFields ==
    ASSUME NEW h, NEW f \in Frame, CancelSame(h, f), NEW k \in Job \cup {None},
           k # None => k[1] = f.exec
    PROVE  \E s \in {<<>>, <<"descendants">>, <<"kids">>, <<"cancelRun">>} :
             /\ Answered(f, k) \in Frame /\ CancelSame(h, Answered(f, k))
             /\ Answered(f, k).prog = s
             /\ Instead(Answered(f, k), <<"terminalize">> \o s) \in Frame
             /\ CancelSame(h, Instead(Answered(f, k), <<"terminalize">> \o s))
             /\ Instead(Answered(f, k), <<"terminalize">> \o s).prog = <<"terminalize">> \o s
             /\ s \in {<<"kids">>, <<"cancelRun">>} => h.family # None
             /\ s = <<"descendants">> => h.family = None
             /\ s = <<"cancelRun">> => /\ OwnRow(Answered(f, k))
                                       /\ OwnRow(Instead(Answered(f, k), <<"terminalize">> \o s))
  <1>1. PICK s : s = IF f.family = None THEN IF k = None THEN <<>> ELSE <<"descendants">>
                                        ELSE IF k = None THEN <<"kids">> ELSE <<"cancelRun">>
    OBVIOUS
  <1>2. s \in {<<>>, <<"descendants">>, <<"kids">>, <<"cancelRun">>} /\ s \in Seq(Labels)
    <2>1. {"descendants", "kids", "cancelRun"} \subseteq Labels
      BY DEF Labels
    <2>2. QED
      BY <1>1, <2>1, Listed
  <1>3. <<"terminalize">> \o s \in Seq(Labels)
    <2>1. "terminalize" \in Labels
      BY DEF Labels
    <2>2. QED
      BY <1>2, <2>1, Preceded
  <1>4. PICK g : g = [f EXCEPT !.row = k, !.owner = None]
    OBVIOUS
  <1>5. g \in Frame /\ CancelSame(h, g) /\ g.row = k
    BY <1>4 DEF Frame, CancelSame
  <1>6. PICK a : a = Instead(g, s)
    OBVIOUS
  <1>7. a = Answered(f, k)
    BY <1>1, <1>4, <1>6 DEF Answered
  <1>8. a \in Frame /\ CancelSame(h, a) /\ a.prog = s /\ a.row = k
    BY <1>2, <1>5, <1>6, InsteadFrame DEF CancelSame
  <1>9. PICK b : b = Instead(a, <<"terminalize">> \o s)
    OBVIOUS
  <1>10. b \in Frame /\ CancelSame(h, b) /\ b.prog = <<"terminalize">> \o s /\ b.row = k
    BY <1>3, <1>8, <1>9, InsteadFrame DEF CancelSame
  <1>11. f.family = h.family /\ a.exec = f.exec /\ b.exec = f.exec
    BY <1>8, <1>10 DEF CancelSame
  <1>12. (s \in {<<"kids">>, <<"cancelRun">>} => h.family # None)
         /\ (s = <<"descendants">> => h.family = None)
         /\ (s = <<"cancelRun">> => k \in Job)
    BY <1>1, <1>11, Short
  <1>13. s = <<"cancelRun">> => OwnRow(a) /\ OwnRow(b)
    BY <1>8, <1>10, <1>11, <1>12, Jobs DEF OwnRow
  <1>14. /\ Answered(f, k) \in Frame /\ CancelSame(h, Answered(f, k))
         /\ Answered(f, k).prog = s
         /\ Instead(Answered(f, k), <<"terminalize">> \o s) \in Frame
         /\ CancelSame(h, Instead(Answered(f, k), <<"terminalize">> \o s))
         /\ Instead(Answered(f, k), <<"terminalize">> \o s).prog = <<"terminalize">> \o s
         /\ s = <<"cancelRun">> => /\ OwnRow(Answered(f, k))
                                   /\ OwnRow(Instead(Answered(f, k), <<"terminalize">> \o s))
    BY <1>7, <1>8, <1>9, <1>10, <1>13
  <1>15. QED
    BY <1>2, <1>12, <1>14

LEMMA CancelHeads ==
    ASSUME IInv, NEW p \in Proc, NEW l \in Cancels, At(p, l)
    PROVE  LET f == proc[p] IN
           /\ Doing(f, Cancels) /\ Doing(f, {l}) /\ f.prog # <<>> /\ ~Doing(f, {"unstarted"})
           /\ f \in Frame /\ Shaped(p, f) /\ Sound(p, f, Gone, Fresh, rows)
           /\ f.exec \in Exec /\ f.row \in Job /\ f.row[1] = f.exec
           /\ f.owner \in Job \cup {None} /\ (f.owner # None => f.owner[1] = f.exec)
           /\ f.family = None => p \notin Job
  <1>1. /\ Doing(proc[p], Cancels) /\ Doing(proc[p], {l}) /\ proc[p].prog # <<>>
        /\ ~Doing(proc[p], {"unstarted"})
    BY DEF At, Doing, Cancels
  <1>2. QED
    BY <1>1, ServeFacts, FrameFields DEF Shape, JobShape, OwnRow

LEMMA CancelReadKeeps ==
    ASSUME IInv, NEW p \in Proc, CancelRead(p)
    PROVE  IInv'
  <1> DEFINE f == proc[p]
  <1>1. /\ At(p, "cancelRead") /\ UNCHANGED <<store, queue>>
        /\ \/ Become(p, [Instead(f, <<"cancelMark">>) EXCEPT !.read = "processing"])
           \/ Become(p, Instead(f, <<"cancelClaim">>))
           \/ Become(p, [Instead(f, <<"decide">>) EXCEPT !.read = rows[f.row]])
    BY DEF CancelRead
  <1>2. /\ Doing(f, Cancels) /\ ~Doing(f, {"unstarted"}) /\ f \in Frame /\ Shaped(p, f)
        /\ Sound(p, f, Gone, Fresh, rows) /\ OwnRow(f) /\ (f.owner # None => f.owner[1] = f.exec)
    BY <1>1, CancelHeads DEF Cancels, OwnRow
  <1>3. PICK l \in {"cancelMark", "cancelClaim", "decide"} :
             \E g \in Frame : /\ CancelSame(f, g) /\ g.prog = <<l>> /\ g.row = f.row
                              /\ g.owner = f.owner /\ Become(p, g)
    <2>1. ASSUME NEW l \in {"cancelMark", "cancelClaim", "decide"}
          PROVE  LET h == Instead(f, <<l>>) IN
                 /\ h \in Frame /\ CancelSame(f, h) /\ h.prog = <<l>> /\ h.row = f.row
                 /\ h.owner = f.owner
      <3>1. <<l>> \in Seq(Labels)
        BY Listed DEF Labels
      <3>2. QED
        BY <1>2, <3>1, InsteadFrame DEF CancelSame
    <2>2. ASSUME NEW l \in {"cancelMark", "cancelClaim", "decide"}, NEW r \in Statuses
          PROVE  LET h == [Instead(f, <<l>>) EXCEPT !.read = r] IN
                 /\ h \in Frame /\ CancelSame(f, h) /\ h.prog = <<l>> /\ h.row = f.row
                 /\ h.owner = f.owner
      <3>1. PICK h : h = Instead(f, <<l>>)
        OBVIOUS
      <3>2. h \in Frame /\ CancelSame(f, h) /\ h.prog = <<l>> /\ h.row = f.row /\ h.owner = f.owner
        BY <2>1, <3>1
      <3>3. PICK g : g = [h EXCEPT !.read = r]
        OBVIOUS
      <3>4. g \in Frame /\ CancelSame(f, g) /\ g.prog = <<l>> /\ g.row = f.row /\ g.owner = f.owner
        BY <3>2, <3>3 DEF Frame, CancelSame, Statuses
      <3>5. QED
        BY <3>1, <3>3, <3>4
    <2>3. rows[f.row] \in Statuses
      BY <1>2 DEF IInv, World, StoreType, OwnRow
    <2>4. CASE Become(p, [Instead(f, <<"cancelMark">>) EXCEPT !.read = "processing"])
      <3>1. "processing" \in Statuses
        BY DEF Statuses
      <3>2. QED
        BY <2>2, <2>4, <3>1
    <2>5. CASE Become(p, Instead(f, <<"cancelClaim">>))
      BY <2>1, <2>5
    <2>6. CASE Become(p, [Instead(f, <<"decide">>) EXCEPT !.read = rows[f.row]])
      BY <2>2, <2>3, <2>6
    <2>7. QED
      BY <1>1, <2>4, <2>5, <2>6
  <1>4. PICK g \in Frame : /\ CancelSame(f, g) /\ g.prog = <<l>> /\ g.row = f.row
                           /\ g.owner = f.owner /\ Become(p, g)
    BY <1>3
  <1>5. l \in Cancels /\ l # "cancelTerminalize" /\ OwnRow(g) /\ (g.owner # None => g.owner[1] = g.exec)
    BY <1>2, <1>4 DEF OwnRow, CancelSame, Cancels
  <1>6. /\ Shaped(p, g) /\ ~Doing(g, Early) /\ ~Doing(g, {"cancelTerminalize"})
        /\ (\A j : Holds(g, j) => Holds(f, j)) /\ Sound(p, g, Gone, Fresh, rows)
    BY <1>2, <1>4, <1>5, CancelNext
  <1>7. Marked'
    BY <1>1 DEF IInv, Marked, queue
  <1>8. QED
    BY <1>1, <1>2, <1>4, <1>6, <1>7, CancelQuiet DEF queue

LEMMA CancelMarkKeeps ==
    ASSUME IInv, NEW p \in Proc, CancelMark(p)
    PROVE  IInv'
  <1> DEFINE f == proc[p]
             found == rows[f.row] = "processing"
             owner == IF found THEN f.row ELSE None
  <1>1. /\ At(p, "cancelMark") /\ UNCHANGED <<store, rows>>
        /\ cancelRequested' = IF found THEN cancelRequested \cup {f.row} ELSE cancelRequested
        /\ Become(p, [Instead(f, <<"decide">>) EXCEPT !.owner = owner])
    BY DEF CancelMark
  <1>2. /\ Doing(f, Cancels) /\ ~Doing(f, {"unstarted"}) /\ f \in Frame /\ Shaped(p, f)
        /\ Sound(p, f, Gone, Fresh, rows) /\ OwnRow(f) /\ f.row \in Job
    BY <1>1, CancelHeads DEF Cancels, OwnRow
  <1>3. owner \in Job \cup {None} /\ (owner # None => owner[1] = f.exec)
    BY <1>2 DEF OwnRow
  <1>4. Marked'
    BY <1>1, <1>2 DEF IInv, Marked
  <1> HIDE DEF owner, found
  <1>5. PICK g : g = [Instead(f, <<"decide">>) EXCEPT !.owner = owner]
    OBVIOUS
  <1>6. g \in Frame /\ CancelSame(f, g) /\ g.prog = <<"decide">> /\ g.row = f.row /\ g.owner = owner
    <2>1. PICK h : h = Instead(f, <<"decide">>)
      OBVIOUS
    <2>2. <<"decide">> \in Seq(Labels)
      BY Listed DEF Labels
    <2>3. h \in Frame /\ CancelSame(f, h) /\ h.prog = <<"decide">> /\ h.row = f.row
      BY <1>2, <2>1, <2>2, InsteadFrame DEF CancelSame
    <2>4. g = [h EXCEPT !.owner = owner]
      BY <1>5, <2>1
    <2>5. QED
      BY <1>3, <2>3, <2>4 DEF Frame, CancelSame
  <1>7. OwnRow(g) /\ (g.owner # None => g.owner[1] = g.exec) /\ "decide" \in Cancels
    BY <1>2, <1>3, <1>6 DEF OwnRow, CancelSame, Cancels
  <1>8. /\ Shaped(p, g) /\ ~Doing(g, Early) /\ ~Doing(g, {"cancelTerminalize"})
        /\ (\A j : Holds(g, j) => Holds(f, j)) /\ Sound(p, g, Gone, Fresh, rows)
    BY <1>2, <1>6, <1>7, CancelNext
  <1>9. QED
    BY <1>1, <1>2, <1>4, <1>5, <1>8, CancelQuiet

LEMMA CancelClaimKeeps ==
    ASSUME IInv, NEW p \in Proc, CancelClaim(p)
    PROVE  IInv'
  <1> DEFINE f == proc[p]
  <1>1. At(p, "cancelClaim") /\ UNCHANGED store
    BY DEF CancelClaim
  <1>2. /\ Doing(f, Cancels) /\ ~Doing(f, {"unstarted"}) /\ f \in Frame /\ Shaped(p, f)
        /\ Sound(p, f, Gone, Fresh, rows) /\ OwnRow(f) /\ f.row \in Job
        /\ f.owner \in Job \cup {None} /\ (f.owner # None => f.owner[1] = f.exec)
    BY <1>1, CancelHeads DEF Cancels, OwnRow
  <1>3. CASE rows[f.row] = "pending"
    <2>1. /\ SetRow(f.row, "processing") /\ cancelRequested' = cancelRequested \cup {f.row}
          /\ Become(p, Instead(f, <<"cancelTerminalize">>))
      BY <1>3 DEF CancelClaim
    <2>2. PICK g : g = Instead(f, <<"cancelTerminalize">>)
      OBVIOUS
    <2>3. /\ g \in Frame /\ CancelSame(f, g) /\ g.prog = <<"cancelTerminalize">> /\ g.row = f.row
          /\ g.owner = f.owner
      <3>1. <<"cancelTerminalize">> \in Seq(Labels)
        BY Listed DEF Labels
      <3>2. QED
        BY <1>2, <2>2, <3>1, InsteadFrame DEF CancelSame
    <2>4. OwnRow(g) /\ (g.owner # None => g.owner[1] = g.exec) /\ "cancelTerminalize" \in Cancels
      BY <1>2, <2>3 DEF OwnRow, CancelSame, Cancels
    <2>5. /\ Shaped(p, g) /\ ~Doing(g, Early)
          /\ (\A j : Holds(g, j) => Holds(f, j) \/ j = g.row)
          /\ (\A j : Claims(g, j) => j = g.row)
          /\ \A gone, fresh, status :
                 /\ Sound(p, f, gone, fresh, status)
                 /\ g.row \in fresh /\ status[g.row] = "processing"
                 => Sound(p, g, gone, fresh, status)
      BY <1>2, <2>3, <2>4, CancelNext
    <2>6. /\ ~Doing(g, {"unstarted"}) /\ ~Doing(g, {"unstarted", "begin"})
          /\ ~Doing(g, {"unstarted", "claim"}) /\ ~Doing(g, {"run", "save"})
      BY <2>5 DEF Doing, Early
    <2>7. Become(p, g)
      BY <2>1, <2>2
    <2>8. UNCHANGED Fresh
      BY <1>2, <2>5, <2>6, <2>7, FreshKept DEF IInv
    <2>9. World' /\ Lasts /\ Leaves({p}) /\ RowMoves(f) /\ rows'[f.row] = "processing" /\ FreshMoves
      BY <1>1, <1>2, <1>3, <2>1, <2>8, TakeEffect DEF IInv, FreshMoves
    <2>10. f.row \in Fresh
      BY <1>2, <1>3 DEF IInv, World, RowOK
    <2>11. Marked'
      BY <1>2, <2>1, <2>9 DEF IInv, Marked, SetRow, World, StoreType
    <2>12. \A j \in Job : Claims(f, j) => ~Holds(f, j)
      <3>1. ~Doing(f, {"cancelTerminalize"})
        BY <1>1 DEF At, Doing
      <3>2. QED
        BY <3>1 DEF Claims
    <2>13. Sound(p, f, Gone', Fresh', rows')
      BY <1>2, <2>9, <2>12, Bystander DEF IInv
    <2>14. Sound(p, g, Gone', Fresh', rows')
      BY <2>3, <2>5, <2>8, <2>9, <2>10, <2>13
    <2>15. Fits(p, g)'
      BY <2>6 DEF Fits
    <2>16. QED
      BY <1>3, <2>3, <2>5, <2>7, <2>9, <2>11, <2>14, <2>15, Moves
  <1>4. CASE rows[f.row] # "pending"
    <2>1. UNCHANGED queue /\ Become(p, Answered(f, f.owner))
      BY <1>4 DEF CancelClaim
    <2>2. CancelSame(f, f)
      BY DEF CancelSame
    <2>3. PICK g : g = Answered(f, f.owner)
      OBVIOUS
    <2>4. \E s \in {<<>>, <<"descendants">>, <<"kids">>, <<"cancelRun">>} :
             /\ g \in Frame /\ CancelSame(f, g) /\ g.prog = s
             /\ s \in {<<"kids">>, <<"cancelRun">>} => f.family # None
             /\ s = <<"descendants">> => f.family = None
             /\ s = <<"cancelRun">> => OwnRow(g)
      BY <1>2, <2>2, <2>3, AnsweredFields
    <2>5. /\ Shaped(p, g) /\ ~Doing(g, Early) /\ ~Doing(g, {"cancelTerminalize"})
          /\ (\A j : Holds(g, j) => Holds(f, j)) /\ Sound(p, g, Gone, Fresh, rows)
      BY <1>2, <2>4, AnswerNext
    <2>6. Marked'
      BY <2>1 DEF IInv, Marked, queue
    <2>7. QED
      BY <1>1, <1>2, <2>1, <2>3, <2>5, <2>6, CancelQuiet DEF queue
  <1>5. QED
    BY <1>3, <1>4

\* A step of a cancellation that claims no row.
LEMMA CancelMoves ==
    ASSUME IInv, NEW p \in Proc, NEW l \in Cancels \ {"cancelTerminalize"}, At(p, l),
           NEW g, Shaped(p, g), Become(p, g),
           ~Doing(g, Early), ~Doing(g, {"cancelTerminalize"}),
           \A j : Holds(g, j) => Holds(proc[p], j),
           \A gone, fresh, status :
              Sound(p, proc[p], gone, fresh, status) => Sound(p, g, gone, fresh, status),
           UNCHANGED Fresh => World' /\ Lasts /\ Leaves({p}) /\ RowMoves(proc[p]),
           Marked'
    PROVE  IInv'
  <1>1. /\ ~Doing(proc[p], {"unstarted"}) /\ ~Doing(proc[p], {"cancelTerminalize"})
        /\ proc[p].prog # <<>>
    BY DEF At, Doing, Cancels
  <1>2. Shaped(p, proc[p]) /\ Sound(p, proc[p], Gone, Fresh, rows)
    BY <1>1, ServeFacts
  <1>3. /\ ~Doing(g, {"unstarted"}) /\ ~Doing(g, {"unstarted", "begin"})
        /\ ~Doing(g, {"unstarted", "claim"}) /\ ~Doing(g, {"run", "save"})
    BY DEF Doing, Early
  <1>4. UNCHANGED Fresh
    BY <1>1, <1>3, FreshKept DEF IInv
  <1>5. World' /\ Lasts /\ Leaves({p}) /\ RowMoves(proc[p]) /\ FreshMoves
    BY <1>4 DEF FreshMoves
  <1>6. \A j \in Job : ~Claims(proc[p], j) /\ ~Claims(g, j)
    BY <1>1 DEF Claims
  <1>7. Sound(p, proc[p], Gone', Fresh', rows')
    BY <1>2, <1>5, <1>6, Bystander DEF IInv
  <1>8. Sound(p, g, Gone', Fresh', rows')
    BY <1>7
  <1>9. Fits(p, g)'
    BY <1>3 DEF Fits
  <1>10. QED
    BY <1>5, <1>6, <1>8, <1>9, Moves

LEMMA DecideKeeps ==
    ASSUME IInv, NEW p \in Proc, Decide(p)
    PROVE  IInv'
  <1> DEFINE f == [proc[p] EXCEPT !.read = "absent"]
             e == f.exec
             job == ResumeJob(e)
             reviewed == checkpoint[e].revision # 0
             live == log[e] = "running" /\ (proc[p].read = "processing" \/ reviewed)
             active == live /\ checkpoint[e].active /\ (rows[job] # "absent" \/ job = f.owner)
             takeBack == live /\ reviewed /\ ~active
             k == IF active THEN job ELSE f.owner
  <1>1. f = [proc[p] EXCEPT !.read = "absent"]
    OBVIOUS
  <1>2. At(p, "decide") /\ UNCHANGED <<log, rows>>
    BY DEF Decide
  <1>3. cancelRequested' = IF active /\ rows[job] # "absent" THEN cancelRequested \cup {job}
                           ELSE cancelRequested
    BY DEF Decide
  <1>4. IF takeBack
        THEN /\ paused' = paused \ {e}
             /\ checkpoint' = [checkpoint EXCEPT ![e].active = FALSE]
        ELSE UNCHANGED <<paused, checkpoint>>
    BY DEF Decide
  <1>5. \/ Become(p, [Instead(f, <<"cancelClaim">>) EXCEPT !.row = job, !.owner = job])
        \/ Become(p, Instead(f, <<"cancelClaim">>))
        \/ f.family = None /\ Become(p, Instead(f, <<>>))
        \/ Become(p, Answered(f, k))
        \/ Become(p, Instead(Answered(f, k), <<"terminalize">> \o Answered(f, k).prog))
        \/ f.family = None /\ Become(p, Instead(Answered(f, k), <<"terminalize">> \o <<"descendants">>))
    <2> DEFINE finished == log[e] \in Ended /\ proc[p].read = "processing" /\ f.family = None
               answer == IF finished THEN Instead(f, <<>>) ELSE Answered(f, k)
               first == active /\ job # f.owner /\ rows[job] = "pending"
               second == ~live /\ proc[p].read = "pending"
               claim == [Instead(f, <<"cancelClaim">>) EXCEPT !.row = job, !.owner = job]
               next == IF f.family = None THEN <<"descendants">> ELSE answer.prog
               last == IF ~takeBack THEN answer ELSE Instead(answer, <<"terminalize">> \o next)
    <2>1. Become(p, CASE first -> claim
                      [] second -> Instead(f, <<"cancelClaim">>)
                      [] OTHER -> last)
      BY DEF Decide
    <2>2. takeBack => ~finished
      BY DEF Ended
    <2>3. \/ last \in {Answered(f, k),
                      Instead(Answered(f, k), <<"terminalize">> \o Answered(f, k).prog)}
          \/ (f.family = None /\ last = Instead(f, <<>>))
          \/ (f.family = None /\ last = Instead(Answered(f, k), <<"terminalize">> \o <<"descendants">>))
      <3>1. ~finished => answer = Answered(f, k)
        OBVIOUS
      <3>2. finished => answer = Instead(f, <<>>) /\ f.family = None
        OBVIOUS
      <3>3. /\ f.family = None => next = <<"descendants">>
            /\ f.family # None => next = answer.prog
        OBVIOUS
      <3> HIDE DEF finished, answer, takeBack, active, live, next
      <3>6. CASE takeBack
        <4>1. answer = Answered(f, k) /\ last = Instead(answer, <<"terminalize">> \o next)
          BY <2>2, <3>1, <3>6
        <4> HIDE DEF last
        <4>2. QED
          BY <3>3, <4>1
      <3>4. CASE ~takeBack
        BY <3>1, <3>2, <3>4
      <3>5. QED
        BY <3>4, <3>6
    <2>4. ~(first /\ second)
      OBVIOUS
    <2> HIDE DEF first, second, last, claim
    <2>5. CASE first
      <3>1. Become(p, claim)
        BY <2>1, <2>4, <2>5
      <3>2. QED
        BY <3>1 DEF claim
    <2>6. CASE second
      BY <2>1, <2>4, <2>6
    <2>7. CASE ~first /\ ~second
      <3>1. Become(p, last)
        BY <2>1, <2>7
      <3>2. QED
        BY <2>3, <3>1
    <2>8. QED
      BY <2>5, <2>6, <2>7
  <1> HIDE DEF f
  <1>6. /\ Doing(proc[p], Cancels) /\ proc[p] \in Frame /\ Shaped(p, proc[p])
        /\ proc[p].exec \in Exec /\ proc[p].row \in Job /\ proc[p].row[1] = proc[p].exec
        /\ proc[p].owner \in Job \cup {None}
        /\ proc[p].owner # None => proc[p].owner[1] = proc[p].exec
        /\ proc[p].family = None => p \notin Job
    BY <1>2, CancelHeads DEF Cancels
  <1>7. /\ f \in Frame /\ CancelSame(proc[p], f) /\ f.row = proc[p].row
        /\ f.owner = proc[p].owner /\ f.prog = proc[p].prog
    BY <1>1, <1>6 DEF Frame, CancelSame
  <1>8. e \in Exec /\ f.family = proc[p].family /\ e = proc[p].exec
    BY <1>6, <1>7 DEF CancelSame
  <1>9. job \in Job /\ job[1] = e
    BY <1>8, LogTypes DEF IInv, World
  <1>10. k \in Job \cup {None} /\ (k # None => k[1] = f.exec)
    BY <1>6, <1>7, <1>8, <1>9
  <1>11. ASSUME UNCHANGED Fresh
         PROVE  World' /\ Lasts /\ Leaves({p}) /\ RowMoves(proc[p])
    <2>1. CASE takeBack
      <3>1. ~checkpoint[e].active
        BY <1>8, <2>1 DEF IInv, World, LogOK
      <3>2. QED
        BY <1>2, <1>4, <1>8, <1>11, <2>1, <3>1, TakeBackEffect DEF IInv
    <2>2. CASE ~takeBack
      <3>1. UNCHANGED store
        BY <1>2, <1>4, <2>2 DEF store
      <3>2. QED
        BY <1>2, <1>11, <3>1, Quiet DEF IInv
    <2>3. QED
      BY <2>1, <2>2
  <1>12. Marked'
    BY <1>2, <1>3, <1>9 DEF IInv, Marked
  <1>13. "decide" \in Cancels \ {"cancelTerminalize"} /\ "cancelClaim" \in Cancels
    BY DEF Cancels
  <1>14. PICK kk : kk = k
    OBVIOUS
  <1>15. PICK jj : jj = job
    OBVIOUS
  <1>16. kk \in Job \cup {None} /\ (kk # None => kk[1] = f.exec) /\ jj \in Job /\ jj[1] = f.exec
    BY <1>9, <1>10, <1>14, <1>15
  <1>17. \/ Become(p, [Instead(f, <<"cancelClaim">>) EXCEPT !.row = jj, !.owner = jj])
         \/ Become(p, Instead(f, <<"cancelClaim">>))
         \/ f.family = None /\ Become(p, Instead(f, <<>>))
         \/ Become(p, Answered(f, kk))
         \/ Become(p, Instead(Answered(f, kk), <<"terminalize">> \o Answered(f, kk).prog))
         \/ f.family = None /\ Become(p, Instead(Answered(f, kk), <<"terminalize">> \o <<"descendants">>))
    BY <1>5, <1>14, <1>15
  <1> HIDE DEF job, k, active, takeBack, live, reviewed
  <1>18. PICK h : h = Instead(f, <<"cancelClaim">>)
    OBVIOUS
  <1>19. /\ h \in Frame /\ CancelSame(proc[p], h) /\ h.prog = <<"cancelClaim">>
         /\ h.row = f.row /\ h.owner = f.owner /\ h.exec = f.exec
    <2>1. <<"cancelClaim">> \in Seq(Labels)
      BY Listed DEF Labels
    <2>2. QED
      BY <1>7, <1>18, <2>1, InsteadFrame DEF CancelSame
  <1>20. ASSUME NEW g \in Frame, CancelSame(proc[p], g), g.prog = <<"cancelClaim">>, OwnRow(g),
                g.owner # None => g.owner[1] = g.exec, Become(p, g)
         PROVE  IInv'
    <2>1. /\ Shaped(p, g) /\ ~Doing(g, Early) /\ ~Doing(g, {"cancelTerminalize"})
          /\ \A j : Holds(g, j) => Holds(proc[p], j)
          /\ \A gone, fresh, status :
                Sound(p, proc[p], gone, fresh, status) => Sound(p, g, gone, fresh, status)
      BY <1>6, <1>13, <1>20, CancelNext
    <2>2. QED
      BY <1>2, <1>11, <1>12, <1>13, <1>20, <2>1, CancelMoves
  <1>21. ASSUME NEW s \in {<<>>, <<"descendants">>, <<"kids">>, <<"cancelRun">>},
                NEW g \in Frame, CancelSame(proc[p], g),
                g.prog = s \/ g.prog = <<"terminalize">> \o s,
                s \in {<<"kids">>, <<"cancelRun">>} => proc[p].family # None,
                s = <<"descendants">> => proc[p].family = None,
                s = <<"cancelRun">> => OwnRow(g),
                Become(p, g)
         PROVE  IInv'
    <2>1. /\ Shaped(p, g) /\ ~Doing(g, Early) /\ ~Doing(g, {"cancelTerminalize"})
          /\ \A j : Holds(g, j) => Holds(proc[p], j)
          /\ \A gone, fresh, status :
                Sound(p, proc[p], gone, fresh, status) => Sound(p, g, gone, fresh, status)
      BY <1>6, <1>21, AnswerNext
    <2>2. QED
      BY <1>2, <1>11, <1>12, <1>13, <1>21, <2>1, CancelMoves
  <1>22. CASE Become(p, [Instead(f, <<"cancelClaim">>) EXCEPT !.row = jj, !.owner = jj])
    <2>1. PICK g : g = [h EXCEPT !.row = jj, !.owner = jj]
      OBVIOUS
    <2>2. /\ g \in Frame /\ CancelSame(proc[p], g) /\ g.prog = <<"cancelClaim">>
          /\ g.row = jj /\ g.owner = jj /\ g.exec = f.exec
      BY <1>16, <1>19, <2>1 DEF Frame, CancelSame
    <2>3. QED
      BY <1>16, <1>18, <1>20, <1>22, <2>1, <2>2 DEF OwnRow
  <1>23. CASE Become(p, Instead(f, <<"cancelClaim">>))
    <2>1. OwnRow(h) /\ (h.owner # None => h.owner[1] = h.exec)
      BY <1>6, <1>7, <1>8, <1>19 DEF OwnRow
    <2>2. QED
      BY <1>18, <1>19, <1>20, <1>23, <2>1
  <1>24. CASE f.family = None /\ Become(p, Instead(f, <<>>))
    <2>1. PICK g : g = Instead(f, <<>>)
      OBVIOUS
    <2>2. g \in Frame /\ CancelSame(proc[p], g) /\ g.prog = <<>>
      BY <1>7, <2>1, Listed, InsteadFrame DEF CancelSame
    <2>3. /\ <<>> \in {<<>>, <<"descendants">>, <<"kids">>, <<"cancelRun">>}
          /\ <<>> \notin {<<"descendants">>, <<"kids">>, <<"cancelRun">>}
      BY Short
    <2>4. QED
      BY <1>21, <1>24, <2>1, <2>2, <2>3
  <1>25. CASE \/ Become(p, Answered(f, kk))
              \/ Become(p, Instead(Answered(f, kk), <<"terminalize">> \o Answered(f, kk).prog))
    <2>1. PICK a : a = Answered(f, kk)
      OBVIOUS
    <2>2. PICK s \in {<<>>, <<"descendants">>, <<"kids">>, <<"cancelRun">>} :
             /\ a \in Frame /\ CancelSame(proc[p], a) /\ a.prog = s
             /\ Instead(a, <<"terminalize">> \o s) \in Frame
             /\ CancelSame(proc[p], Instead(a, <<"terminalize">> \o s))
             /\ Instead(a, <<"terminalize">> \o s).prog = <<"terminalize">> \o s
             /\ s \in {<<"kids">>, <<"cancelRun">>} => proc[p].family # None
             /\ s = <<"descendants">> => proc[p].family = None
             /\ s = <<"cancelRun">> => OwnRow(a) /\ OwnRow(Instead(a, <<"terminalize">> \o s))
      BY <1>7, <1>16, <2>1, AnsweredFields
    <2>3. PICK b : b = Instead(a, <<"terminalize">> \o s)
      OBVIOUS
    <2>4. CASE Become(p, a)
      BY <1>21, <2>2, <2>4
    <2>5. CASE Become(p, b)
      <3>1. /\ b \in Frame /\ CancelSame(proc[p], b) /\ b.prog = <<"terminalize">> \o s
            /\ s = <<"cancelRun">> => OwnRow(b)
        BY <2>2, <2>3
      <3>2. QED
        BY <1>21, <2>2, <2>5, <3>1
    <2>6. QED
      BY <1>25, <2>1, <2>2, <2>3, <2>4, <2>5
  <1>26. CASE f.family = None /\ Become(p, Instead(Answered(f, kk), <<"terminalize">> \o <<"descendants">>))
    <2>1. PICK a : a = Answered(f, kk)
      OBVIOUS
    <2>2. a \in Frame /\ CancelSame(proc[p], a)
      BY <1>7, <1>16, <2>1, AnsweredFields
    <2>3. <<"terminalize">> \o <<"descendants">> \in Seq(Labels)
      <3>1. {"terminalize", "descendants"} \subseteq Labels
        BY DEF Labels
      <3>2. QED
        BY <3>1, Listed, Preceded
    <2>4. PICK b : b = Instead(a, <<"terminalize">> \o <<"descendants">>)
      OBVIOUS
    <2>5. /\ b \in Frame /\ CancelSame(proc[p], b)
          /\ b.prog = <<"terminalize">> \o <<"descendants">>
      BY <2>2, <2>3, <2>4, InsteadFrame DEF CancelSame
    <2>6. <<"descendants">> \notin {<<"kids">>, <<"cancelRun">>}
      BY Short
    <2>7. Become(p, b) /\ proc[p].family = None
      BY <1>8, <1>26, <2>1, <2>4
    <2>8. QED
      BY <1>21, <2>5, <2>6, <2>7
  <1>27. QED
    BY <1>17, <1>22, <1>23, <1>24, <1>25, <1>26

LEMMA TellFields ==
    ASSUME NEW f \in Frame, f.exec \in Exec, NEW s \in Seq(Labels)
    PROVE  LET g == Tell(f, s) IN
           /\ g \in Frame /\ g.mode = f.mode /\ g.exec = f.exec /\ g.row = f.row
           /\ g.family = f.family /\ g.home = f.home /\ g.rest = f.rest /\ g.todo = f.todo
           /\ \/ g.prog = s /\ g.child = f.child
              \/ g.prog = <<"tell">> \o s /\ g.child = f.exec /\ Parent[f.exec] # None
  <1>1. PICK g : g = Tell(f, s)
    OBVIOUS
  <1>2. CASE Parent[f.exec] = None
    <2>1. g = Instead(f, s)
      BY <1>1, <1>2 DEF Tell
    <2>2. QED
      BY <1>1, <2>1, InsteadFrame
  <1>3. CASE Parent[f.exec] # None
    <2>1. <<"tell">> \o s \in Seq(Labels)
      <3>1. "tell" \in Labels
        BY DEF Labels
      <3>2. QED
        BY <3>1, Preceded
    <2>2. PICK h : h = Instead(f, <<"tell">> \o s)
      OBVIOUS
    <2>3. /\ h \in Frame /\ h.mode = f.mode /\ h.exec = f.exec /\ h.row = f.row
          /\ h.family = f.family /\ h.home = f.home /\ h.rest = f.rest /\ h.todo = f.todo
          /\ h.prog = <<"tell">> \o s
      BY <2>1, <2>2, InsteadFrame
    <2>4. g = [h EXCEPT !.child = f.exec]
      BY <1>1, <1>3, <2>2 DEF Tell
    <2>5. /\ g \in Frame /\ g.mode = f.mode /\ g.exec = f.exec /\ g.row = f.row
          /\ g.family = f.family /\ g.home = f.home /\ g.rest = f.rest /\ g.todo = f.todo
          /\ g.prog = <<"tell">> \o s /\ g.child = f.exec
      BY <2>3, <2>4 DEF Frame
    <2>6. QED
      BY <1>1, <1>3, <2>5
  <1>4. QED
    BY <1>2, <1>3

\* A cancellation has ended the execution of the row it claimed.
LEMMA EndedNext ==
    ASSUME NEW p \in Proc, NEW f, Shaped(p, f), Doing(f, {"cancelTerminalize"}),
           NEW s \in {<<"settle", "kids">>, <<"descendants", "settle">>, <<"settle">>},
           s = <<"settle", "kids">> => f.family # None,
           s = <<"descendants", "settle">> => f.family = None
    PROVE  LET g == Tell(f, s) IN
           /\ Shaped(p, g) /\ ~Doing(g, Early)
           /\ \A j : ~Claims(g, j) /\ (Holds(g, j) => Holds(f, j))
           /\ \A gone, fresh, status :
                 Sound(p, f, gone, fresh, status) /\ f.row \in gone
                   => Sound(p, g, gone, fresh, status)
  <1>1. /\ f.prog # <<>> /\ Head(f.prog) = "cancelTerminalize" /\ Doing(f, Cancels)
        /\ ~Doing(f, Early) /\ ~Doing(f, {"terminalize"})
    BY DEF Doing, Cancels, Early
  <1>2. /\ f \in Frame /\ f.exec \in Exec /\ OwnRow(f) /\ (f.child # None => Parent[f.child] # None)
    BY <1>1 DEF Shaped, Shape
  <1>3. /\ s \in Seq(Labels) /\ s # <<>> /\ Todo(s) \subseteq {"settle", "kids", "descendants"}
        /\ Todo(s) = {Head(s)} \cup Todo(Tail(s)) /\ "tell" \in Labels
        /\ "kids" \in Todo(s) => s = <<"settle", "kids">>
        /\ "descendants" \in Todo(s) => s = <<"descendants", "settle">>
    <2>1. {"settle", "kids", "descendants", "tell"} \subseteq Labels
      BY DEF Labels
    <2>2. CASE s = <<"settle">>
      BY <2>1, <2>2, Listed, Short
    <2>3. CASE s = <<"settle", "kids">>
      BY <2>1, <2>3, Listed, Short
    <2>4. CASE s = <<"descendants", "settle">>
      BY <2>1, <2>4, Listed, Short
    <2>5. QED
      BY <2>2, <2>3, <2>4
  <1>4. PICK g : g = Tell(f, s)
    OBVIOUS
  <1>5. /\ g \in Frame /\ g.mode = f.mode /\ g.exec = f.exec /\ g.row = f.row
        /\ g.family = f.family /\ g.home = f.home /\ g.rest = f.rest /\ g.todo = f.todo
        /\ \/ g.prog = s /\ g.child = f.child
           \/ g.prog = <<"tell">> \o s /\ g.child = f.exec /\ Parent[f.exec] # None
    BY <1>2, <1>3, <1>4, TellFields
  <1>6. /\ g.prog # <<>> /\ Head(g.prog) \in {"tell", "settle", "kids", "descendants"}
        /\ Todo(g.prog) \subseteq {"tell"} \cup Todo(s) /\ Todo(Tail(g.prog)) \subseteq Todo(s)
        /\ g.child # None => Parent[g.child] # None
        /\ Head(g.prog) = "tell" => g.child # None
    <2>1. CASE g.prog = s /\ g.child = f.child
      BY <1>2, <1>3, <2>1
    <2>2. CASE g.prog = <<"tell">> \o s /\ g.child = f.exec /\ Parent[f.exec] # None
      <3>1. /\ g.prog # <<>> /\ Head(g.prog) = "tell" /\ Tail(g.prog) = s
            /\ Todo(g.prog) = {"tell"} \cup Todo(s)
        BY <1>3, <2>2, Preceded
      <3>2. g.child # None /\ Parent[g.child] # None
        BY <1>2, <2>2, Jobs
      <3>3. QED
        BY <3>1, <3>2
    <2>3. QED
      BY <1>5, <2>1, <2>2
  <1>7. /\ ~Doing(g, Early) /\ ~Doing(g, Cancels)
        /\ Doing(g, {"tell", "submit"}) => Head(g.prog) = "tell"
        /\ \A a \in Early \cup {"cancelTerminalize", "terminalize"} : ~Doing(g, {a})
    BY <1>6 DEF Doing, Early, Cancels
  <1>8. Shape(p, g)
    BY <1>2, <1>3, <1>5, <1>6, <1>7 DEF Shape, Shaped, After, OwnRow
  <1>9. p \in Job => JobShape(p, g)
    <2>1. SUFFICES ASSUME p \in Job PROVE JobShape(p, g)
      OBVIOUS
    <2>2. f.family # None /\ f.home = p /\ f.family = p[1]
      BY <1>1, <2>1 DEF JobShape, Shaped
    <2>3. QED
      BY <1>5, <1>7, <2>2 DEF JobShape, Early
  <1>10. Shaped(p, g)
    BY <1>5, <1>7, <1>8, <1>9 DEF Shaped
  <1>11. \A j : ~Claims(g, j) /\ (Holds(g, j) => Holds(f, j))
    <2>1. \A j : ~Claims(g, j)
      BY <1>7 DEF Claims
    <2>2. \A j : j = f.row => Claims(f, j)
      BY <1>1 DEF Claims, Doing
    <2>3. QED
      BY <1>5, <2>1, <2>2 DEF Holds
  <1>12. ASSUME NEW gone, NEW fresh, NEW status, Sound(p, f, gone, fresh, status), f.row \in gone
         PROVE  Sound(p, g, gone, fresh, status)
    <2>1. status[g.row] # "pending"
      BY <1>1, <1>5, <1>12 DEF Sound, Doing
    <2>2. QED
      BY <1>1, <1>5, <1>7, <1>12, <2>1 DEF Sound
  <1>13. QED
    BY <1>4, <1>7, <1>10, <1>11, <1>12

LEMMA CancelTerminalizeKeeps ==
    ASSUME IInv, NEW p \in Proc, CancelTerminalize(p)
    PROVE  IInv'
  <1> DEFINE f == proc[p]
             then == IF f.family # None THEN <<"settle", "kids">>
                     ELSE IF f.owner # None THEN <<"descendants", "settle">> ELSE <<"settle">>
  <1>1. /\ At(p, "cancelTerminalize")
        /\ \/ EndLog(f.exec, "error") /\ Become(p, Tell(f, then)) /\ UNCHANGED queue
           \/ /\ f.family = None
              /\ IF rows[f.row] = "processing" THEN SetRow(f.row, "pending") ELSE UNCHANGED rows
              /\ Become(p, Instead(f, <<>>))
              /\ UNCHANGED <<store, cancelRequested>>
    BY DEF CancelTerminalize
  <1>2. /\ Doing(f, Cancels) /\ Doing(f, {"cancelTerminalize"}) /\ ~Doing(f, {"unstarted"})
        /\ f \in Frame /\ Shaped(p, f) /\ Sound(p, f, Gone, Fresh, rows)
        /\ f.exec \in Exec /\ f.row \in Job /\ f.row[1] = f.exec
        /\ f.family = None => p \notin Job
    BY <1>1, CancelHeads DEF Cancels
  <1>3. f.row \in Fresh /\ rows[f.row] = "processing" /\ Claims(f, f.row) /\ "error" \in Ended
    BY <1>2 DEF Sound, Claims, Ended
  <1>4. CASE EndLog(f.exec, "error") /\ Become(p, Tell(f, then)) /\ UNCHANGED queue
    <2>1. PICK s : s = then
      OBVIOUS
    <2>2. /\ s \in {<<"settle", "kids">>, <<"descendants", "settle">>, <<"settle">>}
          /\ s = <<"settle", "kids">> => f.family # None
          /\ s = <<"descendants", "settle">> => f.family = None
      <3>1. /\ Head(<<"settle", "kids">>) # Head(<<"descendants", "settle">>)
            /\ Tail(<<"settle", "kids">>) # Tail(<<"settle">>)
            /\ Head(<<"settle">>) # Head(<<"descendants", "settle">>)
        BY Short
      <3>2. QED
        BY <2>1, <3>1
    <2>3. PICK g : g = Tell(f, s)
      OBVIOUS
    <2>4. /\ Shaped(p, g) /\ ~Doing(g, Early)
          /\ (\A j : ~Claims(g, j) /\ (Holds(g, j) => Holds(f, j)))
          /\ \A gone, fresh, status :
                 Sound(p, f, gone, fresh, status) /\ f.row \in gone
                   => Sound(p, g, gone, fresh, status)
      BY <1>2, <2>2, <2>3, EndedNext
    <2>5. /\ ~Doing(g, {"unstarted"}) /\ ~Doing(g, {"unstarted", "begin"})
          /\ ~Doing(g, {"unstarted", "claim"}) /\ ~Doing(g, {"run", "save"})
      BY <2>4 DEF Doing, Early
    <2>6. Become(p, g)
      BY <1>4, <2>1, <2>3
    <2>7. UNCHANGED Fresh /\ UNCHANGED <<rows, cancelRequested>>
      BY <1>2, <1>4, <2>4, <2>5, <2>6, FreshKept DEF IInv, queue
    <2>8. /\ World' /\ Lasts /\ Leaves({p}) /\ (\A h : RowMoves(h)) /\ FreshMoves
          /\ \A j \in Job : j[1] = f.exec => Past(j)'
      BY <1>2, <1>3, <1>4, <2>7, EndLogEffect DEF IInv, FreshMoves
    <2>9. Sound(p, f, Gone', Fresh', rows')
      <3>1. PICK b : b = Blank
        OBVIOUS
      <3>2. \A j : ~Claims(b, j) /\ ~Holds(b, j)
        BY <3>1, BlankFrame, Short DEF Claims, Holds, Doing
      <3>3. RowMoves(b)
        BY <2>8
      <3>4. QED
        BY <1>2, <2>8, <3>2, <3>3, Bystander DEF IInv
    <2>10. f.row \in Gone'
      BY <1>2, <2>8 DEF Gone
    <2>11. Sound(p, g, Gone', Fresh', rows')
      BY <2>4, <2>9, <2>10
    <2>12. Fits(p, g)'
      BY <2>5 DEF Fits
    <2>13. Marked'
      BY <2>7 DEF IInv, Marked
    <2>14. QED
      BY <2>4, <2>6, <2>8, <2>11, <2>12, <2>13, Moves
  <1>5. CASE /\ f.family = None
             /\ IF rows[f.row] = "processing" THEN SetRow(f.row, "pending") ELSE UNCHANGED rows
             /\ Become(p, Instead(f, <<>>))
             /\ UNCHANGED <<store, cancelRequested>>
    <2>1. PICK g : g = Instead(f, <<>>)
      OBVIOUS
    <2>2. /\ g \in Frame /\ g.prog = <<>> /\ g.family = None /\ g.rest = f.rest
          /\ g.child = f.child /\ g.todo = f.todo
      BY <1>2, <1>5, <2>1, Listed, InsteadFrame
    <2>3. /\ Shaped(p, g) /\ (\A labels : ~Doing(g, labels))
          /\ (\A j : ~Claims(g, j) /\ ~Holds(g, j))
          /\ \A gone, fresh, status : Sound(p, g, gone, fresh, status)
      BY <1>2, <1>5, <2>2, Stops
    <2>4. Become(p, g)
      BY <1>5, <2>1
    <2>5. UNCHANGED Fresh
      BY <1>2, <2>3, <2>4, FreshKept DEF IInv
    <2>6. World' /\ Lasts /\ Leaves({p}) /\ RowMoves(f)
      BY <1>2, <1>3, <1>5, <2>5, GiveBackEffect DEF IInv
    <2>7. FreshMoves
      BY <2>5 DEF FreshMoves
    <2>8. Marked'
      BY <1>2, <1>3, <1>5 DEF IInv, Marked, SetRow, World, StoreType
    <2>9. Fits(p, g)'
      BY <2>3 DEF Fits
    <2>10. Sound(p, g, Gone', Fresh', rows')
      BY <2>3
    <2>11. QED
      BY <2>3, <2>4, <2>6, <2>7, <2>8, <2>9, <2>10, Moves
  <1>6. QED
    BY <1>1, <1>4, <1>5

\* The frame of a job that a cancellation stopped.
LEMMA StoppedFrame ==
    ASSUME NEW j \in Job
    PROVE  LET b == [Blank EXCEPT !.mode = "cancelled"] IN
           /\ b \in Frame /\ b.prog = <<>> /\ Shaped(j, b) /\ (\A labels : ~Doing(b, labels))
           /\ (\A i : ~Claims(b, i) /\ ~Holds(b, i))
           /\ \A gone, fresh, status : Sound(j, b, gone, fresh, status)
  <1>1. PICK b : b = [Blank EXCEPT !.mode = "cancelled"]
    OBVIOUS
  <1>2. /\ b \in Frame /\ b.prog = <<>> /\ b.rest = <<>> /\ b.mode = "cancelled"
        /\ b.child = None /\ b.todo = {}
    BY <1>1, BlankIn DEF Modes
  <1>3. /\ \A labels : ~Doing(b, labels)
        /\ \A l : l \notin Todo(b.prog) /\ l \notin Todo(b.rest)
    BY <1>2, Short DEF Doing
  <1>4. Shape(j, b)
    BY <1>2, <1>3, Short DEF Shape, Waited
  <1>5. JobShape(j, b)
    BY <1>2, <1>3 DEF JobShape
  <1>6. Shaped(j, b)
    BY <1>2, <1>3, <1>4, <1>5 DEF Shaped
  <1>7. QED
    BY <1>1, <1>2, <1>3, <1>6 DEF Claims, Holds, Sound

\* The frame of a process that found out what to do with the row of a child.
LEMMA RunNext ==
    ASSUME NEW p \in Proc, NEW f, Shaped(p, f), Doing(f, {"cancelRun"}),
           NEW s \in {<<"terminalize", "settle", "kids">>, <<"settle", "kids">>, <<"kids">>}
    PROVE  LET g == Instead(f, s) IN
           /\ g \in Frame /\ Shaped(p, g) /\ g.prog # <<>> /\ ~Doing(g, Early)
           /\ ~Doing(g, {"cancelTerminalize"})
           /\ \A j : Holds(g, j) => Holds(f, j) \/ (s # <<"kids">> /\ j = f.row)
           /\ \A gone, fresh, status :
                 /\ Sound(p, f, gone, fresh, status)
                 /\ s # <<"kids">> => status[f.row] # "pending"
                 /\ s = <<"settle", "kids">> => f.row \in gone
                 /\ s = <<"terminalize", "settle", "kids">> => f.row \notin fresh
                 => Sound(p, g, gone, fresh, status)
  <1>1. /\ f.prog # <<>> /\ ~Doing(f, Early) /\ ~Doing(f, {"terminalize"}) /\ f \in Frame
    BY DEF Doing, Early, Shaped
  <1>2. "cancelRun" \in Todo(f.prog)
    <2>1. Todo(f.prog) = {Head(f.prog)} \cup Todo(Tail(f.prog))
      BY <1>1, FrameFields, Rests
    <2>2. QED
      BY <2>1 DEF Doing
  <1>3. /\ OwnRow(f) /\ f.family # None /\ f.exec \in Exec /\ (f.child # None => Parent[f.child] # None)
    BY <1>1, <1>2 DEF Shaped, Shape
  <1>4. /\ s \in Seq(Labels) /\ s # <<>> /\ Head(s) \in {"terminalize", "settle", "kids"}
        /\ Todo(s) \subseteq {"terminalize", "settle", "kids"}
        /\ Todo(Tail(s)) \subseteq {"settle", "kids"}
        /\ "settle" \in Todo(s) => s # <<"kids">>
        /\ s # <<"kids">> /\ s # <<"settle", "kids">> => Head(s) = "terminalize"
    <2>1. {"terminalize", "settle", "kids"} \subseteq Labels
      BY DEF Labels
    <2>2. CASE s = <<"kids">>
      BY <2>1, <2>2, Listed, Short
    <2>3. CASE s = <<"settle", "kids">>
      BY <2>1, <2>3, Listed, Short
    <2>4. CASE s = <<"terminalize", "settle", "kids">>
      BY <2>1, <2>4, Listed, Short
    <2>5. QED
      BY <2>2, <2>3, <2>4
  <1>5. PICK g : g = Instead(f, s)
    OBVIOUS
  <1>6. /\ g \in Frame /\ g.prog = s /\ g.mode = f.mode /\ g.exec = f.exec /\ g.row = f.row
        /\ g.child = f.child /\ g.todo = f.todo /\ g.family = f.family /\ g.home = f.home
        /\ g.rest = f.rest
    BY <1>1, <1>4, <1>5, InsteadFrame
  <1>7. /\ ~Doing(g, Early) /\ ~Doing(g, Cancels) /\ ~Doing(g, {"tell", "submit"})
        /\ \A a \in Early \cup {"cancelTerminalize"} : ~Doing(g, {a})
        /\ Head(s) = "terminalize" => Doing(g, {"terminalize"})
    BY <1>4, <1>6 DEF Doing, Early, Cancels
  <1>8. Shape(p, g)
    BY <1>3, <1>4, <1>6, <1>7 DEF Shape, Shaped, After, OwnRow
  <1>9. p \in Job => JobShape(p, g)
    <2>1. SUFFICES ASSUME p \in Job PROVE JobShape(p, g)
      OBVIOUS
    <2>2. f.home = p /\ f.family = p[1]
      BY <1>1, <1>3, <2>1 DEF JobShape, Shaped
    <2>3. QED
      BY <1>3, <1>6, <1>7, <2>2 DEF JobShape, Early
  <1>10. Shaped(p, g)
    BY <1>6, <1>7, <1>8, <1>9 DEF Shaped
  <1>11. \A j : Holds(g, j) => Holds(f, j) \/ (s # <<"kids">> /\ j = f.row)
    BY <1>4, <1>6, <1>7 DEF Holds, Claims
  <1>12. ASSUME NEW gone, NEW fresh, NEW status, Sound(p, f, gone, fresh, status),
                s # <<"kids">> => status[f.row] # "pending",
                s = <<"settle", "kids">> => f.row \in gone,
                s = <<"terminalize", "settle", "kids">> => f.row \notin fresh
         PROVE  Sound(p, g, gone, fresh, status)
    <2>1. p \in Job => p \in gone \/ g.mode = "cancelled"
      BY <1>1, <1>3, <1>6, <1>12 DEF Sound
    <2>2. "settle" \in Todo(g.prog) =>
             /\ status[g.row] # "pending"
             /\ g.row \in gone \/ (Doing(g, {"terminalize"}) /\ g.row \notin fresh)
      BY <1>4, <1>6, <1>7, <1>12
    <2>3. "settle" \in Todo(g.rest) => status[g.home] # "pending" /\ g.home \in gone
      BY <1>6, <1>12 DEF Sound
    <2>4. QED
      BY <1>7, <2>1, <2>2, <2>3 DEF Sound
  <1>13. QED
    BY <1>4, <1>5, <1>6, <1>7, <1>10, <1>11, <1>12

LEMMA CancelRunKeeps ==
    ASSUME IInv, NEW p \in Proc, CancelRun(p)
    PROVE  IInv'
  <1> DEFINE f == proc[p]
             j == f.row
             stop == rows[j] = "processing" /\ (Active(j) \/ proc[j].mode = "cancelled")
             over == rows[j] = "processing" /\ Idle(j) /\ ~stop
             program == IF stop THEN <<"terminalize", "settle", "kids">>
                        ELSE IF over THEN <<"settle", "kids">> ELSE <<"kids">>
  <1>1. /\ At(p, "cancelRun") /\ UNCHANGED <<store, rows, cancelRequested>>
        /\ proc' = [q \in Proc |->
             IF q = p THEN Instead(f, CASE stop -> <<"terminalize", "settle", "kids">>
                                        [] over -> <<"settle", "kids">>
                                        [] OTHER -> <<"kids">>)
             ELSE IF q = j /\ stop THEN [Blank EXCEPT !.mode = "cancelled"]
             ELSE proc[q]]
    BY DEF CancelRun, queue
  <1>2. PICK s : s = program
    OBVIOUS
  <1>3. s = CASE stop -> <<"terminalize", "settle", "kids">>
              [] over -> <<"settle", "kids">>
              [] OTHER -> <<"kids">>
    BY <1>2
  <1>4. PICK g : g = Instead(f, s)
    OBVIOUS
  <1>5. PICK b : b = [Blank EXCEPT !.mode = "cancelled"]
    OBVIOUS
  <1>6. proc' = [q \in Proc |-> IF q = p THEN g ELSE IF q = j /\ stop THEN b ELSE proc[q]]
    BY <1>1, <1>3, <1>4, <1>5
  <1>7. /\ Doing(f, Later) /\ Doing(f, {"cancelRun"}) /\ f.prog # <<>> /\ ~Doing(f, {"unstarted"})
        /\ "cancelRun" \in Todo(f.prog)
    <2>1. /\ Doing(f, Later) /\ Doing(f, {"cancelRun"}) /\ f.prog # <<>> /\ ~Doing(f, {"unstarted"})
      BY <1>1 DEF At, Doing, Later
    <2>2. QED
      BY <2>1, ServeFacts DEF Doing
  <1>8. f \in Frame /\ Shaped(p, f) /\ Sound(p, f, Gone, Fresh, rows) /\ j \in Job /\ j \in Proc
    BY <1>7, ServeFacts, Jobs DEF Shape, OwnRow
  <1>9. /\ proc[j] \in Frame /\ Shaped(j, proc[j]) /\ Sound(j, proc[j], Gone, Fresh, rows)
    BY <1>8 DEF IInv, Framed
  <1>10. stop => j \notin Fresh
    <2>1. SUFFICES ASSUME stop, At(j, "unstarted") PROVE FALSE
      BY DEF Fresh
    <2>2. proc[j] = JobFrame(j)
      BY <1>8, <1>9, <2>1 DEF Shaped, JobShape, At, Doing
    <2>3. proc[j].mode = "job"
      BY <1>8, <2>2, JobFrames
    <2>4. QED
      BY <2>1, <2>3 DEF Active
  <1>11. over => j \in Gone /\ j \notin Fresh
    <2>1. SUFFICES ASSUME over PROVE j \in Gone /\ j \notin Fresh
      OBVIOUS
    <2>2. proc[j].prog = <<>> /\ proc[j].mode # "cancelled"
      BY <2>1 DEF Idle
    <2>3. QED
      BY <1>8, <1>9, <2>2 DEF Sound, Doing, Fresh, At
  <1>12. /\ s \in {<<"terminalize", "settle", "kids">>, <<"settle", "kids">>, <<"kids">>}
         /\ s # <<"kids">> => rows[j] # "pending" /\ j \notin Fresh
         /\ s = <<"settle", "kids">> => j \in Gone
         /\ s = <<"terminalize", "settle", "kids">> => j \notin Fresh
    <2>1. /\ <<"settle", "kids">> # <<"kids">> /\ <<"terminalize", "settle", "kids">> # <<"kids">>
          /\ <<"terminalize", "settle", "kids">> # <<"settle", "kids">>
      BY Short
    <2>2. QED
      BY <1>2, <1>10, <1>11, <2>1
  <1>13. /\ g \in Frame /\ Shaped(p, g) /\ g.prog # <<>> /\ ~Doing(g, Early)
         /\ ~Doing(g, {"cancelTerminalize"}) /\ Sound(p, g, Gone, Fresh, rows)
         /\ \A i : Holds(g, i) => Holds(f, i) \/ i \notin Fresh
    BY <1>4, <1>7, <1>8, <1>12, RunNext
  <1>14. Marked'
    BY <1>1 DEF IInv, Marked
  <1>15. CASE ~(stop /\ j # p)
    <2>1. proc' = [proc EXCEPT ![p] = g]
      BY <1>6, <1>15 DEF IInv
    <2>2. Become(p, g)
      BY <1>13, <2>1 DEF Become
    <2>3. QED
      BY <1>1, <1>7, <1>13, <1>14, <2>2, CancelQuiet
  <1>16. CASE stop /\ j # p
    <2>1. /\ b \in Frame /\ Shaped(j, b) /\ (\A labels : ~Doing(b, labels)) /\ b.prog = <<>>
          /\ (\A i : ~Claims(b, i) /\ ~Holds(b, i))
          /\ \A gone, fresh, status : Sound(j, b, gone, fresh, status)
      BY <1>5, <1>8, StoppedFrame
    <2>2. /\ proc' \in [Proc -> Frame] /\ proc'[p] = g /\ proc'[j] = b
          /\ \A q \in Proc \ {p, j} : proc'[q] = proc[q]
      BY <1>6, <1>8, <1>13, <1>16, <2>1 DEF IInv
    <2>3. UNCHANGED Fresh
      <3>1. ASSUME NEW i \in Job PROVE At(i, "unstarted")' <=> At(i, "unstarted")
        <4>1. CASE i = p
          BY <1>7, <1>13, <2>2, <4>1 DEF At, Doing, Early
        <4>2. CASE i = j
          BY <1>10, <1>16, <2>1, <2>2, <4>2 DEF At, Fresh
        <4>3. CASE i # p /\ i # j
          BY <2>2, <4>3, Jobs DEF At
        <4>4. QED
          BY <4>1, <4>2, <4>3
      <3>2. QED
        BY <3>1 DEF Fresh
    <2>4. World' /\ Lasts /\ Leaves({}) /\ \A i : Past(i)' <=> Past(i)
      BY <1>1, <2>3, Quiet DEF IInv
    <2>5. Gone' = Gone
      BY <2>4 DEF Gone
    <2>6. ASSUME NEW q \in Proc PROVE Framed(q)'
      <3>1. CASE q = p
        <4>1. /\ ~Doing(g, {"unstarted", "begin"}) /\ ~Doing(g, {"unstarted", "claim"})
              /\ ~Doing(g, {"run", "save"})
          BY <1>13 DEF Doing, Early
        <4>2. Fits(p, g)'
          BY <4>1 DEF Fits
        <4>3. Sound(p, g, Gone', Fresh', rows')
          BY <1>1, <1>13, <2>3, <2>5
        <4>4. QED
          BY <1>13, <2>2, <3>1, <4>2, <4>3 DEF Framed
      <3>2. CASE q = j
        <4>1. Fits(q, b)'
          BY <2>1 DEF Fits
        <4>2. Shaped(q, b) /\ Sound(q, b, Gone', Fresh', rows') /\ proc'[q] = b
          BY <2>1, <2>2, <3>2
        <4>3. QED
          BY <4>1, <4>2 DEF Framed
      <3>3. CASE q # p /\ q # j
        <4>1. PICK h \in Frame : h = proc[q]
          BY DEF IInv
        <4>2. Shaped(q, h) /\ (q \in Job => Fits(q, h)) /\ Sound(q, h, Gone, Fresh, rows)
          BY <4>1 DEF IInv, Framed
        <4>3. q \in Job => Fits(q, h)'
          BY <2>4, <4>2 DEF Leaves
        <4>4. Sound(q, h, Gone', Fresh', rows')
          BY <1>1, <2>3, <2>5, <4>2
        <4>5. proc'[q] = h
          BY <2>2, <3>3, <4>1
        <4>6. QED
          BY <4>2, <4>3, <4>4, <4>5 DEF Framed
      <3>4. QED
        BY <3>1, <3>2, <3>3
    <2>7. Exclusive'
      <3> SUFFICES ASSUME NEW a \in Proc, NEW c \in Proc, NEW i \in Job, a # c,
                          Claims(proc'[a], i), Holds(proc'[c], i)
                   PROVE  FALSE
        BY DEF Exclusive
      <3>1. a # p /\ a # j
        BY <1>13, <2>1, <2>2 DEF Claims
      <3>2. Claims(proc[a], i)
        BY <2>2, <3>1
      <3>3. i \in Fresh
        BY <3>2 DEF IInv, Framed, Sound, Claims
      <3>4. c # j
        BY <2>1, <2>2
      <3>5. Holds(proc[c], i)
        BY <1>13, <2>2, <3>3, <3>4
      <3>6. QED
        BY <3>2, <3>5 DEF IInv, Exclusive
    <2>8. QED
      BY <1>14, <2>2, <2>4, <2>6, <2>7 DEF IInv
  <1>17. QED
    BY <1>15, <1>16

-----------------------------------------------------------------------------
(* Reviewers, users and the blocks that queue a child.                      *)

\* A step that moves no process.
LEMMA OthersKeep ==
    ASSUME IInv, UNCHANGED proc, World', Marked', Lasts, \A jobs : Leaves(jobs),
           \A f : RowMoves(f)
    PROVE  IInv'
  <1>1. Fresh' = Fresh /\ FreshMoves
    BY DEF Fresh, At, FreshMoves
  <1>2. PICK b : b = Blank
    OBVIOUS
  <1>3. \A j : ~Claims(b, j) /\ ~Holds(b, j)
    BY <1>2, BlankFrame, Short DEF Claims, Holds, Doing
  <1>4. RowMoves(b)
    OBVIOUS
  <1>5. ASSUME NEW q \in Proc PROVE Framed(q)'
    <2>1. PICK h \in Frame : h = proc[q]
      BY DEF IInv
    <2>2. Shaped(q, h) /\ (q \in Job => Fits(q, h)) /\ Sound(q, h, Gone, Fresh, rows)
      BY <2>1 DEF IInv, Framed
    <2>3. Sound(q, h, Gone', Fresh', rows')
      BY <1>1, <1>3, <1>4, <2>2, Bystander DEF IInv
    <2>4. q \in Job => Fits(q, h)'
      <3>1. Leaves({})
        OBVIOUS
      <3>2. QED
        BY <2>2, <3>1 DEF Leaves
    <2>5. proc'[q] = h
      BY <2>1
    <2>6. QED
      BY <2>2, <2>3, <2>4, <2>5 DEF Framed
  <1>6. Exclusive'
    BY DEF IInv, Exclusive
  <1>7. QED
    BY <1>5, <1>6 DEF IInv

LEMMA SubmitKeeps ==
    ASSUME IInv, NEW e \in Exec, NEW r, NEW point, Submit(e, r, point)
    PROVE  IInv'
  <1>1. SubmitPoint(e, r, point) /\ UNCHANGED <<log, paused, cancelRequested, proc>>
    BY DEF Submit
  <1>2. UNCHANGED Fresh
    BY <1>1 DEF Fresh, At
  <1>3. World' /\ Lasts /\ (\A jobs : Leaves(jobs)) /\ (\A f : RowMoves(f))
    BY <1>1, <1>2, SubmitEffect DEF IInv
  <1>4. Marked'
    BY <1>1, LogTypes DEF IInv, Marked, World, SubmitPoint, SetRow, StoreType
  <1>5. QED
    BY <1>1, <1>3, <1>4, OthersKeep

LEMMA RequestKeeps ==
    ASSUME IInv, NEW j \in Job, NEW c \in Exec, RequestChild(j, c)
    PROVE  IInv'
  <1>1. PICK i : i = <<c, 0>>
    OBVIOUS
  <1>2. /\ log[c] = "none" /\ rows[i] = "absent" /\ SetRow(i, "pending")
        /\ UNCHANGED <<store, cancelRequested, proc>>
    BY <1>1 DEF RequestChild
  <1>3. i \in Job /\ i[1] = c /\ i[2] = 0
    BY <1>1, Jobs
  <1>4. UNCHANGED Fresh
    BY <1>2 DEF Fresh, At
  <1>5. ~Past(i)
    BY <1>2, <1>3 DEF Past, Ended
  <1>6. World' /\ Lasts /\ (\A jobs : Leaves(jobs)) /\ (\A f : RowMoves(f))
    BY <1>2, <1>3, <1>4, <1>5, InsertEffect DEF IInv
  <1>7. Marked'
    BY <1>2, <1>3 DEF IInv, Marked, SetRow, World, StoreType
  <1>8. QED
    BY <1>2, <1>6, <1>7, OthersKeep

LEMMA UserKeeps ==
    ASSUME IInv, NEW u \in User, NEW j \in Job, CancelByUser(u, j)
    PROVE  IInv'
  <1> DEFINE f == proc[u]
  <1>1. Idle(u) /\ Become(u, Cancelling(f, j)) /\ UNCHANGED <<store, queue>>
    BY DEF CancelByUser
  <1>2. u \in Proc /\ u \notin Job /\ j \in Job /\ j[1] \in Exec /\ j[1] # None
    BY CheckpointAssumption, Jobs DEF Proc
  <1>3. f.prog = <<>> /\ f \in Frame /\ Shape(u, f) /\ Sound(u, f, Gone, Fresh, rows)
    BY <1>1, <1>2 DEF Idle, IInv, Framed, Shaped
  <1>4. PICK g : g = Cancelling(f, j)
    OBVIOUS
  <1>5. /\ g \in Frame /\ g.prog = <<"cancelRead">> /\ g.mode = f.mode /\ g.exec = j[1]
        /\ g.row = j /\ g.child = f.child /\ g.family = f.family /\ g.home = f.home
        /\ g.rest = f.rest /\ g.todo = f.todo /\ g.owner = None
    <2>1. PICK h : h = Instead(f, <<"cancelRead">>)
      OBVIOUS
    <2>2. <<"cancelRead">> \in Seq(Labels)
      BY Listed DEF Labels
    <2>3. /\ h \in Frame /\ h.prog = <<"cancelRead">> /\ h.mode = f.mode /\ h.todo = f.todo
          /\ h.child = f.child /\ h.family = f.family /\ h.home = f.home /\ h.rest = f.rest
      BY <1>3, <2>1, <2>2, InsteadFrame
    <2>4. g = [h EXCEPT !.exec = j[1], !.row = j, !.owner = None]
      BY <1>4, <2>1 DEF Cancelling
    <2>5. QED
      BY <1>2, <2>3, <2>4 DEF Frame
  <1>6. /\ Todo(g.prog) = {"cancelRead"} /\ g.prog # <<>> /\ Head(g.prog) = "cancelRead"
        /\ Tail(g.prog) = <<>> /\ Todo(<<>>) = {}
    BY <1>5, Short
  <1>7. /\ ~Doing(g, Early) /\ ~Doing(g, {"tell", "submit"})
        /\ \A l \in Early \cup {"terminalize", "cancelTerminalize"} : ~Doing(g, {l})
        /\ ~Doing(f, {"unstarted"})
    BY <1>3, <1>6 DEF Doing, Early
  <1>8. Shape(u, g)
    BY <1>2, <1>3, <1>5, <1>6, <1>7 DEF Shape, OwnRow
  <1>9. Shaped(u, g)
    BY <1>2, <1>5, <1>7, <1>8 DEF Shaped
  <1>10. Sound(u, g, Gone, Fresh, rows)
    BY <1>2, <1>3, <1>5, <1>6, <1>7 DEF Sound
  <1>11. \A i : Holds(g, i) => Holds(f, i)
    BY <1>5, <1>6, <1>7 DEF Holds, Claims
  <1>12. Become(u, g) /\ Marked'
    BY <1>1, <1>4 DEF IInv, Marked, queue
  <1>13. QED
    BY <1>1, <1>2, <1>7, <1>9, <1>10, <1>11, <1>12, CancelQuiet DEF queue

-----------------------------------------------------------------------------
(* The invariant.                                                           *)

LEMMA InitInv == Init => IInv
  <1> SUFFICES ASSUME Init PROVE IInv
    OBVIOUS
  <1>1. /\ log = [e \in Exec |-> "none"] /\ checkpoint = [e \in Exec |-> NoCheckpoint]
        /\ paused = {} /\ cancelRequested = {}
        /\ rows = [j \in Job |-> IF j[2] = 0 /\ Parent[j[1]] = None THEN "pending" ELSE "absent"]
        /\ proc = [p \in Proc |-> IF p \in Job THEN JobFrame(p) ELSE Blank]
    BY DEF Init
  <1>2. ASSUME NEW j \in Job
        PROVE  /\ proc[j] = JobFrame(j) /\ At(j, "unstarted") /\ j \in Fresh /\ j \in Proc
    BY <1>1, FirstFrame, Jobs DEF At, Fresh
  <1>3. ASSUME NEW u \in Proc \ Job PROVE proc[u] = Blank
    BY <1>1
  <1>4. StoreType
    BY <1>1, NoCheckpointType DEF StoreType, Statuses
  <1>5. ASSUME NEW e \in Exec PROVE LogOK(e)
    <2>1. checkpoint[e] = NoCheckpoint
      BY <1>1
    <2>2. QED
      BY <1>1, <2>1, NoCheckpointType DEF LogOK, Waited
  <1>6. ASSUME NEW j \in Job PROVE RowOK(j)
    <2>1. j[2] # 0 => rows[j] = "absent"
      BY <1>1
    <2>2. QED
      BY <1>2, <2>1 DEF RowOK
  <1>7. ASSUME NEW j \in Job PROVE Framed(j)
    <2>1. PICK f : f = JobFrame(j)
      OBVIOUS
    <2>2. /\ Shaped(j, f) /\ Head(f.prog) = "unstarted" /\ Todo(f.prog) = {"unstarted"}
          /\ Todo(f.rest) = {} /\ f.prog # <<>>
      BY <2>1, FirstFrame
    <2>3. log[j[1]] = "none" /\ checkpoint[j[1]].active = FALSE
      BY <1>1, NoCheckpointType, Jobs
    <2>4. Fits(j, f)
      BY <2>2, <2>3 DEF Fits, Doing
    <2>5. Sound(j, f, Gone, Fresh, rows)
      BY <2>2 DEF Sound, Doing, Early
    <2>6. QED
      BY <1>2, <2>1, <2>2, <2>4, <2>5 DEF Framed
  <1>8. ASSUME NEW u \in Proc \ Job PROVE Framed(u)
    <2>1. PICK b : b = Blank
      OBVIOUS
    <2>2. /\ b \in Frame /\ b.prog = <<>> /\ b.rest = <<>> /\ b.child = None /\ b.todo = {}
          /\ Todo(<<>>) = {}
      BY <2>1, BlankFrame, Short
    <2>3. Shaped(u, b)
      BY <2>2 DEF Shaped, Shape, Doing, Waited
    <2>4. Sound(u, b, Gone, Fresh, rows)
      BY <2>2 DEF Sound, Doing
    <2>5. QED
      BY <1>3, <2>1, <2>3, <2>4 DEF Framed
  <1>9. \A p \in Proc : proc[p] \in Frame /\ Framed(p)
    BY <1>7, <1>8 DEF Framed, Shaped
  <1>10. proc \in [Proc -> Frame]
    BY <1>1, <1>9
  <1>11. Exclusive
    <2>1. ASSUME NEW p \in Proc, NEW j \in Job PROVE ~Claims(proc[p], j)
      <3>1. CASE p \in Job
        BY <3>1, <1>2 DEF Claims, Doing, At
      <3>2. CASE p \notin Job
        <4>1. proc[p].prog = <<>>
          BY <1>3, <3>2, BlankFrame
        <4>2. QED
          BY <4>1 DEF Claims, Doing
      <3>3. QED
        BY <3>1, <3>2
    <2>2. QED
      BY <2>1 DEF Exclusive
  <1>12. QED
    BY <1>1, <1>4, <1>5, <1>6, <1>9, <1>10, <1>11 DEF IInv, World, Marked

LEMMA NextInv == IInv /\ [Next]_vars => IInv'
  <1> SUFFICES ASSUME IInv, [Next]_vars PROVE IInv'
    OBVIOUS
  <1>1. ASSUME NEW e \in Exec, NEW r \in Segment, NEW point \in ReviewPoint, Submit(e, r, point)
        PROVE  IInv'
    BY <1>1, SubmitKeeps
  <1>2. ASSUME NEW j \in Job, Dispatch(j) PROVE IInv'
    BY <1>2, DispatchKeeps
  <1>3. ASSUME NEW j \in Job, RunSegment(j) PROVE IInv'
    BY <1>3, BeginKeeps, ClaimKeeps, SaveKeeps, FinalizeKeeps, FailKeeps DEF RunSegment
  <1>4. ASSUME NEW j \in Job, EndSegment(j) PROVE IInv'
    BY <1>4, PauseKeeps, SucceedKeeps, FailKeeps DEF EndSegment
  <1>5. ASSUME NEW j \in Job, JobKilled(j) \/ SupervisorCrash(j) PROVE IInv'
    BY <1>5, JobKilledKeeps
  <1>6. ASSUME NEW j \in Job, NEW c \in Exec, RequestChild(j, c) PROVE IInv'
    BY <1>6, RequestKeeps
  <1>7. ASSUME NEW p \in Proc, Serve(p) PROVE IInv'
    <2>1. CASE ReadParent(p) \/ SubmitChild(p) \/ ReconcileChildren(p) \/ RepairChild(p)
      BY <2>1, ReadParentKeeps, SubmitChildKeeps, ReconcileKeeps, RepairKeeps
    <2>2. CASE SettleRow(p) \/ Terminalize(p) \/ ListDescendants(p) \/ NextDescendant(p)
      BY <2>2, SettleKeeps, TerminalizeKeeps, ListKeeps, NextKeeps
    <2>3. CASE CancelRead(p) \/ CancelMark(p) \/ Decide(p) \/ CancelClaim(p)
      BY <2>3, CancelReadKeeps, CancelMarkKeeps, DecideKeeps, CancelClaimKeeps
    <2>4. CASE CancelTerminalize(p) \/ CancelRun(p)
      BY <2>4, CancelTerminalizeKeeps, CancelRunKeeps
    <2>5. QED
      BY <1>7, <2>1, <2>2, <2>3, <2>4 DEF Serve
  <1>8. ASSUME NEW u \in User, NEW j \in Job, CancelByUser(u, j) PROVE IInv'
    BY <1>8, UserKeeps
  <1>9. CASE UNCHANGED vars
    <2>1. UNCHANGED <<store, rows, cancelRequested, proc>>
      BY <1>9 DEF vars, store, queue
    <2>2. UNCHANGED Fresh
      BY <2>1 DEF Fresh, At
    <2>3. World' /\ Lasts /\ (\A jobs : Leaves(jobs)) /\ (\A f : RowMoves(f))
      BY <2>1, <2>2, Quiet DEF IInv
    <2>4. Marked'
      BY <2>1 DEF IInv, Marked
    <2>5. QED
      BY <2>1, <2>3, <2>4, OthersKeep
  <1>10. QED
    BY <1>1, <1>2, <1>3, <1>4, <1>5, <1>6, <1>7, <1>8, <1>9 DEF Next

\* What the log, the queue and the frames say of each other always holds.
THEOREM Invariant == Spec => []IInv
  <1>1. QED
    BY InitInv, NextInv, PTL DEF Spec
-----------------------------------------------------------------------------
(* Theorems.                                                                *)

LEMMA Typed == IInv => TypeOK
  BY DEF IInv, World, StoreType, Marked, TypeOK, Statuses

\* TypeOK: every variable has its type, and a cancellation request is kept on
\* a row that is in the queue.
THEOREM TypeCorrect == Spec => []TypeOK
  <1>1. QED
    BY Invariant, Typed, PTL

\* What a job that runs, or is about to save, knows of its execution.
LEMMA RunningFits ==
    ASSUME IInv, NEW j \in Job, Running(j), log[j[1]] = "running"
    PROVE  /\ j[1] \notin paused /\ checkpoint[j[1]].revision = j[2]
           /\ j[2] # 0 => checkpoint[j[1]].active
           /\ At(j, "save") => j[2] < MaxRevision
  <1>1. /\ Doing(proc[j], {"run", "save"})
        /\ At(j, "save") => Doing(proc[j], {"save"})
    BY DEF Running, At, Doing
  <1>2. Fits(j, proc[j])
    BY Jobs DEF IInv, Framed
  <1>3. QED
    BY <1>1, <1>2 DEF Fits

\* OneSegmentRuns: two jobs never run segments of one execution, and the one
\* that runs is the segment of the revision in the log row.
THEOREM OneSegment == Spec => []OneSegmentRuns
  <1>1. IInv => OneSegmentRuns
    <2> SUFFICES ASSUME IInv, NEW j \in Job, Running(j), log[j[1]] = "running"
                 PROVE  /\ j[1] \notin paused /\ checkpoint[j[1]].revision = j[2]
                        /\ \A r \in Segment : Running(<<j[1], r>>) => r = j[2]
      BY DEF OneSegmentRuns
    <2>1. j[1] \notin paused /\ checkpoint[j[1]].revision = j[2]
      BY RunningFits
    <2>2. ASSUME NEW r \in Segment, Running(<<j[1], r>>) PROVE r = j[2]
      <3>1. PICK i : i = <<j[1], r>>
        OBVIOUS
      <3>2. i \in Job /\ i[1] = j[1] /\ i[2] = r /\ Running(i)
        BY <2>2, <3>1, Jobs
      <3>3. checkpoint[j[1]].revision = r
        BY <3>2, RunningFits
      <3>4. QED
        BY <2>1, <3>3
    <2>3. QED
      BY <2>1, <2>2
  <1>2. QED
    BY <1>1, Invariant, PTL

\* AnsweredIsQueued: while the continuation of an answered pause is due, its
\* row is in the queue.
THEOREM AnsweredQueued == Spec => []AnsweredIsQueued
  <1>1. IInv => AnsweredIsQueued
    BY DEF IInv, World, StoreType, LogOK, AnsweredIsQueued
  <1>2. QED
    BY <1>1, Invariant, PTL

-----------------------------------------------------------------------------
(* What a step does to the log row of an execution, as its review page      *)
(* shows it.                                                                *)

Page == [e \in Exec |-> ReviewStatus(e)]
Revisions == [e \in Exec |-> checkpoint[e].revision]
Open == [e \in Exec |-> checkpoint[e].points \ checkpoint[e].submitted]

Elsewhere(e) ==
    \A d \in Exec \ {e} : /\ log'[d] = log[d] /\ checkpoint'[d] = checkpoint[d]
                          /\ d \in paused' <=> d \in paused

Started(e) ==
    /\ log[e] = "none" /\ log' = [log EXCEPT ![e] = "running"]
    /\ UNCHANGED <<checkpoint, paused>>

Claimed(e) ==
    /\ log[e] = "running" /\ e \in paused /\ checkpoint[e].active
    /\ paused' = paused \ {e}
    /\ UNCHANGED <<log, checkpoint>>

Saved(j) ==
    /\ log[j[1]] = "running" /\ j \notin cancelRequested /\ At(j, "save")
    /\ checkpoint' = [checkpoint EXCEPT ![j[1]] =
            [NoCheckpoint EXCEPT !.revision = checkpoint[j[1]].revision + 1,
                                 !.points = proc[j].points]]
    /\ paused' = paused \cup {j[1]}
    /\ UNCHANGED log

AnsweredAt(e, point) ==
    LET c == checkpoint[e]
        all == c.submitted \cup {point} = c.points
    IN /\ log[e] = "running" /\ e \in paused /\ ~c.active
       /\ point \in c.points \ c.submitted
       /\ checkpoint' = [checkpoint EXCEPT ![e].submitted = @ \cup {point}, ![e].active = all]
       /\ UNCHANGED <<log, paused>>

TakenBack(e) ==
    /\ log[e] = "running" /\ ~checkpoint[e].active
    /\ paused' = paused \ {e}
    /\ UNCHANGED <<log, checkpoint>>

Succeeded(j) == Running(j) /\ log[j[1]] # "none" /\ EndLog(j[1], "success")

Effect ==
    \/ UNCHANGED store
    \/ \E e \in Exec : Started(e) \/ Claimed(e) \/ TakenBack(e) \/ EndLog(e, "error")
    \/ \E e \in Exec, point \in Point : AnsweredAt(e, point)
    \/ \E j \in Job : Saved(j) \/ Succeeded(j)

LEMMA BeginHas == ASSUME IInv, NEW j \in Job, Begin(j) PROVE Effect
  <1>1. j[1] \in Exec
    BY Jobs
  <1>2. CASE log[j[1]] = "none"
    BY <1>1, <1>2 DEF Begin, Started, Effect
  <1>3. CASE log[j[1]] # "none"
    <2>1. UNCHANGED log
      BY <1>1, <1>3 DEF Begin, IInv, World, StoreType
    <2>2. QED
      BY <2>1 DEF Begin, Effect, store
  <1>4. QED
    BY <1>2, <1>3

LEMMA ClaimHas == ASSUME IInv, NEW j \in Job, ClaimCheckpoint(j) PROVE Effect
  <1>1. j[1] \in Exec
    BY Jobs
  <1>2. CASE UNCHANGED paused
    BY <1>2 DEF ClaimCheckpoint, Effect, store
  <1>3. CASE ~(UNCHANGED paused)
    BY <1>1, <1>3 DEF ClaimCheckpoint, Effect, Claimed
  <1>4. QED
    BY <1>2, <1>3

LEMMA SaveHas == ASSUME IInv, NEW j \in Job, Save(j) PROVE Effect
  <1>1. CASE UNCHANGED <<checkpoint, paused>>
    BY <1>1 DEF Save, Effect, store
  <1>2. CASE ~(UNCHANGED <<checkpoint, paused>>)
    <2>1. Saved(j)
      BY <1>2 DEF Save, Saved
    <2>2. QED
      BY <2>1 DEF Effect
  <1>3. QED
    BY <1>1, <1>2

LEMMA SucceedHas == ASSUME IInv, NEW j \in Job, Succeed(j) PROVE Effect
  <1>1. Running(j) /\ Doing(proc[j], {"run", "save"}) /\ EndLog(j[1], "success")
    BY DEF Succeed, Running, At, Doing
  <1>2. log[j[1]] # "none"
    BY <1>1, Jobs DEF IInv, Framed, Fits
  <1>3. QED
    BY <1>1, <1>2 DEF Succeeded, Effect

LEMMA SubmitPointHas ==
    ASSUME IInv, NEW e \in Exec, NEW r, NEW point, SubmitPoint(e, r, point),
           UNCHANGED <<log, paused>>
    PROVE  Effect
  <1> DEFINE c == checkpoint[e]
             current == log[e] = "running" /\ c.revision = r /\ point \in c.points
             first == current /\ point \notin c.submitted /\ e \in paused /\ ~c.active
  <1>1. CASE first
    <2>1. AnsweredAt(e, point)
      BY <1>1 DEF SubmitPoint, AnsweredAt
    <2>2. point \in Point
      BY <1>1, LogTypes DEF IInv, World
    <2>3. QED
      BY <2>1, <2>2 DEF Effect
  <1>2. CASE ~first
    BY <1>2 DEF SubmitPoint, Effect, store
  <1>3. QED
    BY <1>1, <1>2

LEMMA DecideHas == ASSUME IInv, NEW p \in Proc, Decide(p) PROVE Effect
  <1> DEFINE f == [proc[p] EXCEPT !.read = "absent"]
             e == f.exec
             job == ResumeJob(e)
             reviewed == checkpoint[e].revision # 0
             live == log[e] = "running" /\ (proc[p].read = "processing" \/ reviewed)
             active == live /\ checkpoint[e].active /\ (rows[job] # "absent" \/ job = f.owner)
             takeBack == live /\ reviewed /\ ~active
  <1>1. IF takeBack
        THEN /\ paused' = paused \ {e}
             /\ checkpoint' = [checkpoint EXCEPT ![e].active = FALSE]
        ELSE UNCHANGED <<paused, checkpoint>>
    BY DEF Decide
  <1>2. UNCHANGED log
    BY DEF Decide
  <1>3. e \in Exec
    <2>1. At(p, "decide")
      BY DEF Decide
    <2>2. proc[p].exec \in Exec /\ proc[p] \in Frame
      BY <2>1 DEF At, IInv, Framed, Shaped, Shape
    <2>3. QED
      BY <2>2 DEF Frame
  <1> HIDE DEF f
  <1>4. CASE takeBack
    <2>1. ~checkpoint[e].active
      BY <1>3, <1>4 DEF IInv, World, LogOK
    <2>2. checkpoint[e] \in [revision : Segment, points : SUBSET Point,
                             submitted : SUBSET Point, active : BOOLEAN]
      BY <1>3 DEF IInv, World, StoreType
    <2>3. [checkpoint[e] EXCEPT !.active = FALSE] = checkpoint[e]
      BY <2>1, <2>2
    <2>4. UNCHANGED checkpoint
      BY <1>1, <1>3, <1>4, <2>3 DEF IInv, World, StoreType
    <2>5. TakenBack(e)
      BY <1>1, <1>2, <1>4, <2>1, <2>4 DEF TakenBack
    <2>6. QED
      BY <1>3, <2>5 DEF Effect
  <1>5. CASE ~takeBack
    BY <1>1, <1>2, <1>5 DEF Effect, store
  <1>6. QED
    BY <1>4, <1>5

LEMMA ServeHas == ASSUME IInv, NEW p \in Proc, Serve(p) PROVE Effect
  <1>1. proc[p].prog # <<>> => proc[p].exec \in Exec
    BY DEF IInv, Framed, Shaped, Shape
  <1>2. CASE ReadParent(p) \/ ReconcileChildren(p) \/ RepairChild(p) \/ SettleRow(p)
             \/ ListDescendants(p) \/ NextDescendant(p) \/ CancelRead(p) \/ CancelMark(p)
             \/ CancelClaim(p) \/ CancelRun(p)
    BY <1>2 DEF Effect, ReadParent, ReconcileChildren, RepairChild, SettleRow,
       ListDescendants, NextDescendant, CancelRead, CancelMark, CancelClaim, CancelRun
  <1>3. CASE SubmitChild(p)
    <2>1. /\ SubmitPoint(Parent[proc[p].child], proc[p].seen, proc[p].child)
          /\ UNCHANGED <<log, paused>> /\ Doing(proc[p], {"tell", "submit"})
      BY <1>3 DEF SubmitChild, At, Doing
    <2>2. Parent[proc[p].child] \in Exec
      BY <2>1, Jobs, FrameFields DEF IInv, Framed, Shaped, Shape
    <2>3. QED
      BY <2>1, <2>2, SubmitPointHas
  <1>4. CASE Terminalize(p) \/ CancelTerminalize(p)
    <2>1. proc[p].exec \in Exec /\ (EndLog(proc[p].exec, "error") \/ UNCHANGED store)
      BY <1>1, <1>4 DEF Terminalize, CancelTerminalize, At
    <2>2. QED
      BY <2>1 DEF Effect
  <1>5. QED
    BY <1>2, <1>3, <1>4, DecideHas DEF Serve

LEMMA NextHas == ASSUME IInv, [Next]_vars PROVE Effect
  <1>1. ASSUME NEW e \in Exec, NEW r \in Segment, NEW point \in ReviewPoint, Submit(e, r, point)
        PROVE  Effect
    BY <1>1, SubmitPointHas DEF Submit
  <1>2. ASSUME NEW j \in Job, Dispatch(j) \/ Finalize(j) \/ Pause(j) \/ JobKilled(j)
                              \/ SupervisorCrash(j)
        PROVE  Effect
    BY <1>2 DEF Effect, Dispatch, Finalize, Pause, JobKilled, SupervisorCrash
  <1>3. ASSUME NEW j \in Job, Fail(j) PROVE Effect
    BY <1>3, Jobs DEF Fail, Effect
  <1>4. ASSUME NEW j \in Job, NEW c \in Exec, RequestChild(j, c) PROVE Effect
    BY <1>4 DEF RequestChild, Effect
  <1>5. ASSUME NEW u \in User, NEW j \in Job, CancelByUser(u, j) PROVE Effect
    BY <1>5 DEF CancelByUser, Effect
  <1>6. CASE UNCHANGED vars
    BY <1>6 DEF vars, Effect
  <1>7. QED
    BY <1>1, <1>2, <1>3, <1>4, <1>5, <1>6, BeginHas, ClaimHas, SaveHas, SucceedHas, ServeHas
    DEF Next, RunSegment, EndSegment

\* NoPauseAfterCancel: no execution pauses for a job whose cancellation was
\* requested before its checkpoint was saved.
THEOREM NoLatePause == Spec => NoPauseAfterCancel
  <1>1. ASSUME IInv, [Next]_vars, NEW j \in Job, At(j, "save"), j \in cancelRequested,
               j[1] \in paused' \ paused
        PROVE  FALSE
    <2>1. j[1] \in Exec
      BY Jobs
    <2>2. PICK i \in Job : Saved(i) /\ i[1] = j[1]
      <3>1. Effect
        BY <1>1, NextHas
      <3>2. ASSUME NEW e \in Exec, Started(e) \/ Claimed(e) \/ TakenBack(e) \/ EndLog(e, "error")
            PROVE  j[1] \notin paused' \ paused
        BY <3>2 DEF Started, Claimed, TakenBack, EndLog, store
      <3>3. ASSUME NEW e \in Exec, NEW point \in Point, AnsweredAt(e, point)
            PROVE  j[1] \notin paused' \ paused
        BY <3>3 DEF AnsweredAt
      <3>4. ASSUME NEW i \in Job, Succeeded(i) PROVE j[1] \notin paused' \ paused
        BY <3>4 DEF Succeeded, EndLog, store
      <3>5. ASSUME NEW i \in Job, Saved(i) PROVE i[1] = j[1]
        BY <1>1, <3>5 DEF Saved
      <3>6. ~(UNCHANGED store)
        BY <1>1 DEF store
      <3>7. QED
        BY <1>1, <3>1, <3>2, <3>3, <3>4, <3>5, <3>6 DEF Effect
    <2>3. Running(i) /\ Running(j) /\ log[j[1]] = "running" /\ log[i[1]] = "running"
      BY <1>1, <2>2 DEF Running, Saved
    <2>4. i[2] = j[2]
      BY <1>1, <2>2, <2>3, RunningFits
    <2>5. i = j
      BY <2>2, <2>4, Jobs
    <2>6. QED
      BY <1>1, <2>2, <2>5 DEF Saved
  <1>2. IInv /\ [Next]_vars
        => [\A j \in Job : At(j, "save") /\ j \in cancelRequested => j[1] \notin paused' \ paused]_vars
    BY <1>1
  <1>3. QED
    BY <1>2, Invariant, PTL DEF Spec, NoPauseAfterCancel

-----------------------------------------------------------------------------
(* The review page (ReviewedExecution).                                     *)

LEMMA Pages ==
    ASSUME NEW e \in Exec, Elsewhere(e)
    PROVE  /\ Page' = [Page EXCEPT ![e] = ReviewStatus(e)']
           /\ Revisions' = [Revisions EXCEPT ![e] = checkpoint'[e].revision]
           /\ Open' = [Open EXCEPT ![e] = checkpoint'[e].points \ checkpoint'[e].submitted]
  <1>1. \A d \in Exec \ {e} : ReviewStatus(d)' = ReviewStatus(d)
    BY DEF Elsewhere, ReviewStatus, Withdrawn
  <1>2. QED
    BY <1>1 DEF Elsewhere, Page, Revisions, Open

LEMMA Statused ==
    ASSUME IInv, NEW e \in Exec
    PROVE  /\ log[e] = "none" => Page[e] = "none"
           /\ log[e] = "success" => Page[e] = "completed"
           /\ log[e] = "error" => Page[e] = "failed"
           /\ log[e] = "running" /\ e \in paused =>
                 Page[e] = IF checkpoint[e].active THEN "queued" ELSE "paused"
           /\ log[e] = "running" /\ e \notin paused =>
                 Page[e] = IF Withdrawn(e) THEN "cancelling" ELSE "running"
           /\ log[e] \in {"none", "running"} => Page[e] \notin {"completed", "failed"}
           /\ log[e] \in {"none", "running", "success", "error"}
  <1>1. log[e] \in {"none", "running", "success", "error"}
    BY LogTypes DEF IInv, World
  <1>2. QED
    BY <1>1 DEF Page, ReviewStatus

LEMMA StartedPage ==
    ASSUME IInv, NEW e \in Exec, Started(e)
    PROVE  Reviewed!Start(e)
  <1>1. log'[e] = "running" /\ Elsewhere(e) /\ checkpoint' = checkpoint /\ paused' = paused
    BY DEF Started, Elsewhere, IInv, World, StoreType
  <1>2. checkpoint[e] = NoCheckpoint /\ e \notin paused
    BY DEF Started, IInv, World, LogOK
  <1>3. ReviewStatus(e)' = "running"
    BY <1>1, <1>2, NoCheckpointType DEF ReviewStatus, Withdrawn
  <1>4. Page[e] = "none"
    BY Statused DEF Started
  <1>5. UNCHANGED <<Revisions, Open>>
    BY <1>1 DEF Revisions, Open
  <1>6. QED
    BY <1>1, <1>3, <1>4, <1>5, Pages DEF Reviewed!Start, Reviewed!Move, Page, Revisions, Open

LEMMA ClaimedPage ==
    ASSUME IInv, NEW e \in Exec, Claimed(e)
    PROVE  Reviewed!GoOn(e)
  <1>1. log' = log /\ Elsewhere(e) /\ checkpoint' = checkpoint /\ e \notin paused'
    BY DEF Claimed, Elsewhere
  <1>2. ReviewStatus(e)' = "running"
    BY <1>1 DEF Claimed, ReviewStatus, Withdrawn
  <1>3. Page[e] = "queued"
    BY Statused DEF Claimed
  <1>4. UNCHANGED <<Revisions, Open>>
    BY <1>1 DEF Revisions, Open
  <1>5. QED
    BY <1>1, <1>2, <1>3, <1>4, Pages DEF Reviewed!GoOn, Reviewed!Move, Page, Revisions, Open

LEMMA TakenBackPage ==
    ASSUME IInv, NEW e \in Exec, TakenBack(e)
    PROVE  Reviewed!TakeBack(e) \/ UNCHANGED Reviewed!vars
  <1>1. log' = log /\ Elsewhere(e) /\ checkpoint' = checkpoint /\ e \notin paused'
    BY DEF TakenBack, Elsewhere
  <1>2. UNCHANGED <<Revisions, Open>>
    BY <1>1 DEF Revisions, Open
  <1>3. CASE e \in paused
    <2>1. ReviewStatus(e)' = "cancelling"
      BY <1>1, <1>3 DEF TakenBack, ReviewStatus, Withdrawn, IInv, World, LogOK
    <2>2. Page[e] = "paused"
      BY <1>3, Statused DEF TakenBack
    <2>3. QED
      BY <1>1, <1>2, <2>1, <2>2, Pages
      DEF Reviewed!TakeBack, Reviewed!Move, Page, Revisions, Open
  <1>4. CASE e \notin paused
    <2>1. UNCHANGED store
      BY <1>4 DEF TakenBack, store
    <2>2. QED
      BY <2>1 DEF store, Reviewed!vars, ReviewStatus, Withdrawn
  <1>5. QED
    BY <1>3, <1>4

LEMMA AnsweredPage ==
    ASSUME IInv, NEW e \in Exec, NEW point \in Point, AnsweredAt(e, point)
    PROVE  Reviewed!Answer(e, point)
  <1> DEFINE c == checkpoint[e]
             all == c.submitted \cup {point} = c.points
  <1>1. PICK b \in BOOLEAN : b = all
    OBVIOUS
  <1>2. /\ log[e] = "running" /\ e \in paused /\ ~c.active /\ point \in c.points \ c.submitted
        /\ checkpoint' = [checkpoint EXCEPT ![e].submitted = @ \cup {point}, ![e].active = b]
        /\ log' = log /\ paused' = paused
    BY <1>1 DEF AnsweredAt
  <1>3. /\ checkpoint'[e].revision = c.revision /\ checkpoint'[e].points = c.points
        /\ checkpoint'[e].submitted = c.submitted \cup {point} /\ checkpoint'[e].active = b
        /\ \A d \in Exec \ {e} : checkpoint'[d] = checkpoint[d]
    BY <1>2 DEF IInv, World, StoreType
  <1>4. c.submitted \subseteq c.points
    BY DEF IInv, World, LogOK
  <1>5. /\ checkpoint'[e].points \ checkpoint'[e].submitted = Open[e] \ {point}
        /\ point \in Open[e] /\ (b <=> Open[e] = {point})
    BY <1>1, <1>2, <1>3, <1>4 DEF Open
  <1> HIDE DEF c, all
  <1>6. Elsewhere(e)
    BY <1>2, <1>3 DEF Elsewhere
  <1>7. ReviewStatus(e)' = IF Open[e] = {point} THEN "queued" ELSE "paused"
    BY <1>2, <1>3, <1>5 DEF ReviewStatus
  <1>8. Page[e] = "paused"
    BY <1>2, Statused DEF c
  <1>9. UNCHANGED Revisions
    <2>1. \A d \in Exec : checkpoint'[d].revision = checkpoint[d].revision
      BY <1>3 DEF c
    <2>2. QED
      BY <2>1 DEF Revisions
  <1>10. Open' = [Open EXCEPT ![e] = Open[e] \ {point}]
    BY <1>5, <1>6, Pages
  <1>11. Page' = [Page EXCEPT ![e] = IF Open[e] = {point} THEN "queued" ELSE "paused"]
    BY <1>6, <1>7, Pages
  <1>12. QED
    BY <1>5, <1>8, <1>9, <1>10, <1>11
    DEF Reviewed!Answer, Reviewed!Move, Page, Revisions, Open

LEMMA SavedPage ==
    ASSUME IInv, NEW j \in Job, Saved(j)
    PROVE  Reviewed!Pause(j[1])
  <1>1. PICK e \in Exec : e = j[1]
    BY Jobs
  <1>2. PICK c : c = [NoCheckpoint EXCEPT !.revision = checkpoint[e].revision + 1,
                                          !.points = proc[j].points]
    OBVIOUS
  <1>3. /\ log[e] = "running" /\ At(j, "save") /\ checkpoint' = [checkpoint EXCEPT ![e] = c]
        /\ paused' = paused \cup {e} /\ log' = log
    BY <1>1, <1>2 DEF Saved
  <1>4. /\ c.revision = checkpoint[e].revision + 1 /\ c.points = proc[j].points
        /\ c.submitted = {} /\ ~c.active
    BY <1>2 DEF NoCheckpoint
  <1>5. e \notin paused /\ checkpoint[e].revision = j[2] /\ (j[2] # 0 => checkpoint[e].active)
    BY <1>1, <1>3, RunningFits DEF Running
  <1>6. proc[j].points \in (SUBSET Point) \ {{}}
    <2>1. Shaped(j, proc[j]) /\ Doing(proc[j], {"save"})
      BY <1>3, Jobs DEF IInv, Framed, At, Doing
    <2>2. QED
      BY <2>1, FrameFields DEF Shaped, JobShape
  <1>7. checkpoint'[e] = c /\ e \in paused' /\ Elsewhere(e)
    BY <1>3 DEF IInv, World, StoreType, Elsewhere
  <1>8. ReviewStatus(e)' = "paused"
    BY <1>3, <1>4, <1>7 DEF ReviewStatus
  <1>9. Page[e] = "running"
    BY <1>3, <1>5, Statused DEF Withdrawn
  <1>10. /\ Page' = [Page EXCEPT ![e] = "paused"]
         /\ Revisions' = [Revisions EXCEPT ![e] = Revisions[e] + 1]
         /\ Open' = [Open EXCEPT ![e] = proc[j].points]
    <2>1. checkpoint'[e].points \ checkpoint'[e].submitted = proc[j].points
      BY <1>4, <1>7
    <2>2. checkpoint'[e].revision = Revisions[e] + 1
      BY <1>4, <1>7 DEF Revisions
    <2>3. QED
      BY <1>7, <1>8, <2>1, <2>2, Pages
  <1>11. Reviewed!Pause(e)
    BY <1>6, <1>9, <1>10 DEF Reviewed!Pause, Reviewed!Move, Page, Revisions, Open
  <1>12. QED
    BY <1>1, <1>11

LEMMA EndedPage ==
    ASSUME IInv, NEW e \in Exec, NEW o \in Ended, EndLog(e, o), o = "success" => Page[e] = "running"
    PROVE  Reviewed!End(e) \/ UNCHANGED Reviewed!vars
  <1>1. CASE log[e] \in Ended
    <2>1. UNCHANGED store
      BY <1>1 DEF EndLog
    <2>2. QED
      BY <2>1 DEF store, Reviewed!vars, ReviewStatus, Withdrawn
  <1>2. CASE log[e] \notin Ended
    <2>1. /\ log' = [log EXCEPT ![e] = o]
          /\ checkpoint' = [checkpoint EXCEPT ![e] = NoCheckpoint] /\ paused' = paused \ {e}
      BY <1>2 DEF EndLog
    <2>2. log'[e] = o /\ checkpoint'[e] = NoCheckpoint /\ Elsewhere(e)
      BY <2>1 DEF IInv, World, StoreType, Elsewhere
    <2>3. /\ o = "success" => ReviewStatus(e)' = "completed"
          /\ o = "error" => ReviewStatus(e)' = "failed"
      BY <2>2 DEF ReviewStatus
    <2>4. Page[e] \notin {"completed", "failed"}
      BY <1>2, Statused DEF Ended
    <2>5. /\ o = "success" => Page' = [Page EXCEPT ![e] = "completed"]
          /\ o = "error" => Page' = [Page EXCEPT ![e] = "failed"]
          /\ Revisions' = [Revisions EXCEPT ![e] = 0]
          /\ Open' = [Open EXCEPT ![e] = {}]
      BY <2>2, <2>3, Pages, NoCheckpointType
    <2>6. QED
      BY <2>4, <2>5 DEF Ended, Reviewed!End, Reviewed!Move, Page, Revisions, Open
  <1>3. QED
    BY <1>1, <1>2

LEMMA SucceededPage ==
    ASSUME IInv, NEW j \in Job, Succeeded(j)
    PROVE  Reviewed!End(j[1]) \/ UNCHANGED Reviewed!vars
  <1>1. PICK e \in Exec : e = j[1]
    BY Jobs
  <1>2. CASE log[e] \in Ended
    <2>1. UNCHANGED store
      BY <1>1, <1>2 DEF Succeeded, EndLog
    <2>2. QED
      BY <2>1 DEF store, Reviewed!vars, ReviewStatus, Withdrawn
  <1>3. CASE log[e] \notin Ended
    <2>1. log[e] = "running"
      BY <1>1, <1>3, Statused DEF Succeeded, Ended
    <2>2. e \notin paused /\ checkpoint[e].revision = j[2] /\ (j[2] # 0 => checkpoint[e].active)
      BY <1>1, <2>1, RunningFits DEF Succeeded
    <2>3. Page[e] = "running"
      BY <2>1, <2>2, Statused DEF Withdrawn
    <2>4. QED
      BY <1>1, <2>3, EndedPage DEF Succeeded, Ended
  <1>4. QED
    BY <1>2, <1>3

ReviewMoves == Reviewed!Next \/ UNCHANGED Reviewed!vars

LEMMA NextReview == ASSUME IInv, [Next]_vars PROVE ReviewMoves
  <1>1. Effect
    BY NextHas
  <1>2. CASE UNCHANGED store
    BY <1>2 DEF store, Reviewed!vars, ReviewStatus, Withdrawn, ReviewMoves
  <1>3. ASSUME NEW e \in Exec, Started(e) \/ Claimed(e) \/ TakenBack(e) PROVE ReviewMoves
    BY <1>3, StartedPage, ClaimedPage, TakenBackPage DEF ReviewMoves, Reviewed!Next
  <1>4. ASSUME NEW e \in Exec, EndLog(e, "error") PROVE ReviewMoves
    <2>1. "error" \in Ended /\ "error" # "success"
      BY DEF Ended
    <2>2. QED
      BY <1>4, <2>1, EndedPage DEF ReviewMoves, Reviewed!Next
  <1>5. ASSUME NEW e \in Exec, NEW point \in Point, AnsweredAt(e, point) PROVE ReviewMoves
    BY <1>5, AnsweredPage DEF ReviewMoves, Reviewed!Next
  <1>6. ASSUME NEW j \in Job, Saved(j) \/ Succeeded(j) PROVE ReviewMoves
    BY <1>6, SavedPage, SucceededPage, Jobs DEF ReviewMoves, Reviewed!Next
  <1>7. QED
    BY <1>1, <1>2, <1>3, <1>4, <1>5, <1>6 DEF Effect

LEMMA InitReview == Init => Reviewed!Init
  <1> SUFFICES ASSUME Init PROVE Reviewed!Init
    OBVIOUS
  <1>1. ASSUME NEW e \in Exec
        PROVE  /\ ReviewStatus(e) = "none" /\ checkpoint[e].revision = 0
               /\ checkpoint[e].points \ checkpoint[e].submitted = {}
    BY NoCheckpointType DEF Init, ReviewStatus
  <1>2. QED
    BY <1>1 DEF Reviewed!Init

\* ImplementsReview: what the review page of an execution shows follows
\* ReviewedExecution, whatever is cancelled, killed or answered twice.
THEOREM ReviewImplemented == Spec => ImplementsReview
  <1>1. IInv /\ [Next]_vars => [Reviewed!Next]_(Reviewed!vars)
    BY NextReview DEF ReviewMoves
  <1>2. QED
    BY <1>1, InitReview, Invariant, PTL DEF Spec, ImplementsReview, Reviewed!Spec
=============================================================================
