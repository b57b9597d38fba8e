----------------------- MODULE RealtimeDocumentProofs -----------------------
(***************************************************************************)
(* Theorems about RealtimeDocument, for all sets of connections, mutations *)
(* and users, any number of drain attempts, failed saves and crashes.      *)
(*                                                                         *)
(* Shape, the types and the order of the queues, holds without further     *)
(* assumptions.  What the document promises is proved for runs that do not *)
(* mix two faults: a drain request or a fence's transaction that times     *)
(* out, so that a drain outlives its fence or the next request, and a save *)
(* that fails and is tried again, after which such a drain opens the       *)
(* document under the other.  Where both may happen the code does lose     *)
(* edits.                                                                  *)
(***************************************************************************)
EXTENDS RealtimeDocument, SequenceTheorems, FiniteSetTheorems, TLAPS

\* Nothing times out, or every save that fails is rejected for good.
Unmixed == \A b \in Budgets : (b["fenceTimeout"] = 0 /\ b["drainTimeout"] = 0) \/ b["saveFails"] = 0

-----------------------------------------------------------------------------
(* Types, and the order of the queues of a document                         *)

Item == Conn \cup Mutation

Saver == Attempt \cup {ForNobody, ForJob}

Steps ==
    [attach |-> {"queued", "admitted", "free"},
     apply |-> {"queued", "admitted", "free", "flushing", "flushed", "written"},
     edit |-> {"queued", "allowed", "denied"}]

JobType ==
    {j \in [kind : {"attach", "apply", "edit"}, who : Item,
            pc : {"queued", "admitted", "free", "flushing", "flushed", "written", "allowed", "denied"}] :
        /\ j.pc \in Steps[j.kind]
        /\ j.who \in (IF j.kind = "apply" THEN Mutation ELSE Conn)}

Document ==
    [live : BOOLEAN, seeded : BOOLEAN, content : SUBSET Item, unsaved : BOOLEAN,
     draining : BOOLEAN, conns : SUBSET Conn, timer : BOOLEAN, rest : {"none", "kept", "armed"},
     jobs : Seq(JobType), saves : Seq(Saver), staged : (SUBSET Item) \cup {None}]

DrainState ==
    [pc : {"none", "waiting", "saving", "ok", "failed", "refused"}, at : Nat, ahead : Nat]

Runs(d, kind, pc) == d.jobs # <<>> /\ Head(d.jobs).kind = kind /\ Head(d.jobs).pc = pc

\* The timer and the queue of saves exclude each other; a copy is written for
\* the first save; one save is for the job, which waits for it; only the first
\* job has begun; sockets are connected after they have been upgraded; a document
\* whose content has not been read has no connection.
Ordered(d, upgraded) ==
    /\ d.timer => d.saves = <<>>
    /\ d.staged # None => d.unsaved /\ d.saves # <<>>
    /\ \A k \in DOMAIN d.saves : d.saves[k] = ForJob => Runs(d, "apply", "flushing")
    /\ \A k, l \in DOMAIN d.saves : d.saves[k] = ForJob /\ d.saves[l] = ForJob => k = l
    /\ \A k \in DOMAIN d.jobs : k # 1 => d.jobs[k].pc = "queued"
    /\ \A k \in DOMAIN d.jobs : d.jobs[k].kind = "attach" => d.jobs[k].who \in upgraded
    /\ d.conns \subseteq upgraded
    /\ ~d.seeded => d.conns = {} /\ ~d.unsaved
    /\ ~d.seeded /\ d.jobs # <<>> => Head(d.jobs).pc \in {"queued", "admitted"}

\* The documents, and at most one of them in docs.
Docs(s, upgraded) ==
    /\ s \in Seq(Document)
    /\ \A i \in DOMAIN s : Ordered(s[i], upgraded)
    /\ \A i, j \in DOMAIN s : s[i].live /\ s[j].live => i = j

Types ==
    /\ stored \subseteq Item /\ members \subseteq User /\ recorded \subseteq Mutation
    /\ fence \in [Leaver -> {"idle", "locked", "draining", "done", "aborted"}]
    /\ tries \in [Leaver -> 0 .. DrainAttempts]
    /\ \A r \in Leaver : fence[r] \in {"idle", "locked"} => tries[r] = 0
    /\ \A r \in Leaver : fence[r] = "draining" => tries[r] # 0
    /\ drain \in [Attempt -> DrainState]
    /\ opened \subseteq Conn
    /\ answer \in [Mutation -> {None, "ok"}]
    /\ budget \in [Faults -> Nat]
    /\ applied \in [Mutation -> Nat]
    /\ accepted \subseteq Conn

Shape == Types /\ Docs(inst, opened)

-----------------------------------------------------------------------------
(* What the documents, the drains and the fences know of each other         *)

\* A document that is no longer live holds nothing; the copy that is written for a job or a drain
\* is the content, and after a flush nothing is unsaved.
Sound(d) ==
    /\ d.staged # None => d.staged \subseteq d.content
    /\ d.staged # None /\ Head(d.saves) # ForNobody => d.staged = d.content
    /\ ~d.live => ~d.unsaved /\ ~d.timer /\ d.jobs = <<>> /\ d.conns = {}
    /\ ~d.seeded => d.content = {}
    /\ \A k \in DOMAIN d.saves : d.saves[k] = ForJob => k = Len(d.saves)
    /\ Runs(d, "apply", "flushed") \/ Runs(d, "apply", "written")
          => d.saves = <<>> /\ ~d.timer /\ ~d.unsaved
    /\ d.unsaved /\ ~d.draining => d.timer \/ d.saves # <<>>

PastLoad == {"free", "flushing", "flushed", "written"}

\* A loaded document holds at least what is stored; beyond that it holds only
\* what members did, and only if it is unsaved.
Current(d, row, mem, rec, acc) ==
    /\ d.live /\ d.seeded /\ ~Runs(d, "apply", "written") => row \subseteq d.content
    /\ Runs(d, "apply", "written") =>
          Head(d.jobs).who \in rec /\ row \subseteq d.content \cup {Head(d.jobs).who}
    /\ d.staged # None => row \subseteq d.staged
    /\ d.live => \A x \in d.content \ row : UserOf[x] \in mem
    /\ d.live /\ ~d.unsaved => d.content \cap acc \subseteq row
    /\ \A c \in d.conns : UserOf[c] \in mem
    /\ d.jobs # <<>> /\ Head(d.jobs).pc \in PastLoad => UserOf[Head(d.jobs).who] \in mem

\* A save may still fail, so that a drain may open its document again.
MayReopen == budget["saveFails"] # 0

NothingMixed == MayReopen => budget["fenceTimeout"] = 0 /\ budget["drainTimeout"] = 0

Paid == NothingMixed' /\ (MayReopen' => MayReopen)

InFlight(a) == drain[a].pc \in {"waiting", "saving"}

Holds(saves, a) == \E k \in DOMAIN saves : saves[k] = a

OnceEach(saves) == \A k, l \in DOMAIN saves : saves[k] \in Attempt /\ saves[k] = saves[l] => k = l

\* A drain that waits counts the jobs before it; one that saves has its save in
\* the queue, and no job beside it.
Booked(a) ==
    LET i == drain[a].at
    IN  /\ drain[a].pc = "waiting" => i \in DOMAIN inst /\ drain[a].ahead = Len(inst[i].jobs)
        /\ drain[a].pc = "saving" => i \in DOMAIN inst /\ inst[i].jobs = <<>> /\ Holds(inst[i].saves, a)

\* A drain holds it: after a save that was rejected a document goes on draining
\* without one, with nobody in it and nothing left to save.
Held(d) == d.live /\ d.draining /\ (d.unsaved \/ d.conns # {})

Queued(i) ==
    /\ OnceEach(inst[i].saves)
    /\ \A a \in Attempt : Holds(inst[i].saves, a) => drain[a].pc = "saving" /\ drain[a].at = i
    /\ Held(inst[i]) =>
          drain[ForExit].pc = "failed" \/ \E a \in Attempt : InFlight(a) /\ drain[a].at = i

Closed(d) == d.conns = {} /\ d.jobs = <<>>

\* Once the shutdown has begun no document is created, and the live one is
\* drained or has nobody in it.
Exiting ==
    /\ drain[ForExit].pc # "none" => \A j \in Live : inst[j].draining \/ Closed(inst[j])
    /\ drain[ForExit].pc = "ok" => Live = {}
    /\ InFlight(ForExit) => Live \subseteq {drain[ForExit].at}

\* The drain of a fence holds a document that has no connection; behind the
\* fence nothing else is loaded.  A drain outlives its fence, or the next request,
\* only where timeouts are allowed.
Draining(r, k) ==
    LET a == <<r, k>>
        current == fence[r] = "draining" /\ k = tries[r]
    IN  /\ InFlight(a) /\ MayReopen => current
        /\ k > tries[r] => drain[a].pc = "none"
        /\ InFlight(a) /\ inst[drain[a].at].live =>
              inst[drain[a].at].draining /\ inst[drain[a].at].conns = {}
        /\ InFlight(a) /\ current => \A j \in Live : j # drain[a].at => ~inst[j].seeded
        /\ drain[a].pc = "ok" /\ current => \A j \in Live : ~inst[j].seeded

Fenced ==
    /\ \A q, r \in Exclusive : q = r
    /\ Exclusive # {} => Shared = {}
    /\ \A r \in Leaver, k \in 1 .. DrainAttempts : Draining(r, k)

\* The record of a mutation and its effect are one transaction.
RecordedOnce ==
    /\ recorded \subseteq stored
    /\ \A m \in Mutation : applied[m] = (IF m \in recorded THEN 1 ELSE 0)
    /\ \A m \in Mutation : answer[m] = "ok" => m \in recorded

AcceptedKept == \A c \in accepted \ stored : \E i \in Live : c \in inst[i].content

Trusted == \A i \in DOMAIN inst : Sound(inst[i]) /\ Current(inst[i], stored, members, recorded, accepted)

Drained ==
    /\ Trusted
    /\ \A i \in DOMAIN inst : Queued(i)
    /\ \A a \in Attempt : Booked(a)
    /\ Exiting /\ Fenced
    /\ RecordedOnce /\ AcceptedKept
    /\ NothingMixed

-----------------------------------------------------------------------------
(* The operators on one document                                            *)

\* The waiters of a save, and the drain requests, are told apart.
LEMMA Tags ==
    /\ ForNobody # ForJob /\ ForNobody \notin Attempt /\ ForJob \notin Attempt
    /\ ForExit \in Attempt
    /\ \A r \in Leaver, k \in 1 .. DrainAttempts : <<r, k>> \in Attempt /\ <<r, k>> # ForExit
    /\ \A a \in Attempt : a # ForExit =>
          /\ a[1] \in Leaver /\ a[2] \in 1 .. DrainAttempts /\ a = <<a[1], a[2]>>
<1>1. ASSUME NEW a \in Attempt, a # ForExit
      PROVE  a[1] \in Leaver /\ a[2] \in 1 .. DrainAttempts /\ a = <<a[1], a[2]>>
  <2>1. a \in Leaver \X (1 .. DrainAttempts)
    BY <1>1 DEF Attempt
  <2> QED BY <2>1
<1>2. ForNobody # ForJob /\ ForNobody # ForExit /\ ForJob # ForExit
  BY DEF ForNobody, ForJob, ForExit
<1>3. \A r \in Leaver, k \in 1 .. DrainAttempts : <<r, k>> # ForNobody /\ <<r, k>> # ForJob /\ <<r, k>> # ForExit
  BY DEF ForNobody, ForJob, ForExit
<1> QED BY <1>1, <1>2, <1>3 DEF Attempt

\* A queue without its first element.
LEMMA Behind ==
    ASSUME NEW S, NEW s \in Seq(S), s # <<>>
    PROVE  /\ Tail(s) \in Seq(S) /\ Head(s) \in S /\ Head(s) = s[1]
           /\ Len(s) \in Nat \ {0} /\ DOMAIN s = 1 .. Len(s)
           /\ Len(Tail(s)) = Len(s) - 1 /\ DOMAIN Tail(s) = 1 .. Len(s) - 1
           /\ \A k \in DOMAIN Tail(s) : k + 1 \in DOMAIN s /\ Tail(s)[k] = s[k + 1]
           /\ (Tail(s) # <<>>) => Head(Tail(s)) = s[2] /\ 2 \in DOMAIN s
OBVIOUS

\* A queue with one more element.
LEMMA Added ==
    ASSUME NEW S, NEW s \in Seq(S), NEW e \in S
    PROVE  /\ Append(s, e) \in Seq(S) /\ Append(s, e) # <<>>
           /\ Len(Append(s, e)) = Len(s) + 1
           /\ DOMAIN s = 1 .. Len(s) /\ DOMAIN Append(s, e) = 1 .. Len(s) + 1
           /\ \A k \in DOMAIN s : Append(s, e)[k] = s[k]
           /\ Append(s, e)[Len(s) + 1] = e
           /\ Head(Append(s, e)) = (IF s = <<>> THEN e ELSE Head(s))
OBVIOUS

\* A queue whose first element is replaced.
LEMMA Replaced ==
    ASSUME NEW S, NEW s \in Seq(S), s # <<>>, NEW e \in S
    PROVE  /\ [s EXCEPT ![1] = e] \in Seq(S) /\ [s EXCEPT ![1] = e] # <<>>
           /\ Len([s EXCEPT ![1] = e]) = Len(s) /\ DOMAIN [s EXCEPT ![1] = e] = DOMAIN s
           /\ Head([s EXCEPT ![1] = e]) = e
           /\ \A k \in DOMAIN s : [s EXCEPT ![1] = e][k] = (IF k = 1 THEN e ELSE s[k])
           /\ Tail([s EXCEPT ![1] = e]) = Tail(s)
OBVIOUS

\* What becomes of a document: another one of the same shape, live at most as
\* long.
Yields(d, e, u) == e \in Document /\ Ordered(e, u) /\ (e.live => d.live)

LEMMA CleanupShape ==
    ASSUME NEW u, NEW d \in Document, Ordered(d, u)
    PROVE  Yields(d, Cleanup(d), u)
BY DEF Yields, Cleanup, Document, Ordered, Runs

LEMMA FlushShape ==
    ASSUME NEW u, NEW d \in Document, Ordered(d, u), NEW who \in Saver, who # ForJob
    PROVE  Yields(d, Flush(d, who), u)
<1> DEFINE e == Flush(d, who)
<1>1. d.saves \in Seq(Saver)
  BY DEF Document
<1>2. e \in Document
  BY <1>1, Added DEF Flush, Document
<1>3. /\ e.timer = FALSE /\ e.jobs = d.jobs /\ e.conns = d.conns
      /\ e.staged = d.staged /\ e.unsaved = d.unsaved /\ e.live = d.live /\ e.seeded = d.seeded
  BY DEF Flush, Document
<1>4. /\ \A k \in DOMAIN e.saves : e.saves[k] = ForJob => k \in DOMAIN d.saves /\ d.saves[k] = ForJob
      /\ e.saves # <<>>
  <2>1. e.saves = Append(d.saves, who)
    BY DEF Flush, Document
  <2> QED BY <1>1, <2>1, Added
<1> HIDE DEF e
<1>5. Ordered(e, u)
  BY <1>3, <1>4 DEF Ordered, Runs
<1> QED BY <1>2, <1>3, <1>5 DEF e, Yields

LEMMA RetryShape ==
    ASSUME NEW u, NEW d \in Document, Ordered(d, u)
    PROVE  Yields(d, Retry(d), u)
BY DEF Yields, Retry, Document, Ordered, Runs

LEMMA ReleaseShape ==
    ASSUME NEW u, NEW d \in Document, Ordered(d, u)
    PROVE  Yields(d, Release(d), u)
<1> DEFINE e == [d EXCEPT !.rest = "armed"]
<1>1. Yields(d, e, u) /\ Yields(d, d, u)
  BY DEF Yields, Document, Ordered, Runs
<1>2. ForNobody \in Saver /\ ForNobody # ForJob
  BY Tags DEF Saver
<1>3. Yields(d, Flush(d, ForNobody), u)
  BY <1>2, FlushShape
<1>4. Yields(d, Cleanup(d), u)
  BY CleanupShape
<1>5. CASE ~d.live \/ d.conns # {} \/ d.jobs # <<>> \/ d.saves # <<>>
  BY <1>1, <1>5 DEF Release
<1>6. CASE d.live /\ d.conns = {} /\ d.jobs = <<>> /\ d.saves = <<>>
  <2>1. CASE d.draining
    BY <1>1, <1>4, <1>6, <2>1 DEF Release
  <2>2. CASE ~d.draining /\ d.unsaved
    BY <1>3, <1>6, <2>2 DEF Release
  <2>3. CASE ~d.draining /\ ~d.unsaved
    BY <1>1, <1>4, <1>6, <2>3 DEF Release
  <2> QED BY <2>1, <2>2, <2>3
<1> QED BY <1>5, <1>6

LEMMA CloseShape ==
    ASSUME NEW u, NEW d \in Document, Ordered(d, u), NEW cs
    PROVE  Yields(d, Close(d, cs), u)
<1> DEFINE e == [d EXCEPT !.conns = {}, !.rest = "kept"]
           f == [d EXCEPT !.conns = @ \ cs]
<1>1. Yields(d, e, u) /\ Yields(d, f, u) /\ Yields(d, d, u)
  BY DEF Yields, Document, Ordered, Runs
<1>2. Yields(e, Release(e), u)
  BY <1>1, ReleaseShape DEF Yields
<1>3. Close(d, cs) = d \/ Close(d, cs) = Release(e) \/ Close(d, cs) = f
  BY DEF Close
<1> HIDE DEF e, f
<1> QED BY <1>1, <1>2, <1>3 DEF Yields

\* What releaseDocument may change of a document, whose data it leaves alone: a
\* document leaves docs only when nobody uses it and everything is saved, and
\* what is unsaved is given to a save.
Tidied(d, e) ==
    /\ e.content = d.content /\ e.unsaved = d.unsaved /\ e.seeded = d.seeded
    /\ e.jobs = d.jobs /\ e.staged = d.staged /\ e.draining = d.draining
    /\ e.live => d.live
    /\ d.live /\ ~e.live => e.conns = {} /\ d.jobs = <<>> /\ d.saves = <<>> /\ ~d.unsaved /\ ~e.timer
    /\ \/ e.saves = d.saves
       \/ d.saves = <<>> /\ d.jobs = <<>> /\ d.unsaved /\ e.saves = <<ForNobody>>
    /\ e.timer => d.timer
    /\ d.timer /\ ~e.timer => e.saves # <<>> \/ ~e.live

LEMMA ReleaseTidies ==
    ASSUME NEW d \in Document
    PROVE  Tidied(d, Release(d)) /\ Release(d).conns = d.conns
<1>1. CASE ~d.live \/ d.conns # {} \/ d.jobs # <<>> \/ d.saves # <<>>
  BY <1>1 DEF Release, Tidied
<1>2. CASE d.live /\ d.conns = {} /\ d.jobs = <<>> /\ d.saves = <<>>
  <2>1. CASE d.draining
    BY <1>2, <2>1 DEF Release, Cleanup, Idle, Tidied, Document
  <2>2. CASE ~d.draining /\ d.unsaved
    <3>1. Release(d) = Flush(d, ForNobody)
      BY <1>2, <2>2 DEF Release
    <3>2. Append(d.saves, ForNobody) = <<ForNobody>> /\ <<ForNobody>> # <<>>
      BY <1>2
    <3> QED BY <1>2, <2>2, <3>1, <3>2 DEF Flush, Tidied, Document
  <2>3. CASE ~d.draining /\ ~d.unsaved
    BY <1>2, <2>3 DEF Release, Cleanup, Tidied, Document
  <2> QED BY <2>1, <2>2, <2>3
<1> QED BY <1>1, <1>2

LEMMA CloseTidies ==
    ASSUME NEW d \in Document, NEW cs
    PROVE  Tidied(d, Close(d, cs)) /\ Close(d, cs).conns = d.conns \ cs
<1> DEFINE e == [d EXCEPT !.conns = {}, !.rest = "kept"]
<1>1. CASE d.conns \cap cs = {}
  BY <1>1 DEF Close, Tidied, Document
<1>2. CASE d.conns \cap cs # {} /\ d.conns \subseteq cs
  <2>1. e \in Document
    BY DEF Document
  <2>2. Tidied(e, Release(e)) /\ Release(e).conns = {}
    BY <2>1, ReleaseTidies DEF Document
  <2>3. Close(d, cs) = Release(e)
    BY <1>2 DEF Close
  <2>4. /\ e.content = d.content /\ e.unsaved = d.unsaved /\ e.seeded = d.seeded
        /\ e.jobs = d.jobs /\ e.staged = d.staged /\ e.draining = d.draining
        /\ e.live = d.live /\ e.saves = d.saves /\ e.timer = d.timer
    BY DEF Document
  <2>5. d.conns \ cs = {}
    BY <1>2
  <2> HIDE DEF e
  <2> QED BY <2>2, <2>3, <2>4, <2>5 DEF Tidied
<1>3. CASE ~(d.conns \subseteq cs)
  BY <1>3 DEF Close, Tidied, Document
<1> QED BY <1>1, <1>2, <1>3

\* A document that is being saved is not released: its save will do it.
LEMMA CloseSaving ==
    ASSUME NEW d \in Document, d.saves # <<>>, NEW cs
    PROVE  LET f == Close(d, cs)
           IN  /\ f \in Document /\ f.conns = d.conns \ cs
               /\ f.live = d.live /\ f.seeded = d.seeded /\ f.content = d.content
               /\ f.unsaved = d.unsaved /\ f.draining = d.draining /\ f.timer = d.timer
               /\ f.jobs = d.jobs /\ f.saves = d.saves /\ f.staged = d.staged
<1> DEFINE e == [d EXCEPT !.conns = {}, !.rest = "kept"]
<1>1. e \in Document /\ e.saves # <<>>
  BY DEF Document
<1>2. Release(e) = e
  BY <1>1 DEF Release
<1>3. CASE d.conns \cap cs # {} /\ d.conns \subseteq cs
  <2>1. Close(d, cs) = e /\ d.conns \ cs = {}
    BY <1>2, <1>3 DEF Close
  <2> QED BY <1>1, <2>1 DEF Document
<1>4. CASE d.conns \cap cs = {}
  BY <1>4 DEF Close
<1>5. CASE ~(d.conns \subseteq cs)
  BY <1>5 DEF Close, Document
<1> QED BY <1>3, <1>4, <1>5

\* Who ends a job is not waited for by a save.
LEMMA PopShape ==
    ASSUME NEW u, NEW d \in Document, Ordered(d, u), d.jobs # <<>>,
           \A k \in DOMAIN d.saves : d.saves[k] # ForJob
    PROVE  Yields(d, [d EXCEPT !.jobs = Tail(@)], u)
<1> DEFINE e == [d EXCEPT !.jobs = Tail(@)]
<1>1. d.jobs \in Seq(JobType)
  BY DEF Document
<1>2. e \in Document
  BY <1>1, Behind DEF Document
<1>3. /\ e.jobs = Tail(d.jobs) /\ e.saves = d.saves /\ e.timer = d.timer /\ e.conns = d.conns
      /\ e.staged = d.staged /\ e.unsaved = d.unsaved /\ e.live = d.live /\ e.seeded = d.seeded
  BY DEF Document
<1>4. /\ \A k \in DOMAIN e.jobs : k + 1 \in DOMAIN d.jobs /\ k + 1 # 1 /\ e.jobs[k] = d.jobs[k + 1]
      /\ e.jobs # <<>> => Head(e.jobs) = d.jobs[2] /\ 2 \in DOMAIN d.jobs
  BY <1>1, <1>3, Behind
<1> HIDE DEF e
<1>5. Ordered(e, u)
  BY <1>3, <1>4 DEF Ordered
<1> QED BY <1>2, <1>3, <1>5 DEF e, Yields

LEMMA EndJobShape ==
    ASSUME NEW u, NEW d \in Document, Ordered(d, u), d.jobs # <<>>,
           \A k \in DOMAIN d.saves : d.saves[k] # ForJob
    PROVE  Yields(d, EndJob(d), u)
<1> DEFINE e == [d EXCEPT !.jobs = Tail(@)]
<1>1. Yields(d, e, u)
  BY PopShape
<1> HIDE DEF e
<1>2. Yields(e, Release(e), u)
  BY <1>1, ReleaseShape DEF Yields
<1> QED BY <1>1, <1>2 DEF EndJob, e, Yields

\* The first job goes on; if a save is for it, it waits for it.
LEMMA GotoShape ==
    ASSUME NEW u, NEW d \in Document, Ordered(d, u), d.jobs # <<>>, NEW pc,
           pc \in Steps[Head(d.jobs).kind], d.seeded \/ pc \in {"queued", "admitted"},
           \A k \in DOMAIN d.saves : d.saves[k] # ForJob
    PROVE  Yields(d, Goto(d, pc), u)
<1> DEFINE j == [d.jobs[1] EXCEPT !.pc = pc]
           e == [d EXCEPT !.jobs = [@ EXCEPT ![1] = j]]
<1>1. d.jobs \in Seq(JobType) /\ Head(d.jobs) = d.jobs[1] /\ d.jobs[1] \in JobType /\ 1 \in DOMAIN d.jobs
  BY Behind DEF Document
<1>2. j \in JobType /\ j.pc = pc /\ j.who = d.jobs[1].who /\ j.kind = d.jobs[1].kind
  BY <1>1 DEF JobType, Steps
<1>3. e \in Document
  <2>1. [d.jobs EXCEPT ![1] = j] \in Seq(JobType)
    BY <1>1, <1>2, Replaced
  <2> HIDE DEF j
  <2> QED BY <2>1 DEF Document
<1>4. Goto(d, pc) = e
  BY <1>1 DEF Goto, Document
<1>5. /\ e.jobs = [d.jobs EXCEPT ![1] = j] /\ e.saves = d.saves /\ e.timer = d.timer /\ e.conns = d.conns
      /\ e.staged = d.staged /\ e.unsaved = d.unsaved /\ e.live = d.live /\ e.seeded = d.seeded
  BY DEF Document
<1> HIDE DEF j
<1>6. DOMAIN e.jobs = DOMAIN d.jobs /\ Head(e.jobs) = j /\ \A k \in DOMAIN e.jobs : e.jobs[k] = IF k = 1 THEN j ELSE d.jobs[k]
  BY <1>1, <1>2, <1>5, Replaced
<1> HIDE DEF e
<1>7. Ordered(e, u)
  BY <1>2, <1>5, <1>6 DEF Ordered
<1> QED BY <1>3, <1>4, <1>5, <1>7 DEF e, Yields

-----------------------------------------------------------------------------
(* Every step keeps the shape of the documents                              *)

LEMMA Put ==
    ASSUME NEW u, NEW s, Docs(s, u), NEW i \in DOMAIN s, NEW e, Yields(s[i], e, u)
    PROVE  Docs([s EXCEPT ![i] = e], u)
<1> DEFINE t == [s EXCEPT ![i] = e]
<1>1. s \in Seq(Document) /\ e \in Document /\ (e.live => s[i].live)
  BY DEF Docs, Yields
<1>2. t \in Seq(Document) /\ DOMAIN t = DOMAIN s /\ \A k \in DOMAIN s : t[k] = IF k = i THEN e ELSE s[k]
  BY <1>1
<1> HIDE DEF t
<1>3. \A k \in DOMAIN t : Ordered(t[k], u)
  BY <1>2 DEF Docs, Yields
<1>4. \A k, l \in DOMAIN t : t[k].live /\ t[l].live => k = l
  BY <1>1, <1>2 DEF Docs
<1> QED BY <1>2, <1>3, <1>4 DEF Docs, t

LEMMA MoreUpgraded ==
    ASSUME NEW u, NEW v, u \subseteq v, NEW s, Docs(s, u)
    PROVE  Docs(s, v)
BY DEF Docs, Ordered

LEMMA OneLessType ==
    ASSUME drain \in [Attempt -> DrainState], NEW i
    PROVE  OneLess(i) \in [Attempt -> DrainState]
BY DEF OneLess, DrainState

LEMMA OrderedHead ==
    ASSUME NEW u, NEW d \in Document, Ordered(d, u), d.jobs # <<>>
    PROVE  /\ Head(d.jobs) \in JobType /\ Head(d.jobs) = d.jobs[1]
           /\ (Head(d.jobs).kind = "attach" => Head(d.jobs).who \in u)
           /\ (Head(d.jobs).pc \notin {"queued", "admitted"} => d.seeded)
           /\ (Head(d.jobs).pc # "flushing" => \A k \in DOMAIN d.saves : d.saves[k] # ForJob)
<1>1. d.jobs \in Seq(JobType)
  BY DEF Document
<1>2. Head(d.jobs) \in JobType /\ Head(d.jobs) = d.jobs[1] /\ 1 \in DOMAIN d.jobs
  BY <1>1, Behind
<1> QED BY <1>2 DEF Ordered, Runs

LEMMA GoesShape ==
    ASSUME Shape, NEW i \in DOMAIN inst, NEW d, Yields(inst[i], d, opened), Goes(i, d)
    PROVE  Docs(inst', opened) /\ drain' \in [Attempt -> DrainState]
BY Put DEF Shape, Types, Goes

LEMMA EndsShape ==
    ASSUME Shape, NEW i \in DOMAIN inst, NEW d, Yields(inst[i], d, opened),
           d.jobs # <<>>, \A k \in DOMAIN d.saves : d.saves[k] # ForJob, Ends(i, d)
    PROVE  Docs(inst', opened) /\ drain' \in [Attempt -> DrainState]
<1>1. Yields(inst[i], EndJob(d), opened)
  BY EndJobShape DEF Yields
<1> QED BY <1>1, Put, OneLessType DEF Shape, Types, Ends

\* The save a mutation waits for.
LEMMA FlushForJobShape ==
    ASSUME NEW u, NEW d \in Document, Ordered(d, u), d.jobs # <<>>,
           Head(d.jobs).kind = "apply", Head(d.jobs).pc = "free"
    PROVE  Yields(d, Flush(Goto(d, "flushing"), ForJob), u)
<1> DEFINE g == Goto(d, "flushing")
           e == Flush(g, ForJob)
<1>1. \A k \in DOMAIN d.saves : d.saves[k] # ForJob
  BY OrderedHead
<1>2. Yields(d, g, u)
  BY <1>1, OrderedHead, GotoShape DEF Steps
<1>3. g.saves = d.saves /\ Runs(g, "apply", "flushing")
  <2>1. d.jobs \in Seq(JobType) /\ d.jobs[1] \in JobType /\ Head(d.jobs) = d.jobs[1] /\ 1 \in DOMAIN d.jobs
    BY Behind DEF Document
  <2> DEFINE j == [d.jobs[1] EXCEPT !.pc = "flushing"]
  <2>2. j \in JobType /\ j.kind = "apply" /\ j.pc = "flushing"
    BY <2>1 DEF JobType, Steps
  <2>3. g.jobs = [d.jobs EXCEPT ![1] = j] /\ g.saves = d.saves
    BY <2>1 DEF Goto, Document
  <2> HIDE DEF j, g
  <2>4. g.jobs # <<>> /\ Head(g.jobs) = j
    BY <2>1, <2>2, <2>3, Replaced
  <2> QED BY <2>2, <2>3, <2>4 DEF Runs
<1> HIDE DEF g
<1>4. g \in Document /\ Ordered(g, u) /\ (g.live => d.live)
  BY <1>2 DEF Yields
<1>5. g.saves \in Seq(Saver) /\ ForJob \in Saver
  BY <1>4 DEF Document, Saver
<1>6. e \in Document
  BY <1>4, <1>5, Added DEF Flush, Document
<1>7. /\ e.timer = FALSE /\ e.jobs = g.jobs /\ e.conns = g.conns
      /\ e.staged = g.staged /\ e.unsaved = g.unsaved /\ e.live = g.live /\ e.seeded = g.seeded
  BY <1>4 DEF Flush, Document
<1>8. /\ e.saves # <<>>
      /\ \A k \in DOMAIN e.saves : e.saves[k] = ForJob => k = Len(g.saves) + 1
  <2>1. e.saves = Append(g.saves, ForJob)
    BY <1>4 DEF Flush, Document
  <2> QED BY <1>1, <1>3, <1>5, <2>1, Added
<1> HIDE DEF e
<1>9. Ordered(e, u)
  BY <1>3, <1>4, <1>7, <1>8 DEF Ordered, Runs
<1> QED BY <1>4, <1>6, <1>7, <1>9 DEF e, g, Yields

\* Every step of a job.
LEMMA JobShape ==
    ASSUME Shape, NEW i \in DOMAIN inst,
           \/ Admit(i) \/ Load(i) \/ Attach(i) \/ CheckAccess(i) \/ Deny(i) \/ ApplyEdit(i)
           \/ Inspect(i) \/ CommitMutation(i) \/ LoseMutation(i) \/ FinishMutation(i)
    PROVE  Docs(inst', opened) /\ drain' \in [Attempt -> DrainState]
<1> DEFINE d == inst[i]
           c == Head(d.jobs).who
           NoJobSave == \A k \in DOMAIN d.saves : d.saves[k] # ForJob
<1>1. d \in Document /\ Ordered(d, opened) /\ stored \subseteq Item
  BY DEF Shape, Types, Docs
<1>2. Yields(d, d, opened)
  BY <1>1 DEF Yields
<1>3. d.jobs # <<>> => Head(d.jobs) \in JobType
  BY <1>1, OrderedHead
<1>4. ASSUME d.jobs # <<>>, Head(d.jobs).pc # "flushing"
      PROVE  NoJobSave /\ (Ends(i, d) => Docs(inst', opened) /\ drain' \in [Attempt -> DrainState])
  BY <1>1, <1>2, <1>4, OrderedHead, EndsShape
<1>5. ASSUME d.jobs # <<>>, Head(d.jobs).pc # "flushing", NEW pc, pc \in Steps[Head(d.jobs).kind],
             Goes(i, Goto(d, pc)),
             d.seeded \/ pc \in {"queued", "admitted"}
      PROVE  Docs(inst', opened) /\ drain' \in [Attempt -> DrainState]
  BY <1>1, <1>4, <1>5, GotoShape, GoesShape
<1>6. CASE Admit(i)
  BY <1>3, <1>4, <1>5, <1>6 DEF Admit, At, Head1, Admission, Steps
<1>7. CASE Load(i)
  <2> DEFINE l == [d EXCEPT !.seeded = TRUE, !.content = stored, !.unsaved = FALSE]
             e == IF d.seeded THEN d ELSE l
  <2>1. d.jobs # <<>> /\ Head(d.jobs).kind \in {"attach", "apply"} /\ Head(d.jobs).pc = "admitted"
    BY <1>7 DEF Load, At, Head1, Admission
  <2>2. CASE Ends(i, d)
    BY <1>4, <2>1, <2>2
  <2>3. CASE Goes(i, Goto(e, "free"))
    <3>1. l \in Document /\ l.jobs = d.jobs /\ l.saves = d.saves
      BY <1>1 DEF Document
    <3>2. ~d.seeded => Yields(d, l, opened)
      BY <1>1, <3>1 DEF Yields, Document, Ordered, Runs
    <3>3. Yields(d, e, opened) /\ e.jobs = d.jobs /\ e.saves = d.saves /\ e.seeded
      BY <1>1, <1>2, <3>1, <3>2 DEF Document
    <3> HIDE DEF e
    <3>4. Yields(e, Goto(e, "free"), opened)
      BY <1>4, <2>1, <3>3, GotoShape DEF Yields, Steps
    <3> QED BY <2>3, <3>3, <3>4, GoesShape DEF Yields
  <2> QED BY <1>7, <2>2, <2>3 DEF Load
<1>8. CASE Attach(i)
  <2> DEFINE e == [d EXCEPT !.conns = @ \cup {c}, !.rest = "none"]
  <2>1. d.jobs # <<>> /\ Head(d.jobs).kind = "attach" /\ Head(d.jobs).pc = "free"
    BY <1>8 DEF Attach, At, Head1
  <2>2. c \in Conn /\ c \in opened
    BY <1>1, <1>3, <2>1, OrderedHead DEF JobType
  <2>3. e \in Document /\ e.jobs = d.jobs /\ e.saves = d.saves
    BY <1>1, <2>2 DEF Document
  <2>4. Yields(d, e, opened)
    BY <1>1, <2>1, <2>2, <2>3 DEF Yields, Document, Ordered, Runs
  <2>5. Ends(i, d) \/ Ends(i, e)
    BY <1>8 DEF Attach, Head1
  <2> HIDE DEF e
  <2> QED BY <1>4, <2>1, <2>3, <2>4, <2>5, EndsShape
<1>9. CASE CheckAccess(i)
  BY <1>1, <1>3, <1>4, <1>5, <1>9 DEF CheckAccess, At, Head1, Steps, Ordered
<1>10. CASE Deny(i)
  <2>1. d.jobs # <<>> /\ Head(d.jobs).pc = "denied" /\ Ends(i, Close(d, {c}))
    BY <1>10 DEF Deny, At, Head1
  <2>2. Yields(d, Close(d, {c}), opened)
    BY <1>1, CloseShape
  <2>3. Close(d, {c}).jobs = d.jobs /\ Close(d, {c}).saves = d.saves
    BY <1>1, <2>1, CloseTidies DEF Tidied
  <2> QED BY <1>4, <2>1, <2>2, <2>3, EndsShape
<1>11. CASE ApplyEdit(i)
  <2> DEFINE e == [d EXCEPT !.content = @ \cup {c}, !.unsaved = TRUE, !.timer = (d.saves = <<>>)]
  <2>1. d.jobs # <<>> /\ Head(d.jobs).kind = "edit" /\ Head(d.jobs).pc = "allowed"
    BY <1>11 DEF ApplyEdit, At, Head1
  <2>2. c \in Conn /\ d.seeded
    BY <1>1, <1>3, <2>1, OrderedHead DEF JobType
  <2>3. e \in Document /\ e.jobs = d.jobs /\ e.saves = d.saves
    BY <1>1, <2>2 DEF Document, Item
  <2>4. Yields(d, e, opened)
    BY <1>1, <2>2, <2>3 DEF Yields, Document, Ordered, Runs
  <2>5. Ends(i, d) \/ Ends(i, e)
    BY <1>11 DEF ApplyEdit, Head1
  <2> HIDE DEF e
  <2> QED BY <1>4, <2>1, <2>3, <2>4, <2>5, EndsShape
<1>12. CASE Inspect(i)
  <2>1. d.jobs # <<>> /\ Head(d.jobs).kind = "apply" /\ Head(d.jobs).pc = "free"
    BY <1>12 DEF Inspect, At, Head1
  <2>2. Ends(i, d) \/ Goes(i, Flush(Goto(d, "flushing"), ForJob))
    BY <1>12 DEF Inspect
  <2> QED BY <1>1, <1>4, <2>1, <2>2, FlushForJobShape, GoesShape
<1>13. CASE CommitMutation(i)
  <2>1. d.jobs # <<>> /\ Head(d.jobs).kind = "apply" /\ Head(d.jobs).pc = "flushed"
    BY <1>13 DEF CommitMutation, At, Head1
  <2>2. Ends(i, d) \/ Goes(i, Goto(d, "written"))
    BY <1>13 DEF CommitMutation
  <2> QED BY <1>1, <1>4, <1>5, <2>1, <2>2, OrderedHead DEF Steps
<1>14. CASE LoseMutation(i)
  BY <1>4, <1>14 DEF LoseMutation, At, Head1
<1>15. CASE FinishMutation(i)
  <2> DEFINE e == [d EXCEPT !.content = @ \cup {c}]
  <2>1. d.jobs # <<>> /\ Head(d.jobs).kind = "apply" /\ Head(d.jobs).pc = "written"
    BY <1>15 DEF FinishMutation, At, Head1
  <2>2. c \in Item
    BY <1>3, <2>1 DEF JobType
  <2>3. e \in Document /\ e.jobs = d.jobs /\ e.saves = d.saves
    BY <1>1, <2>2 DEF Document
  <2>4. Yields(d, e, opened)
    BY <1>1, <2>3 DEF Yields, Document, Ordered, Runs
  <2>5. Ends(i, e)
    BY <1>15 DEF FinishMutation, Head1
  <2> HIDE DEF e
  <2> QED BY <1>4, <2>1, <2>3, <2>4, <2>5, EndsShape
<1> QED BY <1>6, <1>7, <1>8, <1>9, <1>10, <1>11, <1>12, <1>13, <1>14, <1>15

\* The document after a save, before anything else is done with it, and after
\* releaseDocument or schedulePersistenceRetry.
After(saved) == [saved EXCEPT !.saves = Tail(@), !.staged = None]

Again(saved) ==
    IF After(saved).draining \/ ~After(saved).unsaved THEN Release(After(saved)) ELSE Retry(After(saved))

LEMMA AfterShape ==
    ASSUME NEW u, NEW saved \in Document, Ordered([saved EXCEPT !.staged = None], u), saved.saves # <<>>
    PROVE  LET rest == After(saved)
               who == Head(saved.saves)
           IN  /\ rest \in Document /\ Ordered(rest, u)
               /\ who \in Saver /\ rest.saves = Tail(saved.saves)
               /\ (who = ForJob => /\ Runs(rest, "apply", "flushing")
                                   /\ \A k \in DOMAIN rest.saves : rest.saves[k] # ForJob)
               /\ rest.live = saved.live /\ rest.seeded = saved.seeded /\ rest.content = saved.content
               /\ rest.unsaved = saved.unsaved /\ rest.draining = saved.draining
               /\ rest.conns = saved.conns /\ rest.timer = saved.timer /\ rest.jobs = saved.jobs
               /\ rest.staged = None
<1> DEFINE who == Head(saved.saves)
           rest == After(saved)
           base == [saved EXCEPT !.staged = None]
<1>1. saved.saves \in Seq(Saver)
  BY DEF Document
<1>2. base \in Document /\ Ordered(base, u)
  BY DEF Document
<1>3. /\ base.saves = saved.saves /\ base.jobs = saved.jobs /\ base.timer = saved.timer
      /\ base.conns = saved.conns /\ base.seeded = saved.seeded /\ base.unsaved = saved.unsaved
      /\ base.staged = None /\ base.live = saved.live
  BY DEF Document
<1>4. rest \in Document
  BY <1>1, Behind DEF Document, After
<1>5. /\ rest.live = saved.live /\ rest.seeded = saved.seeded /\ rest.content = saved.content
      /\ rest.unsaved = saved.unsaved /\ rest.draining = saved.draining
      /\ rest.conns = saved.conns /\ rest.timer = saved.timer /\ rest.jobs = saved.jobs
      /\ rest.staged = None /\ rest.saves = Tail(saved.saves)
  BY DEF Document, After
<1>6. /\ \A k \in DOMAIN rest.saves : k + 1 \in DOMAIN saved.saves /\ rest.saves[k] = saved.saves[k + 1] /\ k \in Nat \ {0}
      /\ who \in Saver /\ who = saved.saves[1] /\ 1 \in DOMAIN saved.saves
  BY <1>1, <1>5, Behind
<1> HIDE DEF base, rest
<1>7. Ordered(rest, u)
  <2>1. /\ rest.timer => rest.saves = <<>>
        /\ rest.staged # None => rest.unsaved /\ rest.saves # <<>>
    BY <1>2, <1>3, <1>5 DEF Ordered
  <2>2. \A k \in DOMAIN rest.saves : rest.saves[k] = ForJob => Runs(rest, "apply", "flushing")
    BY <1>2, <1>3, <1>5, <1>6 DEF Ordered, Runs
  <2>3. \A k, l \in DOMAIN rest.saves : rest.saves[k] = ForJob /\ rest.saves[l] = ForJob => k = l
    <3> SUFFICES ASSUME NEW k \in DOMAIN rest.saves, NEW l \in DOMAIN rest.saves,
                        rest.saves[k] = ForJob, rest.saves[l] = ForJob
                 PROVE  k = l
      OBVIOUS
    <3>1. k + 1 = l + 1
      BY <1>2, <1>3, <1>6 DEF Ordered
    <3>2. k \in Nat /\ l \in Nat
      BY <1>6
    <3> QED BY <3>1, <3>2
  <2> QED BY <1>2, <1>3, <1>5, <2>1, <2>2, <2>3 DEF Ordered
<1>8. who = ForJob => Runs(rest, "apply", "flushing") /\ \A k \in DOMAIN rest.saves : rest.saves[k] # ForJob
  <2>1. who = ForJob => Runs(base, "apply", "flushing")
    BY <1>2, <1>3, <1>6 DEF Ordered
  <2>2. ASSUME who = ForJob, NEW k \in DOMAIN rest.saves, rest.saves[k] = ForJob
        PROVE  FALSE
    <3>1. k + 1 = 1 /\ k \in Nat \ {0}
      BY <1>2, <1>3, <1>6, <2>2 DEF Ordered
    <3> QED BY <3>1
  <2> QED BY <1>3, <1>5, <2>1, <2>2 DEF Runs
<1> QED BY <1>4, <1>5, <1>6, <1>7, <1>8 DEF rest

LEMMA DrainMoves ==
    ASSUME drain \in [Attempt -> DrainState], NEW a \in Attempt,
           NEW s \in {"saving", "ok", "failed", "refused"}, drain' = [drain EXCEPT ![a].pc = s]
    PROVE  drain' \in [Attempt -> DrainState]
BY DEF DrainState

\* The end of a save.
LEMMA SettledShape ==
    ASSUME Shape, NEW i \in DOMAIN inst, NEW saved \in Document, NEW how \in {"ok", "failed", "refused"},
           Yields(inst[i], [saved EXCEPT !.staged = None], opened),
           saved.saves # <<>>, Settled(i, saved, how)
    PROVE  Docs(inst', opened) /\ drain' \in [Attempt -> DrainState]
<1> DEFINE who == Head(saved.saves)
           end == IF who = ForExit /\ how = "refused" THEN "ok" ELSE how
           rest == After(saved)
           again == Again(saved)
           closed == IF who = ForExit THEN Close(again, again.conns) ELSE again
           reopened == [again EXCEPT !.draining = FALSE]
           flushed == IF ~again.live THEN again
                      ELSE IF end = "ok" THEN Cleanup(closed)
                      ELSE IF who # ForExit /\ again.unsaved THEN Retry(reopened)
                      ELSE again
<1>1. Ordered([saved EXCEPT !.staged = None], opened) /\ (saved.live => inst[i].live)
  BY DEF Yields, Document
<1>2. /\ rest \in Document /\ Ordered(rest, opened)
      /\ who \in Saver /\ rest.live = saved.live
      /\ (who = ForJob => /\ Runs(rest, "apply", "flushing")
                          /\ \A k \in DOMAIN rest.saves : rest.saves[k] # ForJob)
  BY <1>1, AfterShape
<1> HIDE DEF who, rest
<1>9. Yields(rest, again, opened)
  BY <1>2, ReleaseShape, RetryShape DEF Again, rest
<1>10. again \in Document /\ Ordered(again, opened) /\ (again.live => inst[i].live)
  BY <1>1, <1>2, <1>9 DEF Yields
<1>11. again.jobs = rest.jobs /\ (rest.jobs # <<>> => again.saves = rest.saves)
  BY <1>2, ReleaseTidies DEF Tidied, Retry, Document, Again, rest
<1> HIDE DEF again
<1>12. CASE who = ForNobody
  <2>1. Goes(i, again)
    BY <1>12, Tags DEF Settled, again, Again, After, who
  <2> QED BY <1>10, <2>1, GoesShape DEF Yields
<1>13. CASE who = ForJob
  <2>1. IF how = "ok" THEN Goes(i, Goto(again, "flushed")) ELSE Ends(i, again)
    BY <1>13, Tags DEF Settled, again, Again, After, who
  <2>2. /\ again.jobs # <<>> /\ Head(again.jobs).kind = "apply" /\ Head(again.jobs).pc = "flushing"
        /\ \A k \in DOMAIN again.saves : again.saves[k] # ForJob
    BY <1>2, <1>11, <1>13 DEF Runs
  <2>3. Yields(again, Goto(again, "flushed"), opened)
    BY <1>10, <2>2, OrderedHead, GotoShape DEF Steps
  <2>4. Yields(inst[i], Goto(again, "flushed"), opened) /\ Yields(inst[i], again, opened)
    BY <1>10, <2>3 DEF Yields
  <2> QED BY <2>1, <2>2, <2>4, GoesShape, EndsShape
<1>14. CASE who \in Attempt
  <2>1. /\ inst' = [inst EXCEPT ![i] = flushed]
        /\ drain' = [drain EXCEPT ![who].pc = end]
    BY <1>14, Tags DEF Settled, again, Again, After, who
  <2>2. drain' \in [Attempt -> DrainState]
    <3>1. end \in {"saving", "ok", "failed", "refused"}
      OBVIOUS
    <3> QED BY <1>14, <2>1, <3>1, DrainMoves DEF Shape, Types
  <2>3. Yields(again, closed, opened)
    BY <1>10, CloseShape DEF Yields
  <2> HIDE DEF closed
  <2>4. Yields(again, Cleanup(closed), opened)
    BY <2>3, CleanupShape DEF Yields
  <2>5. Yields(again, reopened, opened)
    <3>1. /\ reopened \in Document /\ reopened.live = again.live /\ reopened.jobs = again.jobs
          /\ reopened.saves = again.saves /\ reopened.staged = again.staged
          /\ reopened.timer = again.timer /\ reopened.unsaved = again.unsaved
          /\ reopened.seeded = again.seeded /\ reopened.conns = again.conns
      BY <1>10 DEF Document
    <3> HIDE DEF reopened
    <3> QED BY <1>10, <3>1 DEF Yields, Ordered, Runs
  <2> HIDE DEF reopened
  <2>6. Yields(again, Retry(reopened), opened)
    BY <2>5, RetryShape DEF Yields
  <2>7. Yields(inst[i], flushed, opened)
    BY <1>10, <2>4, <2>6 DEF Yields
  <2> HIDE DEF flushed
  <2> QED BY <2>1, <2>2, <2>7, Put DEF Shape
<1> QED BY <1>2, <1>12, <1>13, <1>14 DEF Saver

\* Saves begin, end, fail; a document without connections is retired.
LEMMA SaveShape ==
    ASSUME Shape, NEW i \in DOMAIN inst,
           TimerFires(i) \/ BeginSave(i) \/ EndSave(i) \/ SaveFails(i) \/ SaveRejected(i) \/ Retire(i)
    PROVE  Docs(inst', opened) /\ drain' \in [Attempt -> DrainState]
<1> DEFINE d == inst[i]
           noCopy == [d EXCEPT !.staged = None]
<1>1. d \in Document /\ Ordered(d, opened)
  BY DEF Shape, Docs
<1>2. Yields(d, noCopy, opened)
  BY <1>1 DEF Yields, Document, Ordered, Runs
<1>3. CASE TimerFires(i)
  BY <1>1, <1>3, FlushShape, GoesShape, Tags DEF TimerFires, Saver
<1>4. CASE Retire(i)
  <2> DEFINE e == [d EXCEPT !.rest = "none"]
  <2>1. Yields(d, e, opened)
    BY <1>1 DEF Yields, Document, Ordered, Runs
  <2>2. Goes(i, Release(e))
    BY <1>4 DEF Retire
  <2> HIDE DEF e
  <2>3. Yields(d, Release(e), opened)
    BY <2>1, ReleaseShape DEF Yields
  <2> QED BY <2>2, <2>3, GoesShape
<1>5. CASE BeginSave(i)
  <2> DEFINE e == [d EXCEPT !.staged = d.content]
  <2>1. d.saves # <<>> /\ (IF d.unsaved THEN Goes(i, e) ELSE Settled(i, d, "ok"))
    BY <1>5 DEF BeginSave
  <2>2. d.unsaved => Yields(d, e, opened)
    BY <1>1, <2>1 DEF Yields, Document, Ordered, Runs
  <2> HIDE DEF e, noCopy
  <2>3. CASE d.unsaved
    BY <2>1, <2>2, <2>3, GoesShape
  <2>4. CASE ~d.unsaved
    BY <1>1, <1>2, <2>1, <2>4, SettledShape DEF noCopy
  <2> QED BY <2>3, <2>4
<1>6. CASE EndSave(i)
  <2> DEFINE e == [d EXCEPT !.unsaved = (d.content \cap Conn) \ d.staged # {}]
             f == [e EXCEPT !.staged = None]
  <2>1. d.staged # None /\ d.unsaved /\ d.saves # <<>> /\ Settled(i, e, "ok")
    BY <1>1, <1>6 DEF EndSave, Ordered
  <2>2. e \in Document /\ e.saves = d.saves
    BY <1>1 DEF Document
  <2>3. Yields(d, f, opened)
    BY <1>1, <2>1 DEF Yields, Document, Ordered, Runs
  <2> HIDE DEF e
  <2> QED BY <2>1, <2>2, <2>3, SettledShape
<1>7. CASE SaveFails(i)
  BY <1>1, <1>2, <1>7, SettledShape DEF SaveFails, Ordered
<1>8. CASE SaveRejected(i)
  <2> DEFINE e == [d EXCEPT !.unsaved = FALSE, !.draining = TRUE]
             f == Close(e, e.conns)
             b == [f EXCEPT !.staged = None]
  <2>1. d.saves # <<>> /\ Settled(i, f, "refused")
    BY <1>1, <1>8 DEF SaveRejected, Ordered
  <2>2. /\ e \in Document /\ e.saves = d.saves /\ e.jobs = d.jobs /\ e.timer = d.timer
        /\ e.seeded = d.seeded /\ e.live = d.live /\ e.unsaved = FALSE
    BY <1>1 DEF Document
  <2> HIDE DEF e
  <2>3. /\ f \in Document /\ f.saves = d.saves /\ f.jobs = d.jobs /\ f.timer = d.timer
        /\ f.seeded = d.seeded /\ f.live = d.live /\ f.unsaved = FALSE /\ f.conns = {}
    BY <2>1, <2>2, CloseSaving
  <2> HIDE DEF f
  <2>4. /\ b \in Document /\ b.saves = d.saves /\ b.jobs = d.jobs /\ b.timer = d.timer
        /\ b.seeded = d.seeded /\ b.live = d.live /\ b.unsaved = FALSE /\ b.conns = {} /\ b.staged = None
    BY <2>3 DEF Document
  <2> HIDE DEF b
  <2>5. Yields(d, b, opened)
    BY <1>1, <2>4 DEF Yields, Ordered, Runs
  <2> QED BY <2>1, <2>3, <2>5, SettledShape DEF b
<1> QED BY <1>3, <1>4, <1>5, <1>6, <1>7, <1>8

\* A job joins the queue of the live document, or of a new one.
LEMMA AcquireShape ==
    ASSUME NEW u, Docs(inst, u), NEW job \in JobType, job.pc = "queued",
           job.kind = "attach" => job.who \in u, Acquire(job)
    PROVE  Docs(inst', u)
<1> DEFINE doc == [NewDocument EXCEPT !.jobs = <<job>>]
<1>1. inst \in Seq(Document)
  BY DEF Docs
<1>2. CASE Live # {}
  <2>1. PICK i \in Live : inst' = [inst EXCEPT ![i].jobs = Append(@, job)]
    BY <1>2 DEF Acquire
  <2> DEFINE d == inst[i]
             e == [d EXCEPT !.jobs = Append(@, job)]
  <2>a. i \in DOMAIN inst /\ d \in Document /\ Ordered(d, u)
    BY <1>1 DEF Live, Docs
  <2>2. i \in DOMAIN inst /\ d \in Document /\ Ordered(d, u) /\ d.jobs \in Seq(JobType)
    BY <2>a DEF Document
  <2>3. e \in Document
    BY <2>2, Added DEF Document
  <2>4. /\ e.timer = d.timer /\ e.saves = d.saves /\ e.conns = d.conns /\ e.live = d.live
        /\ e.staged = d.staged /\ e.unsaved = d.unsaved /\ e.seeded = d.seeded
    BY <2>2 DEF Document
  <2>5. /\ DOMAIN d.jobs = 1 .. Len(d.jobs) /\ DOMAIN e.jobs = 1 .. Len(d.jobs) + 1
        /\ \A k \in DOMAIN d.jobs : e.jobs[k] = d.jobs[k]
        /\ e.jobs[Len(d.jobs) + 1] = job
        /\ e.jobs # <<>> /\ Head(e.jobs) = (IF d.jobs = <<>> THEN job ELSE Head(d.jobs))
        /\ Len(d.jobs) \in Nat
    <3>1. e.jobs = Append(d.jobs, job)
      BY <2>2 DEF Document
    <3> QED BY <2>2, <3>1, Added
  <2>6. \A k \in DOMAIN e.jobs : k \in DOMAIN d.jobs \/ e.jobs[k] = job
    BY <2>5
  <2>7. inst' = [inst EXCEPT ![i] = e]
    BY <2>1
  <2> HIDE DEF e
  <2>8. Ordered(e, u)
    BY <2>2, <2>4, <2>5, <2>6 DEF Ordered, Runs
  <2> QED BY <2>2, <2>3, <2>4, <2>7, <2>8, Put DEF Yields
<1>3. CASE Live = {}
  <2>1. doc \in Document
    <3>1. <<job>> \in Seq(JobType) /\ <<>> \in Seq(Saver)
      OBVIOUS
    <3> QED BY <3>1 DEF NewDocument, Document
  <2>2. /\ doc.jobs = <<job>> /\ doc.saves = <<>> /\ doc.timer = FALSE /\ doc.conns = {} /\ doc.staged = None
        /\ doc.unsaved = FALSE
    BY DEF NewDocument
  <2>3. DOMAIN <<job>> = {1} /\ <<job>>[1] = job /\ <<job>> # <<>> /\ Head(<<job>>) = job /\ DOMAIN doc.saves = {}
    BY <2>2
  <2> HIDE DEF doc
  <2>4. Ordered(doc, u)
    BY <2>2, <2>3 DEF Ordered, Runs
  <2>5. inst' = <<doc>> \/ inst' = Append(inst, doc)
    BY <1>3 DEF Acquire, doc
  <2>6. CASE inst' = <<doc>>
    BY <2>1, <2>4, <2>6 DEF Docs
  <2>7. CASE inst' = Append(inst, doc)
    <3>1. /\ inst' \in Seq(Document) /\ DOMAIN inst' = 1 .. Len(inst) + 1 /\ DOMAIN inst = 1 .. Len(inst)
          /\ \A k \in DOMAIN inst : inst'[k] = inst[k]
          /\ inst'[Len(inst) + 1] = doc /\ Len(inst) \in Nat
      BY <1>1, <2>1, <2>7, Added
    <3>2. \A k \in DOMAIN inst' : k = Len(inst) + 1 \/ (k \in DOMAIN inst /\ ~inst[k].live)
      BY <1>3, <3>1 DEF Live
    <3> QED BY <2>4, <3>1, <3>2 DEF Docs
  <2> QED BY <2>5, <2>6, <2>7
<1> QED BY <1>2, <1>3

LEMMA JobTypes ==
    /\ \A c \in Conn : Job("attach", c) \in JobType /\ Job("edit", c) \in JobType
    /\ \A m \in Mutation : Job("apply", m) \in JobType
    /\ \A kind, who : Job(kind, who).pc = "queued" /\ Job(kind, who).kind = kind /\ Job(kind, who).who = who
BY DEF Job, JobType, Item, Steps

LEMMA ClientShape ==
    ASSUME Shape, Client
    PROVE  Docs(inst', opened') /\ opened' \subseteq Conn
<1>1. Docs(inst, opened) /\ opened \subseteq Conn
  BY DEF Shape, Types
<1>2. ASSUME NEW c \in Conn, Upgrade(c)
      PROVE  Docs(inst', opened') /\ opened' \subseteq Conn
  <2>1. opened' = opened \cup {c}
    BY <1>2 DEF Upgrade
  <2>2. Docs(inst, opened')
    BY <1>1, <2>1, MoreUpgraded
  <2>3. Acquire(Job("attach", c)) \/ inst' = inst
    BY <1>2 DEF Upgrade
  <2>4. Job("attach", c) \in JobType /\ Job("attach", c).pc = "queued" /\ Job("attach", c).who \in opened'
    BY <2>1, JobTypes
  <2>5. Acquire(Job("attach", c)) => Docs(inst', opened')
    BY <2>2, <2>4, AcquireShape
  <2> QED BY <1>1, <2>1, <2>2, <2>3, <2>5
<1>3. ASSUME NEW c \in Conn, SendEdit(c)
      PROVE  Docs(inst', opened') /\ opened' \subseteq Conn
  <2>1. PICK i \in DOMAIN inst :
          LET d == inst[i]
          IN  /\ c \in d.conns
              /\ inst' = [inst EXCEPT ![i] =
                    IF d.live /\ ~d.draining THEN [d EXCEPT !.jobs = Append(@, Job("edit", c))]
                    ELSE Close(d, {c})]
    BY <1>3 DEF SendEdit
  <2> DEFINE d == inst[i]
             j == Job("edit", c)
             e == [d EXCEPT !.jobs = Append(@, j)]
  <2>a. d \in Document /\ Ordered(d, opened)
    BY <1>1 DEF Docs
  <2>2. d \in Document /\ Ordered(d, opened) /\ d.jobs \in Seq(JobType)
    BY <2>a DEF Document
  <2>3. j \in JobType /\ j.pc = "queued" /\ j.kind = "edit"
    BY JobTypes
  <2> HIDE DEF j
  <2>4. e \in Document
    BY <2>2, <2>3, Added DEF Document
  <2>5. /\ e.timer = d.timer /\ e.saves = d.saves /\ e.conns = d.conns /\ e.live = d.live
        /\ e.staged = d.staged /\ e.unsaved = d.unsaved /\ e.seeded = d.seeded
    BY <2>2 DEF Document
  <2>6. /\ \A k \in DOMAIN d.jobs : e.jobs[k] = d.jobs[k]
        /\ \A k \in DOMAIN e.jobs : k \in DOMAIN d.jobs \/ e.jobs[k] = j
        /\ e.jobs # <<>> /\ Head(e.jobs) = (IF d.jobs = <<>> THEN j ELSE Head(d.jobs))
    <3>1. e.jobs = Append(d.jobs, j)
      BY <2>2 DEF Document
    <3> QED BY <2>2, <2>3, <3>1, Added
  <2> HIDE DEF e
  <2>7. Yields(d, e, opened)
    BY <2>2, <2>3, <2>4, <2>5, <2>6 DEF Ordered, Runs, Yields
  <2>8. Yields(d, Close(d, {c}), opened)
    BY <2>2, CloseShape
  <2>9. inst' = [inst EXCEPT ![i] = e] \/ inst' = [inst EXCEPT ![i] = Close(d, {c})]
    <3>1. inst' = [inst EXCEPT ![i] = IF d.live /\ ~d.draining THEN e ELSE Close(d, {c})]
      BY <2>1 DEF e, j
    <3> QED BY <3>1
  <2>10. opened' = opened
    BY <1>3 DEF SendEdit
  <2> QED BY <1>1, <2>7, <2>8, <2>9, <2>10, Put
<1>4. ASSUME NEW c \in Conn, Disconnect(c)
      PROVE  Docs(inst', opened') /\ opened' \subseteq Conn
  <2>1. inst' = [i \in DOMAIN inst |-> Close(inst[i], {c})] /\ opened' = opened
    BY <1>4 DEF Disconnect
  <2>2. inst \in Seq(Document) /\ Len(inst) \in Nat /\ DOMAIN inst = 1 .. Len(inst)
    BY <1>1 DEF Docs
  <2>3. \A i \in DOMAIN inst : Yields(inst[i], Close(inst[i], {c}), opened)
    BY <1>1, <2>2, CloseShape DEF Docs
  <2>4. inst' \in Seq(Document)
    <3>1. inst' \in [1 .. Len(inst) -> Document]
      BY <2>1, <2>2, <2>3 DEF Yields
    <3> QED BY <2>2, <3>1
  <2> QED BY <1>1, <2>1, <2>3, <2>4 DEF Docs, Yields
<1>5. ASSUME NEW m \in Mutation, Post(m)
      PROVE  Docs(inst', opened') /\ opened' \subseteq Conn
  <2>1. (Acquire(Job("apply", m)) \/ inst' = inst) /\ opened' = opened
    BY <1>5 DEF Post
  <2>2. Job("apply", m) \in JobType /\ Job("apply", m).pc = "queued" /\ Job("apply", m).kind = "apply"
    BY JobTypes
  <2>3. Acquire(Job("apply", m)) => Docs(inst', opened)
    BY <1>1, <2>2, AcquireShape
  <2> QED BY <1>1, <2>1, <2>3
<1> QED BY <1>2, <1>3, <1>4, <1>5 DEF Client

LEMMA StartDrainShape ==
    ASSUME Shape, NEW a \in Attempt, NEW closing \in BOOLEAN, StartDrain(a, closing)
    PROVE  Docs(inst', opened) /\ drain' \in [Attempt -> DrainState]
<1>1. Docs(inst, opened) /\ drain \in [Attempt -> DrainState]
  BY DEF Shape, Types
<1>2. CASE Live = {}
  BY <1>1, <1>2 DEF StartDrain, DrainState
<1>3. CASE Live # {}
  <2>1. PICK i \in Live :
            LET doc == [inst[i] EXCEPT !.draining = TRUE]
            IN  /\ inst' = [inst EXCEPT ![i] = IF closing THEN Close(doc, doc.conns) ELSE doc]
                /\ drain' = [drain EXCEPT ![a] =
                      [pc |-> "waiting", at |-> i, ahead |-> Len(inst[i].jobs)]]
    BY <1>3 DEF StartDrain
  <2> DEFINE d == inst[i]
             doc == [d EXCEPT !.draining = TRUE]
  <2>2. i \in DOMAIN inst /\ i \in Nat /\ d \in Document /\ Ordered(d, opened) /\ Len(d.jobs) \in Nat
    <3>1. i \in DOMAIN inst /\ inst \in Seq(Document)
      BY <1>1 DEF Live, Docs
    <3>2. d \in Document /\ i \in Nat /\ Ordered(d, opened)
      BY <1>1, <3>1 DEF Docs
    <3> QED BY <3>1, <3>2 DEF Document
  <2>3. Yields(d, doc, opened)
    BY <2>2 DEF Yields, Document, Ordered, Runs
  <2>4. drain' \in [Attempt -> DrainState]
    BY <1>1, <2>1, <2>2 DEF DrainState
  <2> DEFINE e == IF closing THEN Close(doc, doc.conns) ELSE doc
  <2>5. inst' = [inst EXCEPT ![i] = e]
    BY <2>1
  <2> HIDE DEF doc
  <2>6. Yields(d, e, opened)
    BY <2>3, CloseShape DEF Yields
  <2> HIDE DEF e
  <2> QED BY <1>1, <2>2, <2>4, <2>5, <2>6, Put
<1> QED BY <1>2, <1>3

LEMMA DrainFlushShape ==
    ASSUME Shape, NEW a \in Attempt, DrainFlush(a)
    PROVE  Docs(inst', opened) /\ drain' \in [Attempt -> DrainState]
<1> DEFINE i == drain[a].at
<1>1. Docs(inst, opened) /\ drain \in [Attempt -> DrainState] /\ inst \in Seq(Document)
  BY DEF Shape, Types, Docs
<1>2. drain' \in [Attempt -> DrainState]
  <2>1. \E s \in {"saving", "ok"} : drain' = [drain EXCEPT ![a].pc = s]
    BY DEF DrainFlush
  <2> QED BY <1>1, <2>1, DrainMoves
<1>3. CASE inst' = inst
  BY <1>1, <1>2, <1>3
<1>4. CASE inst' = [inst EXCEPT ![i] = Flush(@, a)]
  <2>1. CASE i \notin DOMAIN inst
    <3>1. inst' = inst
      <4>1. inst \in [1 .. Len(inst) -> Document]
        BY <1>1
      <4> QED BY <1>4, <2>1, <4>1
    <3> QED BY <1>1, <1>2, <3>1
  <2>2. CASE i \in DOMAIN inst
    <3>1. inst' = [inst EXCEPT ![i] = Flush(inst[i], a)]
      BY <1>4
    <3>2. Yields(inst[i], Flush(inst[i], a), opened)
      BY <1>1, <2>2, FlushShape, Tags DEF Docs, Saver
    <3> QED BY <1>1, <1>2, <2>2, <3>1, <3>2, Put
  <2> QED BY <2>1, <2>2
<1> QED BY <1>3, <1>4 DEF DrainFlush

LEMMA NewServerShape ==
    ASSUME Shape, NewServer
    PROVE  Docs(inst', opened) /\ drain' \in [Attempt -> DrainState]
<1>1. Docs(<<>>, opened)
  BY DEF Docs
<1> QED BY <1>1 DEF NewServer, Shape, Types, DrainState

LEMMA SpendType ==
    ASSUME budget \in [Faults -> Nat], NEW f \in Faults, May(f), Spend(f)
    PROVE  budget' \in [Faults -> Nat] /\ \A g \in Faults : g # f => budget'[g] = budget[g]
BY DEF May, Spend

\* A job goes on.
LEMMA JobStep ==
    ASSUME Shape, NEW i \in DOMAIN inst,
           \/ Admit(i) \/ Load(i) \/ Attach(i) \/ CheckAccess(i) \/ Deny(i) \/ ApplyEdit(i)
           \/ Inspect(i) \/ CommitMutation(i) \/ LoseMutation(i) \/ FinishMutation(i)
    PROVE  Shape'
<1> DEFINE d == inst[i]
           c == Head(d.jobs).who
<1>1. Docs(inst', opened) /\ drain' \in [Attempt -> DrainState]
  BY JobShape
<1>2. Types /\ d \in Document /\ Ordered(d, opened)
  BY DEF Shape, Docs
<1>3. d.jobs # <<>> => /\ Head(d.jobs) \in JobType
                       /\ (Head(d.jobs).kind = "apply" => c \in Mutation)
                       /\ (Head(d.jobs).kind = "edit" => c \in Conn)
  BY <1>2, OrderedHead DEF JobType
<1>4. CASE Admit(i) \/ Load(i) \/ Attach(i) \/ CheckAccess(i) \/ Deny(i)
  BY <1>1, <1>2, <1>4
     DEF Admit, Load, Attach, CheckAccess, Deny, Shape, Types, database, clients, history
<1>5. CASE ApplyEdit(i)
  <2>1. accepted' \subseteq Conn
    BY <1>2, <1>3, <1>5 DEF ApplyEdit, At, Head1, Types
  <2> QED BY <1>1, <1>2, <1>5, <2>1 DEF ApplyEdit, Shape, Types, database, clients
<1>6. CASE Inspect(i) \/ FinishMutation(i)
  <2>1. answer' \in [Mutation -> {None, "ok"}]
    BY <1>2, <1>6 DEF Inspect, FinishMutation, Types
  <2> QED BY <1>1, <1>2, <1>6, <2>1 DEF Inspect, FinishMutation, Shape, Types, database, clients, history
<1>7. CASE CommitMutation(i)
  <2>1. c \in Mutation /\ d.content \subseteq Item
    BY <1>2, <1>3, <1>7 DEF CommitMutation, At, Head1, Document
  <2>2. stored' \subseteq Item /\ recorded' \subseteq Mutation /\ applied' \in [Mutation -> Nat]
    BY <1>2, <1>7, <2>1 DEF CommitMutation, Head1, Types, Item
  <2> QED BY <1>1, <1>2, <1>7, <2>2 DEF CommitMutation, Shape, Types, clients
<1>8. CASE LoseMutation(i)
  <2>1. budget' \in [Faults -> Nat]
    BY <1>2, <1>8, SpendType DEF LoseMutation, Types, Faults
  <2> QED BY <1>1, <1>2, <1>8, <2>1 DEF LoseMutation, Shape, Types, database, clients, history
<1> QED BY <1>4, <1>5, <1>6, <1>7, <1>8

LEMMA SaveStep ==
    ASSUME Shape, NEW i \in DOMAIN inst,
           TimerFires(i) \/ BeginSave(i) \/ EndSave(i) \/ SaveFails(i) \/ SaveRejected(i) \/ Retire(i)
    PROVE  Shape'
<1>1. Docs(inst', opened) /\ drain' \in [Attempt -> DrainState]
  BY SaveShape
<1>2. Types /\ inst[i] \in Document
  BY DEF Shape, Docs
<1>3. CASE TimerFires(i) \/ BeginSave(i) \/ Retire(i)
  BY <1>1, <1>2, <1>3 DEF TimerFires, BeginSave, Retire, Shape, Types, database, clients, history
<1>4. inst[i].staged # None => inst[i].staged \subseteq Item
  BY <1>2 DEF Document
<1>5. CASE EndSave(i)
  <2>1. stored' \subseteq Item
    BY <1>4, <1>5 DEF EndSave
  <2> QED BY <1>1, <1>2, <1>5, <2>1 DEF EndSave, Shape, Types, clients, history
<1>6. CASE SaveFails(i)
  <2>1. stored' \subseteq Item
    BY <1>2, <1>4, <1>6 DEF SaveFails, Types
  <2>2. budget' \in [Faults -> Nat]
    BY <1>2, <1>6, SpendType DEF SaveFails, Types, Faults
  <2> QED BY <1>1, <1>2, <1>6, <2>1, <2>2 DEF SaveFails, Shape, Types, clients, history
<1>7. CASE SaveRejected(i)
  <2>1. accepted' \subseteq Conn
    BY <1>2, <1>7 DEF SaveRejected, Types
  <2>2. budget' \in [Faults -> Nat]
    BY <1>2, <1>7, SpendType DEF SaveRejected, Types, Faults
  <2> QED BY <1>1, <1>2, <1>7, <2>1, <2>2 DEF SaveRejected, Shape, Types, database, clients
<1> QED BY <1>3, <1>5, <1>6, <1>7

LEMMA ClientStep ==
    ASSUME Shape, Client
    PROVE  Shape'
<1>1. Docs(inst', opened') /\ opened' \subseteq Conn
  BY ClientShape
<1>2. UNCHANGED <<database, fences, answer, budget, history>>
  BY DEF Client, Upgrade, SendEdit, Disconnect, Post
<1> QED BY <1>1, <1>2 DEF Shape, Types, database, fences, history

\* The request a fence sends next is one of its attempts.
LEMMA NextRequest ==
    ASSUME Shape, NEW r \in Leaver, RequestDrain(r) \/ DrainTimesOut(r)
    PROVE  /\ tries[r] + 1 \in 1 .. DrainAttempts /\ <<r, tries[r] + 1>> \in Attempt
           /\ tries' = [tries EXCEPT ![r] = @ + 1] /\ fence' = [fence EXCEPT ![r] = "draining"]
           /\ StartDrain(<<r, tries[r] + 1>>, TRUE)
<1>1. tries[r] + 1 \in 1 .. DrainAttempts
  <2>1. tries[r] \in 0 .. DrainAttempts /\ DrainAttempts \in Nat /\ DrainAttempts # 0
    BY ConstantsAssumption DEF Shape, Types
  <2>2. tries[r] = 0 \/ tries[r] < DrainAttempts
    BY DEF Shape, Types, RequestDrain, DrainTimesOut
  <2> QED BY <2>1, <2>2
<1>2. fence' = [fence EXCEPT ![r] = "draining"]
  BY DEF Shape, Types, RequestDrain, DrainTimesOut, Turn
<1> QED BY <1>1, <1>2, Tags DEF RequestDrain, DrainTimesOut

LEMMA FenceStep ==
    ASSUME Shape, NEW r \in Leaver, Lock(r) \/ Fence(r)
    PROVE  Shape'
<1>1. Types /\ Docs(inst, opened)
  BY DEF Shape
<1>2. CASE Lock(r)
  BY <1>1, <1>2 DEF Lock, Turn, Shape, Types, database, clients, history
<1>3. CASE Revoke(r)
  BY <1>1, <1>3 DEF Revoke, Turn, Shape, Types, clients, history
<1>4. CASE GiveUp(r)
  <2>1. budget' \in [Faults -> Nat]
    BY <1>1, <1>4, SpendType DEF GiveUp, Types, Faults
  <2>2. /\ fence' \in [Leaver -> {"idle", "locked", "draining", "done", "aborted"}]
        /\ \A q \in Leaver : fence'[q] \in {"idle", "locked", "draining"} => fence'[q] = fence[q]
    BY <1>1, <1>4 DEF GiveUp, Turn, Types
  <2> QED BY <1>1, <1>4, <2>1, <2>2 DEF GiveUp, Shape, Types, database, clients, history
<1>5. CASE RequestDrain(r) \/ DrainTimesOut(r)
  <2>1. Docs(inst', opened) /\ drain' \in [Attempt -> DrainState]
    BY <1>5, NextRequest, StartDrainShape
  <2>2. /\ tries' \in [Leaver -> 0 .. DrainAttempts]
        /\ fence' \in [Leaver -> {"idle", "locked", "draining", "done", "aborted"}]
        /\ \A q \in Leaver : fence'[q] \in {"idle", "locked"} => tries'[q] = 0
        /\ \A q \in Leaver : fence'[q] = "draining" => tries'[q] # 0
    <3>1. /\ tries[r] + 1 \in 1 .. DrainAttempts
          /\ tries' = [tries EXCEPT ![r] = @ + 1] /\ fence' = [fence EXCEPT ![r] = "draining"]
      BY <1>5, NextRequest
    <3>2. \A q \in Leaver : tries'[q] = IF q = r THEN tries[r] + 1 ELSE tries[q]
      BY <1>1, <3>1 DEF Types
    <3>3. tries[r] + 1 \in 0 .. DrainAttempts /\ tries[r] + 1 # 0
      BY <3>1
    <3>4. \A q \in Leaver : fence'[q] = IF q = r THEN "draining" ELSE fence[q]
      BY <1>1, <3>1 DEF Types
    <3>5. tries' \in [Leaver -> 0 .. DrainAttempts]
      BY <1>1, <3>1, <3>3 DEF Types
    <3>6. fence' \in [Leaver -> {"idle", "locked", "draining", "done", "aborted"}]
      BY <1>1, <3>1 DEF Types
    <3> QED BY <1>1, <3>2, <3>3, <3>4, <3>5, <3>6 DEF Types
  <2>3. budget' \in [Faults -> Nat] /\ UNCHANGED <<database, clients, answer, history>>
    BY <1>1, <1>5, SpendType DEF RequestDrain, DrainTimesOut, Types, Faults
  <2> QED BY <1>1, <2>1, <2>2, <2>3 DEF Shape, Types, database, clients, history
<1> QED BY <1>2, <1>3, <1>4, <1>5 DEF Fence

LEMMA ServerStep ==
    ASSUME Shape, Shutdown \/ Restart \/ Crash \/ \E a \in Attempt : DrainFlush(a)
    PROVE  Shape'
<1>1. Types /\ Docs(inst, opened)
  BY DEF Shape
<1>2. CASE Shutdown
  <2>1. Docs(inst', opened) /\ drain' \in [Attempt -> DrainState]
    BY <1>2, StartDrainShape, Tags DEF Shutdown
  <2>2. budget' \in [Faults -> Nat]
    BY <1>1, <1>2, SpendType DEF Shutdown, Types, Faults
  <2> QED BY <1>1, <1>2, <2>1, <2>2 DEF Shutdown, Shape, Types, database, clients, history
<1>3. CASE Restart
  <2>1. Docs(inst', opened) /\ drain' \in [Attempt -> DrainState]
    BY <1>3, NewServerShape DEF Restart
  <2> QED BY <1>1, <1>3, <2>1 DEF Restart, Shape, Types, database, history
<1>4. CASE Crash
  <2>1. Docs(inst', opened) /\ drain' \in [Attempt -> DrainState]
    BY <1>4, NewServerShape DEF Crash
  <2>2. budget' \in [Faults -> Nat]
    BY <1>1, <1>4, SpendType DEF Crash, Types, Faults
  <2> QED BY <1>1, <1>4, <2>1, <2>2 DEF Crash, Shape, Types, database
<1>5. ASSUME NEW a \in Attempt, DrainFlush(a)
      PROVE  Shape'
  <2>1. Docs(inst', opened) /\ drain' \in [Attempt -> DrainState]
    BY <1>5, DrainFlushShape
  <2> QED BY <1>1, <1>5, <2>1 DEF DrainFlush, Shape, Types, database, clients, history
<1> QED BY <1>2, <1>3, <1>4, <1>5

LEMMA ShapeInit == Init => Shape
<1> SUFFICES ASSUME Init PROVE Shape
  OBVIOUS
<1>1. budget \in [Faults -> Nat]
  BY ConstantsAssumption DEF Init
<1>2. Docs(inst, opened)
  BY DEF Init, Docs
<1>3. drain \in [Attempt -> DrainState]
  BY DEF Init, DrainState
<1>4. tries \in [Leaver -> 0 .. DrainAttempts]
  BY ConstantsAssumption DEF Init
<1> QED BY <1>1, <1>2, <1>3, <1>4 DEF Init, Shape, Types

LEMMA ShapeNext == Shape /\ [Next]_vars => Shape'
<1> SUFFICES ASSUME Shape, [Next]_vars PROVE Shape'
  OBVIOUS
<1>1. CASE Next
  BY <1>1, JobStep, SaveStep, ClientStep, FenceStep, ServerStep DEF Next, Serve
<1>2. CASE UNCHANGED vars
  BY <1>2 DEF vars, database, fences, clients, history, Shape, Types
<1> QED BY <1>1, <1>2

\* At most one document is in docs, the timer and the saves of a document
\* exclude each other, and what is being written is unsaved: the types of
\* RealtimeDocument, whatever fails or times out.
THEOREM TypeCorrect == Spec => []TypeOK
<1>1. Shape => TypeOK
  <2> SUFFICES ASSUME Shape PROVE TypeOK
    OBVIOUS
  <2>1. Cardinality(Live) <= 1
    <3>1. CASE Live = {}
      BY <3>1, FS_EmptySet
    <3>2. CASE Live # {}
      <4>1. PICK i \in Live : TRUE
        BY <3>2
      <4>2. Live = {i}
        BY <4>1 DEF Shape, Docs, Live
      <4> QED BY <4>2, FS_Singleton
    <3> QED BY <3>1, <3>2
  <2>2. \A i \in DOMAIN inst : inst[i] \in Document /\ Ordered(inst[i], opened)
    BY DEF Shape, Docs
  <2>3. \A i \in DOMAIN inst :
          /\ inst[i].content \subseteq Conn \cup Mutation
          /\ inst[i].conns \subseteq opened
          /\ inst[i].timer => inst[i].saves = <<>>
          /\ inst[i].staged # None => inst[i].unsaved
    BY <2>2 DEF Ordered, Document, Item
  <2> QED BY <2>1, <2>3 DEF Shape, Types, TypeOK, DrainState, Item
<1> QED BY <1>1, ShapeInit, ShapeNext, PTL DEF Spec

-----------------------------------------------------------------------------
(* What releaseDocument and the end of a job leave true of a document       *)

Carried(d, e, row, acc) == d.live => d.content \cap acc \subseteq row \cup (IF e.live THEN e.content ELSE {})

LEMMA TidiedGood ==
    ASSUME NEW u, NEW d \in Document, NEW e \in Document, Ordered(d, u), Sound(d),
           Tidied(d, e), e.conns \subseteq d.conns,
           NEW row, NEW mem, NEW rec, NEW acc, Current(d, row, mem, rec, acc)
    PROVE  Sound(e) /\ Current(e, row, mem, rec, acc) /\ Carried(d, e, row, acc)
<1>1. Sound(e)
  <2>1. ~e.live => ~e.unsaved /\ ~e.timer /\ e.jobs = <<>> /\ e.conns = {}
    BY DEF Sound, Tidied
  <2>2. CASE e.saves = d.saves
    BY <2>1, <2>2 DEF Sound, Tidied, Runs
  <2>3. CASE d.saves = <<>> /\ d.jobs = <<>> /\ d.unsaved /\ e.saves = <<ForNobody>>
    <3>1. \A k \in DOMAIN <<ForNobody>> : <<ForNobody>>[k] = ForNobody
      OBVIOUS
    <3>2. <<ForNobody>> # <<>>
      OBVIOUS
    <3> QED BY <2>1, <2>3, <3>1, <3>2, Tags DEF Sound, Tidied, Runs, Ordered
  <2> QED BY <2>2, <2>3 DEF Tidied
<1>2. Current(e, row, mem, rec, acc)
  BY DEF Current, Tidied, Runs
<1>3. Carried(d, e, row, acc)
  BY DEF Carried, Current, Tidied
<1> QED BY <1>1, <1>2, <1>3

SameDrains(s, t) ==
    /\ \A a \in Attempt : Holds(s, a) <=> Holds(t, a)
    /\ OnceEach(s) => OnceEach(t)

LEMMA TidiedDrains ==
    ASSUME NEW d, NEW e, Tidied(d, e)
    PROVE  SameDrains(d.saves, e.saves)
<1>1. CASE e.saves = d.saves
  BY <1>1 DEF SameDrains
<1>2. CASE d.saves = <<>> /\ e.saves = <<ForNobody>>
  <2>1. DOMAIN d.saves = {} /\ DOMAIN e.saves = {1} /\ e.saves[1] = ForNobody
    BY <1>2
  <2> QED BY <2>1, Tags DEF SameDrains, Holds, OnceEach
<1> QED BY <1>1, <1>2 DEF Tidied

Admitted(d) == \E kind \in Admission : Runs(d, kind, "admitted")

LEMMA EndJobGood ==
    ASSUME NEW u, NEW f \in Document, Ordered(f, u), Sound(f), f.jobs # <<>>,
           \A k \in DOMAIN f.saves : f.saves[k] # ForJob,
           NEW row, NEW mem, NEW rec, NEW acc, Current(f, row, mem, rec, acc),
           f.live /\ f.seeded => row \subseteq f.content
    PROVE  LET e == EndJob(f)
           IN  /\ Sound(e) /\ Current(e, row, mem, rec, acc) /\ Carried(f, e, row, acc)
               /\ e.jobs = Tail(f.jobs) /\ Len(e.jobs) = Len(f.jobs) - 1 /\ ~Admitted(e)
               /\ e.live => f.live
               /\ e.draining = f.draining /\ e.seeded = f.seeded /\ e.conns = f.conns /\ e.unsaved = f.unsaved
               /\ SameDrains(f.saves, e.saves)
<1> DEFINE g == [f EXCEPT !.jobs = Tail(@)]
           e == Release(g)
<1>1. f.jobs \in Seq(JobType)
  BY DEF Document
<1>2. g \in Document /\ Ordered(g, u)
  BY PopShape DEF Yields
<1>3. /\ g.live = f.live /\ g.seeded = f.seeded /\ g.content = f.content /\ g.unsaved = f.unsaved
      /\ g.draining = f.draining /\ g.conns = f.conns /\ g.timer = f.timer /\ g.saves = f.saves
      /\ g.staged = f.staged /\ g.jobs = Tail(f.jobs)
  BY DEF Document
<1>4. Len(g.jobs) = Len(f.jobs) - 1 /\ (g.jobs # <<>> => Head(g.jobs).pc = "queued")
  BY <1>1, <1>3, Behind DEF Ordered
<1>5. e \in Document /\ Tidied(g, e) /\ e.conns = g.conns
  BY <1>2, ReleaseTidies, ReleaseShape DEF Yields
<1> HIDE DEF g, e
<1>6. Sound(g)
  BY <1>3, <1>4 DEF Sound, Runs
<1>7. Current(g, row, mem, rec, acc)
  BY <1>3, <1>4 DEF Current, Runs, PastLoad
<1>8. Sound(e) /\ Current(e, row, mem, rec, acc) /\ Carried(g, e, row, acc) /\ SameDrains(g.saves, e.saves)
  BY <1>2, <1>5, <1>6, <1>7, TidiedGood, TidiedDrains
<1>9. e.jobs = g.jobs /\ ~Admitted(e) /\ (e.live => g.live) /\ e.draining = g.draining /\ e.seeded = g.seeded
      /\ e.unsaved = g.unsaved
  BY <1>4, <1>5 DEF Tidied, Admitted, Runs
<1>10. e = EndJob(f)
  BY DEF e, g, EndJob
<1> QED BY <1>3, <1>4, <1>5, <1>8, <1>9, <1>10 DEF Carried

-----------------------------------------------------------------------------
(* A step of one document leaves the drains and the fences in order         *)

\* How a document changes when no drain starts or ends: it does not come back,
\* gets no connection while it is drained and nothing to do once the shutdown has
\* found it empty, is loaded under the shared lock, and
\* no drain's save is added or lost.
Moves(d, e) ==
    /\ e.live => d.live
    /\ d.draining => e.draining
    /\ Held(e) => Held(d)
    /\ d.draining => e.conns \subseteq d.conns
    /\ Closed(d) => Closed(e) \/ drain[ForExit].pc = "none"
    /\ e.seeded /\ ~d.seeded => Admitted(d)
    /\ Admitted(e) /\ ~Admitted(d) => Exclusive = {}
    /\ SameDrains(d.saves, e.saves)

Changes(i, e) ==
    /\ i \in DOMAIN inst
    /\ inst' = [inst EXCEPT ![i] = e]
    /\ UNCHANGED <<fence, tries>>
    /\ Moves(inst[i], e)
    /\ \/ drain' = drain /\ Len(e.jobs) = Len(inst[i].jobs)
       \/ drain' = OneLess(i) /\ inst[i].jobs # <<>> /\ Len(e.jobs) = Len(inst[i].jobs) - 1
       \/ drain' = drain /\ \A a \in Attempt : InFlight(a) => drain[a].at # i

LEMMA SharedAdmitted == Shared = {i \in DOMAIN inst : Admitted(inst[i])}
BY DEF Shared, At, Head1, Admitted, Runs, Admission

LEMMA OneLessKeeps ==
    ASSUME drain \in [Attempt -> DrainState], NEW i, NEW a \in Attempt
    PROVE  /\ OneLess(i)[a].pc = drain[a].pc /\ OneLess(i)[a].at = drain[a].at
           /\ OneLess(i)[a].ahead = (IF drain[a].pc = "waiting" /\ drain[a].at = i
                                     THEN (IF drain[a].ahead = 0 THEN 0 ELSE drain[a].ahead - 1)
                                     ELSE drain[a].ahead)
BY DEF OneLess, DrainState

\* Both tuples and documents as they are after a change.
LEMMA Changed ==
    ASSUME Shape, Shape', NEW i, NEW e, Changes(i, e)
    PROVE  /\ DOMAIN inst' = DOMAIN inst
           /\ \A j \in DOMAIN inst : inst'[j] = (IF j = i THEN e ELSE inst[j])
           /\ Live' \subseteq Live
           /\ \A a \in Attempt : drain'[a].pc = drain[a].pc /\ drain'[a].at = drain[a].at
           /\ \A a \in Attempt : InFlight(a)' <=> InFlight(a)
<1>1. inst \in Seq(Document) /\ drain \in [Attempt -> DrainState]
  BY DEF Shape, Types, Docs
<1>2. DOMAIN inst' = DOMAIN inst /\ \A j \in DOMAIN inst : inst'[j] = (IF j = i THEN e ELSE inst[j])
  BY <1>1 DEF Changes
<1>3. Live' \subseteq Live
  BY <1>2 DEF Live, Changes, Moves
<1>4. \A a \in Attempt : drain'[a].pc = drain[a].pc /\ drain'[a].at = drain[a].at
  BY <1>1, OneLessKeeps DEF Changes
<1> QED BY <1>2, <1>3, <1>4 DEF InFlight

LEMMA ChangedDrains ==
    ASSUME Shape, Shape', Drained, NEW i, NEW e, Changes(i, e)
    PROVE  /\ \A j \in DOMAIN inst' : Queued(j)'
           /\ \A a \in Attempt : Booked(a)'
<1>1. /\ DOMAIN inst' = DOMAIN inst
      /\ \A j \in DOMAIN inst : inst'[j] = (IF j = i THEN e ELSE inst[j])
      /\ \A a \in Attempt : drain'[a].pc = drain[a].pc /\ drain'[a].at = drain[a].at
      /\ \A a \in Attempt : InFlight(a)' <=> InFlight(a)
  BY Changed
<1>2. Moves(inst[i], e) /\ i \in DOMAIN inst /\ (\A j \in DOMAIN inst : Queued(j))
  BY DEF Changes, Drained
<1>3. \A j \in DOMAIN inst' : Queued(j)'
  <2> SUFFICES ASSUME NEW j \in DOMAIN inst PROVE Queued(j)'
    BY <1>1
  <2>1. SameDrains(inst[j].saves, inst'[j].saves)
    BY <1>1, <1>2 DEF Moves, SameDrains
  <2>2. Held(inst'[j]) => Held(inst[j])
    BY <1>1, <1>2 DEF Moves
  <2> QED BY <1>1, <1>2, <2>1, <2>2, Tags DEF Queued, SameDrains
<1>4. ASSUME NEW a \in Attempt PROVE Booked(a)'
  <2> DEFINE j == drain[a].at
  <2>1. drain'[a].pc = drain[a].pc /\ drain'[a].at = j /\ Booked(a)
    BY <1>1 DEF Drained
  <2>2. CASE j # i
    <3>1. drain'[a].ahead = drain[a].ahead
      BY <2>2, OneLessKeeps DEF Changes, Shape, Types
    <3> QED BY <1>1, <2>1, <2>2, <3>1 DEF Booked
  <2>3. CASE j = i /\ InFlight(a)
    <3>1. inst[i] \in Document /\ e \in Document
      BY <1>1, <1>2 DEF Shape, Docs
    <3>2. inst[i].jobs \in Seq(JobType) /\ e.jobs \in Seq(JobType)
      BY <3>1 DEF Document
    <3>3. CASE drain[a].pc = "waiting"
      <4>1. drain[a].ahead = Len(inst[i].jobs)
        BY <2>1, <2>3, <3>3 DEF Booked
      <4>2. drain'[a].ahead = Len(e.jobs)
        <5>1. CASE drain' = drain /\ Len(e.jobs) = Len(inst[i].jobs)
          BY <4>1, <5>1
        <5>2. CASE drain' = OneLess(i) /\ inst[i].jobs # <<>> /\ Len(e.jobs) = Len(inst[i].jobs) - 1
          <6>1. Len(inst[i].jobs) # 0
            BY <3>2, <5>2
          <6> QED BY <2>3, <3>3, <4>1, <5>2, <6>1, OneLessKeeps DEF Shape, Types
        <5> QED BY <2>3, <5>1, <5>2 DEF Changes
      <4> QED BY <1>1, <1>2, <2>1, <2>3, <3>3, <4>2 DEF Booked
    <3>4. CASE drain[a].pc = "saving"
      <4>1. inst[i].jobs = <<>> /\ Holds(inst[i].saves, a)
        BY <2>1, <2>3, <3>4 DEF Booked
      <4>2. Len(e.jobs) = 0
        BY <2>3, <4>1 DEF Changes
      <4>3. e.jobs = <<>> /\ Holds(e.saves, a)
        BY <1>2, <3>2, <4>1, <4>2 DEF Moves, SameDrains
      <4> QED BY <1>1, <1>2, <2>1, <2>3, <3>4, <4>3 DEF Booked
    <3> QED BY <2>3, <3>3, <3>4 DEF InFlight
  <2>4. CASE ~InFlight(a)
    BY <2>1, <2>4 DEF Booked, InFlight
  <2> QED BY <2>2, <2>3, <2>4
<1> QED BY <1>3, <1>4

LEMMA ChangedFences ==
    ASSUME Shape, Shape', Drained, NEW i, NEW e, Changes(i, e), Paid
    PROVE  Exiting' /\ Fenced'
<1>1. /\ DOMAIN inst' = DOMAIN inst
      /\ \A j \in DOMAIN inst : inst'[j] = (IF j = i THEN e ELSE inst[j])
      /\ Live' \subseteq Live
      /\ \A a \in Attempt : drain'[a].pc = drain[a].pc /\ drain'[a].at = drain[a].at
      /\ \A a \in Attempt : InFlight(a)' <=> InFlight(a)
  BY Changed
<1>2. Moves(inst[i], e) /\ i \in DOMAIN inst /\ fence' = fence /\ tries' = tries
  BY DEF Changes
<1>3. Exiting'
  BY <1>1, <1>2, Tags DEF Drained, Exiting, Moves, Live
<1>4. Exclusive' = Exclusive
  BY <1>2 DEF Exclusive
<1>5. Exclusive # {} => Shared = {} /\ Shared' = {}
  <2>1. Exclusive # {} => Shared = {}
    BY DEF Drained, Fenced
  <2>2. Shared' = {j \in DOMAIN inst' : Admitted(inst'[j])}
    BY DEF Shared, At, Head1, Admitted, Runs, Admission
  <2> QED BY <1>1, <1>2, <2>1, <2>2, SharedAdmitted DEF Moves
<1>6. ASSUME NEW r \in Leaver, NEW k \in 1 .. DrainAttempts
      PROVE  Draining(r, k)'
  <2>1. Draining(r, k) /\ <<r, k>> \in Attempt
    BY Tags DEF Drained, Fenced
  <2>2. fence[r] = "draining" => ~Admitted(inst[i])
    BY <1>2, <1>5, SharedAdmitted DEF Exclusive
  <2>3. MayReopen' => MayReopen
    BY DEF Paid
  <2>4. \A j \in Live' : /\ j \in Live
                         /\ (inst[j].draining => inst'[j].draining)
                         /\ (inst[j].draining => inst'[j].conns \subseteq inst[j].conns)
                         /\ (fence[r] = "draining" /\ ~inst[j].seeded => ~inst'[j].seeded)
    BY <1>1, <1>2, <2>2 DEF Moves, Live
  <2>5. inst'[drain'[<<r, k>>].at].live => drain'[<<r, k>>].at \in Live' \/ ~InFlight(<<r, k>>)
    BY <1>1, <2>1 DEF Live, Drained, Booked, InFlight
  <2> QED BY <1>1, <1>2, <2>1, <2>3, <2>4, <2>5 DEF Draining, Live
<1>7. \A q, r \in Exclusive' : q = r
  BY <1>4 DEF Drained, Fenced
<1> QED BY <1>3, <1>4, <1>5, <1>6, <1>7 DEF Fenced

-----------------------------------------------------------------------------
(* The jobs of a document                                                   *)

\* Nothing that is stored can make a document wrong that has left docs.
LEMMA DeadCurrent ==
    ASSUME NEW u, NEW d \in Document, Ordered(d, u), Sound(d), ~d.live, NEW row, NEW mem, NEW rec, NEW acc
    PROVE  Current(d, row, mem, rec, acc)
BY DEF Sound, Ordered, Current, Runs

LEMMA NoDrainSaves ==
    ASSUME Drained, NEW i \in DOMAIN inst, inst[i].jobs # <<>>
    PROVE  /\ \A a \in Attempt : ~Holds(inst[i].saves, a)
           /\ inst[i].live
BY DEF Drained, Trusted, Queued, Booked, Sound

\* When one document changes, the others are what they were.
LEMMA Updated ==
    ASSUME Shape, NEW i \in DOMAIN inst, NEW e, inst' = [inst EXCEPT ![i] = e], e.live => inst[i].live
    PROVE  /\ DOMAIN inst' = DOMAIN inst
           /\ \A j \in DOMAIN inst : inst'[j] = (IF j = i THEN e ELSE inst[j])
           /\ Live' \subseteq Live
           /\ \A j \in Live' : j = i => e.live
           /\ inst[i].live => Live = {i} /\ Live' \subseteq {i}
<1>1. inst \in Seq(Document)
  BY DEF Shape, Docs
<1>2. DOMAIN inst' = DOMAIN inst /\ \A j \in DOMAIN inst : inst'[j] = (IF j = i THEN e ELSE inst[j])
  BY <1>1
<1>3. Live' \subseteq Live /\ \A j \in Live' : j = i => e.live
  BY <1>2 DEF Live
<1>4. inst[i].live => Live = {i}
  BY DEF Live, Shape, Docs
<1> QED BY <1>2, <1>3, <1>4

LEMMA UpdatedGood ==
    ASSUME Shape, Drained, NEW i \in DOMAIN inst, NEW e,
           inst' = [inst EXCEPT ![i] = e], e.live => inst[i].live,
           Sound(e), Current(e, stored', members', recorded', accepted'), Carried(inst[i], e, stored', accepted'),
           members' = members, stored \subseteq stored', inst[i].live \/ UNCHANGED <<stored, recorded>>,
           \A c \in accepted' \ accepted : c \in stored' \/ (e.live /\ c \in e.content)
    PROVE  Trusted' /\ AcceptedKept'
<1>1. /\ DOMAIN inst' = DOMAIN inst
      /\ \A j \in DOMAIN inst : inst'[j] = (IF j = i THEN e ELSE inst[j])
  BY Updated
<1>2. \A j \in DOMAIN inst : inst[j] \in Document /\ Ordered(inst[j], opened)
  BY DEF Shape, Docs
<1>3. Trusted'
  <2> SUFFICES ASSUME NEW j \in DOMAIN inst
               PROVE  Sound(inst'[j]) /\ Current(inst'[j], stored', members', recorded', accepted')
    BY <1>1 DEF Trusted
  <2>1. CASE j = i
    BY <1>1, <2>1
  <2>2. CASE j # i
    <3>1. inst'[j] = inst[j] /\ Sound(inst[j]) /\ Current(inst[j], stored, members, recorded, accepted)
      BY <1>1, <2>2 DEF Drained, Trusted
    <3>2. CASE inst[i].live
      <4>1. ~inst[j].live
        BY <1>1, <2>2, <3>2 DEF Shape, Docs
      <4> QED BY <1>2, <3>1, <4>1, DeadCurrent
    <3>3. CASE ~inst[i].live
      <4>1. stored' = stored /\ recorded' = recorded /\ \A c \in accepted' : c \in accepted \/ c \in stored
        BY <3>3
      <4> QED BY <3>1, <4>1 DEF Current
    <3> QED BY <3>2, <3>3
  <2> QED BY <2>1, <2>2
<1>4. AcceptedKept'
  <2> SUFFICES ASSUME NEW c \in accepted', c \notin stored'
               PROVE  \E j \in Live' : c \in inst'[j].content
    BY DEF AcceptedKept
  <2>1. e.live => i \in Live' /\ inst'[i] = e
    BY <1>1 DEF Live
  <2>2. CASE c \notin accepted
    BY <2>1, <2>2
  <2>3. CASE c \in accepted
    <3>1. PICK j \in Live : c \in inst[j].content
      BY <2>3 DEF Drained, AcceptedKept
    <3>2. c \in Conn /\ j \in DOMAIN inst /\ inst[j].live
      BY <2>3, <3>1 DEF Shape, Types, Live
    <3>3. CASE j = i
      BY <2>1, <3>1, <3>2, <3>3 DEF Carried
    <3>4. CASE j # i
      BY <1>1, <3>1, <3>2, <3>4 DEF Live
    <3> QED BY <3>3, <3>4
  <2> QED BY <2>2, <2>3
<1> QED BY <1>3, <1>4

\* A step of one document keeps the invariant if it leaves that document in
\* order and loses no edit of it.
LEMMA DocumentStep ==
    ASSUME Shape, Shape', Drained, NEW i, NEW e, Changes(i, e),
           Sound(e), Current(e, stored', members', recorded', accepted'), Carried(inst[i], e, stored', accepted'),
           members' = members, stored \subseteq stored', inst[i].live \/ UNCHANGED <<stored, recorded>>,
           \A c \in accepted' \ accepted : c \in stored' \/ (e.live /\ c \in e.content),
           RecordedOnce', Paid
    PROVE  Drained'
<1>1. i \in DOMAIN inst /\ inst' = [inst EXCEPT ![i] = e] /\ (e.live => inst[i].live)
  BY DEF Changes, Moves, Held
<1> QED BY <1>1, UpdatedGood, ChangedDrains, ChangedFences DEF Drained, Paid

\* A job ends: f is its document before the job is taken from the queue.
LEMMA EndsGood ==
    ASSUME Shape, Shape', Drained, NEW i \in DOMAIN inst, NEW f \in Document, Ends(i, f),
           f.jobs = inst[i].jobs, f.jobs # <<>>, SameDrains(inst[i].saves, f.saves),
           \A k \in DOMAIN f.saves : f.saves[k] # ForJob,
           Ordered(f, opened), Sound(f), Current(f, stored', members, recorded, accepted'),
           f.live /\ f.seeded => stored' \subseteq f.content,
           f.live => inst[i].live, inst[i].draining => f.draining, Held(f) => Held(inst[i]), f.seeded = inst[i].seeded,
           inst[i].draining => f.conns \subseteq inst[i].conns,
           Carried(inst[i], f, stored', accepted'),
           UNCHANGED <<members, recorded, fence, tries>>, stored \subseteq stored',
           \A c \in accepted' \ accepted : f.live /\ c \in f.content,
           RecordedOnce', Paid
    PROVE  Drained'
<1> DEFINE d == inst[i]
           e == EndJob(f)
<1>1. /\ Sound(e) /\ Current(e, stored', members, recorded, accepted') /\ Carried(f, e, stored', accepted')
      /\ Len(e.jobs) = Len(f.jobs) - 1 /\ ~Admitted(e)
      /\ e.live => f.live
      /\ e.draining = f.draining /\ e.seeded = f.seeded /\ e.conns = f.conns /\ e.unsaved = f.unsaved
      /\ SameDrains(f.saves, e.saves)
  BY EndJobGood
<1>2. inst' = [inst EXCEPT ![i] = e] /\ drain' = OneLess(i)
  BY DEF Ends
<1> HIDE DEF e
<1>3. SameDrains(d.saves, e.saves)
  BY <1>1 DEF SameDrains
<1>4. Moves(d, e)
  BY <1>1, <1>3 DEF Moves, Closed, Held
<1>5. Changes(i, e)
  BY <1>1, <1>2, <1>4 DEF Changes
<1>6. Carried(d, e, stored', accepted')
  BY <1>1 DEF Carried
<1>7. \A c \in accepted' \ accepted : c \in stored' \/ (e.live /\ c \in e.content)
  BY <1>1 DEF Carried
<1>8. d.live
  BY NoDrainSaves
<1> QED BY <1>1, <1>5, <1>6, <1>7, <1>8, DocumentStep

\* A job that ends without having changed anything.
LEMMA EndsUnchanged ==
    ASSUME Shape, Shape', Drained, NEW i \in DOMAIN inst, Ends(i, inst[i]),
           inst[i].jobs # <<>>, Head(inst[i].jobs).pc \notin {"flushing", "written"},
           UNCHANGED <<database, fence, tries>>, accepted' = accepted,
           RecordedOnce', Paid
    PROVE  Drained'
<1> DEFINE d == inst[i]
<1>1. d \in Document /\ Ordered(d, opened) /\ Sound(d) /\ Current(d, stored, members, recorded, accepted)
  BY DEF Shape, Docs, Drained, Trusted
<1>2. \A k \in DOMAIN d.saves : d.saves[k] # ForJob
  BY <1>1, OrderedHead
<1>3. d.live /\ d.seeded => stored \subseteq d.content
  BY <1>1 DEF Current, Runs
<1>4. Carried(d, d, stored, accepted) /\ SameDrains(d.saves, d.saves)
  BY DEF Carried, SameDrains
<1> QED BY <1>1, <1>2, <1>3, <1>4, EndsGood DEF database

LEMMA GotoFields ==
    ASSUME NEW d \in Document, d.jobs # <<>>, NEW pc, pc \in Steps[Head(d.jobs).kind]
    PROVE  LET e == Goto(d, pc)
           IN  /\ e.live = d.live /\ e.seeded = d.seeded /\ e.content = d.content /\ e.unsaved = d.unsaved
               /\ e.draining = d.draining /\ e.conns = d.conns /\ e.timer = d.timer /\ e.saves = d.saves
               /\ e.staged = d.staged
               /\ Len(e.jobs) = Len(d.jobs) /\ e.jobs # <<>>
               /\ Head(e.jobs).pc = pc /\ Head(e.jobs).kind = Head(d.jobs).kind
               /\ Head(e.jobs).who = Head(d.jobs).who
<1> DEFINE j == [d.jobs[1] EXCEPT !.pc = pc]
           e == Goto(d, pc)
<1>1. d.jobs \in Seq(JobType) /\ Head(d.jobs) = d.jobs[1] /\ d.jobs[1] \in JobType /\ 1 \in DOMAIN d.jobs
  BY Behind DEF Document
<1>2. j \in JobType /\ j.pc = pc /\ j.kind = Head(d.jobs).kind /\ j.who = Head(d.jobs).who
  BY <1>1 DEF JobType, Steps
<1>3. /\ e.jobs = [d.jobs EXCEPT ![1] = j]
      /\ e.live = d.live /\ e.seeded = d.seeded /\ e.content = d.content /\ e.unsaved = d.unsaved
      /\ e.draining = d.draining /\ e.conns = d.conns /\ e.timer = d.timer /\ e.saves = d.saves
      /\ e.staged = d.staged
  BY <1>1 DEF Goto, Document
<1> HIDE DEF j, e
<1>4. Len(e.jobs) = Len(d.jobs) /\ e.jobs # <<>> /\ Head(e.jobs) = j
  BY <1>1, <1>2, <1>3, Replaced
<1> QED BY <1>2, <1>3, <1>4 DEF e

LEMMA GotoGood ==
    ASSUME NEW d \in Document, d.jobs # <<>>, NEW pc, pc \in Steps[Head(d.jobs).kind],
           Sound(d), NEW row, NEW mem, NEW rec, NEW acc, Current(d, row, mem, rec, acc),
           d.seeded \/ pc \in {"queued", "admitted"},
           Head(d.jobs).pc # "written", pc # "written",
           pc = "flushed" => d.saves = <<>> /\ ~d.timer /\ ~d.unsaved,
           pc \in PastLoad => UserOf[Head(d.jobs).who] \in mem
    PROVE  LET e == Goto(d, pc)
           IN  /\ Sound(e) /\ Current(e, row, mem, rec, acc) /\ Carried(d, e, row, acc)
               /\ SameDrains(d.saves, e.saves) /\ Len(e.jobs) = Len(d.jobs)
               /\ e.live = d.live /\ e.draining = d.draining /\ e.conns = d.conns /\ e.seeded = d.seeded
               /\ e.unsaved = d.unsaved
               /\ Closed(d) => Closed(e)
               /\ Admitted(e) => pc = "admitted"
<1> DEFINE e == Goto(d, pc)
<1>1. /\ e.live = d.live /\ e.seeded = d.seeded /\ e.content = d.content /\ e.unsaved = d.unsaved
      /\ e.draining = d.draining /\ e.conns = d.conns /\ e.timer = d.timer /\ e.saves = d.saves
      /\ e.staged = d.staged
      /\ Len(e.jobs) = Len(d.jobs) /\ e.jobs # <<>>
      /\ Head(e.jobs).pc = pc /\ Head(e.jobs).kind = Head(d.jobs).kind
      /\ Head(e.jobs).who = Head(d.jobs).who
  BY GotoFields
<1> HIDE DEF e
<1>2. Sound(e)
  BY <1>1 DEF Sound, Runs
<1>3. Current(e, row, mem, rec, acc)
  BY <1>1 DEF Current, Runs
<1>4. Carried(d, e, row, acc) /\ SameDrains(d.saves, e.saves) /\ (Closed(d) => Closed(e))
  BY <1>1 DEF Carried, SameDrains, Closed
<1>5. Admitted(e) => pc = "admitted"
  BY <1>1 DEF Admitted, Runs
<1> QED BY <1>1, <1>2, <1>3, <1>4, <1>5 DEF e

LEMMA FlushGood ==
    ASSUME NEW d \in Document, NEW who \in {ForNobody, ForJob},
           NEW u, Ordered(d, u), Sound(d), NEW row, NEW mem, NEW rec, NEW acc, Current(d, row, mem, rec, acc),
           d.live, \A k \in DOMAIN d.saves : d.saves[k] # ForJob,
           ~Runs(d, "apply", "flushed"), ~Runs(d, "apply", "written")
    PROVE  LET e == Flush(d, who)
           IN  /\ Sound(e) /\ Current(e, row, mem, rec, acc) /\ Carried(d, e, row, acc)
               /\ SameDrains(d.saves, e.saves) /\ e.jobs = d.jobs
               /\ e.live = d.live /\ e.draining = d.draining /\ e.conns = d.conns /\ e.seeded = d.seeded
               /\ e.unsaved = d.unsaved
<1> DEFINE e == Flush(d, who)
<1>1. /\ e.live = d.live /\ e.seeded = d.seeded /\ e.content = d.content /\ e.unsaved = d.unsaved
      /\ e.draining = d.draining /\ e.conns = d.conns /\ e.timer = FALSE
      /\ e.staged = d.staged /\ e.jobs = d.jobs
  BY DEF Flush, Document
<1>2. /\ DOMAIN d.saves = 1 .. Len(d.saves) /\ DOMAIN e.saves = 1 .. Len(d.saves) + 1
      /\ Len(e.saves) = Len(d.saves) + 1 /\ Len(d.saves) \in Nat
      /\ \A k \in DOMAIN d.saves : e.saves[k] = d.saves[k]
      /\ e.saves[Len(d.saves) + 1] = who
      /\ e.saves # <<>> /\ (d.saves # <<>> => Head(e.saves) = Head(d.saves))
  <2>1. d.saves \in Seq(Saver) /\ who \in Saver /\ e.saves = Append(d.saves, who)
    BY DEF Flush, Document, Saver
  <2> QED BY <2>1, Added
<1> HIDE DEF e
<1>3. SameDrains(d.saves, e.saves)
  <2>1. \A k \in DOMAIN e.saves : e.saves[k] \in Attempt => k \in DOMAIN d.saves /\ e.saves[k] = d.saves[k]
    BY <1>2, Tags
  <2>2. \A k \in DOMAIN d.saves : k \in DOMAIN e.saves /\ e.saves[k] = d.saves[k]
    BY <1>2
  <2> QED BY <2>1, <2>2 DEF SameDrains, Holds, OnceEach
<1>4. \A k \in DOMAIN e.saves : e.saves[k] = ForJob => k = Len(e.saves)
  BY <1>2
<1>5. Sound(e)
  BY <1>1, <1>2, <1>4 DEF Sound, Runs, Ordered
<1>6. Current(e, row, mem, rec, acc) /\ Carried(d, e, row, acc)
  BY <1>1 DEF Current, Runs, Carried
<1> QED BY <1>1, <1>3, <1>5, <1>6 DEF e

LEMMA DocumentFacts ==
    ASSUME Shape, Drained, NEW i \in DOMAIN inst
    PROVE  /\ inst[i] \in Document /\ Ordered(inst[i], opened)
           /\ Sound(inst[i]) /\ Current(inst[i], stored, members, recorded, accepted)
           /\ stored \subseteq Item /\ recorded \subseteq Mutation
BY DEF Shape, Types, Docs, Drained, Trusted

\* The first job goes on, and nothing else changes.
LEMMA GoesGood ==
    ASSUME Shape, Shape', Drained, NEW i \in DOMAIN inst, inst[i].jobs # <<>>,
           NEW pc, pc \in Steps[Head(inst[i].jobs).kind], Goes(i, Goto(inst[i], pc)),
           inst[i].seeded \/ pc \in {"queued", "admitted"},
           Head(inst[i].jobs).pc # "written", pc \notin {"written", "flushed"},
           pc \in PastLoad => UserOf[Head(inst[i].jobs).who] \in members,
           pc = "admitted" => Exclusive = {},
           UNCHANGED <<database, fence, tries>>, accepted' = accepted, RecordedOnce', Paid
    PROVE  Drained'
<1> DEFINE d == inst[i]
           e == Goto(d, pc)
<1>1. /\ Sound(e) /\ Current(e, stored, members, recorded, accepted) /\ Carried(d, e, stored, accepted)
      /\ SameDrains(d.saves, e.saves) /\ Len(e.jobs) = Len(d.jobs)
      /\ e.live = d.live /\ e.draining = d.draining /\ e.conns = d.conns /\ e.seeded = d.seeded
      /\ e.unsaved = d.unsaved
      /\ Closed(d) => Closed(e)
      /\ Admitted(e) => pc = "admitted"
  BY DocumentFacts, GotoGood
<1>2. inst' = [inst EXCEPT ![i] = e] /\ drain' = drain
  BY DEF Goes
<1> HIDE DEF e
<1>3. Changes(i, e)
  BY <1>1, <1>2 DEF Changes, Moves, Held
<1> QED BY <1>1, <1>3, DocumentStep DEF database

LEMMA AdmitGood ==
    ASSUME Shape, Shape', Drained, NEW i \in DOMAIN inst, Admit(i) \/ CheckAccess(i)
    PROVE  Drained'
<1> DEFINE d == inst[i]
<1>1. /\ d.jobs # <<>> /\ Head(d.jobs).pc = "queued" /\ UNCHANGED <<database, fence, tries>>
      /\ accepted' = accepted /\ RecordedOnce' /\ Paid
  BY DEF Admit, CheckAccess, At, Head1, Drained, RecordedOnce, NothingMixed, Paid, MayReopen, database, history
<1>2. CASE Ends(i, d)
  BY <1>1, <1>2, EndsUnchanged
<1>3. CASE Goes(i, Goto(d, "admitted")) /\ Exclusive = {} /\ Head(d.jobs).kind \in Admission
  BY <1>1, <1>3, GoesGood DEF Steps, Admission, PastLoad
<1>4. ASSUME NEW pc \in {"allowed", "denied"}, Head(d.jobs).kind = "edit", Goes(i, Goto(d, pc)),
             Head(d.jobs).who \in d.conns
      PROVE  Drained'
  <2>1. d.seeded
    BY <1>4, DocumentFacts DEF Ordered
  <2> QED BY <1>1, <1>4, <2>1, GoesGood DEF Steps, PastLoad
<1>5. CASE Admit(i)
  BY <1>2, <1>3, <1>5 DEF Admit, At, Head1
<1>6. CASE CheckAccess(i)
  BY <1>2, <1>4, <1>6 DEF CheckAccess, At, Head1
<1> QED BY <1>5, <1>6

LEMMA LoadGood ==
    ASSUME Shape, Shape', Drained, NEW i \in DOMAIN inst, Load(i)
    PROVE  Drained'
<1> DEFINE d == inst[i]
           l == [d EXCEPT !.seeded = TRUE, !.content = stored, !.unsaved = FALSE]
           f == IF d.seeded THEN d ELSE l
           e == Goto(f, "free")
<1>1. /\ d.jobs # <<>> /\ Head(d.jobs).kind \in Admission /\ Head(d.jobs).pc = "admitted"
      /\ UNCHANGED <<database, fence, tries>>
      /\ accepted' = accepted /\ RecordedOnce' /\ Paid
  BY DEF Load, At, Head1, Drained, RecordedOnce, NothingMixed, Paid, MayReopen, database, history
<1>2. /\ d \in Document /\ Ordered(d, opened) /\ Sound(d) /\ Current(d, stored, members, recorded, accepted)
      /\ stored \subseteq Item
  BY DocumentFacts
<1>3. CASE Ends(i, d)
  BY <1>1, <1>3, EndsUnchanged
<1>4. CASE UserOf[Head(d.jobs).who] \in members /\ Goes(i, e)
  <2>1. /\ l \in Document /\ l.jobs = d.jobs /\ l.saves = d.saves /\ l.seeded /\ l.live = d.live
        /\ l.content = stored /\ l.unsaved = FALSE /\ l.staged = d.staged /\ l.conns = d.conns
        /\ l.timer = d.timer /\ l.draining = d.draining
    BY <1>2 DEF Document
  <2> HIDE DEF l
  <2>2. ~d.seeded => Sound(l) /\ Current(l, stored, members, recorded, accepted) /\ Carried(d, l, stored, accepted)
    BY <1>1, <1>2, <2>1 DEF Sound, Current, Carried, Ordered, Runs, PastLoad
  <2>3. /\ f \in Document /\ f.jobs = d.jobs /\ f.saves = d.saves /\ f.seeded /\ f.live = d.live
        /\ f.conns = d.conns /\ f.draining = d.draining
        /\ Sound(f) /\ Current(f, stored, members, recorded, accepted) /\ Carried(d, f, stored, accepted)
        /\ (~d.seeded => d.content = {})
        /\ (f.unsaved => d.unsaved)
    BY <1>2, <2>1, <2>2 DEF Carried, Sound
  <2> HIDE DEF f
  <2>4. /\ Sound(e) /\ Current(e, stored, members, recorded, accepted) /\ Carried(f, e, stored, accepted)
        /\ SameDrains(f.saves, e.saves) /\ Len(e.jobs) = Len(f.jobs)
        /\ e.live = f.live /\ e.draining = f.draining /\ e.conns = f.conns /\ e.seeded = f.seeded
        /\ e.unsaved = f.unsaved
        /\ ~Admitted(e)
    <3>1. "free" \in Steps[Head(f.jobs).kind]
      BY <1>1, <2>3 DEF Steps, Admission
    <3>2. f.jobs # <<>> /\ Head(f.jobs).pc # "written" /\ UserOf[Head(f.jobs).who] \in members
      BY <1>1, <1>4, <2>3
    <3> QED BY <2>3, <3>1, <3>2, GotoGood
  <2>5. inst' = [inst EXCEPT ![i] = e] /\ drain' = drain
    BY <1>4 DEF Goes
  <2> HIDE DEF e
  <2>6. Admitted(d)
    BY <1>1 DEF Admitted, Runs
  <2>7. Changes(i, e)
    BY <1>1, <2>3, <2>4, <2>5, <2>6 DEF Changes, Moves, Held, Closed
  <2>8. Carried(d, e, stored, accepted)
    BY <2>3, <2>4 DEF Carried
  <2> QED BY <1>1, <2>4, <2>7, <2>8, DocumentStep DEF database
<1>5. Ends(i, d) \/ (UserOf[Head(d.jobs).who] \in members /\ Goes(i, e))
  BY DEF Load, Head1
<1> QED BY <1>3, <1>4, <1>5

LEMMA AttachGood ==
    ASSUME Shape, Shape', Drained, NEW i \in DOMAIN inst, Attach(i)
    PROVE  Drained'
<1> DEFINE d == inst[i]
           c == Head(d.jobs).who
           f == [d EXCEPT !.conns = @ \cup {c}, !.rest = "none"]
<1>1. /\ d.jobs # <<>> /\ Head(d.jobs).kind = "attach" /\ Head(d.jobs).pc = "free"
      /\ UNCHANGED <<database, fence, tries>>
      /\ accepted' = accepted /\ RecordedOnce' /\ Paid
  BY DEF Attach, At, Head1, Drained, RecordedOnce, NothingMixed, Paid, MayReopen, database, history
<1>2. d \in Document /\ Ordered(d, opened) /\ Sound(d) /\ Current(d, stored, members, recorded, accepted)
  BY DocumentFacts
<1>3. c \in Conn /\ c \in opened /\ d.seeded /\ (\A k \in DOMAIN d.saves : d.saves[k] # ForJob)
  BY <1>1, <1>2, OrderedHead DEF JobType
<1>4. CASE Ends(i, d)
  BY <1>1, <1>4, EndsUnchanged
<1>5. CASE d.live /\ ~d.draining /\ Ends(i, f)
  <2>1. /\ f \in Document /\ f.jobs = d.jobs /\ f.saves = d.saves /\ f.seeded = d.seeded /\ f.live = d.live
        /\ f.content = d.content /\ f.unsaved = d.unsaved /\ f.staged = d.staged /\ f.conns = d.conns \cup {c}
        /\ f.timer = d.timer /\ f.draining = d.draining
    BY <1>2, <1>3 DEF Document
  <2> HIDE DEF f
  <2>2. Ordered(f, opened) /\ Sound(f)
    BY <1>2, <1>3, <1>5, <2>1 DEF Ordered, Sound, Runs
  <2>3. Current(f, stored, members, recorded, accepted) /\ (f.live /\ f.seeded => stored \subseteq f.content)
    BY <1>1, <1>2, <2>1 DEF Current, Runs, PastLoad
  <2>4. Carried(d, f, stored, accepted) /\ SameDrains(d.saves, f.saves) /\ ~Held(f)
    BY <1>5, <2>1 DEF Carried, SameDrains, Held
  <2> QED BY <1>1, <1>3, <1>5, <2>1, <2>2, <2>3, <2>4, EndsGood DEF database
<1> QED BY <1>4, <1>5 DEF Attach, Head1

LEMMA DenyGood ==
    ASSUME Shape, Shape', Drained, NEW i \in DOMAIN inst, Deny(i)
    PROVE  Drained'
<1> DEFINE d == inst[i]
           f == Close(d, {Head(d.jobs).who})
<1>1. /\ d.jobs # <<>> /\ Head(d.jobs).pc = "denied" /\ Ends(i, f)
      /\ UNCHANGED <<database, fence, tries>>
      /\ accepted' = accepted /\ RecordedOnce' /\ Paid
  BY DEF Deny, At, Head1, Drained, RecordedOnce, NothingMixed, Paid, MayReopen, database, history
<1>2. d \in Document /\ Ordered(d, opened) /\ Sound(d) /\ Current(d, stored, members, recorded, accepted)
  BY DocumentFacts
<1>3. Tidied(d, f) /\ f.conns \subseteq d.conns /\ f \in Document /\ Ordered(f, opened)
  BY <1>2, CloseTidies, CloseShape DEF Yields
<1> HIDE DEF f
<1>4. Sound(f) /\ Current(f, stored, members, recorded, accepted) /\ Carried(d, f, stored, accepted) /\ SameDrains(d.saves, f.saves)
  BY <1>2, <1>3, TidiedGood, TidiedDrains
<1>5. /\ f.jobs = d.jobs /\ f.saves = d.saves /\ f.draining = d.draining /\ f.seeded = d.seeded
      /\ (f.live => d.live) /\ f.content = d.content /\ (Held(f) => Held(d))
  BY <1>1, <1>3 DEF Tidied, Held
<1>6. /\ \A k \in DOMAIN f.saves : f.saves[k] # ForJob
      /\ f.live /\ f.seeded => stored \subseteq f.content
  BY <1>1, <1>2, <1>4, <1>5, OrderedHead DEF Current, Runs
<1> QED BY <1>1, <1>3, <1>4, <1>5, <1>6, EndsGood DEF database

LEMMA ApplyEditGood ==
    ASSUME Shape, Shape', Drained, NEW i \in DOMAIN inst, ApplyEdit(i)
    PROVE  Drained'
<1> DEFINE d == inst[i]
           c == Head(d.jobs).who
           f == [d EXCEPT !.content = @ \cup {c}, !.unsaved = TRUE, !.timer = (d.saves = <<>>)]
<1>1. /\ d.jobs # <<>> /\ Head(d.jobs).kind = "edit" /\ Head(d.jobs).pc = "allowed"
      /\ UNCHANGED <<database, fence, tries>>
      /\ RecordedOnce' /\ Paid
  BY DEF ApplyEdit, At, Head1, Drained, RecordedOnce, NothingMixed, Paid, MayReopen, database
<1>2. d \in Document /\ Ordered(d, opened) /\ Sound(d) /\ Current(d, stored, members, recorded, accepted)
  BY DocumentFacts
<1>3. c \in Conn /\ d.seeded /\ d.live /\ (\A k \in DOMAIN d.saves : d.saves[k] # ForJob)
  BY <1>1, <1>2, OrderedHead, NoDrainSaves DEF JobType
<1>4. CASE Ends(i, d) /\ accepted' = accepted
  BY <1>1, <1>4, EndsUnchanged
<1>5. CASE c \in d.conns /\ Ends(i, f) /\ accepted' = accepted \cup {c}
  <2>1. /\ f \in Document /\ f.jobs = d.jobs /\ f.saves = d.saves /\ f.seeded = d.seeded /\ f.live = d.live
        /\ f.content = d.content \cup {c} /\ f.unsaved = TRUE /\ f.staged = d.staged /\ f.conns = d.conns
        /\ f.timer = (d.saves = <<>>) /\ f.draining = d.draining
    BY <1>2, <1>3 DEF Document, Item
  <2> HIDE DEF f
  <2>2. Ordered(f, opened)
    <3>1. (f.timer => f.saves = <<>>) /\ f.unsaved
      BY <2>1
    <3>2. d.staged # None => d.saves # <<>>
      BY <1>2 DEF Ordered
    <3> QED BY <1>2, <1>3, <2>1, <3>1, <3>2 DEF Ordered, Runs
  <2>3. d.saves # <<>> => Head(d.saves) = ForNobody
    <3>1. d.saves \in Seq(Saver)
      BY <1>2 DEF Document
    <3>2. d.saves # <<>> => Head(d.saves) \in Saver /\ Head(d.saves) = d.saves[1] /\ 1 \in DOMAIN d.saves
      BY <3>1, Behind
    <3> QED BY <1>1, <1>3, <3>2, NoDrainSaves DEF Saver, Holds
  <2>4. Sound(f)
    BY <1>1, <1>2, <1>3, <2>1, <2>2, <2>3 DEF Ordered, Sound, Runs
  <2>5. Current(f, stored, members, recorded, accepted') /\ (f.live /\ f.seeded => stored \subseteq f.content)
    BY <1>1, <1>2, <1>5, <2>1 DEF Current, Runs, PastLoad
  <2>6. Carried(d, f, stored, accepted') /\ SameDrains(d.saves, f.saves) /\ (Held(f) => Held(d))
    BY <1>5, <2>1 DEF Carried, SameDrains, Held
  <2>7. \A x \in accepted' \ accepted : f.live /\ x \in f.content
    BY <1>3, <1>5, <2>1
  <2> QED BY <1>1, <1>3, <1>5, <2>1, <2>2, <2>4, <2>5, <2>6, <2>7, EndsGood DEF database
<1> QED BY <1>4, <1>5 DEF ApplyEdit, Head1

LEMMA InspectGood ==
    ASSUME Shape, Shape', Drained, NEW i \in DOMAIN inst, Inspect(i)
    PROVE  Drained'
<1> DEFINE d == inst[i]
           m == Head(d.jobs).who
           g == Goto(d, "flushing")
           e == Flush(g, ForJob)
<1>1. /\ d.jobs # <<>> /\ Head(d.jobs).kind = "apply" /\ Head(d.jobs).pc = "free"
      /\ UNCHANGED <<database, fence, tries>>
      /\ accepted' = accepted /\ Paid
  BY DEF Inspect, At, Head1, Drained, NothingMixed, Paid, MayReopen, history
<1>2. d \in Document /\ Ordered(d, opened) /\ Sound(d) /\ Current(d, stored, members, recorded, accepted)
  BY DocumentFacts
<1>3. m \in Mutation /\ d.seeded /\ d.live /\ (\A k \in DOMAIN d.saves : d.saves[k] # ForJob)
  BY <1>1, <1>2, OrderedHead, NoDrainSaves DEF JobType
<1>4. RecordedOnce'
  BY DEF Inspect, Head1, Drained, RecordedOnce, Shape, Types, database, history
<1>5. CASE Ends(i, d)
  BY <1>1, <1>4, <1>5, EndsUnchanged
<1>6. CASE Goes(i, e)
  <2>1. UserOf[m] \in members
    BY <1>1, <1>2 DEF Current, PastLoad
  <2>2. /\ Sound(g) /\ Current(g, stored, members, recorded, accepted) /\ Carried(d, g, stored, accepted)
        /\ SameDrains(d.saves, g.saves) /\ Len(g.jobs) = Len(d.jobs)
        /\ g.live = d.live /\ g.draining = d.draining /\ g.conns = d.conns /\ g.seeded = d.seeded
        /\ ~Admitted(g) /\ g.jobs # <<>>
    <3>1. "flushing" \in Steps[Head(d.jobs).kind]
      BY <1>1 DEF Steps
    <3>2. g.jobs # <<>>
      BY <1>1, <1>2, <3>1, GotoFields
    <3> QED BY <1>1, <1>2, <1>3, <2>1, <3>1, <3>2, GotoGood
  <2>3. g.saves = d.saves /\ Head(g.jobs).pc = "flushing" /\ g.content = d.content
    BY <1>1, <1>2, GotoFields DEF Steps
  <2>10. g.unsaved = d.unsaved
    BY <1>1, <1>2, GotoFields DEF Steps
  <2>4. g \in Document /\ Ordered(g, opened)
    BY <1>1, <1>2, <1>3, GotoShape DEF Steps, Yields
  <2> HIDE DEF g
  <2>5. /\ Sound(e) /\ Current(e, stored, members, recorded, accepted) /\ Carried(g, e, stored, accepted)
        /\ SameDrains(g.saves, e.saves) /\ e.jobs = g.jobs
        /\ e.live = g.live /\ e.draining = g.draining /\ e.conns = g.conns /\ e.seeded = g.seeded
        /\ e.unsaved = g.unsaved
    <3>1. /\ g.live /\ \A k \in DOMAIN g.saves : g.saves[k] # ForJob
          /\ ~Runs(g, "apply", "flushed") /\ ~Runs(g, "apply", "written")
      BY <1>3, <2>2, <2>3 DEF Runs
    <3> QED BY <2>2, <2>4, <3>1, FlushGood
  <2>6. inst' = [inst EXCEPT ![i] = e] /\ drain' = drain
    BY <1>6 DEF Goes
  <2> HIDE DEF e
  <2>7. ~Admitted(e) /\ ~Closed(d)
    BY <1>1, <2>2, <2>5 DEF Admitted, Runs, Closed
  <2>8. Changes(i, e)
    BY <1>1, <2>2, <2>3, <2>5, <2>6, <2>7, <2>10 DEF Changes, Moves, Held
  <2>9. Carried(d, e, stored, accepted)
    BY <2>2, <2>3, <2>5 DEF Carried
  <2> QED BY <1>1, <1>4, <2>5, <2>8, <2>9, DocumentStep DEF database
<1> QED BY <1>5, <1>6 DEF Inspect

\* The transaction of a mutation writes over what is stored, and keeps it.
LEMMA CommitKeeps ==
    ASSUME Shape, Drained, NEW i \in DOMAIN inst, CommitMutation(i)
    PROVE  stored \subseteq stored' /\ \A x \in stored' \ stored : UserOf[x] \in members
<1> DEFINE d == inst[i]
           m == Head(d.jobs).who
<1>1. d.jobs # <<>> /\ Head(d.jobs).kind = "apply" /\ Head(d.jobs).pc = "flushed"
  BY DEF CommitMutation, At, Head1
<1>2. d \in Document /\ Ordered(d, opened) /\ Sound(d) /\ Current(d, stored, members, recorded, accepted)
  BY DocumentFacts
<1>3. d.live /\ d.seeded
  BY <1>1, <1>2, NoDrainSaves, OrderedHead
<1>4. stored' = stored \/ stored' = d.content \cup {m}
  BY DEF CommitMutation, Head1
<1> QED BY <1>1, <1>2, <1>3, <1>4 DEF Current, Runs, PastLoad

LEMMA CommitMutationGood ==
    ASSUME Shape, Shape', Drained, NEW i \in DOMAIN inst, CommitMutation(i)
    PROVE  Drained'
<1> DEFINE d == inst[i]
           m == Head(d.jobs).who
           e == Goto(d, "written")
<1>1. /\ d.jobs # <<>> /\ Head(d.jobs).kind = "apply" /\ Head(d.jobs).pc = "flushed"
      /\ UNCHANGED <<members, fence, tries>>
      /\ accepted' = accepted /\ Paid
  BY DEF CommitMutation, At, Head1, Drained, NothingMixed, Paid, MayReopen
<1>2. d \in Document /\ Ordered(d, opened) /\ Sound(d) /\ Current(d, stored, members, recorded, accepted)
  BY DocumentFacts
<1>3. m \in Mutation /\ d.seeded /\ d.live
  BY <1>1, <1>2, OrderedHead, NoDrainSaves DEF JobType
<1>4. CASE Ends(i, d) /\ UNCHANGED <<stored, recorded, applied>>
  <2>1. RecordedOnce' /\ UNCHANGED database
    BY <1>1, <1>4 DEF CommitMutation, Drained, RecordedOnce, database
  <2> QED BY <1>1, <1>4, <2>1, EndsUnchanged
<1>5. CASE /\ m \notin recorded /\ stored' = d.content \cup {m} /\ recorded' = recorded \cup {m}
           /\ applied' = [applied EXCEPT ![m] = @ + 1] /\ Goes(i, e)
  <2>1. stored \subseteq stored'
    BY CommitKeeps
  <2>2. RecordedOnce'
    BY <1>3, <1>5, <2>1 DEF CommitMutation, Drained, RecordedOnce, Shape, Types
  <2>3. /\ e.live = d.live /\ e.seeded = d.seeded /\ e.content = d.content /\ e.unsaved = d.unsaved
        /\ e.draining = d.draining /\ e.conns = d.conns /\ e.timer = d.timer /\ e.saves = d.saves
        /\ e.staged = d.staged
        /\ Len(e.jobs) = Len(d.jobs) /\ e.jobs # <<>>
        /\ Head(e.jobs).pc = "written" /\ Head(e.jobs).kind = "apply"
        /\ Head(e.jobs).who = m
    BY <1>1, <1>2, GotoFields DEF Steps
  <2>4. inst' = [inst EXCEPT ![i] = e] /\ drain' = drain
    BY <1>5 DEF Goes
  <2> HIDE DEF e
  <2>5. Sound(e)
    BY <1>1, <1>2, <1>3, <2>3 DEF Sound, Runs
  <2>6. e.staged = None
    BY <1>1, <1>2, <2>3 DEF Sound, Runs, Ordered
  <2>7. Current(e, stored', members', recorded', accepted')
    <3>1. /\ Runs(e, "apply", "written") /\ m \in recorded' /\ stored' \subseteq e.content \cup {m}
          /\ e.content \subseteq stored' /\ members' = members
      BY <1>1, <1>5, <2>3 DEF Runs
    <3>2. UserOf[m] \in members /\ \A c \in e.conns : UserOf[c] \in members
      BY <1>1, <1>2, <2>3 DEF Current, PastLoad
    <3> QED BY <2>3, <2>6, <3>1, <3>2 DEF Current
  <2>8. SameDrains(d.saves, e.saves) /\ ~Admitted(e) /\ ~Closed(d) /\ Carried(d, e, stored', accepted)
    BY <1>1, <2>3 DEF SameDrains, Admitted, Runs, Closed, Carried
  <2>9. Changes(i, e)
    BY <1>1, <2>3, <2>4, <2>8 DEF Changes, Moves, Held
  <2> QED BY <1>1, <1>3, <2>1, <2>2, <2>5, <2>7, <2>8, <2>9, DocumentStep
<1> QED BY <1>4, <1>5 DEF CommitMutation, Head1

LEMMA LoseMutationGood ==
    ASSUME Shape, Shape', Drained, NEW i \in DOMAIN inst, LoseMutation(i)
    PROVE  Drained'
<1>1. Paid
  BY SpendType DEF LoseMutation, Drained, NothingMixed, Paid, MayReopen, Shape, Types, Faults
<1>2. RecordedOnce' /\ accepted' = accepted /\ UNCHANGED <<database, fence, tries>>
  BY DEF LoseMutation, Drained, RecordedOnce, database, history
<1> QED BY <1>1, <1>2, EndsUnchanged DEF LoseMutation, At, Head1

LEMMA FinishMutationGood ==
    ASSUME Shape, Shape', Drained, NEW i \in DOMAIN inst, FinishMutation(i)
    PROVE  Drained'
<1> DEFINE d == inst[i]
           m == Head(d.jobs).who
           f == [d EXCEPT !.content = @ \cup {m}]
<1>1. /\ d.jobs # <<>> /\ Head(d.jobs).kind = "apply" /\ Head(d.jobs).pc = "written" /\ Ends(i, f)
      /\ UNCHANGED <<database, fence, tries>>
      /\ accepted' = accepted /\ Paid
  BY DEF FinishMutation, At, Head1, Drained, NothingMixed, Paid, MayReopen, history
<1>2. d \in Document /\ Ordered(d, opened) /\ Sound(d) /\ Current(d, stored, members, recorded, accepted)
  BY DocumentFacts
<1>3. m \in Mutation /\ d.seeded /\ d.live /\ (\A k \in DOMAIN d.saves : d.saves[k] # ForJob)
  BY <1>1, <1>2, OrderedHead, NoDrainSaves DEF JobType
<1>4. m \in recorded /\ stored \subseteq d.content \cup {m} /\ recorded \subseteq stored
  BY <1>1, <1>2 DEF Current, Runs, Drained, RecordedOnce
<1>5. RecordedOnce'
  BY <1>3, <1>4 DEF FinishMutation, Head1, Drained, RecordedOnce, Shape, Types, database, history
<1>6. /\ f \in Document /\ f.jobs = d.jobs /\ f.saves = d.saves /\ f.seeded = d.seeded /\ f.live = d.live
      /\ f.content = d.content \cup {m} /\ f.unsaved = d.unsaved /\ f.staged = d.staged /\ f.conns = d.conns
      /\ f.timer = d.timer /\ f.draining = d.draining
  BY <1>2, <1>3 DEF Document, Item
<1> HIDE DEF f
<1>7. Ordered(f, opened)
  BY <1>2, <1>3, <1>6 DEF Ordered, Runs
<1>8. Sound(f)
  BY <1>1, <1>2, <1>3, <1>6 DEF Ordered, Sound, Runs
<1>9. m \notin Conn
  BY <1>3, ConstantsAssumption
<1>10. Current(f, stored, members, recorded, accepted) /\ (f.live /\ f.seeded => stored \subseteq f.content)
  BY <1>1, <1>2, <1>4, <1>6, <1>9 DEF Current, Runs, PastLoad
<1>11. Carried(d, f, stored, accepted) /\ SameDrains(d.saves, f.saves) /\ (Held(f) => Held(d))
  BY <1>6 DEF Carried, SameDrains, Held
<1> QED BY <1>1, <1>3, <1>5, <1>6, <1>7, <1>8, <1>10, <1>11, EndsGood DEF database

LEMMA JobGood ==
    ASSUME Shape, Shape', Drained, NEW i \in DOMAIN inst,
           \/ Admit(i) \/ Load(i) \/ Attach(i) \/ CheckAccess(i) \/ Deny(i) \/ ApplyEdit(i)
           \/ Inspect(i) \/ CommitMutation(i) \/ LoseMutation(i) \/ FinishMutation(i)
    PROVE  Drained'
BY AdmitGood, LoadGood, AttachGood, DenyGood, ApplyEditGood, InspectGood, CommitMutationGood,
   LoseMutationGood, FinishMutationGood

-----------------------------------------------------------------------------
(* Clients, timers and saves                                                *)

\* A document is released, or loses connections.
LEMMA TidiedStep ==
    ASSUME Shape, Shape', Drained, NEW i \in DOMAIN inst, NEW e \in Document,
           inst' = [inst EXCEPT ![i] = e], drain' = drain, Tidied(inst[i], e), e.conns \subseteq inst[i].conns,
           UNCHANGED <<database, fence, tries>>, accepted' = accepted, RecordedOnce', Paid
    PROVE  Drained'
<1> DEFINE d == inst[i]
<1>1. Sound(e) /\ Current(e, stored, members, recorded, accepted) /\ Carried(d, e, stored, accepted)
  BY DocumentFacts, TidiedGood
<1>2. Changes(i, e)
  <2>1. SameDrains(d.saves, e.saves)
    BY TidiedDrains
  <2> QED BY <2>1 DEF Changes, Moves, Held, Tidied, Closed, Admitted, Runs
<1> QED BY <1>1, <1>2, DocumentStep DEF database

\* A job joins the queue of a document that is not drained and, once the
\* shutdown has begun, has somebody in it.
LEMMA AppendGood ==
    ASSUME Shape, Shape', Drained, NEW i \in DOMAIN inst, inst[i].live, ~inst[i].draining,
           drain[ForExit].pc = "none" \/ ~Closed(inst[i]),
           NEW job \in JobType, job.pc = "queued",
           inst' = [inst EXCEPT ![i] = [inst[i] EXCEPT !.jobs = Append(@, job)]], drain' = drain,
           UNCHANGED <<database, fence, tries>>, accepted' = accepted, RecordedOnce', Paid
    PROVE  Drained'
<1> DEFINE d == inst[i]
           e == [d EXCEPT !.jobs = Append(@, job)]
<1>1. d \in Document /\ Ordered(d, opened) /\ Sound(d) /\ Current(d, stored, members, recorded, accepted)
  BY DocumentFacts
<1>2. /\ e.live = d.live /\ e.seeded = d.seeded /\ e.content = d.content /\ e.unsaved = d.unsaved
      /\ e.draining = d.draining /\ e.conns = d.conns /\ e.timer = d.timer /\ e.saves = d.saves
      /\ e.staged = d.staged
  BY <1>1 DEF Document
<1>3. e.jobs # <<>> /\ Head(e.jobs) = (IF d.jobs = <<>> THEN job ELSE Head(d.jobs))
  <2>1. d.jobs \in Seq(JobType) /\ e.jobs = Append(d.jobs, job)
    BY <1>1 DEF Document
  <2> QED BY <2>1, Added
<1> HIDE DEF e
<1>4. Sound(e) /\ Current(e, stored, members, recorded, accepted) /\ Carried(d, e, stored, accepted)
  BY <1>1, <1>2, <1>3 DEF Sound, Current, Carried, Runs, PastLoad
<1>5. Admitted(e) => Admitted(d)
  BY <1>3 DEF Admitted, Runs
<1>6. drain[ForExit].pc = "none"
  BY DEF Drained, Exiting, Live
<1>7. ASSUME NEW a \in Attempt, InFlight(a), drain[a].at = i
      PROVE  FALSE
  <2>1. CASE a = ForExit
    BY <1>6, <1>7, <2>1 DEF InFlight
  <2>2. CASE a # ForExit
    <3>1. PICK r \in Leaver, k \in 1 .. DrainAttempts : a = <<r, k>>
      BY <2>2, Tags
    <3>2. Draining(r, k)
      BY DEF Drained, Fenced
    <3> QED BY <1>7, <3>1, <3>2 DEF Draining, Live
  <2> QED BY <2>1, <2>2
<1>8. Changes(i, e)
  <2>1. SameDrains(d.saves, e.saves)
    BY <1>2 DEF SameDrains
  <2>2. Moves(d, e)
    BY <1>2, <1>5, <1>6, <2>1 DEF Moves, Held
  <2>3. inst' = [inst EXCEPT ![i] = e]
    BY DEF e
  <2> QED BY <1>7, <2>2, <2>3 DEF Changes
<1> QED BY <1>4, <1>8, DocumentStep DEF database

LEMMA TimerGood ==
    ASSUME Shape, Shape', Drained, NEW i \in DOMAIN inst, TimerFires(i) \/ Retire(i)
    PROVE  Drained'
<1> DEFINE d == inst[i]
<1>1. /\ UNCHANGED <<database, fence, tries>> /\ accepted' = accepted /\ RecordedOnce' /\ Paid
  BY DEF TimerFires, Retire, Drained, RecordedOnce, NothingMixed, Paid, MayReopen, database, history
<1>2. d \in Document /\ Ordered(d, opened) /\ Sound(d) /\ Current(d, stored, members, recorded, accepted)
  BY DocumentFacts
<1>3. CASE TimerFires(i)
  <2> DEFINE e == Flush(d, ForNobody)
  <2>1. d.timer /\ d.saves = <<>> /\ d.live /\ inst' = [inst EXCEPT ![i] = e] /\ drain' = drain
    BY <1>2, <1>3 DEF TimerFires, Goes, Ordered, Sound
  <2>2. ~Runs(d, "apply", "flushed") /\ ~Runs(d, "apply", "written")
    BY <1>2, <2>1 DEF Sound
  <2>3. \A k \in DOMAIN d.saves : d.saves[k] # ForJob
    BY <2>1
  <2>4. /\ Sound(e) /\ Current(e, stored, members, recorded, accepted) /\ Carried(d, e, stored, accepted)
        /\ SameDrains(d.saves, e.saves) /\ e.jobs = d.jobs
        /\ e.live = d.live /\ e.draining = d.draining /\ e.conns = d.conns /\ e.seeded = d.seeded
        /\ e.unsaved = d.unsaved
    BY <1>2, <2>1, <2>2, <2>3, FlushGood
  <2> HIDE DEF e
  <2>5. Changes(i, e)
    BY <1>1, <2>1, <2>4 DEF Changes, Moves, Held, Closed, Admitted, Runs
  <2> QED BY <1>1, <2>4, <2>5, DocumentStep DEF database
<1>4. CASE Retire(i)
  <2> DEFINE f == [d EXCEPT !.rest = "none"]
  <2>1. f \in Document
    BY <1>2 DEF Document
  <2>2. Tidied(f, Release(f)) /\ Release(f).conns = f.conns
    BY <2>1, ReleaseTidies
  <2>3. /\ f.live = d.live /\ f.seeded = d.seeded /\ f.content = d.content /\ f.unsaved = d.unsaved
        /\ f.draining = d.draining /\ f.conns = d.conns /\ f.timer = d.timer /\ f.saves = d.saves
        /\ f.staged = d.staged /\ f.jobs = d.jobs
    BY <1>2 DEF Document
  <2>4. inst' = [inst EXCEPT ![i] = Release(f)] /\ drain' = drain
    BY <1>4 DEF Retire, Goes
  <2>5. Release(f) \in Document
    <3>1. Ordered(f, opened)
      BY <1>2, <2>3 DEF Ordered, Runs
    <3> QED BY <2>1, <3>1, ReleaseShape DEF Yields
  <2> HIDE DEF f
  <2>6. Tidied(d, Release(f)) /\ Release(f).conns \subseteq d.conns
    BY <2>2, <2>3 DEF Tidied
  <2> QED BY <1>1, <2>4, <2>5, <2>6, TidiedStep
<1> QED BY <1>3, <1>4

\* Nothing changes that the invariant speaks of.
LEMMA NothingGood ==
    ASSUME Drained, UNCHANGED <<database, inst, drain, fence, tries>>, accepted' = accepted,
           RecordedOnce', Paid
    PROVE  Drained'
<1>1. Live' = Live /\ Exclusive' = Exclusive /\ Shared' = Shared
  BY DEF Live, Exclusive, Shared, At, Head1
<1>2. \A a \in Attempt : (InFlight(a)' <=> InFlight(a)) /\ (Booked(a)' <=> Booked(a))
  BY DEF InFlight, Booked
<1>3. Trusted' /\ AcceptedKept'
  BY <1>1 DEF Drained, Trusted, AcceptedKept, database
<1>4. \A i \in DOMAIN inst' : Queued(i)'
  BY <1>2 DEF Drained, Queued
<1>5. Exiting'
  BY <1>1, <1>2, Tags DEF Drained, Exiting
<1>6. Fenced'
  <2>1. \A r \in Leaver, k \in 1 .. DrainAttempts : <<r, k>> \in Attempt
    BY Tags
  <2>2. MayReopen' => MayReopen
    BY DEF Paid
  <2> QED BY <1>1, <1>2, <2>1, <2>2 DEF Drained, Fenced, Draining
<1> QED BY <1>2, <1>3, <1>4, <1>5, <1>6 DEF Drained, Paid

LEMMA SendEditGood ==
    ASSUME Shape, Shape', Drained, NEW c \in Conn, SendEdit(c) \/ Disconnect(c)
    PROVE  Drained'
<1>1. /\ UNCHANGED <<database, fence, tries>> /\ accepted' = accepted /\ RecordedOnce' /\ Paid
      /\ drain' = drain
  BY DEF SendEdit, Disconnect, Drained, RecordedOnce, NothingMixed, Paid, MayReopen, database, history, fences
<1>2. ASSUME NEW i \in DOMAIN inst, inst' = [inst EXCEPT ![i] = Close(inst[i], {c})]
      PROVE  Drained'
  <2>1. inst[i] \in Document /\ Ordered(inst[i], opened)
    BY DocumentFacts
  <2>2. /\ Tidied(inst[i], Close(inst[i], {c})) /\ Close(inst[i], {c}).conns \subseteq inst[i].conns
        /\ Close(inst[i], {c}) \in Document
    BY <2>1, CloseTidies, CloseShape DEF Yields
  <2> QED BY <1>1, <1>2, <2>2, TidiedStep
<1>3. CASE SendEdit(c)
  <2>1. PICK i \in DOMAIN inst :
          LET d == inst[i]
          IN  /\ c \in d.conns
              /\ inst' = [inst EXCEPT ![i] =
                    IF d.live /\ ~d.draining THEN [d EXCEPT !.jobs = Append(@, Job("edit", c))]
                    ELSE Close(d, {c})]
    BY <1>3 DEF SendEdit
  <2>2. CASE inst[i].live /\ ~inst[i].draining
    <3>1. inst' = [inst EXCEPT ![i] = [inst[i] EXCEPT !.jobs = Append(@, Job("edit", c))]]
      BY <2>1, <2>2
    <3>2. ~Closed(inst[i])
      BY <2>1 DEF Closed
    <3> QED BY <1>1, <2>2, <3>1, <3>2, JobTypes, AppendGood
  <2>3. CASE ~(inst[i].live /\ ~inst[i].draining)
    BY <1>2, <2>1, <2>3
  <2> QED BY <2>2, <2>3
<1>4. CASE Disconnect(c)
  <2>1. inst' = [i \in DOMAIN inst |-> Close(inst[i], {c})]
    BY <1>4 DEF Disconnect
  <2>2. \A i \in DOMAIN inst : ~inst[i].live => Close(inst[i], {c}) = inst[i]
    <3> SUFFICES ASSUME NEW i \in DOMAIN inst, ~inst[i].live PROVE inst[i].conns = {}
      BY DEF Close
    <3> QED BY DocumentFacts DEF Sound
  <2>3. inst \in Seq(Document)
    BY DEF Shape, Docs
  <2>4. CASE Live = {}
    <3>1. inst' = [i \in DOMAIN inst |-> inst[i]]
      BY <2>1, <2>2, <2>4 DEF Live
    <3>2. inst' = inst
      <4>1. inst \in [1 .. Len(inst) -> Document]
        BY <2>3
      <4> QED BY <3>1, <4>1
    <3> QED BY <1>1, <3>2, NothingGood
  <2>5. CASE Live # {}
    <3>1. PICK i \in Live : TRUE
      BY <2>5
    <3>2. i \in DOMAIN inst /\ \A j \in DOMAIN inst : j # i => ~inst[j].live
      BY <3>1 DEF Live, Shape, Docs
    <3>3. inst' = [inst EXCEPT ![i] = Close(inst[i], {c})]
      <4>1. inst \in [1 .. Len(inst) -> Document] /\ DOMAIN inst = 1 .. Len(inst)
        BY <2>3
      <4> QED BY <2>1, <2>2, <3>2, <4>1
    <3> QED BY <1>2, <3>2, <3>3
  <2> QED BY <2>4, <2>5
<1> QED BY <1>3, <1>4

\* A document is made for the first job that needs one.
LEMMA NewDocGood ==
    ASSUME Shape, Drained, Live = {}, drain[ForExit].pc = "none",
           NEW job \in JobType, job.pc = "queued", Acquire(job), drain' = drain,
           UNCHANGED <<database, fence, tries>>, accepted' = accepted, RecordedOnce', Paid
    PROVE  Drained'
<1> DEFINE doc == [NewDocument EXCEPT !.jobs = <<job>>]
<1>1. /\ doc.live = TRUE /\ doc.seeded = FALSE /\ doc.content = {} /\ doc.unsaved = FALSE
      /\ doc.draining = FALSE /\ doc.conns = {} /\ doc.timer = FALSE /\ doc.jobs = <<job>>
      /\ doc.saves = <<>> /\ doc.staged = None
  BY DEF NewDocument
<1>2. <<job>> # <<>> /\ Head(<<job>>) = job /\ DOMAIN <<>> = {}
  OBVIOUS
<1>3. inst' = (IF \A i \in DOMAIN inst : Quiet(i) THEN <<doc>> ELSE Append(inst, doc))
  BY DEF Acquire
<1>4. inst \in Seq(Document) /\ Len(inst) \in Nat /\ DOMAIN inst = 1 .. Len(inst)
  BY DEF Shape, Docs
<1>5. \A a \in Attempt : InFlight(a) => drain[a].at \in DOMAIN inst
  BY DEF Drained, Booked, InFlight
<1> HIDE DEF doc
<1>6. PICK n \in DOMAIN inst' :
        /\ inst'[n] = doc
        /\ \A j \in DOMAIN inst' : j # n => j \in DOMAIN inst /\ inst'[j] = inst[j]
        /\ \A a \in Attempt : InFlight(a) =>
              drain[a].at # n /\ drain[a].at \in DOMAIN inst' /\ inst'[drain[a].at] = inst[drain[a].at]
  <2>1. CASE \A i \in DOMAIN inst : Quiet(i)
    <3>1. \A a \in Attempt : ~InFlight(a)
      BY <1>5, <2>1 DEF Quiet, InFlight
    <3>2. inst' = <<doc>>
      BY <1>3, <2>1
    <3>3. DOMAIN inst' = {1} /\ inst'[1] = doc
      BY <3>2
    <3> QED BY <3>1, <3>3
  <2>2. CASE ~ \A i \in DOMAIN inst : Quiet(i)
    <3>1. inst' = Append(inst, doc)
      BY <1>3, <2>2
    <3>2. /\ DOMAIN inst' = 1 .. Len(inst) + 1
          /\ \A j \in DOMAIN inst : inst'[j] = inst[j]
          /\ inst'[Len(inst) + 1] = doc
      BY <1>4, <3>1
    <3>3. \A j \in DOMAIN inst : j # Len(inst) + 1 /\ j \in DOMAIN inst'
      BY <1>4, <3>2
    <3>4. \A j \in DOMAIN inst' : j # Len(inst) + 1 => j \in DOMAIN inst
      BY <1>4, <3>2
    <3>5. Len(inst) + 1 \in DOMAIN inst'
      BY <1>4, <3>2
    <3> QED BY <1>5, <3>2, <3>3, <3>4, <3>5
  <2> QED BY <2>1, <2>2
<1>7. \A j \in DOMAIN inst' : j # n => ~inst'[j].live
  BY <1>6 DEF Live
<1>8. Live' = {n}
  BY <1>1, <1>6, <1>7 DEF Live
<1>9. Sound(doc) /\ Current(doc, stored, members, recorded, accepted) /\ ~Admitted(doc)
  BY <1>1, <1>2 DEF Sound, Current, Runs, PastLoad, Admitted
<1>10. Trusted'
  BY <1>6, <1>9 DEF Drained, Trusted, database
<1>11. AcceptedKept'
  BY DEF Drained, AcceptedKept, database
<1>12. \A a \in Attempt : (InFlight(a)' <=> InFlight(a)) /\ Booked(a)'
  BY <1>6 DEF InFlight, Drained, Booked
<1>13. ASSUME NEW j \in DOMAIN inst'
       PROVE  Queued(j)'
  <2>1. CASE j = n
    BY <1>1, <1>2, <1>6, <2>1 DEF Queued, OnceEach, Holds, Held
  <2>2. CASE j # n
    BY <1>6, <1>7, <2>2 DEF Queued, Drained, Held
  <2> QED BY <2>1, <2>2
<1>14. Exiting'
  BY Tags DEF Exiting, InFlight
<1>15. Fenced'
  <2>1. Shared' \subseteq Shared
    <3>1. Shared' = {j \in DOMAIN inst' : Admitted(inst'[j])}
      BY DEF Shared, At, Head1, Admitted, Runs, Admission
    <3> QED BY <1>6, <1>9, <3>1, SharedAdmitted
  <2>2. Exclusive' = Exclusive
    BY DEF Exclusive
  <2>3. ASSUME NEW r \in Leaver, NEW k \in 1 .. DrainAttempts
        PROVE  Draining(r, k)'
    <3>1. <<r, k>> \in Attempt /\ Draining(r, k)
      BY Tags DEF Drained, Fenced
    <3>2. ~inst'[n].seeded
      BY <1>1, <1>6
    <3>3. MayReopen' => MayReopen
      BY DEF Paid
    <3> QED BY <1>6, <1>8, <1>12, <3>1, <3>2, <3>3 DEF Draining
  <2> QED BY <2>1, <2>2, <2>3 DEF Drained, Fenced
<1> QED BY <1>10, <1>11, <1>12, <1>13, <1>14, <1>15 DEF Drained, Paid

LEMMA ClientGood ==
    ASSUME Shape, Shape', Drained, Client
    PROVE  Drained'
<1>1. /\ UNCHANGED <<database, fence, tries>> /\ accepted' = accepted /\ RecordedOnce' /\ Paid
      /\ drain' = drain
  BY DEF Client, Upgrade, Post, SendEdit, Disconnect, Drained, RecordedOnce, NothingMixed, Paid, MayReopen, database, history, fences
<1>2. CASE inst' = inst
  BY <1>1, <1>2, NothingGood
<1>3. ASSUME NEW job \in JobType, job.pc = "queued", Acquire(job), Admitting
      PROVE  Drained'
  <2>1. drain[ForExit].pc = "none" /\ \A i \in Live : ~inst[i].draining
    BY <1>3 DEF Admitting
  <2>2. CASE Live = {}
    BY <1>1, <1>3, <2>1, <2>2, NewDocGood
  <2>3. CASE Live # {}
    <3>1. PICK i \in Live : inst' = [inst EXCEPT ![i] = [inst[i] EXCEPT !.jobs = Append(@, job)]]
      BY <1>3, <2>3 DEF Acquire
    <3>2. i \in DOMAIN inst /\ inst[i].live
      BY DEF Live
    <3> QED BY <1>1, <1>3, <2>1, <3>1, <3>2, AppendGood
  <2> QED BY <2>2, <2>3
<1>4. ASSUME NEW c \in Conn, Upgrade(c)
      PROVE  Drained'
  BY <1>2, <1>3, <1>4, JobTypes DEF Upgrade
<1>5. ASSUME NEW m \in Mutation, Post(m)
      PROVE  Drained'
  BY <1>2, <1>3, <1>5, JobTypes DEF Post
<1> QED BY <1>4, <1>5, SendEditGood DEF Client

-----------------------------------------------------------------------------
(* The end of a save                                                        *)

\* The document when a save ends: what is unsaved has been looked at again, or the
\* save was rejected, and nobody is let in any more.
Written(d, saved) ==
    /\ saved.live = d.live /\ saved.seeded = d.seeded /\ saved.content = d.content
    /\ saved.timer = d.timer /\ saved.jobs = d.jobs /\ saved.saves = d.saves
    /\ saved.unsaved => d.unsaved
    /\ saved.conns \subseteq d.conns /\ (d.draining => saved.draining)
    /\ saved.draining /\ ~d.draining => saved.conns = {} /\ ~saved.unsaved

\* What becomes of the document d when a save ends; row is what is stored then.
LEMMA AgainGood ==
    ASSUME NEW u, NEW d \in Document, Ordered(d, u), Sound(d), d.saves # <<>>,
           NEW old, NEW mem, NEW rec, NEW was, Current(d, old, mem, rec, was), NEW acc,
           NEW row, old \subseteq row, row = old \/ (d.staged # None /\ row = d.staged),
           NEW saved \in Document, Written(d, saved),
           d.live /\ ~saved.unsaved => d.content \cap acc \subseteq row
    PROVE  LET e == Again(saved)
           IN  /\ e \in Document /\ Ordered(e, u) /\ Sound(e)
               /\ Current(e, row, mem, rec, acc) /\ Carried(d, e, row, acc)
               /\ e.jobs = d.jobs /\ e.conns = saved.conns /\ e.draining = saved.draining
               /\ e.seeded = d.seeded /\ e.unsaved = saved.unsaved
               /\ e.live => d.live
               /\ d.live /\ ~e.live => ~saved.unsaved
               /\ SameDrains(Tail(d.saves), e.saves)
               /\ d.jobs # <<>> => e.saves = Tail(d.saves)
               /\ ~saved.unsaved => ~e.timer
               /\ Head(d.saves) = ForJob =>
                     /\ Runs(d, "apply", "flushing")
                     /\ e.saves = <<>>
<1> DEFINE rest == After(saved)
           e == Again(saved)
           base == [saved EXCEPT !.staged = None]
           v == saved.unsaved
<1>1. /\ saved.saves = d.saves
      /\ saved.live = d.live /\ saved.seeded = d.seeded /\ saved.content = d.content
      /\ saved.conns \subseteq d.conns /\ saved.timer = d.timer /\ saved.jobs = d.jobs
      /\ v => d.unsaved /\ (d.draining => saved.draining)
  BY DEF Written
<1>2. Ordered(base, u)
  <2>1. /\ base.saves = d.saves /\ base.live = d.live /\ base.seeded = d.seeded /\ base.unsaved = v
        /\ base.conns \subseteq d.conns /\ base.timer = d.timer /\ base.jobs = d.jobs /\ base.staged = None
    BY <1>1 DEF Document
  <2> HIDE DEF base
  <2> QED BY <1>1, <2>1 DEF Ordered, Runs
<1>3. /\ rest \in Document /\ Ordered(rest, u)
      /\ Head(d.saves) \in Saver /\ rest.saves = Tail(d.saves)
      /\ Head(d.saves) = ForJob => Runs(rest, "apply", "flushing")
      /\ rest.live = d.live /\ rest.seeded = d.seeded /\ rest.content = d.content
      /\ rest.unsaved = v /\ rest.draining = saved.draining
      /\ rest.conns = saved.conns /\ rest.timer = d.timer /\ rest.jobs = d.jobs
      /\ rest.staged = None
  <2>1. saved.saves # <<>>
    BY <1>1
  <2>2. /\ rest \in Document /\ Ordered(rest, u)
        /\ Head(saved.saves) \in Saver /\ rest.saves = Tail(saved.saves)
        /\ (Head(saved.saves) = ForJob => Runs(rest, "apply", "flushing"))
        /\ rest.live = saved.live /\ rest.seeded = saved.seeded /\ rest.content = saved.content
        /\ rest.unsaved = saved.unsaved /\ rest.draining = saved.draining
        /\ rest.conns = saved.conns /\ rest.timer = saved.timer /\ rest.jobs = saved.jobs
        /\ rest.staged = None
    <3>1. Ordered([saved EXCEPT !.staged = None], u)
      BY <1>2
    <3> HIDE DEF base
    <3> QED BY <2>1, <3>1, AfterShape
  <2> HIDE DEF rest
  <2> QED BY <1>1, <2>2
<1> HIDE DEF rest
<1>4. /\ Len(d.saves) \in Nat \ {0} /\ Len(Tail(d.saves)) = Len(d.saves) - 1
      /\ \A k \in DOMAIN Tail(d.saves) : /\ k + 1 \in DOMAIN d.saves /\ Tail(d.saves)[k] = d.saves[k + 1]
                                         /\ k \in Nat
      /\ Head(d.saves) = d.saves[1] /\ 1 \in DOMAIN d.saves
      /\ Len(d.saves) = 1 => Tail(d.saves) = <<>>
  <2>1. d.saves \in Seq(Saver)
    BY DEF Document
  <2> QED BY <2>1, Behind
<1>5. \A k \in DOMAIN rest.saves : rest.saves[k] = ForJob => k = Len(rest.saves)
  <2> SUFFICES ASSUME NEW k \in DOMAIN Tail(d.saves), Tail(d.saves)[k] = ForJob PROVE k = Len(Tail(d.saves))
    BY <1>3
  <2>1. k + 1 = Len(d.saves)
    BY <1>4 DEF Sound
  <2> QED BY <1>4, <2>1
<1>6. ~Runs(rest, "apply", "flushed") /\ ~Runs(rest, "apply", "written") /\ ~d.timer
      /\ ~Runs(d, "apply", "written")
  BY <1>3 DEF Sound, Runs, Ordered
<1>7. Current(rest, row, mem, rec, acc)
  <2>1. d.live /\ d.seeded => row \subseteq d.content
    BY <1>6 DEF Current, Sound
  <2> QED BY <1>1, <1>3, <1>6, <2>1 DEF Current, Runs
<1>8. CASE saved.draining \/ ~v
  <2>1. e = Release(rest)
    BY <1>3, <1>8 DEF Again, rest
  <2>2. Sound(rest)
    BY <1>1, <1>3, <1>5, <1>6, <1>8 DEF Sound
  <2>3. Tidied(rest, e) /\ e.conns = rest.conns /\ e \in Document /\ Ordered(e, u)
    BY <1>3, <2>1, ReleaseTidies, ReleaseShape DEF Yields
  <2> HIDE DEF e
  <2>4. Sound(e) /\ Current(e, row, mem, rec, acc) /\ Carried(rest, e, row, acc) /\ SameDrains(rest.saves, e.saves)
    BY <1>3, <1>7, <2>2, <2>3, TidiedGood, TidiedDrains
  <2>5. Head(d.saves) = ForJob => Runs(d, "apply", "flushing") /\ Tail(d.saves) = <<>>
    BY <1>3, <1>4 DEF Sound, Runs
  <2>6. Head(d.saves) = ForJob => e.saves = <<>>
    BY <1>3, <2>3, <2>5 DEF Tidied, Runs
  <2>7. Carried(d, e, row, acc)
    BY <1>3, <2>4 DEF Carried
  <2> QED BY <1>3, <1>6, <2>3, <2>4, <2>5, <2>6, <2>7 DEF Tidied, e
<1>9. CASE ~saved.draining /\ v
  <2>1. e = Retry(rest)
    BY <1>3, <1>9 DEF Again, rest
  <2>2. e \in Document /\ Ordered(e, u)
    BY <1>3, <2>1, RetryShape DEF Yields
  <2>3. /\ e.saves = rest.saves /\ e.live = rest.live /\ e.seeded = rest.seeded /\ e.content = rest.content
        /\ e.unsaved = rest.unsaved /\ e.draining = rest.draining
        /\ e.conns = rest.conns /\ e.timer = (rest.timer \/ rest.saves = <<>>) /\ e.jobs = rest.jobs
        /\ e.staged = rest.staged
    BY <1>3, <2>1 DEF Retry, Document
  <2> HIDE DEF e
  <2>4. d.live
    BY <1>1, <1>9 DEF Sound
  <2>5. Sound(e)
    BY <1>3, <1>5, <1>6, <1>9, <2>3, <2>4 DEF Sound, Runs
  <2>6. Current(e, row, mem, rec, acc) /\ Carried(d, e, row, acc) /\ SameDrains(Tail(d.saves), e.saves)
    BY <1>3, <1>7, <2>3 DEF Current, Runs, Carried, SameDrains
  <2>7. Head(d.saves) = ForJob => Runs(d, "apply", "flushing") /\ Tail(d.saves) = <<>>
    BY <1>3, <1>4 DEF Sound, Runs
  <2> QED BY <1>3, <1>9, <2>2, <2>3, <2>4, <2>5, <2>6, <2>7 DEF e
<1> QED BY <1>8, <1>9

\* A save that no drain waits for.
LEMMA TailDrains ==
    ASSUME NEW s \in Seq(Saver), s # <<>>
    PROVE  /\ Head(s) \notin Attempt => SameDrains(s, Tail(s))
           /\ OnceEach(s) => OnceEach(Tail(s))
           /\ \A a \in Attempt : a # Head(s) => (Holds(Tail(s), a) <=> Holds(s, a))
           /\ OnceEach(s) => \A a \in Attempt : Holds(Tail(s), a) => a # Head(s)
           /\ Holds(s, Head(s))
<1>1. /\ Head(s) = s[1] /\ DOMAIN s = 1 .. Len(s) /\ Len(s) \in Nat \ {0}
      /\ DOMAIN Tail(s) = 1 .. Len(s) - 1
      /\ \A k \in DOMAIN Tail(s) : k + 1 \in DOMAIN s /\ Tail(s)[k] = s[k + 1]
  BY Behind
<1>2. \A l \in DOMAIN s : l # 1 => l - 1 \in DOMAIN Tail(s) /\ Tail(s)[l - 1] = s[l]
  <2> SUFFICES ASSUME NEW l \in DOMAIN s, l # 1 PROVE l - 1 \in DOMAIN Tail(s) /\ Tail(s)[l - 1] = s[l]
    OBVIOUS
  <2>1. l - 1 \in DOMAIN Tail(s) /\ (l - 1) + 1 = l
    BY <1>1
  <2> QED BY <1>1, <2>1
<1>3. \A a \in Attempt : a # Head(s) => (Holds(Tail(s), a) <=> Holds(s, a))
  BY <1>1, <1>2 DEF Holds
<1>4. ASSUME OnceEach(s) PROVE OnceEach(Tail(s))
  <2> SUFFICES ASSUME NEW k \in DOMAIN Tail(s), NEW l \in DOMAIN Tail(s),
                      Tail(s)[k] \in Attempt, Tail(s)[k] = Tail(s)[l]
               PROVE  k = l
    BY DEF OnceEach
  <2>1. k + 1 = l + 1
    BY <1>1, <1>4 DEF OnceEach
  <2> QED BY <1>1, <2>1
<1>5. ASSUME OnceEach(s), NEW a \in Attempt, Holds(Tail(s), a) PROVE a # Head(s)
  <2>1. PICK k \in DOMAIN Tail(s) : Tail(s)[k] = a
    BY <1>5 DEF Holds
  <2>2. k + 1 # 1 /\ k + 1 \in DOMAIN s /\ s[k + 1] = a /\ 1 \in DOMAIN s
    BY <1>1, <2>1
  <2> QED BY <1>1, <1>5, <2>2 DEF OnceEach
<1>6. Holds(s, Head(s))
  BY <1>1 DEF Holds
<1> QED BY <1>3, <1>4, <1>5, <1>6 DEF SameDrains

\* A drain whose save has ended: e is its document afterwards.
LEMMA AttemptEnds ==
    ASSUME Shape, Shape', Drained, NEW i \in DOMAIN inst, inst[i].saves # <<>>,
           NEW a \in Attempt, Head(inst[i].saves) = a, NEW end \in {"ok", "failed", "refused"}, NEW e,
           inst' = [inst EXCEPT ![i] = e],
           drain' = [drain EXCEPT ![a].pc = end],
           UNCHANGED <<members, recorded, fence, tries>>, accepted' \subseteq accepted,
           stored \subseteq stored', inst[i].live \/ stored' = stored,
           e.live => inst[i].live /\ end # "ok", e.jobs = inst[i].jobs, e.seeded = inst[i].seeded,
           e.conns \subseteq inst[i].conns, SameDrains(Tail(inst[i].saves), e.saves),
           e.live /\ ~e.draining => ~inst[i].draining \/ (a # ForExit /\ MayReopen),
           Held(e) => a = ForExit /\ end = "failed",
           Sound(e), Current(e, stored', members, recorded, accepted'), Carried(inst[i], e, stored', accepted'),
           RecordedOnce', Paid
    PROVE  Drained'
<1> DEFINE d == inst[i]
<1>1. /\ DOMAIN inst' = DOMAIN inst
      /\ \A j \in DOMAIN inst : inst'[j] = (IF j = i THEN e ELSE inst[j])
      /\ Live' \subseteq Live
      /\ \A j \in Live' : j = i => e.live
  BY Updated
<1>2. Trusted' /\ AcceptedKept'
  BY UpdatedGood
<1>3. /\ d.saves \in Seq(Saver)
      /\ OnceEach(d.saves) /\ Holds(d.saves, a)
      /\ \A b \in Attempt : Holds(d.saves, b) => drain[b].pc = "saving" /\ drain[b].at = i
  <2>1. d \in Document
    BY DocumentFacts
  <2> QED BY <2>1, TailDrains DEF Drained, Queued, Document
<1>4. /\ OnceEach(e.saves)
      /\ \A b \in Attempt : Holds(e.saves, b) => Holds(d.saves, b) /\ b # a
      /\ \A b \in Attempt : Holds(d.saves, b) /\ b # a => Holds(e.saves, b)
  BY <1>3, TailDrains DEF SameDrains
<1>5. drain[a].pc = "saving" /\ drain[a].at = i /\ d.jobs = <<>>
  BY <1>3 DEF Drained, Booked
<1>6. /\ \A b \in Attempt : b # a => drain'[b] = drain[b]
      /\ drain'[a].pc = end /\ drain'[a].at = i
  <2>1. drain \in [Attempt -> DrainState]
    BY DEF Shape, Types
  <2> QED BY <1>5, <2>1 DEF DrainState
<1>7. ASSUME NEW j \in DOMAIN inst'
      PROVE  Queued(j)'
  <2>1. CASE j = i
    BY <1>1, <1>3, <1>4, <1>6, <2>1 DEF Queued
  <2>2. CASE j # i
    <3>1. inst'[j] = inst[j] /\ Queued(j)
      BY <1>1, <2>2 DEF Drained
    <3>2. \A b \in Attempt : Holds(inst[j].saves, b) => b # a
      BY <1>5, <2>2, <3>1 DEF Queued
    <3>3. Held(inst[j]) =>
             drain'[ForExit].pc = "failed" \/ \E b \in Attempt : InFlight(b)' /\ drain'[b].at = j
      BY <1>5, <1>6, <2>2, <3>1, Tags DEF Queued, InFlight
    <3> QED BY <1>6, <3>1, <3>2, <3>3 DEF Queued
  <2> QED BY <2>1, <2>2
<1>8. ASSUME NEW b \in Attempt
      PROVE  Booked(b)'
  <2>1. CASE b = a
    BY <1>6, <2>1 DEF Booked
  <2>2. CASE b # a
    <3>1. drain'[b] = drain[b] /\ Booked(b)
      BY <1>6, <2>2 DEF Drained
    <3>2. drain[b].pc = "saving" /\ drain[b].at = i => Holds(e.saves, b)
      BY <1>4, <2>2, <3>1 DEF Booked
    <3> QED BY <1>1, <1>5, <3>1, <3>2 DEF Booked
  <2> QED BY <2>1, <2>2
<1>9. ASSUME a # ForExit
      PROVE  /\ a[1] \in Leaver /\ a = <<a[1], a[2]>>
             /\ MayReopen => fence[a[1]] = "draining" /\ a[2] = tries[a[1]]
             /\ d.live => d.draining /\ d.conns = {}
             /\ fence[a[1]] = "draining" /\ a[2] = tries[a[1]] =>
                   \A j \in Live : j # i => ~inst[j].seeded
  <2>1. a[1] \in Leaver /\ a[2] \in 1 .. DrainAttempts /\ a = <<a[1], a[2]>>
    BY <1>9, Tags
  <2>2. Draining(a[1], a[2])
    BY <2>1 DEF Drained, Fenced
  <2> QED BY <1>5, <1>9, <2>1, <2>2 DEF Draining, InFlight
<1>10. Exiting'
  <2>1. Exiting
    BY DEF Drained
  <2>2. drain'[ForExit].pc # "none" => drain[ForExit].pc # "none"
    BY <1>5, <1>6, Tags
  <2>3. ASSUME drain'[ForExit].pc # "none", NEW j \in Live'
        PROVE  inst'[j].draining \/ Closed(inst'[j])
    <3>1. CASE j # i
      BY <1>1, <2>1, <2>2, <2>3, <3>1 DEF Exiting, Live
    <3>2. CASE j = i /\ a = ForExit
      BY <1>1, <2>1, <2>2, <2>3, <3>2 DEF Exiting, Closed
    <3>3. CASE j = i /\ a # ForExit
      BY <1>1, <1>5, <1>9, <2>3, <3>3 DEF Closed
    <3> QED BY <3>1, <3>2, <3>3
  <2>4. ASSUME drain'[ForExit].pc = "ok"
        PROVE  Live' = {}
    <3>1. CASE a = ForExit
      <4>1. end = "ok" /\ Live \subseteq {i}
        BY <1>5, <1>6, <2>1, <2>4, <3>1 DEF Exiting, InFlight
      <4> QED BY <1>1, <4>1
    <3>2. CASE a # ForExit
      BY <1>1, <1>6, <2>1, <2>4, <3>2, Tags DEF Exiting
    <3> QED BY <3>1, <3>2
  <2>5. ASSUME InFlight(ForExit)'
        PROVE  Live' \subseteq {drain'[ForExit].at}
    <3>1. a # ForExit /\ InFlight(ForExit) /\ drain'[ForExit] = drain[ForExit]
      BY <1>6, <2>5, Tags DEF InFlight
    <3> QED BY <1>1, <2>1, <3>1 DEF Exiting
  <2> QED BY <2>3, <2>4, <2>5 DEF Exiting
<1>11. Fenced'
  <2>1. Exclusive' = Exclusive
    BY DEF Exclusive
  <2>2. Shared' \subseteq Shared
    <3>1. Shared' = {j \in DOMAIN inst' : Admitted(inst'[j])}
      BY DEF Shared, At, Head1, Admitted, Runs, Admission
    <3>2. ~Admitted(e)
      BY <1>5 DEF Admitted, Runs
    <3> QED BY <1>1, <3>1, <3>2, SharedAdmitted
  <2>3. ASSUME NEW r \in Leaver, NEW k \in 1 .. DrainAttempts
        PROVE  Draining(r, k)'
    <3> DEFINE b == <<r, k>>
    <3>1. b \in Attempt /\ b # ForExit /\ Draining(r, k)
      BY Tags DEF Drained, Fenced
    <3>2. InFlight(b)' => InFlight(b) /\ b # a /\ drain'[b] = drain[b]
      BY <1>6, <3>1 DEF InFlight
    <3>3. k > tries[r] => drain'[b].pc = "none"
      BY <1>5, <1>6, <3>1 DEF Draining
    <3>4. InFlight(b)' /\ MayReopen' => fence[r] = "draining" /\ k = tries[r]
      BY <3>1, <3>2 DEF Draining, Paid
    <3>5. ASSUME InFlight(b)', inst'[drain'[b].at].live
          PROVE  inst'[drain'[b].at].draining /\ inst'[drain'[b].at].conns = {}
      <4> DEFINE j == drain[b].at
      <4>1. /\ InFlight(b) /\ b # a /\ drain'[b] = drain[b] /\ j \in DOMAIN inst /\ inst[j].live
            /\ inst[j].draining /\ inst[j].conns = {}
        BY <1>1, <3>1, <3>2, <3>5 DEF Draining, Drained, Booked, InFlight, Live
      <4>2. CASE j # i
        BY <1>1, <4>1, <4>2
      <4>3. CASE j = i /\ ~e.draining
        <5>1. MayReopen /\ a # ForExit
          BY <1>1, <3>5, <4>1, <4>3
        <5>2. fence[r] = "draining" /\ k = tries[r]
          BY <3>1, <4>1, <5>1 DEF Draining
        <5>3. a[1] = r
          BY <1>9, <5>1, <5>2 DEF Drained, Fenced, Exclusive
        <5> QED BY <1>9, <4>1, <5>1, <5>2, <5>3
      <4>4. CASE j = i /\ e.draining
        BY <1>1, <4>1, <4>4
      <4> QED BY <4>2, <4>3, <4>4
    <3>6. ASSUME fence[r] = "draining", k = tries[r], NEW j \in Live',
                 (InFlight(b)' /\ j # drain'[b].at) \/ drain'[b].pc = "ok"
          PROVE  ~inst'[j].seeded
      <4>1. CASE b = a
        <5>1. end = "ok"
          BY <1>6, <3>2, <3>6, <4>1
        <5> QED BY <1>1, <1>9, <3>1, <3>6, <4>1, <5>1
      <4>2. CASE b # a
        BY <1>1, <1>6, <3>1, <3>2, <3>6, <4>2 DEF Draining
      <4> QED BY <4>1, <4>2
    <3> QED BY <3>3, <3>4, <3>5, <3>6 DEF Draining
  <2> QED BY <2>1, <2>2, <2>3 DEF Drained, Fenced
<1> QED BY <1>2, <1>7, <1>8, <1>10, <1>11 DEF Drained, Paid

LEMMA SettledGood ==
    ASSUME Shape, Shape', Drained, NEW i \in DOMAIN inst, inst[i].saves # <<>>,
           NEW saved \in Document, Written(inst[i], saved), 
           NEW how \in {"ok", "failed", "refused"}, Settled(i, saved, how),
           stored \subseteq stored',
           stored' = stored \/ (inst[i].staged # None /\ stored' = inst[i].staged),
           UNCHANGED <<members, recorded, fence, tries>>, accepted' \subseteq accepted,
           inst[i].live /\ ~saved.unsaved => inst[i].content \cap accepted' \subseteq stored',
           how = "ok" /\ Head(inst[i].saves) # ForNobody => ~saved.unsaved,
           how = "failed" => saved.unsaved /\ MayReopen,
           how = "refused" => ~saved.unsaved /\ saved.draining /\ saved.conns = {},
           RecordedOnce', Paid
    PROVE  Drained'
<1> DEFINE d == inst[i]
           who == Head(d.saves)
           v == saved.unsaved
           end == IF who = ForExit /\ how = "refused" THEN "ok" ELSE how
           again == Again(saved)
           closed == IF who = ForExit THEN Close(again, again.conns) ELSE again
           reopened == [again EXCEPT !.draining = FALSE]
           flushed == IF ~again.live THEN again
                      ELSE IF end = "ok" THEN Cleanup(closed)
                      ELSE IF who # ForExit /\ again.unsaved THEN Retry(reopened)
                      ELSE again
<1>1. d \in Document /\ Ordered(d, opened) /\ Sound(d) /\ Current(d, stored, members, recorded, accepted)
  BY DocumentFacts
<1>2. /\ again \in Document /\ Ordered(again, opened) /\ Sound(again)
      /\ Current(again, stored', members, recorded, accepted') /\ Carried(d, again, stored', accepted')
      /\ again.jobs = d.jobs /\ again.conns = saved.conns /\ again.draining = saved.draining
      /\ again.seeded = d.seeded /\ again.unsaved = v
      /\ again.live => d.live
      /\ d.live /\ ~again.live => ~v
      /\ SameDrains(Tail(d.saves), again.saves)
      /\ d.jobs # <<>> => again.saves = Tail(d.saves)
      /\ ~v => ~again.timer
      /\ who = ForJob => Runs(d, "apply", "flushing") /\ again.saves = <<>>
  <2>1. PICK b \in Document : b = d
    BY <1>1
  <2>2. PICK row, acc : row = stored' /\ acc = accepted'
    OBVIOUS
  <2>3. /\ Ordered(b, opened) /\ Sound(b) /\ b.saves # <<>> /\ Written(b, saved)
        /\ Current(b, stored, members, recorded, accepted)
    BY <1>1, <2>1
  <2>4. /\ stored \subseteq row /\ (row = stored \/ (b.staged # None /\ row = b.staged))
        /\ b.live /\ ~saved.unsaved => b.content \cap acc \subseteq row
    BY <2>1, <2>2
  <2> HIDE DEF d
  <2>5. /\ again \in Document /\ Ordered(again, opened) /\ Sound(again)
        /\ Current(again, row, members, recorded, acc) /\ Carried(b, again, row, acc)
        /\ again.jobs = b.jobs /\ again.conns = saved.conns /\ again.draining = saved.draining
        /\ again.seeded = b.seeded /\ again.unsaved = v
        /\ again.live => b.live
        /\ b.live /\ ~again.live => ~v
        /\ SameDrains(Tail(b.saves), again.saves)
        /\ b.jobs # <<>> => again.saves = Tail(b.saves)
        /\ ~v => ~again.timer
        /\ Head(b.saves) = ForJob => Runs(b, "apply", "flushing") /\ again.saves = <<>>
    BY <2>3, <2>4, AgainGood, SMTT(60)
  <2> HIDE DEF again
  <2> QED BY <2>1, <2>2, <2>5
<1>3. d.saves \in Seq(Saver) /\ saved.saves = d.saves /\ who \in Saver
  <2>1. d.saves \in Seq(Saver) /\ saved.saves = d.saves
    BY <1>1 DEF Document, Written
  <2> QED BY <2>1, Behind
<1>4. d.live \/ stored' = stored
  BY <1>1 DEF Sound, Ordered
<1>9. /\ again.conns \subseteq d.conns /\ (d.draining => again.draining)
      /\ (again.unsaved => d.unsaved) /\ (Held(again) => Held(d))
  BY <1>2 DEF Written, Held
<1>5. \A c \in accepted' \ accepted : FALSE
  OBVIOUS
<1>6. CASE who = ForNobody
  <2>1. Goes(i, again)
    BY <1>3, <1>6, Tags DEF Settled, Again, After
  <2> HIDE DEF again
  <2>2. SameDrains(d.saves, again.saves)
    BY <1>2, <1>3, <1>6, Tags, TailDrains DEF SameDrains
  <2>3. Changes(i, again)
    BY <1>2, <1>9, <2>1, <2>2 DEF Goes, Changes, Moves, Closed, Admitted, Runs
  <2> QED BY <1>2, <1>4, <2>3, DocumentStep
<1>7. CASE who = ForJob
  <2>1. IF how = "ok" THEN Goes(i, Goto(again, "flushed")) ELSE Ends(i, again)
    BY <1>3, <1>7, Tags DEF Settled, Again, After
  <2> HIDE DEF again
  <2>2. SameDrains(d.saves, again.saves)
    BY <1>2, <1>3, <1>7, Tags, TailDrains DEF SameDrains
  <2>3. /\ again.jobs # <<>> /\ Head(again.jobs).kind = "apply" /\ Head(again.jobs).pc = "flushing"
        /\ again.saves = <<>> /\ d.seeded /\ UserOf[Head(again.jobs).who] \in members
    BY <1>1, <1>2, <1>7, OrderedHead DEF Runs, Current, PastLoad
  <2>4. CASE how = "ok"
    <3> DEFINE e == Goto(again, "flushed")
    <3>1. "flushed" \in Steps[Head(again.jobs).kind]
      BY <2>3 DEF Steps
    <3>2. ~again.timer /\ ~again.unsaved
      BY <1>2, <1>7, <2>4, Tags
    <3>3. /\ Sound(e) /\ Current(e, stored', members, recorded, accepted') /\ Carried(again, e, stored', accepted')
          /\ SameDrains(again.saves, e.saves) /\ Len(e.jobs) = Len(again.jobs)
          /\ e.live = again.live /\ e.draining = again.draining /\ e.conns = again.conns /\ e.seeded = again.seeded
          /\ Closed(again) => Closed(e)
          /\ ~Admitted(e)
      BY <1>2, <2>3, <3>1, <3>2, GotoGood
    <3>4. e.content = again.content /\ e.unsaved = again.unsaved
      BY <1>2, <2>3, <3>1, GotoFields
    <3>5. inst' = [inst EXCEPT ![i] = e] /\ drain' = drain
      BY <2>1, <2>4 DEF Goes
    <3> HIDE DEF e
    <3>6. SameDrains(d.saves, e.saves) /\ (Closed(d) => Closed(e)) /\ Carried(d, e, stored', accepted')
      BY <1>2, <1>9, <2>2, <3>3, <3>4 DEF SameDrains, Closed, Carried
    <3>7. Held(e) => Held(d)
      BY <1>9, <3>3, <3>4 DEF Held
    <3>9. Changes(i, e)
      BY <1>2, <1>9, <3>3, <3>5, <3>6, <3>7 DEF Changes, Moves
    <3> QED BY <1>4, <3>3, <3>6, <3>9, DocumentStep
  <2>5. CASE how # "ok"
    <3>1. /\ \A k \in DOMAIN again.saves : again.saves[k] # ForJob
          /\ again.live /\ again.seeded => stored' \subseteq again.content
      BY <1>2, <2>3 DEF Current, Runs
    <3>2. Ends(i, again)
      BY <2>1, <2>5
    <3> QED BY <1>2, <1>9, <2>2, <2>3, <3>1, <3>2, EndsGood
  <2> QED BY <2>4, <2>5
<1>8. CASE who \in Attempt
  <2>1. /\ inst' = [inst EXCEPT ![i] = flushed]
        /\ drain' = [drain EXCEPT ![who].pc = end]
    BY <1>3, <1>8, Tags DEF Settled, Again, After
  <2>2. d.jobs = <<>> /\ d.live => (who # ForExit => d.conns = {})
    <3>1. Holds(d.saves, who)
      BY <1>3, TailDrains
    <3>2. drain[who].pc = "saving" /\ drain[who].at = i
      BY <1>8, <3>1 DEF Drained, Queued
    <3>3. ASSUME d.live, who # ForExit PROVE d.conns = {}
      <4>1. who[1] \in Leaver /\ who[2] \in 1 .. DrainAttempts /\ who = <<who[1], who[2]>>
        BY <1>8, <3>3, Tags
      <4>2. Draining(who[1], who[2])
        BY <4>1 DEF Drained, Fenced
      <4> QED BY <3>2, <3>3, <4>1, <4>2 DEF Draining, InFlight, Live
    <3> QED BY <3>3
  <2>3. d.jobs = <<>>
    BY <1>3, <1>8, TailDrains DEF Drained, Queued, Booked
  <2> HIDE DEF again
  <2>4. ASSUME NEW e, flushed = e,
               e.live => d.live /\ end # "ok", e.jobs = d.jobs, e.seeded = d.seeded,
               e.conns \subseteq d.conns, SameDrains(Tail(d.saves), e.saves),
               e.live /\ ~e.draining => ~d.draining \/ (who # ForExit /\ MayReopen),
               Held(e) => who = ForExit /\ end = "failed",
               Sound(e), Current(e, stored', members, recorded, accepted'), Carried(d, e, stored', accepted')
        PROVE  Drained'
    <3>1. inst' = [inst EXCEPT ![i] = e]
      BY <2>1, <2>4
    <3> HIDE DEF flushed
    <3> QED BY <1>4, <1>8, <2>1, <2>4, <3>1, AttemptEnds
  <2>5. CASE ~again.live
    BY <1>2, <1>9, <2>4, <2>5 DEF Held
  <2>6. CASE again.live /\ end = "ok"
    <3>1. ~v /\ ~again.unsaved /\ ~again.timer
      BY <1>2, <1>8, <2>6, Tags
    <3>2. Tidied(again, Close(again, again.conns)) /\ Close(again, again.conns).conns = {}
      BY <1>2, CloseTidies
    <3>3. Close(again, again.conns) \in Document
      BY <1>2, CloseShape DEF Yields
    <3>4. /\ closed \in Document /\ closed.conns = {} /\ Tidied(again, closed)
      <4>1. Tidied(again, again)
        BY DEF Tidied
      <4> QED BY <1>2, <1>9, <2>2, <2>3, <2>6, <3>2, <3>3, <4>1
    <3> DEFINE e == Cleanup(closed)
    <3> HIDE DEF closed
    <3>5. /\ e.live = FALSE /\ e.timer = FALSE /\ e.conns = {} /\ e.jobs = closed.jobs
          /\ e.saves = closed.saves /\ e.staged = closed.staged /\ e.unsaved = closed.unsaved
          /\ e.seeded = closed.seeded /\ e.content = closed.content /\ e \in Document
      BY <3>4 DEF Cleanup, Document
    <3>6. flushed = e
      BY <2>6
    <3> HIDE DEF e
    <3>7. /\ e.saves = again.saves /\ e.jobs = d.jobs /\ e.staged = again.staged /\ ~e.unsaved
          /\ e.seeded = d.seeded /\ e.content = again.content
      BY <1>2, <3>1, <3>4, <3>5 DEF Tidied
    <3>8. Sound(e)
      BY <1>2, <2>3, <3>5, <3>7 DEF Sound, Runs
    <3>9. Current(e, stored', members, recorded, accepted')
      <4>1. Ordered(e, opened')
        <5>1. inst'[i] = e /\ i \in DOMAIN inst'
          BY <2>1, <3>6 DEF Shape, Docs
        <5> QED BY <5>1 DEF Shape, Docs
      <4> QED BY <3>5, <3>8, <4>1, DeadCurrent
    <3>10. Carried(d, e, stored', accepted')
      BY <3>1 DEF Carried
    <3>11. e.conns \subseteq d.conns /\ SameDrains(Tail(d.saves), e.saves)
      BY <1>2, <3>5, <3>7
    <3> QED BY <2>4, <3>5, <3>6, <3>7, <3>8, <3>9, <3>10, <3>11 DEF Held
  <2>7. CASE again.live /\ end # "ok"
    <3>1. CASE who = ForExit
      <4>1. flushed = again /\ end = "failed"
        BY <2>7, <3>1
      <4> QED BY <1>2, <1>9, <2>4, <2>7, <3>1, <4>1
    <3>2. CASE how = "refused" /\ who # ForExit
      <4>1. flushed = again /\ ~Held(again) /\ again.draining
        BY <1>2, <2>7, <3>2 DEF Held
      <4> QED BY <1>2, <1>9, <2>4, <2>7, <3>2, <4>1
    <3>3. CASE how = "failed" /\ who # ForExit
      <4> DEFINE e == Retry(reopened)
      <4>1. flushed = e /\ MayReopen
        BY <1>2, <2>7, <3>3
      <4>2. /\ e.live = again.live /\ e.timer = (again.timer \/ again.saves = <<>>) /\ e.conns = again.conns
            /\ e.jobs = again.jobs /\ e.saves = again.saves /\ e.staged = again.staged
            /\ e.unsaved = again.unsaved /\ e.seeded = again.seeded /\ e.content = again.content
            /\ e.draining = FALSE
        BY <1>2 DEF Retry, Document
      <4> HIDE DEF e
      <4>3. Sound(e) /\ ~Held(e)
        BY <1>2, <2>3, <2>7, <4>2 DEF Sound, Runs, Held
      <4>4. Current(e, stored', members, recorded, accepted') /\ Carried(d, e, stored', accepted')
        BY <1>2, <4>2 DEF Current, Runs, Carried
      <4> QED BY <1>2, <1>9, <2>4, <2>7, <3>3, <4>1, <4>2, <4>3, <4>4
    <3> QED BY <2>7, <3>1, <3>2, <3>3
  <2> QED BY <2>5, <2>6, <2>7
<1> QED BY <1>3, <1>6, <1>7, <1>8 DEF Saver

\* What a save writes keeps what is stored, and comes from members.
LEMMA StagedKeeps ==
    ASSUME Shape, Drained, NEW i \in DOMAIN inst, inst[i].staged # None
    PROVE  /\ inst[i].live /\ inst[i].unsaved /\ inst[i].saves # <<>>
           /\ stored \subseteq inst[i].staged
           /\ \A x \in inst[i].staged \ stored : UserOf[x] \in members
<1>1. /\ inst[i] \in Document /\ Ordered(inst[i], opened) /\ Sound(inst[i])
      /\ Current(inst[i], stored, members, recorded, accepted)
  BY DocumentFacts
<1> QED BY <1>1 DEF Ordered, Sound, Current

LEMMA SaveGood ==
    ASSUME Shape, Shape', Drained, NEW i \in DOMAIN inst,
           BeginSave(i) \/ EndSave(i) \/ SaveFails(i) \/ SaveRejected(i)
    PROVE  Drained'
<1> DEFINE d == inst[i]
<1>1. /\ d \in Document /\ Ordered(d, opened) /\ Sound(d) /\ Current(d, stored, members, recorded, accepted)
      /\ stored \subseteq Item
  BY DocumentFacts
<1>2. UNCHANGED <<members, recorded, fence, tries, answer, applied>> /\ accepted' \subseteq accepted
  BY DEF BeginSave, EndSave, SaveFails, SaveRejected, database, history
<1>3. Paid
  <2>1. CASE SaveFails(i) \/ SaveRejected(i)
    BY <2>1, SpendType DEF SaveFails, SaveRejected, Drained, NothingMixed, Paid, MayReopen, May, Shape, Types, Faults
  <2> QED BY <2>1 DEF BeginSave, EndSave, Drained, NothingMixed, Paid, MayReopen
<1>4. stored \subseteq stored' /\ (stored' = stored \/ (d.staged # None /\ stored' = d.staged))
  BY StagedKeeps DEF BeginSave, EndSave, SaveFails, SaveRejected, database
<1>5. RecordedOnce'
  BY <1>2, <1>4 DEF Drained, RecordedOnce
<1>6. CASE BeginSave(i)
  <2>1. CASE d.unsaved
    <3> DEFINE e == [d EXCEPT !.staged = d.content]
    <3>1. inst' = [inst EXCEPT ![i] = e] /\ drain' = drain /\ d.saves # <<>> /\ stored' = stored /\ accepted' = accepted
      BY <1>6, <2>1 DEF BeginSave, Goes, database, history
    <3>2. /\ e.live = d.live /\ e.timer = d.timer /\ e.conns = d.conns
          /\ e.jobs = d.jobs /\ e.saves = d.saves /\ e.staged = d.content
          /\ e.unsaved = d.unsaved /\ e.seeded = d.seeded /\ e.content = d.content
          /\ e.draining = d.draining
      BY <1>1 DEF Document
    <3> HIDE DEF e
    <3>3. Sound(e)
      BY <1>1, <3>2 DEF Sound, Runs
    <3>4. Current(e, stored, members, recorded, accepted)
      <4>1. ~Runs(d, "apply", "written") /\ d.live /\ d.seeded
        BY <1>1, <2>1 DEF Sound, Ordered
      <4> QED BY <1>1, <3>2, <4>1 DEF Current, Runs
    <3>5. Carried(d, e, stored, accepted) /\ SameDrains(d.saves, e.saves) /\ Closed(e) = Closed(d) /\ Admitted(e) = Admitted(d)
      BY <3>2 DEF Carried, SameDrains, Closed, Admitted, Runs
    <3>6. Changes(i, e)
      BY <1>2, <3>1, <3>2, <3>5 DEF Changes, Moves, Held
    <3> QED BY <1>2, <1>3, <1>5, <3>1, <3>3, <3>4, <3>5, <3>6, DocumentStep
  <2>2. CASE ~d.unsaved
    <3>1. d.saves # <<>> /\ Settled(i, d, "ok") /\ stored' = stored /\ accepted' = accepted
      BY <1>6, <2>2 DEF BeginSave, database, history
    <3>2. Written(d, d)
      BY DEF Written
    <3>4. d.live => d.content \cap accepted' \subseteq stored'
      BY <1>1, <2>2, <3>1 DEF Current
    <3> QED BY <1>1, <1>2, <1>3, <1>4, <1>5, <2>2, <3>1, <3>2, <3>4, SettledGood
  <2> QED BY <2>1, <2>2
<1>7. CASE EndSave(i)
  <2> DEFINE v == (d.content \cap Conn) \ d.staged # {}
  <2>1. d.staged # None /\ stored' = d.staged /\ Settled(i, [d EXCEPT !.unsaved = v], "ok") /\ accepted' = accepted
    BY <1>7 DEF EndSave, history
  <2>2. d.saves # <<>> /\ d.unsaved
    BY <2>1, StagedKeeps
  <2>3. Head(d.saves) # ForNobody => ~v
    BY <1>1, <2>1 DEF Sound
  <2>4. ~v => d.content \cap accepted' \subseteq stored'
    BY <2>1 DEF Shape, Types
  <2> DEFINE saved == [d EXCEPT !.unsaved = v]
  <2>5. saved \in Document /\ Written(d, saved) /\ saved.unsaved = v
    BY <1>1, <2>2 DEF Document, Written
  <2> HIDE DEF v, saved
  <2>6. Settled(i, saved, "ok")
    BY <2>1 DEF saved
  <2> QED BY <1>2, <1>3, <1>4, <1>5, <2>2, <2>3, <2>4, <2>5, <2>6, SettledGood
<1>8. CASE SaveFails(i)
  <2>1. d.staged # None /\ Settled(i, d, "failed") /\ MayReopen
    BY <1>8 DEF SaveFails, May, MayReopen
  <2>2. d.saves # <<>> /\ d.unsaved
    BY <2>1, StagedKeeps
  <2>3. Written(d, d)
    BY DEF Written
  <2> QED BY <1>1, <1>2, <1>3, <1>4, <1>5, <2>1, <2>2, <2>3, SettledGood
<1>9. CASE SaveRejected(i)
  <2> DEFINE doc == [d EXCEPT !.unsaved = FALSE, !.draining = TRUE]
             saved == Close(doc, doc.conns)
  <2>1. /\ d.staged # None /\ Settled(i, saved, "refused") /\ stored' = stored
        /\ accepted' = accepted \ (d.content \ stored)
    BY <1>9 DEF SaveRejected, database
  <2>2. d.saves # <<>>
    BY <2>1, StagedKeeps
  <2>3. /\ doc \in Document /\ doc.saves = d.saves /\ doc.jobs = d.jobs /\ doc.timer = d.timer
        /\ doc.seeded = d.seeded /\ doc.live = d.live /\ doc.unsaved = FALSE /\ doc.draining = TRUE
        /\ doc.content = d.content
    BY <1>1 DEF Document
  <2> HIDE DEF doc
  <2>4. /\ saved \in Document /\ saved.saves = d.saves /\ saved.jobs = d.jobs /\ saved.timer = d.timer
        /\ saved.seeded = d.seeded /\ saved.live = d.live /\ saved.unsaved = FALSE
        /\ saved.draining = TRUE /\ saved.content = d.content /\ saved.conns = {}
    BY <2>2, <2>3, CloseSaving
  <2> HIDE DEF saved
  <2>5. Written(d, saved) /\ (d.content \cap accepted' \subseteq stored')
    BY <2>1, <2>4 DEF Written
  <2> QED BY <1>2, <1>3, <1>4, <1>5, <2>1, <2>2, <2>4, <2>5, SettledGood
<1> QED BY <1>6, <1>7, <1>8, <1>9

-----------------------------------------------------------------------------
(* Drains                                                                   *)

\* A drain that finds nothing live is over.
LEMMA NothingLive ==
    ASSUME Shape, Drained, Live = {}, NEW a \in Attempt, drain[a].pc # "saving",
           drain' = [drain EXCEPT ![a].pc = "ok"], inst' = inst,
           UNCHANGED database, accepted' = accepted
    PROVE  /\ Trusted' /\ AcceptedKept' /\ Live' = {} /\ Shared' = Shared
           /\ \A j \in DOMAIN inst' : Queued(j)'
           /\ \A b \in Attempt : Booked(b)'
           /\ drain'[a].pc = "ok"
           /\ \A b \in Attempt : b # a => drain'[b] = drain[b]
<1>1. /\ \A b \in Attempt : b # a => drain'[b] = drain[b]
      /\ drain'[a].pc = "ok"
  BY DEF Shape, Types, DrainState
<1>2. Live' = {} /\ Shared' = Shared
  BY DEF Live, Shared, At, Head1
<1>3. Trusted' /\ AcceptedKept'
  BY DEF Drained, Trusted, AcceptedKept, Live, database
<1>4. ASSUME NEW j \in DOMAIN inst' PROVE Queued(j)'
  <2>1. Queued(j) /\ inst'[j] = inst[j] /\ ~inst[j].live
    BY DEF Drained, Live
  <2>2. \A b \in Attempt : Holds(inst[j].saves, b) => b # a
    BY <2>1 DEF Queued
  <2> QED BY <1>1, <2>1, <2>2 DEF Queued, Held
<1>5. ASSUME NEW b \in Attempt PROVE Booked(b)'
  <2>1. CASE b = a
    BY <1>1, <2>1 DEF Booked
  <2>2. CASE b # a
    BY <1>1, <2>2 DEF Booked, Drained
  <2> QED BY <2>1, <2>2
<1> QED BY <1>1, <1>2, <1>3, <1>4, <1>5

\* A drain begins.
LEMMA StartDrainGood ==
    ASSUME Shape, Shape', Drained, NEW a \in Attempt, drain[a].pc \in {"none", "failed"},
           NEW closing \in BOOLEAN, StartDrain(a, closing), UNCHANGED database, accepted' = accepted
    PROVE  /\ Trusted' /\ AcceptedKept' /\ Live' \subseteq Live /\ Shared' = Shared
           /\ \A j \in DOMAIN inst' : Queued(j)'
           /\ \A b \in Attempt : Booked(b)'
           /\ \A b \in Attempt : b # a => drain'[b] = drain[b]
           /\ \/ drain'[a].pc = "ok" /\ Live = {}
              \/ drain'[a].pc = "waiting" /\ Live' \subseteq {drain'[a].at}
           /\ \A j \in Live' : /\ inst'[j].draining /\ (closing => inst'[j].conns = {})
                               /\ inst'[j].conns \subseteq inst[j].conns
                               /\ inst'[j].seeded = inst[j].seeded
<1>1. CASE Live = {}
  BY <1>1, NothingLive DEF StartDrain
<1>2. CASE Live # {}
  <2>1. PICK i \in Live :
            LET doc == [inst[i] EXCEPT !.draining = TRUE]
            IN  /\ inst' = [inst EXCEPT ![i] = IF closing THEN Close(doc, doc.conns) ELSE doc]
                /\ drain' = [drain EXCEPT ![a] =
                      [pc |-> "waiting", at |-> i, ahead |-> Len(inst[i].jobs)]]
    BY <1>2 DEF StartDrain
  <2> DEFINE d == inst[i]
             doc == [d EXCEPT !.draining = TRUE]
             e == IF closing THEN Close(doc, doc.conns) ELSE doc
  <2>2. inst' = [inst EXCEPT ![i] = e]
    BY <2>1
  <2>3. /\ i \in DOMAIN inst /\ d.live
        /\ d \in Document /\ Ordered(d, opened) /\ Sound(d) /\ Current(d, stored, members, recorded, accepted)
    BY DocumentFacts DEF Live
  <2>4. /\ doc.live = d.live /\ doc.seeded = d.seeded /\ doc.content = d.content /\ doc.unsaved = d.unsaved
        /\ doc.draining = TRUE /\ doc.conns = d.conns /\ doc.timer = d.timer /\ doc.saves = d.saves
        /\ doc.staged = d.staged /\ doc.jobs = d.jobs /\ doc \in Document
    BY <2>3 DEF Document
  <2> HIDE DEF doc
  <2>5. Ordered(doc, opened) /\ Sound(doc) /\ Current(doc, stored, members, recorded, accepted)
    BY <2>3, <2>4 DEF Ordered, Sound, Current, Runs
  <2>6. /\ Tidied(doc, e) /\ e.conns \subseteq doc.conns /\ (closing => e.conns = {})
        /\ e \in Document
    <3>1. Tidied(doc, Close(doc, doc.conns)) /\ Close(doc, doc.conns).conns = {}
      BY <2>4, CloseTidies
    <3>2. Close(doc, doc.conns) \in Document
      BY <2>4, <2>5, CloseShape DEF Yields
    <3>3. Tidied(doc, doc)
      BY DEF Tidied
    <3> QED BY <2>4, <3>1, <3>2, <3>3
  <2> HIDE DEF e
  <2>7. Sound(e) /\ Current(e, stored, members, recorded, accepted) /\ Carried(doc, e, stored, accepted) /\ SameDrains(doc.saves, e.saves)
    BY <2>4, <2>5, <2>6, TidiedGood, TidiedDrains
  <2>8. /\ e.jobs = d.jobs /\ e.seeded = d.seeded /\ e.draining = TRUE /\ (e.live => d.live)
        /\ Carried(d, e, stored, accepted) /\ SameDrains(d.saves, e.saves)
    BY <2>4, <2>6, <2>7 DEF Tidied, Carried
  <2>9. /\ DOMAIN inst' = DOMAIN inst
        /\ \A j \in DOMAIN inst : inst'[j] = (IF j = i THEN e ELSE inst[j])
        /\ Live' \subseteq Live /\ Live = {i}
    BY <2>2, <2>3, <2>8, Updated
  <2>10. Trusted' /\ AcceptedKept'
    BY <2>2, <2>3, <2>7, <2>8, UpdatedGood DEF database
  <2>11. /\ \A b \in Attempt : b # a => drain'[b] = drain[b]
         /\ drain'[a].pc = "waiting" /\ drain'[a].at = i /\ drain'[a].ahead = Len(d.jobs)
    BY <2>1 DEF Shape, Types
  <2>12. ASSUME NEW j \in DOMAIN inst' PROVE Queued(j)'
    <3>1. Queued(j) /\ j \in DOMAIN inst
      BY <2>9 DEF Drained
    <3>2. \A b \in Attempt : Holds(inst[j].saves, b) => b # a
      BY <3>1 DEF Queued
    <3>3. CASE j = i
      <4>1. \E b \in Attempt : InFlight(b)' /\ drain'[b].at = j
        BY <2>11, <3>3 DEF InFlight
      <4>2. OnceEach(e.saves) /\ \A b \in Attempt : Holds(e.saves, b) => Holds(d.saves, b)
        BY <2>8, <3>1, <3>3 DEF Queued, SameDrains
      <4> QED BY <2>9, <2>11, <3>1, <3>2, <3>3, <4>1, <4>2 DEF Queued
    <3>4. CASE j # i
      <4>1. inst'[j] = inst[j] /\ ~inst[j].live
        BY <2>9, <3>1, <3>4 DEF Live
      <4> QED BY <2>11, <3>1, <3>2, <4>1 DEF Queued, Held
    <3> QED BY <3>3, <3>4
  <2>13. ASSUME NEW b \in Attempt PROVE Booked(b)'
    <3>1. CASE b = a
      BY <2>3, <2>8, <2>9, <2>11, <3>1 DEF Booked
    <3>2. CASE b # a
      <4>1. Booked(b) /\ drain'[b] = drain[b]
        BY <2>11, <3>2 DEF Drained
      <4> QED BY <2>8, <2>9, <4>1 DEF Booked, SameDrains
    <3> QED BY <3>1, <3>2
  <2>14. Shared' = Shared
    <3>1. Shared' = {j \in DOMAIN inst' : Admitted(inst'[j])}
      BY DEF Shared, At, Head1, Admitted, Runs, Admission
    <3>2. Admitted(e) <=> Admitted(d)
      BY <2>8 DEF Admitted, Runs
    <3> QED BY <2>9, <3>1, <3>2, SharedAdmitted
  <2>15. \A j \in Live' : j = i /\ inst'[j] = e
    BY <2>9, <2>3
  <2>16. e.conns \subseteq d.conns
    BY <2>4, <2>6
  <2> QED BY <2>6, <2>8, <2>9, <2>10, <2>11, <2>12, <2>13, <2>14, <2>15, <2>16
<1> QED BY <1>1, <1>2

LEMMA ShutdownGood ==
    ASSUME Shape, Shape', Drained, Shutdown
    PROVE  Drained'
<1>1. /\ drain[ForExit].pc \in {"none", "failed"} /\ StartDrain(ForExit, FALSE)
      /\ UNCHANGED <<database, fence, tries, answer, applied>> /\ accepted' = accepted
  BY DEF Shutdown, history
<1>2. Paid
  BY SpendType DEF Shutdown, Drained, NothingMixed, Paid, MayReopen, Shape, Types, Faults
<1>3. RecordedOnce'
  BY <1>1 DEF Drained, RecordedOnce, database
<1>4. /\ Trusted' /\ AcceptedKept' /\ Live' \subseteq Live /\ Shared' = Shared
      /\ \A j \in DOMAIN inst' : Queued(j)'
      /\ \A b \in Attempt : Booked(b)'
      /\ \A b \in Attempt : b # ForExit => drain'[b] = drain[b]
      /\ \/ drain'[ForExit].pc = "ok" /\ Live = {}
         \/ drain'[ForExit].pc = "waiting" /\ Live' \subseteq {drain'[ForExit].at}
      /\ \A j \in Live' : /\ inst'[j].draining
                          /\ inst'[j].conns \subseteq inst[j].conns
                          /\ inst'[j].seeded = inst[j].seeded
  BY <1>1, StartDrainGood, Tags
<1>5. Exiting'
  BY <1>4 DEF Exiting, InFlight
<1>6. Fenced'
  <2>1. Exclusive' = Exclusive
    BY <1>1 DEF Exclusive
  <2>2. ASSUME NEW r \in Leaver, NEW k \in 1 .. DrainAttempts PROVE Draining(r, k)'
    <3>1. <<r, k>> \in Attempt /\ drain'[<<r, k>>] = drain[<<r, k>>] /\ Draining(r, k)
      BY <1>4, Tags DEF Drained, Fenced
    <3>2. InFlight(<<r, k>>)' <=> InFlight(<<r, k>>)
      BY <3>1 DEF InFlight
    <3>3. InFlight(<<r, k>>)' => drain'[<<r, k>>].at \in DOMAIN inst'
      BY <1>4, <3>1 DEF Booked, InFlight
    <3>4. MayReopen' => MayReopen
      BY <1>2 DEF Paid
    <3> QED BY <1>1, <1>4, <3>1, <3>2, <3>3, <3>4 DEF Draining, Live
  <2> QED BY <1>4, <2>1, <2>2 DEF Drained, Fenced
<1> QED BY <1>2, <1>3, <1>4, <1>5, <1>6 DEF Drained, Paid

LEMMA RequestDrainGood ==
    ASSUME Shape, Shape', Drained, NEW r \in Leaver, RequestDrain(r) \/ DrainTimesOut(r)
    PROVE  Drained'
<1> DEFINE k == tries[r] + 1
           a == <<r, k>>
<1>1. /\ k \in 1 .. DrainAttempts /\ a \in Attempt /\ a # ForExit
      /\ tries' = [tries EXCEPT ![r] = k] /\ fence' = [fence EXCEPT ![r] = "draining"]
      /\ StartDrain(a, TRUE)
  BY NextRequest, Tags
<1>2. UNCHANGED <<database, answer, applied>> /\ accepted' = accepted
  BY DEF RequestDrain, DrainTimesOut, history
<1>3. Paid /\ RecordedOnce'
  <2>1. ASSUME RequestDrain(r) PROVE Paid
    BY <2>1 DEF RequestDrain, Drained, NothingMixed, Paid, MayReopen
  <2>2. ASSUME DrainTimesOut(r) PROVE Paid
    BY <2>2, SpendType DEF DrainTimesOut, May, Drained, NothingMixed, Paid, MayReopen, Shape, Types, Faults
  <2> QED BY <1>2, <2>1, <2>2 DEF Drained, RecordedOnce, database
<1>4. /\ fence \in [Leaver -> {"idle", "locked", "draining", "done", "aborted"}]
      /\ tries \in [Leaver -> 0 .. DrainAttempts] /\ tries[r] \in Nat
  BY DEF Shape, Types
<1>5. drain[a].pc = "none"
  <2>1. Draining(r, k) /\ k > tries[r]
    BY <1>1, <1>4 DEF Drained, Fenced
  <2> QED BY <2>1 DEF Draining
<1>6. r \in Exclusive /\ \A q \in Exclusive : q = r
  BY DEF RequestDrain, DrainTimesOut, Exclusive, Drained, Fenced
<1>7. \A q \in Leaver, l \in 1 .. DrainAttempts : MayReopen' => ~InFlight(<<q, l>>)
  <2> SUFFICES ASSUME NEW q \in Leaver, NEW l \in 1 .. DrainAttempts, InFlight(<<q, l>>), MayReopen' PROVE FALSE
    OBVIOUS
  <2>1. MayReopen /\ fence[q] = "draining" /\ l = tries[q]
    BY <1>3 DEF Drained, Fenced, Draining, Paid
  <2>2. q = r
    BY <1>6, <2>1 DEF Exclusive
  <2>3. ~DrainTimesOut(r)
    <3>1. budget["drainTimeout"] = 0
      BY <2>1 DEF Drained, NothingMixed
    <3> QED BY <3>1 DEF DrainTimesOut, May
  <2> QED BY <2>1, <2>2, <2>3 DEF RequestDrain, InFlight
<1> HIDE DEF k
<1>8. /\ Trusted' /\ AcceptedKept' /\ Live' \subseteq Live /\ Shared' = Shared
      /\ \A j \in DOMAIN inst' : Queued(j)'
      /\ \A b \in Attempt : Booked(b)'
      /\ \A b \in Attempt : b # a => drain'[b] = drain[b]
      /\ \/ drain'[a].pc = "ok" /\ Live = {}
         \/ drain'[a].pc = "waiting" /\ Live' \subseteq {drain'[a].at}
      /\ \A j \in Live' : inst'[j].draining /\ inst'[j].conns = {}
  BY <1>1, <1>2, <1>5, StartDrainGood
<1>9. Exiting'
  BY <1>1, <1>8, Tags DEF Drained, Exiting, InFlight
<1>10. Exclusive' = Exclusive
  BY <1>1, <1>4, <1>6 DEF Exclusive
<1>11. ASSUME NEW q \in Leaver, NEW l \in 1 .. DrainAttempts PROVE Draining(q, l)'
  <2> DEFINE b == <<q, l>>
  <2>1. b \in Attempt /\ Draining(q, l)
    BY Tags DEF Drained, Fenced
  <2>5. InFlight(b)' => drain'[b].at \in DOMAIN inst'
    BY <1>8, <2>1 DEF Booked, InFlight
  <2>6. InFlight(b)' /\ inst'[drain'[b].at].live =>
           inst'[drain'[b].at].draining /\ inst'[drain'[b].at].conns = {}
    BY <1>8, <2>5 DEF Live
  <2>2. CASE q = r /\ l = k
    <3>1. fence'[q] = "draining" /\ tries'[q] = l
      BY <1>1, <1>4, <2>2
    <3> QED BY <1>8, <2>2, <2>6, <3>1 DEF Draining, Live
  <2>3. CASE q = r /\ l # k
    <3>1. drain'[b] = drain[b]
      BY <1>8, <2>1, <2>3
    <3>2. tries'[q] = k /\ k > tries[r] /\ l # tries'[q] /\ (l > k => l > tries[q])
      BY <1>1, <1>4, <2>3 DEF k
    <3> QED BY <1>7, <2>1, <2>6, <3>1, <3>2 DEF Draining, InFlight
  <2>4. CASE q # r
    <3>1. drain'[b] = drain[b] /\ fence'[q] = fence[q] /\ tries'[q] = tries[q]
      BY <1>1, <1>4, <1>8, <2>1, <2>4
    <3>2. fence[q] # "draining"
      BY <1>6, <2>4 DEF Exclusive
    <3> QED BY <1>7, <2>1, <2>6, <3>1, <3>2 DEF Draining, InFlight
  <2> QED BY <2>2, <2>3, <2>4
<1>12. Fenced'
  BY <1>8, <1>10, <1>11 DEF Drained, Fenced
<1> QED BY <1>3, <1>8, <1>9, <1>12 DEF Drained, Paid

LEMMA DrainFlushGood ==
    ASSUME Shape, Shape', Drained, NEW a \in Attempt, DrainFlush(a)
    PROVE  Drained'
<1> DEFINE i == drain[a].at
           d == inst[i]
<1>1. /\ UNCHANGED <<database, fence, tries, answer, applied>> /\ accepted' = accepted
      /\ RecordedOnce' /\ Paid
  BY DEF DrainFlush, Drained, RecordedOnce, NothingMixed, Paid, MayReopen, database, history
<1>2. drain[a].pc = "waiting" /\ drain[a].ahead = 0
  BY DEF DrainFlush, JobsSettled
<1>3. i \in DOMAIN inst /\ Len(d.jobs) = 0
  BY <1>2 DEF Drained, Booked
<1>4. d \in Document /\ Ordered(d, opened) /\ Sound(d) /\ Current(d, stored, members, recorded, accepted)
  BY <1>3, DocumentFacts
<1>5. d.jobs = <<>> /\ d.saves \in Seq(Saver)
  BY <1>3, <1>4 DEF Document
<1>6. drain \in [Attempt -> DrainState] /\ Exclusive' = Exclusive
  BY <1>1 DEF Shape, Types, Exclusive
<1>7. CASE a = ForExit /\ ~d.live
  <2>1. drain' = [drain EXCEPT ![a].pc = "ok"] /\ inst' = inst
    BY <1>7 DEF DrainFlush
  <2>2. Live = {}
    BY <1>2, <1>7 DEF Drained, Exiting, InFlight, Live
  <2>3. /\ Trusted' /\ AcceptedKept' /\ Live' = {} /\ Shared' = Shared
        /\ \A j \in DOMAIN inst' : Queued(j)'
        /\ \A b \in Attempt : Booked(b)'
        /\ drain'[a].pc = "ok"
        /\ \A b \in Attempt : b # a => drain'[b] = drain[b]
    BY <1>1, <1>2, <2>1, <2>2, NothingLive
  <2>4. Exiting'
    BY <1>7, <2>3 DEF Exiting
  <2>5. ASSUME NEW r \in Leaver, NEW k \in 1 .. DrainAttempts PROVE Draining(r, k)'
    <3>1. <<r, k>> \in Attempt /\ <<r, k>> # a /\ Draining(r, k)
      BY <1>7, Tags DEF Drained, Fenced
    <3>2. MayReopen' => MayReopen
      BY <1>1 DEF Paid
    <3> QED BY <1>1, <2>1, <2>3, <3>1, <3>2 DEF Draining, InFlight
  <2> QED BY <1>1, <1>6, <2>3, <2>4, <2>5 DEF Drained, Fenced, Paid
<1>8. CASE ~(a = ForExit /\ ~d.live)
  <2> DEFINE e == Flush(d, a)
  <2>1. inst' = [inst EXCEPT ![i] = e] /\ drain' = [drain EXCEPT ![a].pc = "saving"]
    BY <1>8 DEF DrainFlush
  <2>2. /\ e.live = d.live /\ e.seeded = d.seeded /\ e.content = d.content /\ e.unsaved = d.unsaved
        /\ e.draining = d.draining /\ e.conns = d.conns /\ e.timer = FALSE
        /\ e.staged = d.staged /\ e.jobs = d.jobs /\ e.saves = Append(d.saves, a)
    BY <1>4 DEF Flush, Document
  <2> HIDE DEF e
  <2>3. /\ e.saves # <<>> /\ (d.saves # <<>> => Head(e.saves) = Head(d.saves))
        /\ DOMAIN d.saves = 1 .. Len(d.saves) /\ DOMAIN e.saves = 1 .. Len(d.saves) + 1
        /\ Len(d.saves) \in Nat
        /\ \A k \in DOMAIN d.saves : e.saves[k] = d.saves[k]
        /\ e.saves[Len(d.saves) + 1] = a
    <3>1. a \in Saver
      BY DEF Saver
    <3> HIDE DEF d
    <3>2. /\ Append(d.saves, a) # <<>>
          /\ DOMAIN d.saves = 1 .. Len(d.saves) /\ DOMAIN Append(d.saves, a) = 1 .. Len(d.saves) + 1
          /\ Len(d.saves) \in Nat
          /\ \A k \in DOMAIN d.saves : Append(d.saves, a)[k] = d.saves[k]
          /\ Append(d.saves, a)[Len(d.saves) + 1] = a
          /\ Head(Append(d.saves, a)) = (IF d.saves = <<>> THEN a ELSE Head(d.saves))
      BY <1>5, <3>1, Added
    <3> QED BY <2>2, <3>2
  <2>4. Sound(e)
    <3>1. \A k \in DOMAIN e.saves : e.saves[k] # ForJob
      <4>1. \A k \in DOMAIN d.saves : d.saves[k] # ForJob
        BY <1>4, <1>5 DEF Ordered, Runs
      <4>2. a # ForJob
        BY Tags
      <4>3. \A k \in DOMAIN e.saves : k \in DOMAIN d.saves \/ k = Len(d.saves) + 1
        BY <2>3
      <4> QED BY <2>3, <4>1, <4>2, <4>3
    <3> QED BY <1>4, <1>5, <2>2, <2>3, <3>1 DEF Sound, Ordered, Runs
  <2>5. Current(e, stored, members, recorded, accepted) /\ Carried(d, e, stored, accepted)
    BY <1>4, <2>2 DEF Current, Runs, Carried
  <2>6. /\ DOMAIN inst' = DOMAIN inst
        /\ \A j \in DOMAIN inst : inst'[j] = (IF j = i THEN e ELSE inst[j])
        /\ Live' \subseteq Live
    BY <1>3, <2>1, <2>2, Updated
  <2>7. Trusted' /\ AcceptedKept'
    BY <1>1, <1>3, <2>1, <2>2, <2>4, <2>5, UpdatedGood DEF database
  <2>8. /\ \A b \in Attempt : b # a => drain'[b] = drain[b]
        /\ drain'[a].pc = "saving" /\ drain'[a].at = i
        /\ \A b \in Attempt : (InFlight(b)' <=> InFlight(b)) /\ drain'[b].at = drain[b].at
    <3>1. /\ \A b \in Attempt : b # a => drain'[b] = drain[b]
          /\ drain'[a].pc = "saving" /\ drain'[a].at = i
      BY <1>6, <2>1 DEF DrainState
    <3> QED BY <1>2, <3>1 DEF InFlight
  <2>9. /\ \A b \in Attempt : Holds(e.saves, b) <=> Holds(d.saves, b) \/ b = a
        /\ ~Holds(d.saves, a)
    <3>1. ~Holds(d.saves, a)
      BY <1>2, <1>3 DEF Drained, Queued
    <3>2. \A k \in DOMAIN e.saves : k \in DOMAIN d.saves \/ k = Len(d.saves) + 1
      BY <2>3
    <3>3. \A k \in DOMAIN d.saves : k \in DOMAIN e.saves
      BY <2>3
    <3>4. Len(d.saves) + 1 \in DOMAIN e.saves
      BY <2>3
    <3> QED BY <2>3, <3>1, <3>2, <3>3, <3>4 DEF Holds
  <2>10. OnceEach(d.saves) => OnceEach(e.saves)
    <3> SUFFICES ASSUME OnceEach(d.saves), NEW k \in DOMAIN e.saves, NEW l \in DOMAIN e.saves,
                        e.saves[k] \in Attempt, e.saves[k] = e.saves[l]
                 PROVE  k = l
      BY DEF OnceEach
    <3>1. k \in DOMAIN d.saves \/ k = Len(d.saves) + 1
      BY <2>3
    <3>2. l \in DOMAIN d.saves \/ l = Len(d.saves) + 1
      BY <2>3
    <3> QED BY <2>3, <2>9, <3>1, <3>2 DEF Holds, OnceEach
  <2>11. ASSUME NEW j \in DOMAIN inst' PROVE Queued(j)'
    <3>1. Queued(j) /\ j \in DOMAIN inst
      BY <2>6 DEF Drained
    <3>2. drain'[ForExit].pc = "failed" <=> drain[ForExit].pc = "failed"
      BY <1>2, <2>8, Tags
    <3>3. CASE j = i
      <4>1. inst[i] = d /\ inst'[i] = e /\ Queued(i)
        BY <2>6, <3>1, <3>3
      <4>2. OnceEach(e.saves)
        BY <2>10, <4>1 DEF Queued
      <4>3. \A b \in Attempt : Holds(e.saves, b) => drain'[b].pc = "saving" /\ drain'[b].at = i
        BY <2>8, <2>9, <4>1 DEF Queued
      <4>4. Held(e) =>
               drain'[ForExit].pc = "failed" \/ \E b \in Attempt : InFlight(b)' /\ drain'[b].at = i
        BY <2>2, <2>8, <3>2, <4>1 DEF Queued, Held
      <4> QED BY <3>3, <4>1, <4>2, <4>3, <4>4 DEF Queued
    <3>4. CASE j # i
      <4>1. \A b \in Attempt : Holds(inst[j].saves, b) => b # a
        BY <1>2, <3>1 DEF Queued
      <4> QED BY <2>6, <2>8, <3>1, <3>2, <3>4, <4>1 DEF Queued
    <3> QED BY <3>3, <3>4
  <2>12. ASSUME NEW b \in Attempt PROVE Booked(b)'
    <3>1. CASE b = a
      BY <1>3, <1>5, <2>2, <2>6, <2>8, <2>9, <3>1 DEF Booked
    <3>2. CASE b # a
      <4>1. Booked(b) /\ drain'[b] = drain[b]
        BY <2>8, <3>2 DEF Drained
      <4>2. drain[b].at \in DOMAIN inst =>
               /\ inst'[drain[b].at].jobs = inst[drain[b].at].jobs
               /\ Holds(inst[drain[b].at].saves, b) => Holds(inst'[drain[b].at].saves, b)
        BY <2>2, <2>6, <2>9
      <4> QED BY <2>6, <4>1, <4>2 DEF Booked
    <3> QED BY <3>1, <3>2
  <2>13. \A j \in Live' : /\ j \in Live /\ inst'[j].draining = inst[j].draining
                          /\ inst'[j].conns = inst[j].conns /\ inst'[j].seeded = inst[j].seeded
                          /\ inst'[j].jobs = inst[j].jobs
    BY <2>2, <2>6 DEF Live
  <2>14. Exiting'
    <3>1. /\ drain'[ForExit].pc = "none" <=> drain[ForExit].pc = "none"
          /\ drain'[ForExit].pc = "ok" <=> drain[ForExit].pc = "ok"
      BY <1>2, <2>8, Tags
    <3> QED BY <2>6, <2>8, <2>13, <3>1, Tags DEF Drained, Exiting, Closed
  <2>15. Shared' = Shared
    <3>1. Shared' = {j \in DOMAIN inst' : Admitted(inst'[j])}
      BY DEF Shared, At, Head1, Admitted, Runs, Admission
    <3>2. Admitted(e) <=> Admitted(d)
      BY <2>2 DEF Admitted, Runs
    <3> QED BY <2>6, <3>1, <3>2, SharedAdmitted
  <2>16. ASSUME NEW r \in Leaver, NEW k \in 1 .. DrainAttempts PROVE Draining(r, k)'
    <3> DEFINE b == <<r, k>>
    <3>1. b \in Attempt /\ Draining(r, k)
      BY Tags DEF Drained, Fenced
    <3>2. /\ drain'[b].pc = "none" <=> drain[b].pc = "none"
          /\ drain'[b].pc = "ok" <=> drain[b].pc = "ok"
      BY <1>2, <2>8, <3>1
    <3>3. /\ MayReopen' => MayReopen
          /\ InFlight(b)' => drain'[b].at \in DOMAIN inst'
      BY <1>1, <2>12, <3>1 DEF Paid, Booked, InFlight
    <3> QED BY <1>1, <2>8, <2>13, <3>1, <3>2, <3>3 DEF Draining, Live
  <2> QED BY <1>1, <1>6, <2>7, <2>11, <2>12, <2>14, <2>15, <2>16 DEF Drained, Fenced, Paid
<1> QED BY <1>7, <1>8

\* The server ends.
LEMMA NewServerGood ==
    ASSUME Shape, Shape', Drained, Restart \/ Crash
    PROVE  Drained'
<1>1. inst' = <<>> /\ UNCHANGED <<database, fence, tries, answer, applied>>
  BY DEF Restart, Crash, NewServer, history
<1>2. DOMAIN inst' = {} /\ Live' = {} /\ Shared' = {}
  BY <1>1 DEF Live, Shared
<1>3. \A a \in Attempt : /\ ~InFlight(a)'
                         /\ (drain[a].pc = "none" => drain'[a].pc = "none")
                         /\ drain'[ForExit].pc = "none"
  <2>1. NewServer
    BY DEF Restart, Crash
  <2>2. drain \in [Attempt -> DrainState]
    BY DEF Shape, Types
  <2>3. ASSUME NEW a \in Attempt
        PROVE  drain'[a].pc = (IF a = ForExit THEN "none"
                               ELSE IF drain[a].pc \in {"waiting", "saving"} THEN "failed" ELSE drain[a].pc)
    <3>1. drain[a] \in DrainState
      BY <2>2
    <3>2. drain'[a] = (IF a = ForExit THEN [drain[a] EXCEPT !.pc = "none", !.at = 0]
                       ELSE IF drain[a].pc \in {"waiting", "saving"} THEN [drain[a] EXCEPT !.pc = "failed", !.at = 0]
                       ELSE [drain[a] EXCEPT !.at = 0])
      BY <2>1 DEF NewServer
    <3> QED BY <3>1, <3>2 DEF DrainState
  <2> QED BY <2>3, Tags DEF InFlight
<1>4. Paid /\ RecordedOnce'
  <2>1. CASE Crash
    BY <1>1, <2>1, SpendType DEF Crash, Drained, NothingMixed, Paid, MayReopen, RecordedOnce, Shape, Types, Faults, database
  <2>2. CASE Restart
    BY <1>1, <2>2 DEF Restart, Drained, NothingMixed, Paid, MayReopen, RecordedOnce, database
  <2> QED BY <2>1, <2>2
<1>5. AcceptedKept'
  <2>1. CASE Crash
    BY <1>1, <2>1 DEF Crash, AcceptedKept, database
  <2>2. CASE Restart
    BY <1>1, <2>2 DEF Restart, Drained, Exiting, AcceptedKept, database, history
  <2> QED BY <2>1, <2>2
<1>6. Trusted' /\ (\A i \in DOMAIN inst' : Queued(i)') /\ Exiting'
  BY <1>2, <1>3, Tags DEF Trusted, Exiting
<1>7. \A a \in Attempt : Booked(a)'
  BY <1>3 DEF Booked, InFlight
<1>8. Fenced'
  <2>1. Exclusive' = Exclusive
    BY <1>1 DEF Exclusive
  <2>2. ASSUME NEW r \in Leaver, NEW k \in 1 .. DrainAttempts PROVE Draining(r, k)'
    <3>1. <<r, k>> \in Attempt /\ Draining(r, k)
      BY Tags DEF Drained, Fenced
    <3> QED BY <1>1, <1>2, <1>3, <3>1 DEF Draining
  <2> QED BY <1>2, <2>1, <2>2 DEF Drained, Fenced
<1> QED BY <1>4, <1>5, <1>6, <1>7, <1>8 DEF Drained, Paid

\* A fence is put up, comes down, or is given up: the documents and the drains
\* are left alone.
LEMMA FenceMoves ==
    ASSUME Shape, Drained, UNCHANGED <<stored, recorded, tries, drain, inst, answer, applied>>,
           accepted' = accepted
    PROVE  /\ RecordedOnce' /\ AcceptedKept' /\ Exiting' /\ Live' = Live /\ Shared' = Shared
           /\ \A i \in DOMAIN inst' : Queued(i)'
           /\ \A a \in Attempt : Booked(a)' /\ (InFlight(a)' <=> InFlight(a))
           /\ members' = members => Trusted'
<1>1. Live' = Live /\ Shared' = Shared
  BY DEF Live, Shared, At, Head1
<1>2. \A a \in Attempt : Booked(a)' /\ (InFlight(a)' <=> InFlight(a))
  BY DEF Drained, Booked, InFlight
<1>3. \A i \in DOMAIN inst' : Queued(i)'
  BY <1>2 DEF Drained, Queued
<1>4. Exiting'
  BY <1>1, <1>2, Tags DEF Drained, Exiting
<1>5. RecordedOnce' /\ AcceptedKept' /\ (members' = members => Trusted')
  BY <1>1 DEF Drained, RecordedOnce, AcceptedKept, Trusted
<1> QED BY <1>1, <1>2, <1>3, <1>4, <1>5

LEMMA LockGood ==
    ASSUME Shape, Drained, NEW r \in Leaver, Lock(r)
    PROVE  Drained'
<1>1. /\ UNCHANGED <<database, tries, drain, inst, answer, applied, budget>> /\ accepted' = accepted
      /\ fence' = [fence EXCEPT ![r] = "locked"] /\ Shared = {} /\ Exclusive = {}
  BY DEF Lock, Turn, history
<1>2. /\ RecordedOnce' /\ AcceptedKept' /\ Exiting' /\ Live' = Live /\ Shared' = Shared
      /\ \A i \in DOMAIN inst' : Queued(i)'
      /\ \A a \in Attempt : Booked(a)' /\ (InFlight(a)' <=> InFlight(a))
      /\ Trusted'
  BY <1>1, FenceMoves DEF database
<1>3. Paid
  BY <1>1 DEF Drained, NothingMixed, Paid, MayReopen
<1>4. \A q \in Leaver : fence[q] # "draining" /\ fence'[q] # "draining" /\ (q \in Exclusive' => q = r)
  BY <1>1 DEF Exclusive, Shape, Types
<1>5. ASSUME NEW q \in Leaver, NEW k \in 1 .. DrainAttempts PROVE Draining(q, k)'
  <2>1. <<q, k>> \in Attempt /\ Draining(q, k)
    BY Tags DEF Drained, Fenced
  <2> QED BY <1>1, <1>2, <1>4, <2>1 DEF Draining, MayReopen
<1>6. Fenced'
  <2>1. Exclusive' \subseteq Leaver
    BY DEF Exclusive
  <2> QED BY <1>1, <1>2, <1>4, <1>5, <2>1 DEF Fenced
<1> QED BY <1>2, <1>3, <1>6 DEF Drained, Paid

\* A fence comes down; where a save may fail, its drain is over.
LEMMA FenceEnds ==
    ASSUME Shape, Drained, NEW r \in Leaver, fence[r] \in {"locked", "draining"},
           MayReopen => fence[r] = "locked" \/ ~InFlight(<<r, tries[r]>>), MayReopen' => MayReopen,
           NEW pc \in {"done", "aborted"}, fence' = [fence EXCEPT ![r] = pc],
           UNCHANGED <<tries, drain, inst>>
    PROVE  Fenced'
<1>1. \A q \in Leaver : fence'[q] = (IF q = r THEN pc ELSE fence[q])
  BY DEF Shape, Types
<1>2. Exclusive' = {}
  BY <1>1 DEF Exclusive, Drained, Fenced
<1>3. ASSUME NEW q \in Leaver, NEW k \in 1 .. DrainAttempts PROVE Draining(q, k)'
  <2>1. <<q, k>> \in Attempt /\ Draining(q, k)
    BY Tags DEF Drained, Fenced
  <2>2. MayReopen' => ~InFlight(<<q, k>>)
    <3> SUFFICES ASSUME MayReopen', InFlight(<<q, k>>) PROVE FALSE
      OBVIOUS
    <3>1. fence[q] = "draining" /\ k = tries[q]
      BY <2>1 DEF Draining
    <3>2. q = r
      BY <3>1 DEF Drained, Fenced, Exclusive
    <3> QED BY <3>1, <3>2
  <2>3. fence'[q] # "draining"
    BY <1>2 DEF Exclusive
  <2> QED BY <2>1, <2>2, <2>3 DEF Draining, InFlight
<1> QED BY <1>2, <1>3 DEF Fenced

LEMMA RevokeGood ==
    ASSUME Shape, Drained, NEW r \in Leaver, Revoke(r)
    PROVE  Drained'
<1>1. /\ UNCHANGED <<stored, recorded, tries, drain, inst, answer, applied, budget>> /\ accepted' = accepted
      /\ fence' = [fence EXCEPT ![r] = "done"] /\ fence[r] = "draining"
      /\ drain[<<r, tries[r]>>].pc = "ok"
  BY DEF Revoke, Turn, history
<1>2. /\ RecordedOnce' /\ AcceptedKept' /\ Exiting'
      /\ \A i \in DOMAIN inst' : Queued(i)'
      /\ \A a \in Attempt : Booked(a)'
  BY <1>1, FenceMoves
<1>3. Paid
  BY <1>1 DEF Drained, NothingMixed, Paid, MayReopen
<1>7. Fenced'
  BY <1>1, <1>3, FenceEnds DEF Paid, InFlight
<1>4. \A j \in Live : ~inst[j].seeded
  <2>1. tries[r] \in 1 .. DrainAttempts
    <3>1. tries[r] \in 0 .. DrainAttempts /\ tries[r] # 0 /\ DrainAttempts \in Nat
      BY <1>1, ConstantsAssumption DEF Shape, Types
    <3> QED BY <3>1
  <2>2. Draining(r, tries[r])
    BY <2>1 DEF Drained, Fenced
  <2> QED BY <1>1, <2>2 DEF Draining
<1>5. ASSUME NEW i \in DOMAIN inst
      PROVE  Sound(inst[i]) /\ Current(inst[i], stored, members', recorded, accepted)
  <2> DEFINE d == inst[i]
  <2>1. d \in Document /\ Ordered(d, opened) /\ Sound(d) /\ Current(d, stored, members, recorded, accepted)
    BY DocumentFacts
  <2>2. CASE d.live
    <3>1. d.content = {} /\ d.conns = {} /\ ~d.unsaved
      BY <1>4, <2>1, <2>2 DEF Live, Sound, Ordered
    <3>2. d.jobs # <<>> => Head(d.jobs).pc \in {"queued", "admitted"}
      BY <1>4, <2>1, <2>2 DEF Live, Ordered
    <3> QED BY <1>4, <2>1, <2>2, <3>1, <3>2 DEF Live, Current, Runs, PastLoad
  <2>3. CASE ~d.live
    BY <2>1, <2>3, DeadCurrent
  <2> QED BY <2>1, <2>2, <2>3
<1>6. Trusted'
  BY <1>1, <1>5 DEF Trusted
<1> QED BY <1>2, <1>3, <1>6, <1>7 DEF Drained, Paid

LEMMA GiveUpGood ==
    ASSUME Shape, Drained, NEW r \in Leaver, GiveUp(r)
    PROVE  Drained'
<1>1. fence[r] \in {"locked", "draining"} /\ (MayReopen => ~InFlight(<<r, tries[r]>>)) /\ Paid
  <2>1. CASE UNCHANGED budget /\ fence[r] = "draining" /\ drain[<<r, tries[r]>>].pc \in {"failed", "refused"}
    BY <2>1 DEF InFlight, Drained, NothingMixed, Paid, MayReopen
  <2>2. CASE May("fenceTimeout") /\ Spend("fenceTimeout") /\ fence[r] \in {"locked", "draining"}
    BY <2>2, SpendType DEF May, Drained, NothingMixed, Paid, MayReopen, Shape, Types, Faults
  <2> QED BY <2>1, <2>2 DEF GiveUp
<1>2. /\ UNCHANGED <<database, tries, drain, inst, answer, applied>> /\ accepted' = accepted
      /\ fence' = [fence EXCEPT ![r] = "aborted"]
  BY DEF GiveUp, Turn, history
<1>3. /\ RecordedOnce' /\ AcceptedKept' /\ Exiting' /\ Trusted'
      /\ \A i \in DOMAIN inst' : Queued(i)'
      /\ \A a \in Attempt : Booked(a)'
  BY <1>2, FenceMoves DEF database
<1>4. Fenced'
  BY <1>1, <1>2, FenceEnds DEF Paid
<1> QED BY <1>1, <1>3, <1>4 DEF Drained, Paid

-----------------------------------------------------------------------------
(* What the document promises                                               *)

LEMMA DrainedInit == Unmixed /\ Init => Drained
<1> SUFFICES ASSUME Unmixed, Init PROVE Drained
  OBVIOUS
<1>1. inst = <<>> /\ DOMAIN inst = {} /\ Live = {} /\ Shared = {}
  BY DEF Init, Live, Shared
<1>2. \A a \in Attempt : drain[a].pc = "none"
  BY DEF Init
<1>3. \A r \in Leaver : fence[r] = "idle" /\ tries[r] = 0
  BY DEF Init
<1>4. Trusted /\ (\A i \in DOMAIN inst : Queued(i)) /\ AcceptedKept
  BY <1>1 DEF Trusted, AcceptedKept, Init
<1>5. \A a \in Attempt : Booked(a)
  BY <1>2 DEF Booked
<1>6. Exiting
  BY <1>1, <1>2, Tags DEF Exiting, InFlight
<1>7. Fenced
  <2>1. Exclusive = {}
    BY <1>3 DEF Exclusive
  <2>2. \A r \in Leaver, k \in 1 .. DrainAttempts : Draining(r, k)
    BY <1>2, <1>3, Tags DEF Draining, InFlight
  <2> QED BY <2>1, <2>2 DEF Fenced
<1>8. RecordedOnce
  BY ConstantsAssumption DEF RecordedOnce, Init
<1>9. NothingMixed
  BY DEF Init, NothingMixed, Paid, MayReopen, Unmixed
<1> QED BY <1>4, <1>5, <1>6, <1>7, <1>8, <1>9 DEF Drained

LEMMA DrainedNext == Shape /\ Drained /\ [Next]_vars => Drained'
<1> SUFFICES ASSUME Shape, Drained, [Next]_vars PROVE Drained'
  OBVIOUS
<1>1. Shape'
  BY ShapeNext
<1>2. ASSUME NEW a \in Attempt, DrainFlush(a) PROVE Drained'
  BY <1>1, <1>2, DrainFlushGood
<1>3. CASE Client
  BY <1>1, <1>3, ClientGood
<1>4. ASSUME NEW i \in DOMAIN inst, Serve(i) \/ Retire(i) \/ LoseMutation(i) \/ SaveFails(i) \/ SaveRejected(i)
      PROVE  Drained'
  BY <1>1, <1>4, JobGood, TimerGood, SaveGood DEF Serve
<1>5. ASSUME NEW r \in Leaver, Lock(r) \/ Fence(r) PROVE Drained'
  BY <1>1, <1>5, LockGood, RequestDrainGood, RevokeGood, GiveUpGood DEF Fence
<1>6. CASE Shutdown \/ Restart \/ Crash
  BY <1>1, <1>6, ShutdownGood, NewServerGood
<1>7. CASE UNCHANGED vars
  <2>1. /\ UNCHANGED <<database, inst, drain, fence, tries>> /\ accepted' = accepted
        /\ UNCHANGED <<answer, applied, budget>>
    BY <1>7 DEF vars, fences, history
  <2>2. RecordedOnce' /\ Paid
    BY <2>1 DEF Drained, RecordedOnce, NothingMixed, Paid, MayReopen, database
  <2> QED BY <2>1, <2>2, NothingGood
<1> QED BY <1>2, <1>3, <1>4, <1>5, <1>6, <1>7 DEF Next

LEMMA Invariant == Unmixed => (Spec => [](Shape /\ Drained))
<1>1. Unmixed /\ Init => Shape /\ Drained
  BY ShapeInit, DrainedInit
<1>2. Shape /\ Drained /\ [Next]_vars => (Shape /\ Drained)'
  BY ShapeNext, DrainedNext
<1> QED BY <1>1, <1>2, PTL DEF Spec

\* Only the transaction of a mutation and a save write the row.
LEMMA StoredGrows ==
    ASSUME Shape, Drained, [Next]_vars
    PROVE  stored \subseteq stored' /\ \A e \in stored' \ stored : UserOf[e] \in members
<1>1. ASSUME NEW i \in DOMAIN inst, CommitMutation(i)
      PROVE  stored \subseteq stored' /\ \A e \in stored' \ stored : UserOf[e] \in members
  BY <1>1, CommitKeeps
<1>2. ASSUME NEW i \in DOMAIN inst, EndSave(i) \/ SaveFails(i)
      PROVE  stored \subseteq stored' /\ \A e \in stored' \ stored : UserOf[e] \in members
  BY <1>2, StagedKeeps DEF EndSave, SaveFails
<1>3. CASE stored' = stored
  BY <1>3
<1>4. CASE Client
  BY <1>3, <1>4 DEF Client, Upgrade, SendEdit, Disconnect, Post, database
<1>5. ASSUME NEW i \in DOMAIN inst,
             Serve(i) \/ Retire(i) \/ LoseMutation(i) \/ SaveFails(i) \/ SaveRejected(i)
      PROVE  stored' = stored \/ CommitMutation(i) \/ EndSave(i) \/ SaveFails(i)
  BY <1>5 DEF Serve, Admit, Load, Attach, CheckAccess, Deny, ApplyEdit, Inspect, FinishMutation,
              BeginSave, TimerFires, Retire, LoseMutation, SaveRejected, database
<1>6. ASSUME NEW r \in Leaver, Lock(r) \/ Fence(r) PROVE stored' = stored
  BY <1>6 DEF Lock, Fence, RequestDrain, DrainTimesOut, Revoke, GiveUp, database
<1>7. CASE Shutdown \/ Restart \/ Crash \/ \E a \in Attempt : DrainFlush(a)
  BY <1>3, <1>7 DEF Shutdown, Restart, Crash, DrainFlush, database
<1>8. CASE UNCHANGED vars
  BY <1>3, <1>8 DEF vars, database
<1> QED BY <1>1, <1>2, <1>3, <1>4, <1>5, <1>6, <1>7, <1>8 DEF Next

\* Nobody whose access has been taken away is connected, or is served a mutation:
\* the fence lets nobody in while it drains, and what it drained is loaded again
\* only behind it.
THEOREM RevokedOut == Unmixed => (Spec => []RevokedStaysOut)
<1>1. Shape /\ Drained => RevokedStaysOut
  <2> SUFFICES ASSUME Shape, Drained, NEW i \in DOMAIN inst
               PROVE  /\ \A c \in inst[i].conns : UserOf[c] \in members
                      /\ \A pc \in {"free", "flushing", "flushed", "written"} :
                            At(i, {"apply"}, pc) => UserOf[Head1(i).who] \in members
    BY DEF RevokedStaysOut
  <2> QED BY DocumentFacts DEF Current, At, Head1, PastLoad
<1> QED BY <1>1, Invariant, PTL

\* An edit that a document took in is saved, or is still in a document that is
\* going to be saved, through drains, saves that are tried again, retirement and
\* shutdown; only a crash, or a save rejected for good, gives edits up.
THEOREM EditsReach == Unmixed => (Spec => []EditsReachStore)
<1>1. Shape /\ Drained => EditsReachStore
  <2> SUFFICES ASSUME Shape, Drained, NEW c \in accepted \ stored
               PROVE  \E i \in DOMAIN inst :
                         /\ c \in inst[i].content
                         /\ inst[i].unsaved
                         /\ \/ inst[i].timer
                            \/ inst[i].saves # <<>>
                            \/ \E a \in Attempt : drain[a].at = i /\ drain[a].pc = "waiting"
                            \/ drain[ForExit].pc = "failed"
    BY DEF EditsReachStore
  <2>1. PICK i \in Live : c \in inst[i].content
    BY DEF Drained, AcceptedKept
  <2>2. i \in DOMAIN inst /\ inst[i].live /\ c \in Conn
    BY DEF Live, Shape, Types
  <2>3. Sound(inst[i]) /\ Current(inst[i], stored, members, recorded, accepted) /\ Queued(i)
    BY <2>2, DocumentFacts DEF Drained
  <2>4. inst[i].unsaved
    BY <2>1, <2>2, <2>3 DEF Current
  <2>5. CASE ~inst[i].draining
    BY <2>1, <2>2, <2>3, <2>4, <2>5 DEF Sound
  <2>6. CASE inst[i].draining
    <3>1. drain[ForExit].pc = "failed" \/ \E a \in Attempt : InFlight(a) /\ drain[a].at = i
      BY <2>2, <2>3, <2>4, <2>6 DEF Queued, Held
    <3>2. ASSUME NEW a \in Attempt, drain[a].pc = "saving", drain[a].at = i
          PROVE  inst[i].saves # <<>>
      BY <3>2 DEF Drained, Booked, Holds
    <3> QED BY <2>1, <2>2, <2>4, <3>1, <3>2 DEF InFlight
  <2> QED BY <2>5, <2>6
<1> QED BY <1>1, Invariant, PTL

\* A mutation is committed once, however often it is sent, and what its sender
\* is told to be done is saved: the record of a mutation and its effect are one
\* transaction, and no later save forgets the effect.
THEOREM OneCommit == Unmixed => (Spec => []MutationOnce)
<1>1. Shape /\ Drained => MutationOnce
  BY DEF Drained, RecordedOnce, MutationOnce
<1> QED BY <1>1, Invariant, PTL

\* Nothing of a user is saved once the user's access has been taken away.
THEOREM RevokedNeverWrites == Unmixed => (Spec => RevokedWritesNothing)
<1>1. Shape /\ Drained /\ [Next]_vars => [\A e \in stored' \ stored : UserOf[e] \in members]_vars
  BY StoredGrows
<1> QED BY <1>1, Invariant, PTL DEF Spec, RevokedWritesNothing

\* No copy that is out of date overwrites what was saved, where nothing times out
\* or no save is tried again.
THEOREM SavedKept == Unmixed => (Spec => SavedEditsKept)
<1>1. Shape /\ Drained /\ [Next]_vars => [stored \subseteq stored']_vars
  BY StoredGrows
<1> QED BY <1>1, Invariant, PTL DEF Spec, SavedEditsKept

\* Whatever fails or times out, no mutation is committed twice.
THEOREM CommittedOnce == Spec => [](\A m \in Mutation : applied[m] <= 1)
<1> DEFINE Counted == \A m \in Mutation : applied[m] = (IF m \in recorded THEN 1 ELSE 0)
<1>1. Init => Shape /\ Counted
  BY ShapeInit DEF Init
<1>2. Shape /\ Counted /\ [Next]_vars => (Shape /\ Counted)'
  <2> SUFFICES ASSUME Shape, Counted, [Next]_vars PROVE Counted'
    BY ShapeNext
  <2>1. CASE UNCHANGED <<recorded, applied>>
    BY <2>1
  <2>2. ASSUME NEW i \in DOMAIN inst, CommitMutation(i) PROVE Counted'
    <3> DEFINE m == Head1(i).who
    <3>1. applied \in [Mutation -> Nat]
      BY DEF Shape, Types
    <3>2. \/ UNCHANGED <<recorded, applied>>
          \/ /\ m \notin recorded /\ recorded' = recorded \cup {m}
             /\ applied' = [applied EXCEPT ![m] = @ + 1]
      BY <2>2 DEF CommitMutation
    <3> HIDE DEF m
    <3> QED BY <3>1, <3>2
  <2>3. CASE Client
    BY <2>1, <2>3 DEF Client, Upgrade, SendEdit, Disconnect, Post, database, history
  <2>4. ASSUME NEW i \in DOMAIN inst,
               Serve(i) \/ Retire(i) \/ LoseMutation(i) \/ SaveFails(i) \/ SaveRejected(i)
        PROVE  UNCHANGED <<recorded, applied>> \/ CommitMutation(i)
    BY <2>4 DEF Serve, Admit, Load, Attach, CheckAccess, Deny, ApplyEdit, Inspect, FinishMutation,
                BeginSave, EndSave, SaveFails, SaveRejected, TimerFires, Retire, LoseMutation, database, history
  <2>5. ASSUME NEW r \in Leaver, Lock(r) \/ Fence(r) PROVE UNCHANGED <<recorded, applied>>
    BY <2>5 DEF Lock, Fence, RequestDrain, DrainTimesOut, Revoke, GiveUp, database, history
  <2>6. CASE Shutdown \/ Restart \/ Crash \/ \E a \in Attempt : DrainFlush(a)
    BY <2>1, <2>6 DEF Shutdown, Restart, Crash, DrainFlush, database, history
  <2>7. CASE UNCHANGED vars
    BY <2>1, <2>7 DEF vars, database, history
  <2> HIDE DEF Counted
  <2> QED BY <2>1, <2>2, <2>3, <2>4, <2>5, <2>6, <2>7 DEF Next
<1>3. Counted => \A m \in Mutation : applied[m] <= 1
  OBVIOUS
<1> QED BY <1>1, <1>2, <1>3, PTL DEF Spec

=============================================================================
