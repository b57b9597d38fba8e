--------------------------- MODULE RealtimeDocument ---------------------------
(***************************************************************************)
(* One live document of the realtime server: socket-server/yjs/            *)
(* upstream-utils.ts and ws-handler.ts, the fences of lib/yjs/server/      *)
(* revocation-fence.ts and the replay of mutations of                      *)
(* mutation-idempotency.ts.  Users edit the document over sockets;         *)
(* services change it with mutations over HTTP, which they repeat under    *)
(* one id until they are answered; an administrator takes a user's access  *)
(* away behind a fence that drains the document first; the server is shut  *)
(* down, or crashes.                                                       *)
(*                                                                         *)
(* The content is the set of edits and mutations it holds, in the store    *)
(* and in memory.  An action is what the event loop runs between two       *)
(* awaits, or one transaction of the database.                             *)
(***************************************************************************)
EXTENDS Naturals, FiniteSets, Sequences

CONSTANTS
    Conn,           \* socket connections: each one connects and edits once
    Mutation,       \* ids of mutations sent over HTTP
    User,
    UserOf,         \* the user behind a connection or a mutation
    Leaver,         \* users whose access is taken away
    DrainAttempts,  \* DRAIN_ATTEMPTS
    MaxPosts,       \* bounds the requests sent for one mutation
    Budgets,        \* how often each fault may happen in a run
    None

Faults == {"saveFails", "saveRejected", "commitFails", "crash", "fenceTimeout", "shutdown", "drainTimeout"}

ASSUME ConstantsAssumption ==
    /\ UserOf \in [Conn \cup Mutation -> User]
    /\ Leaver \subseteq User
    /\ Conn \cap Mutation = {}
    /\ DrainAttempts \in Nat \ {0} /\ MaxPosts \in Nat
    /\ Budgets \subseteq [Faults -> Nat]
    /\ None # "ok" /\ \A s \in SUBSET (Conn \cup Mutation) : s # None

VARIABLES
    stored,     \* the row of the document, as saved last
    members,    \* users with access
    recorded,   \* mutation ids with their result, in the database
    fence,      \* the transaction that takes a user's access away
    tries,      \* drain requests its process has sent
    drain,      \* what became of each drain request, and of the one at shutdown
    inst,       \* the documents made for the session, the last one in docs
    opened,     \* connections whose socket has been upgraded
    gone,       \* connections whose socket was closed before they were admitted
    sent,       \* connections that have sent their edit
    posts,      \* requests sent for a mutation
    answer,     \* what the sender of a mutation has been told
    budget,     \* faults that may still happen
    accepted,   \* edits a live document has taken in: history, read by no action
    applied     \* how often a mutation was committed: history, read by no action

database == <<stored, members, recorded>>
fences == <<fence, tries, drain>>
clients == <<opened, gone, sent, posts>>
history == <<accepted, applied>>
vars == <<database, fences, inst, clients, answer, budget, history>>

ForExit == <<"exit">>     \* drainAllDocuments
Attempt == (Leaver \X (1 .. DrainAttempts)) \cup {ForExit}

May(f) == budget[f] > 0
Spend(f) == budget' = [budget EXCEPT ![f] = @ - 1]

-----------------------------------------------------------------------------
(* A document in memory: WSSharedDoc *)

\* live: it is the one in docs; timer: persistTimer; rest: whether retainUntil
\* is set and its timer runs; jobs: mutationQueue; saves: persistenceQueue, each
\* with who waits for it; staged: the copy that is being written.
NewDocument ==
    [live |-> TRUE, seeded |-> FALSE, content |-> {}, unsaved |-> FALSE,
     draining |-> FALSE, conns |-> {}, timer |-> FALSE, rest |-> "none",
     jobs |-> <<>>, saves |-> <<>>, staged |-> None]

ForNobody == <<"nobody">>
ForJob == <<"job">>

Job(kind, who) == [kind |-> kind, who |-> who, pc |-> "queued"]
Head1(i) == Head(inst[i].jobs)
At(i, kinds, pc) ==
    inst[i].jobs # <<>> /\ Head1(i).kind \in kinds /\ Head1(i).pc = pc

Live == {i \in DOMAIN inst : inst[i].live}

\* assertLocalDocumentAdmission
Admitting == drain[ForExit].pc = "none" /\ \A i \in Live : ~inst[i].draining

Cleanup(d) == [d EXCEPT !.live = FALSE, !.timer = FALSE, !.rest = "none"]

FlushKeepsTimer(d, who) == [d EXCEPT !.saves = Append(@, who)]   \* Mutant: the timer is not cleared.

\* enqueueDocumentPersistence, flushDocumentPersistence
Flush(d, who) == [d EXCEPT !.timer = FALSE, !.saves = Append(@, who)]

\* schedulePersistenceRetry
Retry(d) == [d EXCEPT !.timer = @ \/ d.saves = <<>>]

\* isDocumentIdle; the queues are empty where it is asked.
Idle(d) == ~d.unsaved /\ ~d.timer

\* releaseDocument
Release(d) ==
    IF ~d.live \/ d.conns # {} \/ d.jobs # <<>> \/ d.saves # <<>> THEN d
    ELSE IF d.draining THEN (IF Idle(d) THEN Cleanup(d) ELSE d)
    ELSE IF d.unsaved THEN Flush(d, ForNobody)
    ELSE IF d.rest = "none" THEN Cleanup(d)
    ELSE [d EXCEPT !.rest = "armed"]

\* closeConn
Close(d, cs) ==
    IF d.conns \cap cs = {} THEN d
    ELSE IF d.conns \subseteq cs THEN Release([d EXCEPT !.conns = {}, !.rest = "kept"])
    ELSE [d EXCEPT !.conns = @ \ cs]

\* runDocumentMutation, once the job has settled.
EndJob(d) == Release([d EXCEPT !.jobs = Tail(@)])

Goto(d, pc) == [d EXCEPT !.jobs[1].pc = pc]

\* What a drain that waits for the queue of document i sees when a job ends.
OneLess(i) ==
    [a \in Attempt |-> IF drain[a].pc = "waiting" /\ drain[a].at = i
                       THEN [drain[a] EXCEPT !.ahead = IF @ = 0 THEN 0 ELSE @ - 1]
                       ELSE drain[a]]

Ends(i, d) ==
    /\ inst' = [inst EXCEPT ![i] = EndJob(d)]
    /\ drain' = OneLess(i)

Goes(i, d) ==
    /\ inst' = [inst EXCEPT ![i] = d]
    /\ UNCHANGED drain

-----------------------------------------------------------------------------
(* Clients *)

Quiet(i) ==
    /\ ~inst[i].live /\ inst[i].jobs = <<>> /\ inst[i].saves = <<>> /\ ~inst[i].timer
    /\ \A a \in Attempt : drain[a].at = i => drain[a].pc \notin {"waiting", "saving"}

\* acquireDocument: documents nobody refers to any more are forgotten.
Acquire(job) ==
    IF Live # {}
    THEN \E i \in Live : inst' = [inst EXCEPT ![i].jobs = Append(@, job)]
    ELSE LET doc == [NewDocument EXCEPT !.jobs = <<job>>]
         IN  inst' = IF \A i \in DOMAIN inst : Quiet(i) THEN <<doc>> ELSE Append(inst, doc)

\* handleYjsUpgrade; a refused upgrade is closed at once.
Upgrade(c) ==
    /\ c \notin opened
    /\ opened' = opened \cup {c}
    /\ IF Admitting THEN Acquire(Job("attach", c)) /\ UNCHANGED gone
       ELSE gone' = gone \cup {c} /\ UNCHANGED inst
    /\ UNCHANGED <<database, fences, sent, posts, answer, budget, history>>

\* handleMessage: the edit is queued, or its connection closed.
SendEdit(c) ==
    /\ c \notin sent
    /\ sent' = sent \cup {c}
    /\ \E i \in DOMAIN inst :
          LET d == inst[i]
          IN  /\ c \in d.conns
              /\ inst' = [inst EXCEPT ![i] =
                    IF d.live /\ ~d.draining THEN [d EXCEPT !.jobs = Append(@, Job("edit", c))]
                    ELSE Close(d, {c})]
    /\ UNCHANGED <<database, fences, opened, gone, posts, answer, budget, history>>

Disconnect(c) ==
    /\ c \in opened \ gone
    /\ gone' = gone \cup {c}
    /\ inst' = [i \in DOMAIN inst |-> Close(inst[i], {c})]
    /\ UNCHANGED <<database, fences, opened, sent, posts, answer, budget, history>>

\* applySavedEntityState: the request is repeated until it is answered, also
\* while an earlier one is still being served.
Post(m) ==
    /\ answer[m] = None
    /\ posts[m] < MaxPosts
    /\ posts' = [posts EXCEPT ![m] = @ + 1]
    /\ IF Admitting THEN Acquire(Job("apply", m)) ELSE UNCHANGED inst
    /\ UNCHANGED <<database, fences, opened, gone, sent, answer, budget, history>>

-----------------------------------------------------------------------------
(* Admission: withYjsAdmissionTransaction *)

Shared == {i \in DOMAIN inst : At(i, {"attach", "apply"}, "admitted")}
Exclusive == {r \in Leaver : fence[r] \in {"locked", "draining"}}

Admission == {"attach", "apply"}

\* The shared lock is tried, never waited for.
Admit(i) ==
    /\ At(i, Admission, "queued")
    /\ IF Admitting /\ Exclusive = {} THEN Goes(i, Goto(inst[i], "admitted")) ELSE Ends(i, inst[i])
    /\ UNCHANGED <<database, fence, tries, clients, answer, budget, history>>

\* Access is checked and the content read under the lock; the commit releases it.
Load(i) ==
    LET doc == IF inst[i].seeded THEN inst[i]
               ELSE [inst[i] EXCEPT !.seeded = TRUE, !.content = stored, !.unsaved = FALSE]
    IN  /\ At(i, Admission, "admitted")
        /\ IF UserOf[Head1(i).who] \in members THEN Goes(i, Goto(doc, "free")) ELSE Ends(i, inst[i])
        /\ UNCHANGED <<database, fence, tries, clients, answer, budget, history>>

\* Mutant: setupWSConnection does not ask whether the document is draining.
AttachToDraining(i) ==
    LET c == Head1(i).who
        admitted == inst[i].live /\ c \notin gone
    IN  /\ At(i, {"attach"}, "free")
        /\ Ends(i, IF admitted THEN [inst[i] EXCEPT !.conns = @ \cup {c}, !.rest = "none"] ELSE inst[i])
        /\ UNCHANGED <<database, fence, tries, clients, answer, budget, history>>

\* setupWSConnection
Attach(i) ==
    LET c == Head1(i).who
        admitted == inst[i].live /\ ~inst[i].draining /\ c \notin gone
    IN  /\ At(i, {"attach"}, "free")
        /\ Ends(i, IF admitted THEN [inst[i] EXCEPT !.conns = @ \cup {c}, !.rest = "none"] ELSE inst[i])
        /\ UNCHANGED <<database, fence, tries, clients, answer, budget, history>>

-----------------------------------------------------------------------------
(* Edits *)

\* reconcileConnection reads the access of the user before each edit.  The edit
\* is denied too if the read fails, or if the document it makes is not valid.
CheckAccess(i) ==
    LET c == Head1(i).who
    IN  /\ At(i, {"edit"}, "queued")
        /\ IF c \notin inst[i].conns THEN Ends(i, inst[i])
           ELSE \E pc \in {"allowed", "denied"} :
                   /\ pc = "allowed" => UserOf[c] \in members
                   /\ Goes(i, Goto(inst[i], pc))
        /\ UNCHANGED <<database, fence, tries, clients, answer, budget, history>>

Deny(i) ==
    /\ At(i, {"edit"}, "denied")
    /\ Ends(i, Close(inst[i], {Head1(i).who}))
    /\ UNCHANGED <<database, fence, tries, clients, answer, budget, history>>

\* applySyncMessage, if the connection is still there; then the update handler.
ApplyEdit(i) ==
    LET c == Head1(i).who
        doc == [inst[i] EXCEPT !.content = @ \cup {c}, !.unsaved = TRUE, !.timer = (inst[i].saves = <<>>)]
    IN  /\ At(i, {"edit"}, "allowed")
        /\ IF c \in inst[i].conns
           THEN Ends(i, doc) /\ accepted' = accepted \cup {c}
           ELSE Ends(i, inst[i]) /\ UNCHANGED accepted
        /\ UNCHANGED <<database, fence, tries, clients, answer, budget, applied>>

-----------------------------------------------------------------------------
(* Mutations over HTTP: persistStagedDocuments in one job of the document *)

\* Mutant: the saves in progress are not waited for.
InspectUnflushed(i) ==
    LET m == Head1(i).who
    IN  /\ At(i, {"apply"}, "free")
        /\ IF m \in recorded
           THEN Ends(i, inst[i]) /\ answer' = [answer EXCEPT ![m] = "ok"]
           ELSE Goes(i, Goto(inst[i], "flushed")) /\ UNCHANGED answer
        /\ UNCHANGED <<database, fence, tries, clients, budget, history>>

\* inspectRealtimeMutation: a recorded result is replayed.
Inspect(i) ==
    LET m == Head1(i).who
    IN  /\ At(i, {"apply"}, "free")
        /\ IF m \in recorded
           THEN Ends(i, inst[i]) /\ answer' = [answer EXCEPT ![m] = "ok"]
           ELSE Goes(i, Flush(Goto(inst[i], "flushing"), ForJob)) /\ UNCHANGED answer
        /\ UNCHANGED <<database, fence, tries, clients, budget, history>>

\* Mutant: the id is not claimed in the transaction.
CommitUnrecorded(i) ==
    LET m == Head1(i).who
    IN  /\ At(i, {"apply"}, "flushed")
        /\ stored' = inst[i].content \cup {m}
        /\ applied' = [applied EXCEPT ![m] = @ + 1]
        /\ Goes(i, Goto(inst[i], "written"))
        /\ UNCHANGED <<members, recorded, fence, tries, clients, answer, budget, accepted>>

\* One transaction claims the id, writes the row and records the result.
CommitMutation(i) ==
    LET m == Head1(i).who
    IN  /\ At(i, {"apply"}, "flushed")
        /\ IF m \in recorded
           THEN Ends(i, inst[i]) /\ UNCHANGED <<stored, recorded, applied>>
           ELSE /\ stored' = inst[i].content \cup {m}
                /\ recorded' = recorded \cup {m}
                /\ applied' = [applied EXCEPT ![m] = @ + 1]
                /\ Goes(i, Goto(inst[i], "written"))
        /\ UNCHANGED <<members, fence, tries, clients, answer, budget, accepted>>

LoseMutation(i) ==
    /\ At(i, {"apply"}, "flushed")
    /\ May("commitFails") /\ Spend("commitFails")
    /\ Ends(i, inst[i])
    /\ UNCHANGED <<database, fence, tries, clients, answer, history>>

FinishMutation(i) ==
    LET m == Head1(i).who
    IN  /\ At(i, {"apply"}, "written")
        /\ Ends(i, [inst[i] EXCEPT !.content = @ \cup {m}])
        /\ answer' = [answer EXCEPT ![m] = "ok"]
        /\ UNCHANGED <<database, fence, tries, clients, budget, history>>

-----------------------------------------------------------------------------
(* Saves *)

\* The end of a save: its finally, then whoever waits for it goes on.  A save has
\* failed, or was refused for good; a shutdown goes on after one that was refused.
Settled(i, saved, how) ==
    LET who == Head(saved.saves)
        end == IF who = ForExit /\ how = "refused" THEN "ok" ELSE how
        rest == [saved EXCEPT !.saves = Tail(@), !.staged = None]
        again == IF rest.draining \/ ~rest.unsaved THEN Release(rest) ELSE Retry(rest)
        flushed == IF ~again.live THEN again
                   ELSE IF end = "ok" THEN Cleanup(IF who = ForExit THEN Close(again, again.conns) ELSE again)
                   ELSE IF who # ForExit /\ again.unsaved THEN Retry([again EXCEPT !.draining = FALSE])
                   ELSE again
    IN  CASE who = ForNobody -> Goes(i, again)
          [] who = ForJob    -> IF how = "ok" THEN Goes(i, Goto(again, "flushed")) ELSE Ends(i, again)
          [] OTHER           -> /\ inst' = [inst EXCEPT ![i] = flushed]
                                /\ drain' = [drain EXCEPT ![who].pc = end]

TimerFires(i) ==
    /\ inst[i].timer
    /\ Goes(i, Flush(inst[i], ForNobody))
    /\ UNCHANGED <<database, fence, tries, clients, answer, budget, history>>

\* enqueueDocumentPersistence: the content is copied, then written.
BeginSave(i) ==
    /\ inst[i].saves # <<>>
    /\ inst[i].staged = None
    /\ IF inst[i].unsaved THEN Goes(i, [inst[i] EXCEPT !.staged = inst[i].content])
       ELSE Settled(i, inst[i], "ok")
    /\ UNCHANGED <<database, fence, tries, clients, answer, budget, history>>

\* Mutant: a save that succeeds leaves nothing unsaved.
EndSaveClean(i) ==
    /\ inst[i].staged # None
    /\ stored' = inst[i].staged
    /\ Settled(i, [inst[i] EXCEPT !.unsaved = FALSE], "ok")
    /\ UNCHANGED <<members, recorded, fence, tries, clients, answer, budget, history>>

\* Edits that came in while the copy was written are still unsaved.
EndSave(i) ==
    /\ inst[i].staged # None
    /\ stored' = inst[i].staged
    /\ Settled(i, [inst[i] EXCEPT !.unsaved = (inst[i].content \cap Conn) \ inst[i].staged # {}], "ok")
    /\ UNCHANGED <<members, recorded, fence, tries, clients, answer, budget, history>>

\* The row may have been written all the same; the save is tried again.
SaveFails(i) ==
    /\ inst[i].staged # None
    /\ May("saveFails") /\ Spend("saveFails")
    /\ stored' \in {stored, inst[i].staged}
    /\ Settled(i, inst[i], "failed")
    /\ UNCHANGED <<members, recorded, fence, tries, clients, answer, history>>

\* A save that is not retryable: the document is not valid, or its row is gone.
\* It gives up its edits, closes its connections and admits nobody again.
SaveRejected(i) ==
    LET doc == [inst[i] EXCEPT !.unsaved = FALSE, !.draining = TRUE]
    IN  /\ inst[i].staged # None
        /\ May("saveRejected") /\ Spend("saveRejected")
        /\ Settled(i, Close(doc, doc.conns), "refused")
        /\ accepted' = accepted \ (inst[i].content \ stored)
        /\ UNCHANGED <<database, fence, tries, clients, answer, applied>>

\* The retention timer of a document without connections.
Retire(i) ==
    /\ inst[i].rest = "armed"
    /\ Goes(i, Release([inst[i] EXCEPT !.rest = "none"]))
    /\ UNCHANGED <<database, fence, tries, clients, answer, budget, history>>

-----------------------------------------------------------------------------
(* Drains *)

\* Mutant: the jobs in the queue are not waited for.
StartDrainImpatient(a, closing) ==
    IF Live = {} THEN drain' = [drain EXCEPT ![a].pc = "ok"] /\ UNCHANGED inst
    ELSE \E i \in Live :
            LET doc == [inst[i] EXCEPT !.draining = TRUE]
            IN  /\ inst' = [inst EXCEPT ![i] = IF closing THEN Close(doc, doc.conns) ELSE doc]
                /\ drain' = [drain EXCEPT ![a] = [pc |-> "waiting", at |-> i, ahead |-> 0]]

\* discardDocument, drainAllDocuments: no more jobs; those in the queue go on.
StartDrain(a, closing) ==
    IF Live = {} THEN drain' = [drain EXCEPT ![a].pc = "ok"] /\ UNCHANGED inst
    ELSE \E i \in Live :
            LET doc == [inst[i] EXCEPT !.draining = TRUE]
            IN  /\ inst' = [inst EXCEPT ![i] = IF closing THEN Close(doc, doc.conns) ELSE doc]
                /\ drain' = [drain EXCEPT ![a] =
                      [pc |-> "waiting", at |-> i, ahead |-> Len(inst[i].jobs)]]

JobsSettled(a) == drain[a].pc = "waiting" /\ drain[a].ahead = 0

\* The jobs that were queued have settled; the first to wait goes on first.
DrainFlush(a) ==
    LET i == drain[a].at
    IN  /\ JobsSettled(a)
        /\ a # ForExit => \A k \in 1 .. a[2] - 1 : ~JobsSettled(<<a[1], k>>)
        /\ IF a = ForExit /\ ~inst[i].live
           THEN drain' = [drain EXCEPT ![a].pc = "ok"] /\ UNCHANGED inst
           ELSE /\ inst' = [inst EXCEPT ![i] = Flush(@, a)]
                /\ drain' = [drain EXCEPT ![a].pc = "saving"]
        /\ UNCHANGED <<database, fence, tries, clients, answer, budget, history>>

\* A failed shutdown is tried again.
Shutdown ==
    /\ \/ drain[ForExit].pc = "failed" /\ UNCHANGED budget
       \/ drain[ForExit].pc = "none" /\ May("shutdown") /\ Spend("shutdown")
    /\ StartDrain(ForExit, FALSE)
    /\ UNCHANGED <<database, fence, tries, clients, answer, history>>

\* The process ends, and with it every socket and every request it serves.
NewServer ==
    /\ inst' = <<>>
    /\ drain' = [a \in Attempt |->
          IF a = ForExit THEN [drain[a] EXCEPT !.pc = "none", !.at = 0]
          ELSE IF drain[a].pc \in {"waiting", "saving"} THEN [drain[a] EXCEPT !.pc = "failed", !.at = 0]
          ELSE [drain[a] EXCEPT !.at = 0]]
    /\ gone' = gone \cup opened

Restart ==
    /\ drain[ForExit].pc = "ok"
    /\ NewServer
    /\ UNCHANGED <<database, fence, tries, opened, sent, posts, answer, budget, history>>

Crash ==
    /\ May("crash") /\ Spend("crash")
    /\ NewServer
    /\ accepted' = accepted \cap stored
    /\ UNCHANGED <<database, fence, tries, opened, sent, posts, answer, applied>>

-----------------------------------------------------------------------------
(* Revocation: runYjsRevocationTransaction, in the process of the API *)

Turn(r, pc) == fence' = [fence EXCEPT ![r] = pc]

\* pg_advisory_xact_lock waits for admissions in progress.
Lock(r) ==
    /\ fence[r] = "idle"
    /\ Shared = {}
    /\ Exclusive = {}
    /\ Turn(r, "locked")
    /\ UNCHANGED <<database, tries, drain, inst, clients, answer, budget, history>>

\* The drain request of this attempt, once the one before has failed.
RequestDrain(r) ==
    /\ \/ fence[r] = "locked"
       \/ fence[r] = "draining" /\ drain[<<r, tries[r]>>].pc = "failed" /\ tries[r] < DrainAttempts
    /\ Turn(r, "draining")
    /\ tries' = [tries EXCEPT ![r] = @ + 1]
    /\ StartDrain(<<r, tries[r] + 1>>, TRUE)
    /\ UNCHANGED <<database, clients, answer, budget, history>>

\* The answer to an earlier request is no longer waited for.
DrainTimesOut(r) ==
    /\ fence[r] = "draining"
    /\ drain[<<r, tries[r]>>].pc \in {"waiting", "saving"}
    /\ tries[r] < DrainAttempts
    /\ May("drainTimeout") /\ Spend("drainTimeout")
    /\ tries' = [tries EXCEPT ![r] = @ + 1]
    /\ StartDrain(<<r, tries[r] + 1>>, TRUE)
    /\ UNCHANGED <<database, fence, clients, answer, history>>

Revoke(r) ==
    /\ fence[r] = "draining"
    /\ drain[<<r, tries[r]>>].pc = "ok"
    /\ members' = members \ {r}
    /\ Turn(r, "done")
    /\ UNCHANGED <<stored, recorded, tries, drain, inst, clients, answer, budget, history>>

\* The last drain failed, one was refused, which is not repeated, or the
\* transaction took too long.
GiveUp(r) ==
    /\ \/ /\ fence[r] = "draining"
          /\ \/ drain[<<r, tries[r]>>].pc = "refused"
             \/ drain[<<r, tries[r]>>].pc = "failed" /\ tries[r] = DrainAttempts
          /\ UNCHANGED budget
       \/ /\ fence[r] \in {"locked", "draining"}
          /\ May("fenceTimeout") /\ Spend("fenceTimeout")
    /\ Turn(r, "aborted")
    /\ UNCHANGED <<database, tries, drain, inst, clients, answer, history>>

-----------------------------------------------------------------------------

Init ==
    /\ stored = {} /\ members = User /\ recorded = {}
    /\ fence = [r \in Leaver |-> "idle"]
    /\ tries = [r \in Leaver |-> 0]
    /\ drain = [a \in Attempt |-> [pc |-> "none", at |-> 0, ahead |-> 0]]
    /\ inst = <<>>
    /\ opened = {} /\ gone = {} /\ sent = {}
    /\ posts = [m \in Mutation |-> 0]
    /\ answer = [m \in Mutation |-> None]
    /\ budget \in Budgets
    /\ accepted = {}
    /\ applied = [m \in Mutation |-> 0]

\* What the event loop and the database do with document i, without faults.
Serve(i) ==
    \/ Admit(i) \/ Load(i) \/ Attach(i)
    \/ CheckAccess(i) \/ Deny(i) \/ ApplyEdit(i)
    \/ Inspect(i) \/ CommitMutation(i) \/ FinishMutation(i)
    \/ BeginSave(i) \/ EndSave(i) \/ TimerFires(i)

Client ==
    \/ \E c \in Conn : Upgrade(c) \/ SendEdit(c) \/ Disconnect(c)
    \/ \E m \in Mutation : Post(m)

Fence(r) == RequestDrain(r) \/ DrainTimesOut(r) \/ Revoke(r) \/ GiveUp(r)

\* A drain whose jobs have settled goes on before the event loop does.
Settling == \E a \in Attempt : JobsSettled(a)

Next ==
    \/ \E a \in Attempt : DrainFlush(a)
    \/ /\ ~Settling
       /\ \/ Client
          \/ \E i \in DOMAIN inst : Serve(i) \/ Retire(i) \/ LoseMutation(i) \/ SaveFails(i) \/ SaveRejected(i)
          \/ \E r \in Leaver : Lock(r) \/ Fence(r)
          \/ Shutdown \/ Restart \/ Crash

Spec == Init /\ [][Next]_vars

-----------------------------------------------------------------------------
(* What the document promises *)

TypeOK ==
    /\ stored \subseteq Conn \cup Mutation
    /\ members \subseteq User
    /\ recorded \subseteq Mutation
    /\ fence \in [Leaver -> {"idle", "locked", "draining", "done", "aborted"}]
    /\ \A r \in Leaver : tries[r] \in 0 .. DrainAttempts
    /\ \A a \in Attempt : drain[a].pc \in {"none", "waiting", "saving", "ok", "failed", "refused"}
    /\ \A i \in DOMAIN inst :
          /\ inst[i].content \subseteq Conn \cup Mutation
          /\ inst[i].conns \subseteq opened
          /\ inst[i].timer => inst[i].saves = <<>>
          /\ inst[i].staged # None => inst[i].unsaved
    /\ Cardinality(Live) <= 1

\* Nobody whose access has been taken away is connected, or is served a mutation.
RevokedStaysOut ==
    \A i \in DOMAIN inst :
        /\ \A c \in inst[i].conns : UserOf[c] \in members
        /\ \A pc \in {"free", "flushing", "flushed", "written"} :
              At(i, {"apply"}, pc) => UserOf[Head1(i).who] \in members

\* Nor is anything of theirs saved afterwards: what was accepted before the
\* revocation was saved before it.
RevokedWritesNothing ==
    [][\A e \in stored' \ stored : UserOf[e] \in members]_vars

\* No copy that is out of date overwrites what was saved.  A drain or a fence that
\* times out beside a save that fails, for which see EditsReachStore, and a commit
\* that was applied but reported as failed, can bring one about.
SavedEditsKept == [][stored \subseteq stored']_vars

\* An edit that a document took in is saved, or is still in a document that is
\* going to be saved, through drains, retirement, shutdown and saves that are
\* tried again.  Two things may lose it: a crash, and a save that is rejected for
\* good, after which the document is closed.  A drain or a fence that times out
\* beside a save that fails can lose it too; no run is asked for both.
EditsReachStore ==
    \A c \in accepted \ stored :
        \E i \in DOMAIN inst :
            /\ c \in inst[i].content
            /\ inst[i].unsaved
            /\ \/ inst[i].timer
               \/ inst[i].saves # <<>>
               \/ \E a \in Attempt : drain[a].at = i /\ drain[a].pc = "waiting"
               \/ drain[ForExit].pc = "failed"

\* A mutation is committed once, however often it is sent, and what its sender
\* is told to be done is saved.
MutationOnce ==
    \A m \in Mutation :
        /\ applied[m] <= 1
        /\ answer[m] = "ok" => m \in stored

=============================================================================
