--------------------------- MODULE SessionLifecycle ---------------------------
(***************************************************************************)
(* The native session of a project folder, from the renderer's side        *)
(* (ProjectSessionSync).  Each mount of the folder's lifecycle starts a    *)
(* native session once the cleanup of the mount before has ended, and its  *)
(* own cleanup drops the folder's queue, waits for the delta that is being *)
(* processed and stops the session.  Deltas that are notified are recorded *)
(* with the refactor runtime, queued, merged or reviewed, and resolved     *)
(* with the main process.                                                  *)
(*                                                                         *)
(* Calls to the main process, and its answers and notifications, arrive in *)
(* the order they were sent.  The queue of deltas is the channel of        *)
(* DeltaChannel, which DeltaQueue implements.  A delta is a number; a      *)
(* session is the number of its instance, 0 for none.                      *)
(***************************************************************************)
EXTENDS Naturals, SequencesExt

CONSTANTS
    Nothing,
    MaxMounts,    \* bound on the mounts of the folder's lifecycle
    MaxSessions,  \* bound on the native sessions
    MaxDeltas,    \* bound on the external changes
    MaxAnswers,   \* bound on the answers to reviews
    MaxFailures   \* bound on the calls that fail

ASSUME LifecycleConstants ==
    /\ MaxMounts \in Nat /\ MaxSessions \in Nat /\ MaxDeltas \in Nat
    /\ MaxAnswers \in Nat /\ MaxFailures \in Nat
    /\ Nothing \notin Nat

Mount == 1 .. MaxMounts
Session == 0 .. MaxSessions
Deltas == 1 .. MaxDeltas

VARIABLES
    \* the main process
    native,     \* the session: its instance, its baseline, its listener
    pending,    \* its candidate, or Nothing
    deferred,   \* whether the user put the candidate off
    resolved,   \* how each delta was resolved, or Nothing
    opening,    \* the calls of startProjectSession in progress
    sessions,   \* how many sessions there were
    owner,      \* the session that found each delta, 0 for none
    \* between the processes
    calls,      \* to the main process, oldest first
    wire,       \* to the renderer, oldest first
    \* the renderer
    current,    \* the mount that is not cleaned up, 0 for none
    mounts,     \* how many there were
    task,       \* what startTask of each mount does
    cleanup,    \* what the cleanup of each mount waits for
    active,     \* activeSessionInstances, 0 for none
    starting,   \* whether startingSessionRoots has the folder
    buffered,   \* bufferedSessionDeltas
    records,    \* what waits for recordExternalSession, oldest first
    chan, busy, held,  \* the queue
    step,       \* what process() does with the busy delta
    reviews,    \* pendingReviews
    answer,     \* the answer in progress, or Nothing
    answers, failures,
    \* history
    merged,     \* the deltas the document has
    late,       \* the deltas queued after their session was closed
    unmarked,   \* the mounts whose start an older one no longer let be seen
    stray       \* whether an answer outlived the session it was of

main == <<native, pending, deferred, resolved, opening, sessions, owner>>
lifecycle == <<current, mounts, task, cleanup, active, starting, buffered>>
queue == <<chan, busy, held, step>>
review == <<reviews, answer, answers>>
history == <<merged, late, unmarked, stray>>
allVars == <<main, calls, wire, lifecycle, records, queue, review, failures, history>>

NoSession == [inst |-> 0, ready |-> FALSE, heard |-> FALSE]

LifecycleInit ==
    /\ native = NoSession /\ pending = Nothing /\ deferred = FALSE
    /\ resolved = [d \in Deltas |-> Nothing] /\ opening = {} /\ sessions = 0
    /\ owner = [d \in Deltas |-> 0]
    /\ calls = <<>> /\ wire = <<>>
    /\ current = 0 /\ mounts = 0
    /\ task = [e \in Mount |-> "none"] /\ cleanup = [e \in Mount |-> "none"]
    /\ active = 0 /\ starting = FALSE /\ buffered = <<>> /\ records = <<>>
    /\ chan = <<>> /\ busy = Nothing /\ held = FALSE /\ step = "none"
    /\ reviews = {} /\ answer = Nothing /\ answers = 0 /\ failures = 0
    /\ merged = {} /\ late = {} /\ unmarked = {} /\ stray = FALSE

Call(c) == calls' = Append(calls, c)
Received == wire # <<>> /\ wire' = Tail(wire)
Fail == failures < MaxFailures /\ failures' = failures + 1

(***************************************************************************)
(* The main process.                                                       *)
(***************************************************************************)
Dropped == native' = NoSession /\ pending' = Nothing /\ deferred' = FALSE

\* The hydration of a project opens a session that nobody listens to.
Hydrate ==
    /\ native.inst = 0 /\ sessions < MaxSessions
    /\ sessions' = sessions + 1
    /\ native' = [inst |-> sessions + 1, ready |-> TRUE, heard |-> FALSE]
    /\ UNCHANGED <<pending, deferred, resolved, opening, owner, calls, wire, lifecycle,
                   records, queue, review, failures, history>>

\* A scan finds a change; a candidate that was put off is replaced.
FindChange(d) ==
    /\ native.ready /\ owner[d] = 0 /\ \A b \in 1 .. d - 1 : owner[b] # 0
    /\ pending = Nothing \/ deferred
    /\ owner' = [owner EXCEPT ![d] = native.inst]
    /\ pending' = d /\ deferred' = FALSE
    /\ wire' = IF native.heard THEN Append(wire, [kind |-> "note", delta |-> d]) ELSE wire
    /\ UNCHANGED <<native, resolved, opening, sessions, calls, lifecycle, records, queue,
                   review, failures, history>>

\* A second listener of the same window stops the session of the first.
HandleStart ==
    /\ calls # <<>> /\ Head(calls).kind = "start"
    /\ calls' = Tail(calls)
    /\ LET fresh == native.inst = 0 \/ native.heard IN
         /\ fresh => sessions < MaxSessions
         /\ sessions' = IF fresh THEN sessions + 1 ELSE sessions
         /\ native' = IF fresh THEN [inst |-> sessions', ready |-> FALSE, heard |-> TRUE]
                      ELSE [native EXCEPT !.heard = TRUE]
         /\ IF fresh THEN pending' = Nothing /\ deferred' = FALSE
            ELSE UNCHANGED <<pending, deferred>>
         /\ opening' = opening \cup {[mount |-> Head(calls).mount, inst |-> native'.inst]}
    /\ UNCHANGED <<resolved, owner, wire, lifecycle, records, queue, review, failures,
                   history>>

\* The baseline is there: the candidate is notified, and the start answered.
AnswerStart(o) ==
    /\ o \in opening /\ opening' = opening \ {o}
    /\ LET note == IF pending = Nothing \/ deferred THEN <<>>
                   ELSE <<[kind |-> "note", delta |-> pending]>>
           reply(inst) == [kind |-> "start", mount |-> o.mount, inst |-> inst]
       IN \/ /\ native.inst = o.inst
             /\ native' = [native EXCEPT !.ready = TRUE]
             /\ wire' = wire \o Append(note, reply(o.inst))
             /\ UNCHANGED <<pending, deferred, failures>>
          \/ /\ native.inst # o.inst
             /\ wire' = Append(wire, reply(0))
             /\ UNCHANGED <<native, pending, deferred, failures>>
          \/ /\ native.inst = o.inst /\ Fail
             /\ Dropped
             /\ wire' = Append(wire, reply(0))
    /\ UNCHANGED <<resolved, sessions, owner, calls, lifecycle, records, queue, review,
                   history>>

HandleStop ==
    /\ calls # <<>> /\ Head(calls).kind = "stop"
    /\ calls' = Tail(calls)
    /\ Dropped
    /\ wire' = Append(wire, Head(calls))
    /\ UNCHANGED <<resolved, opening, sessions, owner, lifecycle, records, queue, review,
                   failures, history>>

\* resolveProjectSessionConflicts: repeated, it answers as it did.
HandleResolve ==
    /\ calls # <<>> /\ Head(calls).kind = "resolve"
    /\ calls' = Tail(calls)
    /\ LET c == Head(calls)
           done == owner[c.delta] = native.inst /\ resolved[c.delta] = c.how
           reply(result) == wire' = Append(wire, [c EXCEPT !.result = result])
       IN \/ /\ done \/ pending # c.delta
             /\ reply(IF done THEN "ok" ELSE "stale")
             /\ UNCHANGED <<pending, deferred, resolved, failures>>
          \/ /\ ~done /\ pending = c.delta
             /\ reply("ok")
             /\ resolved' = [resolved EXCEPT ![c.delta] = c.how]
             /\ IF c.how = "dismiss" THEN deferred' = TRUE /\ UNCHANGED pending
                ELSE deferred' = FALSE /\ pending' = Nothing
             /\ UNCHANGED failures
          \/ /\ ~done /\ pending = c.delta /\ Fail
             /\ reply("error")
             /\ UNCHANGED <<pending, deferred, resolved>>
    /\ UNCHANGED <<native, opening, sessions, owner, lifecycle, records, queue, review,
                   history>>

(***************************************************************************)
(* The queue: one delta at a time, none while a verdict holds the folder   *)
(* or a dropped delta is not done with.                                    *)
(***************************************************************************)
Accept(d) == chan' = Append(chan, d)

Begin ==
    /\ busy = Nothing /\ ~held /\ chan # <<>>
    /\ busy' = [delta |-> Head(chan), dropped |-> FALSE]
    /\ chan' = Tail(chan)
    /\ step' = "ingest"
    /\ UNCHANGED <<main, calls, wire, lifecycle, records, held, review, failures, history>>

\* process() is done with its delta; a verdict on a dropped one holds nothing.
Finish_Holding(holds) ==
    /\ busy' = Nothing /\ step' = "none"
    /\ held' = holds
    /\ UNCHANGED chan

Finish(holds) ==
    /\ busy' = Nothing /\ step' = "none"
    /\ held' = IF busy.dropped THEN held ELSE holds
    /\ UNCHANGED chan

Drop ==
    /\ chan' = <<>> /\ held' = FALSE
    /\ busy' = IF busy = Nothing THEN Nothing ELSE [busy EXCEPT !.dropped = TRUE]
    /\ UNCHANGED step

Resolve(by, d, how) ==
    Call([kind |-> "resolve", by |-> by, delta |-> d, how |-> how, result |-> "none"])

(***************************************************************************)
(* The lifecycle of the folder: the effect of ProjectRootLifecycle.        *)
(***************************************************************************)
\* The cleanup of the current mount; the stop waits for a drain that is running.
CleanUp_AtOnce(next) ==
    /\ reviews' = {} /\ active' = 0 /\ buffered' = <<>>
    /\ Drop
    /\ starting' = (next # 0)
    /\ cleanup' = [cleanup EXCEPT ![current] = "stop"]
    /\ Call([kind |-> "stop", mount |-> current])

CleanUp(next) ==
    /\ reviews' = {} /\ active' = 0 /\ buffered' = <<>>
    /\ Drop
    /\ starting' = (next # 0)
    /\ IF busy = Nothing
       THEN /\ cleanup' = [cleanup EXCEPT ![current] = "stop"]
            /\ Call([kind |-> "stop", mount |-> current])
       ELSE cleanup' = [cleanup EXCEPT ![current] = "drain"] /\ UNCHANGED calls

\* A mount, or, when the stories or metadata of a folder change, another one.
MountFolder ==
    /\ mounts < MaxMounts /\ mounts' = mounts + 1
    /\ current' = mounts'
    /\ task' = [task EXCEPT ![mounts'] = "wait"]
    /\ IF current # 0 THEN CleanUp(mounts')
       ELSE starting' = TRUE /\ UNCHANGED <<reviews, active, buffered, cleanup, queue, calls>>
    /\ UNCHANGED <<main, wire, records, answer, answers, failures, history>>

UnmountFolder ==
    /\ current # 0 /\ current' = 0
    /\ CleanUp(0)
    /\ UNCHANGED <<main, wire, mounts, task, records, answer, answers, failures, history>>

Draining == busy # Nothing /\ busy.dropped

StopDrained(e) ==
    /\ cleanup[e] = "drain"
    /\ ~Draining
    /\ cleanup' = [cleanup EXCEPT ![e] = "stop"]
    /\ Call([kind |-> "stop", mount |-> e])
    /\ UNCHANGED <<main, wire, current, mounts, task, active, starting, buffered, records,
                   queue, review, failures, history>>

ReceiveStop ==
    /\ Received /\ Head(wire).kind = "stop"
    /\ LET e == Head(wire).mount IN
         cleanup' = [cleanup EXCEPT ![e] = IF @ = "stop" THEN "stopped" ELSE "settled"]
    /\ UNCHANGED <<main, calls, current, mounts, task, active, starting, buffered, records,
                   queue, review, failures, history>>

\* A cleanup is left waiting when its start came too late.
SettleCleanup_Waiting(e) ==
    /\ cleanup[e] = "stopped" /\ task[e] = "done"
    /\ cleanup' = [cleanup EXCEPT ![e] = "settled"]
    /\ UNCHANGED <<main, calls, wire, current, mounts, task, active, starting, buffered,
                   records, queue, review, failures, history>>

\* The cleanup waits for startTask too, and stops a session it started too late.
SettleCleanup(e) ==
    /\ cleanup[e] = "stopped" /\ task[e] \in {"done", "late"}
    /\ IF task[e] = "late"
       THEN /\ cleanup' = [cleanup EXCEPT ![e] = "stop again"]
            /\ Call([kind |-> "stop", mount |-> e])
       ELSE cleanup' = [cleanup EXCEPT ![e] = "settled"] /\ UNCHANGED calls
    /\ UNCHANGED <<main, wire, current, mounts, task, active, starting, buffered, records,
                   queue, review, failures, history>>

\* The session of a mount is started without waiting for the cleanup before.
PreviousSettled_Any(e) == TRUE

PreviousSettled(e) == \A b \in Mount : b + 1 = e => cleanup[b] \in {"none", "settled"}

StartSession(e) ==
    /\ task[e] = "wait" /\ PreviousSettled(e)
    /\ IF e # current THEN task' = [task EXCEPT ![e] = "done"] /\ UNCHANGED calls
       ELSE /\ task' = [task EXCEPT ![e] = "start"]
            /\ Call([kind |-> "start", mount |-> e])
    /\ UNCHANGED <<main, wire, current, mounts, cleanup, active, starting, buffered, records,
                   queue, review, failures, history>>

ReceiveStart ==
    /\ Received /\ Head(wire).kind = "start"
    /\ LET e == Head(wire).mount  inst == Head(wire).inst IN
         \/ /\ inst # 0 /\ e = current
            /\ active' = inst
            /\ task' = [task EXCEPT ![e] = "record"]
            /\ records' = Append(records, [kind |-> "start", mount |-> e, inst |-> inst])
            /\ UNCHANGED <<starting, buffered>>
         \/ /\ inst # 0 /\ e # current
            /\ task' = [task EXCEPT ![e] = "late"]
            /\ UNCHANGED <<active, starting, buffered, records>>
         \/ /\ inst = 0
            /\ task' = [task EXCEPT ![e] = "done"]
            /\ starting' = (starting /\ e # current)
            /\ buffered' = IF e = current THEN <<>> ELSE buffered
            /\ UNCHANGED <<active, records>>
    /\ UNCHANGED <<main, calls, current, mounts, cleanup, queue, review, failures, history>>

Note(inst, d) == [kind |-> "note", inst |-> inst, delta |-> d]

BufferedOf(inst) ==
    FoldLeft(LAMBDA kept, d : IF owner[d] = inst THEN Append(kept, d) ELSE kept,
             <<>>, buffered)

\* The session is recorded: what was buffered of it is recorded and queued.  The
\* task does not look whether it was canceled meanwhile.
RecordStart ==
    /\ records # <<>> /\ Head(records).kind = "start"
    /\ LET e == Head(records).mount
           deltas == BufferedOf(Head(records).inst)
       IN /\ records' = Tail(records) \o
                          [i \in DOMAIN deltas |-> Note(Head(records).inst, deltas[i])]
          /\ task' = [task EXCEPT ![e] = "assets"]
          /\ unmarked' = IF starting /\ e # current THEN unmarked \cup {current} ELSE unmarked
    /\ starting' = FALSE /\ buffered' = <<>>
    /\ UNCHANGED <<main, calls, wire, current, mounts, cleanup, active, queue, review,
                   failures, merged, late, stray>>

\* The assets of the start are synchronized.
EndStart(e) ==
    /\ task[e] = "assets"
    /\ task' = [task EXCEPT ![e] = "done"]
    /\ UNCHANGED <<main, calls, wire, current, mounts, cleanup, active, starting, buffered,
                   records, queue, review, failures, history>>

(***************************************************************************)
(* Notifications.                                                          *)
(***************************************************************************)
\* A notification that comes before the start's answer is not buffered.
ReceiveNote_Unbuffered ==
    /\ Received /\ Head(wire).kind = "note"
    /\ LET d == Head(wire).delta IN
         records' = IF active # 0 /\ active = owner[d]
                    THEN Append(records, Note(active, d)) ELSE records
    /\ UNCHANGED <<main, calls, lifecycle, queue, review, failures, history>>

ReceiveNote ==
    /\ Received /\ Head(wire).kind = "note"
    /\ LET d == Head(wire).delta IN
         \/ /\ active # 0 /\ active = owner[d]
            /\ records' = Append(records, Note(active, d))
            /\ UNCHANGED buffered
         \/ /\ active = 0 /\ starting
            /\ buffered' = Append(buffered, d)
            /\ UNCHANGED records
         \/ /\ active # owner[d] /\ ~(active = 0 /\ starting)
            /\ UNCHANGED <<records, buffered>>
    /\ UNCHANGED <<main, calls, current, mounts, task, cleanup, active, starting, queue,
                   review, failures, history>>

\* The session is not looked at again before the delta is queued.
RecordNote ==
    /\ records # <<>> /\ Head(records).kind = "note"
    /\ records' = Tail(records)
    /\ LET d == Head(records).delta IN
         /\ Accept(d)
         /\ late' = IF Head(records).inst = owner[d] /\ owner[d] # active
                    THEN late \cup {d} ELSE late
    /\ UNCHANGED <<main, calls, wire, lifecycle, busy, held, step, review, failures, merged,
                   unmarked, stray>>

(***************************************************************************)
(* processDelta.                                                           *)
(***************************************************************************)
\* A folder whose stories are gone, or an ingestion that fails, throws.
IngestFails ==
    /\ step = "ingest"
    /\ \/ current = 0 /\ UNCHANGED failures
       \/ current # 0 /\ Fail
    /\ Finish(TRUE)
    /\ UNCHANGED <<main, calls, wire, lifecycle, records, review, history>>

\* A dropped delta that conflicts still opens a review.
IngestConflicts_Dropped ==
    /\ step = "ingest" /\ current # 0
    /\ reviews' = reviews \cup {busy.delta}
    /\ Finish(TRUE)
    /\ UNCHANGED <<main, calls, wire, lifecycle, records, answer, answers, failures, history>>

IngestConflicts ==
    /\ step = "ingest" /\ current # 0
    /\ reviews' = IF busy.dropped THEN reviews ELSE reviews \cup {busy.delta}
    /\ Finish(TRUE)
    /\ UNCHANGED <<main, calls, wire, lifecycle, records, answer, answers, failures, history>>

\* A change is acknowledged before it is ingested.
Ingest_AcknowledgedFirst ==
    /\ step = "ingest" /\ current # 0
    /\ step' = "acknowledge 1"
    /\ Resolve("queue", busy.delta, "accept")
    /\ UNCHANGED <<chan, busy, held, main, wire, lifecycle, records, review, failures, history>>

Ingest ==
    /\ step = "ingest" /\ current # 0
    /\ merged' = merged \cup {busy.delta}
    /\ IF busy.dropped THEN Finish(FALSE) /\ UNCHANGED calls
       ELSE /\ step' = "acknowledge 1"
            /\ Resolve("queue", busy.delta, "accept")
            /\ UNCHANGED <<chan, busy, held>>
    /\ UNCHANGED <<main, wire, lifecycle, records, review, failures, late, unmarked, stray>>

NextTry == [s \in {"acknowledge 1", "acknowledge 2"} |->
              IF s = "acknowledge 1" THEN "acknowledge 2" ELSE "acknowledge 3"]
Retries(s, result) == result = "error" /\ s \in DOMAIN NextTry

\* acknowledgeDelta: up to three calls, but for a delta that is stale.
ReceiveAcknowledgement ==
    /\ Received /\ Head(wire).kind = "resolve" /\ Head(wire).by = "queue"
    /\ LET result == Head(wire).result IN
         IF Retries(step, result)
         THEN /\ step' = NextTry[step]
              /\ Resolve("queue", busy.delta, "accept")
              /\ UNCHANGED <<chan, busy, held>>
         ELSE /\ Finish(result # "ok")
              /\ UNCHANGED calls
    /\ UNCHANGED <<main, lifecycle, records, review, failures, history>>

(***************************************************************************)
(* The answers of the user.                                                *)
(***************************************************************************)
Answer(d, how) ==
    /\ d \in reviews /\ answer = Nothing
    /\ answers < MaxAnswers /\ answers' = answers + 1
    /\ answer' = [delta |-> d, how |-> how, mount |-> current,
                  step |-> IF how = "accept" THEN "ingest" ELSE "acknowledge 3"]
    /\ IF how = "accept" THEN UNCHANGED calls ELSE Resolve("answer", d, how)
    /\ UNCHANGED <<main, wire, lifecycle, records, queue, reviews, failures, history>>

AnswerIngests ==
    /\ answer # Nothing /\ answer.step = "ingest"
    /\ merged' = merged \cup {answer.delta}
    /\ answer' = [answer EXCEPT !.step = "acknowledge 1"]
    /\ Resolve("answer", answer.delta, "accept")
    /\ UNCHANGED <<main, wire, lifecycle, records, queue, reviews, answers, failures, late,
                   unmarked, stray>>

\* A review that was answered releases the queue the folder has now.
ReceiveAnswer ==
    /\ Received /\ Head(wire).kind = "resolve" /\ Head(wire).by = "answer"
    /\ LET result == Head(wire).result IN
         IF Retries(answer.step, result)
         THEN /\ answer' = [answer EXCEPT !.step = NextTry[answer.step]]
              /\ Resolve("answer", answer.delta, "accept")
              /\ UNCHANGED <<held, reviews, stray>>
         ELSE /\ answer' = Nothing
              /\ IF result = "ok"
                 THEN /\ held' = FALSE
                      /\ reviews' = reviews \ {answer.delta}
                      /\ stray' = (stray \/ answer.mount # current)
                 ELSE UNCHANGED <<held, reviews, stray>>
              /\ UNCHANGED calls
    /\ UNCHANGED <<main, lifecycle, records, chan, busy, step, answers, failures, merged,
                   late, unmarked>>

Main == HandleStart \/ HandleStop \/ HandleResolve \/ \E o \in opening : AnswerStart(o)
Renderer ==
    \/ ReceiveStop \/ ReceiveStart \/ ReceiveNote \/ ReceiveAcknowledgement \/ ReceiveAnswer
    \/ RecordStart \/ RecordNote
RendererWork ==
    \/ \E e \in Mount : \/ StartSession(e) \/ EndStart(e)
                        \/ StopDrained(e) \/ SettleCleanup(e)
    \/ Begin \/ IngestConflicts \/ Ingest \/ AnswerIngests

LifecycleNext ==
    \/ Main \/ Renderer \/ RendererWork \/ IngestFails
    \/ Hydrate \/ MountFolder \/ UnmountFolder
    \/ \E d \in Deltas : \/ FindChange(d)
                         \/ \E how \in {"accept", "keep", "dismiss"} : Answer(d, how)

\* Calls, messages and what was awaited go on.
LifecycleFairness ==
    /\ WF_allVars(HandleStart) /\ WF_allVars(HandleStop \/ HandleResolve)
    /\ WF_allVars(\E o \in opening : AnswerStart(o))
    /\ WF_allVars(ReceiveStop \/ ReceiveStart \/ ReceiveNote
                \/ ReceiveAcknowledgement \/ ReceiveAnswer)
    /\ WF_allVars(RecordStart \/ RecordNote)
    /\ \A e \in Mount : WF_allVars(StartSession(e) \/ EndStart(e) \/ StopDrained(e)
                                \/ SettleCleanup(e))
    /\ WF_allVars(Begin \/ IngestConflicts \/ Ingest \/ IngestFails) /\ WF_allVars(AnswerIngests)

LifecycleSpec == LifecycleInit /\ [][LifecycleNext]_allVars /\ LifecycleFairness
-----------------------------------------------------------------------------
Steps == {"none", "ingest", "acknowledge 1", "acknowledge 2", "acknowledge 3"}
Verdicts == {"accept", "keep", "dismiss"}
Working == [delta : Deltas, dropped : BOOLEAN]
Answering == [delta : Deltas, how : Verdicts, mount : Mount, step : Steps \ {"none"}]

\* The messages, and what waits for recordExternalSession.
ToMain ==
    [kind : {"start", "stop"}, mount : Mount]
    \cup [kind : {"resolve"}, by : {"queue", "answer"}, delta : Deltas, how : Verdicts,
          result : {"none"}]
ToRenderer ==
    [kind : {"start"}, mount : Mount, inst : Session]
    \cup [kind : {"stop"}, mount : Mount] \cup [kind : {"note"}, delta : Deltas]
    \cup [kind : {"resolve"}, by : {"queue", "answer"}, delta : Deltas, how : Verdicts,
          result : {"ok", "stale", "error"}]
Recorded ==
    [kind : {"start"}, mount : Mount, inst : Session \ {0}]
    \cup [kind : {"note"}, inst : Session, delta : Deltas]

ASSUME NothingAssumption == Nothing \notin Verdicts \cup Working \cup Answering

LifecycleTypeOK ==
    /\ native \in [inst : Session, ready : BOOLEAN, heard : BOOLEAN]
    /\ pending \in Deltas \cup {Nothing} /\ deferred \in BOOLEAN
    /\ resolved \in [Deltas -> Verdicts \cup {Nothing}]
    /\ opening \subseteq [mount : Mount, inst : Session \ {0}]
    /\ sessions \in Session /\ owner \in [Deltas -> Session]
    /\ calls \in Seq(ToMain) /\ wire \in Seq(ToRenderer) /\ records \in Seq(Recorded)
    /\ current \in 0 .. mounts /\ mounts \in 0 .. MaxMounts
    /\ task \in [Mount -> {"none", "wait", "start", "record", "assets", "done", "late"}]
    /\ cleanup \in [Mount -> {"none", "drain", "stop", "stopped", "stop again", "settled"}]
    /\ active \in Session /\ starting \in BOOLEAN /\ buffered \in Seq(Deltas)
    /\ chan \in Seq(Deltas) /\ held \in BOOLEAN
    /\ busy \in Working \cup {Nothing}
    /\ step \in Steps /\ (step = "none") = (busy = Nothing)
    /\ reviews \subseteq Deltas
    /\ answer \in Answering \cup {Nothing}
    /\ answers \in Nat /\ failures \in Nat
    /\ merged \subseteq Deltas /\ late \subseteq Deltas /\ unmarked \subseteq Mount
    /\ stray \in BOOLEAN

\* The session the renderer takes for active is the one that runs: no stop of an
\* older mount, however late, ends the session of the current one.
ActiveSessionRuns == active # 0 => native.inst = active /\ native.heard

\* What is queued or processed is of the active session, but for a delta that was
\* being recorded when its session was closed.
OwnSessionOnly ==
    LET queued == ToSet(chan) \cup (IF busy = Nothing \/ Draining THEN {} ELSE {busy.delta})
    IN \A d \in queued \ late : owner[d] = active

\* The renderer and the main process agree on the session of the folder, and
\* what it does is of that session.
SessionsApart == LifecycleTypeOK /\ ActiveSessionRuns /\ OwnSessionOnly

\* While a review is open nothing of its folder is merged, but for an answer that
\* outlived its session and released the queue of the next.
ReviewHoldsFolder == reviews # {} /\ ~stray => held /\ (busy = Nothing \/ Draining)

\* The queue merges a delta only while the session that found it runs: a stop
\* waits for the merge, whether the folder is unmounted or mounted again.
MergedBeforeStop ==
    [][\A d \in merged' \ merged :
          d \in late \/ answer # answer' \/ native.inst = owner[d]]_merged

\* The version on disk is accepted only for a change that the document has.
AcceptedIsMerged == \A d \in Deltas : resolved[d] = "accept" => d \in merged

\* A candidate that refuses saves and polls does not wait unseen: it is resolved,
\* its session stopped, or the user sees a review or an error that holds the
\* folder.  A notification an older mount no longer let be buffered is excepted.
Awaits(d) == pending = d /\ ~deferred /\ native.heard
DeliveredSettles ==
    \A d \in Deltas : Awaits(d) ~> ~Awaits(d) \/ reviews # {} \/ held \/ current \in unmarked

\* A folder that is unmounted loses its native session in the end.
SessionStops == current = 0 ~> current # 0 \/ ~native.heard

\* A folder that is mounted gets a session, or an error, whatever the mounts
\* before it still wait for.
SessionStarts ==
    \A e \in Mount : current = e ~> current # e \/ active # 0 \/ task[e] = "done"

\* The native session follows the mount of the folder.
SessionFollowsMount == SessionStops /\ SessionStarts

\* The queue this module uses behaves as the queue objects do.
FolderQueue == INSTANCE DeltaChannel
    WITH Delta <- Deltas, None <- Nothing,
         Root <- {"folder"}, RootOf <- [d \in Deltas |-> "folder"],
         chan <- [r \in {"folder"} |-> chan], busy <- [r \in {"folder"} |-> busy],
         held <- [r \in {"folder"} |-> held]
UsesChannel == FolderQueue!Spec
====
