--------------------------- MODULE QuitCoordination ---------------------------
(***************************************************************************)
(* How the application quits without losing text.  The main process asks   *)
(* the renderer to drain, under a nonce; the renderer closes its editors,  *)
(* flushes them, freezes the project host and waits for every commit and   *)
(* save; the main process then flushes its own writes and lets the app     *)
(* exit, or, when anything fails or takes too long, cancels and the        *)
(* renderer opens again.                                                   *)
(*                                                                         *)
(* The text of an editor is a version number.  An editor commits a text    *)
(* some time after it was typed, one commit after another, and keeps the   *)
(* text of a commit whose save failed.  A direct edit (of the map, a tag)  *)
(* is one whose save nobody waits for.                                     *)
(***************************************************************************)
EXTENDS Naturals, Sequences

CONSTANTS
    Editor,
    None,
    MaxEdits,     \* bound on what the user types and edits
    MaxFailures,  \* bound on the saves that fail
    MaxTimeouts,  \* bound on the drains that take too long
    MaxLosses     \* bound on the renderer processes that stop

Host == "host"

ASSUME ConstantsAssumption ==
    /\ MaxEdits \in Nat /\ MaxFailures \in Nat /\ MaxTimeouts \in Nat /\ MaxLosses \in Nat
    /\ None \notin Nat
    /\ Host \notin Editor

VARIABLES
    main,      \* what the main process does about quitting
    nonce,     \* the nonce of its last request
    requests,  \* messages to the renderer, oldest first
    replies,   \* messages from the renderer
    alive,     \* whether the authoring renderer is established
    phase,     \* PersistenceQuitState, its nonce included
    loop,      \* what prepare() waits for
    snap,      \* the saves it waits for
    qpending,  \* the flushes and drains RendererQuitQuiescence waits for
    qfailed,   \* whether one of them failed
    cfailed,   \* whether a save failed while draining
    admits,    \* mutationAdmissionOpen of the project host
    accepting, \* the editors that accept text
    text,      \* what each editor shows
    pend,      \* pendingText
    kept,      \* failedPersistenceText
    chain,     \* the commits of an editor: the first one is in flight
    stage,     \* what that commit does
    direct,    \* what the direct edit does
    disk,      \* the text on disk
    edits, failures, timeouts, losses,
    refused,   \* history: the editors whose flush the frozen host refused
    overtaken  \* history: the editors that flushed an older text behind a newer
               \* one in flight, and got no text since

quitting == <<main, nonce, requests, replies>>
draining == <<phase, loop, snap, qpending, qfailed, cfailed, admits>>
editors == <<accepting, text, pend, kept, chain, stage>>
counters == <<edits, failures, timeouts, losses>>
history == <<refused, overtaken>>
vars == <<quitting, alive, draining, editors, direct, disk, counters, history>>

Open == [phase |-> "open", nonce |-> 0]
Draining == phase.phase # "open"

Init ==
    /\ main = "open" /\ nonce = 0 /\ requests = <<>> /\ replies = {}
    /\ alive = TRUE
    /\ phase = Open /\ loop = "none" /\ snap = {}
    /\ qpending = {} /\ qfailed = FALSE /\ cfailed = FALSE /\ admits = TRUE
    /\ accepting = Editor
    /\ text = [e \in Editor |-> 0] /\ disk = [e \in Editor |-> 0]
    /\ pend = [e \in Editor |-> None] /\ kept = [e \in Editor |-> None]
    /\ chain = [e \in Editor |-> <<>>] /\ stage = [e \in Editor |-> "none"]
    /\ direct = "none"
    /\ edits = 0 /\ failures = 0 /\ timeouts = 0 /\ losses = 0
    /\ refused = {} /\ overtaken = {}

(***************************************************************************)
(* An editor window.                                                       *)
(***************************************************************************)
Type(e) ==
    /\ alive /\ e \in accepting
    /\ edits < MaxEdits /\ edits' = edits + 1
    /\ text' = [text EXCEPT ![e] = @ + 1]
    /\ pend' = [pend EXCEPT ![e] = text[e] + 1]
    /\ overtaken' = overtaken \ {e}
    /\ UNCHANGED <<quitting, alive, draining, accepting, kept, chain, stage, direct,
                   disk, failures, timeouts, losses, refused>>

\* A commit waits for the one before it.  The first is begun at once, and the
\* host admits it when it is open.
Chained(e, v) == chain' = [chain EXCEPT ![e] = Append(@, v)]
Begun(e) == stage' = [stage EXCEPT ![e] = IF @ = "none" THEN "applying" ELSE @]

\* The timer of 300 milliseconds, which a flush clears.
TimerCommits(e) ==
    /\ alive /\ pend[e] # None
    /\ pend' = [pend EXCEPT ![e] = None]
    /\ Chained(e, pend[e]) /\ Begun(e)
    /\ UNCHANGED <<quitting, alive, draining, accepting, text, kept, direct, disk,
                   counters, history>>

\* The command is applied and its patch dispatched, which queues the save; the
\* editor sees the text it waited for and forgets an older one that failed.
Dispatch(e) ==
    /\ stage[e] = "applying"
    /\ stage' = [stage EXCEPT ![e] = "saving"]
    /\ kept' = [kept EXCEPT ![e] =
                  IF Head(chain[e]) = text[e] /\ @ # text[e] THEN None ELSE @]
    /\ UNCHANGED <<quitting, alive, draining, accepting, text, pend, chain, direct,
                   disk, counters, history>>

\* A commit that fails leaves its text with the editor, unless there is a newer
\* one; the flush and the host's drain that waited for it fail with it.
EndCommit(e, ok, admitted) ==
    LET v == Head(chain[e])  last == Len(chain[e]) = 1 IN
    /\ chain' = [chain EXCEPT ![e] = Tail(@)]
    /\ stage' = [stage EXCEPT ![e] = IF last THEN "none" ELSE "next"]
    /\ kept' = [kept EXCEPT ![e] = IF text[e] # v THEN @
                                   ELSE IF ok THEN None
                                   ELSE IF pend[e] = None THEN v ELSE @]
    /\ qpending' = IF last THEN qpending \ {e} ELSE qpending
    /\ qfailed' = \/ qfailed
                  \/ ~ok /\ last /\ e \in qpending
                  \/ ~ok /\ admitted /\ Host \in qpending
    /\ UNCHANGED <<accepting, text, pend>>

Save(e) ==
    /\ stage[e] = "saving"
    /\ disk' = [disk EXCEPT ![e] = Head(chain[e])]
    /\ EndCommit(e, TRUE, TRUE)
    /\ UNCHANGED <<quitting, alive, phase, loop, snap, cfailed, admits, direct,
                   counters, history>>

FailSave(e) ==
    /\ stage[e] = "saving"
    /\ failures < MaxFailures /\ failures' = failures + 1
    /\ EndCommit(e, FALSE, TRUE)
    /\ cfailed' = (cfailed \/ Draining)
    /\ UNCHANGED <<quitting, alive, phase, loop, snap, admits, direct, disk,
                   edits, timeouts, losses, history>>

\* The commit that waited begins; a frozen host refuses it.
NextCommit(e) ==
    /\ stage[e] = "next"
    /\ \/ /\ admits
          /\ stage' = [stage EXCEPT ![e] = "applying"]
          /\ UNCHANGED <<draining, accepting, text, pend, kept, chain, history>>
       \/ /\ ~admits
          /\ EndCommit(e, FALSE, FALSE)
          /\ refused' = refused \cup {e}
          /\ UNCHANGED <<phase, loop, snap, cfailed, admits, overtaken>>
    /\ UNCHANGED <<quitting, alive, direct, disk, counters>>

(***************************************************************************)
(* A direct edit: the host is done with it once it is dispatched.          *)
(***************************************************************************)
EditDirectly ==
    /\ alive /\ admits /\ phase = Open /\ direct = "none"
    /\ edits < MaxEdits /\ edits' = edits + 1
    /\ direct' = "applying"
    /\ UNCHANGED <<quitting, alive, draining, editors, disk, failures, timeouts,
                   losses, history>>

DispatchDirect ==
    /\ direct = "applying"
    /\ direct' = "saving"
    /\ UNCHANGED <<quitting, alive, draining, editors, disk, counters, history>>

SaveDirect ==
    /\ direct = "saving"
    /\ direct' = "none"
    /\ UNCHANGED <<quitting, alive, draining, editors, disk, counters, history>>

FailDirect ==
    /\ direct = "saving"
    /\ failures < MaxFailures /\ failures' = failures + 1
    /\ direct' = "none"
    /\ cfailed' = (cfailed \/ Draining)
    /\ UNCHANGED <<quitting, alive, phase, loop, snap, qpending, qfailed, admits,
                   editors, disk, edits, timeouts, losses, history>>

(***************************************************************************)
(* The renderer's part: PersistenceQuitCoordinator and                     *)
(* RendererQuitQuiescence.                                                 *)
(***************************************************************************)
\* What flushPendingText commits.
Flushed(e) == IF pend[e] # None THEN pend[e] ELSE kept[e]
Overtaken(e) == pend[e] = None /\ kept[e] # None /\ chain[e] # <<>>

\* The flush of an editor is admitted whatever the host, a commit that waits
\* for another one is not: the freeze comes before it begins.
BeginDrain ==
    /\ alive /\ requests # <<>> /\ Head(requests).kind = "request"
    /\ phase = Open
    /\ phase' = [phase |-> "draining", nonce |-> Head(requests).nonce]
    /\ loop' = "quiesce"
    /\ requests' = Tail(requests)
    /\ accepting' = {}
    /\ pend' = [e \in Editor |-> None]
    /\ chain' = [e \in Editor |-> IF Flushed(e) = None THEN chain[e]
                                  ELSE Append(chain[e], Flushed(e))]
    /\ stage' = [e \in Editor |-> IF Flushed(e) # None /\ chain[e] = <<>>
                                  THEN "applying" ELSE stage[e]]
    /\ admits' = FALSE
    /\ qpending' = {Host} \cup {e \in Editor : chain'[e] # <<>>}
    /\ overtaken' = overtaken \cup {e \in Editor : Overtaken(e)}
    /\ UNCHANGED <<main, nonce, replies, alive, snap, qfailed, cfailed, text, kept,
                   direct, disk, counters, refused>>

Admitted == {e \in Editor : stage[e] \in {"applying", "saving"}}
Saving == {e \in Editor : stage[e] = "saving"}
              \cup (IF direct = "saving" THEN {"direct"} ELSE {})

HostDrained ==
    /\ Host \in qpending /\ Admitted = {} /\ direct # "applying"
    /\ qpending' = qpending \ {Host}
    /\ UNCHANGED <<quitting, alive, phase, loop, snap, qfailed, cfailed, admits,
                   editors, direct, disk, counters, history>>

Reply(ok) == replies' = replies \cup {[nonce |-> phase.nonce, ok |-> ok]}

\* A drain that fails does not answer.
Quiesced_Silent ==
    /\ loop = "quiesce" /\ qpending = {}
    /\ loop' = IF qfailed THEN "none" ELSE "saves"
    /\ snap' = Saving
    /\ UNCHANGED <<main, nonce, requests, replies, alive, phase, qpending, qfailed,
                   cfailed, admits, editors, direct, disk, counters, history>>

\* quiescence.drain() resolves, or throws what failed; a renderer whose drain
\* failed stays closed until it is told to open.
Quiesced ==
    /\ loop = "quiesce" /\ qpending = {}
    /\ \/ /\ ~qfailed
          /\ loop' = "saves" /\ snap' = Saving
          /\ UNCHANGED replies
       \/ /\ qfailed
          /\ loop' = "none" /\ Reply(FALSE)
          /\ UNCHANGED snap
    /\ UNCHANGED <<main, nonce, requests, alive, phase, qpending, qfailed, cfailed,
                   admits, editors, direct, disk, counters, history>>

\* The saves are not waited for.
Drained_Unsaved ==
    /\ loop = "saves"
    /\ phase' = [phase EXCEPT !.phase = "prepared"]
    /\ loop' = "none" /\ Reply(TRUE)
    /\ UNCHANGED <<main, nonce, requests, alive, snap, qpending, qfailed, cfailed,
                   admits, editors, direct, disk, counters, history>>

\* The saves that were pending are done.  None can have been queued since: the
\* next round of the loop is for participants that register while it drains.
Drained ==
    /\ loop = "saves" /\ snap \cap Saving = {}
    /\ loop' = "none"
    /\ \/ /\ ~cfailed /\ qpending = {} /\ Saving = {}
          /\ phase' = [phase EXCEPT !.phase = "prepared"]
          /\ Reply(TRUE)
       \/ cfailed /\ Reply(FALSE) /\ UNCHANGED phase
    /\ UNCHANGED <<main, nonce, requests, alive, snap, qpending, qfailed, cfailed,
                   admits, editors, direct, disk, counters, history>>

\* The editors are opened and the project host stays frozen.
Reopened_EditorsOnly ==
    /\ phase' = Open /\ loop' = "none" /\ snap' = {}
    /\ qpending' = {} /\ qfailed' = FALSE /\ cfailed' = FALSE
    /\ accepting' = Editor
    /\ UNCHANGED admits

Reopened ==
    /\ phase' = Open /\ loop' = "none" /\ snap' = {}
    /\ qpending' = {} /\ qfailed' = FALSE /\ cfailed' = FALSE
    /\ accepting' = Editor /\ admits' = TRUE

\* A drain that is cancelled still answers, with its error.
Cancelled ==
    /\ alive /\ requests # <<>> /\ Head(requests).kind = "cancel"
    /\ requests' = Tail(requests)
    /\ \/ /\ Draining /\ phase.nonce = Head(requests).nonce
          /\ Reopened
          /\ IF loop = "none" THEN UNCHANGED replies ELSE Reply(FALSE)
       \/ /\ ~(Draining /\ phase.nonce = Head(requests).nonce)
          /\ UNCHANGED <<draining, accepting, replies>>
    /\ UNCHANGED <<main, nonce, alive, text, pend, kept, chain, stage, direct, disk,
                   counters, history>>

(***************************************************************************)
(* The main process: the before-quit handler.                              *)
(***************************************************************************)
Quit ==
    /\ main = "open" /\ alive
    /\ main' = "waiting" /\ nonce' = nonce + 1
    /\ requests' = Append(requests, [kind |-> "request", nonce |-> nonce + 1])
    /\ UNCHANGED <<replies, alive, draining, editors, direct, disk, counters, history>>

\* The user sees the error; the renderer, if there is one, opens again.
Abort ==
    /\ main' = "open"
    /\ requests' = IF alive' THEN Append(requests, [kind |-> "cancel", nonce |-> nonce])
                   ELSE <<>>

\* A reply to an older request is taken for one to this.
ReceiveReply_AnyNonce(reply) ==
    /\ reply \in replies /\ replies' = replies \ {reply}
    /\ UNCHANGED alive
    /\ \/ main = "waiting" /\ reply.ok /\ main' = "flushing" /\ UNCHANGED requests
       \/ main = "waiting" /\ ~reply.ok /\ Abort
       \/ main # "waiting" /\ UNCHANGED <<main, requests>>
    /\ UNCHANGED <<nonce, draining, editors, direct, disk, counters, history>>

ReceiveReply(reply) ==
    /\ reply \in replies /\ replies' = replies \ {reply}
    /\ UNCHANGED alive
    /\ LET expected == main = "waiting" /\ reply.nonce = nonce IN
         \/ expected /\ reply.ok /\ main' = "flushing" /\ UNCHANGED requests
         \/ expected /\ ~reply.ok /\ Abort
         \/ ~expected /\ UNCHANGED <<main, requests>>
    /\ UNCHANGED <<nonce, draining, editors, direct, disk, counters, history>>

Timeout ==
    /\ main = "waiting"
    /\ timeouts < MaxTimeouts /\ timeouts' = timeouts + 1
    /\ UNCHANGED alive
    /\ Abort
    /\ UNCHANGED <<nonce, replies, draining, editors, direct, disk, edits, failures,
                   losses, history>>

\* flushPendingStoryWrites; the renderer is still there.
Exit ==
    /\ main = "flushing"
    /\ main' = "exited"
    /\ UNCHANGED <<nonce, requests, replies, alive, draining, editors, direct, disk,
                   counters, history>>

\* The lease was lost meanwhile: the writes are awaited, and the quit fails.
ExitFails ==
    /\ main = "failing"
    /\ UNCHANGED alive
    /\ Abort
    /\ UNCHANGED <<nonce, replies, draining, editors, direct, disk, counters, history>>

\* The renderer process stops, or its page changes, with the text it had.
LoseRenderer ==
    /\ alive /\ main # "exited"
    /\ losses < MaxLosses /\ losses' = losses + 1
    /\ alive' = FALSE
    /\ \/ main = "waiting" /\ Abort
       \/ /\ main # "waiting"
          /\ main' = IF main = "flushing" THEN "failing" ELSE main
          /\ requests' = <<>>
    /\ Reopened
    /\ text' = disk
    /\ pend' = [e \in Editor |-> None] /\ kept' = [e \in Editor |-> None]
    /\ chain' = [e \in Editor |-> <<>>] /\ stage' = [e \in Editor |-> "none"]
    /\ direct' = "none"
    /\ overtaken' = {}
    /\ UNCHANGED <<nonce, replies, disk, edits, failures, timeouts, refused>>

Reload ==
    /\ ~alive
    /\ alive' = TRUE
    /\ UNCHANGED <<quitting, draining, editors, direct, disk, counters, history>>

Renderer ==
    \/ \E e \in Editor : TimerCommits(e) \/ Dispatch(e) \/ Save(e) \/ NextCommit(e)
    \/ DispatchDirect \/ SaveDirect
    \/ BeginDrain \/ HostDrained \/ Quiesced \/ Drained \/ Cancelled
Main == (\E reply \in replies : ReceiveReply(reply)) \/ Exit \/ ExitFails

Next ==
    \/ Renderer \/ Main
    \/ \E e \in Editor : Type(e) \/ FailSave(e)
    \/ EditDirectly \/ FailDirect
    \/ Quit \/ Timeout \/ LoseRenderer \/ Reload

\* Commits, saves and messages go on; the user loads the page again that went
\* away, but need not ask to quit.
Fairness ==
    /\ \A e \in Editor : WF_vars(TimerCommits(e) \/ Dispatch(e) \/ Save(e) \/ NextCommit(e))
    /\ WF_vars(DispatchDirect \/ SaveDirect)
    /\ WF_vars(BeginDrain \/ Quiesced \/ Drained \/ Cancelled) /\ WF_vars(HostDrained)
    /\ WF_vars(Main) /\ WF_vars(Reload)

Spec == Init /\ [][Next]_vars /\ Fairness
-----------------------------------------------------------------------------
Message == [kind : {"request", "cancel"}, nonce : Nat]

MainTypes ==
    /\ main \in {"open", "waiting", "flushing", "failing", "exited"}
    /\ nonce \in Nat
    /\ requests \in Seq(Message)
    /\ replies \subseteq [nonce : Nat, ok : BOOLEAN]
    /\ alive \in BOOLEAN
    /\ edits \in Nat /\ failures \in Nat /\ timeouts \in Nat /\ losses \in Nat

DrainTypes ==
    /\ phase \in [phase : {"open", "draining", "prepared"}, nonce : Nat]
    /\ loop \in {"none", "quiesce", "saves"}
    /\ snap \subseteq Editor \cup {"direct"}
    /\ qpending \subseteq Editor \cup {Host}
    /\ qfailed \in BOOLEAN /\ cfailed \in BOOLEAN /\ admits \in BOOLEAN
    /\ accepting \subseteq Editor
    /\ direct \in {"none", "applying", "saving"}

EditorTypes ==
    /\ text \in [Editor -> Nat] /\ disk \in [Editor -> Nat]
    /\ pend \in [Editor -> Nat \cup {None}] /\ kept \in [Editor -> Nat \cup {None}]
    /\ chain \in [Editor -> Seq(Nat)]
    /\ stage \in [Editor -> {"none", "next", "applying", "saving"}]
    /\ \A e \in Editor : stage[e] = "none" <=> chain[e] = <<>>
    /\ refused \subseteq Editor /\ overtaken \subseteq Editor

TypeOK == MainTypes /\ DrainTypes /\ EditorTypes

\* The app exits with every text the user typed on disk: typed just before or
\* while it drains, waiting behind another commit, or kept since its save failed.
\* An editor that flushed an older text behind a newer one is excepted.
ExitKeepsText ==
    main = "exited" => \A e \in Editor \ overtaken : disk[e] = text[e]

\* A renderer that is prepared has nothing left that could still write, and
\* takes no text and no mutation until it is told to open.
PreparedIsQuiet ==
    phase.phase = "prepared" =>
        /\ \A e \in Editor : chain[e] = <<>> /\ pend[e] = None /\ kept[e] = None
        /\ direct = "none" /\ accepting = {} /\ ~admits

Accepts == accepting = Editor /\ admits

\* A renderer that is open takes text and mutations: no quit that failed or was
\* cancelled leaves an editor read-only or the project frozen.
OpenAccepts == phase = Open => Accepts

\* A renderer that was closed for a quit, the project host or an editor of it, is
\* opened again unless the app exits, whatever failed, was late or was cancelled.
ReopenedOrExited == Draining \/ ~Accepts ~> (phase = Open /\ Accepts) \/ main = "exited"

\* A user who keeps asking to quit gets to: no failure, refusal or late answer
\* makes every later attempt fail.
QuitsInTheEnd == WF_vars(Quit) => <>(main = "exited")
-----------------------------------------------------------------------------
(***************************************************************************)
(* What the repository says, and the code does not keep.                   *)
(***************************************************************************)

\* "flushes pending editor text immediately": no flush is refused by the freeze.
FlushesAdmitted == refused = {}

\* "does not restore an older failed flush over a newer pending edit"
NewerTextKept == [][\A e \in Editor : disk'[e] >= disk[e]]_vars

====
