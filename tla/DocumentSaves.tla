---------------------------- MODULE DocumentSaves ----------------------------
(***************************************************************************)
(* How an edit of the Electron renderer reaches the project folder: the    *)
(* project host applies a patch batch and dispatches it, the save          *)
(* middleware queues one save per batch in the session's FIFO, saveStory   *)
(* sends the texts of the batch (or, for a broad change, the whole story,  *)
(* materialized first), and a completed save's revision travels back to    *)
(* the Rust session, which accepts the document as saved.  An edit of an   *)
(* editor window waits for its save, and leaves a receipt to retry it with *)
(* when the save fails.                                                    *)
(*                                                                         *)
(* The main process is the disk here: a save either writes what it was     *)
(* sent or fails, and whatever refuses it - an error, a candidate under    *)
(* review, a changed file - is one failure.                                *)
(***************************************************************************)
EXTENDS Integers, Sequences, FiniteSets

CONSTANTS
    Passage,      \* the passages of the one story of the session
    Text,         \* the texts a passage may hold
    None,
    Mutations,    \* what the user does: persisted, plain and broad edits
    FallsBack,    \* whether the filesystem requires full saves
    MaxRevision,  \* bound on the edits
    MaxFailures   \* bound on the saves the main process fails

ASSUME ConstantsAssumption ==
    /\ Text # {} /\ None \notin Text
    /\ Mutations \subseteq {"persisted", "plain", "broad"}
    /\ FallsBack \in BOOLEAN
    /\ MaxRevision \in Nat \ {0} /\ MaxFailures \in Nat

VARIABLES
    doc,       \* the text of each passage in the Rust session
    saved,     \* the text each passage had when last accepted as saved
    revision,  \* the revision of the Rust session
    disk,      \* the text in each passage's file
    queue,     \* the session's saves; the first one is active
    work,      \* what the active save is doing
    receipts,  \* failedPersistenceByTarget
    status,    \* the save status React has yet to act on
    acks,      \* the acknowledgements in the host's mutation queue
    failures,  \* the saves the main process failed
    failed,    \* history: the passages whose last save failed
    wrote      \* history: the newest revision saved for each passage

vars == <<doc, saved, revision, disk, queue, work, receipts, status, acks,
          failures, failed, wrote>>
history == <<failed, wrote>>

Revision == 1 .. MaxRevision
Documents == [Passage -> Text]
Updates == [Passage -> Text \cup {None}]

\* One applyCorePatchBatch action: the texts it carries, and who waits for it.
Save == [revision : Revision, target : SUBSET Passage, text : Updates,
         full : BOOLEAN, barrier : BOOLEAN, retry : BOOLEAN]

Receipt == [revision : Revision, text : Text]

Work == [step : {"materialize", "call"}, full : BOOLEAN, text : Updates,
         expected : Revision, attempt : {1, 2}]

ASSUME NoneAssumption == None \notin Receipt \cup Work \cup Revision

Init ==
    /\ \E t \in Text : doc = [p \in Passage |-> t]
    /\ saved = doc
    /\ revision = 1
    /\ disk = doc
    /\ queue = <<>>
    /\ work = None
    /\ receipts = [p \in Passage |-> None]
    /\ status = None
    /\ acks = {}
    /\ failures = 0
    /\ failed = {}
    /\ wrote = [p \in Passage |-> 0]

OnlyUpdate(p, t) == [q \in Passage |-> IF q = p THEN t ELSE None]
NoUpdates == [p \in Passage |-> None]

\* An editor window chains its commits: it sends nothing while one is queued.
AwaitsSave(p) == \E i \in DOMAIN queue : queue[i].barrier /\ p \in queue[i].target

Enqueue(save) == queue' = Append(queue, save)

-----------------------------------------------------------------------------
(***************************************************************************)
(* Edits.  applySessionPatchBatch dispatches the batch with its document   *)
(* updates, and the reducer's middleware queues the save.                  *)
(***************************************************************************)
Apply(p, t, full, barrier) ==
    /\ revision < MaxRevision
    /\ t # doc[p]
    /\ doc' = [doc EXCEPT ![p] = t]
    /\ revision' = revision + 1
    /\ Enqueue([revision |-> revision + 1, target |-> {p}, full |-> full,
                text |-> IF full THEN NoUpdates ELSE OnlyUpdate(p, t),
                barrier |-> barrier, retry |-> FALSE])
    /\ UNCHANGED <<saved, disk, work, receipts, status, acks, failures, history>>

\* applyStoryCommandPersisted, from an editor window.
PersistedEdit(p, t) ==
    "persisted" \in Mutations /\ ~AwaitsSave(p) /\ Apply(p, t, FALSE, TRUE)

\* A text change nobody waits for: undo, redo, replace.
PlainEdit(p, t) == "plain" \in Mutations /\ Apply(p, t, FALSE, FALSE)

\* A change saved as a whole story: a passage created, deleted, made the start.
BroadEdit(p, t) == "broad" \in Mutations /\ Apply(p, t, TRUE, FALSE)

\* The editor commits the text the document already has: no Rust command, but
\* the receipt of a failed save is dispatched again, as it was.
RetryPersistence(p) ==
    /\ receipts[p] # None /\ ~AwaitsSave(p)
    /\ Enqueue([revision |-> receipts[p].revision, target |-> {p},
                text |-> OnlyUpdate(p, receipts[p].text), full |-> FALSE,
                barrier |-> TRUE, retry |-> TRUE])
    /\ UNCHANGED <<doc, saved, revision, disk, work, receipts, status, acks,
                   failures, history>>

-----------------------------------------------------------------------------
(***************************************************************************)
(* The active save.                                                        *)
(***************************************************************************)
Active == Head(queue)

Materializing(attempt) ==
    [step |-> "materialize", full |-> TRUE, text |-> NoUpdates,
     expected |-> revision, attempt |-> attempt]

Calling(full, text) ==
    [step |-> "call", full |-> full, text |-> text, expected |-> revision, attempt |-> 1]

StartSave ==
    /\ queue # <<>> /\ work = None
    /\ work' = IF Active.full THEN Materializing(1) ELSE Calling(FALSE, Active.text)
    /\ UNCHANGED <<doc, saved, revision, disk, queue, receipts, status, acks,
                   failures, history>>

\* The pages read belong to the expected revision, which is still current: the
\* save holds the newest texts, those of later edits included.
Materialize ==
    /\ work # None /\ work.step = "materialize"
    /\ work.expected = revision
    /\ work' = Calling(TRUE, doc)
    /\ UNCHANGED <<doc, saved, revision, disk, queue, receipts, status, acks,
                   failures, history>>

RematerializeOnce ==
    /\ work # None /\ work.step = "materialize"
    /\ work.expected # revision /\ work.attempt = 1
    /\ work' = Materializing(2)
    /\ UNCHANGED <<doc, saved, revision, disk, queue, receipts, status, acks,
                   failures, history>>

\* The main process sends an incremental save back: full-save-required.
FallBackToFull ==
    /\ FallsBack
    /\ work # None /\ work.step = "call" /\ ~work.full
    /\ work' = Materializing(1)
    /\ UNCHANGED <<doc, saved, revision, disk, queue, receipts, status, acks,
                   failures, history>>

Dequeued_Newest(q) ==
    IF Len(q) < 3 THEN Tail(q) ELSE <<q[Len(q)]>> \o SubSeq(q, 2, Len(q) - 1)

\* runSessionSave: whether a save succeeded or failed, the oldest one is next.
Dequeued(q) == Tail(q)

Cleared_Never(save) == receipts

\* clearFailedPersistenceTargets after a command that waited, and the retry's
\* own receipt when it is still the current one.
Cleared(save) ==
    [p \in Passage |->
        IF receipts[p] # None /\ save.barrier /\ p \in save.target
           /\ IF save.retry THEN receipts[p].revision = save.revision
                            ELSE receipts[p].revision <= save.revision
        THEN None ELSE receipts[p]]

CompleteSave ==
    /\ work # None /\ work.step = "call"
    /\ disk' = [p \in Passage |-> IF work.text[p] # None THEN work.text[p] ELSE disk[p]]
    /\ queue' = Dequeued(queue)
    /\ work' = None
    /\ receipts' = Cleared(Active)
    /\ status' = Active.revision
    /\ failed' = {p \in failed : work.text[p] = None}
    /\ wrote' = [p \in Passage |-> IF p \in Active.target /\ Active.revision > wrote[p]
                                   THEN Active.revision ELSE wrote[p]]
    /\ UNCHANGED <<doc, saved, revision, acks, failures>>

Registered_KeepingOlder(save) ==
    [p \in Passage |->
        IF save.barrier /\ ~save.retry /\ p \in save.target /\ receipts[p] = None
        THEN [revision |-> save.revision, text |-> save.text[p]]
        ELSE receipts[p]]

\* registerFailedPersistence: an older receipt gives way to a newer one.
Registered(save) ==
    [p \in Passage |->
        IF save.barrier /\ ~save.retry /\ p \in save.target
           /\ (receipts[p] = None \/ receipts[p].revision <= save.revision)
        THEN [revision |-> save.revision, text |-> save.text[p]]
        ELSE receipts[p]]

\* The error replaces a status React has not acted on.
Failed ==
    /\ queue' = Dequeued(queue)
    /\ work' = None
    /\ receipts' = Registered(Active)
    /\ status' = None
    /\ failed' = failed \cup Active.target
    /\ UNCHANGED <<doc, saved, revision, disk, acks, wrote>>

FailSave ==
    /\ work # None /\ work.step = "call"
    /\ failures < MaxFailures
    /\ failures' = failures + 1
    /\ Failed

\* "Core session changed during story materialization."
FailMaterialize ==
    /\ work # None /\ work.step = "materialize"
    /\ work.expected # revision /\ work.attempt = 2
    /\ UNCHANGED failures
    /\ Failed

-----------------------------------------------------------------------------
(***************************************************************************)
(* Acknowledgement: the app shell's effect sees the last status published, *)
(* and its call waits for its turn in the host's mutation queue.           *)
(***************************************************************************)
NotifySaved ==
    /\ status # None
    /\ acks' = acks \cup {status}
    /\ status' = None
    /\ UNCHANGED <<doc, saved, revision, disk, queue, work, receipts, failures, history>>

Accepts_Any(r) == TRUE
Accepts_Previous(r) == r = revision - 1

\* ProjectSession::acknowledge_saved
Accepts(r) == r = revision

AcknowledgeSaved(r) ==
    /\ r \in acks
    /\ acks' = acks \ {r}
    /\ saved' = IF Accepts(r) THEN doc ELSE saved
    /\ UNCHANGED <<doc, revision, disk, queue, work, receipts, status, failures, history>>

-----------------------------------------------------------------------------
SaveStep ==
    \/ StartSave \/ Materialize \/ RematerializeOnce \/ FailMaterialize \/ CompleteSave

Next ==
    \/ \E p \in Passage, t \in Text : PersistedEdit(p, t) \/ PlainEdit(p, t) \/ BroadEdit(p, t)
    \/ \E p \in Passage : RetryPersistence(p)
    \/ SaveStep \/ FallBackToFull \/ FailSave
    \/ NotifySaved
    \/ \E r \in acks : AcknowledgeSaved(r)

Spec == Init /\ [][Next]_vars

(***************************************************************************)
(* Fairness: a save that began goes on, and the renderer's event loop runs *)
(* its effects and its mutation queue.  Nobody is obliged to edit or retry.*)
(***************************************************************************)
FairSpec ==
    Spec /\ WF_vars(SaveStep) /\ WF_vars(NotifySaved)
         /\ WF_vars(\E r \in acks : AcknowledgeSaved(r))

-----------------------------------------------------------------------------
TypeOK ==
    /\ doc \in Documents /\ saved \in Documents /\ disk \in Documents
    /\ revision \in Revision
    /\ queue \in Seq(Save)
    /\ work \in Work \cup {None}
    /\ (work # None => queue # <<>>)
    /\ receipts \in [Passage -> Receipt \cup {None}]
    /\ status \in Revision \cup {None}
    /\ acks \subseteq Revision
    /\ failures \in 0 .. MaxFailures
    /\ failed \subseteq Passage
    /\ wrote \in [Passage -> Nat]

(***************************************************************************)
(* When the queue is empty the folder holds the document, save for the     *)
(* passages whose last save failed: the texts that reached the disk last   *)
(* are those of the last edits, whatever mixture of incremental, whole and *)
(* retried saves carried them.                                             *)
(***************************************************************************)
IdleOnDisk == queue = <<>> => \A p \in Passage \ failed : disk[p] = doc[p]

(***************************************************************************)
(* When Rust accepts the document as saved, the folder holds every passage *)
(* whose last save did not fail.                                           *)
(***************************************************************************)
AcknowledgedOnDisk ==
    [][saved' # saved => \A p \in Passage \ failed : disk[p] = saved'[p]]_vars

(***************************************************************************)
(* The text of a failed save is not lost: its receipt holds the text the   *)
(* document has, unless a save of that passage is on its way.              *)
(***************************************************************************)
FailedTextRetryable ==
    \A p \in failed : \/ AwaitsSave(p)
                      \/ receipts[p] # None /\ receipts[p].text = doc[p]

(***************************************************************************)
(* Once the user stops editing, and no save is refused, every queued save  *)
(* is done in the end and the document accepted as saved.                  *)
(***************************************************************************)
EventuallyClean == <>[](saved = doc /\ queue = <<>>)

-----------------------------------------------------------------------------
(***************************************************************************)
(* What the repository says of saves, and the code does not keep.          *)
(***************************************************************************)

\* "a completed write acknowledges only the exact revision that reached disk"
AcknowledgedRevisionOnDisk == [][saved' # saved => disk = saved']_vars

\* "clears only a failed receipt superseded by a successful write to the same
\* passage": no receipt is older than what was written since.
SupersededReceiptCleared ==
    \A p \in Passage : receipts[p] # None => receipts[p].revision >= wrote[p]
=============================================================================
