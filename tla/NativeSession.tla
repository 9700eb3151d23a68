----------------------------- MODULE NativeSession -----------------------------
(***************************************************************************)
(* The native project session of src/electron/main-process/                *)
(* project-folder.ts: the main process watches a project folder that other *)
(* programs write too, turns what they wrote into candidates for the       *)
(* renderer to resolve, and keeps the accepted baseline that its own saves *)
(* are compared with.  Every await of the code is a boundary between two   *)
(* actions here: other programs, the watcher, the timers, a save, an asset *)
(* effect and a resolution run between any two of them.                    *)
(*                                                                         *)
(* A file's content is a version, fresh for every edit, so two contents    *)
(* are equal only when they are the same edit (a file entry is compared by *)
(* its digest).  The functions that have no await inside - a poll up to    *)
(* its first await, its restart when a scan or a save ends - are operators *)
(* from one session state to the next.                                     *)
(***************************************************************************)
EXTENDS Integers, FiniteSets, Functions

CONSTANTS
    Path,         \* the project's source files
    AssetPath,    \* its asset files; {} when no asset is imported or replaced
    Savers,       \* the saves that may be in flight at once
    AssetEffects, \* the asset effects that may be in flight at once
    Resolver,     \* the renderer's call that resolves a candidate
    Resolutions,  \* the answers the user gives: keepApp, acceptDisk, dismiss
    None,
    MaxVersions,  \* bound on the edits, of the app and of other programs
    MaxSaves,     \* bound on the attempts to save
    MaxDeltas     \* bound on the candidates the user dismisses

Answers == {"keepApp", "acceptDisk", "dismiss"}

ASSUME ConstantsAssumption ==
    /\ Path \cap AssetPath = {}
    /\ Resolutions \subseteq Answers
    /\ Resolver \notin Savers \cup AssetEffects
    /\ Savers \cap AssetEffects = {}
    /\ IsFiniteSet(Savers)
    /\ MaxVersions \in Nat /\ MaxSaves \in Nat /\ MaxDeltas \in Nat

VARIABLES
    disk,        \* what each file holds
    app,         \* what the renderer's document holds for each file
    lastVersion, \* the newest edit
    session,     \* ProjectSessionState
    job,         \* the saves, asset effects and resolutions in flight
    attempts,    \* the saves tried so far
    lastDelta,   \* the newest candidate: ids are fresh (randomUUID)
    external,    \* history: the versions other programs wrote
    shown        \* history: the versions some candidate delivered

vars == <<disk, app, lastVersion, session, job, attempts, lastDelta,
          external, shown>>
history == <<external, shown>>

File == Path \cup AssetPath
Actor == Savers \cup AssetEffects \cup {Resolver}
Version == 0 .. MaxVersions
Files == [File -> Version]

(***************************************************************************)
(* The state of the session, of a candidate, of a scan and of a job.       *)
(***************************************************************************)
Candidate ==
    [id : Nat, generation : Nat, files : Files, changes : UNION {[C -> Version] : C \in SUBSET File},
     deliveryState : {"awaitingResolution", "deferred"}, reissued : BOOLEAN]

Scan == [mutationEpoch : Nat, hints : SUBSET File, baseline : Files,
         files : Files \cup {None}]

Session ==
    [generation : Nat, baseline : Files, pending : Candidate \cup {None},
     scan : Scan \cup {None}, hints : SUBSET File, debounce : BOOLEAN,
     depth : Nat, mutationEpoch : Nat, refreshEpoch : Nat,
     rescan : BOOLEAN, rescanReconcile : BOOLEAN,
     pollAfter : BOOLEAN, reconcileAfter : BOOLEAN,
     polls : SUBSET BOOLEAN, resolved : SUBSET Nat]

Kinds == {"incremental", "full", "asset", "keepApp", "acceptDisk"}
Job == [kind : Kinds, step : {"write", "read", "install"}, target : SUBSET File,
        files : Files, epoch : Nat, candidate : Candidate \cup {None}]

ASSUME NoneAssumption == None \notin Job \cup Candidate \cup Scan \cup Files

Init ==
    /\ disk = [f \in File |-> 0]
    /\ app = disk
    /\ lastVersion = 0
    /\ session = [generation |-> 1, baseline |-> disk, pending |-> None,
                  scan |-> None, hints |-> {}, debounce |-> FALSE,
                  depth |-> 0, mutationEpoch |-> 0, refreshEpoch |-> 0,
                  rescan |-> FALSE, rescanReconcile |-> FALSE,
                  pollAfter |-> FALSE, reconcileAfter |-> FALSE,
                  polls |-> {}, resolved |-> {}]
    /\ job = [a \in Actor |-> None]
    /\ attempts = 0
    /\ lastDelta = 0
    /\ external = {}
    /\ shown = {}

Awaiting(s) == s.pending # None /\ s.pending.deliveryState = "awaitingResolution"
Deferred(s) == s.pending # None /\ s.pending.deliveryState = "deferred"

(***************************************************************************)
(* Polls: what each function does up to its first await.                   *)
(***************************************************************************)
RequestRescan(s, reconcile) ==
    [s EXCEPT !.rescan = TRUE, !.rescanReconcile = @ \/ reconcile]

\* A hinted scan looks at the hinted files only; a reconciliation at all.
StartScan(s, reconcile) ==
    [s EXCEPT !.scan = [mutationEpoch |-> s.mutationEpoch,
                        hints |-> IF reconcile \/ s.hints = {} THEN File ELSE s.hints,
                        baseline |-> s.baseline, files |-> None],
              !.hints = {}]

Poll_Unleased(s, reconcile) ==
    IF s.depth > 0 THEN RequestRescan(s, TRUE)
    ELSE IF s.scan # None THEN RequestRescan(s, reconcile)
    ELSE StartScan(s, reconcile)

Poll(s, reconcile) ==
    IF s.depth > 0 THEN RequestRescan(s, TRUE)
    ELSE IF Awaiting(s)
    THEN [s EXCEPT !.pollAfter = TRUE, !.reconcileAfter = @ \/ reconcile]
    ELSE IF s.scan # None THEN RequestRescan(s, reconcile)
    ELSE StartScan(s, reconcile)

\* resumeProjectSessionRescan: a scan asked for meanwhile starts at once.
Resume(s) ==
    IF s.rescan /\ s.scan = None /\ s.depth = 0
    THEN Poll([s EXCEPT !.rescan = FALSE, !.rescanReconcile = FALSE,
                        !.debounce = FALSE], s.rescanReconcile)
    ELSE s

\* beginProjectAssetDigestRefresh: the newest refresh of the baseline wins.
BeginRefresh(s) == [s EXCEPT !.refreshEpoch = @ + 1]

\* finishProjectSessionLocalMutation
EndMutation(s) == Resume([s EXCEPT !.depth = @ - 1])

\* rememberProjectSessionResolution, then scheduleProjectSessionReconciliation
Resolved(s, id) ==
    LET t == [s EXCEPT !.resolved = @ \cup {id}] IN
    IF t.pollAfter \/ t.reconcileAfter \/ t.hints # {}
    THEN [t EXCEPT !.pollAfter = FALSE, !.reconcileAfter = FALSE,
                   !.debounce = FALSE, !.polls = @ \cup {t.reconcileAfter}]
    ELSE t

-----------------------------------------------------------------------------
(***************************************************************************)
(* Other programs, the app's own edits, and the ways a poll begins.        *)
(***************************************************************************)
Fresh == lastVersion + 1

ExternalWrite(f) ==
    /\ lastVersion < MaxVersions
    /\ lastVersion' = Fresh
    /\ disk' = [disk EXCEPT ![f] = Fresh]
    /\ external' = external \cup {Fresh}
    /\ UNCHANGED <<app, session, job, attempts, lastDelta, shown>>

AppEdit(p) ==
    /\ lastVersion < MaxVersions
    /\ lastVersion' = Fresh
    /\ app' = [app EXCEPT ![p] = Fresh]
    /\ UNCHANGED <<disk, session, job, attempts, lastDelta, history>>

\* The recursive watcher reports a path, at any time and also without cause.
WatcherEvent(f) ==
    /\ session' = [session EXCEPT !.hints = @ \cup {f}, !.debounce = TRUE]
    /\ UNCHANGED <<disk, app, lastVersion, job, attempts, lastDelta, history>>

DebouncedPoll ==
    /\ session.debounce
    /\ session' = Poll([session EXCEPT !.debounce = FALSE], FALSE)
    /\ UNCHANGED <<disk, app, lastVersion, job, attempts, lastDelta, history>>

IntervalPoll ==
    /\ session' = Poll(session, TRUE)
    /\ UNCHANGED <<disk, app, lastVersion, job, attempts, lastDelta, history>>

PollAfterResolution(reconcile) ==
    /\ reconcile \in session.polls
    /\ session' = Poll([session EXCEPT !.polls = @ \ {reconcile}], reconcile)
    /\ UNCHANGED <<disk, app, lastVersion, job, attempts, lastDelta, history>>

-----------------------------------------------------------------------------
(***************************************************************************)
(* The two halves of a scan that follow its awaits.                        *)
(***************************************************************************)
ReadManifest ==
    /\ session.scan # None /\ session.scan.files = None
    /\ session' = [session EXCEPT !.scan.files =
                     [f \in File |-> IF f \in session.scan.hints
                                     THEN disk[f] ELSE session.scan.baseline[f]]]
    /\ UNCHANGED <<disk, app, lastVersion, job, attempts, lastDelta, history>>

\* The contents are read after the manifest and may be newer than it.
Found(id) ==
    LET scan == session.scan
        changed == {f \in File : scan.files[f] # scan.baseline[f]}
    IN IF changed = {} THEN None
       ELSE [id |-> id, generation |-> session.generation + 1, files |-> scan.files,
             changes |-> [f \in changed |-> disk[f]],
             deliveryState |-> "awaitingResolution", reissued |-> FALSE]

Overtaken_WhileSaving == session.depth > 0

\* A local mutation began since the scan did: what it saw may be the app's own.
Overtaken == session.scan.mutationEpoch # session.mutationEpoch \/ session.depth > 0

SameSignature(candidate) ==
    candidate # None /\ session.pending # None /\ candidate.changes = session.pending.changes

\* The finally block of the poll is missing.
FinishScan_StillScanning ==
    /\ session.scan # None /\ session.scan.files # None
    /\ ~Overtaken
    /\ session' = [session EXCEPT !.pending = Found(lastDelta + 1)]
    /\ lastDelta' = lastDelta
    /\ UNCHANGED <<disk, app, lastVersion, job, attempts, history>>

FinishScan ==
    /\ session.scan # None /\ session.scan.files # None
    /\ LET found == Found(lastDelta + 1)
           idle == [session EXCEPT !.scan = None]
       IN IF Overtaken
          THEN /\ session' = Resume(RequestRescan(idle, TRUE))
               /\ UNCHANGED <<lastDelta, shown>>
          ELSE IF SameSignature(found)
          THEN /\ session' = Resume(idle)
               /\ UNCHANGED <<lastDelta, shown>>
          ELSE /\ session' = Resume([idle EXCEPT !.pending = found])
               /\ lastDelta' = IF found = None THEN lastDelta ELSE lastDelta + 1
               /\ shown' = IF found = None THEN shown ELSE shown \cup Range(found.changes)
    /\ UNCHANGED <<disk, app, lastVersion, job, attempts, external>>

-----------------------------------------------------------------------------
(***************************************************************************)
(* Local saves: saveProjectFolder, which the renderer calls with the story *)
(* it holds.  A candidate under review refuses the save; one the user put  *)
(* off is delivered again, under a new id.                                 *)
(***************************************************************************)
Idle(a) == job[a] = None
At(a, kinds, step) == job[a] # None /\ job[a].kind \in kinds /\ job[a].step = step

NewJob(kind, step, target) ==
    [kind |-> kind, step |-> step, target |-> target, files |-> app, epoch |-> 0,
     candidate |-> None]

\* beginProjectSessionLocalMutation refuses only the first of several saves.
Refuses(s) == s.depth = 0 /\ s.pending # None

BeginSave(a, kind, target) ==
    /\ Idle(a) /\ attempts < MaxSaves
    /\ ~Refuses(session)
    /\ attempts' = attempts + 1
    /\ job' = [job EXCEPT ![a] = NewJob(kind, "write", target)]
    /\ session' = [session EXCEPT !.depth = @ + 1, !.mutationEpoch = @ + 1]
    /\ UNCHANGED <<disk, app, lastVersion, lastDelta, history>>

\* reissueDeferredProjectSessionCandidate, and the save throws.
RefuseSave(a) ==
    /\ Idle(a) /\ attempts < MaxSaves
    /\ session.depth = 0 /\ Deferred(session)
    /\ attempts' = attempts + 1
    /\ lastDelta' = lastDelta + 1
    /\ session' = [session EXCEPT !.pending =
                     [@ EXCEPT !.id = lastDelta + 1, !.reissued = TRUE,
                               !.deliveryState = "awaitingResolution"]]
    /\ UNCHANGED <<disk, app, lastVersion, job, history>>

\* Compare and swap: the write happens only over the accepted baseline.
AcceptedOnDisk(p) == disk[p] = session.baseline[p]

WriteIncremental(a) ==
    /\ At(a, {"incremental"}, "write")
    /\ \A p \in job[a].target : AcceptedOnDisk(p)
    /\ disk' = [f \in File |-> IF f \in job[a].target THEN job[a].files[f] ELSE disk[f]]
    /\ job' = [job EXCEPT ![a].step = "read"]
    /\ UNCHANGED <<app, lastVersion, session, attempts, lastDelta, history>>

\* "changed outside twine.rs; refusing to overwrite it"
FailIncremental(a) ==
    /\ At(a, {"incremental"}, "write")
    /\ \E p \in job[a].target : ~AcceptedOnDisk(p)
    /\ job' = [job EXCEPT ![a] = None]
    /\ session' = EndMutation(session)
    /\ UNCHANGED <<disk, app, lastVersion, attempts, lastDelta, history>>

\* The entries are read again from disk into the baseline, and the asset
\* digests refreshed under an epoch of their own.
PatchBaseline(a) ==
    /\ At(a, {"incremental"}, "read")
    /\ session' = BeginRefresh([session EXCEPT !.baseline =
                    [f \in File |-> IF f \in job[a].target THEN disk[f] ELSE @[f]]])
    /\ job' = [job EXCEPT ![a].step = "install"]
    /\ UNCHANGED <<disk, app, lastVersion, attempts, lastDelta, history>>

FinishIncremental(a) ==
    /\ At(a, {"incremental"}, "install")
    /\ session' = EndMutation([session EXCEPT !.generation = @ + 1, !.pending = None])
    /\ job' = [job EXCEPT ![a] = None]
    /\ UNCHANGED <<disk, app, lastVersion, attempts, lastDelta, history>>

\* The full writer replaces every source file; the keepApp answer uses it too.
WriteFull(a) ==
    /\ At(a, {"full", "keepApp"}, "write")
    /\ disk' = [f \in File |-> IF f \in Path THEN job[a].files[f] ELSE disk[f]]
    /\ job' = [job EXCEPT ![a].step = "read"]
    /\ UNCHANGED <<app, lastVersion, session, attempts, lastDelta, history>>

\* An asset effect is no local mutation of the session: nothing holds polls.
BeginAssetEffect(a, f) ==
    /\ Idle(a) /\ lastVersion < MaxVersions
    /\ lastVersion' = Fresh
    /\ disk' = [disk EXCEPT ![f] = Fresh]
    /\ app' = [app EXCEPT ![f] = Fresh]
    /\ job' = [job EXCEPT ![a] = NewJob("asset", "read", {f})]
    /\ UNCHANGED <<session, attempts, lastDelta, history>>

\* refreshProjectSessionBaseline reads the whole folder ...
ReadSnapshot(a) ==
    /\ At(a, {"full", "keepApp", "asset"}, "read")
    /\ session' = BeginRefresh(session)
    /\ job' = [job EXCEPT ![a].step = "install", ![a].files = disk,
                          ![a].epoch = session.refreshEpoch + 1]
    /\ UNCHANGED <<disk, app, lastVersion, attempts, lastDelta, history>>

\* ... and installs what it read, unless a newer refresh has begun.
Installed(s, files, epoch) ==
    IF s.refreshEpoch = epoch
    THEN [s EXCEPT !.baseline = files, !.generation = @ + 1, !.pending = None]
    ELSE s

InstallSnapshot(a) ==
    /\ At(a, {"full", "keepApp", "asset"}, "install")
    /\ LET s == Installed(session, job[a].files, job[a].epoch)
       IN session' = CASE job[a].kind = "full"    -> EndMutation(s)
                       [] job[a].kind = "keepApp" -> Resolved(s, job[a].candidate.id)
                       [] job[a].kind = "asset"   -> s
    /\ job' = [job EXCEPT ![a] = None]
    /\ UNCHANGED <<disk, app, lastVersion, attempts, lastDelta, history>>

-----------------------------------------------------------------------------
(***************************************************************************)
(* resolveProjectSessionConflicts: the renderer answers the candidate.  An *)
(* id that is not pending is stale, one already resolved is answered from  *)
(* the cache; neither changes the session.                                 *)
(***************************************************************************)
Resolvable == session.pending # None /\ session.pending.id \notin session.resolved

BeginKeepApp ==
    /\ "keepApp" \in Resolutions /\ Idle(Resolver) /\ Resolvable
    /\ job' = [job EXCEPT ![Resolver] =
                 [NewJob("keepApp", "write", Path) EXCEPT !.candidate = session.pending]]
    /\ UNCHANGED <<disk, app, lastVersion, session, attempts, lastDelta, history>>

\* The renderer ingests the changes before it acknowledges them.
BeginAcceptDisk ==
    /\ "acceptDisk" \in Resolutions /\ Idle(Resolver) /\ Resolvable
    /\ app' = [f \in File |-> IF f \in DOMAIN session.pending.changes
                              THEN session.pending.changes[f] ELSE app[f]]
    /\ job' = [job EXCEPT ![Resolver] =
                 [NewJob("acceptDisk", "read", {}) EXCEPT !.candidate = session.pending]]
    /\ UNCHANGED <<disk, lastVersion, session, attempts, lastDelta, history>>

BeginAcceptedInstall ==
    /\ At(Resolver, {"acceptDisk"}, "read")
    /\ session' = BeginRefresh(session)
    /\ job' = [job EXCEPT ![Resolver].step = "install",
                          ![Resolver].epoch = session.refreshEpoch + 1]
    /\ UNCHANGED <<disk, app, lastVersion, attempts, lastDelta, history>>

\* Whether the baseline was installed or a newer refresh prevented it, the
\* generation and the candidate change the same way.
FinishAcceptDisk ==
    /\ At(Resolver, {"acceptDisk"}, "install")
    /\ LET r == job[Resolver]
       IN session' = Resolved(
            [session EXCEPT
               !.baseline = IF session.refreshEpoch = r.epoch THEN r.candidate.files ELSE @,
               !.generation = r.candidate.generation,
               !.pending = None], r.candidate.id)
    /\ job' = [job EXCEPT ![Resolver] = None]
    /\ UNCHANGED <<disk, app, lastVersion, attempts, lastDelta, history>>

Dismiss ==
    /\ "dismiss" \in Resolutions /\ Idle(Resolver) /\ Resolvable
    /\ lastDelta < MaxDeltas
    /\ session' = Resolved([session EXCEPT !.pending.deliveryState = "deferred"],
                           session.pending.id)
    /\ UNCHANGED <<disk, app, lastVersion, job, attempts, lastDelta, history>>

-----------------------------------------------------------------------------
Steps(a) ==
    \/ WriteIncremental(a) \/ FailIncremental(a) \/ PatchBaseline(a) \/ FinishIncremental(a)
    \/ WriteFull(a) \/ ReadSnapshot(a) \/ InstallSnapshot(a)

Resolve == BeginKeepApp \/ BeginAcceptDisk \/ Dismiss

Next ==
    \/ \E f \in File : ExternalWrite(f) \/ WatcherEvent(f)
    \/ \E p \in Path : AppEdit(p)
    \/ DebouncedPoll \/ IntervalPoll
    \/ \E reconcile \in BOOLEAN : PollAfterResolution(reconcile)
    \/ ReadManifest \/ FinishScan
    \/ \E a \in Savers : \/ \E p \in Path : BeginSave(a, "incremental", {p})
                         \/ BeginSave(a, "full", Path)
                         \/ RefuseSave(a)
    \/ \E a \in AssetEffects, f \in AssetPath : BeginAssetEffect(a, f)
    \/ \E a \in Actor : Steps(a)
    \/ Resolve
    \/ BeginAcceptedInstall \/ FinishAcceptDisk

Spec == Init /\ [][Next]_vars

(***************************************************************************)
(* Fairness.  Whatever awaits the disk is answered, the interval timer of  *)
(* the session keeps firing, and the user answers a review that is shown.  *)
(***************************************************************************)
Fairness ==
    /\ WF_vars(IntervalPoll) /\ WF_vars(ReadManifest) /\ WF_vars(FinishScan)
    /\ \A a \in Actor : WF_vars(Steps(a))
    /\ WF_vars(BeginAcceptedInstall) /\ WF_vars(FinishAcceptDisk)
    /\ WF_vars(Resolve)

FairSpec == Spec /\ Fairness

-----------------------------------------------------------------------------
TypeOK ==
    /\ disk \in Files /\ app \in Files
    /\ lastVersion \in Version
    /\ session \in Session
    /\ job \in [Actor -> Job \cup {None}]
    /\ attempts \in 0 .. MaxSaves
    /\ lastDelta \in Nat
    /\ external \subseteq Version /\ shown \subseteq Version

(***************************************************************************)
(* A candidate is a lease on the generation after the accepted one: no     *)
(* save, refresh or resolution moves the generation under a candidate it   *)
(* leaves pending.                                                         *)
(***************************************************************************)
LeaseOfNextGeneration ==
    session.pending # None => session.pending.generation = session.generation + 1

(***************************************************************************)
(* While the renderer ingests or reviews a candidate, nothing replaces or  *)
(* drops it but its own resolution: no poll, no scan that ends late, no    *)
(* save.  A candidate delivered again by a refused save is left out.       *)
(***************************************************************************)
LeaseHeld ==
    [][Awaiting(session) /\ ~session.pending.reissued =>
         \/ session'.pending = session.pending
         \/ session.pending.id \in session'.resolved]_vars

(***************************************************************************)
(* The app's own writes are never delivered to it as the change of another *)
(* program, whichever scan sees them: every delivered version is external. *)
(***************************************************************************)
OwnWritesNotDelivered == shown \subseteq external

(***************************************************************************)
(* A candidate that was resolved is no longer under review.  It could not  *)
(* be resolved again - the cache answers for it - and, as it refuses every *)
(* save and every poll, the project could never be saved again.            *)
(***************************************************************************)
ResolvedLeaseGone == Awaiting(session) => session.pending.id \notin session.resolved

(***************************************************************************)
(* The renderer learns the generations in order (recordExternalSession):   *)
(* no resolution sets one that a save or refresh has already passed.       *)
(***************************************************************************)
GenerationAdvances == [][session'.generation >= session.generation]_vars

(***************************************************************************)
(* Once other programs stop writing, every difference between the disk and *)
(* the accepted baseline is resolved, or put off by the user.              *)
(***************************************************************************)
ExternalChangesSettle == <>[](disk = session.baseline \/ Deferred(session))

-----------------------------------------------------------------------------
(***************************************************************************)
(* What the repository says of the session, and the code does not keep.    *)
(***************************************************************************)

\* "`awaitingResolution` candidates cannot be replaced while Rust ingestion or
\* review is active."
AwaitingCandidateKept ==
    [][Awaiting(session) =>
         \/ session'.pending = session.pending
         \/ session.pending.id \in session'.resolved]_vars

\* A save refuses to overwrite what changed outside twine.rs: it overwrites a
\* version of another program only when some candidate delivered it.
NoUnseenOverwrite ==
    [][\A a \in Savers : At(a, {"incremental"}, "write") /\ disk' # disk =>
         \A f \in job[a].target :
            disk'[f] = job[a].files[f] /\ disk[f] \in external => disk[f] \in shown]_vars
=============================================================================
