--------------------------- MODULE ProjectDeletion ----------------------------
(***************************************************************************)
(* How a project folder is deleted.  beginProjectFolderDeletion takes it   *)
(* out of the library and hides it behind a journal, the renderer retires  *)
(* its stories, commitProjectFolderDeletion makes the decision durable and *)
(* then disposes of the folder, rollbackProjectFolderDeletion puts it      *)
(* back, and recoverProjectDeletionTransactions finishes or undoes at the  *)
(* next start what a crash interrupted.                                    *)
(*                                                                         *)
(* There is one folder: deletions share nothing but the start, which fails *)
(* with the first that cannot be recovered.  A version of the folder is a  *)
(* number, what another program put in its place is Foreign.  The rollback *)
(* of a window that is gone is a worker of its own.                        *)
(***************************************************************************)
EXTENDS Naturals, FiniteSets

CONSTANTS
    None,
    Foreign,
    MaxCrashes,  \* bound on the crashes of the main process
    MaxFaults,   \* bound on the calls that fail
    MaxEdits     \* bound on the changes of other programs

\* The phases of a journal, and those of a deletion that is decided.
Phases == {"prepared", "staged", "renderer-committed", "cleanup-verified"}
Committed == {"renderer-committed", "cleanup-verified"}

ASSUME ConstantsAssumption ==
    /\ MaxCrashes \in Nat /\ MaxFaults \in Nat /\ MaxEdits \in Nat
    /\ None \notin Nat \cup Phases /\ Foreign \notin Nat /\ None # Foreign

VARIABLES
    tree,      \* what is at each place: a version of the folder, or None
    journal,   \* the phase of the persisted journal, or None
    baseline,  \* the version its manifest describes
    listed,    \* whether the persisted library index names the folder
    locked,    \* whether it is in activeProjectDeletionRoots
    begun,     \* whether the renderer may commit or roll back
    pc,        \* the step each worker is at
    job,       \* what the caller's worker does
    app,       \* whether the process runs, recovers or refuses to start
    shown,     \* whether the renderer has the project's stories
    told,      \* what the renderer was told of the last deletion
    crashes, faults, edits,
    trashed,   \* history: the versions sent to the trash
    abandoned  \* history: whether a window went while its commit was running

disk == <<tree, journal, baseline, listed>>
memory == <<locked, begun, app>>
renderer == <<shown, told>>
environment == <<crashes, faults, edits>>
history == <<trashed, abandoned>>
vars == <<disk, memory, pc, job, renderer, environment, history>>

Places == {"root", "staged", "quarantine"}
Workers == {"caller", "window"}
Versions == 0..MaxEdits

Exists(place) == tree[place] # None
Intact(place) == tree[place] = baseline

Init ==
    /\ tree = [place \in Places |-> IF place = "root" THEN 0 ELSE None]
    /\ journal = None /\ baseline = 0 /\ listed = TRUE
    /\ locked = FALSE /\ begun = FALSE /\ app = "up"
    /\ pc = [w \in Workers |-> "idle"] /\ job = "begin"
    /\ shown = TRUE /\ told = "nothing"
    /\ crashes = 0 /\ faults = 0 /\ edits = 0
    /\ trashed = {} /\ abandoned = FALSE

At(w, s) == pc[w] = s
Goto(w, s) == pc' = [pc EXCEPT ![w] = s]
\* What the caller of a commit is told, if it is still there.
Answers(answer) == told' = IF app = "closing" THEN told ELSE answer
Rename(from, to) == tree' = [tree EXCEPT ![to] = tree[from], ![from] = None]

(***************************************************************************)
(* How the work ends that fails.  A conflict is a tree that is not what    *)
(* the journal says; a failed disposal is pending cleanup; any other       *)
(* failure is an error.                                                    *)
(***************************************************************************)
Fails(w, why) ==
    \/ \* a restoration that fails keeps the lock, and the stories stay retired
       /\ w = "window" \/ job \in {"abort", "rollback"}
       /\ Goto(w, "idle")
       /\ shown' = (shown /\ (w = "caller" => job # "rollback"))
       /\ UNCHANGED <<job, memory, told>>
    \/ \* beginProjectFolderDeletion undoes what it did
       /\ w = "caller" /\ job = "begin"
       /\ Goto(w, "abort") /\ job' = "abort"
       /\ UNCHANGED <<memory, renderer>>
    \/ \* disposal that is left for the next start is no failure of a commit
       /\ w = "caller" /\ job = "commit"
       /\ Goto(w, "idle")
       /\ IF why = "pending"
          THEN locked' = FALSE /\ begun' = FALSE /\ Answers("committed")
          ELSE UNCHANGED <<locked, begun, told>>
       /\ UNCHANGED <<job, app, shown>>
    \/ \* nor of a start
       /\ w = "caller" /\ job = "recover"
       /\ Goto(w, "idle")
       /\ app' = IF why = "pending" /\ journal \in Committed THEN "recovered" ELSE "refused"
       /\ UNCHANGED <<job, locked, begun, renderer>>

Conflict(w) == Fails(w, "conflict") /\ UNCHANGED <<disk, environment, history>>
Error(w) == Fails(w, "error") /\ UNCHANGED <<disk, environment, history>>

(***************************************************************************)
(* beginProjectFolderDeletion.                                             *)
(***************************************************************************)
Begin ==
    /\ app = "up" /\ shown /\ ~locked /\ At("caller", "idle")
    /\ tree["root"] \in Versions
    /\ locked' = TRUE
    /\ baseline' = tree["root"]
    /\ journal' = "prepared"
    /\ Goto("caller", "forget") /\ job' = "begin"
    /\ UNCHANGED <<tree, listed, begun, app, renderer, environment, history>>

Forget ==
    /\ At("caller", "forget")
    /\ listed' = FALSE
    /\ Goto("caller", "verify")
    /\ UNCHANGED <<tree, journal, baseline, memory, job, renderer, environment, history>>

VerifyRoot ==
    /\ At("caller", "verify")
    /\ \/ /\ Intact("root")
          /\ Goto("caller", "stage")
          /\ UNCHANGED <<disk, memory, job, renderer, environment, history>>
       \/ ~Intact("root") /\ Conflict("caller")

Stage ==
    /\ At("caller", "stage")
    /\ Rename("root", "staged")
    /\ Goto("caller", "journal")
    /\ UNCHANGED <<journal, baseline, listed, memory, job, renderer, environment, history>>

\* The transaction is returned to the renderer, which may now finish it.
WriteStaged ==
    /\ At("caller", "journal")
    /\ \/ /\ Intact("staged")
          /\ journal' = "staged"
          /\ begun' = TRUE
          /\ Goto("caller", "idle")
          /\ UNCHANGED <<tree, baseline, listed, locked, app, job, renderer,
                         environment, history>>
       \/ ~Intact("staged") /\ Conflict("caller")

\* A folder that was not moved is listed again as it is.
AbortUnstaged ==
    /\ At("caller", "abort")
    /\ \/ /\ Exists("root") /\ ~Exists("staged")
          /\ listed' = TRUE
          /\ Goto("caller", "restored")
          /\ UNCHANGED <<tree, journal, baseline>>
       \/ /\ ~(Exists("root") /\ ~Exists("staged"))
          /\ Goto("caller", "restore")
          /\ UNCHANGED disk
    /\ UNCHANGED <<memory, job, renderer, environment, history>>

(***************************************************************************)
(* restoreProjectDeletion.                                                 *)
(***************************************************************************)
Restorable == Exists("staged") => Intact("staged")

Restore(w) ==
    /\ At(w, "restore")
    /\ \/ Exists("root") = Exists("staged") /\ Error(w)
       \/ Exists("root") # Exists("staged") /\ ~Restorable /\ Conflict(w)
       \/ /\ Exists("root") # Exists("staged") /\ Restorable
          /\ IF Exists("staged") THEN Rename("staged", "root") ELSE UNCHANGED tree
          /\ Goto(w, "verify restored")
          /\ UNCHANGED <<journal, baseline, listed, memory, job, renderer,
                         environment, history>>

\* A restored folder is left out of the library.
Relist_Forgotten(w) ==
    /\ At(w, "verify restored")
    /\ Goto(w, "restored")
    /\ UNCHANGED <<disk, memory, job, renderer, environment, history>>

Relist(w) ==
    /\ At(w, "verify restored")
    /\ \/ /\ Intact("root")
          /\ listed' = TRUE
          /\ Goto(w, "restored")
          /\ UNCHANGED <<tree, journal, baseline, memory, job, renderer,
                         environment, history>>
       \/ ~Intact("root") /\ Conflict(w)

Restored(w) ==
    /\ At(w, "restored")
    /\ journal' = None
    /\ Goto(w, "idle")
    /\ locked' = FALSE
    /\ \/ /\ w = "window" \/ job # "recover"
          /\ begun' = FALSE
          /\ told' = IF w = "caller" THEN "restored" ELSE told
          /\ shown' = (shown \/ (w = "caller" /\ job = "rollback"))
          /\ UNCHANGED app
       \/ /\ w = "caller" /\ job = "recover"
          /\ app' = "recovered"
          /\ UNCHANGED <<begun, renderer>>
    /\ UNCHANGED <<tree, baseline, listed, job, environment, history>>

(***************************************************************************)
(* finalizeProjectDeletion and quarantineAndTrashProjectDeletion.          *)
(***************************************************************************)
Cleanable ==
    /\ ~Exists("root")
    /\ ~(Exists("staged") /\ Exists("quarantine"))
    /\ Exists("staged") => Intact("staged")
    /\ Exists("quarantine") => Intact("quarantine")

\* A commit goes by the phase it wrote, a start by the one it read.
Verifies == job = "commit" \/ journal = "renderer-committed"

Finalize ==
    /\ At("caller", "finalize")
    /\ \/ /\ Verifies /\ Cleanable
          /\ journal' = "cleanup-verified"
          /\ Goto("caller", "look")
          /\ UNCHANGED <<tree, baseline, listed, memory, job, renderer,
                         environment, history>>
       \/ Verifies /\ ~Cleanable /\ Conflict("caller")
       \/ /\ ~Verifies
          /\ Goto("caller", "look")
          /\ UNCHANGED <<disk, memory, job, renderer, environment, history>>

\* A cleanup that finds nothing left to clean up is a conflict.
Look_Missing ==
    /\ At("caller", "look")
    /\ \/ /\ Exists("staged") = Exists("quarantine") \/ (Exists("staged") /\ ~Intact("staged"))
          /\ Conflict("caller")
       \/ /\ Exists("staged") # Exists("quarantine") /\ (Exists("staged") => Intact("staged"))
          /\ Goto("caller", IF Exists("staged") THEN "move" ELSE "trash")
          /\ UNCHANGED <<disk, memory, job, renderer, environment, history>>

Look ==
    /\ At("caller", "look")
    /\ \/ /\ Exists("staged") /\ (Exists("quarantine") \/ ~Intact("staged"))
          /\ Conflict("caller")
       \/ /\ ~(Exists("staged") /\ (Exists("quarantine") \/ ~Intact("staged")))
          /\ Goto("caller", IF Exists("staged") THEN "move"
                            ELSE IF Exists("quarantine") THEN "trash" ELSE "clear")
          /\ UNCHANGED <<disk, memory, job, renderer, environment, history>>

MoveAside ==
    /\ At("caller", "move")
    /\ \/ /\ Exists("staged")
          /\ Rename("staged", "quarantine")
          /\ Goto("caller", "trash")
          /\ UNCHANGED <<journal, baseline, listed, memory, job, renderer,
                         environment, history>>
       \/ /\ ~Exists("staged")
          /\ Fails("caller", "pending") /\ UNCHANGED <<disk, environment, history>>

Trash ==
    /\ At("caller", "trash")
    /\ \/ /\ Intact("quarantine")
          /\ tree' = [tree EXCEPT !["quarantine"] = None]
          /\ trashed' = trashed \cup {tree["quarantine"]}
          /\ Goto("caller", "clear")
          /\ UNCHANGED <<journal, baseline, listed, memory, job, renderer, environment,
                         abandoned>>
       \/ ~Intact("quarantine") /\ Conflict("caller")

Finalized ==
    /\ At("caller", "clear")
    /\ journal' = None
    /\ Goto("caller", "idle")
    /\ locked' = FALSE
    /\ \/ /\ job = "commit"
          /\ begun' = FALSE /\ Answers("committed")
          /\ UNCHANGED <<app, shown>>
       \/ /\ job = "recover"
          /\ app' = "recovered"
          /\ UNCHANGED <<begun, renderer>>
    /\ UNCHANGED <<tree, baseline, listed, job, environment, history>>

(***************************************************************************)
(* The renderer: it retires the stories of a folder that is staged, has    *)
(* the deletion committed, and has it rolled back when either fails.  A    *)
(* decision that was taken is not rolled back.                             *)
(***************************************************************************)
Retire ==
    /\ app = "up" /\ begun /\ shown /\ job = "begin" /\ At("caller", "idle")
    /\ shown' = FALSE
    /\ UNCHANGED <<disk, memory, pc, job, told, environment, history>>

\* The journal is read and, when it says staged, replaced.
Commit ==
    /\ app = "up" /\ begun /\ ~shown /\ job = "begin" /\ At("caller", "idle")
    /\ journal = "staged"
    /\ Goto("caller", "decide") /\ job' = "commit"
    /\ UNCHANGED <<disk, memory, renderer, environment, history>>

\* The folder is disposed of before the decision is durable.
Decide_Late ==
    /\ At("caller", "decide")
    /\ Goto("caller", "look")
    /\ UNCHANGED <<disk, memory, job, renderer, environment, history>>

Decide ==
    /\ At("caller", "decide")
    /\ journal' = "renderer-committed"
    /\ Goto("caller", "finalize")
    /\ UNCHANGED <<tree, baseline, listed, memory, job, renderer, environment, history>>

Rollback ==
    /\ app = "up" /\ begun /\ At("caller", "idle") /\ At("window", "idle")
    /\ job' = "rollback"
    /\ IF journal \in Committed THEN UNCHANGED pc ELSE Goto("caller", "restore")
    /\ job # "rollback"
    /\ UNCHANGED <<disk, memory, renderer, environment, history>>

\* Its window goes, and with it the app; the rollback starts from the journal it
\* reads now, and the end of the process may cut it short.
Abandon ==
    /\ app = "up" /\ begun /\ At("window", "idle")
    /\ abandoned' = (abandoned \/ (job = "commit" /\ ~At("caller", "idle")))
    /\ begun' = FALSE /\ shown' = FALSE /\ app' = "closing"
    /\ IF journal \in {"prepared", "staged"} THEN Goto("window", "restore") ELSE UNCHANGED pc
    /\ UNCHANGED <<disk, locked, job, told, environment, trashed>>

(***************************************************************************)
(* recoverProjectDeletionTransactions, at the start of the process.        *)
(***************************************************************************)
\* A start undoes a deletion whatever its journal says.
StartRecovery_Undoes ==
    /\ app \in {"down", "refused"}
    /\ app' = IF journal = None THEN "recovered" ELSE "recovering"
    /\ job' = "recover"
    /\ IF journal = None THEN UNCHANGED pc ELSE Goto("caller", "restore")
    /\ UNCHANGED <<disk, locked, begun, renderer, environment, history>>

StartRecovery ==
    /\ app \in {"down", "refused"}
    /\ app' = IF journal = None THEN "recovered" ELSE "recovering"
    /\ job' = "recover"
    /\ IF journal = None THEN UNCHANGED pc
       ELSE Goto("caller", IF journal \in Committed THEN "finalize" ELSE "restore")
    /\ UNCHANGED <<disk, locked, begun, renderer, environment, history>>

\* The renderer gets the folders the library lists; one that is missing is
\* forgotten.
LoadStories ==
    /\ app = "recovered"
    /\ app' = "up"
    /\ shown' = (listed /\ Exists("root"))
    /\ listed' = (listed /\ Exists("root"))
    /\ UNCHANGED <<tree, journal, baseline, locked, begun, pc, job, told,
                   environment, history>>

(***************************************************************************)
(* Failures and other programs.                                            *)
(***************************************************************************)
\* The call of a step fails.  A disposal that fails is pending; finalize makes
\* a conflict of a journal it cannot write.
FaultKind(w) ==
    IF pc[w] = "finalize" THEN "conflict"
    ELSE IF pc[w] \in {"move", "trash", "clear"} THEN "pending"
    ELSE "error"

Fault(w) ==
    /\ ~At(w, "idle")
    /\ faults < MaxFaults /\ faults' = faults + 1
    /\ Fails(w, FaultKind(w))
    /\ UNCHANGED <<disk, crashes, edits, history>>

Stop ==
    /\ app' = "down" /\ shown' = FALSE
    /\ locked' = FALSE /\ begun' = FALSE
    /\ pc' = [w \in Workers |-> "idle"]
    /\ UNCHANGED <<disk, job, told, faults, edits, history>>

Crash == app # "down" /\ crashes < MaxCrashes /\ crashes' = crashes + 1 /\ Stop
Exit == app = "closing" /\ Stop /\ UNCHANGED crashes

\* Another program changes a file of the folder, wherever it is, or makes a
\* folder where it was.
Edit(place) ==
    /\ edits < MaxEdits /\ edits' = edits + 1
    /\ IF tree[place] \in Versions
       THEN tree' = [tree EXCEPT ![place] = edits + 1]
       ELSE place = "root" /\ ~Exists(place) /\ tree' = [tree EXCEPT ![place] = Foreign]
    /\ UNCHANGED <<journal, baseline, listed, memory, pc, job, renderer,
                   crashes, faults, history>>

Work ==
    \/ Forget \/ VerifyRoot \/ Stage \/ WriteStaged \/ AbortUnstaged
    \/ \E w \in Workers : Restore(w) \/ Relist(w) \/ Restored(w)
    \/ Decide \/ Finalize \/ Look \/ MoveAside \/ Trash \/ Finalized

Next ==
    \/ Begin \/ Work
    \/ Retire \/ Commit \/ Rollback \/ Abandon
    \/ StartRecovery \/ LoadStories \/ Crash \/ Exit
    \/ \E w \in Workers : Fault(w)
    \/ \E place \in Places : Edit(place)

\* The process goes on with its work, and an app that is down or refused to
\* start is started again.
Fairness == WF_vars(Work) /\ WF_vars(StartRecovery)
            /\ WF_vars(LoadStories) /\ WF_vars(Exit)

Spec == Init /\ [][Next]_vars /\ Fairness
-----------------------------------------------------------------------------
Steps == {"idle", "forget", "verify", "stage", "journal", "abort", "restore",
          "verify restored", "restored", "decide", "finalize", "look", "move",
          "trash", "clear"}

DiskTypes ==
    /\ tree \in [Places -> Versions \cup {None, Foreign}]
    /\ journal \in Phases \cup {None}
    /\ baseline \in Versions
    /\ listed \in BOOLEAN
    /\ trashed \subseteq Versions

WorkTypes ==
    /\ pc \in [Workers -> Steps]
    /\ pc["window"] \in {"idle", "restore", "verify restored", "restored"}
    /\ job \in {"begin", "abort", "commit", "rollback", "recover"}
    /\ app \in {"up", "closing", "down", "recovering", "recovered", "refused"}
    /\ told \in {"nothing", "committed", "restored"}

MemoryTypes ==
    /\ locked \in BOOLEAN /\ begun \in BOOLEAN /\ shown \in BOOLEAN
    /\ crashes \in Nat /\ faults \in Nat /\ edits \in Nat
    /\ abandoned \in BOOLEAN

TypeOK == DiskTypes /\ WorkTypes /\ MemoryTypes

\* The deletion is decided: its journal says so, or the folder is gone and so is
\* the journal.
Deleted ==
    \/ journal \in Committed
    \/ journal = None /\ tree["root"] \notin Versions

Removal == INSTANCE CohortChange
    WITH Project <- {"folder"},
         kept <- [p \in {"folder"} |-> IF Deleted THEN "new" ELSE "old"],
         told <- [p \in {"folder"} |-> told]

\* A folder is deleted in one step that nothing takes back: no crash, failure,
\* recovery or change by another program brings a deleted project back, and a
\* renderer that is told "committed" or "restored" is told what will last.  A
\* window that goes while its commit is running is excepted.
ImplementsRemoval ==
    Removal!Init /\ [][Removal!Next \/ abandoned]_(Removal!vars)

\* Only what the user deleted goes to the trash, and only once the decision is
\* durable; what another program wrote since stays, wherever the folder was.
OnlyTheDeletedTrashed == trashed \subseteq {baseline} /\ (trashed # {} => Deleted)

\* A project that is not deleted is there, in its place or hidden beside it.
UndeletedExists ==
    ~Deleted => \E place \in {"root", "staged"} : tree[place] \in Versions

\* No version of the folder is lost, neither the one that was to be deleted
\* before it is decided nor what another program made of it.
VersionsSafe == OnlyTheDeletedTrashed /\ UndeletedExists

AtRest == app = "up" /\ pc = [w \in Workers |-> "idle"]

\* Once a deletion is settled, the library and the renderer have the project
\* exactly when its folder is there, and nothing is left beside it; but for a
\* window that went while its commit was running.
SettledEverywhere ==
    AtRest /\ journal = None /\ ~abandoned =>
        /\ listed = (tree["root"] \in Versions)
        /\ shown = listed
        /\ ~Exists("staged") /\ ~Exists("quarantine")

\* While a deletion may still be undone, the app cannot write the project.
UnsettledLocked == app = "up" /\ journal # None /\ ~Deleted => locked

\* A deletion is settled in the library, the renderer and on disk alike, or its
\* folder is locked.
SettledOrLocked == SettledEverywhere /\ UnsettledLocked

\* The app starts in the end, unless another program changed the folder, or the
\* rollback of a window that was gone raced with its commit.
StartsInTheEnd == app = "down" ~> app = "up" \/ edits > 0 \/ abandoned

-----------------------------------------------------------------------------
\* What the code says, "A committed project deletion cannot be rolled back.",
\* and does not keep.
CommittedStaysDeleted == [][Deleted => Deleted']_Deleted

====
