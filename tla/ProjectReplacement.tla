-------------------------- MODULE ProjectReplacement --------------------------
(***************************************************************************)
(* How an import replaces project folders: beginProjectReplacement stages  *)
(* a folder beside each one and swaps it in behind a journal,              *)
(* commitProjectReplacements makes the decision for all of them durable    *)
(* before it disposes of any backup, rollbackProjectReplacement puts the   *)
(* old folder back, and recoverProjectReplacementTransactions finishes or  *)
(* undoes at the next start what a crash interrupted, a crash in recovery  *)
(* included.                                                               *)
(*                                                                         *)
(* A folder is a tree: the one before, the new one, a copy that was not    *)
(* finished, or one of the first two with the changes of another program.  *)
(* Verification compares whole trees, as the manifests of the code do.     *)
(* Each rename, journal write and disposal is a step of its own; recovery  *)
(* runs at the start of the process only.                                  *)
(***************************************************************************)
EXTENDS Naturals, FiniteSets

CONSTANTS
    Project,
    None,
    RollsBackDecided,  \* whether a member of a decision may be rolled back
    MaxCrashes,        \* bound on the crashes of the main process
    MaxFaults,         \* bound on the file system calls that fail
    MaxEdits           \* bound on the changes of other programs

Trees == {"old", "new", "part", "old+", "new+", "foreign"}
Phases == {"staging", "prepared", "backup-moved", "installed",
           "renderer-committed", "cleanup-verified"}

ASSUME ConstantsAssumption ==
    /\ None \notin Trees \cup Phases
    /\ RollsBackDecided \in BOOLEAN
    /\ MaxCrashes \in Nat /\ MaxFaults \in Nat /\ MaxEdits \in Nat

VARIABLES
    tree,      \* the tree at each place beside a project
    journal,   \* the phase of its persisted journal, or None
    decision,  \* the members of the persisted commit decision
    locks,     \* activeProjectReplacementRoots
    begun,     \* the transactions the renderer may commit or roll back
    pc,        \* the step the work on each project is at
    job,       \* what that work is part of
    step,      \* how far the disposal of a root is
    commit,    \* the commit in progress
    app,       \* whether the process runs, recovers or refuses to start
    start,     \* the projects the recovery has yet to visit
    told,      \* what the renderer was told of each replacement
    crashes, faults, edits,
    edited,    \* history: the projects another program changed
    own        \* history: those the app changed with a journal left behind

disk == <<tree, journal, decision>>
memory == <<locks, begun, commit, app, start>>
work == <<pc, job, step>>
environment == <<crashes, faults, edits, edited, own>>
vars == <<disk, memory, work, told, environment>>

Roots == {"root", "backup", "staging"}
Places == Roots \cup {"q-root", "q-backup", "q-staging"}
Committed == {"renderer-committed", "cleanup-verified"}
NoCommit == [members |-> {}, todo |-> {}, conflict |-> FALSE, pending |-> FALSE]

Exists(p, place) == tree[p][place] # None

Init ==
    /\ tree = [p \in Project |->
                 [place \in Places |-> IF place = "root" THEN "old" ELSE None]]
    /\ journal = [p \in Project |-> None]
    /\ decision = {}
    /\ locks = {} /\ begun = {} /\ commit = NoCommit
    /\ app = "up" /\ start = {}
    /\ pc = [p \in Project |-> "idle"]
    /\ job = [p \in Project |-> "begin"]
    /\ step = [p \in Project |-> "look"]
    /\ told = [p \in Project |-> "nothing"]
    /\ crashes = 0 /\ faults = 0 /\ edits = 0 /\ edited = {} /\ own = {}

Put(p, place, t) == tree' = [tree EXCEPT ![p][place] = t]
Rename(p, from, to) ==
    tree' = [tree EXCEPT ![p][to] = tree[p][from], ![p][from] = None]
WriteJournal(p, phase) == journal' = [journal EXCEPT ![p] = phase]

At(p, s) == pc[p] = s
GoTo(p, s) == /\ pc' = [pc EXCEPT ![p] = s]
              /\ step' = [step EXCEPT ![p] = "look"]
              /\ UNCHANGED job
Start(p, s, j) == /\ pc' = [pc EXCEPT ![p] = s]
                  /\ job' = [job EXCEPT ![p] = j]
                  /\ step' = [step EXCEPT ![p] = "look"]

(***************************************************************************)
(* How the work on a project ends, for whoever began it.  A conflict is a  *)
(* tree that is not what the journal says; the failure of a disposal is    *)
(* pending cleanup; any other failure is an error.                         *)
(***************************************************************************)
\* A member of the commit is done with; the commit goes on to the next.
CommitVisited(p, conflict, pending) ==
    commit' = [commit EXCEPT !.todo = @ \ {p}, !.conflict = @ \/ conflict,
                             !.pending = @ \/ pending]

Fails(p, why) ==
    \/ \* beginProjectReplacement restores what it staged or moved
       /\ job[p] = "begin"
       /\ Start(p, "undo", "abort")
       /\ UNCHANGED <<memory, told>>
    \/ \* a failed restoration keeps the lock
       /\ job[p] \in {"abort", "rollback"}
       /\ GoTo(p, "idle")
       /\ UNCHANGED <<memory, told>>
    \/ /\ job[p] = "commit"
       /\ GoTo(p, "idle")
       /\ CommitVisited(p, why = "conflict", why # "conflict")
       /\ locks' = IF why = "conflict" THEN locks ELSE locks \ {p}
       /\ UNCHANGED <<begun, app, start, told>>
    \/ \* startup puts up with pending cleanup of what was committed
       /\ job[p] = "recover"
       /\ GoTo(p, "idle")
       /\ IF why = "pending" /\ journal[p] \in Committed
          THEN start' = start \ {p} /\ UNCHANGED app
          ELSE app' = "refused" /\ UNCHANGED start
       /\ UNCHANGED <<locks, begun, commit, told>>

Conflict(p) == Fails(p, "conflict") /\ UNCHANGED <<disk, environment>>

Finishes(p) ==
    /\ GoTo(p, "idle")
    /\ locks' = locks \ {p}
    /\ begun' = begun \ {p}
    /\ IF job[p] = "commit" THEN CommitVisited(p, FALSE, FALSE) ELSE UNCHANGED commit
    /\ start' = start \ {p}
    /\ told' = IF job[p] \in {"abort", "rollback"}
               THEN [told EXCEPT ![p] = "restored"] ELSE told
    /\ UNCHANGED app

(***************************************************************************)
(* beginProjectReplacement.                                                *)
(***************************************************************************)
Begin(p) ==
    /\ app = "up" /\ At(p, "idle")
    /\ p \notin locks /\ journal[p] = None /\ tree[p]["root"] = "old"
    /\ locks' = locks \cup {p}
    /\ WriteJournal(p, "staging")
    /\ Start(p, "copy", "begin")
    /\ UNCHANGED <<tree, decision, begun, commit, app, start, told, environment>>

CopyRoot(p) ==
    /\ At(p, "copy")
    /\ Put(p, "staging", "part")
    /\ GoTo(p, "write")
    /\ UNCHANGED <<journal, decision, memory, told, environment>>

WriteStaging(p) ==
    /\ At(p, "write")
    /\ Put(p, "staging", "new")
    /\ GoTo(p, "prepare")
    /\ UNCHANGED <<journal, decision, memory, told, environment>>

WritePrepared(p) ==
    /\ At(p, "prepare")
    /\ WriteJournal(p, "prepared")
    /\ GoTo(p, "verify")
    /\ UNCHANGED <<tree, decision, memory, told, environment>>

VerifyRoot(p) ==
    /\ At(p, "verify")
    /\ \/ /\ tree[p]["root"] = "old"
          /\ GoTo(p, "move")
          /\ UNCHANGED <<disk, memory, told, environment>>
       \/ tree[p]["root"] # "old" /\ Conflict(p)

MoveToBackup(p) ==
    /\ At(p, "move")
    /\ Rename(p, "root", "backup")
    /\ GoTo(p, "moved")
    /\ UNCHANGED <<journal, decision, memory, told, environment>>

WriteBackupMoved(p) ==
    /\ At(p, "moved")
    /\ \/ /\ tree[p]["backup"] = "old"
          /\ WriteJournal(p, "backup-moved")
          /\ GoTo(p, "install")
          /\ UNCHANGED <<tree, decision, memory, told, environment>>
       \/ tree[p]["backup"] # "old" /\ Conflict(p)

\* The rename fails when another program made a new root.
InstallStaging(p) ==
    /\ At(p, "install")
    /\ \/ /\ ~Exists(p, "root")
          /\ Rename(p, "staging", "root")
          /\ GoTo(p, "installed")
          /\ UNCHANGED <<journal, decision, memory, told, environment>>
       \/ Exists(p, "root") /\ Fails(p, "error") /\ UNCHANGED <<disk, environment>>

WriteInstalled(p) ==
    /\ At(p, "installed")
    /\ \/ /\ tree[p]["root"] = "new"
          /\ WriteJournal(p, "installed")
          /\ GoTo(p, "register")
          /\ UNCHANGED <<tree, decision, memory, told, environment>>
       \/ tree[p]["root"] # "new" /\ Conflict(p)

\* The new folder is read and remembered, and the transaction returned.
Register(p) ==
    /\ At(p, "register")
    /\ GoTo(p, "idle")
    /\ begun' = begun \cup {p}
    /\ UNCHANGED <<disk, locks, commit, app, start, told, environment>>

(***************************************************************************)
(* quarantineAndTrashReplacementOwnedRoot.  The root is verified where it  *)
(* is, moved aside, verified again and only then sent to the trash.        *)
(***************************************************************************)
Disposal == [undoRoot |-> "root", undoStaging |-> "staging",
             endBackup |-> "backup", endStaging |-> "staging"]
Following == [undoRoot |-> "undoBackup", undoStaging |-> "undone",
              endBackup |-> "endStaging", endStaging |-> "ended"]
Quarantine == [root |-> "q-root", backup |-> "q-backup", staging |-> "q-staging"]
Expected == [root |-> "new", backup |-> "old", staging |-> "new"]

Disposing(p, s) == pc[p] \in DOMAIN Disposal /\ step[p] = s
GoOn(p, s) == step' = [step EXCEPT ![p] = s] /\ UNCHANGED <<pc, job>>
\* A root is disposed of without a look at its tree.
Verified_Any(p, place, root) == TRUE

Verified(p, place, root) == tree[p][place] = Expected[root]

LookForRoot(p) ==
    /\ Disposing(p, "look")
    /\ LET root == Disposal[pc[p]]  aside == Quarantine[root] IN
         \/ /\ Exists(p, root) /\ ~Exists(p, aside) /\ Verified(p, root, root)
            /\ GoOn(p, "move")
            /\ UNCHANGED <<disk, memory, told, environment>>
         \/ /\ Exists(p, root) /\ (Exists(p, aside) \/ ~Verified(p, root, root))
            /\ Conflict(p)
         \/ /\ ~Exists(p, root) /\ Exists(p, aside)
            /\ GoOn(p, "trash")
            /\ UNCHANGED <<disk, memory, told, environment>>
         \/ /\ ~Exists(p, root) /\ ~Exists(p, aside)
            /\ GoTo(p, Following[pc[p]])
            /\ UNCHANGED <<disk, memory, told, environment>>

MoveAside(p) ==
    /\ Disposing(p, "move")
    /\ LET root == Disposal[pc[p]] IN Rename(p, root, Quarantine[root])
    /\ GoOn(p, "trash")
    /\ UNCHANGED <<journal, decision, memory, told, environment>>

Trash(p) ==
    /\ Disposing(p, "trash")
    /\ LET root == Disposal[pc[p]]  aside == Quarantine[root] IN
         \/ /\ Verified(p, aside, root)
            /\ Put(p, aside, None)
            /\ GoTo(p, Following[pc[p]])
            /\ UNCHANGED <<journal, decision, memory, told, environment>>
         \/ ~Verified(p, aside, root) /\ Conflict(p)

(***************************************************************************)
(* restoreProjectReplacement.                                              *)
(***************************************************************************)
Restore(p) ==
    /\ At(p, "undo")
    /\ \/ /\ Exists(p, "backup")
          /\ tree[p]["backup"] = "old" /\ journal[p] # "staging"
          /\ GoTo(p, "undoRoot")
          /\ UNCHANGED <<disk, memory, told, environment>>
       \/ /\ Exists(p, "backup")
          /\ tree[p]["backup"] # "old" \/ journal[p] = "staging"
          /\ Conflict(p)
       \/ /\ ~Exists(p, "backup") /\ Exists(p, "root")
          /\ GoTo(p, "undoneRoot")
          /\ UNCHANGED <<disk, memory, told, environment>>
       \/ /\ ~Exists(p, "backup") /\ ~Exists(p, "root")
          /\ Fails(p, "error") /\ UNCHANGED <<disk, environment>>

MoveBackupBack(p) ==
    /\ At(p, "undoBackup")
    /\ \/ /\ ~Exists(p, "root")
          /\ Rename(p, "backup", "root")
          /\ GoTo(p, "undoneRoot")
          /\ UNCHANGED <<journal, decision, memory, told, environment>>
       \/ Exists(p, "root") /\ Fails(p, "error") /\ UNCHANGED <<disk, environment>>

\* A rollback forgets the staging folder of a prepared replacement.
RestoreStaging_Skipped(p) ==
    /\ At(p, "undoneRoot")
    /\ GoTo(p, "undone")
    /\ UNCHANGED <<disk, memory, told, environment>>

\* Staging that no manifest describes is left for the user.
RestoreStaging(p) ==
    /\ At(p, "undoneRoot")
    /\ \/ /\ journal[p] # "staging"
          /\ GoTo(p, "undoStaging")
          /\ UNCHANGED <<disk, memory, told, environment>>
       \/ /\ journal[p] = "staging" /\ ~Exists(p, "staging")
          /\ GoTo(p, "undone")
          /\ UNCHANGED <<disk, memory, told, environment>>
       \/ journal[p] = "staging" /\ Exists(p, "staging") /\ Conflict(p)

Restored(p) ==
    /\ At(p, "undone")
    /\ WriteJournal(p, None)
    /\ Finishes(p)
    /\ UNCHANGED <<tree, decision, environment>>

(***************************************************************************)
(* finalizeProjectReplacement.                                             *)
(***************************************************************************)
\* The cleanup expects both roots to be there.
Cleanable_Present(p, root) == Exists(p, root) /\ Verified(p, root, root)

Cleanable(p, root) ==
    LET aside == Quarantine[root] IN
    \/ Exists(p, root) /\ ~Exists(p, aside) /\ Verified(p, root, root)
    \/ ~Exists(p, root) /\ (Exists(p, aside) => Verified(p, aside, root))

Finalize(p) ==
    /\ At(p, "end")
    /\ \/ /\ journal[p] = "cleanup-verified"
          /\ GoTo(p, "endBackup")
          /\ UNCHANGED <<disk, memory, told, environment>>
       \/ /\ journal[p] # "cleanup-verified"
          /\ tree[p]["root"] = "new" /\ Cleanable(p, "backup") /\ Cleanable(p, "staging")
          /\ WriteJournal(p, "cleanup-verified")
          /\ GoTo(p, "endBackup")
          /\ UNCHANGED <<tree, decision, memory, told, environment>>
       \/ /\ journal[p] # "cleanup-verified"
          /\ ~(tree[p]["root"] = "new" /\ Cleanable(p, "backup") /\ Cleanable(p, "staging"))
          /\ Conflict(p)

Finalized(p) ==
    /\ At(p, "ended")
    /\ WriteJournal(p, None)
    /\ Finishes(p)
    /\ UNCHANGED <<tree, decision, environment>>

(***************************************************************************)
(* commitProjectReplacements.                                              *)
(***************************************************************************)
Idle == commit.members = {}
Committable(p) ==
    /\ journal[p] = "installed" /\ At(p, "idle")
    /\ tree[p]["root"] = "new" /\ tree[p]["backup"] = "old"

\* The decision for the whole cohort is durable before any member is cleaned.
Decide(cohort) ==
    /\ app = "up" /\ Idle /\ decision = {}
    /\ cohort # {} /\ cohort \subseteq begun
    /\ \A p \in cohort : Committable(p)
    /\ decision' = cohort
    /\ commit' = [NoCommit EXCEPT !.members = cohort, !.todo = cohort]
    /\ UNCHANGED <<tree, journal, locks, begun, app, start, work, told, environment>>

MarkCommitted(p) ==
    /\ p \in commit.todo /\ At(p, "idle")
    /\ \A q \in commit.members : At(q, "idle")
    /\ WriteJournal(p, "renderer-committed")
    /\ Start(p, "end", "commit")
    /\ UNCHANGED <<tree, decision, memory, told, environment>>

\* A conflict of one member is thrown to the renderer; redundant data that is
\* left behind is not, and keeps the decision for the next start.
EndCommit ==
    /\ ~Idle /\ commit.todo = {} /\ \A p \in commit.members : At(p, "idle")
    /\ commit' = NoCommit
    /\ decision' = IF commit.conflict \/ commit.pending THEN decision ELSE {}
    /\ IF commit.conflict THEN UNCHANGED <<begun, told>>
       ELSE /\ begun' = begun \ commit.members
            /\ told' = [p \in Project |->
                          IF p \in commit.members THEN "committed" ELSE told[p]]
    /\ UNCHANGED <<tree, journal, locks, app, start, work, environment>>

\* rollbackProjectReplacement, for the renderer or when its window is gone.
Rollback(p) ==
    /\ app = "up" /\ p \in begun /\ At(p, "idle")
    /\ journal[p] # None /\ journal[p] \notin Committed
    /\ p \in decision => RollsBackDecided
    /\ Start(p, "undo", "rollback")
    /\ UNCHANGED <<disk, memory, told, environment>>

(***************************************************************************)
(* recoverProjectReplacementTransactions, at the start of the process.     *)
(* The members of a decision are finalized first, then each journal that   *)
(* is left is finished or undone as its own phase says.                    *)
(***************************************************************************)
\* The start looks at each journal and at no decision.
StartRecovery_JournalsOnly ==
    /\ app \in {"down", "refused"}
    /\ app' = "journals"
    /\ start' = {p \in Project : journal[p] # None}
    /\ UNCHANGED <<disk, locks, begun, commit, work, told, environment>>

StartRecovery ==
    /\ app \in {"down", "refused"}
    /\ app' = IF decision = {} THEN "journals" ELSE "decision"
    /\ start' = {p \in Project : journal[p] # None /\ (decision = {} \/ p \in decision)}
    /\ UNCHANGED <<disk, locks, begun, commit, work, told, environment>>

RecoverMember(p) ==
    /\ app = "decision" /\ p \in start /\ \A q \in Project : At(q, "idle")
    /\ Start(p, "end", "recover")
    /\ UNCHANGED <<disk, memory, told, environment>>

\* The decision goes once no member is left to clean up.
DecisionRecovered ==
    /\ app = "decision" /\ start = {}
    /\ app' = "journals"
    /\ start' = {p \in Project : journal[p] # None}
    /\ decision' = {p \in decision : \E q \in decision : journal[q] # None}
    /\ UNCHANGED <<tree, journal, locks, begun, commit, work, told, environment>>

RecoverJournal(p) ==
    /\ app = "journals" /\ p \in start /\ \A q \in Project : At(q, "idle")
    /\ Start(p, IF journal[p] \in Committed THEN "end" ELSE "undo", "recover")
    /\ UNCHANGED <<disk, memory, told, environment>>

Recovered ==
    /\ app = "journals" /\ start = {}
    /\ app' = "up"
    /\ UNCHANGED <<disk, locks, begun, commit, start, work, told, environment>>

(***************************************************************************)
(* Failures and other programs.                                            *)
(***************************************************************************)
\* The file system call of a step fails.  A disposal that fails is pending; a
\* journal of finalize that cannot be written is a conflict.
FaultKind(p) ==
    IF At(p, "end") THEN "conflict"
    ELSE IF pc[p] \in {"endBackup", "endStaging", "ended", "undoRoot", "undoStaging"}
         THEN "pending" ELSE "error"

Fault(p) ==
    /\ faults < MaxFaults /\ faults' = faults + 1
    /\ \/ ~At(p, "idle") /\ Fails(p, FaultKind(p))
       \/ \* the renderer-committed journal of a member cannot be written
          /\ p \in commit.todo /\ \A q \in commit.members : At(q, "idle")
          /\ CommitVisited(p, FALSE, TRUE)
          /\ locks' = locks \ {p}
          /\ UNCHANGED <<begun, app, start, work, told>>
    /\ UNCHANGED <<disk, crashes, edits, edited, own>>

Crash ==
    /\ app # "down" /\ crashes < MaxCrashes /\ crashes' = crashes + 1
    /\ app' = "down"
    /\ locks' = {} /\ begun' = {} /\ commit' = NoCommit /\ start' = {}
    /\ pc' = [p \in Project |-> "idle"]
    /\ job' = [p \in Project |-> "begin"]
    /\ step' = [p \in Project |-> "look"]
    /\ UNCHANGED <<disk, told, faults, edits, edited, own>>

\* Another program changes the folder of a project or, through what it had
\* open there, the backup; or it makes a folder where the project was.
Changed(t) == CASE t \in {"old", "old+"} -> "old+" [] t \in {"new", "new+"} -> "new+"
                [] OTHER -> "foreign"
Edit(p, place) ==
    /\ edits < MaxEdits /\ edits' = edits + 1
    /\ place = "root" \/ Exists(p, place)
    /\ Put(p, place, Changed(tree[p][place]))
    /\ edited' = edited \cup {p}
    /\ UNCHANGED <<journal, decision, memory, work, told, crashes, faults, own>>

\* A save of the app itself, once the lock is released.
SaveRoot(p) ==
    /\ app = "up" /\ p \notin locks /\ journal[p] # None /\ p \notin own
    /\ tree[p]["root"] = "new"
    /\ Put(p, "root", "new+")
    /\ own' = IF journal[p] = "cleanup-verified" THEN own ELSE own \cup {p}
    /\ UNCHANGED <<journal, decision, memory, work, told, crashes, faults, edits, edited>>

Work(p) ==
    \/ CopyRoot(p) \/ WriteStaging(p) \/ WritePrepared(p) \/ VerifyRoot(p)
    \/ MoveToBackup(p) \/ WriteBackupMoved(p) \/ InstallStaging(p) \/ WriteInstalled(p)
    \/ Register(p)
    \/ LookForRoot(p) \/ MoveAside(p) \/ Trash(p)
    \/ Restore(p) \/ MoveBackupBack(p) \/ RestoreStaging(p) \/ Restored(p)
    \/ Finalize(p) \/ Finalized(p)
    \/ MarkCommitted(p) \/ RecoverMember(p) \/ RecoverJournal(p)

Proceed == EndCommit \/ DecisionRecovered \/ Recovered

Next ==
    \/ \E p \in Project : \/ Begin(p) \/ Work(p) \/ Rollback(p)
                          \/ Fault(p) \/ SaveRoot(p)
                          \/ \E place \in {"root", "backup"} : Edit(p, place)
    \/ \E cohort \in SUBSET Project : Decide(cohort)
    \/ Proceed \/ StartRecovery \/ Crash

\* The process goes on with its work, an import that began is committed or
\* rolled back, and after a crash or a refusal the app is started again.
Fairness ==
    /\ \A p \in Project : WF_vars(Work(p)) /\ WF_vars(Rollback(p))
    /\ WF_vars(Proceed) /\ WF_vars(StartRecovery)

Spec == Init /\ [][Next]_vars /\ Fairness
-----------------------------------------------------------------------------
Steps == {"idle", "copy", "write", "prepare", "verify", "move", "moved", "install",
          "installed", "register", "undo", "undoRoot", "undoBackup", "undoneRoot",
          "undoStaging", "undone", "end", "endBackup", "endStaging", "ended"}

TypeOK ==
    /\ tree \in [Project -> [Places -> Trees \cup {None}]]
    /\ journal \in [Project -> Phases \cup {None}]
    /\ decision \subseteq Project /\ locks \subseteq Project /\ begun \subseteq Project
    /\ pc \in [Project -> Steps]
    /\ job \in [Project -> {"begin", "abort", "rollback", "commit", "recover"}]
    /\ step \in [Project -> {"look", "move", "trash"}]
    /\ \A p \in Project : step[p] # "look" => pc[p] \in DOMAIN Disposal
    /\ commit \in [members : SUBSET Project, todo : SUBSET Project,
                   conflict : BOOLEAN, pending : BOOLEAN]
    /\ app \in {"up", "down", "decision", "journals", "refused"}
    /\ start \subseteq Project
    /\ told \in [Project -> {"nothing", "committed", "restored"}]
    /\ crashes \in Nat /\ faults \in Nat /\ edits \in Nat
    /\ edited \subseteq Project /\ own \subseteq Project

\* The revision of the folder that will be there in the end: the decision and
\* the phase of the journal say it, and the folder itself once there is neither.
Kept(p) ==
    IF \/ p \in decision \/ journal[p] \in Committed
       \/ journal[p] = None /\ tree[p]["root"] \in {"new", "new+"}
    THEN "new" ELSE "old"

\* A cohort is replaced in one step that nothing takes back: no crash, failure,
\* recovery or other program makes a member of a durable decision old again or
\* replaces some of the members only; and whoever is told "committed" or
\* "restored" is told so of what will be there in the end.
Cohort == INSTANCE CohortChange WITH kept <- [p \in Project |-> Kept(p)]
ImplementsCohortChange == Cohort!Spec

\* The revision that is kept is there to be kept: the old folder in its place
\* or as the backup, the new one in its place unless another program changed it.
KeptRevisionExists ==
    \A p \in Project :
        IF Kept(p) = "old"
        THEN \E place \in {"root", "backup"} : tree[p][place] \in {"old", "old+"}
        ELSE tree[p]["root"] \in {"new", "new+"} \/ p \in edited

\* What another program or a save of the app changed is never disposed of: it
\* stays in the folder or set aside, whatever is rolled back or cleaned up.
ChangesKept ==
    \A p \in edited : \E place \in Places : tree[p][place] \in {"old+", "new+", "foreign"}

\* No revision of a project is lost, neither the one that is kept nor what
\* another program made of it.
RevisionsSafe == TypeOK /\ KeptRevisionExists /\ ChangesKept

\* A replacement that ended, by commit, rollback or recovery, leaves no backup,
\* staging or quarantined folder beside the project.
NothingLeftBehind ==
    \A p \in Project : journal[p] = None /\ At(p, "idle") =>
        \A place \in Places \ {"root"} : ~Exists(p, place)

\* While a replacement may still be undone, the app cannot write the project.
UnsettledLocked ==
    \A p \in Project : app = "up" /\ journal[p] # None /\ Kept(p) = "old" => p \in locks

\* A replacement is settled without a trace, or its project is locked.
SettledOrLocked == NothingLeftBehind /\ UnsettledLocked

\* The app starts in the end, unless another program changed a project, the app
\* saved one whose committed journal could not be written, or a crash left
\* staging that no manifest describes.
Obstructed ==
    \/ edited # {} \/ own # {}
    \/ \E p \in Project : journal[p] = "staging" /\ Exists(p, "staging")
StartsInTheEnd == app = "down" ~> app = "up" \/ Obstructed

\* "A committed project replacement cannot be rolled back."
DecidedNotRolledBack == [][\A p \in decision : ~Restored(p)]_vars

====
