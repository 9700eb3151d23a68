--------------------------- MODULE ProjectFileSwap ---------------------------
(***************************************************************************)
(* How the main process replaces the source files of a project folder      *)
(* without overwriting what another program wrote: one file through a      *)
(* claim (compareAndSwapProjectFile), several through a journalled batch   *)
(* (compareAndSwapProjectFiles), and the recovery of both when the folder  *)
(* is next opened or saved (recoverInterruptedProjectFileClaims).          *)
(*                                                                         *)
(* A file system step is an action, and between any two of them the        *)
(* process may crash, the next one may fail, and another program may write *)
(* or remove a target.  Directory entries and the inodes they name are     *)
(* kept apart: a hard link makes the target and the staged file the same   *)
(* inode, so a program that writes in place changes both.  A save of a     *)
(* folder is not overlapped by another save or opening of it here.         *)
(***************************************************************************)
EXTENDS Naturals, FiniteSets

CONSTANTS
    Files,       \* the source files of the project
    None,
    MaxCrashes,  \* bound on the crashes of the main process
    MaxFaults,   \* bound on the file system calls that fail
    MaxEdits     \* bound on the writes of other programs

\* The inode of the file as it was, of the staged text, and of a file another
\* program put in its place.
Inodes == {"base", "next", "other"}

ASSUME ConstantsAssumption ==
    /\ IsFiniteSet(Files) /\ None \notin Files \cup Inodes
    /\ MaxCrashes \in Nat /\ MaxFaults \in Nat /\ MaxEdits \in Nat

VARIABLES
    dir,        \* the inode each path names; the paths of a file are its Names
    data,       \* what each inode holds
    journal,    \* project-file-cas.json
    pc,         \* the step the running save or recovery is at
    mode,       \* what runs: a save, the abort of a failed save, an opening
    batch,      \* the files of the save
    todo,       \* those the loop at pc has yet to visit
    cur,        \* the file whose visit takes another step
    sure,       \* whether the claim of cur was verified
    preserved,  \* unexpectedRollbackPaths
    result,     \* how the last save or opening ended
    crashes, faults, edits,
    edited,     \* history: the files another program wrote or removed
    owed,       \* history: those whose foreign bytes no other program removed
    acked       \* history: the files of the saves reported as done

disk == <<dir, data, journal>>
visit == <<pc, mode, batch, todo, cur, sure, preserved>>
environment == <<crashes, faults, edits, edited, owed>>
vars == <<disk, visit, result, environment, acked>>

Names == {"target", "claim", "staged", "rollback"}
Contents == {"old", "new", "torn", "foreign"}
Phases == {"none", "single", "staging", "prepared", "committed"}

NoJournal == [phase |-> "none", files |-> {}]

Exists(f, n) == dir[f][n] # None
Matches(f, n, c) == Exists(f, n) /\ data[f][dir[f][n]] = c

Init ==
    /\ dir = [f \in Files |-> [n \in Names |-> IF n = "target" THEN "base" ELSE None]]
    /\ data = [f \in Files |-> [i \in Inodes |-> "old"]]
    /\ journal = NoJournal
    /\ pc = "idle" /\ mode = "save"
    /\ batch = {} /\ todo = {} /\ cur = None /\ sure = FALSE /\ preserved = {}
    /\ result = "none"
    /\ crashes = 0 /\ faults = 0 /\ edits = 0
    /\ edited = {} /\ owed = {} /\ acked = {}

(***************************************************************************)
(* File system calls and the loops over the files of a journal.            *)
(***************************************************************************)
Link(f, from, to) == dir' = [dir EXCEPT ![f][to] = dir[f][from]]
Move(f, from, to) == dir' = [dir EXCEPT ![f][to] = dir[f][from], ![f][from] = None]
Unlink(f, n) == dir' = [dir EXCEPT ![f][n] = None]
WriteJournal(phase) == journal' = [phase |-> phase, files |-> batch]

GoTo(step, files) ==
    /\ pc' = step /\ todo' = files /\ cur' = None /\ sure' = FALSE
    /\ UNCHANGED batch

\* The loop has visited f: it goes on with the others, or with the next step.
Visited(f, next) ==
    /\ todo' = todo \ {f} /\ cur' = None /\ sure' = FALSE
    /\ pc' = IF todo = {f} THEN next ELSE pc
    /\ UNCHANGED <<mode, batch, preserved>>

Looping(step) == pc = step /\ cur = None

\* What the caller of a save or an opening is told.
End(outcome) ==
    /\ result' = outcome
    /\ acked' = IF outcome = "saved" THEN acked \cup batch ELSE acked
    /\ pc' = "idle" /\ todo' = {} /\ cur' = None /\ sure' = FALSE /\ preserved' = {}
    /\ UNCHANGED <<mode, batch>>

Completed == [save |-> "saved", abort |-> "failed", open |-> "opened"][mode]

\* The cleanup of an installed revision may fail: the save is done all the same.
Stopped(why) ==
    End(IF mode = "save" /\ pc \in {"clean", "clear", "final"} THEN "saved"
        ELSE IF mode = "abort" /\ pc = "final" THEN "failed" ELSE why)

\* A failed batch is cleaned up without being rolled back.
HandleError_CleansUp ==
    \/ /\ pc \in {"stage", "prepare", "claim", "install", "check", "commit"}
       /\ mode' = "abort" /\ preserved' = {} /\ GoTo("clean", batch)
    \/ /\ pc \in {"journal", "claimOne"}
       /\ mode' = "abort" /\ preserved' = {} /\ GoTo("final", batch)
    \/ /\ pc \in {"verifyOne", "installOne"}
       /\ mode' = "abort" /\ pc' = "restore"
       /\ UNCHANGED <<batch, todo, cur, sure, preserved>>

\* The error of a step of a save: what its handler does instead.
HandleError ==
    \/ /\ pc \in {"stage", "prepare"}
       /\ mode' = "abort" /\ preserved' = {} /\ GoTo("undoStage", batch)
    \/ /\ pc \in {"claim", "install", "check", "commit"}
       /\ mode' = "abort" /\ preserved' = {} /\ GoTo("undo", batch)
    \/ /\ pc \in {"journal", "claimOne"}
       /\ mode' = "abort" /\ preserved' = {} /\ GoTo("final", batch)
    \/ /\ pc \in {"verifyOne", "installOne"}
       /\ mode' = "abort" /\ pc' = "restore"
       /\ UNCHANGED <<batch, todo, cur, sure, preserved>>

Failing == HandleError /\ UNCHANGED <<disk, result, environment, acked>>

Refuse(why) == Stopped(why) /\ UNCHANGED <<disk, environment>>

(***************************************************************************)
(* saveProjectFolder and openProjectFolder.  Both recover what an          *)
(* interrupted save left before they read a source file, and a save goes   *)
(* on only when its files are as the accepted baseline has them.           *)
(***************************************************************************)
RecoveryStep ==
    [single |-> "redoOne", staging |-> "undoStage", prepared |-> "undo",
     committed |-> "redo"][journal.phase]

RecoverInterruptedClaims ==
    /\ pc = "idle" /\ journal.phase # "none"
    /\ mode' = "open" /\ batch' = journal.files /\ todo' = journal.files
    /\ pc' = RecoveryStep /\ cur' = None /\ sure' = FALSE /\ preserved' = {}
    /\ UNCHANGED <<disk, result, environment, acked>>

\* One file goes through atomicWriteText, several through a batch, whose
\* journal is written before anything is staged.
BeginSave(files) ==
    /\ pc = "idle" /\ journal.phase = "none"
    /\ files # {} /\ \A f \in files : Matches(f, "target", "old")
    /\ mode' = "save" /\ batch' = files /\ todo' = files
    /\ cur' = None /\ sure' = FALSE /\ preserved' = {}
    /\ IF Cardinality(files) = 1
       THEN pc' = "temp" /\ UNCHANGED journal
       ELSE pc' = "stage" /\ journal' = [phase |-> "staging", files |-> files]
    /\ UNCHANGED <<dir, data, result, environment, acked>>

(***************************************************************************)
(* compareAndSwapProjectFiles.                                             *)
(***************************************************************************)
\* writeFile creates the file before it holds the whole text.
OpenStaged ==
    /\ pc \in {"stage", "temp"} /\ cur = None
    /\ \E f \in todo :
         /\ dir' = [dir EXCEPT ![f]["staged"] = "next"]
         /\ data' = [data EXCEPT ![f]["next"] = "torn"]
         /\ cur' = f
    /\ UNCHANGED <<journal, pc, mode, batch, todo, sure, preserved, result,
                   environment, acked>>

WriteStaged ==
    /\ pc \in {"stage", "temp"} /\ cur # None
    /\ data' = [data EXCEPT ![cur]["next"] = "new"]
    /\ Visited(cur, IF pc = "temp" THEN "journal" ELSE "prepare")
    /\ UNCHANGED <<dir, journal, result, environment, acked>>

WritePrepared ==
    /\ pc = "prepare"
    /\ WriteJournal("prepared")
    /\ GoTo("claim", batch)
    /\ UNCHANGED <<dir, data, mode, preserved, result, environment, acked>>

Claim ==
    /\ Looping("claim")
    /\ \E f \in todo :
         \/ /\ Exists(f, "target")
            /\ Move(f, "target", "claim")
            /\ cur' = f
            /\ UNCHANGED <<data, journal, pc, mode, batch, todo, sure, preserved,
                           result, environment, acked>>
         \/ ~Exists(f, "target") /\ Failing

VerifyClaim ==
    /\ pc = "claim" /\ cur # None
    /\ \/ /\ Matches(cur, "claim", "old")
          /\ IF todo = {cur} THEN GoTo("install", batch) /\ UNCHANGED <<mode, preserved>>
             ELSE Visited(cur, "install")
          /\ UNCHANGED <<disk, result, environment, acked>>
       \/ ~Matches(cur, "claim", "old") /\ Failing

Install ==
    /\ Looping("install")
    /\ \E f \in todo :
         \/ /\ Matches(f, "staged", "new") /\ ~Exists(f, "target")
            /\ Link(f, "staged", "target")
            /\ IF todo = {f} THEN GoTo("check", batch) /\ UNCHANGED <<mode, preserved>>
               ELSE Visited(f, "check")
            /\ UNCHANGED <<data, journal, result, environment, acked>>
         \/ ~(Matches(f, "staged", "new") /\ ~Exists(f, "target")) /\ Failing

CheckInstalled ==
    /\ Looping("check")
    /\ \E f \in todo :
         \/ /\ Matches(f, "target", "new")
            /\ Visited(f, "commit")
            /\ UNCHANGED <<disk, result, environment, acked>>
         \/ ~Matches(f, "target", "new") /\ Failing

WriteCommitted ==
    /\ pc = "commit"
    /\ WriteJournal("committed")
    /\ GoTo("clean", batch)
    /\ UNCHANGED <<dir, data, mode, preserved, result, environment, acked>>

(***************************************************************************)
(* cleanupProjectFileBatchArtifacts removes the claim, the staged file and *)
(* the rollback of each file, each only when it holds what the journal     *)
(* says; then the journal is cleared.                                      *)
(***************************************************************************)
Expected == [claim |-> "old", staged |-> "new", rollback |-> "new"]

\* The artifact of f that is removed next.
NextArtifact(f) ==
    IF Exists(f, "claim") THEN "claim"
    ELSE IF Exists(f, "staged") THEN "staged" ELSE "rollback"

\* Artifacts are removed without a look at what they hold.
Owned_Any(f, n) == Exists(f, n)

Owned(f, n) == Matches(f, n, Expected[n])

CleanUp ==
    /\ Looping("clean")
    /\ \E f \in todo : LET n == NextArtifact(f) IN
         \/ /\ Owned(f, n)
            /\ Unlink(f, n)
            /\ UNCHANGED <<data, journal, visit, result, environment, acked>>
         \/ Exists(f, n) /\ ~Owned(f, n) /\ Refuse("refused")
         \/ /\ ~Exists(f, n)
            /\ Visited(f, "clear")
            /\ UNCHANGED <<disk, result, environment, acked>>

\* The end of a recovery leaves its journal.
ClearJournal_Left ==
    /\ pc = "clear"
    /\ End(Completed)
    /\ UNCHANGED <<disk, environment>>

ClearJournal ==
    /\ pc = "clear"
    /\ journal' = NoJournal
    /\ End(Completed)
    /\ UNCHANGED <<dir, data, environment>>

(***************************************************************************)
(* Recovery of a batch: recoverStagingProjectFileBatch,                    *)
(* recoverPreparedProjectFileBatch (which the failed save itself runs with *)
(* trustClaims) and recoverCommittedProjectFileBatch.                      *)
(***************************************************************************)
RecoverStaging ==
    /\ pc = "undoStage"
    /\ \/ /\ \A f \in batch : ~Exists(f, "claim") /\ ~Exists(f, "rollback")
          /\ GoTo("clean", batch)
          /\ UNCHANGED <<disk, mode, preserved, result, environment, acked>>
       \/ /\ \E f \in batch : Exists(f, "claim") \/ Exists(f, "rollback")
          /\ Refuse("refused")

\* A rollback takes any file it finds for the restored one.
Restored_Any(f) == Exists(f, "target")

Restored(f) == Matches(f, "target", "old")
Trusted(f) == Exists(f, "claim") /\ (mode = "abort" \/ Matches(f, "claim", "old"))

\* The installed bytes make room for the claim; they stay as the rollback.
RecoverPrepared ==
    /\ Looping("undo")
    /\ \E f \in todo :
         \/ /\ Restored(f)
            /\ Visited(f, "undone")
            /\ UNCHANGED <<disk, result, environment, acked>>
         \/ /\ ~Restored(f) /\ Trusted(f)
            /\ ~(Exists(f, "target") /\ Exists(f, "rollback"))
            /\ IF Exists(f, "target") THEN Move(f, "target", "rollback") ELSE UNCHANGED dir
            /\ cur' = f /\ sure' = Matches(f, "claim", "old")
            /\ UNCHANGED <<data, journal, pc, mode, batch, todo, preserved, result,
                           environment, acked>>
         \/ /\ ~Restored(f)
            /\ ~Trusted(f) \/ (Exists(f, "target") /\ Exists(f, "rollback"))
            /\ Refuse("refused")

Unexpected(f) == Exists(f, "rollback") /\ ~Matches(f, "rollback", "new")

RestoreClaim ==
    /\ pc = "undo" /\ cur # None
    /\ \/ /\ ~Exists(cur, "target")
          /\ Link(cur, "claim", "target")
          /\ preserved' = IF Unexpected(cur) THEN preserved \cup {cur} ELSE preserved
          /\ IF sure THEN pc' = "undoVerify" /\ UNCHANGED <<mode, batch, todo, cur, sure>>
             ELSE /\ todo' = todo \ {cur} /\ cur' = None /\ sure' = FALSE
                  /\ pc' = IF todo = {cur} THEN "undone" ELSE pc
                  /\ UNCHANGED <<mode, batch>>
          /\ UNCHANGED <<data, journal, result, environment, acked>>
       \/ Exists(cur, "target") /\ Refuse("refused")

VerifyRestored ==
    /\ pc = "undoVerify"
    /\ \/ /\ Restored(cur)
          /\ todo' = todo \ {cur} /\ cur' = None /\ sure' = FALSE
          /\ pc' = IF todo = {cur} THEN "undone" ELSE "undo"
          /\ UNCHANGED <<disk, mode, batch, preserved, result, environment, acked>>
       \/ ~Restored(cur) /\ Refuse("refused")

FinishRollback ==
    /\ pc = "undone"
    /\ \/ /\ preserved = {}
          /\ GoTo("clean", batch)
          /\ UNCHANGED <<disk, mode, preserved, result, environment, acked>>
       \/ preserved # {} /\ Refuse("refused")

Installable(f) == ~Exists(f, "target") /\ Matches(f, "staged", "new")

RecoverCommitted ==
    /\ Looping("redo")
    /\ \E f \in todo :
         \/ /\ ~Exists(f, "rollback") /\ Matches(f, "target", "new")
            /\ IF todo = {f} THEN GoTo("clean", batch) /\ UNCHANGED <<mode, preserved>>
               ELSE Visited(f, "clean")
            /\ UNCHANGED <<disk, result, environment, acked>>
         \/ /\ ~Exists(f, "rollback") /\ Installable(f)
            /\ Link(f, "staged", "target")
            /\ UNCHANGED <<data, journal, visit, result, environment, acked>>
         \/ /\ Exists(f, "rollback") \/ ~(Matches(f, "target", "new") \/ Installable(f))
            /\ Refuse("refused")

(***************************************************************************)
(* compareAndSwapProjectFile, for the one file of the batch, and           *)
(* recoverSingleProjectFileClaim.                                          *)
(***************************************************************************)
WriteClaimJournal ==
    /\ pc = "journal"
    /\ WriteJournal("single")
    /\ GoTo("claimOne", batch)
    /\ UNCHANGED <<dir, data, mode, preserved, result, environment, acked>>

ClaimOne ==
    /\ pc = "claimOne"
    /\ \E f \in todo :
         \/ /\ Exists(f, "target")
            /\ Move(f, "target", "claim")
            /\ pc' = "verifyOne" /\ cur' = f
            /\ UNCHANGED <<data, journal, mode, batch, todo, sure, preserved, result,
                           environment, acked>>
         \/ ~Exists(f, "target") /\ Failing

VerifyClaimOne ==
    /\ pc = "verifyOne"
    /\ \/ /\ Matches(cur, "claim", "old")
          /\ pc' = "installOne" /\ sure' = TRUE
          /\ UNCHANGED <<disk, mode, batch, todo, cur, preserved, result, environment, acked>>
       \/ ~Matches(cur, "claim", "old") /\ Failing

InstallOne ==
    /\ pc = "installOne"
    /\ \/ /\ ~Exists(cur, "target")
          /\ Link(cur, "staged", "target")
          /\ GoTo("final", batch)
          /\ UNCHANGED <<data, journal, mode, preserved, result, environment, acked>>
       \/ Exists(cur, "target") /\ Failing

\* The claimed bytes go back unless another program made a new target, which
\* wins when the claim was verified.
RestoreOne ==
    /\ pc = "restore"
    /\ \/ /\ ~Exists(cur, "target")
          /\ Link(cur, "claim", "target")
          /\ GoTo("final", batch)
          /\ UNCHANGED <<data, journal, mode, preserved, result, environment, acked>>
       \/ /\ Exists(cur, "target") /\ sure
          /\ GoTo("final", batch)
          /\ UNCHANGED <<disk, mode, preserved, result, environment, acked>>
       \/ /\ Exists(cur, "target") /\ ~sure
          /\ Unlink(cur, "staged")
          /\ Stopped("refused")
          /\ UNCHANGED <<data, journal, environment>>

\* The finally block, and the end of a recovery: only the save knows its
\* temporary file.
FinishOne ==
    /\ pc = "final"
    /\ \E f \in todo :
         \/ /\ mode # "open" /\ Exists(f, "staged")
            /\ Unlink(f, "staged")
            /\ UNCHANGED <<data, journal, visit, result, environment, acked>>
         \/ /\ mode = "open" \/ ~Exists(f, "staged")
            /\ Exists(f, "claim")
            /\ Unlink(f, "claim")
            /\ UNCHANGED <<data, journal, visit, result, environment, acked>>
         \/ /\ mode = "open" \/ ~Exists(f, "staged")
            /\ ~Exists(f, "claim")
            /\ journal' = NoJournal
            /\ End(Completed)
            /\ UNCHANGED <<dir, data, environment>>

RecoverSingleClaim ==
    /\ Looping("redoOne")
    /\ \E f \in todo :
         \/ /\ Exists(f, "target")
            /\ ~Exists(f, "claim") \/ Matches(f, "claim", "old")
            /\ GoTo("final", batch)
            /\ UNCHANGED <<disk, mode, preserved, result, environment, acked>>
         \/ /\ Exists(f, "claim") /\ ~Exists(f, "target")
            /\ Link(f, "claim", "target")
            /\ cur' = f
            /\ UNCHANGED <<data, journal, pc, mode, batch, todo, sure, preserved, result,
                           environment, acked>>
         \/ /\ Exists(f, "claim") <=> Exists(f, "target")
            /\ ~Matches(f, "claim", "old")
            /\ Refuse("refused")

VerifyRecoveredClaim ==
    /\ pc = "redoOne" /\ cur # None
    /\ \/ /\ Restored(cur)
          /\ GoTo("final", batch)
          /\ UNCHANGED <<disk, mode, preserved, result, environment, acked>>
       \/ ~Restored(cur) /\ Refuse("refused")

(***************************************************************************)
(* Failures.                                                               *)
(***************************************************************************)
\* A file system call of the running save or recovery fails.  Before anything
\* is claimed or journalled, a failed single save only removes its temporary file.
Fault ==
    /\ pc # "idle" /\ faults < MaxFaults /\ faults' = faults + 1
    /\ \/ HandleError /\ UNCHANGED <<disk, result, acked>>
       \/ \E f \in batch :
            /\ pc = "temp" /\ Unlink(f, "staged")
            /\ End("failed") /\ UNCHANGED <<data, journal>>
       \/ /\ pc = "restore"
          /\ Unlink(cur, "staged") /\ Stopped("error") /\ UNCHANGED <<data, journal>>
       \/ /\ pc \in {"undoStage", "undo", "undoVerify", "undone", "redo", "redoOne",
                     "clean", "clear", "final"}
          /\ pc = "final" /\ mode # "open" => \A f \in batch : ~Exists(f, "staged")
          /\ Stopped("error") /\ UNCHANGED disk
    /\ UNCHANGED <<crashes, edits, edited, owed>>

Crash ==
    /\ pc # "idle" /\ crashes < MaxCrashes /\ crashes' = crashes + 1
    /\ End("crashed")
    /\ UNCHANGED <<disk, faults, edits, edited, owed>>

\* Another program writes a file: it truncates the one that is there or
\* renames another one over it.
WriteOver(f) ==
    /\ edits < MaxEdits /\ edits' = edits + 1
    /\ edited' = edited \cup {f} /\ owed' = owed \cup {f}
    /\ \/ /\ Exists(f, "target")
          /\ data' = [data EXCEPT ![f][dir[f]["target"]] = "foreign"]
          /\ UNCHANGED dir
       \/ /\ \A n \in Names : dir[f][n] # "other"
          /\ dir' = [dir EXCEPT ![f]["target"] = "other"]
          /\ data' = [data EXCEPT ![f]["other"] = "foreign"]
    /\ UNCHANGED <<journal, visit, result, acked, crashes, faults>>

\* It removes the file, and with it what a program wrote there.
Delete(f) ==
    /\ edits < MaxEdits /\ edits' = edits + 1
    /\ Exists(f, "target")
    /\ Unlink(f, "target")
    /\ edited' = edited \cup {f}
    /\ owed' = IF Matches(f, "target", "foreign") THEN owed \ {f} ELSE owed
    /\ UNCHANGED <<data, journal, visit, result, acked, crashes, faults>>

Save ==
    \/ OpenStaged \/ WriteStaged \/ WritePrepared \/ Claim \/ VerifyClaim
    \/ Install \/ CheckInstalled \/ WriteCommitted \/ WriteClaimJournal
    \/ ClaimOne \/ VerifyClaimOne \/ InstallOne \/ RestoreOne

Recover ==
    \/ RecoverStaging \/ RecoverPrepared \/ RestoreClaim \/ VerifyRestored
    \/ FinishRollback \/ RecoverCommitted \/ RecoverSingleClaim
    \/ VerifyRecoveredClaim \/ CleanUp \/ FinishOne \/ ClearJournal

Next ==
    \/ RecoverInterruptedClaims \/ Save \/ Recover \/ Fault \/ Crash
    \/ \E files \in SUBSET Files : BeginSave(files)
    \/ \E f \in Files : WriteOver(f) \/ Delete(f)

\* The main process goes on with what it began, and a folder whose save was
\* interrupted is opened or saved again.
Fairness == WF_vars(Save \/ Recover) /\ WF_vars(RecoverInterruptedClaims)

Spec == Init /\ [][Next]_vars /\ Fairness

-----------------------------------------------------------------------------
Steps == {"idle", "stage", "prepare", "claim", "install", "check", "commit",
          "undoStage", "undo", "undoVerify", "undone", "redo", "clean", "clear",
          "temp", "journal", "claimOne", "verifyOne", "installOne", "restore",
          "final", "redoOne"}

DiskTypes ==
    /\ dir \in [Files -> [Names -> Inodes \cup {None}]]
    /\ data \in [Files -> [Inodes -> Contents]]
    /\ journal \in [phase : Phases, files : SUBSET Files]

VisitTypes ==
    /\ pc \in Steps /\ mode \in {"save", "abort", "open"}
    /\ batch \subseteq Files /\ todo \subseteq batch /\ cur \in todo \cup {None}
    /\ sure \in BOOLEAN /\ preserved \subseteq Files

OutcomeTypes ==
    /\ result \in {"none", "saved", "failed", "opened", "refused", "error", "crashed"}
    /\ crashes \in Nat /\ faults \in Nat /\ edits \in Nat
    /\ edited \subseteq Files /\ owed \subseteq edited /\ acked \subseteq Files

TypeOK == DiskTypes /\ VisitTypes /\ OutcomeTypes

\* What another program wrote to a source file is never destroyed by a save or
\* a recovery: it stays in the file or beside it, whatever crashed or failed.
ForeignBytesKept ==
    \A f \in owed : \E n \in Names : Matches(f, n, "foreign")

\* Once no journal is left, the files of the last save are all as it wrote them
\* or all as they were, files another program wrote excepted: neither a crash
\* nor a failed rollback leaves a mix behind without a journal to repair it.
AllOrNothing ==
    pc = "idle" /\ journal.phase = "none"
        => \/ \A f \in batch : ~Matches(f, "target", "old")
           \/ \A f \in batch : ~Matches(f, "target", "new")

\* A save that was reported as done is not undone, neither by a recovery after
\* a crash nor by the cleanup it left for later.  (A file another program
\* deletes while the claim waits for its removal does come back as it was.)
SavedRevisionStays ==
    pc = "idle" => \A f \in acked \ edited : Matches(f, "target", "new")

\* Until the committed journal is written, the revision a save replaces is
\* still there for each file no other program touched.
BaselineKept ==
    journal.phase \in {"staging", "prepared"} =>
        \A f \in journal.files \ edited :
            Matches(f, "target", "old") \/ Matches(f, "claim", "old")

\* No revision of a file is lost that is still wanted: not the one a save
\* replaces while it may be undone, nor the one of a save that was reported.
RevisionsKept == TypeOK /\ BaselineKept /\ SavedRevisionStays

\* A staged file was cut short by a crash or a failed write.
CutShort == \E f \in Files : Matches(f, "staged", "torn")

\* A test promises more: 'rolls back every staged-write, claim, install, and
\* staged-tamper failure in a three-file batch'.
StagedWriteFailureRollsBack == result = "refused" => edited # {}

\* A journal is cleared in the end unless a cause of refusal stands in its way.
JournalSettles ==
    journal.phase # "none" ~> journal.phase = "none" \/ edited # {} \/ CutShort

====
