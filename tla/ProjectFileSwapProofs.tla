------------------------ MODULE ProjectFileSwapProofs -------------------------
(***************************************************************************)
(* Proofs about ProjectFileSwap, for any finite set of files and any       *)
(* number of crashes, failing calls and writes of other programs.          *)
(***************************************************************************)
EXTENDS ProjectFileSwap, FiniteSetTheorems, TLAPS

(***************************************************************************)
(* The inductive invariant.                                                *)
(***************************************************************************)
Saved(f) == dir[f]["target"] = "next" /\ data[f]["next"] = "new"
Undone(f) == dir[f]["target"] # "next" /\ (f \notin edited => dir[f]["target"] = "base")
Claimed(f) == dir[f]["target"] \notin {"base", "next"}

\* What the inodes of a file hold, and where they may be named.
Shape(f) ==
    /\ dir[f]["claim"] \in {"base", "other", None}
    /\ data[f]["base"] \in {"old", "foreign"}
    /\ \A n \in Names :
           /\ dir[f][n] = "other" => data[f]["other"] = "foreign"
           /\ dir[f][n] = "next" => data[f]["next"] # "old"
    /\ dir[f]["target"] = "base" /\ Exists(f, "claim") => dir[f]["claim"] = "base"
    /\ f \notin edited => data[f]["base"] = "old" /\ \A n \in Names : dir[f][n] # "other"

\* What the journal says of a file.
Journalled(f) ==
    /\ Exists(f, "claim") \/ Exists(f, "rollback") =>
           f \in journal.files /\ journal.phase \notin {"none", "staging"}
    /\ Exists(f, "rollback") => journal.phase # "single"
    /\ f \in journal.files /\ journal.phase = "staging" => dir[f]["target"] # "next"
    /\ f \in journal.files /\ journal.phase = "committed" => dir[f]["target"] # "base"
    /\ f \in journal.files \ edited /\ journal.phase \in {"staging", "prepared"} =>
           f \notin acked /\ "base" \in {dir[f]["target"], dir[f]["claim"]}

\* No bytes that are owed are left in the staged file alone, and a revision that
\* was reported is the file.
Kept(f) ==
    /\ f \in owed => \E n \in {"target", "claim", "rollback"} : Matches(f, n, "foreign")
    /\ f \in acked \ edited => Saved(f)

\* What a save of one file has done to it.
SavingOne(f) ==
    /\ pc \in {"temp", "journal", "claimOne"} => dir[f]["target"] # "next"
    /\ pc = "temp" /\ f = cur => dir[f]["staged"] = "next"
    /\ pc = "claimOne" => ~Exists(f, "claim")
    /\ pc \in {"journal", "claimOne", "verifyOne", "installOne"} =>
           dir[f]["staged"] = "next" /\ data[f]["next"] = "new"
    /\ pc \in {"verifyOne", "installOne", "restore"} => Claimed(f)
    /\ pc = "installOne" \/ (pc = "restore" /\ sure) => Matches(f, "claim", "old")
    /\ pc = "final" /\ f \in owed => Matches(f, "target", "foreign")
    /\ pc = "final" /\ mode = "save" /\ f \notin edited => Saved(f)

\* What a save of several files has done to one of them.
SavingBatch(f) ==
    /\ pc = "claim" =>
           IF f \in todo /\ f # cur THEN ~Exists(f, "claim") /\ dir[f]["target"] # "next"
           ELSE Claimed(f)
    /\ pc = "install" =>
           IF f \in todo THEN Claimed(f)
           ELSE dir[f]["target"] # "base" /\ (f \notin edited => Saved(f))
    /\ pc \in {"check", "commit"} =>
           dir[f]["target"] # "base" /\ (f \notin edited => Saved(f))
    /\ pc \in {"clean", "clear"} /\ mode = "save" /\ f \notin edited => Saved(f)

\* What a rollback has done to it.
Undoing(f) ==
    /\ pc = "undo" /\ f \notin todo => Undone(f)
    /\ pc = "undo" /\ f = cur => dir[f]["target"] # "next"
    /\ pc = "undoVerify" /\ (f \notin todo \/ f = cur) => Undone(f)
    /\ pc = "undone" => Undone(f)
    /\ pc \in {"clean", "clear"} /\ journal.phase \in {"staging", "prepared"} => Undone(f)
    /\ pc = "clear" \/ (pc = "clean" /\ f \notin todo) =>
           ~Exists(f, "claim") /\ ~Exists(f, "rollback")

\* Which journal a step finds, for whom it works and on which files.
Control ==
    /\ pc \in {"stage", "prepare"} => journal.phase = "staging" /\ mode = "save"
    /\ pc \in {"claim", "install", "check", "commit"} =>
           journal.phase = "prepared" /\ mode = "save"
    /\ pc = "undoStage" => journal.phase = "staging" /\ mode # "save"
    /\ pc \in {"undo", "undoVerify", "undone"} => journal.phase = "prepared" /\ mode # "save"
    /\ pc = "redo" => journal.phase = "committed" /\ mode = "open"
    /\ pc \in {"clean", "clear"} =>
           /\ journal.phase \in {"staging", "prepared", "committed"}
           /\ mode = "save" => journal.phase = "committed"
    /\ pc \in {"temp", "journal"} => journal.phase = "none" /\ mode = "save"
    /\ pc \in {"claimOne", "verifyOne", "installOne"} =>
           journal.phase = "single" /\ mode = "save"
    /\ pc = "restore" => journal.phase = "single" /\ mode = "abort"
    /\ pc = "final" =>
           /\ journal.phase \in {"single", "none"}
           /\ mode = "save" => journal.phase = "single"
    /\ pc = "redoOne" => journal.phase = "single" /\ mode = "open"
    /\ pc \in {"verifyOne", "installOne", "restore", "undoVerify"} => cur # None
    /\ pc \in {"claimOne", "verifyOne"} => ~sure
    /\ journal.phase = "none" => journal.files = {}
    /\ journal.phase # "none" /\ pc # "idle" => journal.files = batch
    /\ journal.phase = "none" /\ pc # "idle" => \E g \in Files : batch = {g}
    /\ journal.phase = "single" => \E g \in Files : journal.files = {g}

FileInv(f) ==
    /\ Shape(f) /\ Journalled(f) /\ Kept(f)
    /\ f \in batch => SavingOne(f) /\ SavingBatch(f) /\ Undoing(f)

IInv == TypeOK /\ Control /\ AllOrNothing /\ \A f \in Files : FileInv(f)
-----------------------------------------------------------------------------
(***************************************************************************)
(* What the file system calls do, and what a step leaves alone.            *)
(***************************************************************************)
LEMMA Constants ==
    /\ None \notin Files /\ None \notin Inodes
    /\ None # "base" /\ None # "next" /\ None # "other"
BY ConstantsAssumption DEF Inodes

\* The names of f are set one by one, those of the other files are not touched.
Names4(f, target, claim, staged, rollback) ==
    /\ dir' \in [Files -> [Names -> Inodes \cup {None}]]
    /\ \A g \in Files \ {f} : dir'[g] = dir[g]
    /\ dir'[f]["target"] = target /\ dir'[f]["claim"] = claim
    /\ dir'[f]["staged"] = staged /\ dir'[f]["rollback"] = rollback

LEMMA NamesSet ==
    ASSUME dir \in [Files -> [Names -> Inodes \cup {None}]], NEW f \in Files,
           NEW n \in Names, NEW i \in Inodes \cup {None},
           dir' = [dir EXCEPT ![f][n] = i]
    PROVE  Names4(f, IF n = "target" THEN i ELSE dir[f]["target"],
                     IF n = "claim" THEN i ELSE dir[f]["claim"],
                     IF n = "staged" THEN i ELSE dir[f]["staged"],
                     IF n = "rollback" THEN i ELSE dir[f]["rollback"])
<1>1. dir' = [dir EXCEPT ![f] = [dir[f] EXCEPT ![n] = i]]
  OBVIOUS
<1>2. [dir[f] EXCEPT ![n] = i] \in [Names -> Inodes \cup {None}]
  OBVIOUS
<1>3. dir' \in [Files -> [Names -> Inodes \cup {None}]]
  BY <1>1, <1>2
<1>4. \A g \in Files \ {f} : dir'[g] = dir[g]
  BY <1>1
<1>5. dir'[f] = [dir[f] EXCEPT ![n] = i]
  BY <1>1
<1>6. \A m \in Names : dir'[f][m] = IF n = m THEN i ELSE dir[f][m]
  BY <1>5
<1> QED
  BY <1>3, <1>4, <1>6 DEF Names4, Names

LEMMA NamesMoved ==
    ASSUME dir \in [Files -> [Names -> Inodes \cup {None}]], NEW f \in Files,
           NEW to \in {"claim", "rollback"}, Move(f, "target", to)
    PROVE  Names4(f, None,
                     IF to = "claim" THEN dir[f]["target"] ELSE dir[f]["claim"],
                     dir[f]["staged"],
                     IF to = "rollback" THEN dir[f]["target"] ELSE dir[f]["rollback"])
<1> DEFINE entries == [[dir[f] EXCEPT ![to] = dir[f]["target"]] EXCEPT !["target"] = None]
<1>1. dir[f] \in [Names -> Inodes \cup {None}] /\ to \in Names /\ "target" \in Names
  BY DEF Names
<1>2. dir' = [dir EXCEPT ![f] = entries]
  BY <1>1 DEF Move
<1>3. entries \in [Names -> Inodes \cup {None}]
  BY <1>1
<1>4. \A m \in Names : entries[m] = IF m = "target" THEN None
                                    ELSE IF m = to THEN dir[f]["target"] ELSE dir[f][m]
  BY <1>1
<1> HIDE DEF entries
<1>5. dir' \in [Files -> [Names -> Inodes \cup {None}]] /\ dir'[f] = entries
      /\ \A g \in Files \ {f} : dir'[g] = dir[g]
  BY <1>2, <1>3
<1> QED
  BY <1>4, <1>5 DEF Names4, Names

\* The inodes of f are written one by one.
Inodes3(f, base, next, other) ==
    /\ data' \in [Files -> [Inodes -> Contents]]
    /\ \A g \in Files \ {f} : data'[g] = data[g]
    /\ data'[f]["base"] = base /\ data'[f]["next"] = next /\ data'[f]["other"] = other

LEMMA InodeWritten ==
    ASSUME data \in [Files -> [Inodes -> Contents]], NEW f \in Files,
           NEW i \in Inodes, NEW c \in Contents, data' = [data EXCEPT ![f][i] = c]
    PROVE  Inodes3(f, IF i = "base" THEN c ELSE data[f]["base"],
                      IF i = "next" THEN c ELSE data[f]["next"],
                      IF i = "other" THEN c ELSE data[f]["other"])
<1>1. data' = [data EXCEPT ![f] = [data[f] EXCEPT ![i] = c]]
  OBVIOUS
<1>2. [data[f] EXCEPT ![i] = c] \in [Inodes -> Contents]
  OBVIOUS
<1>3. data' \in [Files -> [Inodes -> Contents]] /\ \A g \in Files \ {f} : data'[g] = data[g]
  BY <1>1, <1>2
<1>4. data'[f] = [data[f] EXCEPT ![i] = c]
  BY <1>1
<1>5. \A j \in Inodes : data'[f][j] = IF i = j THEN c ELSE data[f][j]
  BY <1>4
<1> QED
  BY <1>3, <1>5 DEF Inodes3, Inodes

LEMMA ShapeKept ==
    ASSUME NEW f, Shape(f), dir'[f] = dir[f], data'[f] = data[f],
           f \in edited' <=> f \in edited
    PROVE  Shape(f)'
BY DEF Shape, Exists

LEMMA KeptKept ==
    ASSUME NEW f, Kept(f), dir'[f] = dir[f], data'[f] = data[f],
           f \in edited' <=> f \in edited, f \in owed' => f \in owed,
           f \in acked' => f \in acked
    PROVE  Kept(f)'
BY DEF Kept, Matches, Exists, Saved

LEMMA JournalledKept ==
    ASSUME NEW f, Journalled(f), dir'[f] = dir[f], journal' = journal,
           f \in edited' <=> f \in edited, f \in acked' => f \in acked
    PROVE  Journalled(f)'
BY DEF Journalled, Exists

\* The files a step does not touch.
Other(f) ==
    \A g \in Files \ {f} : dir'[g] = dir[g] /\ data'[g] = data[g]

LEMMA DiskKept ==
    ASSUME \A g \in Files : FileInv(g), UNCHANGED <<dir, data, edited, owed, acked>>
    PROVE  \A g \in Files : Shape(g)' /\ Kept(g)'
BY ShapeKept, KeptKept DEF FileInv

LEMMA FilesKept ==
    ASSUME \A g \in Files : FileInv(g), UNCHANGED <<dir, data, journal, edited, owed, acked>>
    PROVE  \A g \in Files : Shape(g)' /\ Journalled(g)' /\ Kept(g)'
BY ShapeKept, KeptKept, JournalledKept DEF FileInv

\* Nothing runs when a step has ended.
LEMMA IdleFiles ==
    ASSUME pc' = "idle"
    PROVE  \A g \in Files : SavingOne(g)' /\ SavingBatch(g)' /\ Undoing(g)'
BY DEF SavingOne, SavingBatch, Undoing
-----------------------------------------------------------------------------
(***************************************************************************)
(* What fails.  Each lemma has the effects of a step first, then what they *)
(* do to one part of the invariant after the other.                        *)
(***************************************************************************)

LEMMA StagingFails ==
    ASSUME IInv, pc \in {"stage", "prepare"}, HandleError, UNCHANGED <<disk, result, acked>>,
           faults' \in Nat, UNCHANGED <<crashes, edits, edited, owed>>
    PROVE  IInv'
<1> USE Constants DEF IInv, TypeOK
<1>1. /\ pc' = "undoStage" /\ mode' = "abort" /\ batch' = batch /\ todo' = batch
      /\ cur' = None /\ sure' = FALSE /\ preserved' = {} /\ faults' \in Nat
      /\ journal.phase = "staging"
      /\ UNCHANGED <<dir, data, journal, result, crashes, edits, edited, owed, acked>>
  BY DEF HandleError, GoTo, disk, Control
<1>2. TypeOK'
  BY <1>1 DEF DiskTypes, VisitTypes, OutcomeTypes, Steps, Phases
<1>3. Control'
  BY <1>1 DEF Control
<1>4. AllOrNothing'
  BY <1>1 DEF AllOrNothing
<1>5. \A g \in Files : Shape(g)' /\ Journalled(g)' /\ Kept(g)'
  BY <1>1, FilesKept
<1>6. ASSUME NEW g \in batch'
      PROVE  SavingOne(g)'
  BY <1>1 DEF SavingOne
<1>7. ASSUME NEW g \in batch'
      PROVE  SavingBatch(g)'
  BY <1>1 DEF SavingBatch
<1>8. ASSUME NEW g \in batch'
      PROVE  Undoing(g)'
  BY <1>1 DEF Undoing
<1>9. \A g \in Files : FileInv(g)'
  BY <1>5, <1>6, <1>7, <1>8 DEF FileInv
<1> QED
  BY <1>2, <1>3, <1>4, <1>9

LEMMA BatchFails ==
    ASSUME IInv, pc \in {"claim", "install", "check", "commit"}, HandleError,
           UNCHANGED <<disk, result, acked>>, faults' \in Nat,
           UNCHANGED <<crashes, edits, edited, owed>>
    PROVE  IInv'
<1> USE Constants DEF IInv, TypeOK
<1>1. /\ pc' = "undo" /\ mode' = "abort" /\ batch' = batch /\ todo' = batch
      /\ cur' = None /\ sure' = FALSE /\ preserved' = {} /\ faults' \in Nat
      /\ journal.phase = "prepared"
      /\ UNCHANGED <<dir, data, journal, result, crashes, edits, edited, owed, acked>>
  BY DEF HandleError, GoTo, disk, Control
<1>2. TypeOK'
  BY <1>1 DEF DiskTypes, VisitTypes, OutcomeTypes, Steps, Phases
<1>3. Control'
  BY <1>1 DEF Control
<1>4. AllOrNothing'
  BY <1>1 DEF AllOrNothing
<1>5. \A g \in Files : Shape(g)' /\ Journalled(g)' /\ Kept(g)'
  BY <1>1, FilesKept
<1>6. ASSUME NEW g \in batch'
      PROVE  SavingOne(g)'
  BY <1>1 DEF SavingOne
<1>7. ASSUME NEW g \in batch'
      PROVE  SavingBatch(g)'
  BY <1>1 DEF SavingBatch
<1>8. ASSUME NEW g \in batch'
      PROVE  Undoing(g)'
  BY <1>1 DEF Undoing, FileInv, Undone, Matches, Exists, Journalled, Kept, Shape,
    Control, VisitTypes
<1>9. \A g \in Files : FileInv(g)'
  BY <1>5, <1>6, <1>7, <1>8 DEF FileInv
<1> QED
  BY <1>2, <1>3, <1>4, <1>9

LEMMA SingleFails ==
    ASSUME IInv, pc \in {"journal", "claimOne"}, HandleError, UNCHANGED <<disk, result,
           acked>>,
           faults' \in Nat, UNCHANGED <<crashes, edits, edited, owed>>
    PROVE  IInv'
<1> USE Constants DEF IInv, TypeOK
<1>1. /\ pc' = "final" /\ mode' = "abort" /\ batch' = batch /\ todo' = batch
      /\ cur' = None /\ sure' = FALSE /\ preserved' = {} /\ faults' \in Nat
      /\ journal.phase \in {"none", "single"}
      /\ UNCHANGED <<dir, data, journal, result, crashes, edits, edited, owed, acked>>
  BY DEF HandleError, GoTo, disk, Control
<1>2. TypeOK'
  BY <1>1 DEF DiskTypes, VisitTypes, OutcomeTypes, Steps, Phases
<1>3. Control'
  BY <1>1 DEF Control
<1>4. AllOrNothing'
  BY <1>1 DEF AllOrNothing
<1>5. \A g \in Files : Shape(g)' /\ Journalled(g)' /\ Kept(g)'
  BY <1>1, FilesKept
<1>6. ASSUME NEW g \in batch'
      PROVE  SavingOne(g)'
  BY <1>1 DEF SavingOne, FileInv, Claimed, Saved, Matches, Exists, Journalled, Kept,
    Shape, Control, VisitTypes
<1>7. ASSUME NEW g \in batch'
      PROVE  SavingBatch(g)'
  BY <1>1 DEF SavingBatch
<1>8. ASSUME NEW g \in batch'
      PROVE  Undoing(g)'
  BY <1>1 DEF Undoing
<1>9. \A g \in Files : FileInv(g)'
  BY <1>5, <1>6, <1>7, <1>8 DEF FileInv
<1> QED
  BY <1>2, <1>3, <1>4, <1>9

LEMMA ClaimedFails ==
    ASSUME IInv, pc \in {"verifyOne", "installOne"}, HandleError,
           UNCHANGED <<disk, result, acked>>, faults' \in Nat,
           UNCHANGED <<crashes, edits, edited, owed>>
    PROVE  IInv'
<1> USE Constants DEF IInv, TypeOK
<1>1. /\ pc' = "restore" /\ mode' = "abort" /\ batch' = batch /\ todo' = todo
      /\ cur' = cur /\ sure' = sure /\ preserved' = preserved /\ faults' \in Nat
      /\ journal.phase = "single" /\ (pc = "verifyOne" => ~sure)
      /\ UNCHANGED <<dir, data, journal, result, crashes, edits, edited, owed, acked>>
  BY DEF HandleError, disk, Control
<1>2. TypeOK'
  BY <1>1 DEF DiskTypes, VisitTypes, OutcomeTypes, Steps, Phases
<1>3. Control'
  BY <1>1 DEF Control
<1>4. AllOrNothing'
  BY <1>1 DEF AllOrNothing
<1>5. \A g \in Files : Shape(g)' /\ Journalled(g)' /\ Kept(g)'
  BY <1>1, FilesKept
<1>6. ASSUME NEW g \in batch'
      PROVE  SavingOne(g)'
  BY <1>1 DEF SavingOne, FileInv, Claimed, Saved, Matches, Exists, Journalled, Kept,
    Shape, Control, VisitTypes
<1>7. ASSUME NEW g \in batch'
      PROVE  SavingBatch(g)'
  BY <1>1 DEF SavingBatch
<1>8. ASSUME NEW g \in batch'
      PROVE  Undoing(g)'
  BY <1>1 DEF Undoing
<1>9. \A g \in Files : FileInv(g)'
  BY <1>5, <1>6, <1>7, <1>8 DEF FileInv
<1> QED
  BY <1>2, <1>3, <1>4, <1>9

LEMMA Fails ==
    ASSUME IInv, HandleError, UNCHANGED <<disk, result, acked>>, faults' \in Nat,
           UNCHANGED <<crashes, edits, edited, owed>>
    PROVE  IInv'
<1>1. pc \in {"stage", "prepare"} \cup {"claim", "install", "check", "commit"}
            \cup {"journal", "claimOne"} \cup {"verifyOne", "installOne"}
  BY DEF HandleError
<1> QED
  BY <1>1, StagingFails, BatchFails, SingleFails, ClaimedFails

LEMMA FailingStep ==
    ASSUME IInv, Failing
    PROVE  IInv'
<1>1. faults' \in Nat /\ UNCHANGED <<crashes, edits, edited, owed>>
  BY DEF IInv, TypeOK, OutcomeTypes, Failing, environment
<1> QED
  BY <1>1, Fails DEF Failing

\* What is ended by an error, a crash or a refusal, with its journal left for later.
LEMMA Ends ==
    ASSUME IInv, End("failed") \/ End("refused") \/ End("error") \/ End("crashed"),
           pc # "idle", UNCHANGED <<disk, edits, edited, owed>>,
           faults' \in Nat, crashes' \in Nat
    PROVE  IInv'
<1> USE Constants DEF IInv, TypeOK
<1>1. /\ pc' = "idle" /\ pc # "idle" /\ mode' = mode /\ batch' = batch /\ todo' = {}
      /\ cur' = None /\ sure' = FALSE /\ preserved' = {} /\ acked' = acked
      /\ result' \in {"failed", "refused", "error", "crashed"}
      /\ UNCHANGED <<dir, data, journal, edits, edited, owed>> /\ faults' \in Nat
      /\ crashes' \in Nat
  BY DEF End, disk
<1>2. TypeOK'
  BY <1>1 DEF DiskTypes, VisitTypes, OutcomeTypes, Steps, Phases
<1>3. Control'
  BY <1>1 DEF Control
<1>4. AllOrNothing'
  BY <1>1, Constants DEF AllOrNothing, Control, Matches
<1>5. \A g \in Files : Shape(g)' /\ Journalled(g)' /\ Kept(g)'
  BY <1>1, FilesKept
<1>6. \A g \in Files : SavingOne(g)' /\ SavingBatch(g)' /\ Undoing(g)'
  BY <1>1, IdleFiles
<1>7. \A g \in Files : FileInv(g)'
  BY <1>5, <1>6 DEF FileInv
<1> QED
  BY <1>2, <1>3, <1>4, <1>7

\* A save that is done although its cleanup failed.
LEMMA SavesAll ==
    ASSUME IInv, End("saved"), mode = "save", pc \in {"clean", "clear", "final"},
           UNCHANGED <<disk, edits, edited, owed>>, faults' \in Nat, crashes' \in Nat
    PROVE  IInv'
<1> USE Constants DEF IInv, TypeOK
<1>1. /\ pc' = "idle" /\ pc # "idle" /\ mode' = mode /\ batch' = batch /\ todo' = {}
      /\ cur' = None /\ sure' = FALSE /\ preserved' = {} /\ acked' = acked \cup batch
      /\ result' = "saved" /\ journal.phase \in {"committed", "single"}
      /\ \A g \in batch \ edited : Saved(g)
      /\ UNCHANGED <<dir, data, journal, edits, edited, owed>> /\ faults' \in Nat
      /\ crashes' \in Nat
  <2>1. journal.phase \in {"committed", "single"} /\ \A g \in batch \ edited : Saved(g)
    BY DEF Control, FileInv, SavingOne, SavingBatch, VisitTypes
  <2> QED
    BY <2>1 DEF End, disk
<1>2. TypeOK'
  BY <1>1 DEF DiskTypes, VisitTypes, OutcomeTypes, Steps, Phases
<1>3. Control'
  BY <1>1 DEF Control
<1>4. AllOrNothing'
  BY <1>1 DEF AllOrNothing
<1>5. \A g \in Files : Shape(g)' /\ Journalled(g)' /\ Kept(g)'
  <2> SUFFICES ASSUME NEW g \in Files
               PROVE  Shape(g)' /\ Journalled(g)' /\ Kept(g)'
    OBVIOUS
  <2>1. Shape(g)'
    BY <1>1, ShapeKept DEF FileInv
  <2>2. Journalled(g)'
    BY <1>1 DEF FileInv, Journalled, Exists
  <2>3. Kept(g)'
    BY <1>1 DEF FileInv, Kept, Matches, Exists, Saved
  <2> QED
    BY <2>1, <2>2, <2>3
<1>6. \A g \in Files : SavingOne(g)' /\ SavingBatch(g)' /\ Undoing(g)'
  BY <1>1, IdleFiles
<1>7. \A g \in Files : FileInv(g)'
  BY <1>5, <1>6 DEF FileInv
<1> QED
  BY <1>2, <1>3, <1>4, <1>7

LEMMA StopsHere ==
    ASSUME IInv, NEW why \in {"refused", "error"}, Stopped(why), pc # "idle",
           UNCHANGED <<disk, edits, edited, owed>>, faults' \in Nat, crashes' \in Nat
    PROVE  IInv'
<1>1. CASE mode = "save" /\ pc \in {"clean", "clear", "final"}
  BY <1>1, SavesAll DEF Stopped
<1>2. CASE ~(mode = "save" /\ pc \in {"clean", "clear", "final"})
  <2>1. End("failed") \/ End("refused") \/ End("error")
    BY <1>2 DEF Stopped
  <2> QED
    BY <2>1, Ends
<1> QED
  BY <1>1, <1>2

LEMMA RefusedStep ==
    ASSUME IInv, Refuse("refused"), pc # "idle"
    PROVE  IInv'
<1>1. faults' \in Nat /\ crashes' \in Nat /\ UNCHANGED <<disk, edits, edited, owed>>
  BY DEF IInv, TypeOK, OutcomeTypes, Refuse, environment
<1> QED
  BY <1>1, StopsHere DEF Refuse

(***************************************************************************)
(* The start of a save or of a recovery.                                   *)
(***************************************************************************)

LEMMA Recovers ==
    ASSUME IInv, RecoverInterruptedClaims
    PROVE  IInv'
<1> USE Constants DEF IInv, TypeOK
<1>1. /\ \/ pc' = "redoOne" /\ journal.phase = "single"
         \/ pc' = "undoStage" /\ journal.phase = "staging"
         \/ pc' = "undo" /\ journal.phase = "prepared"
         \/ pc' = "redo" /\ journal.phase = "committed"
      /\ mode' = "open" /\ batch' = journal.files /\ todo' = journal.files
      /\ journal.files \subseteq Files
      /\ cur' = None /\ sure' = FALSE /\ preserved' = {}
      /\ UNCHANGED <<dir, data, journal>>
      /\ UNCHANGED <<crashes, faults, edits, edited, owed, acked, result>>
  <2>1. journal.phase \in {"single", "staging", "prepared", "committed"}
    BY DEF RecoverInterruptedClaims, DiskTypes, Phases
  <2> journal.files \subseteq Files
    BY DEF DiskTypes
  <2>2. CASE journal.phase = "single"
    BY <2>2 DEF RecoverInterruptedClaims, RecoveryStep, disk, environment
  <2>3. CASE journal.phase = "staging"
    BY <2>3 DEF RecoverInterruptedClaims, RecoveryStep, disk, environment
  <2>4. CASE journal.phase = "prepared"
    BY <2>4 DEF RecoverInterruptedClaims, RecoveryStep, disk, environment
  <2>5. CASE journal.phase = "committed"
    BY <2>5 DEF RecoverInterruptedClaims, RecoveryStep, disk, environment
  <2> QED
    BY <2>1, <2>2, <2>3, <2>4, <2>5
<1>2. TypeOK'
  BY <1>1 DEF DiskTypes, VisitTypes, OutcomeTypes, Steps, Phases
<1>3. Control'
  BY <1>1 DEF Control
<1>4. AllOrNothing'
  BY <1>1 DEF AllOrNothing
<1>5. \A g \in Files : Shape(g)' /\ Journalled(g)' /\ Kept(g)'
  BY <1>1, FilesKept
<1>6. ASSUME NEW g \in batch'
      PROVE  SavingOne(g)'
  BY <1>1 DEF SavingOne
<1>7. ASSUME NEW g \in batch'
      PROVE  SavingBatch(g)'
  BY <1>1 DEF SavingBatch
<1>8. ASSUME NEW g \in batch'
      PROVE  Undoing(g)'
  BY <1>1 DEF Undoing, FileInv, Undone, Matches, Exists, Journalled, Kept, Shape,
    Control, VisitTypes
<1>9. \A g \in Files : FileInv(g)'
  BY <1>5, <1>6, <1>7, <1>8 DEF FileInv
<1> QED
  BY <1>2, <1>3, <1>4, <1>9

LEMMA BeginsOne ==
    ASSUME IInv, NEW files \in SUBSET Files, Cardinality(files) = 1, BeginSave(files)
    PROVE  IInv'
<1> USE Constants DEF IInv, TypeOK
<1>1. /\ pc = "idle" /\ journal.phase = "none" /\ pc' = "temp"
      /\ mode' = "save" /\ todo' = batch' /\ batch' \subseteq Files
      /\ \E g \in Files : batch' = {g}
      /\ \A g \in batch' : Matches(g, "target", "old") /\ dir[g]["target"] # "next"
         /\ (g \notin edited => dir[g]["target"] = "base" /\ g \notin acked)
      /\ cur' = None /\ sure' = FALSE /\ preserved' = {}
      /\ UNCHANGED <<dir, data, journal>>
      /\ UNCHANGED <<crashes, faults, edits, edited, owed, acked, result>>
  <2>1. ASSUME NEW g \in files
        PROVE  Matches(g, "target", "old") /\ dir[g]["target"] # "next"
               /\ (g \notin edited => dir[g]["target"] = "base" /\ g \notin acked)
    <3>1. Matches(g, "target", "old") /\ g \in Files
      BY DEF BeginSave
    <3>2. Shape(g) /\ Kept(g)
      BY <3>1 DEF FileInv
    <3>3. dir[g]["target"] \in {"base", "next", "other"}
      BY <3>1 DEF DiskTypes, Matches, Exists, Names, Inodes
    <3> QED
      BY <3>1, <3>2, <3>3 DEF Shape, Kept, Saved, Matches, Names
  <2>2. IsFiniteSet(files)
    BY ConstantsAssumption, FS_Subset
  <2>3. \E g : files = {g}
    BY <2>2, FS_Singleton
  <2> QED
    BY <2>1, <2>3 DEF BeginSave, environment
<1>2. TypeOK'
  BY <1>1 DEF DiskTypes, VisitTypes, OutcomeTypes, Steps, Phases
<1>3. Control'
  BY <1>1 DEF Control
<1>4. AllOrNothing'
  BY <1>1 DEF AllOrNothing
<1>5. \A g \in Files : Shape(g)' /\ Journalled(g)' /\ Kept(g)'
  BY <1>1, FilesKept
<1>6. ASSUME NEW g \in batch'
      PROVE  SavingOne(g)'
  BY <1>1 DEF SavingOne
<1>7. ASSUME NEW g \in batch'
      PROVE  SavingBatch(g)'
  BY <1>1 DEF SavingBatch
<1>8. ASSUME NEW g \in batch'
      PROVE  Undoing(g)'
  BY <1>1 DEF Undoing
<1>9. \A g \in Files : FileInv(g)'
  BY <1>5, <1>6, <1>7, <1>8 DEF FileInv
<1> QED
  BY <1>2, <1>3, <1>4, <1>9

LEMMA BeginsBatch ==
    ASSUME IInv, NEW files \in SUBSET Files, Cardinality(files) # 1, BeginSave(files)
    PROVE  IInv'
<1> USE Constants DEF IInv, TypeOK
<1>1. /\ pc = "idle" /\ journal.phase = "none" /\ pc' = "stage"
      /\ mode' = "save" /\ todo' = batch' /\ batch' \subseteq Files
      /\ journal' = [phase |-> "staging", files |-> batch']
      /\ \A g \in batch' : Matches(g, "target", "old") /\ dir[g]["target"] # "next"
         /\ (g \notin edited => dir[g]["target"] = "base" /\ g \notin acked)
      /\ cur' = None /\ sure' = FALSE /\ preserved' = {}
      /\ UNCHANGED <<dir, data>>
      /\ UNCHANGED <<crashes, faults, edits, edited, owed, acked, result>>
  <2>1. ASSUME NEW g \in files
        PROVE  Matches(g, "target", "old") /\ dir[g]["target"] # "next"
               /\ (g \notin edited => dir[g]["target"] = "base" /\ g \notin acked)
    <3>1. Matches(g, "target", "old") /\ g \in Files
      BY DEF BeginSave
    <3>2. Shape(g) /\ Kept(g)
      BY <3>1 DEF FileInv
    <3>3. dir[g]["target"] \in {"base", "next", "other"}
      BY <3>1 DEF DiskTypes, Matches, Exists, Names, Inodes
    <3> QED
      BY <3>1, <3>2, <3>3 DEF Shape, Kept, Saved, Matches, Names
  <2> QED
    BY <2>1 DEF BeginSave, environment
<1>2. TypeOK'
  BY <1>1 DEF DiskTypes, VisitTypes, OutcomeTypes, Steps, Phases
<1>3. Control'
  BY <1>1 DEF Control
<1>4. AllOrNothing'
  BY <1>1 DEF AllOrNothing
<1>5. \A g \in Files : Shape(g)' /\ Kept(g)'
  BY <1>1, DiskKept
<1>6. ASSUME NEW g \in Files
      PROVE  Journalled(g)'
  BY <1>1 DEF Journalled, FileInv, Exists, Matches, Shape, Kept, SavingOne, SavingBatch,
    Undoing, Claimed, Saved, Undone, Control
<1>7. ASSUME NEW g \in batch'
      PROVE  SavingOne(g)'
  BY <1>1 DEF SavingOne
<1>8. ASSUME NEW g \in batch'
      PROVE  SavingBatch(g)'
  BY <1>1 DEF SavingBatch
<1>9. ASSUME NEW g \in batch'
      PROVE  Undoing(g)'
  BY <1>1 DEF Undoing
<1>10. \A g \in Files : FileInv(g)'
  BY <1>5, <1>6, <1>7, <1>8, <1>9 DEF FileInv
<1> QED
  BY <1>2, <1>3, <1>4, <1>10

(***************************************************************************)
(* A save of several files.                                                *)
(***************************************************************************)

LEMMA OpensStaged ==
    ASSUME IInv, NEW f \in todo, pc \in {"stage", "temp"}, cur = None,
           dir' = [dir EXCEPT ![f]["staged"] = "next"],
           data' = [data EXCEPT ![f]["next"] = "torn"], cur' = f,
           UNCHANGED <<journal, pc, mode, batch, todo, sure, preserved, result,
                       environment, acked>>
    PROVE  IInv'
<1> USE Constants DEF IInv, TypeOK
<1>1. /\ f \in todo /\ f \in batch /\ f \in Files
      /\ Names4(f, dir[f]["target"], dir[f]["claim"], "next", dir[f]["rollback"])
      /\ Inodes3(f, data[f]["base"], "torn", data[f]["other"])
      /\ pc \in {"stage", "temp"} /\ pc' = pc /\ cur' = f
      /\ dir[f]["target"] # "next" /\ dir[f]["rollback"] = None
      /\ UNCHANGED <<journal, mode, batch, todo, sure, preserved>>
      /\ UNCHANGED <<crashes, faults, edits, edited, owed, acked, result>>
  <2>1. f \in todo /\ f \in batch /\ f \in Files
    BY DEF VisitTypes
  <2>2. Names4(f, dir[f]["target"], dir[f]["claim"], "next", dir[f]["rollback"])
    BY <2>1, NamesSet DEF DiskTypes, Names, Inodes
  <2>3. Inodes3(f, data[f]["base"], "torn", data[f]["other"])
    BY <2>1, InodeWritten DEF DiskTypes, Inodes, Contents
  <2>4. dir[f]["target"] # "next" /\ dir[f]["rollback"] = None
    BY <2>1 DEF FileInv, SavingOne, Journalled, Control, Exists
  <2> QED
    BY <2>1, <2>2, <2>3, <2>4 DEF environment
<1>2. TypeOK'
  BY <1>1 DEF DiskTypes, VisitTypes, OutcomeTypes, Steps, Phases, Names4, Inodes3
<1>3. Control'
  BY <1>1 DEF Control, Names4, Inodes3
<1>4. AllOrNothing'
  BY <1>1 DEF AllOrNothing
<1>5. ASSUME NEW g \in Files \ {f}
      PROVE  Shape(g)' /\ Journalled(g)' /\ Kept(g)'
  BY <1>1, ShapeKept, JournalledKept, KeptKept DEF FileInv, Names4, Inodes3
<1>6. Shape(f)'
  BY <1>1 DEF Shape, FileInv, Exists, Names4, Inodes3
<1>7. Journalled(f)'
  BY <1>1 DEF Journalled, FileInv, Exists, Names4, Inodes3
<1>8. Kept(f)'
  BY <1>1 DEF Kept, FileInv, Exists, Matches, Saved, Shape, Journalled, Names4, Inodes3
<1>9. ASSUME NEW g \in batch'
      PROVE  SavingOne(g)'
  BY <1>1 DEF SavingOne, FileInv, Claimed, Saved, Matches, Exists, VisitTypes, Names4,
    Inodes3
<1>10. ASSUME NEW g \in batch'
      PROVE  SavingBatch(g)'
  BY <1>1 DEF SavingBatch, Names4, Inodes3
<1>11. ASSUME NEW g \in batch'
      PROVE  Undoing(g)'
  BY <1>1 DEF Undoing, Names4, Inodes3
<1>12. \A g \in Files : FileInv(g)'
  BY <1>5, <1>6, <1>7, <1>8, <1>9, <1>10, <1>11 DEF FileInv
<1> QED
  BY <1>2, <1>3, <1>4, <1>12

LEMMA WritesStaged ==
    ASSUME IInv, NEW f \in todo, f = cur, WriteStaged
    PROVE  IInv'
<1> USE Constants DEF IInv, TypeOK
<1>1. /\ f \in todo /\ f \in batch /\ f \in Files
      /\ dir' = dir
      /\ \A n \in Names : dir[f][n] \in {"base", "next", "other", None}
      /\ Inodes3(f, data[f]["base"], "new", data[f]["other"])
      /\ \/ pc = "stage" /\ pc' \in {"stage", "prepare"}
         \/ pc = "temp" /\ pc' = "temp"
         \/ pc = "temp" /\ pc' = "journal" /\ batch = {f} /\ dir[f]["staged"] = "next"
      /\ todo' = todo \ {f} /\ cur' = None /\ sure' = FALSE
      /\ dir[f]["target"] # "next" /\ dir[f]["rollback"] = None
      /\ UNCHANGED <<journal, mode, batch, preserved>>
      /\ UNCHANGED <<crashes, faults, edits, edited, owed, acked, result>>
  <2>1. f \in todo /\ f \in batch /\ f \in Files
    BY DEF VisitTypes, WriteStaged
  <2>2. Inodes3(f, data[f]["base"], "new", data[f]["other"])
    BY <2>1, InodeWritten DEF DiskTypes, Inodes, Contents, WriteStaged
  <2>3. dir[f]["target"] # "next" /\ dir[f]["rollback"] = None
    BY <2>1 DEF FileInv, SavingOne, Journalled, Control, Exists, WriteStaged
  <2>4. pc = "temp" => batch = {f} /\ dir[f]["staged"] = "next"
    BY <2>1 DEF FileInv, SavingOne, Control
  <2>5. \A n \in Names : dir[f][n] \in {"base", "next", "other", None}
    BY <2>1 DEF DiskTypes, Inodes
  <2> QED
    BY <2>1, <2>2, <2>3, <2>4, <2>5 DEF WriteStaged, Visited, environment
<1>2. TypeOK'
  BY <1>1 DEF DiskTypes, VisitTypes, OutcomeTypes, Steps, Phases, Inodes3, Names
<1>3. Control'
  BY <1>1 DEF Control, Inodes3, Names
<1>4. AllOrNothing'
  BY <1>1 DEF AllOrNothing
<1>5. ASSUME NEW g \in Files \ {f}
      PROVE  Shape(g)' /\ Journalled(g)' /\ Kept(g)'
  BY <1>1, ShapeKept, JournalledKept, KeptKept DEF FileInv, Inodes3, Names
<1>6. Shape(f)'
  BY <1>1 DEF Shape, FileInv, Exists, Matches, Journalled, SavingOne, SavingBatch,
    Undoing, Claimed, Saved, Undone, Control, Inodes3, Names
<1>7. Journalled(f)'
  BY <1>1 DEF Journalled, FileInv, Exists, Matches, Shape, Kept, SavingOne, SavingBatch,
    Undoing, Claimed, Saved, Undone, Control, Inodes3, Names
<1>8. Kept(f)'
  BY <1>1 DEF Kept, FileInv, Exists, Matches, Shape, Journalled, SavingOne, SavingBatch,
    Undoing, Claimed, Saved, Undone, Control, Inodes3, Names
<1>9. ASSUME NEW g \in batch'
      PROVE  SavingOne(g)'
  BY <1>1 DEF SavingOne, FileInv, Claimed, Saved, Matches, Exists, VisitTypes, Inodes3,
    Names
<1>10. ASSUME NEW g \in batch'
      PROVE  SavingBatch(g)'
  BY <1>1 DEF SavingBatch, Inodes3, Names
<1>11. ASSUME NEW g \in batch'
      PROVE  Undoing(g)'
  BY <1>1 DEF Undoing, Inodes3, Names
<1>12. \A g \in Files : FileInv(g)'
  BY <1>5, <1>6, <1>7, <1>8, <1>9, <1>10, <1>11 DEF FileInv
<1> QED
  BY <1>2, <1>3, <1>4, <1>12

LEMMA WritesPrepared ==
    ASSUME IInv, WritePrepared
    PROVE  IInv'
<1> USE Constants DEF IInv, TypeOK
<1>1. /\ pc = "prepare" /\ pc' = "claim" /\ journal.phase = "staging" /\ mode = "save"
      /\ journal' = [phase |-> "prepared", files |-> batch] /\ journal.files = batch
      /\ todo' = batch /\ cur' = None /\ sure' = FALSE
      /\ UNCHANGED <<dir, data, mode, batch, preserved>>
      /\ UNCHANGED <<crashes, faults, edits, edited, owed, acked, result>>
  BY DEF WritePrepared, WriteJournal, GoTo, Control, environment
<1>2. TypeOK'
  BY <1>1 DEF DiskTypes, VisitTypes, OutcomeTypes, Steps, Phases
<1>3. Control'
  BY <1>1 DEF Control
<1>4. AllOrNothing'
  BY <1>1 DEF AllOrNothing
<1>5. \A g \in Files : Shape(g)' /\ Kept(g)'
  BY <1>1, DiskKept
<1>6. ASSUME NEW g \in Files
      PROVE  Journalled(g)'
  BY <1>1 DEF Journalled, FileInv, Exists
<1>7. ASSUME NEW g \in batch'
      PROVE  SavingOne(g)'
  BY <1>1 DEF SavingOne
<1>8. ASSUME NEW g \in batch'
      PROVE  SavingBatch(g)'
  BY <1>1 DEF SavingBatch, FileInv, Claimed, Saved, Undone, Matches, Exists, Journalled,
    Kept, Shape, Control, VisitTypes
<1>9. ASSUME NEW g \in batch'
      PROVE  Undoing(g)'
  BY <1>1 DEF Undoing
<1>10. \A g \in Files : FileInv(g)'
  BY <1>5, <1>6, <1>7, <1>8, <1>9 DEF FileInv
<1> QED
  BY <1>2, <1>3, <1>4, <1>10

LEMMA Claims ==
    ASSUME IInv, NEW f \in todo, pc = "claim", cur = None, Exists(f, "target"),
           Move(f, "target", "claim"), cur' = f,
           UNCHANGED <<data, journal, pc, mode, batch, todo, sure, preserved, result,
                       environment, acked>>
    PROVE  IInv'
<1> USE Constants DEF IInv, TypeOK
<1>1. /\ f \in todo /\ f \in batch /\ f \in Files
      /\ \A n \in Names : dir[f][n] \in {"base", "next", "other", None}
      /\ Names4(f, None, dir[f]["target"], dir[f]["staged"], dir[f]["rollback"])
      /\ pc = "claim" /\ pc' = "claim" /\ cur = None /\ cur' = f
      /\ dir[f]["claim"] = None /\ dir[f]["target"] \in {"base", "other"}
      /\ UNCHANGED <<data, journal, todo, sure, mode, batch, preserved>>
      /\ UNCHANGED <<crashes, faults, edits, edited, owed, acked, result>>
  <2>1. f \in todo /\ f \in batch /\ f \in Files
    BY DEF VisitTypes
  <2>2. \A n \in Names : dir[f][n] \in {"base", "next", "other", None}
    BY <2>1 DEF DiskTypes, Inodes
  <2>3. Names4(f, None, dir[f]["target"], dir[f]["staged"], dir[f]["rollback"])
    BY <2>1, NamesMoved DEF DiskTypes
  <2>4. dir[f]["claim"] = None /\ dir[f]["target"] \in {"base", "other"}
    BY <2>1, <2>2 DEF FileInv, SavingBatch, Exists, Names
  <2> QED
    BY <2>1, <2>2, <2>3, <2>4 DEF environment
<1>2. TypeOK'
  BY <1>1 DEF DiskTypes, VisitTypes, OutcomeTypes, Steps, Phases, Names4, Names
<1>3. Control'
  BY <1>1 DEF Control, Names4, Names
<1>4. AllOrNothing'
  BY <1>1 DEF AllOrNothing
<1>5. ASSUME NEW g \in Files \ {f}
      PROVE  Shape(g)' /\ Journalled(g)' /\ Kept(g)'
  BY <1>1, ShapeKept, JournalledKept, KeptKept DEF FileInv, Names4, Names
<1>6. Shape(f)'
  BY <1>1 DEF Shape, FileInv, Exists, Names4, Names
<1>7. Journalled(f)'
  BY <1>1 DEF Journalled, FileInv, Exists, Matches, Shape, Kept, SavingOne, SavingBatch,
    Undoing, Claimed, Saved, Undone, Control, Names4, Names
<1>8. Kept(f)'
  BY <1>1 DEF Kept, FileInv, Exists, Matches, Saved, Names4, Names
<1>9. ASSUME NEW g \in batch'
      PROVE  SavingOne(g)'
  BY <1>1 DEF SavingOne, Names4, Names
<1>10. ASSUME NEW g \in batch'
      PROVE  SavingBatch(g)'
  BY <1>1 DEF SavingBatch, FileInv, Claimed, Saved, Matches, Exists, VisitTypes, Names4,
    Names
<1>11. ASSUME NEW g \in batch'
      PROVE  Undoing(g)'
  BY <1>1 DEF Undoing, Names4, Names
<1>12. \A g \in Files : FileInv(g)'
  BY <1>5, <1>6, <1>7, <1>8, <1>9, <1>10, <1>11 DEF FileInv
<1> QED
  BY <1>2, <1>3, <1>4, <1>12

LEMMA VerifiesClaim ==
    ASSUME IInv, pc = "claim", cur # None, Matches(cur, "claim", "old"),
           IF todo = {cur} THEN GoTo("install", batch) /\ UNCHANGED <<mode, preserved>>
                           ELSE Visited(cur, "install"),
           UNCHANGED <<disk, result, environment, acked>>
    PROVE  IInv'
<1> USE Constants DEF IInv, TypeOK
<1>1. /\ pc = "claim" /\ cur \in todo /\ cur \in Files
      /\ \/ pc' = "install" /\ todo = {cur} /\ todo' = batch
         \/ pc' = "claim" /\ todo' = todo \ {cur}
      /\ cur' = None /\ sure' = FALSE
      /\ UNCHANGED <<dir, data, journal, mode, batch, preserved>>
      /\ UNCHANGED <<crashes, faults, edits, edited, owed, acked, result>>
  BY DEF GoTo, Visited, disk, environment, VisitTypes
<1>2. TypeOK'
  BY <1>1 DEF DiskTypes, VisitTypes, OutcomeTypes, Steps, Phases
<1>3. Control'
  BY <1>1 DEF Control
<1>4. AllOrNothing'
  BY <1>1 DEF AllOrNothing
<1>5. \A g \in Files : Shape(g)' /\ Journalled(g)' /\ Kept(g)'
  BY <1>1, FilesKept
<1>6. ASSUME NEW g \in batch'
      PROVE  SavingOne(g)'
  BY <1>1 DEF SavingOne
<1>7. ASSUME NEW g \in batch'
      PROVE  SavingBatch(g)'
  BY <1>1 DEF SavingBatch, FileInv, Claimed, Saved, Matches, Exists, VisitTypes
<1>8. ASSUME NEW g \in batch'
      PROVE  Undoing(g)'
  BY <1>1 DEF Undoing
<1>9. \A g \in Files : FileInv(g)'
  BY <1>5, <1>6, <1>7, <1>8 DEF FileInv
<1> QED
  BY <1>2, <1>3, <1>4, <1>9

LEMMA Installs ==
    ASSUME IInv, NEW f \in todo, pc = "install", cur = None, Matches(f, "staged", "new"),
           ~Exists(f, "target"), Link(f, "staged", "target"),
           IF todo = {f} THEN GoTo("check", batch) /\ UNCHANGED <<mode, preserved>>
                         ELSE Visited(f, "check"),
           UNCHANGED <<data, journal, result, environment, acked>>
    PROVE  IInv'
<1> USE Constants DEF IInv, TypeOK
<1>1. /\ f \in todo /\ f \in batch /\ f \in Files
      /\ \A n \in Names : dir[f][n] \in {"base", "next", "other", None}
      /\ Names4(f, "next", dir[f]["claim"], dir[f]["staged"], dir[f]["rollback"])
      /\ dir[f]["target"] = None /\ dir[f]["staged"] = "next" /\ data[f]["next"] = "new"
      /\ pc = "install"
      /\ \/ pc' = "check" /\ todo = {f} /\ todo' = batch
         \/ pc' = "install" /\ todo' = todo \ {f}
      /\ cur' = None /\ sure' = FALSE
      /\ UNCHANGED <<data, journal, mode, batch, preserved>>
      /\ UNCHANGED <<crashes, faults, edits, edited, owed, acked, result>>
  <2>1. f \in todo /\ f \in batch /\ f \in Files
    BY DEF VisitTypes
  <2>2. \A n \in Names : dir[f][n] \in {"base", "next", "other", None}
    BY <2>1 DEF DiskTypes, Inodes
  <2>3. dir[f]["staged"] = "next" /\ data[f]["next"] = "new"
    BY <2>1, <2>2 DEF FileInv, Shape, Matches, Exists, Names
  <2>4. Names4(f, "next", dir[f]["claim"], dir[f]["staged"], dir[f]["rollback"])
    BY <2>1, <2>3, NamesSet DEF DiskTypes, Link, Names, Inodes
  <2> QED
    BY <2>1, <2>2, <2>3, <2>4 DEF environment, Exists, GoTo, Visited
<1>2. TypeOK'
  BY <1>1 DEF DiskTypes, VisitTypes, OutcomeTypes, Steps, Phases, Names4, Names
<1>3. Control'
  BY <1>1 DEF Control, Names4, Names
<1>4. AllOrNothing'
  BY <1>1 DEF AllOrNothing
<1>5. ASSUME NEW g \in Files \ {f}
      PROVE  Shape(g)' /\ Journalled(g)' /\ Kept(g)'
  BY <1>1, ShapeKept, JournalledKept, KeptKept DEF FileInv, Names4, Names
<1>6. Shape(f)'
  BY <1>1 DEF Shape, FileInv, Exists, Names4, Names
<1>7. Journalled(f)'
  BY <1>1 DEF Journalled, FileInv, Exists, Matches, Shape, Kept, SavingOne, SavingBatch,
    Undoing, Claimed, Saved, Undone, Control, Names4, Names
<1>8. Kept(f)'
  BY <1>1 DEF Kept, FileInv, Exists, Matches, Saved, Names4, Names
<1>9. ASSUME NEW g \in batch'
      PROVE  SavingOne(g)'
  BY <1>1 DEF SavingOne, Names4, Names
<1>10. ASSUME NEW g \in batch'
      PROVE  SavingBatch(g)'
  BY <1>1 DEF SavingBatch, FileInv, Claimed, Saved, Matches, Exists, VisitTypes, Names4,
    Names
<1>11. ASSUME NEW g \in batch'
      PROVE  Undoing(g)'
  BY <1>1 DEF Undoing, Names4, Names
<1>12. \A g \in Files : FileInv(g)'
  BY <1>5, <1>6, <1>7, <1>8, <1>9, <1>10, <1>11 DEF FileInv
<1> QED
  BY <1>2, <1>3, <1>4, <1>12

LEMMA ChecksInstalled ==
    ASSUME IInv, NEW f \in todo, pc = "check", cur = None, Visited(f, "commit"),
           UNCHANGED <<disk, result, environment, acked>>
    PROVE  IInv'
<1> USE Constants DEF IInv, TypeOK
<1>1. /\ pc = "check" /\ pc' \in {"check", "commit"} /\ todo' = todo \ {f}
      /\ cur' = None /\ sure' = FALSE
      /\ UNCHANGED <<dir, data, journal, mode, batch, preserved>>
      /\ UNCHANGED <<crashes, faults, edits, edited, owed, acked, result>>
  BY DEF Visited, disk, environment
<1>2. TypeOK'
  BY <1>1 DEF DiskTypes, VisitTypes, OutcomeTypes, Steps, Phases
<1>3. Control'
  BY <1>1 DEF Control
<1>4. AllOrNothing'
  BY <1>1 DEF AllOrNothing
<1>5. \A g \in Files : Shape(g)' /\ Journalled(g)' /\ Kept(g)'
  BY <1>1, FilesKept
<1>6. ASSUME NEW g \in batch'
      PROVE  SavingOne(g)'
  BY <1>1 DEF SavingOne
<1>7. ASSUME NEW g \in batch'
      PROVE  SavingBatch(g)'
  BY <1>1 DEF SavingBatch, FileInv, Claimed, Saved, Matches, Exists, VisitTypes
<1>8. ASSUME NEW g \in batch'
      PROVE  Undoing(g)'
  BY <1>1 DEF Undoing
<1>9. \A g \in Files : FileInv(g)'
  BY <1>5, <1>6, <1>7, <1>8 DEF FileInv
<1> QED
  BY <1>2, <1>3, <1>4, <1>9

LEMMA WritesCommitted ==
    ASSUME IInv, WriteCommitted
    PROVE  IInv'
<1> USE Constants DEF IInv, TypeOK
<1>1. /\ pc = "commit" /\ pc' = "clean" /\ journal.phase = "prepared" /\ mode = "save"
      /\ journal' = [phase |-> "committed", files |-> batch] /\ journal.files = batch
      /\ todo' = batch /\ cur' = None /\ sure' = FALSE
      /\ UNCHANGED <<dir, data, mode, batch, preserved>>
      /\ UNCHANGED <<crashes, faults, edits, edited, owed, acked, result>>
  BY DEF WriteCommitted, WriteJournal, GoTo, Control, environment
<1>2. TypeOK'
  BY <1>1 DEF DiskTypes, VisitTypes, OutcomeTypes, Steps, Phases
<1>3. Control'
  BY <1>1 DEF Control
<1>4. AllOrNothing'
  BY <1>1 DEF AllOrNothing
<1>5. \A g \in Files : Shape(g)' /\ Kept(g)'
  BY <1>1, DiskKept
<1>6. ASSUME NEW g \in Files
      PROVE  Journalled(g)'
  BY <1>1 DEF Journalled, FileInv, Exists, Matches, Shape, SavingOne, SavingBatch,
    Undoing, Claimed, Undone
<1>7. ASSUME NEW g \in batch'
      PROVE  SavingOne(g)'
  BY <1>1 DEF SavingOne
<1>8. ASSUME NEW g \in batch'
      PROVE  SavingBatch(g)'
  BY <1>1 DEF SavingBatch, FileInv, Claimed, Saved, Matches, Exists, VisitTypes
<1>9. ASSUME NEW g \in batch'
      PROVE  Undoing(g)'
  BY <1>1 DEF Undoing
<1>10. \A g \in Files : FileInv(g)'
  BY <1>5, <1>6, <1>7, <1>8, <1>9 DEF FileInv
<1> QED
  BY <1>2, <1>3, <1>4, <1>10

(***************************************************************************)
(* The cleanup of a batch.                                                 *)
(***************************************************************************)

LEMMA Removes ==
    ASSUME IInv, NEW f \in todo, NEW n \in {"claim", "staged", "rollback"}, pc = "clean",
           cur = None,
           Owned(f, n), Unlink(f, n),
           UNCHANGED <<data, journal, visit, result, environment, acked>>
    PROVE  IInv'
<1> USE Constants DEF IInv, TypeOK
<1>1. /\ f \in todo /\ f \in batch /\ f \in Files
      /\ \A m \in Names : dir[f][m] \in {"base", "next", "other", None}
      /\ Names4(f, dir[f]["target"],
                IF n = "claim" THEN None ELSE dir[f]["claim"],
                IF n = "staged" THEN None ELSE dir[f]["staged"],
                IF n = "rollback" THEN None ELSE dir[f]["rollback"])
      /\ n \in {"claim", "rollback"} => data[f][dir[f][n]] \in {"old", "new"}
      /\ pc = "clean" /\ pc' = "clean"
      /\ UNCHANGED <<data, journal, todo, cur, sure, mode, batch, preserved>>
      /\ UNCHANGED <<crashes, faults, edits, edited, owed, acked, result>>
  <2>1. f \in todo /\ f \in batch /\ f \in Files
    BY DEF VisitTypes
  <2>2. \A m \in Names : dir[f][m] \in {"base", "next", "other", None}
    BY <2>1 DEF DiskTypes, Inodes
  <2>3. Names4(f, dir[f]["target"], IF n = "claim" THEN None ELSE dir[f]["claim"],
               IF n = "staged" THEN None ELSE dir[f]["staged"],
               IF n = "rollback" THEN None ELSE dir[f]["rollback"])
    BY <2>1, NamesSet DEF DiskTypes, Unlink, Names
  <2>4. n \in {"claim", "rollback"} => data[f][dir[f][n]] \in {"old", "new"}
    BY DEF Owned, Expected, Matches
  <2> QED
    BY <2>1, <2>2, <2>3, <2>4 DEF environment, visit
<1>2. TypeOK'
  BY <1>1 DEF DiskTypes, VisitTypes, OutcomeTypes, Steps, Phases, Names4, Names
<1>3. Control'
  BY <1>1 DEF Control, Names4, Names
<1>4. AllOrNothing'
  BY <1>1 DEF AllOrNothing
<1>5. ASSUME NEW g \in Files \ {f}
      PROVE  Shape(g)' /\ Journalled(g)' /\ Kept(g)'
  BY <1>1, ShapeKept, JournalledKept, KeptKept DEF FileInv, Names4, Names
<1>6. Shape(f)'
  BY <1>1 DEF Shape, FileInv, Exists, Names4, Names
<1>7. Journalled(f)'
  BY <1>1 DEF Journalled, FileInv, Exists, Matches, Shape, SavingOne, SavingBatch,
    Undoing, Claimed, Undone, Names4, Names
<1>8. Kept(f)'
  BY <1>1 DEF Kept, FileInv, Exists, Matches, Saved, Names4, Names
<1>9. ASSUME NEW g \in batch'
      PROVE  SavingOne(g)'
  BY <1>1 DEF SavingOne, Names4, Names
<1>10. ASSUME NEW g \in batch'
      PROVE  SavingBatch(g)'
  BY <1>1 DEF SavingBatch, FileInv, Claimed, Saved, Matches, Exists, VisitTypes, Names4,
    Names
<1>11. ASSUME NEW g \in batch'
      PROVE  Undoing(g)'
  BY <1>1 DEF Undoing, FileInv, Undone, Matches, Exists, VisitTypes, Names4, Names
<1>12. \A g \in Files : FileInv(g)'
  BY <1>5, <1>6, <1>7, <1>8, <1>9, <1>10, <1>11 DEF FileInv
<1> QED
  BY <1>2, <1>3, <1>4, <1>12

LEMMA Cleans ==
    ASSUME IInv, NEW f \in todo, pc = "clean", cur = None, ~Exists(f, NextArtifact(f)),
           Visited(f, "clear"), UNCHANGED <<disk, result, environment, acked>>
    PROVE  IInv'
<1> USE Constants DEF IInv, TypeOK
<1>1. /\ pc = "clean" /\ pc' \in {"clean", "clear"}
      /\ todo' = todo \ {f} /\ (pc' = "clear" => todo = {f})
      /\ cur' = None /\ sure' = FALSE
      /\ ~Exists(f, "claim") /\ ~Exists(f, "rollback")
      /\ UNCHANGED <<dir, data, journal, mode, batch, preserved>>
      /\ UNCHANGED <<crashes, faults, edits, edited, owed, acked, result>>
  BY DEF Visited, disk, environment, NextArtifact
<1>2. TypeOK'
  BY <1>1 DEF DiskTypes, VisitTypes, OutcomeTypes, Steps, Phases
<1>3. Control'
  BY <1>1 DEF Control
<1>4. AllOrNothing'
  BY <1>1 DEF AllOrNothing
<1>5. \A g \in Files : Shape(g)' /\ Journalled(g)' /\ Kept(g)'
  BY <1>1, FilesKept
<1>6. ASSUME NEW g \in batch'
      PROVE  SavingOne(g)'
  BY <1>1 DEF SavingOne
<1>7. ASSUME NEW g \in batch'
      PROVE  SavingBatch(g)'
  BY <1>1 DEF SavingBatch, FileInv, Claimed, Saved, Matches, Exists, VisitTypes
<1>8. ASSUME NEW g \in batch'
      PROVE  Undoing(g)'
  BY <1>1 DEF Undoing, FileInv, Undone, Matches, Exists, VisitTypes
<1>9. \A g \in Files : FileInv(g)'
  BY <1>5, <1>6, <1>7, <1>8 DEF FileInv
<1> QED
  BY <1>2, <1>3, <1>4, <1>9

LEMMA Clears ==
    ASSUME IInv, ClearJournal
    PROVE  IInv'
<1> USE Constants DEF IInv, TypeOK
<1>1. /\ pc' = "idle" /\ pc # "idle" /\ mode' = mode /\ batch' = batch /\ todo' = {}
      /\ cur' = None /\ sure' = FALSE /\ preserved' = {}
      /\ journal' = [phase |-> "none", files |-> {}]
      /\ result' \in {"saved", "failed", "opened"}
      /\ acked' = acked \/ (acked' = acked \cup batch /\ \A g \in batch \ edited : Saved(g))
      /\ \A g \in Files : dir[g]["claim"] = None /\ dir[g]["rollback"] = None
      /\ UNCHANGED <<dir, data, crashes, faults, edits, edited, owed>>
  <2>1. Completed \in {"saved", "failed", "opened"} /\ (Completed = "saved" => mode = "save")
    BY DEF VisitTypes, Completed
  <2>2. mode = "save" => \A g \in batch \ edited : Saved(g)
    BY DEF ClearJournal, FileInv, SavingBatch, VisitTypes
  <2>3. ASSUME NEW g \in Files
        PROVE  dir[g]["claim"] = None /\ dir[g]["rollback"] = None
    <3>1. Journalled(g) /\ (g \in batch => Undoing(g)) /\ pc = "clear"
      BY DEF FileInv, ClearJournal
    <3>2. journal.files = batch
      BY <3>1 DEF Control
    <3> QED
      BY <3>1, <3>2 DEF Journalled, Undoing, Exists
  <2>4. acked' = acked \/ (acked' = acked \cup batch /\ Completed = "saved")
    BY DEF ClearJournal, End
  <2> QED
    BY <2>1, <2>2, <2>3, <2>4 DEF ClearJournal, End, NoJournal, environment
<1>2. TypeOK'
  BY <1>1 DEF DiskTypes, VisitTypes, OutcomeTypes, Steps, Phases
<1>3. Control'
  BY <1>1 DEF Control
<1>4. AllOrNothing'
  <2>1. journal.phase \in {"staging", "prepared", "committed"} /\ journal.files = batch
        /\ pc = "clear"
    BY DEF Control, ClearJournal
  <2>2. CASE journal.phase = "committed"
    <3>1. ASSUME NEW g \in batch
          PROVE  ~Matches(g, "target", "old")
      <4>1. Journalled(g) /\ Shape(g) /\ dir[g]["target"] \in {"base", "next", "other", None}
        BY DEF FileInv, VisitTypes, DiskTypes, Names, Inodes
      <4> QED
        BY <2>1, <2>2, <4>1 DEF Journalled, Shape, Matches, Exists, Names
    <3> QED
      BY <1>1, <3>1 DEF AllOrNothing, Matches, Exists
  <2>3. CASE journal.phase \in {"staging", "prepared"}
    <3>1. ASSUME NEW g \in batch
          PROVE  ~Matches(g, "target", "new")
      <4>1. Undoing(g) /\ Shape(g) /\ dir[g]["target"] \in {"base", "next", "other", None}
        BY DEF FileInv, VisitTypes, DiskTypes, Names, Inodes
      <4> QED
        BY <2>1, <2>3, <4>1 DEF Undoing, Undone, Shape, Matches, Exists, Names
    <3> QED
      BY <1>1, <3>1 DEF AllOrNothing, Matches, Exists
  <2> QED
    BY <2>1, <2>2, <2>3
<1>5. \A g \in Files : Shape(g)' /\ Kept(g)'
  <2> SUFFICES ASSUME NEW g \in Files
               PROVE  Shape(g)' /\ Kept(g)'
    OBVIOUS
  <2>1. Shape(g)'
    BY <1>1, ShapeKept DEF FileInv
  <2>2. Kept(g)'
    BY <1>1 DEF FileInv, Kept, Matches, Exists, Saved
  <2> QED
    BY <2>1, <2>2
<1>6. ASSUME NEW g \in Files
      PROVE  Journalled(g)'
  BY <1>1 DEF Journalled, FileInv, Exists
<1>7. \A g \in Files : SavingOne(g)' /\ SavingBatch(g)' /\ Undoing(g)'
  BY <1>1, IdleFiles
<1>8. \A g \in Files : FileInv(g)'
  BY <1>5, <1>6, <1>7 DEF FileInv
<1> QED
  BY <1>2, <1>3, <1>4, <1>8

(***************************************************************************)
(* The recovery of a batch.                                                *)
(***************************************************************************)

LEMMA RecoversStaging ==
    ASSUME IInv, pc = "undoStage", \A f \in batch : ~Exists(f, "claim") /\ ~Exists(f,
           "rollback"),
           GoTo("clean", batch),
           UNCHANGED <<disk, mode, preserved, result, environment, acked>>
    PROVE  IInv'
<1> USE Constants DEF IInv, TypeOK
<1>1. /\ pc = "undoStage" /\ pc' = "clean" /\ todo' = batch /\ journal.phase = "staging"
         /\ journal.files = batch /\ mode # "save"
      /\ cur' = None /\ sure' = FALSE
      /\ \A g \in batch : ~Exists(g, "claim") /\ ~Exists(g, "rollback")
      /\ UNCHANGED <<dir, data, journal, mode, batch, preserved>>
      /\ UNCHANGED <<crashes, faults, edits, edited, owed, acked, result>>
  BY DEF GoTo, disk, environment, Control
<1>2. TypeOK'
  BY <1>1 DEF DiskTypes, VisitTypes, OutcomeTypes, Steps, Phases
<1>3. Control'
  BY <1>1 DEF Control
<1>4. AllOrNothing'
  BY <1>1 DEF AllOrNothing
<1>5. \A g \in Files : Shape(g)' /\ Journalled(g)' /\ Kept(g)'
  BY <1>1, FilesKept
<1>6. ASSUME NEW g \in batch'
      PROVE  SavingOne(g)'
  BY <1>1 DEF SavingOne
<1>7. ASSUME NEW g \in batch'
      PROVE  SavingBatch(g)'
  BY <1>1 DEF SavingBatch
<1>8. ASSUME NEW g \in batch'
      PROVE  Undoing(g)'
  BY <1>1 DEF Undoing, FileInv, Undone, Matches, Exists, Journalled, Kept, Shape,
    Control, VisitTypes
<1>9. \A g \in Files : FileInv(g)'
  BY <1>5, <1>6, <1>7, <1>8 DEF FileInv
<1> QED
  BY <1>2, <1>3, <1>4, <1>9

LEMMA FindsRestored ==
    ASSUME IInv, NEW f \in todo, pc = "undo", cur = None, Restored(f), Visited(f, "undone"),
           UNCHANGED <<disk, result, environment, acked>>
    PROVE  IInv'
<1> USE Constants DEF IInv, TypeOK
<1>1. /\ f \in todo /\ f \in batch /\ f \in Files
      /\ \A n \in Names : dir[f][n] \in {"base", "next", "other", None}
      /\ pc = "undo" /\ pc' \in {"undo", "undone"} /\ todo' = todo \ {f}
         /\ (pc' = "undone" => todo = {f})
      /\ cur' = None /\ sure' = FALSE
      /\ Matches(f, "target", "old")
      /\ UNCHANGED <<dir, data, journal, mode, batch, preserved>>
      /\ UNCHANGED <<crashes, faults, edits, edited, owed, acked, result>>
  <2>1. f \in todo /\ f \in batch /\ f \in Files
    BY DEF VisitTypes
  <2>2. \A n \in Names : dir[f][n] \in {"base", "next", "other", None}
    BY <2>1 DEF DiskTypes, Inodes
  <2> QED
    BY <2>1, <2>2 DEF Restored, Visited, disk, environment
<1>2. TypeOK'
  BY <1>1 DEF DiskTypes, VisitTypes, OutcomeTypes, Steps, Phases, Names
<1>3. Control'
  BY <1>1 DEF Control, Names
<1>4. AllOrNothing'
  BY <1>1 DEF AllOrNothing
<1>5. \A g \in Files : Shape(g)' /\ Journalled(g)' /\ Kept(g)'
  BY <1>1, FilesKept
<1>6. ASSUME NEW g \in batch'
      PROVE  SavingOne(g)'
  BY <1>1 DEF SavingOne, Names
<1>7. ASSUME NEW g \in batch'
      PROVE  SavingBatch(g)'
  BY <1>1 DEF SavingBatch, Names
<1>8. ASSUME NEW g \in batch'
      PROVE  Undoing(g)'
  BY <1>1 DEF Undoing, FileInv, Undone, Matches, Exists, Journalled, Kept, Shape,
    Control, VisitTypes, Names
<1>9. \A g \in Files : FileInv(g)'
  BY <1>5, <1>6, <1>7, <1>8 DEF FileInv
<1> QED
  BY <1>2, <1>3, <1>4, <1>9

LEMMA MakesRoom ==
    ASSUME IInv, NEW f \in todo, pc = "undo", cur = None, ~Restored(f), Trusted(f),
           ~(Exists(f, "target") /\ Exists(f, "rollback")),
           IF Exists(f, "target") THEN Move(f, "target", "rollback") ELSE UNCHANGED dir,
           cur' = f, sure' = Matches(f, "claim", "old"),
           UNCHANGED <<data, journal, pc, mode, batch, todo, preserved, result,
                       environment, acked>>
    PROVE  IInv'
<1> USE Constants DEF IInv, TypeOK
<1>1. /\ f \in todo /\ f \in batch /\ f \in Files
      /\ \A n \in Names : dir[f][n] \in {"base", "next", "other", None}
      /\ Names4(f, None, dir[f]["claim"], dir[f]["staged"],
                IF Exists(f, "target") THEN dir[f]["target"] ELSE dir[f]["rollback"])
      /\ Exists(f, "target") => ~Exists(f, "rollback")
      /\ ~Matches(f, "target", "old")
      /\ pc = "undo" /\ pc' = "undo" /\ cur' = f /\ sure' \in BOOLEAN
      /\ journal.phase = "prepared"
         /\ journal.files = batch
      /\ UNCHANGED <<data, journal, todo, mode, batch, preserved>>
      /\ UNCHANGED <<crashes, faults, edits, edited, owed, acked, result>>
  <2>1. f \in todo /\ f \in batch /\ f \in Files
    BY DEF VisitTypes
  <2>2. \A n \in Names : dir[f][n] \in {"base", "next", "other", None}
    BY <2>1 DEF DiskTypes, Inodes
  <2>3. Names4(f, None, dir[f]["claim"], dir[f]["staged"],
               IF Exists(f, "target") THEN dir[f]["target"] ELSE dir[f]["rollback"])
    <3>1. CASE Exists(f, "target")
      BY <2>1, <3>1, NamesMoved DEF DiskTypes
    <3>2. CASE ~Exists(f, "target")
      BY <2>1, <3>2 DEF DiskTypes, Names4, Exists
    <3> QED
      BY <3>1, <3>2
  <2>4. sure' \in BOOLEAN
    BY DEF Matches, Exists
  <2>5. journal.phase = "prepared" /\ journal.files = batch
    BY DEF Control
  <2> QED
    BY <2>1, <2>2, <2>3, <2>4, <2>5 DEF environment, Restored
<1>2. TypeOK'
  BY <1>1 DEF DiskTypes, VisitTypes, OutcomeTypes, Steps, Phases, Names4, Names
<1>3. Control'
  BY <1>1 DEF Control, Names4, Names
<1>4. AllOrNothing'
  BY <1>1 DEF AllOrNothing
<1>5. ASSUME NEW g \in Files \ {f}
      PROVE  Shape(g)' /\ Journalled(g)' /\ Kept(g)'
  BY <1>1, ShapeKept, JournalledKept, KeptKept DEF FileInv, Names4, Names
<1>6. Shape(f)'
  BY <1>1 DEF Shape, FileInv, Exists, Names4, Names
<1>7. Journalled(f)'
  BY <1>1 DEF Journalled, FileInv, Exists, Matches, Shape, SavingOne, SavingBatch,
    Undoing, Claimed, Undone, Names4, Names
<1>8. Kept(f)'
  BY <1>1 DEF Kept, FileInv, Exists, Matches, Saved, Shape, Journalled, Names4, Names
<1>9. ASSUME NEW g \in batch'
      PROVE  SavingOne(g)'
  BY <1>1 DEF SavingOne, Names4, Names
<1>10. ASSUME NEW g \in batch'
      PROVE  SavingBatch(g)'
  BY <1>1 DEF SavingBatch, Names4, Names
<1>11. ASSUME NEW g \in batch'
      PROVE  Undoing(g)'
  BY <1>1 DEF Undoing, FileInv, Undone, Matches, Exists, VisitTypes, Names4, Names
<1>12. \A g \in Files : FileInv(g)'
  BY <1>5, <1>6, <1>7, <1>8, <1>9, <1>10, <1>11 DEF FileInv
<1> QED
  BY <1>2, <1>3, <1>4, <1>12

LEMMA Restores ==
    ASSUME IInv, NEW f \in todo, f = cur, pc = "undo", ~Exists(f, "target"), Link(f,
           "claim", "target"),
           preserved' = IF Unexpected(f) THEN preserved \cup {f} ELSE preserved,
           IF sure THEN pc' = "undoVerify" /\ UNCHANGED <<mode, batch, todo, cur, sure>>
           ELSE /\ todo' = todo \ {f} /\ cur' = None /\ sure' = FALSE
                /\ pc' = IF todo = {f} THEN "undone" ELSE pc
                /\ UNCHANGED <<mode, batch>>,
           UNCHANGED <<data, journal, result, environment, acked>>
    PROVE  IInv'
<1> USE Constants DEF IInv, TypeOK
<1>1. /\ f \in todo /\ f \in batch /\ f \in Files
      /\ \A n \in Names : dir[f][n] \in {"base", "next", "other", None}
      /\ Names4(f, dir[f]["claim"], dir[f]["claim"], dir[f]["staged"], dir[f]["rollback"])
      /\ dir[f]["target"] = None /\ preserved' \subseteq Files
      /\ pc = "undo" /\ cur = f /\ journal.phase = "prepared" /\ journal.files = batch
      /\ \/ pc' = "undoVerify" /\ todo' = todo /\ cur' = f /\ sure' = sure
         \/ /\ pc' \in {"undo", "undone"} /\ todo' = todo \ {f} /\ cur' = None /\ sure' = FALSE
            /\ pc' = "undone" => todo = {f}
      /\ UNCHANGED <<data, journal, mode, batch>>
      /\ UNCHANGED <<crashes, faults, edits, edited, owed, acked, result>>
  <2>1. f \in todo /\ f \in batch /\ f \in Files
    BY DEF VisitTypes
  <2>2. \A n \in Names : dir[f][n] \in {"base", "next", "other", None}
    BY <2>1 DEF DiskTypes, Inodes
  <2>3. Names4(f, dir[f]["claim"], dir[f]["claim"], dir[f]["staged"], dir[f]["rollback"])
    <3>1. /\ dir[f]["claim"] \in Inodes \cup {None} /\ "target" \in Names
          /\ dir' = [dir EXCEPT ![f]["target"] = dir[f]["claim"]]
      BY <2>1 DEF DiskTypes, Link, Names
    <3> QED
      BY <2>1, <3>1, NamesSet DEF DiskTypes
  <2>4. preserved' \subseteq Files
    BY <2>1 DEF VisitTypes
  <2>5. journal.phase = "prepared" /\ journal.files = batch
    BY DEF Control
  <2> QED
    BY <2>1, <2>2, <2>3, <2>4, <2>5 DEF environment, Exists
<1>2. TypeOK'
  BY <1>1 DEF DiskTypes, VisitTypes, OutcomeTypes, Steps, Phases, Names4, Names
<1>3. Control'
  BY <1>1 DEF Control, Names4, Names
<1>4. AllOrNothing'
  BY <1>1 DEF AllOrNothing
<1>5. ASSUME NEW g \in Files \ {f}
      PROVE  Shape(g)' /\ Journalled(g)' /\ Kept(g)'
  BY <1>1, ShapeKept, JournalledKept, KeptKept DEF FileInv, Names4, Names
<1>6. Shape(f)'
  BY <1>1 DEF Shape, FileInv, Exists, Names4, Names
<1>7. Journalled(f)'
  BY <1>1 DEF Journalled, FileInv, Exists, Names4, Names
<1>8. Kept(f)'
  BY <1>1 DEF Kept, FileInv, Exists, Matches, Saved, Names4, Names
<1>9. ASSUME NEW g \in batch'
      PROVE  SavingOne(g)'
  BY <1>1 DEF SavingOne, Names4, Names
<1>10. ASSUME NEW g \in batch'
      PROVE  SavingBatch(g)'
  BY <1>1 DEF SavingBatch, Names4, Names
<1>11. ASSUME NEW g \in batch'
      PROVE  Undoing(g)'
  BY <1>1 DEF Undoing, FileInv, Undone, Matches, Exists, Journalled, Kept, Shape,
    Control, VisitTypes, Names4, Names
<1>12. \A g \in Files : FileInv(g)'
  BY <1>5, <1>6, <1>7, <1>8, <1>9, <1>10, <1>11 DEF FileInv
<1> QED
  BY <1>2, <1>3, <1>4, <1>12

LEMMA VerifiesRestored ==
    ASSUME IInv, pc = "undoVerify", Restored(cur), todo' = todo \ {cur}, cur' = None,
           sure' = FALSE,
           pc' = IF todo = {cur} THEN "undone" ELSE "undo",
           UNCHANGED <<disk, mode, batch, preserved, result, environment, acked>>
    PROVE  IInv'
<1> USE Constants DEF IInv, TypeOK
<1>1. /\ pc = "undoVerify" /\ cur \in todo /\ cur \in Files /\ journal.phase = "prepared"
         /\ journal.files = batch /\ mode # "save"
      /\ todo' = todo \ {cur} /\ cur' = None /\ sure' = FALSE
      /\ \/ pc' = "undone" /\ todo = {cur}
         \/ pc' = "undo"
      /\ UNCHANGED <<dir, data, journal, mode, batch, preserved>>
      /\ UNCHANGED <<crashes, faults, edits, edited, owed, acked, result>>
  BY DEF disk, environment, VisitTypes, Control
<1>2. TypeOK'
  BY <1>1 DEF DiskTypes, VisitTypes, OutcomeTypes, Steps, Phases
<1>3. Control'
  BY <1>1 DEF Control
<1>4. AllOrNothing'
  BY <1>1 DEF AllOrNothing
<1>5. \A g \in Files : Shape(g)' /\ Journalled(g)' /\ Kept(g)'
  BY <1>1, FilesKept
<1>6. ASSUME NEW g \in batch'
      PROVE  SavingOne(g)'
  BY <1>1 DEF SavingOne
<1>7. ASSUME NEW g \in batch'
      PROVE  SavingBatch(g)'
  BY <1>1 DEF SavingBatch
<1>8. ASSUME NEW g \in batch'
      PROVE  Undoing(g)'
  BY <1>1 DEF Undoing, FileInv, Undone, Matches, Exists, VisitTypes
<1>9. \A g \in Files : FileInv(g)'
  BY <1>5, <1>6, <1>7, <1>8 DEF FileInv
<1> QED
  BY <1>2, <1>3, <1>4, <1>9

LEMMA FinishesRollback ==
    ASSUME IInv, pc = "undone", GoTo("clean", batch),
           UNCHANGED <<disk, mode, preserved, result, environment, acked>>
    PROVE  IInv'
<1> USE Constants DEF IInv, TypeOK
<1>1. /\ pc = "undone" /\ pc' = "clean" /\ todo' = batch /\ journal.phase = "prepared"
         /\ journal.files = batch /\ mode # "save"
      /\ cur' = None /\ sure' = FALSE
      /\ UNCHANGED <<dir, data, journal, mode, batch, preserved>>
      /\ UNCHANGED <<crashes, faults, edits, edited, owed, acked, result>>
  BY DEF GoTo, disk, environment, Control
<1>2. TypeOK'
  BY <1>1 DEF DiskTypes, VisitTypes, OutcomeTypes, Steps, Phases
<1>3. Control'
  BY <1>1 DEF Control
<1>4. AllOrNothing'
  BY <1>1 DEF AllOrNothing
<1>5. \A g \in Files : Shape(g)' /\ Journalled(g)' /\ Kept(g)'
  BY <1>1, FilesKept
<1>6. ASSUME NEW g \in batch'
      PROVE  SavingOne(g)'
  BY <1>1 DEF SavingOne
<1>7. ASSUME NEW g \in batch'
      PROVE  SavingBatch(g)'
  BY <1>1 DEF SavingBatch
<1>8. ASSUME NEW g \in batch'
      PROVE  Undoing(g)'
  BY <1>1 DEF Undoing, FileInv, Undone, Matches, Exists, VisitTypes
<1>9. \A g \in Files : FileInv(g)'
  BY <1>5, <1>6, <1>7, <1>8 DEF FileInv
<1> QED
  BY <1>2, <1>3, <1>4, <1>9

LEMMA FindsCommitted ==
    ASSUME IInv, NEW f \in todo, pc = "redo", cur = None,
           IF todo = {f} THEN GoTo("clean", batch) /\ UNCHANGED <<mode, preserved>>
                         ELSE Visited(f, "clean"),
           UNCHANGED <<disk, result, environment, acked>>
    PROVE  IInv'
<1> USE Constants DEF IInv, TypeOK
<1>1. /\ pc = "redo" /\ journal.phase = "committed" /\ journal.files = batch /\ mode = "open"
      /\ \/ pc' = "clean" /\ todo' = batch
         \/ pc' = "redo" /\ todo' = todo \ {f}
      /\ cur' = None /\ sure' = FALSE
      /\ UNCHANGED <<dir, data, journal, mode, batch, preserved>>
      /\ UNCHANGED <<crashes, faults, edits, edited, owed, acked, result>>
  BY DEF GoTo, Visited, disk, environment, Control
<1>2. TypeOK'
  BY <1>1 DEF DiskTypes, VisitTypes, OutcomeTypes, Steps, Phases
<1>3. Control'
  BY <1>1 DEF Control
<1>4. AllOrNothing'
  BY <1>1 DEF AllOrNothing
<1>5. \A g \in Files : Shape(g)' /\ Journalled(g)' /\ Kept(g)'
  BY <1>1, FilesKept
<1>6. ASSUME NEW g \in batch'
      PROVE  SavingOne(g)'
  BY <1>1 DEF SavingOne
<1>7. ASSUME NEW g \in batch'
      PROVE  SavingBatch(g)'
  BY <1>1 DEF SavingBatch
<1>8. ASSUME NEW g \in batch'
      PROVE  Undoing(g)'
  BY <1>1 DEF Undoing
<1>9. \A g \in Files : FileInv(g)'
  BY <1>5, <1>6, <1>7, <1>8 DEF FileInv
<1> QED
  BY <1>2, <1>3, <1>4, <1>9

LEMMA InstallsCommitted ==
    ASSUME IInv, NEW f \in todo, pc = "redo", cur = None, Installable(f), Link(f,
           "staged", "target"),
           UNCHANGED <<data, journal, visit, result, environment, acked>>
    PROVE  IInv'
<1> USE Constants DEF IInv, TypeOK
<1>1. /\ f \in todo /\ f \in batch /\ f \in Files
      /\ \A n \in Names : dir[f][n] \in {"base", "next", "other", None}
      /\ Names4(f, "next", dir[f]["claim"], dir[f]["staged"], dir[f]["rollback"])
      /\ dir[f]["target"] = None /\ dir[f]["staged"] = "next" /\ data[f]["next"] = "new"
      /\ pc = "redo" /\ pc' = "redo" /\ journal.phase = "committed"
      /\ UNCHANGED <<data, journal, todo, cur, sure, mode, batch, preserved>>
      /\ UNCHANGED <<crashes, faults, edits, edited, owed, acked, result>>
  <2>1. f \in todo /\ f \in batch /\ f \in Files
    BY DEF VisitTypes
  <2>2. \A n \in Names : dir[f][n] \in {"base", "next", "other", None}
    BY <2>1 DEF DiskTypes, Inodes
  <2>3. dir[f]["staged"] = "next" /\ data[f]["next"] = "new"
    BY <2>1, <2>2 DEF FileInv, Shape, Matches, Exists, Names, Installable
  <2>4. Names4(f, "next", dir[f]["claim"], dir[f]["staged"], dir[f]["rollback"])
    BY <2>1, <2>3, NamesSet DEF DiskTypes, Link, Names, Inodes
  <2> QED
    BY <2>1, <2>2, <2>3, <2>4 DEF environment, Exists, visit, Installable, Control
<1>2. TypeOK'
  BY <1>1 DEF DiskTypes, VisitTypes, OutcomeTypes, Steps, Phases, Names4, Names
<1>3. Control'
  BY <1>1 DEF Control, Names4, Names
<1>4. AllOrNothing'
  BY <1>1 DEF AllOrNothing
<1>5. ASSUME NEW g \in Files \ {f}
      PROVE  Shape(g)' /\ Journalled(g)' /\ Kept(g)'
  BY <1>1, ShapeKept, JournalledKept, KeptKept DEF FileInv, Names4, Names
<1>6. Shape(f)'
  BY <1>1 DEF Shape, FileInv, Exists, Names4, Names
<1>7. Journalled(f)'
  BY <1>1 DEF Journalled, FileInv, Exists, Names4, Names
<1>8. Kept(f)'
  BY <1>1 DEF Kept, FileInv, Exists, Matches, Saved, Names4, Names
<1>9. ASSUME NEW g \in batch'
      PROVE  SavingOne(g)'
  BY <1>1 DEF SavingOne, Names4, Names
<1>10. ASSUME NEW g \in batch'
      PROVE  SavingBatch(g)'
  BY <1>1 DEF SavingBatch, Names4, Names
<1>11. ASSUME NEW g \in batch'
      PROVE  Undoing(g)'
  BY <1>1 DEF Undoing, Names4, Names
<1>12. \A g \in Files : FileInv(g)'
  BY <1>5, <1>6, <1>7, <1>8, <1>9, <1>10, <1>11 DEF FileInv
<1> QED
  BY <1>2, <1>3, <1>4, <1>12

(***************************************************************************)
(* A save of one file.                                                     *)
(***************************************************************************)

LEMMA WritesClaimJournal ==
    ASSUME IInv, WriteClaimJournal
    PROVE  IInv'
<1> USE Constants DEF IInv, TypeOK
<1>1. /\ pc = "journal" /\ pc' = "claimOne" /\ journal.phase = "none" /\ journal.files = {}
      /\ mode = "save"
      /\ journal' = [phase |-> "single", files |-> batch] /\ \E h \in Files : batch = {h}
      /\ todo' = batch /\ cur' = None /\ sure' = FALSE
      /\ UNCHANGED <<dir, data, mode, batch, preserved>>
      /\ UNCHANGED <<crashes, faults, edits, edited, owed, acked, result>>
  BY DEF WriteClaimJournal, WriteJournal, GoTo, Control, environment
<1>2. TypeOK'
  BY <1>1 DEF DiskTypes, VisitTypes, OutcomeTypes, Steps, Phases
<1>3. Control'
  BY <1>1 DEF Control
<1>4. AllOrNothing'
  BY <1>1 DEF AllOrNothing
<1>5. \A g \in Files : Shape(g)' /\ Kept(g)'
  BY <1>1, DiskKept
<1>6. ASSUME NEW g \in Files
      PROVE  Journalled(g)'
  BY <1>1 DEF Journalled, FileInv, Exists
<1>7. ASSUME NEW g \in batch'
      PROVE  SavingOne(g)'
  BY <1>1 DEF SavingOne, FileInv, Claimed, Saved, Matches, Exists, Journalled, Kept,
    Shape, Control, VisitTypes
<1>8. ASSUME NEW g \in batch'
      PROVE  SavingBatch(g)'
  BY <1>1 DEF SavingBatch
<1>9. ASSUME NEW g \in batch'
      PROVE  Undoing(g)'
  BY <1>1 DEF Undoing
<1>10. \A g \in Files : FileInv(g)'
  BY <1>5, <1>6, <1>7, <1>8, <1>9 DEF FileInv
<1> QED
  BY <1>2, <1>3, <1>4, <1>10

LEMMA ClaimsOne ==
    ASSUME IInv, NEW f \in todo, pc = "claimOne", Exists(f, "target"), Move(f, "target",
           "claim"),
           pc' = "verifyOne", cur' = f,
           UNCHANGED <<data, journal, mode, batch, todo, sure, preserved, result,
                       environment, acked>>
    PROVE  IInv'
<1> USE Constants DEF IInv, TypeOK
<1>1. /\ f \in todo /\ f \in batch /\ f \in Files
      /\ \A n \in Names : dir[f][n] \in {"base", "next", "other", None}
      /\ Names4(f, None, dir[f]["target"], dir[f]["staged"], dir[f]["rollback"])
      /\ pc = "claimOne" /\ pc' = "verifyOne" /\ cur' = f
      /\ batch = {f} /\ journal.phase = "single" /\ journal.files = batch /\ mode = "save"
      /\ sure = FALSE
      /\ dir[f]["claim"] = None /\ dir[f]["target"] \in {"base", "other"}
      /\ UNCHANGED <<data, journal, todo, sure, mode, batch, preserved>>
      /\ UNCHANGED <<crashes, faults, edits, edited, owed, acked, result>>
  <2>1. f \in todo /\ f \in batch /\ f \in Files
    BY DEF VisitTypes
  <2>2. \A n \in Names : dir[f][n] \in {"base", "next", "other", None}
    BY <2>1 DEF DiskTypes, Inodes
  <2>3. Names4(f, None, dir[f]["target"], dir[f]["staged"], dir[f]["rollback"])
    BY <2>1, NamesMoved DEF DiskTypes
  <2>4. dir[f]["claim"] = None /\ dir[f]["target"] \in {"base", "other"}
    BY <2>1, <2>2 DEF FileInv, SavingOne, Exists, Names
  <2>5. batch = {f} /\ journal.phase = "single" /\ journal.files = batch
    BY <2>1 DEF Control
  <2>6. mode = "save" /\ sure = FALSE
    BY DEF Control
  <2> QED
    BY <2>1, <2>2, <2>3, <2>4, <2>5, <2>6 DEF environment
<1>2. TypeOK'
  BY <1>1 DEF DiskTypes, VisitTypes, OutcomeTypes, Steps, Phases, Names4, Names
<1>3. Control'
  BY <1>1 DEF Control, Names4, Names
<1>4. AllOrNothing'
  BY <1>1 DEF AllOrNothing
<1>5. ASSUME NEW g \in Files \ {f}
      PROVE  Shape(g)' /\ Journalled(g)' /\ Kept(g)'
  BY <1>1, ShapeKept, JournalledKept, KeptKept DEF FileInv, Names4, Names
<1>6. Shape(f)'
  BY <1>1 DEF Shape, FileInv, Exists, Names4, Names
<1>7. Journalled(f)'
  BY <1>1 DEF Journalled, FileInv, Exists, Names4, Names
<1>8. Kept(f)'
  BY <1>1 DEF Kept, FileInv, Exists, Matches, Saved, Names4, Names
<1>9. ASSUME NEW g \in batch'
      PROVE  SavingOne(g)'
  BY <1>1 DEF SavingOne, FileInv, Claimed, Saved, Matches, Exists, VisitTypes, Names4,
    Names
<1>10. ASSUME NEW g \in batch'
      PROVE  SavingBatch(g)'
  BY <1>1 DEF SavingBatch, Names4, Names
<1>11. ASSUME NEW g \in batch'
      PROVE  Undoing(g)'
  BY <1>1 DEF Undoing, Names4, Names
<1>12. \A g \in Files : FileInv(g)'
  BY <1>5, <1>6, <1>7, <1>8, <1>9, <1>10, <1>11 DEF FileInv
<1> QED
  BY <1>2, <1>3, <1>4, <1>12

LEMMA VerifiesClaimOne ==
    ASSUME IInv, pc = "verifyOne", Matches(cur, "claim", "old"), pc' = "installOne",
           sure' = TRUE,
           UNCHANGED <<disk, mode, batch, todo, cur, preserved, result, environment, acked>>
    PROVE  IInv'
<1> USE Constants DEF IInv, TypeOK
<1>1. /\ pc = "verifyOne" /\ pc' = "installOne" /\ cur \in todo /\ sure' = TRUE
      /\ batch = {cur} /\ journal.phase = "single" /\ mode = "save"
      /\ Matches(cur, "claim", "old") /\ cur # None
      /\ UNCHANGED <<dir, data, journal, todo, cur, mode, batch, preserved>>
      /\ UNCHANGED <<crashes, faults, edits, edited, owed, acked, result>>
  BY DEF disk, environment, VisitTypes, Control
<1>2. TypeOK'
  BY <1>1 DEF DiskTypes, VisitTypes, OutcomeTypes, Steps, Phases
<1>3. Control'
  BY <1>1 DEF Control
<1>4. AllOrNothing'
  BY <1>1 DEF AllOrNothing
<1>5. \A g \in Files : Shape(g)' /\ Journalled(g)' /\ Kept(g)'
  BY <1>1, FilesKept
<1>6. ASSUME NEW g \in batch'
      PROVE  SavingOne(g)'
  BY <1>1 DEF SavingOne, FileInv, Claimed, Saved, Matches, Exists, VisitTypes
<1>7. ASSUME NEW g \in batch'
      PROVE  SavingBatch(g)'
  BY <1>1 DEF SavingBatch
<1>8. ASSUME NEW g \in batch'
      PROVE  Undoing(g)'
  BY <1>1 DEF Undoing
<1>9. \A g \in Files : FileInv(g)'
  BY <1>5, <1>6, <1>7, <1>8 DEF FileInv
<1> QED
  BY <1>2, <1>3, <1>4, <1>9

LEMMA InstallsOne ==
    ASSUME IInv, NEW f \in todo, f = cur, pc = "installOne", ~Exists(f, "target"),
           Link(f, "staged", "target"),
           GoTo("final", batch),
           UNCHANGED <<data, journal, mode, preserved, result, environment, acked>>
    PROVE  IInv'
<1> USE Constants DEF IInv, TypeOK
<1>1. /\ f \in todo /\ f \in batch /\ f \in Files
      /\ \A n \in Names : dir[f][n] \in {"base", "next", "other", None}
      /\ Names4(f, "next", dir[f]["claim"], dir[f]["staged"], dir[f]["rollback"])
      /\ dir[f]["target"] = None /\ dir[f]["staged"] = "next" /\ data[f]["next"] = "new"
      /\ batch = {f} /\ journal.phase = "single" /\ journal.files = batch /\ mode = "save"
      /\ pc = "installOne" /\ pc' = "final" /\ todo' = batch /\ cur' = None /\ sure' = FALSE
      /\ f \notin owed
      /\ UNCHANGED <<data, journal, mode, batch, preserved>>
      /\ UNCHANGED <<crashes, faults, edits, edited, owed, acked, result>>
  <2>1. f \in todo /\ f \in batch /\ f \in Files
    BY DEF VisitTypes
  <2>2. \A n \in Names : dir[f][n] \in {"base", "next", "other", None}
    BY <2>1 DEF DiskTypes, Inodes
  <2>3. dir[f]["staged"] = "next" /\ data[f]["next"] = "new" /\ Matches(f, "claim", "old")
    BY <2>1 DEF FileInv, SavingOne
  <2>4. Names4(f, "next", dir[f]["claim"], dir[f]["staged"], dir[f]["rollback"])
    BY <2>1, <2>3, NamesSet DEF DiskTypes, Link, Names, Inodes
  <2>5. batch = {f} /\ journal.phase = "single" /\ journal.files = batch
    BY <2>1 DEF Control
  <2>6. f \notin owed
    BY <2>1, <2>3, <2>5 DEF FileInv, Kept, Journalled, Matches, Exists
  <2>7. mode = "save"
    BY DEF Control
  <2> QED
    BY <2>1, <2>2, <2>3, <2>4, <2>5, <2>6, <2>7 DEF environment, Exists, GoTo
<1>2. TypeOK'
  BY <1>1 DEF DiskTypes, VisitTypes, OutcomeTypes, Steps, Phases, Names4, Names
<1>3. Control'
  BY <1>1 DEF Control, Names4, Names
<1>4. AllOrNothing'
  BY <1>1 DEF AllOrNothing
<1>5. ASSUME NEW g \in Files \ {f}
      PROVE  Shape(g)' /\ Journalled(g)' /\ Kept(g)'
  BY <1>1, ShapeKept, JournalledKept, KeptKept DEF FileInv, Names4, Names
<1>6. Shape(f)'
  BY <1>1 DEF Shape, FileInv, Exists, Names4, Names
<1>7. Journalled(f)'
  BY <1>1 DEF Journalled, FileInv, Exists, Names4, Names
<1>8. Kept(f)'
  BY <1>1 DEF Kept, FileInv, Exists, Matches, Saved, Names4, Names
<1>9. ASSUME NEW g \in batch'
      PROVE  SavingOne(g)'
  BY <1>1 DEF SavingOne, FileInv, Claimed, Saved, Matches, Exists, VisitTypes, Names4,
    Names
<1>10. ASSUME NEW g \in batch'
      PROVE  SavingBatch(g)'
  BY <1>1 DEF SavingBatch, Names4, Names
<1>11. ASSUME NEW g \in batch'
      PROVE  Undoing(g)'
  BY <1>1 DEF Undoing, Names4, Names
<1>12. \A g \in Files : FileInv(g)'
  BY <1>5, <1>6, <1>7, <1>8, <1>9, <1>10, <1>11 DEF FileInv
<1> QED
  BY <1>2, <1>3, <1>4, <1>12

LEMMA RestoresOne ==
    ASSUME IInv, NEW f \in todo, f = cur, pc = "restore", ~Exists(f, "target"), Link(f,
           "claim", "target"),
           GoTo("final", batch),
           UNCHANGED <<data, journal, mode, preserved, result, environment, acked>>
    PROVE  IInv'
<1> USE Constants DEF IInv, TypeOK
<1>1. /\ f \in todo /\ f \in batch /\ f \in Files
      /\ \A n \in Names : dir[f][n] \in {"base", "next", "other", None}
      /\ Names4(f, dir[f]["claim"], dir[f]["claim"], dir[f]["staged"], dir[f]["rollback"])
      /\ dir[f]["target"] = None
      /\ batch = {f} /\ journal.phase = "single" /\ journal.files = batch /\ mode = "abort"
      /\ pc = "restore" /\ pc' = "final" /\ todo' = batch /\ cur' = None /\ sure' = FALSE
      /\ UNCHANGED <<data, journal, mode, batch, preserved>>
      /\ UNCHANGED <<crashes, faults, edits, edited, owed, acked, result>>
  <2>1. f \in todo /\ f \in batch /\ f \in Files
    BY DEF VisitTypes
  <2>2. \A n \in Names : dir[f][n] \in {"base", "next", "other", None}
    BY <2>1 DEF DiskTypes, Inodes
  <2>3. Names4(f, dir[f]["claim"], dir[f]["claim"], dir[f]["staged"], dir[f]["rollback"])
    <3>1. /\ dir[f]["claim"] \in Inodes \cup {None} /\ "target" \in Names
          /\ dir' = [dir EXCEPT ![f]["target"] = dir[f]["claim"]]
      BY <2>1 DEF DiskTypes, Link, Names
    <3> QED
      BY <2>1, <3>1, NamesSet DEF DiskTypes
  <2>4. batch = {f} /\ journal.phase = "single" /\ journal.files = batch
    BY <2>1 DEF Control
  <2>5. mode = "abort"
    BY DEF Control
  <2> QED
    BY <2>1, <2>2, <2>3, <2>4, <2>5 DEF environment, Exists, GoTo
<1>2. TypeOK'
  BY <1>1 DEF DiskTypes, VisitTypes, OutcomeTypes, Steps, Phases, Names4, Names
<1>3. Control'
  BY <1>1 DEF Control, Names4, Names
<1>4. AllOrNothing'
  BY <1>1 DEF AllOrNothing
<1>5. ASSUME NEW g \in Files \ {f}
      PROVE  Shape(g)' /\ Journalled(g)' /\ Kept(g)'
  BY <1>1, ShapeKept, JournalledKept, KeptKept DEF FileInv, Names4, Names
<1>6. Shape(f)'
  BY <1>1 DEF Shape, FileInv, Exists, Names4, Names
<1>7. Journalled(f)'
  BY <1>1 DEF Journalled, FileInv, Exists, Names4, Names
<1>8. Kept(f)'
  BY <1>1 DEF Kept, FileInv, Exists, Matches, Saved, Names4, Names
<1>9. ASSUME NEW g \in batch'
      PROVE  SavingOne(g)'
  BY <1>1 DEF SavingOne, FileInv, Claimed, Saved, Matches, Exists, Journalled, Kept,
    Shape, Control, VisitTypes, Names4, Names
<1>10. ASSUME NEW g \in batch'
      PROVE  SavingBatch(g)'
  BY <1>1 DEF SavingBatch, Names4, Names
<1>11. ASSUME NEW g \in batch'
      PROVE  Undoing(g)'
  BY <1>1 DEF Undoing, Names4, Names
<1>12. \A g \in Files : FileInv(g)'
  BY <1>5, <1>6, <1>7, <1>8, <1>9, <1>10, <1>11 DEF FileInv
<1> QED
  BY <1>2, <1>3, <1>4, <1>12

LEMMA LeavesTarget ==
    ASSUME IInv, NEW f \in todo, f = cur, pc = "restore", sure, GoTo("final", batch),
           UNCHANGED <<disk, mode, preserved, result, environment, acked>>
    PROVE  IInv'
<1> USE Constants DEF IInv, TypeOK
<1>1. /\ f \in todo /\ f \in batch /\ f \in Files
      /\ pc = "restore" /\ sure /\ pc' = "final" /\ todo' = batch /\ cur' = None
      /\ sure' = FALSE
      /\ batch = {f} /\ journal.phase = "single" /\ journal.files = batch /\ mode = "abort"
      /\ UNCHANGED <<dir, data, journal, mode, batch, preserved>>
      /\ UNCHANGED <<crashes, faults, edits, edited, owed, acked, result>>
  <2>1. f \in todo /\ f \in batch /\ f \in Files
    BY DEF VisitTypes
  <2>2. batch = {f} /\ journal.phase = "single" /\ journal.files = batch
    BY <2>1 DEF Control
  <2>3. mode = "abort"
    BY DEF Control
  <2> QED
    BY <2>1, <2>2, <2>3 DEF environment, disk, GoTo
<1>2. TypeOK'
  BY <1>1 DEF DiskTypes, VisitTypes, OutcomeTypes, Steps, Phases
<1>3. Control'
  BY <1>1 DEF Control
<1>4. AllOrNothing'
  BY <1>1 DEF AllOrNothing
<1>5. \A g \in Files : Shape(g)' /\ Journalled(g)' /\ Kept(g)'
  BY <1>1, FilesKept
<1>6. ASSUME NEW g \in batch'
      PROVE  SavingOne(g)'
  BY <1>1 DEF SavingOne, FileInv, Claimed, Saved, Matches, Exists, Journalled, Kept,
    Shape, Control, VisitTypes
<1>7. ASSUME NEW g \in batch'
      PROVE  SavingBatch(g)'
  BY <1>1 DEF SavingBatch
<1>8. ASSUME NEW g \in batch'
      PROVE  Undoing(g)'
  BY <1>1 DEF Undoing
<1>9. \A g \in Files : FileInv(g)'
  BY <1>5, <1>6, <1>7, <1>8 DEF FileInv
<1> QED
  BY <1>2, <1>3, <1>4, <1>9

(***************************************************************************)
(* The end of a save of one file, and its recovery.                        *)
(***************************************************************************)

LEMMA RemovesOne ==
    ASSUME IInv, NEW f \in todo, NEW n \in {"staged", "claim"}, pc = "final", Unlink(f, n),
           UNCHANGED <<data, journal, visit, result, environment, acked>>
    PROVE  IInv'
<1> USE Constants DEF IInv, TypeOK
<1>1. /\ f \in todo /\ f \in batch /\ f \in Files
      /\ \A m \in Names : dir[f][m] \in {"base", "next", "other", None}
      /\ Names4(f, dir[f]["target"],
                IF n = "claim" THEN None ELSE dir[f]["claim"],
                IF n = "staged" THEN None ELSE dir[f]["staged"], dir[f]["rollback"])
      /\ pc = "final" /\ pc' = "final" /\ journal.phase \in {"single", "none"}
      /\ UNCHANGED <<data, journal, todo, cur, sure, mode, batch, preserved>>
      /\ UNCHANGED <<crashes, faults, edits, edited, owed, acked, result>>
  <2>1. f \in todo /\ f \in batch /\ f \in Files
    BY DEF VisitTypes
  <2>2. \A m \in Names : dir[f][m] \in {"base", "next", "other", None}
    BY <2>1 DEF DiskTypes, Inodes
  <2>3. Names4(f, dir[f]["target"], IF n = "claim" THEN None ELSE dir[f]["claim"],
               IF n = "staged" THEN None ELSE dir[f]["staged"], dir[f]["rollback"])
    BY <2>1, NamesSet DEF DiskTypes, Unlink, Names
  <2> QED
    BY <2>1, <2>2, <2>3 DEF environment, visit, Control
<1>2. TypeOK'
  BY <1>1 DEF DiskTypes, VisitTypes, OutcomeTypes, Steps, Phases, Names4, Names
<1>3. Control'
  BY <1>1 DEF Control, Names4, Names
<1>4. AllOrNothing'
  BY <1>1 DEF AllOrNothing
<1>5. ASSUME NEW g \in Files \ {f}
      PROVE  Shape(g)' /\ Journalled(g)' /\ Kept(g)'
  BY <1>1, ShapeKept, JournalledKept, KeptKept DEF FileInv, Names4, Names
<1>6. Shape(f)'
  BY <1>1 DEF Shape, FileInv, Exists, Names4, Names
<1>7. Journalled(f)'
  BY <1>1 DEF Journalled, FileInv, Exists, Names4, Names
<1>8. Kept(f)'
  BY <1>1 DEF Kept, FileInv, Exists, Matches, Shape, Journalled, SavingOne, SavingBatch,
    Undoing, Claimed, Saved, Undone, Control, Names4, Names
<1>9. ASSUME NEW g \in batch'
      PROVE  SavingOne(g)'
  BY <1>1 DEF SavingOne, FileInv, Claimed, Saved, Matches, Exists, VisitTypes, Names4,
    Names
<1>10. ASSUME NEW g \in batch'
      PROVE  SavingBatch(g)'
  BY <1>1 DEF SavingBatch, Names4, Names
<1>11. ASSUME NEW g \in batch'
      PROVE  Undoing(g)'
  BY <1>1 DEF Undoing, Names4, Names
<1>12. \A g \in Files : FileInv(g)'
  BY <1>5, <1>6, <1>7, <1>8, <1>9, <1>10, <1>11 DEF FileInv
<1> QED
  BY <1>2, <1>3, <1>4, <1>12

LEMMA EndsOne ==
    ASSUME IInv, NEW f \in todo, pc = "final", ~Exists(f, "claim"), journal' = NoJournal,
           End(Completed),
           UNCHANGED <<dir, data, environment>>
    PROVE  IInv'
<1> USE Constants DEF IInv, TypeOK
<1>1. /\ pc' = "idle" /\ pc # "idle" /\ mode' = mode /\ batch' = batch /\ todo' = {}
      /\ cur' = None /\ sure' = FALSE /\ preserved' = {}
      /\ journal' = [phase |-> "none", files |-> {}]
      /\ result' \in {"saved", "failed", "opened"} /\ batch = {f} /\ f \in Files
      /\ acked' = acked \/ (acked' = acked \cup batch /\ \A g \in batch \ edited : Saved(g))
      /\ \A g \in Files : dir[g]["claim"] = None /\ dir[g]["rollback"] = None
      /\ UNCHANGED <<dir, data, crashes, faults, edits, edited, owed>>
  <2>1. Completed \in {"saved", "failed", "opened"} /\ (Completed = "saved" => mode = "save")
    BY DEF VisitTypes, Completed
  <2>2. mode = "save" => \A g \in batch \ edited : Saved(g)
    BY DEF FileInv, SavingOne, VisitTypes
  <2>3. batch = {f} /\ f \in Files /\ journal.phase \in {"single", "none"}
    BY DEF VisitTypes, Control
  <2>4. ASSUME NEW g \in Files
        PROVE  dir[g]["claim"] = None /\ dir[g]["rollback"] = None
    BY <2>3 DEF FileInv, Journalled, Exists, Control
  <2>5. acked' = acked \/ (acked' = acked \cup batch /\ Completed = "saved")
    BY DEF End
  <2> QED
    BY <2>1, <2>2, <2>3, <2>4, <2>5 DEF End, NoJournal, environment
<1>2. TypeOK'
  <2>1. acked' \subseteq Files
    BY <1>1 DEF VisitTypes, OutcomeTypes
  <2>2. DiskTypes'
    BY <1>1 DEF DiskTypes, Phases
  <2>3. VisitTypes'
    BY <1>1 DEF VisitTypes, Steps
  <2>4. OutcomeTypes'
    BY <1>1, <2>1 DEF OutcomeTypes
  <2> QED
    BY <2>2, <2>3, <2>4
<1>3. Control'
  BY <1>1 DEF Control
<1>4. AllOrNothing'
  BY <1>1 DEF AllOrNothing, Matches
<1>5. \A g \in Files : Shape(g)' /\ Kept(g)'
  <2> SUFFICES ASSUME NEW g \in Files
               PROVE  Shape(g)' /\ Kept(g)'
    OBVIOUS
  <2>1. Shape(g)'
    BY <1>1, ShapeKept DEF FileInv
  <2>2. Kept(g)'
    BY <1>1 DEF FileInv, Kept, Matches, Exists, Saved
  <2> QED
    BY <2>1, <2>2
<1>6. ASSUME NEW g \in Files
      PROVE  Journalled(g)'
  BY <1>1 DEF Journalled, FileInv, Exists
<1>7. \A g \in Files : SavingOne(g)' /\ SavingBatch(g)' /\ Undoing(g)'
  BY <1>1, IdleFiles
<1>8. \A g \in Files : FileInv(g)'
  BY <1>5, <1>6, <1>7 DEF FileInv
<1> QED
  BY <1>2, <1>3, <1>4, <1>8

LEMMA FindsOne ==
    ASSUME IInv, NEW f \in todo, pc = "redoOne", cur = None, Exists(f, "target"),
           ~Exists(f, "claim") \/ Matches(f, "claim", "old"), GoTo("final", batch),
           UNCHANGED <<disk, mode, preserved, result, environment, acked>>
    PROVE  IInv'
<1> USE Constants DEF IInv, TypeOK
<1>1. /\ f \in todo /\ f \in batch /\ f \in Files
      /\ pc = "redoOne" /\ pc' = "final" /\ todo' = batch /\ cur' = None /\ sure' = FALSE
      /\ batch = {f} /\ journal.phase = "single" /\ journal.files = batch /\ mode = "open"
      /\ ~Exists(f, "claim") \/ Matches(f, "claim", "old")
      /\ UNCHANGED <<dir, data, journal, mode, batch, preserved>>
      /\ UNCHANGED <<crashes, faults, edits, edited, owed, acked, result>>
  <2>1. f \in todo /\ f \in batch /\ f \in Files
    BY DEF VisitTypes
  <2>2. batch = {f} /\ journal.phase = "single" /\ journal.files = batch
    BY <2>1 DEF Control
  <2>3. mode = "open"
    BY DEF Control
  <2> QED
    BY <2>1, <2>2, <2>3 DEF environment, disk, GoTo
<1>2. TypeOK'
  BY <1>1 DEF DiskTypes, VisitTypes, OutcomeTypes, Steps, Phases
<1>3. Control'
  BY <1>1 DEF Control
<1>4. AllOrNothing'
  BY <1>1 DEF AllOrNothing
<1>5. \A g \in Files : Shape(g)' /\ Journalled(g)' /\ Kept(g)'
  BY <1>1, FilesKept
<1>6. ASSUME NEW g \in batch'
      PROVE  SavingOne(g)'
  BY <1>1 DEF SavingOne, FileInv, Claimed, Saved, Matches, Exists, Journalled, Kept,
    Shape, Control, VisitTypes
<1>7. ASSUME NEW g \in batch'
      PROVE  SavingBatch(g)'
  BY <1>1 DEF SavingBatch
<1>8. ASSUME NEW g \in batch'
      PROVE  Undoing(g)'
  BY <1>1 DEF Undoing
<1>9. \A g \in Files : FileInv(g)'
  BY <1>5, <1>6, <1>7, <1>8 DEF FileInv
<1> QED
  BY <1>2, <1>3, <1>4, <1>9

LEMMA RecoversOne ==
    ASSUME IInv, NEW f \in todo, pc = "redoOne", cur = None, ~Exists(f, "target"),
           Link(f, "claim", "target"), cur' = f,
           UNCHANGED <<data, journal, pc, mode, batch, todo, sure, preserved, result,
                       environment, acked>>
    PROVE  IInv'
<1> USE Constants DEF IInv, TypeOK
<1>1. /\ f \in todo /\ f \in batch /\ f \in Files
      /\ \A n \in Names : dir[f][n] \in {"base", "next", "other", None}
      /\ Names4(f, dir[f]["claim"], dir[f]["claim"], dir[f]["staged"], dir[f]["rollback"])
      /\ dir[f]["target"] = None
      /\ batch = {f} /\ journal.phase = "single" /\ journal.files = batch
      /\ pc = "redoOne" /\ pc' = "redoOne" /\ cur' = f
      /\ UNCHANGED <<data, journal, todo, sure, mode, batch, preserved>>
      /\ UNCHANGED <<crashes, faults, edits, edited, owed, acked, result>>
  <2>1. f \in todo /\ f \in batch /\ f \in Files
    BY DEF VisitTypes
  <2>2. \A n \in Names : dir[f][n] \in {"base", "next", "other", None}
    BY <2>1 DEF DiskTypes, Inodes
  <2>3. Names4(f, dir[f]["claim"], dir[f]["claim"], dir[f]["staged"], dir[f]["rollback"])
    <3>1. /\ dir[f]["claim"] \in Inodes \cup {None} /\ "target" \in Names
          /\ dir' = [dir EXCEPT ![f]["target"] = dir[f]["claim"]]
      BY <2>1 DEF DiskTypes, Link, Names
    <3> QED
      BY <2>1, <3>1, NamesSet DEF DiskTypes
  <2>4. batch = {f} /\ journal.phase = "single" /\ journal.files = batch
    BY <2>1 DEF Control
  <2> QED
    BY <2>1, <2>2, <2>3, <2>4 DEF environment, Exists
<1>2. TypeOK'
  BY <1>1 DEF DiskTypes, VisitTypes, OutcomeTypes, Steps, Phases, Names4, Names
<1>3. Control'
  BY <1>1 DEF Control, Names4, Names
<1>4. AllOrNothing'
  BY <1>1 DEF AllOrNothing
<1>5. ASSUME NEW g \in Files \ {f}
      PROVE  Shape(g)' /\ Journalled(g)' /\ Kept(g)'
  BY <1>1, ShapeKept, JournalledKept, KeptKept DEF FileInv, Names4, Names
<1>6. Shape(f)'
  BY <1>1 DEF Shape, FileInv, Exists, Names4, Names
<1>7. Journalled(f)'
  BY <1>1 DEF Journalled, FileInv, Exists, Names4, Names
<1>8. Kept(f)'
  BY <1>1 DEF Kept, FileInv, Exists, Matches, Saved, Names4, Names
<1>9. ASSUME NEW g \in batch'
      PROVE  SavingOne(g)'
  BY <1>1 DEF SavingOne, Names4, Names
<1>10. ASSUME NEW g \in batch'
      PROVE  SavingBatch(g)'
  BY <1>1 DEF SavingBatch, Names4, Names
<1>11. ASSUME NEW g \in batch'
      PROVE  Undoing(g)'
  BY <1>1 DEF Undoing, Names4, Names
<1>12. \A g \in Files : FileInv(g)'
  BY <1>5, <1>6, <1>7, <1>8, <1>9, <1>10, <1>11 DEF FileInv
<1> QED
  BY <1>2, <1>3, <1>4, <1>12

LEMMA VerifiesRecoveredOne ==
    ASSUME IInv, NEW f \in todo, f = cur, pc = "redoOne", Restored(f), GoTo("final", batch),
           UNCHANGED <<disk, mode, preserved, result, environment, acked>>
    PROVE  IInv'
<1> USE Constants DEF IInv, TypeOK
<1>1. /\ f \in todo /\ f \in batch /\ f \in Files
      /\ pc = "redoOne" /\ pc' = "final" /\ todo' = batch /\ cur' = None /\ sure' = FALSE
      /\ batch = {f} /\ journal.phase = "single" /\ journal.files = batch /\ mode = "open"
      /\ dir[f]["target"] = "base" /\ data[f]["base"] = "old"
      /\ UNCHANGED <<dir, data, journal, mode, batch, preserved>>
      /\ UNCHANGED <<crashes, faults, edits, edited, owed, acked, result>>
  <2>1. f \in todo /\ f \in batch /\ f \in Files
    BY DEF VisitTypes
  <2>2. batch = {f} /\ journal.phase = "single" /\ journal.files = batch
    BY <2>1 DEF Control
  <2>3. mode = "open"
    BY DEF Control
  <2>4. dir[f]["target"] \in {"base", "next", "other", None}
    BY <2>1 DEF DiskTypes, Names, Inodes
  <2>5. dir[f]["target"] = "base" /\ data[f]["base"] = "old"
    BY <2>1, <2>4 DEF FileInv, Shape, Restored, Matches, Exists, Names
  <2> QED
    BY <2>1, <2>2, <2>3, <2>5 DEF environment, disk, GoTo
<1>2. TypeOK'
  BY <1>1 DEF DiskTypes, VisitTypes, OutcomeTypes, Steps, Phases
<1>3. Control'
  BY <1>1 DEF Control
<1>4. AllOrNothing'
  BY <1>1 DEF AllOrNothing
<1>5. \A g \in Files : Shape(g)' /\ Journalled(g)' /\ Kept(g)'
  BY <1>1, FilesKept
<1>6. ASSUME NEW g \in batch'
      PROVE  SavingOne(g)'
  BY <1>1 DEF SavingOne, FileInv, Claimed, Saved, Matches, Exists, Journalled, Kept,
    Shape, Control, VisitTypes
<1>7. ASSUME NEW g \in batch'
      PROVE  SavingBatch(g)'
  BY <1>1 DEF SavingBatch
<1>8. ASSUME NEW g \in batch'
      PROVE  Undoing(g)'
  BY <1>1 DEF Undoing
<1>9. \A g \in Files : FileInv(g)'
  BY <1>5, <1>6, <1>7, <1>8 DEF FileInv
<1> QED
  BY <1>2, <1>3, <1>4, <1>9

(***************************************************************************)
(* Failures.                                                               *)
(***************************************************************************)

LEMMA EndsUnstaged ==
    ASSUME IInv, NEW f \in batch, pc \in {"temp", "restore"}, Unlink(f, "staged"),
           End("failed") \/ End("refused") \/ End("error"),
           UNCHANGED <<data, journal, crashes, edits, edited, owed>>, faults' \in Nat
    PROVE  IInv'
<1> USE Constants DEF IInv, TypeOK
<1>1. /\ pc' = "idle" /\ pc # "idle" /\ mode' = mode /\ batch' = batch /\ todo' = {}
      /\ f \in Files /\ cur' = None /\ sure' = FALSE /\ preserved' = {} /\ acked' = acked
      /\ result' \in {"failed", "refused", "error", "crashed"}
      /\ Names4(f, dir[f]["target"], dir[f]["claim"], None, dir[f]["rollback"])
      /\ \A n \in Names : dir[f][n] \in {"base", "next", "other", None}
      /\ \E g \in Files : batch = {g}
      /\ UNCHANGED <<data, journal, crashes, edits, edited, owed>> /\ faults' \in Nat
  <2>1. f \in Files
    BY DEF VisitTypes
  <2>2. \A n \in Names : dir[f][n] \in {"base", "next", "other", None}
    BY <2>1 DEF DiskTypes, Inodes
  <2>3. Names4(f, dir[f]["target"], dir[f]["claim"], None, dir[f]["rollback"])
    BY <2>1, NamesSet DEF DiskTypes, Unlink, Names
  <2>4. \E g \in Files : batch = {g}
    BY DEF Control
  <2> QED
    BY <2>1, <2>2, <2>3, <2>4 DEF End
<1>2. TypeOK'
  BY <1>1 DEF DiskTypes, VisitTypes, OutcomeTypes, Steps, Phases, Names4, Names
<1>3. Control'
  BY <1>1 DEF Control, Names4, Names
<1>4. AllOrNothing'
  BY <1>1 DEF AllOrNothing, Matches
<1>5. ASSUME NEW g \in Files \ {f}
      PROVE  Shape(g)' /\ Journalled(g)' /\ Kept(g)'
  BY <1>1, ShapeKept, JournalledKept, KeptKept DEF FileInv, Names4, Names
<1>6. Shape(f)'
  BY <1>1 DEF Shape, FileInv, Exists, Names4, Names
<1>7. Journalled(f)'
  BY <1>1 DEF Journalled, FileInv, Exists, Names4, Names
<1>8. Kept(f)'
  BY <1>1 DEF Kept, FileInv, Exists, Matches, Saved, Names4, Names
<1>9. \A g \in Files : SavingOne(g)' /\ SavingBatch(g)' /\ Undoing(g)'
  BY <1>1, IdleFiles
<1>10. \A g \in Files : FileInv(g)'
  BY <1>5, <1>6, <1>7, <1>8, <1>9 DEF FileInv
<1> QED
  BY <1>2, <1>3, <1>4, <1>10

LEMMA Truncates ==
    ASSUME IInv, NEW f \in Files, Exists(f, "target"), dir' = dir,
           data' = [data EXCEPT ![f][dir[f]["target"]] = "foreign"],
           edited' = edited \cup {f}, owed' = owed \cup {f}, edits' = edits + 1,
           UNCHANGED <<journal, visit, result, acked, crashes, faults>>
    PROVE  IInv'
<1> USE Constants DEF IInv, TypeOK
<1>1. /\ \A n \in Names : dir[f][n] \in {"base", "next", "other", None}
      /\ dir' = dir /\ dir[f]["target"] # None
      /\ Inodes3(f, IF dir[f]["target"] = "base" THEN "foreign" ELSE data[f]["base"],
                    IF dir[f]["target"] = "next" THEN "foreign" ELSE data[f]["next"],
                    IF dir[f]["target"] = "other" THEN "foreign" ELSE data[f]["other"])
      /\ edited' = edited \cup {f} /\ owed' = owed \cup {f} /\ edits' \in Nat
      /\ \A g \in Files \ {f} : (g \in edited' <=> g \in edited)
                                /\ (g \in owed' <=> g \in owed)
      /\ UNCHANGED <<journal, pc, mode, batch, todo, cur, sure, preserved,
                      result, acked, crashes, faults>>
  <2>1. \A n \in Names : dir[f][n] \in {"base", "next", "other", None}
    BY DEF DiskTypes, Inodes
  <2>2. Inodes3(f, IF dir[f]["target"] = "base" THEN "foreign" ELSE data[f]["base"],
                   IF dir[f]["target"] = "next" THEN "foreign" ELSE data[f]["next"],
                   IF dir[f]["target"] = "other" THEN "foreign" ELSE data[f]["other"])
    <3>1. dir[f]["target"] \in Inodes /\ "foreign" \in Contents
      BY <2>1 DEF Exists, Names, Inodes, Contents
    <3> QED
      BY <3>1, InodeWritten DEF DiskTypes
  <2> QED
    BY <2>1, <2>2 DEF Exists, visit, OutcomeTypes
<1>2. TypeOK'
  BY <1>1 DEF DiskTypes, VisitTypes, OutcomeTypes, Steps, Phases, Inodes3, Names
<1>3. Control'
  BY <1>1 DEF Control, Inodes3, Names
<1>4. AllOrNothing'
  <2> SUFFICES ASSUME pc = "idle" /\ journal.phase = "none"
               PROVE  \/ \A g \in batch : ~Matches(g, "target", "old")'
                      \/ \A g \in batch : ~Matches(g, "target", "new")'
    BY <1>1 DEF AllOrNothing
  <2>1. ASSUME NEW g \in batch, NEW c \in {"old", "new"}, Matches(g, "target", c)'
        PROVE  Matches(g, "target", c)
    BY <1>1, <2>1 DEF Matches, Exists, Names4, Inodes3, VisitTypes, Names
  <2> QED
    BY <2>1 DEF AllOrNothing
<1>5. ASSUME NEW g \in Files \ {f}
      PROVE  Shape(g)' /\ Journalled(g)' /\ Kept(g)'
  BY <1>1, ShapeKept, JournalledKept, KeptKept DEF FileInv, Inodes3, Names
<1>6. Shape(f)'
  BY <1>1 DEF Shape, FileInv, Exists, Inodes3, Names
<1>7. Journalled(f)'
  BY <1>1 DEF Journalled, FileInv, Exists, Inodes3, Names
<1>8. Kept(f)'
  BY <1>1 DEF Kept, FileInv, Exists, Matches, Saved, Inodes3, Names
<1>9. ASSUME NEW g \in batch'
      PROVE  SavingOne(g)'
  BY <1>1 DEF SavingOne, FileInv, Claimed, Saved, Matches, Exists, Journalled, Kept,
    Shape, Control, VisitTypes, Inodes3, Names
<1>10. ASSUME NEW g \in batch'
      PROVE  SavingBatch(g)'
  BY <1>1 DEF SavingBatch, FileInv, Claimed, Saved, Matches, Exists, VisitTypes,
    Inodes3, Names
<1>11. ASSUME NEW g \in batch'
      PROVE  Undoing(g)'
  BY <1>1 DEF Undoing, FileInv, Undone, Matches, Exists, VisitTypes, Inodes3, Names
<1>12. \A g \in Files : FileInv(g)'
  BY <1>5, <1>6, <1>7, <1>8, <1>9, <1>10, <1>11 DEF FileInv
<1> QED
  BY <1>2, <1>3, <1>4, <1>12

LEMMA Replaces ==
    ASSUME IInv, NEW f \in Files, \A n \in Names : dir[f][n] # "other",
           dir' = [dir EXCEPT ![f]["target"] = "other"],
           data' = [data EXCEPT ![f]["other"] = "foreign"],
           edited' = edited \cup {f}, owed' = owed \cup {f}, edits' = edits + 1,
           UNCHANGED <<journal, visit, result, acked, crashes, faults>>
    PROVE  IInv'
<1> USE Constants DEF IInv, TypeOK
<1>1. /\ \A n \in Names : dir[f][n] \in {"base", "next", "other", None}
      /\ Names4(f, "other", dir[f]["claim"], dir[f]["staged"], dir[f]["rollback"])
      /\ Inodes3(f, data[f]["base"], data[f]["next"], "foreign")
      /\ edited' = edited \cup {f} /\ owed' = owed \cup {f} /\ edits' \in Nat
      /\ \A g \in Files \ {f} : (g \in edited' <=> g \in edited)
                                /\ (g \in owed' <=> g \in owed)
      /\ UNCHANGED <<journal, pc, mode, batch, todo, cur, sure, preserved,
                      result, acked, crashes, faults>>
  <2>1. \A n \in Names : dir[f][n] \in {"base", "next", "other", None}
    BY DEF DiskTypes, Inodes
  <2>2. Names4(f, "other", dir[f]["claim"], dir[f]["staged"], dir[f]["rollback"])
    BY NamesSet DEF DiskTypes, Names, Inodes
  <2>3. Inodes3(f, data[f]["base"], data[f]["next"], "foreign")
    BY InodeWritten DEF DiskTypes, Inodes, Contents
  <2> QED
    BY <2>1, <2>2, <2>3 DEF visit, OutcomeTypes
<1>2. TypeOK'
  BY <1>1 DEF DiskTypes, VisitTypes, OutcomeTypes, Steps, Phases, Names4, Inodes3, Names
<1>3. Control'
  BY <1>1 DEF Control, Names4, Inodes3, Names
<1>4. AllOrNothing'
  <2> SUFFICES ASSUME pc = "idle" /\ journal.phase = "none"
               PROVE  \/ \A g \in batch : ~Matches(g, "target", "old")'
                      \/ \A g \in batch : ~Matches(g, "target", "new")'
    BY <1>1 DEF AllOrNothing
  <2>1. ASSUME NEW g \in batch, NEW c \in {"old", "new"}, Matches(g, "target", c)'
        PROVE  Matches(g, "target", c)
    BY <1>1, <2>1 DEF Matches, Exists, Names4, Inodes3, VisitTypes, Names
  <2> QED
    BY <2>1 DEF AllOrNothing
<1>5. ASSUME NEW g \in Files \ {f}
      PROVE  Shape(g)' /\ Journalled(g)' /\ Kept(g)'
  BY <1>1, ShapeKept, JournalledKept, KeptKept DEF FileInv, Names4, Inodes3, Names
<1>6. Shape(f)'
  BY <1>1 DEF Shape, FileInv, Exists, Names4, Inodes3, Names
<1>7. Journalled(f)'
  BY <1>1 DEF Journalled, FileInv, Exists, Names4, Inodes3, Names
<1>8. Kept(f)'
  BY <1>1 DEF Kept, FileInv, Exists, Matches, Saved, Names4, Inodes3, Names
<1>9. ASSUME NEW g \in batch'
      PROVE  SavingOne(g)'
  BY <1>1 DEF SavingOne, FileInv, Claimed, Saved, Matches, Exists, VisitTypes, Names4,
    Inodes3, Names
<1>10. ASSUME NEW g \in batch'
      PROVE  SavingBatch(g)'
  BY <1>1 DEF SavingBatch, FileInv, Claimed, Saved, Matches, Exists, VisitTypes, Names4,
    Inodes3, Names
<1>11. ASSUME NEW g \in batch'
      PROVE  Undoing(g)'
  BY <1>1 DEF Undoing, FileInv, Undone, Matches, Exists, VisitTypes, Names4, Inodes3,
    Names
<1>12. \A g \in Files : FileInv(g)'
  BY <1>5, <1>6, <1>7, <1>8, <1>9, <1>10, <1>11 DEF FileInv
<1> QED
  BY <1>2, <1>3, <1>4, <1>12

LEMMA Deletes ==
    ASSUME IInv, NEW f \in Files, Delete(f)
    PROVE  IInv'
<1> USE Constants DEF IInv, TypeOK
<1>1. /\ \A n \in Names : dir[f][n] \in {"base", "next", "other", None}
      /\ Names4(f, None, dir[f]["claim"], dir[f]["staged"], dir[f]["rollback"])
      /\ data' = data /\ edited' = edited \cup {f} /\ edits' \in Nat
      /\ IF Matches(f, "target", "foreign") THEN owed' = owed \ {f} ELSE owed' = owed
      /\ \A g \in Files \ {f} : (g \in edited' <=> g \in edited)
                                /\ (g \in owed' <=> g \in owed)
      /\ UNCHANGED <<journal, pc, mode, batch, todo, cur, sure, preserved,
                      result, acked, crashes, faults>>
  <2>1. \A n \in Names : dir[f][n] \in {"base", "next", "other", None}
    BY DEF DiskTypes, Inodes
  <2>2. Names4(f, None, dir[f]["claim"], dir[f]["staged"], dir[f]["rollback"])
    BY NamesSet DEF DiskTypes, Delete, Unlink, Names
  <2> QED
    BY <2>1, <2>2 DEF visit, OutcomeTypes, Delete
<1>2. TypeOK'
  BY <1>1 DEF DiskTypes, VisitTypes, OutcomeTypes, Steps, Phases, Names4, Names
<1>3. Control'
  BY <1>1 DEF Control, Names4, Names
<1>4. AllOrNothing'
  <2> SUFFICES ASSUME pc = "idle" /\ journal.phase = "none"
               PROVE  \/ \A g \in batch : ~Matches(g, "target", "old")'
                      \/ \A g \in batch : ~Matches(g, "target", "new")'
    BY <1>1 DEF AllOrNothing
  <2>1. ASSUME NEW g \in batch, NEW c \in {"old", "new"}, Matches(g, "target", c)'
        PROVE  Matches(g, "target", c)
    BY <1>1, <2>1 DEF Matches, Exists, Names4, Inodes3, VisitTypes, Names
  <2> QED
    BY <2>1 DEF AllOrNothing
<1>5. ASSUME NEW g \in Files \ {f}
      PROVE  Shape(g)' /\ Journalled(g)' /\ Kept(g)'
  BY <1>1, ShapeKept, JournalledKept, KeptKept DEF FileInv, Names4, Names
<1>6. Shape(f)'
  BY <1>1 DEF Shape, FileInv, Exists, Names4, Names
<1>7. Journalled(f)'
  BY <1>1 DEF Journalled, FileInv, Exists, Names4, Names
<1>8. Kept(f)'
  BY <1>1 DEF Kept, FileInv, Exists, Matches, Saved, Names4, Names
<1>9. ASSUME NEW g \in batch'
      PROVE  SavingOne(g)'
  BY <1>1 DEF SavingOne, FileInv, Claimed, Saved, Matches, Exists, VisitTypes, Names4,
    Names
<1>10. ASSUME NEW g \in batch'
      PROVE  SavingBatch(g)'
  BY <1>1 DEF SavingBatch, FileInv, Claimed, Saved, Matches, Exists, VisitTypes, Names4,
    Names
<1>11. ASSUME NEW g \in batch'
      PROVE  Undoing(g)'
  BY <1>1 DEF Undoing, FileInv, Undone, Matches, Exists, VisitTypes, Names4, Names
<1>12. \A g \in Files : FileInv(g)'
  BY <1>5, <1>6, <1>7, <1>8, <1>9, <1>10, <1>11 DEF FileInv
<1> QED
  BY <1>2, <1>3, <1>4, <1>12
(***************************************************************************)
(* The invariant is inductive.                                             *)
(***************************************************************************)
LEMMA InitInvariant ==
    ASSUME Init
    PROVE  IInv
<1> USE Constants DEF Init
<1>1. TypeOK
  <2>1. DiskTypes
    BY DEF DiskTypes, Names, Inodes, Contents, Phases, NoJournal
  <2> QED
    BY <2>1 DEF TypeOK, VisitTypes, OutcomeTypes, Steps
<1>2. Control /\ AllOrNothing
  BY DEF Control, AllOrNothing, NoJournal
<1>3. ASSUME NEW f \in Files
      PROVE  FileInv(f)
  <2>1. /\ dir[f]["target"] = "base" /\ dir[f]["claim"] = None /\ dir[f]["staged"] = None
        /\ dir[f]["rollback"] = None /\ data[f]["base"] = "old"
    BY DEF Names, Inodes
  <2>2. Shape(f) /\ Journalled(f) /\ Kept(f)
    BY <2>1 DEF Shape, Journalled, Kept, Exists, Names, NoJournal
  <2> QED
    BY <2>2 DEF FileInv
<1> QED
  BY <1>1, <1>2, <1>3 DEF IInv

LEMMA StagingStep ==
    ASSUME IInv, OpenStaged \/ WriteStaged
    PROVE  IInv'
<1>1. CASE OpenStaged
  <2>1. PICK f \in todo : /\ dir' = [dir EXCEPT ![f]["staged"] = "next"]
                          /\ data' = [data EXCEPT ![f]["next"] = "torn"]
                          /\ cur' = f
    BY <1>1 DEF OpenStaged
  <2> QED
    BY <1>1, <2>1, OpensStaged DEF OpenStaged
<1>2. CASE WriteStaged
  <2>1. cur \in todo
    BY <1>2 DEF WriteStaged, IInv, TypeOK, VisitTypes
  <2> QED
    BY <1>2, <2>1, WritesStaged
<1> QED
  BY <1>1, <1>2

LEMMA BatchStep ==
    ASSUME IInv, Claim \/ VerifyClaim \/ Install \/ CheckInstalled
    PROVE  IInv'
<1>1. CASE Claim
  <2>1. PICK f \in todo :
           \/ Exists(f, "target") /\ Move(f, "target", "claim") /\ cur' = f
              /\ UNCHANGED <<data, journal, pc, mode, batch, todo, sure, preserved,
                             result, environment, acked>>
           \/ Failing
    BY <1>1 DEF Claim
  <2> QED
    BY <1>1, <2>1, Claims, FailingStep DEF Claim, Looping
<1>2. CASE VerifyClaim
  BY <1>2, VerifiesClaim, FailingStep DEF VerifyClaim
<1>3. CASE Install
  <2>1. PICK f \in todo :
           \/ /\ Matches(f, "staged", "new") /\ ~Exists(f, "target")
              /\ Link(f, "staged", "target")
              /\ IF todo = {f} THEN GoTo("check", batch) /\ UNCHANGED <<mode, preserved>>
                 ELSE Visited(f, "check")
              /\ UNCHANGED <<data, journal, result, environment, acked>>
           \/ Failing
    BY <1>3 DEF Install
  <2> QED
    BY <1>3, <2>1, Installs, FailingStep DEF Install, Looping
<1>4. CASE CheckInstalled
  <2>1. PICK f \in todo :
           \/ Visited(f, "commit") /\ UNCHANGED <<disk, result, environment, acked>>
           \/ Failing
    BY <1>4 DEF CheckInstalled
  <2> QED
    BY <1>4, <2>1, ChecksInstalled, FailingStep DEF CheckInstalled, Looping
<1> QED
  BY <1>1, <1>2, <1>3, <1>4

LEMMA OneStep ==
    ASSUME IInv, ClaimOne \/ VerifyClaimOne \/ InstallOne \/ RestoreOne
    PROVE  IInv'
<1>1. CASE ClaimOne
  <2>1. PICK f \in todo :
           \/ Exists(f, "target") /\ Move(f, "target", "claim")
              /\ pc' = "verifyOne" /\ cur' = f
              /\ UNCHANGED <<data, journal, mode, batch, todo, sure, preserved, result,
                             environment, acked>>
           \/ Failing
    BY <1>1 DEF ClaimOne
  <2> QED
    BY <1>1, <2>1, ClaimsOne, FailingStep DEF ClaimOne
<1>2. CASE VerifyClaimOne
  BY <1>2, VerifiesClaimOne, FailingStep DEF VerifyClaimOne
<1>3. CASE InstallOne
  <2>1. cur \in todo
    BY <1>3 DEF InstallOne, IInv, Control, TypeOK, VisitTypes
  <2> QED
    BY <1>3, <2>1, InstallsOne, FailingStep DEF InstallOne
<1>4. CASE RestoreOne
  <2>1. cur \in todo /\ cur \in batch /\ pc = "restore"
    BY <1>4 DEF RestoreOne, IInv, Control, TypeOK, VisitTypes
  <2>2. CASE ~Exists(cur, "target")
    BY <1>4, <2>1, <2>2, RestoresOne DEF RestoreOne
  <2>3. CASE Exists(cur, "target") /\ sure
    BY <1>4, <2>1, <2>3, LeavesTarget DEF RestoreOne
  <2>4. CASE Exists(cur, "target") /\ ~sure
    <3>1. /\ Unlink(cur, "staged") /\ End("refused")
          /\ UNCHANGED <<data, journal, environment>>
      BY <1>4, <2>1, <2>4 DEF RestoreOne, Stopped
    <3>2. faults' \in Nat /\ UNCHANGED <<crashes, edits, edited, owed>>
      BY <3>1 DEF environment, IInv, TypeOK, OutcomeTypes
    <3> QED
      BY <2>1, <3>1, <3>2, EndsUnstaged
  <2> QED
    BY <2>2, <2>3, <2>4
<1> QED
  BY <1>1, <1>2, <1>3, <1>4

LEMMA SaveStep ==
    ASSUME IInv, Save
    PROVE  IInv'
BY StagingStep, BatchStep, OneStep, WritesPrepared, WritesCommitted, WritesClaimJournal
   DEF Save

LEMMA UndoStep ==
    ASSUME IInv, RecoverStaging \/ RecoverPrepared \/ RestoreClaim \/ VerifyRestored
                 \/ FinishRollback
    PROVE  IInv'
<1>1. CASE RecoverStaging
  BY <1>1, RecoversStaging, RefusedStep DEF RecoverStaging
<1>2. CASE RecoverPrepared
  <2>1. PICK f \in todo :
           \/ Restored(f) /\ Visited(f, "undone")
              /\ UNCHANGED <<disk, result, environment, acked>>
           \/ /\ ~Restored(f) /\ Trusted(f)
              /\ ~(Exists(f, "target") /\ Exists(f, "rollback"))
              /\ IF Exists(f, "target") THEN Move(f, "target", "rollback")
                 ELSE UNCHANGED dir
              /\ cur' = f /\ sure' = Matches(f, "claim", "old")
              /\ UNCHANGED <<data, journal, pc, mode, batch, todo, preserved, result,
                             environment, acked>>
           \/ Refuse("refused")
    BY <1>2 DEF RecoverPrepared
  <2> QED
    BY <1>2, <2>1, FindsRestored, MakesRoom, RefusedStep DEF RecoverPrepared, Looping
<1>3. CASE RestoreClaim
  <2>1. cur \in todo /\ pc = "undo"
    BY <1>3 DEF RestoreClaim, IInv, TypeOK, VisitTypes
  <2> QED
    BY <1>3, <2>1, Restores, RefusedStep DEF RestoreClaim
<1>4. CASE VerifyRestored
  BY <1>4, VerifiesRestored, RefusedStep DEF VerifyRestored
<1>5. CASE FinishRollback
  BY <1>5, FinishesRollback, RefusedStep DEF FinishRollback
<1> QED
  BY <1>1, <1>2, <1>3, <1>4, <1>5

LEMMA RedoStep ==
    ASSUME IInv, RecoverCommitted \/ RecoverSingleClaim \/ VerifyRecoveredClaim
    PROVE  IInv'
<1>1. CASE RecoverCommitted
  <2>1. PICK f \in todo :
           \/ /\ IF todo = {f} THEN GoTo("clean", batch) /\ UNCHANGED <<mode, preserved>>
                 ELSE Visited(f, "clean")
              /\ UNCHANGED <<disk, result, environment, acked>>
           \/ /\ Installable(f) /\ Link(f, "staged", "target")
              /\ UNCHANGED <<data, journal, visit, result, environment, acked>>
           \/ Refuse("refused")
    BY <1>1 DEF RecoverCommitted
  <2> QED
    BY <1>1, <2>1, FindsCommitted, InstallsCommitted, RefusedStep
       DEF RecoverCommitted, Looping
<1>2. CASE RecoverSingleClaim
  <2>1. PICK f \in todo :
           \/ /\ Exists(f, "target")
              /\ ~Exists(f, "claim") \/ Matches(f, "claim", "old")
              /\ GoTo("final", batch)
              /\ UNCHANGED <<disk, mode, preserved, result, environment, acked>>
           \/ /\ ~Exists(f, "target") /\ Link(f, "claim", "target") /\ cur' = f
              /\ UNCHANGED <<data, journal, pc, mode, batch, todo, sure, preserved,
                             result, environment, acked>>
           \/ Refuse("refused")
    BY <1>2 DEF RecoverSingleClaim
  <2> QED
    BY <1>2, <2>1, FindsOne, RecoversOne, RefusedStep DEF RecoverSingleClaim, Looping
<1>3. CASE VerifyRecoveredClaim
  <2>1. cur \in todo /\ pc = "redoOne"
    BY <1>3 DEF VerifyRecoveredClaim, IInv, TypeOK, VisitTypes
  <2> QED
    BY <1>3, <2>1, VerifiesRecoveredOne, RefusedStep DEF VerifyRecoveredClaim
<1> QED
  BY <1>1, <1>2, <1>3

LEMMA CleanStep ==
    ASSUME IInv, CleanUp \/ FinishOne \/ ClearJournal
    PROVE  IInv'
<1>1. CASE CleanUp
  <2>1. PICK f \in todo :
           \/ Owned(f, NextArtifact(f)) /\ Unlink(f, NextArtifact(f))
              /\ UNCHANGED <<data, journal, visit, result, environment, acked>>
           \/ Refuse("refused")
           \/ ~Exists(f, NextArtifact(f)) /\ Visited(f, "clear")
              /\ UNCHANGED <<disk, result, environment, acked>>
    BY <1>1 DEF CleanUp
  <2>2. NextArtifact(f) \in {"claim", "staged", "rollback"} /\ pc = "clean" /\ cur = None
    BY <1>1 DEF NextArtifact, CleanUp, Looping
  <2>3. CASE Owned(f, NextArtifact(f)) /\ Unlink(f, NextArtifact(f))
             /\ UNCHANGED <<data, journal, visit, result, environment, acked>>
    BY <2>2, <2>3, Removes
  <2>4. CASE Refuse("refused")
    BY <2>2, <2>4, RefusedStep
  <2>5. CASE ~Exists(f, NextArtifact(f)) /\ Visited(f, "clear")
             /\ UNCHANGED <<disk, result, environment, acked>>
    BY <2>2, <2>5, Cleans
  <2> QED
    BY <2>1, <2>3, <2>4, <2>5
<1>2. CASE FinishOne
  <2>1. PICK f \in todo :
           \/ \E n \in {"staged", "claim"} :
                 Unlink(f, n)
                 /\ UNCHANGED <<data, journal, visit, result, environment, acked>>
           \/ ~Exists(f, "claim") /\ journal' = NoJournal /\ End(Completed)
              /\ UNCHANGED <<dir, data, environment>>
    BY <1>2 DEF FinishOne
  <2> QED
    BY <1>2, <2>1, RemovesOne, EndsOne DEF FinishOne
<1> QED
  BY <1>1, <1>2, Clears

LEMMA RecoverStep ==
    ASSUME IInv, Recover
    PROVE  IInv'
BY UndoStep, RedoStep, CleanStep DEF Recover

LEMMA FaultStep ==
    ASSUME IInv, Fault \/ Crash
    PROVE  IInv'
<1>1. CASE Fault
  <2>1. faults' \in Nat /\ crashes' \in Nat /\ pc # "idle"
        /\ UNCHANGED <<crashes, edits, edited, owed>>
    BY <1>1 DEF Fault, IInv, TypeOK, OutcomeTypes
  <2>2. CASE HandleError /\ UNCHANGED <<disk, result, acked>>
    BY <2>1, <2>2, Fails
  <2>3. CASE \E f \in batch : /\ pc = "temp" /\ Unlink(f, "staged")
                              /\ End("failed") /\ UNCHANGED <<data, journal>>
    BY <2>1, <2>3, EndsUnstaged
  <2>4. CASE pc = "restore" /\ Unlink(cur, "staged") /\ Stopped("error")
             /\ UNCHANGED <<data, journal>>
    <3>1. cur \in batch
      BY <2>4 DEF IInv, Control, TypeOK, VisitTypes
    <3>2. End("error")
      BY <2>4 DEF Stopped
    <3> QED
      BY <2>1, <2>4, <3>1, <3>2, EndsUnstaged
  <2>5. CASE Stopped("error") /\ UNCHANGED disk
    BY <2>1, <2>5, StopsHere
  <2> QED
    BY <1>1, <2>2, <2>3, <2>4, <2>5 DEF Fault
<1>2. CASE Crash
  <2>1. faults' \in Nat /\ crashes' \in Nat
    BY <1>2 DEF Crash, IInv, TypeOK, OutcomeTypes
  <2> QED
    BY <1>2, <2>1, Ends DEF Crash
<1> QED
  BY <1>1, <1>2

LEMMA EditStep ==
    ASSUME IInv, NEW f \in Files, WriteOver(f) \/ Delete(f)
    PROVE  IInv'
<1>1. CASE WriteOver(f)
  BY <1>1, Truncates, Replaces DEF WriteOver
<1> QED
  BY <1>1, Deletes

LEMMA BeginStep ==
    ASSUME IInv, NEW files \in SUBSET Files, BeginSave(files)
    PROVE  IInv'
BY BeginsOne, BeginsBatch

LEMMA StutterStep ==
    ASSUME IInv, UNCHANGED vars
    PROVE  IInv'
<1> USE DEF vars, disk, visit, environment
<1>1. TypeOK'
  BY DEF IInv, TypeOK, DiskTypes, VisitTypes, OutcomeTypes
<1>2. Control' /\ AllOrNothing'
  BY DEF IInv, Control, AllOrNothing, Matches, Exists
<1>3. ASSUME NEW f \in Files
      PROVE  FileInv(f)'
  <2>1. FileInv(f)
    BY DEF IInv
  <2>2. Shape(f)' /\ Journalled(f)' /\ Kept(f)'
    BY <2>1, ShapeKept, JournalledKept, KeptKept DEF FileInv
  <2>3. f \in batch => SavingOne(f)' /\ SavingBatch(f)' /\ Undoing(f)'
    BY <2>1 DEF FileInv, SavingOne, SavingBatch, Undoing, Undone, Claimed, Saved, Matches,
                Exists
  <2> QED
    BY <2>2, <2>3 DEF FileInv
<1> QED
  BY <1>1, <1>2, <1>3 DEF IInv

LEMMA Invariance == Spec => []IInv
<1>1. Init => IInv
  BY InitInvariant
<1>2. IInv /\ [Next]_vars => IInv'
  <2> SUFFICES ASSUME IInv, [Next]_vars
               PROVE  IInv'
    OBVIOUS
  <2>1. CASE UNCHANGED vars
    BY <2>1, StutterStep
  <2>2. CASE Next
    BY <2>2, Recovers, SaveStep, RecoverStep, FaultStep, BeginStep, EditStep DEF Next
  <2> QED
    BY <2>1, <2>2
<1> QED
  BY <1>1, <1>2, PTL DEF Spec

(***************************************************************************)
(* What it proves.                                                         *)
(***************************************************************************)
\* A save or a recovery only works on files of its journal, and every path
\* names an inode of its own file.
THEOREM TypeCorrect == Spec => []TypeOK
<1>1. IInv => TypeOK
  BY DEF IInv
<1> QED
  BY <1>1, Invariance, PTL

\* Whatever crashes, fails or is edited in between, what another program wrote
\* to a source file is still in the file, its claim or its rollback.
THEOREM BytesKept == Spec => []ForeignBytesKept
<1>1. IInv => ForeignBytesKept
  BY DEF IInv, TypeOK, OutcomeTypes, FileInv, Kept, ForeignBytesKept, Names
<1> QED
  BY <1>1, Invariance, PTL

\* A folder without a journal holds all of the last save or none of it, other
\* programs' files excepted.
THEOREM NoMixLeft == Spec => []AllOrNothing
<1>1. IInv => AllOrNothing
  BY DEF IInv
<1> QED
  BY <1>1, Invariance, PTL

\* The revision a save replaces is there until the save is committed, and the
\* revision of a save that was reported stays.
THEOREM WantedRevisionsKept == Spec => []RevisionsKept
<1>1. ASSUME IInv
      PROVE  RevisionsKept
  <2> USE <1>1 DEF IInv
  <2>1. SavedRevisionStays
    <3> SUFFICES ASSUME NEW f \in acked \ edited
                 PROVE  Matches(f, "target", "new")
      BY DEF SavedRevisionStays
    <3>1. f \in Files
      BY DEF TypeOK, OutcomeTypes
    <3> QED
      BY <3>1, Constants DEF FileInv, Kept, Saved, Matches, Exists
  <2>2. BaselineKept
    <3> SUFFICES ASSUME journal.phase \in {"staging", "prepared"},
                        NEW f \in journal.files \ edited
                 PROVE  Matches(f, "target", "old") \/ Matches(f, "claim", "old")
      BY DEF BaselineKept
    <3>1. f \in Files
      BY DEF TypeOK, DiskTypes
    <3> QED
      BY <3>1, Constants DEF FileInv, Journalled, Shape, Matches, Exists
  <2> QED
    BY <2>1, <2>2 DEF RevisionsKept
<1> QED
  BY <1>1, Invariance, PTL
=============================================================================
