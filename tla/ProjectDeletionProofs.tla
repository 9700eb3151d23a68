------------------------- MODULE ProjectDeletionProofs -------------------------
(***************************************************************************)
(* Proofs about ProjectDeletion, for any number of crashes, failing calls  *)
(* and changes of other programs.                                          *)
(***************************************************************************)
EXTENDS ProjectDeletion, TLAPS

Settling == {"restore", "verify restored", "restored"}
Disposing == {"finalize", "look", "move", "trash", "clear"}
Staging == {"forget", "verify", "stage", "journal"}

\* What the caller's worker may be at, job by job.
JobSteps ==
    /\ pc["caller"] \in Staging => job = "begin"
    /\ pc["caller"] = "abort" => job = "abort"
    /\ pc["caller"] \in Settling => job \in {"abort", "rollback", "recover"}
    /\ pc["caller"] = "decide" => job = "commit"
    /\ pc["caller"] \in Disposing => job \in {"commit", "recover"}

\* Who works when: a window only while the app closes, a start only while it
\* recovers, and nobody may finish a deletion that is not begun yet.
Control ==
    /\ pc["window"] # "idle" => app = "closing"
    /\ app = "closing" => pc["caller"] \notin Staging /\ pc["caller"] # "abort"
    /\ app \in {"down", "recovered", "refused"} => pc["caller"] = "idle"
    /\ app \in {"recovering", "recovered"} => job = "recover"
    /\ job = "recover" /\ pc["caller"] # "idle" => app = "recovering"
    /\ begun => app = "up" /\ locked /\ job # "abort"
    /\ begun /\ pc["caller"] # "idle" => job \in {"rollback", "commit"}

Present(place) == tree[place] \in Versions

\* There is one copy of the folder.
OneCopy ==
    /\ \A p, q \in Places : Present(p) /\ Present(q) => p = q
    /\ \A p \in {"staged", "quarantine"} : tree[p] # Foreign

\* Where it is while a deletion may be undone, and that it is nowhere else when it
\* was sent to the trash.
Whereabouts ==
    /\ pc["caller"] \in Staging /\ pc["caller"] # "journal" => Present("root")
    /\ pc["caller"] \in Staging \cup {"abort"} => journal = "prepared"
    /\ \A w \in Workers : pc[w] = "restored" => Present("root")
    /\ pc["caller"] \in Disposing => journal \notin {"prepared", "staged"}
    /\ journal \in {"prepared", "staged"} => Present("root") \/ Present("staged")
    /\ trashed \subseteq {baseline}
    /\ trashed # {} => \A p \in Places : ~Present(p)

\* Who finds the journal of a deletion that may be undone, or must be finished.
Journal ==
    /\ app = "up" /\ journal \in {"prepared", "staged"} => locked
    /\ app = "recovered" => journal \notin {"prepared", "staged"}
    /\ begun => journal \in {"staged"} \cup Committed
    /\ app = "up" /\ pc["caller"] # "idle" => journal # None

Copies == OneCopy /\ Whereabouts /\ Journal

\* What is decided, unless a window went while its commit was running.
Decision ==
    ~abandoned =>
        /\ pc["caller"] \in Staging /\ pc["caller"] # "forget" => ~listed
        /\ pc["window"] # "idle" => pc["caller"] = "idle" \/ pc["caller"] \in Settling
        /\ \A w \in Workers : pc[w] \in Settling => ~Deleted
        /\ pc["caller"] \in Disposing => journal \in Committed
        /\ journal \in Committed => ~Present("root") /\ ~listed
        /\ pc["caller"] = "decide" => ~Present("root") /\ ~listed /\ journal = "staged"
        /\ begun /\ job = "begin" => journal = "staged" /\ ~Present("root") /\ ~listed

\* What is left when it is settled.
Settlement ==
    ~abandoned =>
        /\ \A w \in Workers : pc[w] = "restored" => listed
        /\ pc["caller"] = "trash" => ~Exists("staged")
        /\ pc["caller"] = "clear" => ~Exists("staged") /\ ~Exists("quarantine")
        /\ journal = None =>
               /\ ~Exists("staged") /\ ~Exists("quarantine")
               /\ listed <=> Present("root")
        /\ app = "up" /\ journal = None => (shown <=> listed)
        /\ app = "up" /\ job \in {"begin", "abort"} /\ pc["caller"] # "idle" => shown
        /\ app = "up" /\ job = "commit" => ~shown

Rest == JobSteps /\ Control /\ Copies /\ Decision /\ Settlement

IInv == TypeOK /\ Rest
-----------------------------------------------------------------------------
\* The values of the constants that the model tells apart.
LEMMA Values ==
    /\ None \notin Versions \cup Phases /\ Foreign \notin Versions /\ None # Foreign
    /\ 0 \in Versions
    /\ \A n \in Nat : n < MaxEdits => n + 1 \in Versions
BY ConstantsAssumption DEF Versions

LEMMA RenameTyped ==
    ASSUME DiskTypes, NEW from \in Places, NEW to \in Places, Rename(from, to)
    PROVE  tree' \in [Places -> Versions \cup {None, Foreign}]
BY DEF DiskTypes, Rename

LEMMA TypeInit == Init => TypeOK
<1> SUFFICES ASSUME Init PROVE TypeOK
  OBVIOUS
<1> USE Values
<1>1. DiskTypes
  BY DEF Init, DiskTypes
<1>2. WorkTypes
  BY DEF Init, WorkTypes, Workers, Steps
<1>3. MemoryTypes
  BY DEF Init, MemoryTypes
<1> QED
  BY <1>1, <1>2, <1>3 DEF TypeOK

LEMMA DiskStep == DiskTypes /\ MemoryTypes /\ [Next]_vars => DiskTypes'
<1> SUFFICES ASSUME DiskTypes, MemoryTypes, [Next]_vars
             PROVE  DiskTypes'
  OBVIOUS
<1> USE DEF DiskTypes, Phases
<1>1. CASE Begin
  BY <1>1 DEF Begin, At, Goto, disk, memory, renderer, environment, history, vars
<1>2. CASE Forget
  BY <1>2 DEF Forget, At, Goto, disk, memory, renderer, environment, history, vars
<1>3. CASE VerifyRoot
  BY <1>3 DEF VerifyRoot, At, Goto, Intact, Fails, Conflict, Error, Answers, disk,
    memory, renderer, environment, history, vars
<1>4. CASE Stage
  BY <1>4, RenameTyped DEF Places, Stage, disk, history
<1>5. CASE WriteStaged
  BY <1>5 DEF WriteStaged, At, Goto, Intact, Fails, Conflict, Error, Answers, disk,
    memory, renderer, environment, history, vars
<1>6. CASE AbortUnstaged
  BY <1>6 DEF AbortUnstaged, At, Goto, Exists, disk, memory, renderer, environment,
    history, vars
<1>7. ASSUME NEW w \in Workers, Restore(w) PROVE DiskTypes'
  BY <1>7, RenameTyped DEF Places, Restore, Conflict, Error, disk, history
<1>8. ASSUME NEW w \in Workers, Relist(w) PROVE DiskTypes'
  BY <1>8 DEF Relist, At, Goto, Intact, Fails, Conflict, Error, Answers, disk, memory,
    renderer, environment, history, vars
<1>9. ASSUME NEW w \in Workers, Restored(w) PROVE DiskTypes'
  BY <1>9 DEF Restored, At, Goto, disk, memory, renderer, environment, history, vars
<1>10. CASE Decide
  BY <1>10 DEF Decide, At, Goto, disk, memory, renderer, environment, history, vars
<1>11. CASE Finalize
  BY <1>11 DEF Finalize, At, Goto, Verifies, Cleanable, Exists, Intact, Fails,
    Conflict, Error, Answers, disk, memory, renderer, environment, history, vars
<1>12. CASE Look
  BY <1>12 DEF Look, At, Goto, Exists, Intact, Fails, Conflict, Error, Answers, disk,
    memory, renderer, environment, history, vars
<1>13. CASE MoveAside
  BY <1>13, RenameTyped DEF Places, MoveAside, Fails, disk, history
<1>14. CASE Trash
  BY <1>14 DEF Trash, At, Goto, Intact, Fails, Conflict, Error, Answers, disk, memory,
    renderer, environment, history, vars
<1>15. CASE Finalized
  BY <1>15 DEF Finalized, At, Goto, Answers, disk, memory, renderer, environment,
    history, vars
<1>16. CASE Retire
  BY <1>16 DEF Retire, At, disk, memory, renderer, environment, history, vars
<1>17. CASE Commit
  BY <1>17 DEF Commit, At, Goto, disk, memory, renderer, environment, history, vars
<1>18. CASE Rollback
  BY <1>18 DEF Rollback, At, Goto, disk, memory, renderer, environment, history, vars
<1>19. CASE Abandon
  BY <1>19 DEF Abandon, At, Goto, disk, memory, renderer, environment, history, vars
<1>20. CASE StartRecovery
  BY <1>20 DEF StartRecovery, At, Goto, disk, memory, renderer, environment, history,
    vars
<1>21. CASE LoadStories
  BY <1>21 DEF LoadStories, Exists, disk, memory, renderer, environment, history, vars
<1>22. CASE Crash
  BY <1>22 DEF Crash, Stop, disk, memory, renderer, environment, history, vars
<1>23. CASE Exit
  BY <1>23 DEF Exit, Stop, disk, memory, renderer, environment, history, vars
<1>24. ASSUME NEW w \in Workers, Fault(w) PROVE DiskTypes'
  BY <1>24 DEF Fault, At, FaultKind, Fails, Conflict, Error, Answers, Goto, disk,
    memory, renderer, environment, history, vars
<1>25. ASSUME NEW place \in Places, Edit(place) PROVE DiskTypes'
  BY <1>25, Values DEF MemoryTypes, Edit, history
<1>26. CASE UNCHANGED vars
  BY <1>26 DEF disk, memory, renderer, environment, history, vars
<1> QED
  BY <1>1, <1>2, <1>3, <1>4, <1>5, <1>6, <1>7, <1>8, <1>9, <1>10, <1>11, <1>12, <1>13,
    <1>14, <1>15, <1>16, <1>17, <1>18, <1>19, <1>20, <1>21, <1>22, <1>23, <1>24,
    <1>25, <1>26 DEF Next, Work

LEMMA WorkStep == WorkTypes /\ [Next]_vars => WorkTypes'
<1> SUFFICES ASSUME WorkTypes, [Next]_vars
             PROVE  WorkTypes'
  OBVIOUS
<1> USE DEF WorkTypes, Workers, Steps
<1>1. CASE Begin
  BY <1>1 DEF Begin, At, Goto, disk, memory, renderer, environment, history, vars
<1>2. CASE Forget
  BY <1>2 DEF Forget, At, Goto, disk, memory, renderer, environment, history, vars
<1>3. CASE VerifyRoot
  BY <1>3 DEF VerifyRoot, At, Goto, Intact, Fails, Conflict, Error, Answers, disk,
    memory, renderer, environment, history, vars
<1>4. CASE Stage
  BY <1>4 DEF Stage, At, Goto, Rename, disk, memory, renderer, environment, history,
    vars
<1>5. CASE WriteStaged
  BY <1>5 DEF WriteStaged, At, Goto, Intact, Fails, Conflict, Error, Answers, disk,
    memory, renderer, environment, history, vars
<1>6. CASE AbortUnstaged
  BY <1>6 DEF AbortUnstaged, At, Goto, Exists, disk, memory, renderer, environment,
    history, vars
<1>7. ASSUME NEW w \in Workers, Restore(w) PROVE WorkTypes'
  <2>1. CASE Error(w) \/ Conflict(w)
    BY <2>1 DEF Error, Conflict, Fails, Goto, Answers, memory, renderer
  <2>2. CASE ~(Error(w) \/ Conflict(w))
    BY <1>7, <2>2 DEF Restore, Goto, memory, renderer
  <2> QED
    BY <2>1, <2>2
<1>8. ASSUME NEW w \in Workers, Relist(w) PROVE WorkTypes'
  BY <1>8 DEF Relist, At, Goto, Intact, Fails, Conflict, Error, Answers, disk, memory,
    renderer, environment, history, vars
<1>9. ASSUME NEW w \in Workers, Restored(w) PROVE WorkTypes'
  BY <1>9 DEF Restored, At, Goto, disk, memory, renderer, environment, history, vars
<1>10. CASE Decide
  BY <1>10 DEF Decide, At, Goto, disk, memory, renderer, environment, history, vars
<1>11. CASE Finalize
  BY <1>11 DEF Finalize, At, Goto, Verifies, Cleanable, Exists, Intact, Fails,
    Conflict, Error, Answers, disk, memory, renderer, environment, history, vars
<1>12. CASE Look
  BY <1>12 DEF Look, At, Goto, Exists, Intact, Fails, Conflict, Error, Answers, disk,
    memory, renderer, environment, history, vars
<1>13. CASE MoveAside
  BY <1>13 DEF MoveAside, At, Goto, Exists, Rename, Fails, Conflict, Error, Answers,
    disk, memory, renderer, environment, history, vars
<1>14. CASE Trash
  BY <1>14 DEF Trash, At, Goto, Intact, Fails, Conflict, Error, Answers, disk, memory,
    renderer, environment, history, vars
<1>15. CASE Finalized
  BY <1>15 DEF Finalized, At, Goto, Answers, disk, memory, renderer, environment,
    history, vars
<1>16. CASE Retire
  BY <1>16 DEF Retire, At, disk, memory, renderer, environment, history, vars
<1>17. CASE Commit
  BY <1>17 DEF Commit, At, Goto, disk, memory, renderer, environment, history, vars
<1>18. CASE Rollback
  BY <1>18 DEF Rollback, At, Goto, disk, memory, renderer, environment, history, vars
<1>19. CASE Abandon
  BY <1>19 DEF Abandon, At, Goto, disk, memory, renderer, environment, history, vars
<1>20. CASE StartRecovery
  BY <1>20 DEF StartRecovery, At, Goto, disk, memory, renderer, environment, history,
    vars
<1>21. CASE LoadStories
  BY <1>21 DEF LoadStories, Exists, disk, memory, renderer, environment, history, vars
<1>22. CASE Crash
  BY <1>22 DEF Crash, Stop, disk, memory, renderer, environment, history, vars
<1>23. CASE Exit
  BY <1>23 DEF Exit, Stop, disk, memory, renderer, environment, history, vars
<1>24. ASSUME NEW w \in Workers, Fault(w) PROVE WorkTypes'
  BY <1>24 DEF Fault, At, FaultKind, Fails, Conflict, Error, Answers, Goto, disk,
    memory, renderer, environment, history, vars
<1>25. ASSUME NEW place \in Places, Edit(place) PROVE WorkTypes'
  BY <1>25 DEF Edit, Exists, disk, memory, renderer, environment, history, vars
<1>26. CASE UNCHANGED vars
  BY <1>26 DEF disk, memory, renderer, environment, history, vars
<1> QED
  BY <1>1, <1>2, <1>3, <1>4, <1>5, <1>6, <1>7, <1>8, <1>9, <1>10, <1>11, <1>12, <1>13,
    <1>14, <1>15, <1>16, <1>17, <1>18, <1>19, <1>20, <1>21, <1>22, <1>23, <1>24,
    <1>25, <1>26 DEF Next, Work

LEMMA MemoryStep == DiskTypes /\ MemoryTypes /\ [Next]_vars => MemoryTypes'
<1> SUFFICES ASSUME DiskTypes, MemoryTypes, [Next]_vars
             PROVE  MemoryTypes'
  OBVIOUS
<1> USE DEF DiskTypes, MemoryTypes
<1>1. CASE Begin
  BY <1>1 DEF Begin, At, Goto, disk, memory, renderer, environment, history, vars
<1>2. CASE Forget
  BY <1>2 DEF Forget, At, Goto, disk, memory, renderer, environment, history, vars
<1>3. CASE VerifyRoot
  BY <1>3 DEF VerifyRoot, At, Goto, Intact, Fails, Conflict, Error, Answers, disk,
    memory, renderer, environment, history, vars
<1>4. CASE Stage
  BY <1>4 DEF Stage, At, Goto, Rename, disk, memory, renderer, environment, history,
    vars
<1>5. CASE WriteStaged
  BY <1>5 DEF WriteStaged, At, Goto, Intact, Fails, Conflict, Error, Answers, disk,
    memory, renderer, environment, history, vars
<1>6. CASE AbortUnstaged
  BY <1>6 DEF AbortUnstaged, At, Goto, Exists, disk, memory, renderer, environment,
    history, vars
<1>7. ASSUME NEW w \in Workers, Restore(w) PROVE MemoryTypes'
  BY <1>7 DEF Restore, At, Goto, Exists, Intact, Restorable, Rename, Fails, Conflict,
    Error, Answers, disk, memory, renderer, environment, history, vars
<1>8. ASSUME NEW w \in Workers, Relist(w) PROVE MemoryTypes'
  BY <1>8 DEF Relist, At, Goto, Intact, Fails, Conflict, Error, Answers, disk, memory,
    renderer, environment, history, vars
<1>9. ASSUME NEW w \in Workers, Restored(w) PROVE MemoryTypes'
  BY <1>9 DEF Restored, At, Goto, disk, memory, renderer, environment, history, vars
<1>10. CASE Decide
  BY <1>10 DEF Decide, At, Goto, disk, memory, renderer, environment, history, vars
<1>11. CASE Finalize
  BY <1>11 DEF Finalize, At, Goto, Verifies, Cleanable, Exists, Intact, Fails,
    Conflict, Error, Answers, disk, memory, renderer, environment, history, vars
<1>12. CASE Look
  BY <1>12 DEF Look, At, Goto, Exists, Intact, Fails, Conflict, Error, Answers, disk,
    memory, renderer, environment, history, vars
<1>13. CASE MoveAside
  BY <1>13 DEF MoveAside, At, Goto, Exists, Rename, Fails, Conflict, Error, Answers,
    disk, memory, renderer, environment, history, vars
<1>14. CASE Trash
  BY <1>14 DEF Trash, At, Goto, Intact, Fails, Conflict, Error, Answers, disk, memory,
    renderer, environment, history, vars
<1>15. CASE Finalized
  BY <1>15 DEF Finalized, At, Goto, Answers, disk, memory, renderer, environment,
    history, vars
<1>16. CASE Retire
  BY <1>16 DEF Retire, At, disk, memory, renderer, environment, history, vars
<1>17. CASE Commit
  BY <1>17 DEF Commit, At, Goto, disk, memory, renderer, environment, history, vars
<1>18. CASE Rollback
  BY <1>18 DEF Rollback, At, Goto, disk, memory, renderer, environment, history, vars
<1>19. CASE Abandon
  BY <1>19 DEF Abandon, At, Goto, disk, memory, renderer, environment, history, vars
<1>20. CASE StartRecovery
  BY <1>20 DEF StartRecovery, At, Goto, disk, memory, renderer, environment, history,
    vars
<1>21. CASE LoadStories
  BY <1>21 DEF LoadStories, Exists, disk, memory, renderer, environment, history, vars
<1>22. CASE Crash
  <2>1. crashes' \in Nat
    BY <1>22 DEF Crash
  <2> QED
    BY <1>22, <2>1 DEF Crash, Stop, history
<1>23. CASE Exit
  BY <1>23 DEF Exit, Stop, disk, memory, renderer, environment, history, vars
<1>24. ASSUME NEW w \in Workers, Fault(w) PROVE MemoryTypes'
  <2>1. faults' \in Nat
    BY <1>24 DEF Fault
  <2> QED
    BY <1>24, <2>1 DEF Fault, Fails, memory, renderer, history
<1>25. ASSUME NEW place \in Places, Edit(place) PROVE MemoryTypes'
  <2>1. edits' \in Nat
    BY <1>25 DEF Edit
  <2> QED
    BY <1>25, <2>1 DEF Edit, memory, renderer, history
<1>26. CASE UNCHANGED vars
  BY <1>26 DEF disk, memory, renderer, environment, history, vars
<1> QED
  BY <1>1, <1>2, <1>3, <1>4, <1>5, <1>6, <1>7, <1>8, <1>9, <1>10, <1>11, <1>12, <1>13,
    <1>14, <1>15, <1>16, <1>17, <1>18, <1>19, <1>20, <1>21, <1>22, <1>23, <1>24,
    <1>25, <1>26 DEF Next, Work

LEMMA TypeStep == TypeOK /\ [Next]_vars => TypeOK'
BY DiskStep, WorkStep, MemoryStep DEF TypeOK
-----------------------------------------------------------------------------
(***************************************************************************)
(* Each action keeps the invariant: first what the step changes, then one  *)
(* part of the invariant after the other.  Where an action may fail, the   *)
(* lemma is about its success.                                             *)
(***************************************************************************)
LEMMA BeginStep ==
    ASSUME IInv, Begin
    PROVE  Rest'
<1> USE Values DEF IInv, Rest, TypeOK, WorkTypes, Workers, Steps, Copies, Phases
<1>1. /\ app = "up" /\ shown /\ ~locked /\ pc["caller"] = "idle"
      /\ tree["root"] \in Versions
      /\ pc'["caller"] = "forget" /\ pc'["window"] = pc["window"]
      /\ journal' = "prepared"
      /\ baseline' = tree["root"]
      /\ locked' = TRUE
      /\ job' = "begin"
      /\ UNCHANGED <<tree, listed, begun, app, shown, told, trashed, abandoned>>
  BY Values DEF Begin, At, Goto, Places, DiskTypes, disk, memory, renderer,
    environment, history
<1>2. JobSteps'
  BY <1>1 DEF JobSteps, Settling, Disposing, Staging
<1>3. Control'
  BY <1>1 DEF Control
<1>4. OneCopy'
  BY <1>1 DEF OneCopy, Present
<1>5. Whereabouts'
  BY <1>1 DEF Whereabouts, OneCopy, Present, Places, Staging, Disposing, Committed
<1>6. Journal'
  BY <1>1 DEF Journal, Committed, Control
<1>7. Decision'
  BY <1>1 DEF Decision, Deleted, Present, Settling, Disposing, Staging, Committed,
    Control, JobSteps, Journal, Whereabouts
<1>8. Settlement'
  BY <1>1 DEF Settlement
<1> QED
  BY <1>2, <1>3, <1>4, <1>5, <1>6, <1>7, <1>8 DEF Rest

LEMMA ForgetStep ==
    ASSUME IInv, Forget
    PROVE  Rest'
<1> USE Values DEF IInv, Rest, TypeOK, WorkTypes, Workers, Steps, Copies, Phases
<1>1. /\ pc["caller"] = "forget"
      /\ pc'["caller"] = "verify" /\ pc'["window"] = pc["window"]
      /\ listed' = FALSE
      /\ UNCHANGED <<tree, journal, baseline, locked, begun, job, app, shown, told,
        trashed, abandoned>>
  BY Values DEF Forget, At, Goto, Places, DiskTypes, disk, memory, renderer,
    environment, history
<1>2. JobSteps'
  BY <1>1 DEF JobSteps, Settling, Disposing, Staging
<1>3. Control'
  BY <1>1 DEF Control, Settling, Disposing, Staging
<1>4. OneCopy'
  BY <1>1 DEF OneCopy, Present
<1>5. Whereabouts'
  BY <1>1 DEF Whereabouts, Present, Staging, Disposing
<1>6. Journal'
  BY <1>1 DEF Journal
<1>7. Decision'
  BY <1>1 DEF Decision, Deleted, Present, Settling, Disposing, Staging, Committed
<1>8. Settlement'
  BY <1>1 DEF Settlement, Decision, OneCopy, Whereabouts, Journal, Control, JobSteps,
    Deleted, Present, Exists, Intact, Restorable, Settling, Disposing, Staging,
    Places, Committed, DiskTypes, MemoryTypes
<1> QED
  BY <1>2, <1>3, <1>4, <1>5, <1>6, <1>7, <1>8 DEF Rest

LEMMA VerifyRootStep ==
    ASSUME IInv, VerifyRoot, ~Conflict("caller")
    PROVE  Rest'
<1> USE Values DEF IInv, Rest, TypeOK, WorkTypes, Workers, Steps, Copies, Phases
<1>1. /\ pc["caller"] = "verify"
      /\ pc'["caller"] = "stage" /\ pc'["window"] = pc["window"]
      /\ UNCHANGED <<tree, journal, baseline, listed, locked, begun, job, app, shown,
        told, trashed, abandoned>>
  BY Values DEF VerifyRoot, At, Goto, Places, DiskTypes, disk, memory, renderer,
    environment, history
<1>2. JobSteps'
  BY <1>1 DEF JobSteps, Settling, Disposing, Staging
<1>3. Control'
  BY <1>1 DEF Control, Settling, Disposing, Staging
<1>4. OneCopy'
  BY <1>1 DEF OneCopy, Present
<1>5. Whereabouts'
  BY <1>1 DEF Whereabouts, Present, Staging, Disposing
<1>6. Journal'
  BY <1>1 DEF Journal
<1>7. Decision'
  BY <1>1 DEF Decision, Deleted, Present, Settling, Disposing, Staging, Committed
<1>8. Settlement'
  BY <1>1 DEF Settlement, Exists, Present, Control
<1> QED
  BY <1>2, <1>3, <1>4, <1>5, <1>6, <1>7, <1>8 DEF Rest

LEMMA StageStep ==
    ASSUME IInv, Stage
    PROVE  Rest'
<1> USE Values DEF IInv, Rest, TypeOK, WorkTypes, Workers, Steps, Copies, Phases
<1>1. /\ pc["caller"] = "stage"
      /\ tree'["root"] = None
      /\ tree'["staged"] = tree["root"]
      /\ tree'["quarantine"] = tree["quarantine"]
      /\ pc'["caller"] = "journal" /\ pc'["window"] = pc["window"]
      /\ UNCHANGED <<journal, baseline, listed, locked, begun, job, app, shown, told,
        trashed, abandoned>>
  BY Values DEF Stage, At, Goto, Rename, Places, DiskTypes, disk, memory, renderer,
    environment, history
<1>2. JobSteps'
  BY <1>1 DEF JobSteps, Settling, Disposing, Staging
<1>3. Control'
  BY <1>1 DEF Control, Settling, Disposing, Staging
<1>4. OneCopy'
  BY <1>1 DEF OneCopy, Whereabouts, Staging, Present, Places
<1>5. Whereabouts'
  BY <1>1 DEF Whereabouts, OneCopy, Present, Intact, Places, Staging, Settling,
    Disposing, Committed, Control
<1>6. Journal'
  BY <1>1 DEF Journal
<1>7. Decision'
  BY <1>1 DEF Decision, Deleted, Present, Settling, Disposing, Staging, Committed
<1>8. Settlement'
  BY <1>1 DEF Settlement, Decision, OneCopy, Whereabouts, Journal, Control, JobSteps,
    Deleted, Present, Exists, Intact, Restorable, Settling, Disposing, Staging,
    Places, Committed, DiskTypes, MemoryTypes
<1> QED
  BY <1>2, <1>3, <1>4, <1>5, <1>6, <1>7, <1>8 DEF Rest

LEMMA WriteStagedStep ==
    ASSUME IInv, WriteStaged, ~Conflict("caller")
    PROVE  Rest'
<1> USE Values DEF IInv, Rest, TypeOK, WorkTypes, Workers, Steps, Copies, Phases
<1>1. /\ pc["caller"] = "journal"
      /\ Intact("staged")
      /\ pc'["caller"] = "idle" /\ pc'["window"] = pc["window"]
      /\ journal' = "staged"
      /\ begun' = TRUE
      /\ UNCHANGED <<tree, baseline, listed, locked, job, app, shown, told, trashed,
        abandoned>>
  BY Values DEF WriteStaged, At, Goto, Places, DiskTypes, disk, memory, renderer,
    environment, history
<1>2. JobSteps'
  BY <1>1 DEF JobSteps, Settling, Disposing, Staging
<1>3. Control'
  BY <1>1 DEF Control, JobSteps, Journal, Whereabouts, Settling, Disposing, Staging
<1>4. OneCopy'
  BY <1>1 DEF OneCopy, Present
<1>5. Whereabouts'
  BY <1>1 DEF Whereabouts, Present, Staging, Disposing
<1>6. Journal'
  BY <1>1 DEF Journal, Committed, Control, Staging, Settling, Disposing, Whereabouts
<1>7. Decision'
  BY <1>1 DEF Decision, OneCopy, Whereabouts, Journal, Control, JobSteps, Deleted,
    Present, Exists, Intact, Restorable, Settling, Disposing, Staging, Places,
    Committed, DiskTypes
<1>8. Settlement'
  BY <1>1 DEF Settlement
<1> QED
  BY <1>2, <1>3, <1>4, <1>5, <1>6, <1>7, <1>8 DEF Rest

LEMMA AbortUnstagedStep ==
    ASSUME IInv, AbortUnstaged
    PROVE  Rest'
<1> USE Values DEF IInv, Rest, TypeOK, WorkTypes, Workers, Steps, Copies, Phases
<1>1. /\ pc["caller"] = "abort"
      /\ pc'["window"] = pc["window"]
      /\ \/ Exists("root") /\ ~Exists("staged") /\ listed' = TRUE /\ pc'["caller"] = "restored"
         \/ listed' = listed /\ pc'["caller"] = "restore"
      /\ UNCHANGED <<tree, journal, baseline, locked, begun, job, app, shown, told,
        trashed, abandoned>>
  BY Values DEF AbortUnstaged, At, Goto, Places, DiskTypes, disk, memory, renderer,
    environment, history
<1>2. JobSteps'
  BY <1>1 DEF JobSteps, Settling, Disposing, Staging
<1>3. Control'
  BY <1>1 DEF Control
<1>4. OneCopy'
  BY <1>1 DEF OneCopy, Present
<1>5. Whereabouts'
  BY <1>1 DEF OneCopy, Whereabouts, Control, JobSteps, Present, Intact, Exists,
    Settling, Disposing, Staging, Places, Committed, DiskTypes
<1>6. Journal'
  BY <1>1 DEF Journal
<1>7. Decision'
  BY <1>1 DEF Decision, Deleted, Present, Settling, Disposing, Staging, Committed,
    Control, JobSteps, Journal, Whereabouts
<1>8. Settlement'
  BY <1>1 DEF Settlement, Decision, OneCopy, Whereabouts, Journal, Control, JobSteps,
    Deleted, Present, Exists, Intact, Restorable, Settling, Disposing, Staging,
    Places, Committed, DiskTypes, MemoryTypes
<1> QED
  BY <1>2, <1>3, <1>4, <1>5, <1>6, <1>7, <1>8 DEF Rest

LEMMA DecideStep ==
    ASSUME IInv, Decide
    PROVE  Rest'
<1> USE Values DEF IInv, Rest, TypeOK, WorkTypes, Workers, Steps, Copies, Phases
<1>1. /\ pc["caller"] = "decide"
      /\ pc'["caller"] = "finalize" /\ pc'["window"] = pc["window"]
      /\ journal' = "renderer-committed"
      /\ UNCHANGED <<tree, baseline, listed, locked, begun, job, app, shown, told,
        trashed, abandoned>>
  BY Values DEF Decide, At, Goto, Places, DiskTypes, disk, memory, renderer,
    environment, history
<1>2. JobSteps'
  BY <1>1 DEF JobSteps, Settling, Disposing, Staging
<1>3. Control'
  BY <1>1 DEF Control, Settling, Disposing, Staging
<1>4. OneCopy'
  BY <1>1 DEF OneCopy, Present
<1>5. Whereabouts'
  BY <1>1 DEF Whereabouts, Present, Staging, Disposing
<1>6. Journal'
  BY <1>1 DEF Journal, Committed, Control
<1>7. Decision'
  BY <1>1 DEF Decision, Deleted, Present, Settling, Disposing, Staging, Committed,
    Control, JobSteps, Journal, Whereabouts
<1>8. Settlement'
  BY <1>1 DEF Settlement
<1> QED
  BY <1>2, <1>3, <1>4, <1>5, <1>6, <1>7, <1>8 DEF Rest

LEMMA FinalizeStep ==
    ASSUME IInv, Finalize, ~Conflict("caller")
    PROVE  Rest'
<1> USE Values DEF IInv, Rest, TypeOK, WorkTypes, Workers, Steps, Copies, Phases
<1>1. /\ pc["caller"] = "finalize"
      /\ pc'["caller"] = "look" /\ pc'["window"] = pc["window"]
      /\ journal' \in {journal, "cleanup-verified"}
      /\ UNCHANGED <<tree, baseline, listed, locked, begun, job, app, shown, told,
        trashed, abandoned>>
  BY Values DEF Finalize, At, Goto, Places, DiskTypes, disk, memory, renderer,
    environment, history
<1>2. JobSteps'
  BY <1>1 DEF JobSteps, Settling, Disposing, Staging
<1>3. Control'
  BY <1>1 DEF Control, Settling, Disposing, Staging
<1>4. OneCopy'
  BY <1>1 DEF OneCopy, Present
<1>5. Whereabouts'
  BY <1>1 DEF Whereabouts, Present, Staging, Disposing
<1>6. Journal'
  BY <1>1 DEF Journal, Committed, Control
<1>7. Decision'
  BY <1>1 DEF Decision, Deleted, Present, Settling, Disposing, Staging, Committed
<1>8. Settlement'
  BY <1>1 DEF Settlement, Exists, Present, Control
<1> QED
  BY <1>2, <1>3, <1>4, <1>5, <1>6, <1>7, <1>8 DEF Rest

LEMMA LookStep ==
    ASSUME IInv, Look, ~Conflict("caller")
    PROVE  Rest'
<1> USE Values DEF IInv, Rest, TypeOK, WorkTypes, Workers, Steps, Copies, Phases
<1>1. /\ pc["caller"] = "look"
      /\ pc'["window"] = pc["window"]
      /\ \/ Exists("staged") /\ ~Exists("quarantine") /\ pc'["caller"] = "move"
         \/ ~Exists("staged") /\ Exists("quarantine") /\ pc'["caller"] = "trash"
         \/ ~Exists("staged") /\ ~Exists("quarantine") /\ pc'["caller"] = "clear"
      /\ UNCHANGED <<tree, journal, baseline, listed, locked, begun, job, app, shown,
        told, trashed, abandoned>>
  BY Values DEF Look, At, Goto, Places, DiskTypes, disk, memory, renderer,
    environment, history
<1>2. JobSteps'
  BY <1>1 DEF JobSteps, Settling, Disposing, Staging
<1>3. Control'
  BY <1>1 DEF Control, Settling, Disposing, Staging
<1>4. OneCopy'
  BY <1>1 DEF OneCopy, Present
<1>5. Whereabouts'
  BY <1>1 DEF Whereabouts, Present, Staging, Disposing
<1>6. Journal'
  BY <1>1 DEF Journal
<1>7. Decision'
  BY <1>1 DEF Decision, Deleted, Present, Settling, Disposing, Staging, Committed
<1>8. Settlement'
  BY <1>1 DEF Settlement, Exists, Present, Control
<1> QED
  BY <1>2, <1>3, <1>4, <1>5, <1>6, <1>7, <1>8 DEF Rest

LEMMA MoveAsideStep ==
    ASSUME IInv, MoveAside, Exists("staged")
    PROVE  Rest'
<1> USE Values DEF IInv, Rest, TypeOK, WorkTypes, Workers, Steps, Copies, Phases
<1>1. /\ pc["caller"] = "move"
      /\ tree["staged"] # None
      /\ tree'["root"] = tree["root"]
      /\ tree'["staged"] = None
      /\ tree'["quarantine"] = tree["staged"]
      /\ pc'["caller"] = "trash" /\ pc'["window"] = pc["window"]
      /\ UNCHANGED <<journal, baseline, listed, locked, begun, job, app, shown, told,
        trashed, abandoned>>
  BY Values DEF MoveAside, At, Goto, Exists, Rename, Places, DiskTypes, disk, memory,
    renderer, environment, history
<1>2. JobSteps'
  BY <1>1 DEF JobSteps, Settling, Disposing, Staging
<1>3. Control'
  BY <1>1 DEF Control, Settling, Disposing, Staging
<1>4. OneCopy'
  BY <1>1 DEF OneCopy, Present, Places
<1>5. Whereabouts'
  BY <1>1 DEF Whereabouts, OneCopy, Present, Places, Staging, Disposing, Committed
<1>6. Journal'
  BY <1>1 DEF Journal
<1>7. Decision'
  BY <1>1 DEF Decision, Deleted, Present, Settling, Disposing, Staging, Committed
<1>8. Settlement'
  BY <1>1 DEF Settlement, Exists, Present, Control
<1> QED
  BY <1>2, <1>3, <1>4, <1>5, <1>6, <1>7, <1>8 DEF Rest

LEMMA TrashStep ==
    ASSUME IInv, Trash, ~Conflict("caller")
    PROVE  Rest'
<1> USE Values DEF IInv, Rest, TypeOK, WorkTypes, Workers, Steps, Copies, Phases
<1>1. /\ pc["caller"] = "trash"
      /\ tree["quarantine"] = baseline
      /\ tree'["root"] = tree["root"]
      /\ tree'["staged"] = tree["staged"]
      /\ tree'["quarantine"] = None
      /\ pc'["caller"] = "clear" /\ pc'["window"] = pc["window"]
      /\ trashed' = trashed \cup {baseline}
      /\ UNCHANGED <<journal, baseline, listed, locked, begun, job, app, shown, told,
        abandoned>>
  BY Values DEF Trash, At, Goto, Intact, Places, DiskTypes, disk, memory, renderer,
    environment, history
<1>2. JobSteps'
  BY <1>1 DEF JobSteps, Settling, Disposing, Staging
<1>3. Control'
  BY <1>1 DEF Control, Settling, Disposing, Staging
<1>4. OneCopy'
  BY <1>1 DEF OneCopy, Present, Places
<1>5. Whereabouts'
  BY <1>1 DEF OneCopy, Whereabouts, Control, JobSteps, Present, Intact, Exists,
    Settling, Disposing, Staging, Places, Committed, DiskTypes
<1>6. Journal'
  BY <1>1 DEF Journal
<1>7. Decision'
  BY <1>1 DEF Decision, Deleted, Present, Settling, Disposing, Staging, Committed
<1>8. Settlement'
  BY <1>1 DEF Settlement, Exists, Present, Control
<1> QED
  BY <1>2, <1>3, <1>4, <1>5, <1>6, <1>7, <1>8 DEF Rest

LEMMA FinalizedStep ==
    ASSUME IInv, Finalized
    PROVE  Rest'
<1> USE Values DEF IInv, Rest, TypeOK, WorkTypes, Workers, Steps, Copies, Phases
<1>1. /\ pc["caller"] = "clear"
      /\ pc'["caller"] = "idle" /\ pc'["window"] = pc["window"]
      /\ journal' = None
      /\ locked' = FALSE
      /\ \/ job = "commit" /\ begun' = FALSE /\ app' = app
         \/ job = "recover" /\ begun' = begun /\ app' = "recovered"
      /\ UNCHANGED <<tree, baseline, listed, job, shown, trashed, abandoned>>
  BY Values DEF Finalized, At, Goto, Answers, Places, DiskTypes, disk, memory,
    renderer, environment, history
<1>2. JobSteps'
  BY <1>1 DEF JobSteps, Settling, Disposing, Staging
<1>3. Control'
  <2>1. ~begun'
    BY <1>1 DEF Control, Disposing
  <2> QED
    BY <2>1, <1>1 DEF Control, JobSteps, Settling, Disposing, Staging
<1>4. OneCopy'
  BY <1>1 DEF OneCopy, Present
<1>5. Whereabouts'
  BY <1>1 DEF Whereabouts, Present, Staging, Disposing
<1>6. Journal'
  <2>1. ~begun'
    BY <1>1 DEF Control, Disposing
  <2> QED
    BY <2>1, <1>1 DEF Journal, Whereabouts, Control, JobSteps, Settling, Disposing,
      Staging, Committed
<1>7. Decision'
  BY <1>1 DEF Decision, Deleted, Present, Settling, Disposing, Staging, Committed
<1>8. Settlement'
  BY <1>1 DEF Settlement, Exists, Present, Control, Journal, Decision, Deleted,
    Disposing, Settling, Staging, Committed
<1> QED
  BY <1>2, <1>3, <1>4, <1>5, <1>6, <1>7, <1>8 DEF Rest

LEMMA RetireStep ==
    ASSUME IInv, Retire
    PROVE  Rest'
<1> USE Values DEF IInv, Rest, TypeOK, WorkTypes, Workers, Steps, Copies, Phases
<1>1. /\ app = "up" /\ begun /\ job = "begin" /\ pc["caller"] = "idle"
      /\ shown' = FALSE
      /\ UNCHANGED <<tree, pc, journal, baseline, listed, locked, begun, job, app, told,
        trashed, abandoned>>
  BY Values DEF Retire, At, Places, DiskTypes, disk, memory, renderer, environment,
    history
<1>2. JobSteps'
  BY <1>1 DEF JobSteps, Settling, Disposing, Staging
<1>3. Control'
  BY <1>1 DEF Control
<1>4. OneCopy'
  BY <1>1 DEF OneCopy, Present
<1>5. Whereabouts'
  BY <1>1 DEF Whereabouts, Present, Staging, Disposing
<1>6. Journal'
  BY <1>1 DEF Journal
<1>7. Decision'
  BY <1>1 DEF Decision, Deleted, Present, Settling, Disposing, Staging, Committed
<1>8. Settlement'
  BY <1>1 DEF Settlement, Exists, Present, Control, Journal, Decision, Deleted,
    Disposing, Settling, Staging, Committed
<1> QED
  BY <1>2, <1>3, <1>4, <1>5, <1>6, <1>7, <1>8 DEF Rest

LEMMA CommitStep ==
    ASSUME IInv, Commit
    PROVE  Rest'
<1> USE Values DEF IInv, Rest, TypeOK, WorkTypes, Workers, Steps, Copies, Phases
<1>1. /\ app = "up" /\ begun /\ ~shown /\ job = "begin" /\ pc["caller"] = "idle"
      /\ journal = "staged"
      /\ pc'["caller"] = "decide" /\ pc'["window"] = pc["window"]
      /\ job' = "commit"
      /\ UNCHANGED <<tree, journal, baseline, listed, locked, begun, app, shown, told,
        trashed, abandoned>>
  BY Values DEF Commit, At, Goto, Places, DiskTypes, disk, memory, renderer,
    environment, history
<1>2. JobSteps'
  BY <1>1 DEF JobSteps, Settling, Disposing, Staging
<1>3. Control'
  BY <1>1 DEF Control
<1>4. OneCopy'
  BY <1>1 DEF OneCopy, Present
<1>5. Whereabouts'
  BY <1>1 DEF Whereabouts, Present, Staging, Disposing
<1>6. Journal'
  BY <1>1 DEF Journal
<1>7. Decision'
  BY <1>1 DEF Decision, Deleted, Present, Settling, Disposing, Staging, Committed,
    Control, JobSteps, Journal, Whereabouts
<1>8. Settlement'
  BY <1>1 DEF Settlement
<1> QED
  BY <1>2, <1>3, <1>4, <1>5, <1>6, <1>7, <1>8 DEF Rest

LEMMA RollbackStep ==
    ASSUME IInv, Rollback
    PROVE  Rest'
<1> USE Values DEF IInv, Rest, TypeOK, WorkTypes, Workers, Steps, Copies, Phases
<1>1. /\ app = "up" /\ begun /\ pc["caller"] = "idle" /\ pc["window"] = "idle"
      /\ job # "rollback"
      /\ pc'["window"] = pc["window"]
      /\ \/ journal \in Committed /\ pc'["caller"] = pc["caller"]
         \/ journal \notin Committed /\ pc'["caller"] = "restore"
      /\ job' = "rollback"
      /\ UNCHANGED <<tree, journal, baseline, listed, locked, begun, app, shown, told,
        trashed, abandoned>>
  BY Values DEF Rollback, At, Goto, Places, DiskTypes, disk, memory, renderer,
    environment, history
<1>2. JobSteps'
  BY <1>1 DEF JobSteps, Settling, Disposing, Staging
<1>3. Control'
  BY <1>1 DEF Control
<1>4. OneCopy'
  BY <1>1 DEF OneCopy, Present
<1>5. Whereabouts'
  BY <1>1 DEF Whereabouts, Present, Staging, Disposing
<1>6. Journal'
  BY <1>1 DEF Journal
<1>7. Decision'
  BY <1>1 DEF Decision, Deleted, Present, Settling, Disposing, Staging, Committed,
    Control, JobSteps, Journal, Whereabouts
<1>8. Settlement'
  BY <1>1 DEF Settlement, Exists, Present, Control
<1> QED
  BY <1>2, <1>3, <1>4, <1>5, <1>6, <1>7, <1>8 DEF Rest

LEMMA AbandonStep ==
    ASSUME IInv, Abandon
    PROVE  Rest'
<1> USE Values DEF IInv, Rest, TypeOK, WorkTypes, Workers, Steps, Copies, Phases
<1>1. /\ app = "up" /\ begun /\ pc["window"] = "idle"
      /\ pc'["caller"] = pc["caller"]
      /\ \/ journal \in {"prepared", "staged"} /\ pc'["window"] = "restore"
         \/ journal \notin {"prepared", "staged"} /\ pc'["window"] = "idle"
      /\ begun' = FALSE
      /\ app' = "closing"
      /\ shown' = FALSE
      /\ ~abandoned' => ~abandoned /\ (job # "commit" \/ pc["caller"] = "idle")
      /\ UNCHANGED <<tree, journal, baseline, listed, locked, job, told, trashed>>
  BY Values DEF Abandon, At, Goto, Places, DiskTypes, disk, memory, renderer,
    environment, history
<1>2. JobSteps'
  BY <1>1 DEF JobSteps, Settling, Disposing, Staging
<1>3. Control'
  BY <1>1 DEF Control, JobSteps, Settling, Disposing, Staging
<1>4. OneCopy'
  BY <1>1 DEF OneCopy, Present
<1>5. Whereabouts'
  BY <1>1 DEF Whereabouts, Present, Staging, Disposing
<1>6. Journal'
  BY <1>1 DEF Journal
<1>7. Decision'
  BY <1>1 DEF Decision, Deleted, Present, Settling, Disposing, Staging, Committed,
    Control, JobSteps, Journal, Whereabouts
<1>8. Settlement'
  BY <1>1 DEF Settlement, Exists, Present, Control
<1> QED
  BY <1>2, <1>3, <1>4, <1>5, <1>6, <1>7, <1>8 DEF Rest

LEMMA StartRecoveryStep ==
    ASSUME IInv, StartRecovery
    PROVE  Rest'
<1> USE Values DEF IInv, Rest, TypeOK, WorkTypes, Workers, Steps, Copies, Phases
<1>1. /\ app \in {"down", "refused"}
      /\ pc'["window"] = pc["window"]
      /\ \/ journal = None /\ app' = "recovered" /\ pc'["caller"] = pc["caller"]
         \/ journal \in Committed /\ app' = "recovering" /\ pc'["caller"] = "finalize"
         \/ journal \in {"prepared", "staged"} /\ app' = "recovering" /\ pc'["caller"] = "restore"
      /\ job' = "recover"
      /\ UNCHANGED <<tree, journal, baseline, listed, locked, begun, shown, told,
        trashed, abandoned>>
  BY Values DEF Committed, StartRecovery, At, Goto, Places, DiskTypes, disk, memory,
    renderer, environment, history
<1>2. JobSteps'
  BY <1>1 DEF JobSteps, Control, Settling, Disposing, Staging
<1>3. Control'
  BY <1>1 DEF Control
<1>4. OneCopy'
  BY <1>1 DEF OneCopy, Present
<1>5. Whereabouts'
  BY <1>1 DEF Whereabouts, OneCopy, Present, Places, Staging, Disposing, Committed
<1>6. Journal'
  BY <1>1 DEF Journal
<1>7. Decision'
  BY <1>1 DEF Decision, Deleted, Present, Settling, Disposing, Staging, Committed
<1>8. Settlement'
  BY <1>1 DEF Settlement, Exists, Present, Control
<1> QED
  BY <1>2, <1>3, <1>4, <1>5, <1>6, <1>7, <1>8 DEF Rest

LEMMA LoadStoriesStep ==
    ASSUME IInv, LoadStories
    PROVE  Rest'
<1> USE Values DEF IInv, Rest, TypeOK, WorkTypes, Workers, Steps, Copies, Phases
<1>1. /\ app = "recovered"
      /\ listed' <=> listed /\ Exists("root")
      /\ app' = "up"
      /\ shown' <=> listed /\ Exists("root")
      /\ UNCHANGED <<tree, pc, journal, baseline, locked, begun, job, told, trashed,
        abandoned>>
  BY Values DEF LoadStories, Places, DiskTypes, disk, memory, renderer, environment,
    history
<1>2. JobSteps'
  BY <1>1 DEF JobSteps, Settling, Disposing, Staging
<1>3. Control'
  BY <1>1 DEF Control
<1>4. OneCopy'
  BY <1>1 DEF OneCopy, Present
<1>5. Whereabouts'
  BY <1>1 DEF Whereabouts, Present, Staging, Disposing
<1>6. Journal'
  BY <1>1 DEF Journal, Committed, Control
<1>7. Decision'
  BY <1>1 DEF Decision, Deleted, Present, Settling, Disposing, Staging, Committed
<1>8. Settlement'
  BY <1>1 DEF Settlement, Exists, Present, Control
<1> QED
  BY <1>2, <1>3, <1>4, <1>5, <1>6, <1>7, <1>8 DEF Rest

LEMMA RestoreStep ==
    ASSUME IInv, NEW w \in Workers, Restore(w), ~(Error(w) \/ Conflict(w))
    PROVE  Rest'
<1> USE Values DEF IInv, Rest, TypeOK, WorkTypes, Workers, Steps, Copies, Phases
<1>1. /\ pc[w] = "restore"
      /\ \/ Exists("staged") /\ ~Exists("root") /\ Intact("staged") /\ tree'["root"] = tree["staged"] /\ tree'["staged"] = None /\ tree'["quarantine"] = tree["quarantine"]
         \/ Exists("root") /\ ~Exists("staged") /\ tree' = tree
      /\ pc'[w] = "verify restored"
      /\ \A v \in Workers : v # w => pc'[v] = pc[v]
      /\ UNCHANGED <<journal, baseline, listed, locked, begun, job, app, shown, told,
        trashed, abandoned>>
  BY Values DEF Restore, At, Goto, Exists, Restorable, Rename, Places, DiskTypes,
    disk, memory, renderer, environment, history
<1>2. JobSteps'
  BY <1>1 DEF JobSteps, Settling, Disposing, Staging
<1>3. Control'
  BY <1>1 DEF Control, Settling, Disposing, Staging
<1>4. OneCopy'
  BY <1>1 DEF OneCopy, Present, Places
<1>5. Whereabouts'
  BY <1>1 DEF OneCopy, Whereabouts, Control, JobSteps, Present, Intact, Exists,
    Settling, Disposing, Staging, Places, Committed, DiskTypes
<1>6. Journal'
  BY <1>1 DEF Journal
<1>7. Decision'
  BY <1>1 DEF Decision, OneCopy, Whereabouts, Journal, Control, JobSteps, Deleted,
    Present, Exists, Intact, Restorable, Settling, Disposing, Staging, Places,
    Committed, DiskTypes
<1>8. Settlement'
  BY <1>1 DEF Settlement, Exists, Present, Control
<1> QED
  BY <1>2, <1>3, <1>4, <1>5, <1>6, <1>7, <1>8 DEF Rest

LEMMA RelistStep ==
    ASSUME IInv, NEW w \in Workers, Relist(w), ~Conflict(w)
    PROVE  Rest'
<1> USE Values DEF IInv, Rest, TypeOK, WorkTypes, Workers, Steps, Copies, Phases
<1>1. /\ pc[w] = "verify restored"
      /\ Intact("root")
      /\ pc'[w] = "restored"
      /\ \A v \in Workers : v # w => pc'[v] = pc[v]
      /\ listed' = TRUE
      /\ UNCHANGED <<tree, journal, baseline, locked, begun, job, app, shown, told,
        trashed, abandoned>>
  BY Values DEF Relist, At, Goto, Places, DiskTypes, disk, memory, renderer,
    environment, history
<1>2. JobSteps'
  BY <1>1 DEF JobSteps, Settling, Disposing, Staging
<1>3. Control'
  BY <1>1 DEF Control, Settling, Disposing, Staging
<1>4. OneCopy'
  BY <1>1 DEF OneCopy, Present
<1>5. Whereabouts'
  BY <1>1 DEF OneCopy, Whereabouts, Control, JobSteps, Present, Intact, Exists,
    Settling, Disposing, Staging, Places, Committed, DiskTypes
<1>6. Journal'
  BY <1>1 DEF Journal
<1>7. Decision'
  BY <1>1 DEF Decision, Deleted, Present, Settling, Disposing, Staging, Committed,
    Control, JobSteps, Journal, Whereabouts
<1>8. Settlement'
  BY <1>1 DEF Settlement, Exists, Present, Control, Journal, Decision, Deleted,
    Disposing, Settling, Staging, Committed
<1> QED
  BY <1>2, <1>3, <1>4, <1>5, <1>6, <1>7, <1>8 DEF Rest

LEMMA RestoredStep ==
    ASSUME IInv, NEW w \in Workers, Restored(w)
    PROVE  Rest'
<1> USE Values DEF IInv, Rest, TypeOK, WorkTypes, Workers, Steps, Copies, Phases
<1>1. /\ pc[w] = "restored"
      /\ pc'[w] = "idle"
      /\ \A v \in Workers : v # w => pc'[v] = pc[v]
      /\ journal' = None
      /\ locked' = FALSE
      /\ job' = job
      /\ \/ /\ w = "window" \/ job # "recover"
            /\ begun' = FALSE /\ app' = app /\ told' = (IF w = "caller" THEN "restored" ELSE told)
            /\ shown' <=> shown \/ (w = "caller" /\ job = "rollback")
         \/ /\ w = "caller" /\ job = "recover"
            /\ begun' = begun /\ app' = "recovered" /\ shown' = shown /\ told' = told
      /\ UNCHANGED <<tree, baseline, listed, trashed, abandoned>>
  BY Values DEF Restored, At, Goto, Places, DiskTypes, disk, memory, renderer,
    environment, history
<1>2. JobSteps'
  BY <1>1 DEF JobSteps, Settling, Disposing, Staging
<1>3. Control'
  <2>1. CASE w = "caller"
    <3>1. ~begun'
      BY <2>1, <1>1 DEF Control
    <3> QED
      BY <2>1, <3>1, <1>1 DEF Control, JobSteps, Settling, Disposing, Staging
  <2>2. CASE w = "window"
    BY <2>2, <1>1 DEF Control, JobSteps, Settling, Disposing, Staging
  <2> QED
    BY <2>1, <2>2 DEF Workers
<1>4. OneCopy'
  BY <1>1 DEF OneCopy, Present
<1>5. Whereabouts'
  BY <1>1 DEF Whereabouts, OneCopy, Present, Intact, Places, Staging, Settling,
    Disposing, Committed, Control
<1>6. Journal'
  <2>1. CASE w = "caller"
    <3>1. ~begun'
      BY <2>1, <1>1 DEF Control
    <3> QED
      BY <2>1, <3>1, <1>1 DEF Journal, Whereabouts, Control, JobSteps, Settling,
        Disposing, Staging, Committed
  <2>2. CASE w = "window"
    BY <2>2, <1>1 DEF Journal, Whereabouts, Control, JobSteps, Settling, Disposing,
      Staging, Committed
  <2> QED
    BY <2>1, <2>2 DEF Workers
<1>7. Decision'
  BY <1>1 DEF Decision, Deleted, Present, Settling, Disposing, Staging, Committed,
    Control, JobSteps, Journal, Whereabouts
<1>8. Settlement'
  BY <1>1 DEF Settlement, Decision, OneCopy, Whereabouts, Journal, Control, JobSteps,
    Deleted, Present, Exists, Intact, Restorable, Settling, Disposing, Staging,
    Places, Committed, DiskTypes, MemoryTypes
<1> QED
  BY <1>2, <1>3, <1>4, <1>5, <1>6, <1>7, <1>8 DEF Rest

LEMMA StopStep ==
    ASSUME IInv, Stop
    PROVE  Rest'
<1> USE Values DEF IInv, Rest, TypeOK, WorkTypes, Workers, Steps, Copies, Phases
<1>1. /\ pc'["caller"] = "idle" /\ pc'["window"] = "idle"
      /\ locked' = FALSE
      /\ begun' = FALSE
      /\ app' = "down"
      /\ shown' = FALSE
      /\ UNCHANGED <<tree, journal, baseline, listed, job, told, trashed, abandoned>>
  BY Values DEF Stop, Places, DiskTypes, disk, memory, renderer, environment, history
<1>2. JobSteps'
  BY <1>1 DEF JobSteps, Settling, Disposing, Staging
<1>3. Control'
  BY <1>1 DEF Control
<1>4. OneCopy'
  BY <1>1 DEF OneCopy, Present
<1>5. Whereabouts'
  BY <1>1 DEF Whereabouts, Present, Staging, Disposing
<1>6. Journal'
  BY <1>1 DEF Journal
<1>7. Decision'
  BY <1>1 DEF Decision, Deleted, Present, Settling, Disposing, Staging, Committed
<1>8. Settlement'
  BY <1>1 DEF Settlement, Exists, Present, Control
<1> QED
  BY <1>2, <1>3, <1>4, <1>5, <1>6, <1>7, <1>8 DEF Rest

LEMMA EditStep ==
    ASSUME IInv, NEW place \in Places, Edit(place)
    PROVE  Rest'
<1> USE Values DEF IInv, Rest, TypeOK, WorkTypes, Workers, Steps, Copies, Phases
<1>1. /\ \A p \in Places : p # place => tree'[p] = tree[p]
      /\ \/ Present(place) /\ tree'[place] \in Versions
         \/ place = "root" /\ ~Exists("root") /\ tree'[place] = Foreign
      /\ UNCHANGED <<pc, journal, baseline, listed, locked, begun, job, app, shown, told,
        trashed, abandoned>>
  BY Values DEF MemoryTypes, Present, Exists, Edit, Places, DiskTypes, disk, memory,
    renderer, environment, history
<1>2. JobSteps'
  BY <1>1 DEF JobSteps, Settling, Disposing, Staging
<1>3. Control'
  BY <1>1 DEF Control
<1>4. OneCopy'
  BY <1>1 DEF OneCopy, Present, Places
<1>5. Whereabouts'
  BY <1>1 DEF OneCopy, Whereabouts, Control, JobSteps, Present, Intact, Exists,
    Settling, Disposing, Staging, Places, Committed, DiskTypes
<1>6. Journal'
  BY <1>1 DEF Journal
<1>7. Decision'
  BY <1>1 DEF Decision, OneCopy, Whereabouts, Journal, Control, JobSteps, Deleted,
    Present, Exists, Intact, Restorable, Settling, Disposing, Staging, Places,
    Committed, DiskTypes
<1>8. Settlement'
  BY <1>1 DEF Settlement, Decision, OneCopy, Whereabouts, Journal, Control, JobSteps,
    Deleted, Present, Exists, Intact, Restorable, Settling, Disposing, Staging,
    Places, Committed, DiskTypes, MemoryTypes
<1> QED
  BY <1>2, <1>3, <1>4, <1>5, <1>6, <1>7, <1>8 DEF Rest

\* A step that fails, worker by worker and job by job.
LEMMA WindowFails ==
    ASSUME IInv, NEW w \in Workers, NEW why, pc[w] # "idle", Fails(w, why),
           UNCHANGED <<disk, history>>,
           w = "window"
    PROVE  Rest'
<1> USE Values DEF IInv, Rest, TypeOK, WorkTypes, Workers, Steps, Copies, Phases
<1>1. /\ pc["window"] # "idle"
      /\ pc'["window"] = "idle" /\ pc'["caller"] = pc["caller"]
      /\ shown' <=> shown
      /\ UNCHANGED <<tree, journal, baseline, listed, locked, begun, job, app, told,
        trashed, abandoned>>
  BY Values DEF Fails, Goto, Answers, Committed, Control, JobSteps, Settling,
    Disposing, Staging, Places, DiskTypes, disk, memory, renderer, environment,
    history
<1>2. JobSteps'
  BY <1>1 DEF JobSteps, Settling, Disposing, Staging
<1>3. Control'
  BY <1>1 DEF Control
<1>4. OneCopy'
  BY <1>1 DEF OneCopy, Present
<1>5. Whereabouts'
  BY <1>1 DEF Whereabouts, Present, Staging, Disposing
<1>6. Journal'
  BY <1>1 DEF Journal
<1>7. Decision'
  BY <1>1 DEF Decision, Deleted, Present, Settling, Disposing, Staging, Committed
<1>8. Settlement'
  BY <1>1 DEF Settlement, Exists, Present, Control
<1> QED
  BY <1>2, <1>3, <1>4, <1>5, <1>6, <1>7, <1>8 DEF Rest

LEMMA UndoFails ==
    ASSUME IInv, NEW w \in Workers, NEW why, pc[w] # "idle", Fails(w, why),
           UNCHANGED <<disk, history>>,
           w = "caller", job \in {"abort", "rollback"}
    PROVE  Rest'
<1> USE Values DEF IInv, Rest, TypeOK, WorkTypes, Workers, Steps, Copies, Phases
<1>1. /\ pc["caller"] # "idle"
      /\ job \in {"abort", "rollback"}
      /\ pc'["caller"] = "idle" /\ pc'["window"] = pc["window"]
      /\ shown' <=> shown /\ job # "rollback"
      /\ UNCHANGED <<tree, journal, baseline, listed, locked, begun, job, app, trashed,
        abandoned>>
  BY Values DEF Fails, Goto, Answers, Committed, Control, JobSteps, Settling,
    Disposing, Staging, Places, DiskTypes, disk, memory, renderer, environment,
    history
<1>2. JobSteps'
  BY <1>1 DEF JobSteps, Settling, Disposing, Staging
<1>3. Control'
  BY <1>1 DEF Control, Settling, Disposing, Staging
<1>4. OneCopy'
  BY <1>1 DEF OneCopy, Present
<1>5. Whereabouts'
  BY <1>1 DEF Whereabouts, Present, Staging, Disposing
<1>6. Journal'
  BY <1>1 DEF Journal
<1>7. Decision'
  BY <1>1 DEF Decision, Deleted, Present, Settling, Disposing, Staging, Committed
<1>8. Settlement'
  BY <1>1 DEF Settlement, Exists, Present, Control, Journal, Disposing, Settling,
    Staging
<1> QED
  BY <1>2, <1>3, <1>4, <1>5, <1>6, <1>7, <1>8 DEF Rest

LEMMA BeginFails ==
    ASSUME IInv, NEW w \in Workers, NEW why, pc[w] # "idle", Fails(w, why),
           UNCHANGED <<disk, history>>,
           w = "caller", job = "begin"
    PROVE  Rest'
<1> USE Values DEF IInv, Rest, TypeOK, WorkTypes, Workers, Steps, Copies, Phases
<1>1. /\ pc["caller"] \in Staging
      /\ job = "begin"
      /\ pc'["caller"] = "abort" /\ pc'["window"] = pc["window"]
      /\ job' = "abort"
      /\ UNCHANGED <<tree, journal, baseline, listed, locked, begun, app, shown, told,
        trashed, abandoned>>
  BY Values DEF Fails, Goto, Answers, Committed, Control, JobSteps, Settling,
    Disposing, Staging, Places, DiskTypes, disk, memory, renderer, environment,
    history
<1>2. JobSteps'
  BY <1>1 DEF JobSteps, Settling, Disposing, Staging
<1>3. Control'
  BY <1>1 DEF Control
<1>4. OneCopy'
  BY <1>1 DEF OneCopy, Present
<1>5. Whereabouts'
  BY <1>1 DEF Whereabouts, Present, Staging, Disposing
<1>6. Journal'
  BY <1>1 DEF Journal
<1>7. Decision'
  BY <1>1 DEF Decision, Deleted, Present, Settling, Disposing, Staging, Committed
<1>8. Settlement'
  BY <1>1 DEF Settlement, Exists, Present, Control
<1> QED
  BY <1>2, <1>3, <1>4, <1>5, <1>6, <1>7, <1>8 DEF Rest

LEMMA CommitFails ==
    ASSUME IInv, NEW w \in Workers, NEW why, pc[w] # "idle", Fails(w, why),
           UNCHANGED <<disk, history>>,
           w = "caller", job = "commit",
           why = "pending" => pc["caller"] \in Disposing
    PROVE  Rest'
<1> USE Values DEF IInv, Rest, TypeOK, WorkTypes, Workers, Steps, Copies, Phases
<1>1. /\ pc["caller"] # "idle"
      /\ job = "commit"
      /\ pc'["caller"] = "idle" /\ pc'["window"] = pc["window"]
      /\ \/ locked' = FALSE /\ begun' = FALSE /\ pc["caller"] \in Disposing
         \/ locked' = locked /\ begun' = begun
      /\ UNCHANGED <<tree, journal, baseline, listed, job, app, shown, trashed,
        abandoned>>
  BY Values DEF Fails, Goto, Answers, Committed, Control, JobSteps, Settling,
    Disposing, Staging, Places, DiskTypes, disk, memory, renderer, environment,
    history
<1>2. JobSteps'
  BY <1>1 DEF JobSteps, Settling, Disposing, Staging
<1>3. Control'
  <2>1. CASE ~begun'
    BY <2>1, <1>1 DEF Control, Settling, Disposing, Staging
  <2>2. CASE begun'
    <3>1. begun /\ locked' = locked
      BY <2>2, <1>1
    <3> QED
      BY <2>2, <3>1, <1>1 DEF Control, Settling, Disposing, Staging
  <2> QED
    BY <2>1, <2>2
<1>4. OneCopy'
  BY <1>1 DEF OneCopy, Present
<1>5. Whereabouts'
  BY <1>1 DEF Whereabouts, Present, Staging, Disposing
<1>6. Journal'
  <2>1. pc["caller"] \in Disposing \/ (locked' <=> locked)
    BY <1>1
  <2>2. app' = "up" /\ journal' \in {"prepared", "staged"} => locked'
    BY <1>1, <2>1 DEF Journal, Whereabouts, Disposing
  <2>3. begun' => begun
    BY <1>1
  <2> QED
    BY <1>1, <2>2, <2>3 DEF Journal, Control, Committed
<1>7. Decision'
  BY <1>1 DEF Decision, Deleted, Present, Settling, Disposing, Staging, Committed
<1>8. Settlement'
  BY <1>1 DEF Settlement, Exists, Present, Control
<1> QED
  BY <1>2, <1>3, <1>4, <1>5, <1>6, <1>7, <1>8 DEF Rest

LEMMA RecoverFails ==
    ASSUME IInv, NEW w \in Workers, NEW why, pc[w] # "idle", Fails(w, why),
           UNCHANGED <<disk, history>>,
           w = "caller", job = "recover"
    PROVE  Rest'
<1> USE Values DEF IInv, Rest, TypeOK, WorkTypes, Workers, Steps, Copies, Phases
<1>1. /\ app = "recovering" /\ ~begun
      /\ job = "recover"
      /\ pc'["caller"] = "idle" /\ pc'["window"] = pc["window"]
      /\ \/ app' = "recovered" /\ journal \in Committed
         \/ app' = "refused"
      /\ UNCHANGED <<tree, journal, baseline, listed, locked, begun, job, shown, told,
        trashed, abandoned>>
  BY Values DEF Fails, Goto, Answers, Committed, Control, JobSteps, Settling,
    Disposing, Staging, Places, DiskTypes, disk, memory, renderer, environment,
    history
<1>2. JobSteps'
  BY <1>1 DEF JobSteps, Settling, Disposing, Staging
<1>3. Control'
  BY <1>1 DEF Control
<1>4. OneCopy'
  BY <1>1 DEF OneCopy, Present
<1>5. Whereabouts'
  BY <1>1 DEF Whereabouts, Present, Staging, Disposing
<1>6. Journal'
  BY <1>1 DEF Journal, Committed, Control
<1>7. Decision'
  BY <1>1 DEF Decision, Deleted, Present, Settling, Disposing, Staging, Committed
<1>8. Settlement'
  BY <1>1 DEF Settlement, Exists, Present, Control
<1> QED
  BY <1>2, <1>3, <1>4, <1>5, <1>6, <1>7, <1>8 DEF Rest

LEMMA StutterStep ==
    ASSUME IInv, UNCHANGED vars
    PROVE  Rest'
<1>1. UNCHANGED <<tree, journal, baseline, listed, locked, begun, app, pc, job,
                  shown, told, trashed, abandoned>>
  BY DEF vars, disk, memory, renderer, history
<1>2. JobSteps' /\ Control'
  BY <1>1 DEF IInv, Rest, JobSteps, Control
<1>3. Copies'
  BY <1>1 DEF IInv, Rest, Copies, OneCopy, Whereabouts, Journal, Present
<1>4. Decision' /\ Settlement'
  BY <1>1 DEF IInv, Rest, Decision, Settlement, Deleted, Present, Exists
<1> QED
  BY <1>2, <1>3, <1>4 DEF Rest

LEMMA FailsStep ==
    ASSUME IInv, NEW w \in Workers, NEW why, pc[w] # "idle", Fails(w, why),
           UNCHANGED <<disk, history>>,
           why = "pending" => w = "caller" /\ pc["caller"] \in Disposing
    PROVE  Rest'
<1>1. CASE w = "window"
  BY <1>1, WindowFails
<1>2. CASE w = "caller"
  <2>1. job \in {"begin", "abort", "commit", "rollback", "recover"}
    BY DEF IInv, TypeOK, WorkTypes
  <2> QED
    BY <1>2, <2>1, UndoFails, BeginFails, CommitFails, RecoverFails
<1> QED
  BY <1>1, <1>2 DEF Workers

LEMMA ConflictStep ==
    ASSUME IInv, NEW w \in Workers, pc[w] # "idle", Conflict(w) \/ Error(w)
    PROVE  Rest'
BY FailsStep DEF Conflict, Error

LEMMA FaultStep ==
    ASSUME IInv, NEW w \in Workers, Fault(w)
    PROVE  Rest'
<1>1. FaultKind(w) = "pending" => w = "caller" /\ pc["caller"] \in Disposing
  BY DEF FaultKind, Disposing, IInv, TypeOK, WorkTypes, Workers
<1> QED
  BY <1>1, FailsStep DEF Fault, At, disk

LEMMA RestInit == Init => Rest
<1> SUFFICES ASSUME Init PROVE Rest
  OBVIOUS
<1> USE Values DEF Init, Workers, Places
<1>1. JobSteps /\ Control
  BY DEF JobSteps, Control, Staging, Settling, Disposing
<1>2. Copies
  BY DEF Copies, OneCopy, Whereabouts, Journal, Present, Staging, Disposing, Phases
<1>3. Decision
  BY DEF Decision, Staging, Settling, Disposing, Committed, Phases
<1>4. Settlement
  BY DEF Settlement, Present, Exists, Phases
<1> QED
  BY <1>1, <1>2, <1>3, <1>4 DEF Rest

LEMMA RestStep == IInv /\ [Next]_vars => Rest'
<1> SUFFICES ASSUME IInv, [Next]_vars
             PROVE  Rest'
  OBVIOUS
<1>1. CASE Begin
  BY <1>1, BeginStep
<1>2. CASE Forget
  BY <1>2, ForgetStep
<1>3. CASE VerifyRoot
  BY <1>3, VerifyRootStep, ConflictStep DEF VerifyRoot, At, Workers
<1>4. CASE Stage
  BY <1>4, StageStep
<1>5. CASE WriteStaged
  BY <1>5, WriteStagedStep, ConflictStep DEF WriteStaged, At, Workers
<1>6. CASE AbortUnstaged
  BY <1>6, AbortUnstagedStep
<1>7. ASSUME NEW w \in Workers, Restore(w) PROVE Rest'
  BY <1>7, RestoreStep, ConflictStep DEF Restore, At
<1>8. ASSUME NEW w \in Workers, Relist(w) PROVE Rest'
  BY <1>8, RelistStep, ConflictStep DEF Relist, At
<1>9. ASSUME NEW w \in Workers, Restored(w) PROVE Rest'
  BY <1>9, RestoredStep
<1>10. CASE Decide
  BY <1>10, DecideStep
<1>11. CASE Finalize
  BY <1>11, FinalizeStep, ConflictStep DEF Finalize, At, Workers
<1>12. CASE Look
  BY <1>12, LookStep, ConflictStep DEF Look, At, Workers
<1>13. CASE MoveAside
  <2>1. CASE Exists("staged")
    BY <1>13, <2>1, MoveAsideStep
  <2>2. CASE ~Exists("staged")
    BY <1>13, <2>2, FailsStep DEF MoveAside, At, Disposing, Workers
  <2> QED
    BY <2>1, <2>2
<1>14. CASE Trash
  BY <1>14, TrashStep, ConflictStep DEF Trash, At, Workers
<1>15. CASE Finalized
  BY <1>15, FinalizedStep
<1>16. CASE Retire
  BY <1>16, RetireStep
<1>17. CASE Commit
  BY <1>17, CommitStep
<1>18. CASE Rollback
  BY <1>18, RollbackStep
<1>19. CASE Abandon
  BY <1>19, AbandonStep
<1>20. CASE StartRecovery
  BY <1>20, StartRecoveryStep
<1>21. CASE LoadStories
  BY <1>21, LoadStoriesStep
<1>22. CASE Crash \/ Exit
  BY <1>22, StopStep DEF Crash, Exit
<1>23. ASSUME NEW w \in Workers, Fault(w) PROVE Rest'
  BY <1>23, FaultStep
<1>24. ASSUME NEW place \in Places, Edit(place) PROVE Rest'
  BY <1>24, EditStep
<1>25. CASE UNCHANGED vars
  BY <1>25, StutterStep
<1> QED
  BY <1>1, <1>2, <1>3, <1>4, <1>5, <1>6, <1>7, <1>8, <1>9, <1>10, <1>11, <1>12,
     <1>13, <1>14, <1>15, <1>16, <1>17, <1>18, <1>19, <1>20, <1>21, <1>22, <1>23,
     <1>24, <1>25 DEF Next, Work

LEMMA Invariance == Spec => []IInv
<1>1. Init => IInv
  BY TypeInit, RestInit DEF IInv
<1>2. IInv /\ [Next]_vars => IInv'
  BY TypeStep, RestStep DEF IInv
<1> QED
  BY <1>1, <1>2, PTL DEF Spec
-----------------------------------------------------------------------------
\* Every variable has its type in every reachable state.
THEOREM TypeCorrect == Spec => []TypeOK
BY Invariance, PTL DEF IInv

LEMMA VersionsOfInvariant == IInv => VersionsSafe
<1> SUFFICES ASSUME IInv PROVE VersionsSafe
  OBVIOUS
<1> USE Values DEF IInv, Rest, Copies, Whereabouts, TypeOK, DiskTypes, Present,
                   Deleted, Places, Phases, Committed
<1>1. OnlyTheDeletedTrashed
  BY DEF OnlyTheDeletedTrashed
<1>2. UndeletedExists
  BY DEF UndeletedExists
<1> QED
  BY <1>1, <1>2 DEF VersionsSafe

\* beginProjectFolderDeletion to recoverProjectDeletionTransactions lose no version
\* of the folder: only what the user deleted goes to the trash, once that is
\* decided, and a project that is not deleted is there.
THEOREM VersionsKept == Spec => []VersionsSafe
BY Invariance, VersionsOfInvariant, PTL

LEMMA SettledOfInvariant == IInv => SettledOrLocked
<1> SUFFICES ASSUME IInv PROVE SettledOrLocked
  OBVIOUS
<1> USE DEF IInv, Rest, TypeOK, DiskTypes, MemoryTypes
<1>1. SettledEverywhere
  <2> SUFFICES ASSUME AtRest, journal = None, ~abandoned
               PROVE  /\ listed = (tree["root"] \in Versions)
                      /\ shown = listed
                      /\ ~Exists("staged") /\ ~Exists("quarantine")
    BY DEF SettledEverywhere
  <2> QED
    BY DEF Settlement, AtRest, Present
<1>2. UnsettledLocked
  BY DEF UnsettledLocked, Copies, Journal, Deleted, Phases, Committed
<1> QED
  BY <1>1, <1>2 DEF SettledOrLocked

\* The library, the renderer and the disk agree on a deletion that is settled, and
\* a folder whose deletion may be undone is in activeProjectDeletionRoots.
THEOREM SettlesOrLocks == Spec => []SettledOrLocked
BY Invariance, SettledOfInvariant, PTL
-----------------------------------------------------------------------------
(***************************************************************************)
(* The deletion is an atomic removal.  A step leaves the decision and what *)
(* the renderer was told alone, takes the decision, or tells it.           *)
(***************************************************************************)
Steady == (Deleted' <=> Deleted) /\ told' = told
Decided == ~Deleted /\ Deleted' /\ told' = told
Tells ==
    /\ Deleted' <=> Deleted
    /\ told' = IF Deleted THEN "committed" ELSE "restored"
Removes == Steady \/ Decided \/ Tells

\* What fails leaves the disk alone.
LEMMA FailsRemoves ==
    ASSUME IInv, ~abandoned, NEW w \in Workers, NEW why, pc[w] # "idle",
           Fails(w, why), UNCHANGED disk,
           why = "pending" => w = "caller" /\ pc["caller"] \in Disposing
    PROVE  Removes
<1>1. Deleted' <=> Deleted
  BY DEF disk, Deleted
<1>2. told' = told \/ (told' = "committed" /\ pc["caller"] \in Disposing)
  <2>1. CASE why = "pending"
    <3>1. told' = told \/ Answers("committed")
      BY <2>1 DEF Fails, renderer
    <3>2. told' = told \/ told' = "committed"
      <4>1. CASE app = "closing"
        BY <3>1, <4>1 DEF Answers
      <4>2. CASE app # "closing"
        BY <3>1, <4>2 DEF Answers
      <4> QED
        BY <4>1, <4>2
    <3> QED
      BY <2>1, <3>2
  <2>2. CASE why # "pending"
    BY <2>2 DEF Fails, renderer
  <2> QED
    BY <2>1, <2>2
<1>3. pc["caller"] \in Disposing => Deleted
  BY DEF IInv, Rest, Decision, Deleted
<1> QED
  BY <1>1, <1>2, <1>3 DEF Removes, Steady, Tells

LEMMA ConflictRemoves ==
    ASSUME IInv, ~abandoned, NEW w \in Workers, pc[w] # "idle", Conflict(w) \/ Error(w)
    PROVE  Removes
BY FailsRemoves DEF Conflict, Error

LEMMA NextRemoves ==
    ASSUME IInv, ~abandoned, Next
    PROVE  Removes
<1>1. CASE Begin \/ Forget \/ Stage
  <2>1. CASE Begin
    <3>1. journal = None /\ Present("root")
      BY <2>1 DEF Begin, Present, Committed, Phases, IInv, TypeOK, DiskTypes, Rest, Copies,
         Journal, Decision
    <3>2. journal' = "prepared" /\ told' = told
      BY <2>1 DEF Begin, renderer
    <3> QED
      BY <3>1, <3>2, Values DEF Removes, Steady, Deleted, Present, Committed, Phases
  <2>2. CASE Forget \/ Stage
    <3>1. journal = "prepared"
      BY <2>2 DEF Forget, Stage, At, Staging, IInv, Rest, Copies, Whereabouts
    <3>2. UNCHANGED <<journal, told>>
      BY <2>2 DEF Forget, Stage, renderer
    <3> QED
      BY <3>1, <3>2, Values DEF Removes, Steady, Deleted, Committed, Phases
  <2> QED
    BY <1>1, <2>1, <2>2
<1>2. CASE Retire \/ Commit \/ Rollback \/ Abandon \/ StartRecovery \/ LoadStories
           \/ Crash \/ Exit
  <2>1. UNCHANGED <<tree, journal, told>>
    BY <1>2 DEF Retire, Commit, Rollback, Abandon, StartRecovery, LoadStories, Crash, Exit,
       Stop, disk, renderer
  <2> QED
    BY <2>1 DEF Removes, Steady, Deleted
<1>3. CASE VerifyRoot
  BY <1>3, ConflictRemoves DEF VerifyRoot, At, Workers, disk, renderer, Removes, Steady,
     Deleted
<1>4. CASE WriteStaged
  <2>1. CASE Conflict("caller")
    BY <1>4, <2>1, ConflictRemoves DEF WriteStaged, At, Workers
  <2>2. CASE ~Conflict("caller")
    <3>1. journal = "prepared" /\ journal' = "staged" /\ told' = told
      BY <1>4, <2>2 DEF WriteStaged, At, renderer, Staging, IInv, Rest, Copies, Whereabouts
    <3> QED
      BY <3>1, Values DEF Removes, Steady, Deleted, Committed, Phases
  <2> QED
    BY <2>1, <2>2
<1>5. CASE AbortUnstaged
  <2>1. UNCHANGED <<tree, journal, told>>
    BY <1>5 DEF AbortUnstaged, disk, renderer
  <2> QED
    BY <2>1 DEF Removes, Steady, Deleted
<1>6. ASSUME NEW w \in Workers, Restore(w) PROVE Removes
  <2>1. CASE Error(w) \/ Conflict(w)
    BY <1>6, <2>1, ConflictRemoves DEF Restore, At
  <2>2. CASE ~(Error(w) \/ Conflict(w))
    <3>1. ~Deleted
      BY <1>6 DEF Restore, At, Settling, IInv, Rest, Decision
    <3>2. UNCHANGED <<journal, told>>
      BY <1>6, <2>2 DEF Restore, renderer
    <3>3. tree'["root"] = tree["root"] \/ tree'["root"] = baseline
      BY <1>6, <2>2 DEF Restore, Restorable, Intact, Rename, IInv, TypeOK, DiskTypes, Places
    <3>4. ~Deleted'
      BY <3>1, <3>2, <3>3 DEF Deleted, IInv, TypeOK, DiskTypes
    <3> QED
      BY <3>1, <3>2, <3>4 DEF Removes, Steady
  <2> QED
    BY <2>1, <2>2
<1>7. ASSUME NEW w \in Workers, Relist(w) PROVE Removes
  BY <1>7, ConflictRemoves DEF Relist, At, renderer, Removes, Steady, Deleted
<1>8. ASSUME NEW w \in Workers, Restored(w) PROVE Removes
  <2>1. ~Deleted
    BY <1>8 DEF Restored, At, Settling, IInv, Rest, Decision
  <2>2. Present("root")
    BY <1>8 DEF Restored, At, IInv, Rest, Copies, Whereabouts
  <2>3. ~Deleted'
    BY <1>8, <2>2, Values DEF Restored, Deleted, Present, Committed, Phases
  <2>4. told' \in {told, "restored"}
    BY <1>8 DEF Restored, renderer
  <2> QED
    BY <2>1, <2>3, <2>4 DEF Removes, Steady, Tells
<1>9. CASE Decide
  <2>1. Deleted' /\ told' = told
    BY <1>9 DEF Decide, Deleted, Committed, renderer
  <2> QED
    BY <2>1 DEF Removes, Steady, Decided
<1>10. CASE Finalize
  <2>1. CASE Conflict("caller")
    BY <1>10, <2>1, ConflictRemoves DEF Finalize, At, Workers
  <2>2. CASE ~Conflict("caller")
    <3>1. journal \in Committed /\ journal' \in Committed /\ told' = told
      BY <1>10, <2>2 DEF Finalize, At, Disposing, Committed, disk, renderer, IInv, Rest,
         Decision
    <3> QED
      BY <3>1 DEF Removes, Steady, Deleted
  <2> QED
    BY <2>1, <2>2
<1>11. CASE Look
  BY <1>11, ConflictRemoves DEF Look, At, Workers, disk, renderer, Removes, Steady, Deleted
<1>12. CASE MoveAside
  <2>1. CASE Exists("staged")
    <3>1. UNCHANGED <<journal, told>> /\ tree'["root"] = tree["root"]
      BY <1>12, <2>1 DEF MoveAside, Rename, renderer, Places, IInv, TypeOK, DiskTypes
    <3> QED
      BY <3>1 DEF Removes, Steady, Deleted
  <2>2. CASE ~Exists("staged")
    BY <1>12, <2>2, FailsRemoves DEF MoveAside, At, Disposing, Workers
  <2> QED
    BY <2>1, <2>2
<1>13. CASE Trash
  <2>1. CASE Conflict("caller")
    BY <1>13, <2>1, ConflictRemoves DEF Trash, At, Workers
  <2>2. CASE ~Conflict("caller")
    <3>1. UNCHANGED <<journal, told>> /\ tree'["root"] = tree["root"]
      BY <1>13, <2>2 DEF Trash, renderer, Places, IInv, TypeOK, DiskTypes
    <3> QED
      BY <3>1 DEF Removes, Steady, Deleted
  <2> QED
    BY <2>1, <2>2
<1>14. CASE Finalized
  <2>1. journal \in Committed /\ ~Present("root")
    BY <1>14 DEF Finalized, At, Disposing, IInv, Rest, Decision
  <2>2. journal' = None /\ tree' = tree /\ told' \in {told, "committed"}
    BY <1>14 DEF Finalized, Answers, renderer
  <2> QED
    BY <2>1, <2>2 DEF Removes, Steady, Tells, Deleted, Present
<1>15. ASSUME NEW w \in Workers, Fault(w) PROVE Removes
  <2>1. FaultKind(w) = "pending" => w = "caller" /\ pc["caller"] \in Disposing
    BY DEF FaultKind, Disposing, IInv, TypeOK, WorkTypes, Workers
  <2> QED
    BY <1>15, <2>1, FailsRemoves DEF Fault, At
<1>16. ASSUME NEW place \in Places, Edit(place) PROVE Removes
  <2>1. UNCHANGED <<journal, told>>
    BY <1>16 DEF Edit, renderer
  <2>2. tree'["root"] \in Versions <=> tree["root"] \in Versions
    BY <1>16, Values DEF Edit, Exists, Places, IInv, TypeOK, DiskTypes, MemoryTypes
  <2> QED
    BY <2>1, <2>2 DEF Removes, Steady, Deleted
<1> QED
  BY <1>1, <1>2, <1>3, <1>4, <1>5, <1>6, <1>7, <1>8, <1>9, <1>10, <1>11, <1>12,
     <1>13, <1>14, <1>15, <1>16 DEF Next, Work

\* Those are the steps of the removal of a cohort of one folder.
LEMMA RemovesRefines ==
    ASSUME Removes
    PROVE  Removal!Next \/ UNCHANGED Removal!vars
<1>1. CASE Steady
  BY <1>1 DEF Steady, Removal!vars
<1>2. CASE Decided
  <2>1. Removal!Replace({"folder"})
    BY <1>2 DEF Decided, Removal!Replace
  <2> QED
    BY <2>1 DEF Removal!Next
<1>3. CASE Tells /\ Deleted
  <2>1. Removal!TellCommitted({"folder"})
    BY <1>3 DEF Tells, Removal!TellCommitted
  <2> QED
    BY <2>1 DEF Removal!Next
<1>4. CASE Tells /\ ~Deleted
  <2>1. Removal!TellRestored("folder")
    BY <1>4 DEF Tells, Removal!TellRestored
  <2> QED
    BY <2>1 DEF Removal!Next
<1> QED
  BY <1>1, <1>2, <1>3, <1>4 DEF Removes

LEMMA RemovalInit == Init => Removal!Init
BY Values DEF Init, Deleted, Committed, Phases, Places, Removal!Init

LEMMA RemovalStep == IInv /\ [Next]_vars => [Removal!Next \/ abandoned]_(Removal!vars)
<1> SUFFICES ASSUME IInv, [Next]_vars
             PROVE  Removal!Next \/ abandoned \/ UNCHANGED Removal!vars
  OBVIOUS
<1>1. CASE Next /\ ~abandoned
  BY <1>1, NextRemoves, RemovesRefines
<1>2. CASE UNCHANGED vars
  BY <1>2, RemovesRefines DEF Removes, Steady, Deleted, vars, disk, renderer
<1> QED
  BY <1>1, <1>2

\* A folder is deleted in one durable step, whatever crashes, fails or is changed,
\* and what commitProjectFolderDeletion and rollbackProjectFolderDeletion return is
\* true for good, unless the window went while its commit was running.
THEOREM DeletionIsRemoval == Spec => ImplementsRemoval
<1>1. Spec => [][Removal!Next \/ abandoned]_(Removal!vars)
  BY Invariance, RemovalStep, PTL DEF Spec
<1> QED
  BY <1>1, RemovalInit, PTL DEF Spec, ImplementsRemoval
====
