----------------------- MODULE ProjectReplacementProofs -----------------------
(***************************************************************************)
(* Proofs about ProjectReplacement, for any number of projects, crashes,   *)
(* failing calls and changes of other programs.  That a member of a        *)
(* decision is not rolled back is an assumption: the code does not look    *)
(* at the decision there.                                                  *)
(***************************************************************************)
EXTENDS ProjectReplacement, TLAPS

(***************************************************************************)
(* The inductive invariant.                                                *)
(***************************************************************************)
Beginning == {"copy", "write", "prepare", "verify", "move", "moved", "install",
              "installed", "register"}
Undoing == {"undo", "undoRoot", "undoBackup", "undoneRoot", "undoStaging", "undone"}
Ending == {"end", "endBackup", "endStaging", "ended"}

Decided(p) == p \in decision \/ journal[p] \in Committed
Undoable(p) == journal[p] # None /\ ~Decided(p)

\* What the journal and the decision say of the folders of a project.
OnDisk(p) ==
    /\ tree[p]["staging"] \in {None, "part", "new"}
    /\ journal[p] = None =>
           /\ tree[p]["root"] \in {"old", "old+", "new", "new+"}
           /\ \A place \in Places \ {"root"} : ~Exists(p, place)
    /\ Decided(p) => tree[p]["root"] \in {"new", "new+"}
    /\ Undoable(p) => \E place \in {"root", "backup"} : tree[p][place] \in {"old", "old+"}
    /\ Exists(p, "q-root") => Exists(p, "backup") /\ tree[p]["root"] \notin {"new", "new+"}
    /\ Exists(p, "q-backup") => journal[p] = "cleanup-verified"
    /\ journal[p] \in {"installed"} \cup Committed =>
           ~Exists(p, "staging") /\ ~Exists(p, "q-staging")
    /\ journal[p] = "staging" => ~Exists(p, "q-staging")
    /\ p \in decision => journal[p] \in {None, "installed"} \cup Committed

\* Which journal each step finds, for whom it works, and what is there by then.
Begins(p) ==
    /\ pc[p] \in Beginning <=> pc[p] # "idle" /\ job[p] = "begin"
    /\ pc[p] \in Beginning => Undoable(p) /\ ~Exists(p, "q-root") /\ ~Exists(p, "q-staging")
    /\ pc[p] \in {"copy", "write", "prepare"} => journal[p] = "staging"
    /\ pc[p] \in {"verify", "move", "moved"} => journal[p] = "prepared"
    /\ pc[p] \in {"install", "installed"} => journal[p] = "backup-moved"
    /\ pc[p] = "register" => journal[p] = "installed"
    /\ pc[p] \in {"copy", "write", "prepare", "verify", "move"} => ~Exists(p, "backup")
    /\ pc[p] = "installed" => ~Exists(p, "staging")

Undoes(p) ==
    /\ pc[p] \in Undoing => Undoable(p) /\ job[p] \in {"abort", "rollback", "recover"}
    /\ pc[p] = "undoRoot" /\ step[p] = "move" =>
           tree[p]["root"] \in {"new", "new+"} /\ Exists(p, "backup")
    /\ pc[p] \in {"undoneRoot", "undoStaging", "undone"} => ~Exists(p, "backup")
    /\ pc[p] = "undoBackup" => ~Exists(p, "q-root")
    /\ pc[p] = "undone" \/ (pc[p] = "undoStaging" /\ step[p] = "trash") =>
           ~Exists(p, "staging")
    /\ pc[p] = "undoStaging" => journal[p] # "staging"
    /\ pc[p] = "undone" => ~Exists(p, "q-staging")

Ends(p) ==
    /\ pc[p] \in Ending => journal[p] # None /\ Decided(p) /\ job[p] \in {"commit", "recover"}
    /\ pc[p] \in {"endBackup", "endStaging", "ended"} => journal[p] = "cleanup-verified"
    /\ pc[p] \in {"endStaging", "ended"} \/ (pc[p] = "endBackup" /\ step[p] = "trash") =>
           ~Exists(p, "backup")
    /\ pc[p] \in {"endStaging", "ended"} => ~Exists(p, "q-backup")

\* A root is moved aside to a place where nothing is.
Aside(p) ==
    /\ pc[p] \in {"undoRoot"} /\ step[p] = "move" => ~Exists(p, "q-root")
    /\ pc[p] \in {"undoStaging", "endStaging"} /\ step[p] = "move" => ~Exists(p, "q-staging")
    /\ pc[p] \in {"endBackup"} /\ step[p] = "move" => ~Exists(p, "q-backup")

\* Whose work on a project it is.
Roles(p) ==
    /\ journal[p] = None => pc[p] = "idle"
    /\ pc[p] # "idle" /\ job[p] # "recover" => app = "up"
    /\ pc[p] # "idle" /\ job[p] = "recover" => app \in {"decision", "journals"} /\ p \in start
    /\ pc[p] # "idle" /\ job[p] = "commit" => p \in commit.todo
    /\ pc[p] = "idle" /\ p \in commit.todo => journal[p] = "installed"
    /\ app = "up" /\ Undoable(p) => p \in locks
    /\ p \in commit.members \ commit.todo /\ ~commit.conflict /\ ~commit.pending =>
           journal[p] = None
    /\ app = "decision" /\ p \in start => p \in decision
    /\ app \in {"decision", "journals"} /\ p \in start => journal[p] # None
    /\ app = "decision" /\ p \in decision \ start => journal[p] \in {None} \cup Committed
    /\ app = "journals" /\ p \in decision => journal[p] \in {None} \cup Committed
    /\ app = "journals" /\ Undoable(p) => p \in start

Cohorts ==
    /\ commit.members # {} => app = "up" /\ decision = commit.members
    /\ commit.todo \subseteq commit.members
    /\ \A p, q \in Project : app # "up" /\ pc[p] # "idle" /\ pc[q] # "idle" => p = q

ProjectInv(p) ==
    OnDisk(p) /\ Begins(p) /\ Undoes(p) /\ Ends(p) /\ Aside(p) /\ Roles(p)

IInv == TypeOK /\ ChangesKept /\ Cohorts /\ \A p \in Project : ProjectInv(p)
-----------------------------------------------------------------------------
(***************************************************************************)
(* What a step sets, and what it leaves alone.                             *)
(***************************************************************************)
LEMMA Constants ==
    /\ None \notin Trees /\ None \notin Phases
    /\ None # "old" /\ None # "new" /\ None # "part" /\ None # "old+" /\ None # "new+"
    /\ None # "foreign" /\ None # "staging" /\ None # "prepared" /\ None # "backup-moved"
    /\ None # "installed" /\ None # "renderer-committed" /\ None # "cleanup-verified"
BY ConstantsAssumption DEF Trees, Phases

Placed(p, root, backup, staging, qroot, qbackup, qstaging) ==
    /\ tree' \in [Project -> [Places -> Trees \cup {None}]]
    /\ \A q \in Project \ {p} : tree'[q] = tree[q]
    /\ tree'[p]["root"] = root /\ tree'[p]["backup"] = backup
    /\ tree'[p]["staging"] = staging /\ tree'[p]["q-root"] = qroot
    /\ tree'[p]["q-backup"] = qbackup /\ tree'[p]["q-staging"] = qstaging

Works(p, s, j, t) ==
    /\ pc' \in [Project -> Steps] /\ step' \in [Project -> {"look", "move", "trash"}]
    /\ job' \in [Project -> {"begin", "abort", "rollback", "commit", "recover"}]
    /\ \A q \in Project : step'[q] # "look" => pc'[q] \in DOMAIN Disposal
    /\ \A q \in Project \ {p} : pc'[q] = pc[q] /\ job'[q] = job[q] /\ step'[q] = step[q]
    /\ pc'[p] = s /\ job'[p] = j /\ step'[p] = t

Journalled(p, phase) ==
    /\ journal' \in [Project -> Phases \cup {None}]
    /\ \A q \in Project \ {p} : journal'[q] = journal[q]
    /\ journal'[p] = phase

LEMMA TreeSet ==
    ASSUME tree \in [Project -> [Places -> Trees \cup {None}]], NEW p \in Project,
           NEW place \in Places, NEW t \in Trees \cup {None}, Put(p, place, t)
    PROVE  Placed(p, IF place = "root" THEN t ELSE tree[p]["root"],
                     IF place = "backup" THEN t ELSE tree[p]["backup"],
                     IF place = "staging" THEN t ELSE tree[p]["staging"],
                     IF place = "q-root" THEN t ELSE tree[p]["q-root"],
                     IF place = "q-backup" THEN t ELSE tree[p]["q-backup"],
                     IF place = "q-staging" THEN t ELSE tree[p]["q-staging"])
<1>1. tree' = [tree EXCEPT ![p] = [tree[p] EXCEPT ![place] = t]]
  BY DEF Put
<1>2. [tree[p] EXCEPT ![place] = t] \in [Places -> Trees \cup {None}]
  OBVIOUS
<1>3. tree' \in [Project -> [Places -> Trees \cup {None}]]
      /\ \A q \in Project \ {p} : tree'[q] = tree[q]
  BY <1>1, <1>2
<1>4. tree'[p] = [tree[p] EXCEPT ![place] = t]
  BY <1>1
<1>5. \A other \in Places : tree'[p][other] = IF place = other THEN t ELSE tree[p][other]
  BY <1>4
<1> QED
  BY <1>3, <1>5 DEF Placed, Places, Roots

LEMMA TreeMoved ==
    ASSUME tree \in [Project -> [Places -> Trees \cup {None}]], NEW p \in Project,
           NEW from \in Places, NEW to \in Places \ {from}, Rename(p, from, to)
    PROVE  /\ tree' \in [Project -> [Places -> Trees \cup {None}]]
           /\ \A q \in Project \ {p} : tree'[q] = tree[q]
           /\ \A place \in Places : tree'[p][place] =
                 IF place = from THEN None
                 ELSE IF place = to THEN tree[p][from] ELSE tree[p][place]
<1> DEFINE places == [[tree[p] EXCEPT ![to] = tree[p][from]] EXCEPT ![from] = None]
<1>1. tree[p] \in [Places -> Trees \cup {None}]
  OBVIOUS
<1>2. tree' = [tree EXCEPT ![p] = places]
  BY <1>1 DEF Rename
<1>3. places \in [Places -> Trees \cup {None}]
  BY <1>1
<1>4. \A place \in Places : places[place] =
         IF place = from THEN None
         ELSE IF place = to THEN tree[p][from] ELSE tree[p][place]
  BY <1>1
<1> HIDE DEF places
<1> QED
  BY <1>2, <1>3, <1>4

LEMMA TreeRenamed ==
    ASSUME tree \in [Project -> [Places -> Trees \cup {None}]], NEW p \in Project,
           NEW from \in Places, NEW to \in Places \ {from}, Rename(p, from, to)
    PROVE  Placed(p, IF from = "root" THEN None
                     ELSE IF to = "root" THEN tree[p][from] ELSE tree[p]["root"],
                     IF from = "backup" THEN None
                     ELSE IF to = "backup" THEN tree[p][from] ELSE tree[p]["backup"],
                     IF from = "staging" THEN None
                     ELSE IF to = "staging" THEN tree[p][from] ELSE tree[p]["staging"],
                     IF from = "q-root" THEN None
                     ELSE IF to = "q-root" THEN tree[p][from] ELSE tree[p]["q-root"],
                     IF from = "q-backup" THEN None
                     ELSE IF to = "q-backup" THEN tree[p][from] ELSE tree[p]["q-backup"],
                     IF from = "q-staging" THEN None
                     ELSE IF to = "q-staging" THEN tree[p][from] ELSE tree[p]["q-staging"])
<1>1. {"root", "backup", "staging", "q-root", "q-backup", "q-staging"} \subseteq Places
  BY DEF Places, Roots
<1> QED
  BY <1>1, TreeMoved DEF Placed

LEMMA GoesTo ==
    ASSUME TypeOK, NEW p \in Project, NEW s \in Steps, GoTo(p, s)
    PROVE  Works(p, s, job[p], "look")
BY DEF TypeOK, GoTo, Works

LEMMA Starts ==
    ASSUME TypeOK, NEW p \in Project, NEW s \in Steps,
           NEW j \in {"begin", "abort", "rollback", "commit", "recover"}, Start(p, s, j)
    PROVE  Works(p, s, j, "look")
BY DEF TypeOK, Start, Works

LEMMA GoesOn ==
    ASSUME TypeOK, NEW p \in Project, NEW t \in {"look", "move", "trash"}, GoOn(p, t),
           pc[p] \in DOMAIN Disposal
    PROVE  Works(p, pc[p], job[p], t)
BY DEF TypeOK, GoOn, Works

LEMMA JournalSet ==
    ASSUME journal \in [Project -> Phases \cup {None}], NEW p \in Project,
           NEW phase \in Phases \cup {None}, WriteJournal(p, phase)
    PROVE  Journalled(p, phase)
BY DEF WriteJournal, Journalled

\* The disposal at hand.
LEMMA Disposals ==
    ASSUME NEW s \in DOMAIN Disposal
    PROVE  \/ /\ s = "undoRoot" /\ Disposal[s] = "root" /\ Quarantine[Disposal[s]] = "q-root"
              /\ Following[s] = "undoBackup" /\ Expected[Disposal[s]] = "new"
           \/ /\ s = "undoStaging" /\ Disposal[s] = "staging"
              /\ Quarantine[Disposal[s]] = "q-staging"
              /\ Following[s] = "undone" /\ Expected[Disposal[s]] = "new"
           \/ /\ s = "endBackup" /\ Disposal[s] = "backup"
              /\ Quarantine[Disposal[s]] = "q-backup"
              /\ Following[s] = "endStaging" /\ Expected[Disposal[s]] = "old"
           \/ /\ s = "endStaging" /\ Disposal[s] = "staging"
              /\ Quarantine[Disposal[s]] = "q-staging"
              /\ Following[s] = "ended" /\ Expected[Disposal[s]] = "new"
BY DEF Disposal, Quarantine, Following, Expected

LEMMA StepsOf ==
    /\ DOMAIN Disposal = {"undoRoot", "undoStaging", "endBackup", "endStaging"}
    /\ {"root", "backup", "staging", "q-root", "q-backup", "q-staging"} = Places
    /\ \A s \in DOMAIN Disposal : Following[s] \in Steps
BY DEF Disposal, Places, Roots, Following, Steps

\* A project that a step does not touch.
Same(q) ==
    /\ tree'[q] = tree[q] /\ journal'[q] = journal[q]
    /\ pc'[q] = pc[q] /\ job'[q] = job[q] /\ step'[q] = step[q]
    /\ q \in decision' <=> q \in decision

LEMMA OtherKept ==
    ASSUME NEW q \in Project, ProjectInv(q), Same(q)
    PROVE  OnDisk(q)' /\ Begins(q)' /\ Undoes(q)' /\ Ends(q)' /\ Aside(q)'
<1> USE DEF Exists, Undoable, Decided, Same, ProjectInv
<1>1. OnDisk(q)'
  BY DEF OnDisk
<1>2. Begins(q)'
  BY DEF Begins
<1>3. Undoes(q)'
  BY DEF Undoes
<1>4. Ends(q)' /\ Aside(q)'
  BY DEF Ends, Aside
<1> QED
  BY <1>1, <1>2, <1>3, <1>4

LEMMA ChangesOfOthers ==
    ASSUME ChangesKept, NEW p \in Project, \A q \in Project \ {p} : tree'[q] = tree[q],
           edited \subseteq Project, edited' = edited,
           p \in edited => \E place \in Places : tree'[p][place] \in {"old+", "new+", "foreign"}
    PROVE  ChangesKept'
BY DEF ChangesKept

-----------------------------------------------------------------------------
(***************************************************************************)
(* Every step preserves the invariant.  First the steps of one piece of    *)
(* work, which leave everything but their own project alone.               *)
(***************************************************************************)
LEMMA Parts ==
    ASSUME IInv, NEW p \in Project
    PROVE  /\ TypeOK /\ ChangesKept /\ Cohorts
           /\ OnDisk(p) /\ Begins(p) /\ Undoes(p) /\ Ends(p) /\ Aside(p) /\ Roles(p)
BY DEF IInv, ProjectInv

Advanced(p) ==
    /\ tree' \in [Project -> [Places -> Trees \cup {None}]]
    /\ journal' \in [Project -> Phases \cup {None}]
    /\ \A q \in Project \ {p} : tree'[q] = tree[q] /\ journal'[q] = journal[q]
    /\ journal'[p] # None
    /\ journal[p] \in Committed => journal'[p] \in Committed
    /\ journal'[p] \in Committed => Decided(p)
    /\ UNCHANGED <<decision, memory, told, environment>>
    /\ p \in edited => \E place \in Places : tree'[p][place] \in {"old+", "new+", "foreign"}

LEMMA Advances ==
    ASSUME IInv, NEW p \in Project, pc[p] # "idle", NEW s \in Steps \ {"idle"},
           NEW t \in {"look", "move", "trash"}, Works(p, s, job[p], t), Advanced(p),
           OnDisk(p)', Begins(p)', Undoes(p)', Ends(p)', Aside(p)'
    PROVE  IInv'
<1>1. TypeOK /\ ChangesKept /\ Cohorts /\ \A q \in Project : ProjectInv(q) /\ Roles(q)
  BY DEF IInv, ProjectInv
<1>2. TypeOK'
  BY <1>1 DEF TypeOK, Advanced, Works, memory, environment
<1>3. ChangesKept'
  BY <1>1, ChangesOfOthers DEF TypeOK, Advanced, environment
<1>4. Cohorts'
  BY <1>1 DEF Cohorts, Advanced, Works, memory
<1>5. ASSUME NEW q \in Project
      PROVE  Roles(q)'
  <2>1. Roles(q) /\ (journal'[q] = None <=> journal[q] = None)
        /\ (pc'[q] = "idle" <=> pc[q] = "idle")
        /\ job'[q] = job[q] /\ (journal[q] \in Committed => journal'[q] \in Committed)
        /\ (journal'[q] \in Committed => Decided(q))
        /\ (pc[q] = "idle" => journal'[q] = journal[q])
    <3>1. CASE q = p
      BY <1>1, <3>1 DEF Advanced, Works, Roles
    <3>2. CASE q # p
      BY <1>1, <3>2 DEF Advanced, Works, Decided
    <3> QED
      BY <3>1, <3>2
  <2>2. UNCHANGED <<decision, locks, commit, app, start>>
    BY DEF Advanced, memory
  <2> QED
    BY <2>1, <2>2, Constants DEF Roles, Undoable, Decided, Committed
<1>6. ASSUME NEW q \in Project \ {p}
      PROVE  OnDisk(q)' /\ Begins(q)' /\ Undoes(q)' /\ Ends(q)' /\ Aside(q)'
  BY <1>1, OtherKept DEF Same, Advanced, Works
<1>7. OnDisk(p)' /\ Begins(p)' /\ Undoes(p)' /\ Ends(p)' /\ Aside(p)'
  OBVIOUS
<1> QED
  BY <1>2, <1>3, <1>4, <1>5, <1>6, <1>7 DEF IInv, ProjectInv


LEMMA CopiesRoot ==
    ASSUME IInv, NEW p \in Project, CopyRoot(p)
    PROVE  IInv'
<1>1. TypeOK /\ ChangesKept /\ OnDisk(p) /\ Begins(p) /\ Undoes(p) /\ Ends(p) /\ Aside(p)
      /\ Roles(p)
  BY Parts
<1>2. pc[p] = "copy"
  BY DEF CopyRoot, At
<1>3. Works(p, "write", job[p], "look")
  BY <1>1, <1>2, GoesTo DEF CopyRoot, Steps
<1>4. Placed(p, tree[p]["root"], tree[p]["backup"], "part",
                tree[p]["q-root"], tree[p]["q-backup"], tree[p]["q-staging"])
  BY <1>1, <1>2, TreeSet, StepsOf DEF CopyRoot, TypeOK, Trees
<1>5. journal' = journal
  BY <1>1, <1>2 DEF CopyRoot, disk
<1>6. UNCHANGED <<decision, memory, told, environment>>
  BY <1>1, <1>2 DEF CopyRoot, disk
<1>7. UNCHANGED <<locks, begun, commit, app, start, edited>>
  BY <1>6 DEF memory, environment
<1>8. OnDisk(p)'
  BY <1>1, <1>2, <1>3, <1>4, <1>5, <1>6, Constants DEF OnDisk, Begins, Undoes, Ends,
    Aside, Beginning, Undoing, Ending, Works, Placed, Journalled, Exists, Undoable,
    Decided, Committed, Places, Roots
<1>9. Begins(p)'
  BY <1>1, <1>2, <1>3, <1>4, <1>5, <1>6, Constants DEF Begins, Beginning, Works, Placed,
    Journalled, Exists, Undoable, Decided, Committed, Places, Roots
<1>10. Undoes(p)'
  BY <1>1, <1>2, <1>3, <1>4, <1>5, <1>6, Constants DEF Undoes, Undoing, Works
<1>11. Ends(p)'
  BY <1>1, <1>2, <1>3, <1>4, <1>5, <1>6, Constants DEF Ends, Ending, Works
<1>12. Aside(p)'
  BY <1>1, <1>2, <1>3, <1>4, <1>5, <1>6, Constants DEF Aside, Works
<1>13. p \in edited =>
           \E place \in Places : tree'[p][place] \in {"old+", "new+", "foreign"}
  BY <1>1, <1>2, <1>3, <1>4, <1>5, <1>6, Constants DEF ChangesKept, OnDisk, Begins,
    Aside, Undoes, Beginning, Works, Placed, Journalled, Exists, Undoable, Decided,
    Committed, Places, Roots
<1>14. /\ tree' \in [Project -> [Places -> Trees \cup {None}]]
       /\ journal' \in [Project -> Phases \cup {None}]
       /\ \A q \in Project \ {p} : tree'[q] = tree[q] /\ journal'[q] = journal[q]
       /\ journal'[p] # None /\ (journal[p] \in Committed => journal'[p] \in Committed)
       /\ (journal'[p] \in Committed => Decided(p))
       /\ pc[p] # "idle"
  BY <1>1, <1>2, <1>3, <1>4, <1>5, <1>6, Constants DEF Placed, Journalled, TypeOK,
    Roles, Begins, Undoes, Ends, Beginning, Undoing, Ending, Undoable, Decided,
    Committed, CopyRoot, At
<1>15. Advanced(p)
  BY <1>6, <1>13, <1>14 DEF Advanced
<1>16. "write" \in Steps \ {"idle"}
  BY <1>1, <1>2 DEF Steps
<1> QED
  BY <1>3, <1>8, <1>9, <1>10, <1>11, <1>12, <1>14, <1>15, <1>16, Advances

LEMMA WritesStaging ==
    ASSUME IInv, NEW p \in Project, WriteStaging(p)
    PROVE  IInv'
<1>1. TypeOK /\ ChangesKept /\ OnDisk(p) /\ Begins(p) /\ Undoes(p) /\ Ends(p) /\ Aside(p)
      /\ Roles(p)
  BY Parts
<1>2. pc[p] = "write"
  BY DEF WriteStaging, At
<1>3. Works(p, "prepare", job[p], "look")
  BY <1>1, <1>2, GoesTo DEF WriteStaging, Steps
<1>4. Placed(p, tree[p]["root"], tree[p]["backup"], "new",
                tree[p]["q-root"], tree[p]["q-backup"], tree[p]["q-staging"])
  BY <1>1, <1>2, TreeSet, StepsOf DEF WriteStaging, TypeOK, Trees
<1>5. journal' = journal
  BY <1>1, <1>2 DEF WriteStaging, disk
<1>6. UNCHANGED <<decision, memory, told, environment>>
  BY <1>1, <1>2 DEF WriteStaging, disk
<1>7. UNCHANGED <<locks, begun, commit, app, start, edited>>
  BY <1>6 DEF memory, environment
<1>8. OnDisk(p)'
  BY <1>1, <1>2, <1>3, <1>4, <1>5, <1>6, Constants DEF OnDisk, Begins, Undoes, Ends,
    Aside, Beginning, Undoing, Ending, Works, Placed, Journalled, Exists, Undoable,
    Decided, Committed, Places, Roots
<1>9. Begins(p)'
  BY <1>1, <1>2, <1>3, <1>4, <1>5, <1>6, Constants DEF Begins, Beginning, Works, Placed,
    Journalled, Exists, Undoable, Decided, Committed, Places, Roots
<1>10. Undoes(p)'
  BY <1>1, <1>2, <1>3, <1>4, <1>5, <1>6, Constants DEF Undoes, Undoing, Works
<1>11. Ends(p)'
  BY <1>1, <1>2, <1>3, <1>4, <1>5, <1>6, Constants DEF Ends, Ending, Works
<1>12. Aside(p)'
  BY <1>1, <1>2, <1>3, <1>4, <1>5, <1>6, Constants DEF Aside, Works
<1>13. p \in edited =>
           \E place \in Places : tree'[p][place] \in {"old+", "new+", "foreign"}
  BY <1>1, <1>2, <1>3, <1>4, <1>5, <1>6, Constants DEF ChangesKept, OnDisk, Begins,
    Aside, Undoes, Beginning, Works, Placed, Journalled, Exists, Undoable, Decided,
    Committed, Places, Roots
<1>14. /\ tree' \in [Project -> [Places -> Trees \cup {None}]]
       /\ journal' \in [Project -> Phases \cup {None}]
       /\ \A q \in Project \ {p} : tree'[q] = tree[q] /\ journal'[q] = journal[q]
       /\ journal'[p] # None /\ (journal[p] \in Committed => journal'[p] \in Committed)
       /\ (journal'[p] \in Committed => Decided(p))
       /\ pc[p] # "idle"
  BY <1>1, <1>2, <1>3, <1>4, <1>5, <1>6, Constants DEF Placed, Journalled, TypeOK,
    Roles, Begins, Undoes, Ends, Beginning, Undoing, Ending, Undoable, Decided,
    Committed, WriteStaging, At
<1>15. Advanced(p)
  BY <1>6, <1>13, <1>14 DEF Advanced
<1>16. "prepare" \in Steps \ {"idle"}
  BY <1>1, <1>2 DEF Steps
<1> QED
  BY <1>3, <1>8, <1>9, <1>10, <1>11, <1>12, <1>14, <1>15, <1>16, Advances

LEMMA WritesPrepared ==
    ASSUME IInv, NEW p \in Project, WritePrepared(p)
    PROVE  IInv'
<1>1. TypeOK /\ ChangesKept /\ OnDisk(p) /\ Begins(p) /\ Undoes(p) /\ Ends(p) /\ Aside(p)
      /\ Roles(p)
  BY Parts
<1>2. pc[p] = "prepare"
  BY DEF WritePrepared, At
<1>3. Works(p, "verify", job[p], "look")
  BY <1>1, <1>2, GoesTo DEF WritePrepared, Steps
<1>4. tree' = tree
  BY <1>1, <1>2 DEF WritePrepared, disk
<1>5. Journalled(p, "prepared")
  BY <1>1, <1>2, JournalSet DEF WritePrepared, TypeOK, Phases
<1>6. UNCHANGED <<decision, memory, told, environment>>
  BY <1>1, <1>2 DEF WritePrepared, disk
<1>7. UNCHANGED <<locks, begun, commit, app, start, edited>>
  BY <1>6 DEF memory, environment
<1>8. OnDisk(p)'
  BY <1>1, <1>2, <1>3, <1>4, <1>5, <1>6, Constants DEF OnDisk, Begins, Undoes, Ends,
    Aside, Beginning, Undoing, Ending, Works, Placed, Journalled, Exists, Undoable,
    Decided, Committed, Places, Roots
<1>9. Begins(p)'
  BY <1>1, <1>2, <1>3, <1>4, <1>5, <1>6, Constants DEF Begins, Beginning, Works, Placed,
    Journalled, Exists, Undoable, Decided, Committed, Places, Roots
<1>10. Undoes(p)'
  BY <1>1, <1>2, <1>3, <1>4, <1>5, <1>6, Constants DEF Undoes, Undoing, Works
<1>11. Ends(p)'
  BY <1>1, <1>2, <1>3, <1>4, <1>5, <1>6, Constants DEF Ends, Ending, Works
<1>12. Aside(p)'
  BY <1>1, <1>2, <1>3, <1>4, <1>5, <1>6, Constants DEF Aside, Works
<1>13. p \in edited =>
           \E place \in Places : tree'[p][place] \in {"old+", "new+", "foreign"}
  BY <1>1, <1>2, <1>3, <1>4, <1>5, <1>6, Constants DEF ChangesKept
<1>14. /\ tree' \in [Project -> [Places -> Trees \cup {None}]]
       /\ journal' \in [Project -> Phases \cup {None}]
       /\ \A q \in Project \ {p} : tree'[q] = tree[q] /\ journal'[q] = journal[q]
       /\ journal'[p] # None /\ (journal[p] \in Committed => journal'[p] \in Committed)
       /\ (journal'[p] \in Committed => Decided(p))
       /\ pc[p] # "idle"
  BY <1>1, <1>2, <1>3, <1>4, <1>5, <1>6, Constants DEF Placed, Journalled, TypeOK,
    Roles, Begins, Undoes, Ends, Beginning, Undoing, Ending, Undoable, Decided,
    Committed, WritePrepared, At
<1>15. Advanced(p)
  BY <1>6, <1>13, <1>14 DEF Advanced
<1>16. "verify" \in Steps \ {"idle"}
  BY <1>1, <1>2 DEF Steps
<1> QED
  BY <1>3, <1>8, <1>9, <1>10, <1>11, <1>12, <1>14, <1>15, <1>16, Advances

LEMMA FindsRoot ==
    ASSUME IInv, NEW p \in Project, At(p, "verify"), tree[p]["root"] = "old", GoTo(p, "move"),
           UNCHANGED <<disk, memory, told, environment>>
    PROVE  IInv'
<1>1. TypeOK /\ ChangesKept /\ OnDisk(p) /\ Begins(p) /\ Undoes(p) /\ Ends(p) /\ Aside(p)
      /\ Roles(p)
  BY Parts
<1>2. pc[p] = "verify"
  BY DEF At
<1>3. Works(p, "move", job[p], "look")
  BY <1>1, <1>2, GoesTo DEF Steps
<1>4. tree' = tree
  BY <1>1, <1>2 DEF disk
<1>5. journal' = journal
  BY <1>1, <1>2 DEF disk
<1>6. UNCHANGED <<decision, memory, told, environment>>
  BY <1>1, <1>2 DEF disk
<1>7. UNCHANGED <<locks, begun, commit, app, start, edited>>
  BY <1>6 DEF memory, environment
<1>8. OnDisk(p)'
  BY <1>1, <1>2, <1>3, <1>4, <1>5, <1>6, Constants DEF OnDisk, Works, Placed,
    Journalled, Exists, Undoable, Decided, Committed, Places, Roots
<1>9. Begins(p)'
  BY <1>1, <1>2, <1>3, <1>4, <1>5, <1>6, Constants DEF Begins, Beginning, Works, Placed,
    Journalled, Exists, Undoable, Decided, Committed, Places, Roots
<1>10. Undoes(p)'
  BY <1>1, <1>2, <1>3, <1>4, <1>5, <1>6, Constants DEF Undoes, Undoing, Works
<1>11. Ends(p)'
  BY <1>1, <1>2, <1>3, <1>4, <1>5, <1>6, Constants DEF Ends, Ending, Works
<1>12. Aside(p)'
  BY <1>1, <1>2, <1>3, <1>4, <1>5, <1>6, Constants DEF Aside, Works
<1>13. p \in edited =>
           \E place \in Places : tree'[p][place] \in {"old+", "new+", "foreign"}
  BY <1>1, <1>2, <1>3, <1>4, <1>5, <1>6, Constants DEF ChangesKept
<1>14. /\ tree' \in [Project -> [Places -> Trees \cup {None}]]
       /\ journal' \in [Project -> Phases \cup {None}]
       /\ \A q \in Project \ {p} : tree'[q] = tree[q] /\ journal'[q] = journal[q]
       /\ journal'[p] # None /\ (journal[p] \in Committed => journal'[p] \in Committed)
       /\ (journal'[p] \in Committed => Decided(p))
       /\ pc[p] # "idle"
  BY <1>1, <1>2, <1>3, <1>4, <1>5, <1>6, Constants DEF Placed, Journalled, TypeOK,
    Roles, Begins, Undoes, Ends, Beginning, Undoing, Ending, Undoable, Decided,
    Committed, At
<1>15. Advanced(p)
  BY <1>6, <1>13, <1>14 DEF Advanced
<1>16. "move" \in Steps \ {"idle"}
  BY <1>1, <1>2 DEF Steps
<1> QED
  BY <1>3, <1>8, <1>9, <1>10, <1>11, <1>12, <1>14, <1>15, <1>16, Advances

LEMMA MovesToBackup ==
    ASSUME IInv, NEW p \in Project, MoveToBackup(p)
    PROVE  IInv'
<1>1. TypeOK /\ ChangesKept /\ OnDisk(p) /\ Begins(p) /\ Undoes(p) /\ Ends(p) /\ Aside(p)
      /\ Roles(p)
  BY Parts
<1>2. pc[p] = "move"
  BY DEF MoveToBackup, At
<1>3. Works(p, "moved", job[p], "look")
  BY <1>1, <1>2, GoesTo DEF MoveToBackup, Steps
<1>4. Placed(p, None, tree[p]["root"], tree[p]["staging"],
                tree[p]["q-root"], tree[p]["q-backup"], tree[p]["q-staging"])
  <2>1. /\ tree \in [Project -> [Places -> Trees \cup {None}]] /\ Rename(p, "root", "backup")
        /\ "root" \in Places /\ "backup" \in Places \ {"root"}
    BY <1>1, <1>2 DEF MoveToBackup, TypeOK, Places, Roots
  <2> QED
    BY <2>1, TreeRenamed
<1>5. journal' = journal
  BY <1>1, <1>2 DEF MoveToBackup, disk
<1>6. UNCHANGED <<decision, memory, told, environment>>
  BY <1>1, <1>2 DEF MoveToBackup, disk
<1>7. UNCHANGED <<locks, begun, commit, app, start, edited>>
  BY <1>6 DEF memory, environment
<1>8. OnDisk(p)'
  BY <1>1, <1>2, <1>3, <1>4, <1>5, <1>6, Constants DEF OnDisk, Begins, Undoes, Ends,
    Aside, Beginning, Undoing, Ending, Works, Placed, Journalled, Exists, Undoable,
    Decided, Committed, Places, Roots
<1>9. Begins(p)'
  BY <1>1, <1>2, <1>3, <1>4, <1>5, <1>6, Constants DEF Begins, Beginning, Works, Placed,
    Journalled, Exists, Undoable, Decided, Committed, Places, Roots
<1>10. Undoes(p)'
  BY <1>1, <1>2, <1>3, <1>4, <1>5, <1>6, Constants DEF Undoes, Undoing, Works
<1>11. Ends(p)'
  BY <1>1, <1>2, <1>3, <1>4, <1>5, <1>6, Constants DEF Ends, Ending, Works
<1>12. Aside(p)'
  BY <1>1, <1>2, <1>3, <1>4, <1>5, <1>6, Constants DEF Aside, Works
<1>13. p \in edited =>
           \E place \in Places : tree'[p][place] \in {"old+", "new+", "foreign"}
  BY <1>1, <1>2, <1>3, <1>4, <1>5, <1>6, Constants DEF ChangesKept, OnDisk, Begins,
    Aside, Undoes, Beginning, Works, Placed, Journalled, Exists, Undoable, Decided,
    Committed, Places, Roots
<1>14. /\ tree' \in [Project -> [Places -> Trees \cup {None}]]
       /\ journal' \in [Project -> Phases \cup {None}]
       /\ \A q \in Project \ {p} : tree'[q] = tree[q] /\ journal'[q] = journal[q]
       /\ journal'[p] # None /\ (journal[p] \in Committed => journal'[p] \in Committed)
       /\ (journal'[p] \in Committed => Decided(p))
       /\ pc[p] # "idle"
  BY <1>1, <1>2, <1>3, <1>4, <1>5, <1>6, Constants DEF Placed, Journalled, TypeOK,
    Roles, Begins, Undoes, Ends, Beginning, Undoing, Ending, Undoable, Decided,
    Committed, MoveToBackup, At
<1>15. Advanced(p)
  BY <1>6, <1>13, <1>14 DEF Advanced
<1>16. "moved" \in Steps \ {"idle"}
  BY <1>1, <1>2 DEF Steps
<1> QED
  BY <1>3, <1>8, <1>9, <1>10, <1>11, <1>12, <1>14, <1>15, <1>16, Advances

LEMMA WritesBackupMoved ==
    ASSUME IInv, NEW p \in Project, At(p, "moved"), tree[p]["backup"] = "old",
           WriteJournal(p, "backup-moved"), GoTo(p, "install"),
           UNCHANGED <<tree, decision, memory, told, environment>>
    PROVE  IInv'
<1>1. TypeOK /\ ChangesKept /\ OnDisk(p) /\ Begins(p) /\ Undoes(p) /\ Ends(p) /\ Aside(p)
      /\ Roles(p)
  BY Parts
<1>2. pc[p] = "moved"
  BY DEF At
<1>3. Works(p, "install", job[p], "look")
  BY <1>1, <1>2, GoesTo DEF Steps
<1>4. tree' = tree
  BY <1>1, <1>2 DEF disk
<1>5. Journalled(p, "backup-moved")
  BY <1>1, <1>2, JournalSet DEF TypeOK, Phases
<1>6. UNCHANGED <<decision, memory, told, environment>>
  BY <1>1, <1>2 DEF disk
<1>7. UNCHANGED <<locks, begun, commit, app, start, edited>>
  BY <1>6 DEF memory, environment
<1>8. OnDisk(p)'
  BY <1>1, <1>2, <1>3, <1>4, <1>5, <1>6, Constants DEF OnDisk, Begins, Undoes, Ends,
    Aside, Beginning, Undoing, Ending, Works, Placed, Journalled, Exists, Undoable,
    Decided, Committed, Places, Roots
<1>9. Begins(p)'
  BY <1>1, <1>2, <1>3, <1>4, <1>5, <1>6, Constants DEF Begins, Beginning, Works, Placed,
    Journalled, Exists, Undoable, Decided, Committed, Places, Roots
<1>10. Undoes(p)'
  BY <1>1, <1>2, <1>3, <1>4, <1>5, <1>6, Constants DEF Undoes, Undoing, Works
<1>11. Ends(p)'
  BY <1>1, <1>2, <1>3, <1>4, <1>5, <1>6, Constants DEF Ends, Ending, Works
<1>12. Aside(p)'
  BY <1>1, <1>2, <1>3, <1>4, <1>5, <1>6, Constants DEF Aside, Works
<1>13. p \in edited =>
           \E place \in Places : tree'[p][place] \in {"old+", "new+", "foreign"}
  BY <1>1, <1>2, <1>3, <1>4, <1>5, <1>6, Constants DEF ChangesKept
<1>14. /\ tree' \in [Project -> [Places -> Trees \cup {None}]]
       /\ journal' \in [Project -> Phases \cup {None}]
       /\ \A q \in Project \ {p} : tree'[q] = tree[q] /\ journal'[q] = journal[q]
       /\ journal'[p] # None /\ (journal[p] \in Committed => journal'[p] \in Committed)
       /\ (journal'[p] \in Committed => Decided(p))
       /\ pc[p] # "idle"
  BY <1>1, <1>2, <1>3, <1>4, <1>5, <1>6, Constants DEF Placed, Journalled, TypeOK,
    Roles, Begins, Undoes, Ends, Beginning, Undoing, Ending, Undoable, Decided,
    Committed, At
<1>15. Advanced(p)
  BY <1>6, <1>13, <1>14 DEF Advanced
<1>16. "install" \in Steps \ {"idle"}
  BY <1>1, <1>2 DEF Steps
<1> QED
  BY <1>3, <1>8, <1>9, <1>10, <1>11, <1>12, <1>14, <1>15, <1>16, Advances

LEMMA InstallsStaging ==
    ASSUME IInv, NEW p \in Project, At(p, "install"), ~Exists(p, "root"),
           Rename(p, "staging", "root"),
           GoTo(p, "installed"), UNCHANGED <<journal, decision, memory, told, environment>>
    PROVE  IInv'
<1>1. TypeOK /\ ChangesKept /\ OnDisk(p) /\ Begins(p) /\ Undoes(p) /\ Ends(p) /\ Aside(p)
      /\ Roles(p)
  BY Parts
<1>2. pc[p] = "install"
  BY DEF At
<1>3. Works(p, "installed", job[p], "look")
  BY <1>1, <1>2, GoesTo DEF Steps
<1>4. Placed(p, tree[p]["staging"], tree[p]["backup"], None,
                tree[p]["q-root"], tree[p]["q-backup"], tree[p]["q-staging"])
  <2>1. /\ tree \in [Project -> [Places -> Trees \cup {None}]] /\ Rename(p, "staging", "root")
        /\ "staging" \in Places /\ "root" \in Places \ {"staging"}
    BY <1>1, <1>2 DEF TypeOK, Places, Roots
  <2> QED
    BY <2>1, TreeRenamed
<1>5. journal' = journal
  BY <1>1, <1>2 DEF disk
<1>6. UNCHANGED <<decision, memory, told, environment>>
  BY <1>1, <1>2 DEF disk
<1>7. UNCHANGED <<locks, begun, commit, app, start, edited>>
  BY <1>6 DEF memory, environment
<1>8. OnDisk(p)'
  BY <1>1, <1>2, <1>3, <1>4, <1>5, <1>6, Constants DEF OnDisk, Begins, Undoes, Ends,
    Aside, Beginning, Undoing, Ending, Works, Placed, Journalled, Exists, Undoable,
    Decided, Committed, Places, Roots
<1>9. Begins(p)'
  BY <1>1, <1>2, <1>3, <1>4, <1>5, <1>6, Constants DEF Begins, Beginning, Works, Placed,
    Journalled, Exists, Undoable, Decided, Committed, Places, Roots
<1>10. Undoes(p)'
  BY <1>1, <1>2, <1>3, <1>4, <1>5, <1>6, Constants DEF Undoes, Undoing, Works
<1>11. Ends(p)'
  BY <1>1, <1>2, <1>3, <1>4, <1>5, <1>6, Constants DEF Ends, Ending, Works
<1>12. Aside(p)'
  BY <1>1, <1>2, <1>3, <1>4, <1>5, <1>6, Constants DEF Aside, Works
<1>13. p \in edited =>
           \E place \in Places : tree'[p][place] \in {"old+", "new+", "foreign"}
  BY <1>1, <1>2, <1>3, <1>4, <1>5, <1>6, Constants DEF ChangesKept, OnDisk, Begins,
    Aside, Undoes, Beginning, Works, Placed, Journalled, Exists, Undoable, Decided,
    Committed, Places, Roots
<1>14. /\ tree' \in [Project -> [Places -> Trees \cup {None}]]
       /\ journal' \in [Project -> Phases \cup {None}]
       /\ \A q \in Project \ {p} : tree'[q] = tree[q] /\ journal'[q] = journal[q]
       /\ journal'[p] # None /\ (journal[p] \in Committed => journal'[p] \in Committed)
       /\ (journal'[p] \in Committed => Decided(p))
       /\ pc[p] # "idle"
  BY <1>1, <1>2, <1>3, <1>4, <1>5, <1>6, Constants DEF Placed, Journalled, TypeOK,
    Roles, Begins, Undoes, Ends, Beginning, Undoing, Ending, Undoable, Decided,
    Committed, At
<1>15. Advanced(p)
  BY <1>6, <1>13, <1>14 DEF Advanced
<1>16. "installed" \in Steps \ {"idle"}
  BY <1>1, <1>2 DEF Steps
<1> QED
  BY <1>3, <1>8, <1>9, <1>10, <1>11, <1>12, <1>14, <1>15, <1>16, Advances

LEMMA WritesInstalled ==
    ASSUME IInv, NEW p \in Project, At(p, "installed"), tree[p]["root"] = "new",
           WriteJournal(p, "installed"), GoTo(p, "register"),
           UNCHANGED <<tree, decision, memory, told, environment>>
    PROVE  IInv'
<1>1. TypeOK /\ ChangesKept /\ OnDisk(p) /\ Begins(p) /\ Undoes(p) /\ Ends(p) /\ Aside(p)
      /\ Roles(p)
  BY Parts
<1>2. pc[p] = "installed"
  BY DEF At
<1>3. Works(p, "register", job[p], "look")
  BY <1>1, <1>2, GoesTo DEF Steps
<1>4. tree' = tree
  BY <1>1, <1>2 DEF disk
<1>5. Journalled(p, "installed")
  BY <1>1, <1>2, JournalSet DEF TypeOK, Phases
<1>6. UNCHANGED <<decision, memory, told, environment>>
  BY <1>1, <1>2 DEF disk
<1>7. UNCHANGED <<locks, begun, commit, app, start, edited>>
  BY <1>6 DEF memory, environment
<1>8. OnDisk(p)'
  BY <1>1, <1>2, <1>3, <1>4, <1>5, <1>6, Constants DEF OnDisk, Begins, Undoes, Ends,
    Aside, Beginning, Undoing, Ending, Works, Placed, Journalled, Exists, Undoable,
    Decided, Committed, Places, Roots
<1>9. Begins(p)'
  BY <1>1, <1>2, <1>3, <1>4, <1>5, <1>6, Constants DEF Begins, Beginning, Works, Placed,
    Journalled, Exists, Undoable, Decided, Committed, Places, Roots
<1>10. Undoes(p)'
  BY <1>1, <1>2, <1>3, <1>4, <1>5, <1>6, Constants DEF Undoes, Undoing, Works
<1>11. Ends(p)'
  BY <1>1, <1>2, <1>3, <1>4, <1>5, <1>6, Constants DEF Ends, Ending, Works
<1>12. Aside(p)'
  BY <1>1, <1>2, <1>3, <1>4, <1>5, <1>6, Constants DEF Aside, Works
<1>13. p \in edited =>
           \E place \in Places : tree'[p][place] \in {"old+", "new+", "foreign"}
  BY <1>1, <1>2, <1>3, <1>4, <1>5, <1>6, Constants DEF ChangesKept
<1>14. /\ tree' \in [Project -> [Places -> Trees \cup {None}]]
       /\ journal' \in [Project -> Phases \cup {None}]
       /\ \A q \in Project \ {p} : tree'[q] = tree[q] /\ journal'[q] = journal[q]
       /\ journal'[p] # None /\ (journal[p] \in Committed => journal'[p] \in Committed)
       /\ (journal'[p] \in Committed => Decided(p))
       /\ pc[p] # "idle"
  BY <1>1, <1>2, <1>3, <1>4, <1>5, <1>6, Constants DEF Placed, Journalled, TypeOK,
    Roles, Begins, Undoes, Ends, Beginning, Undoing, Ending, Undoable, Decided,
    Committed, At
<1>15. Advanced(p)
  BY <1>6, <1>13, <1>14 DEF Advanced
<1>16. "register" \in Steps \ {"idle"}
  BY <1>1, <1>2 DEF Steps
<1> QED
  BY <1>3, <1>8, <1>9, <1>10, <1>11, <1>12, <1>14, <1>15, <1>16, Advances

LEMMA VerifiesInPlace ==
    ASSUME IInv, NEW p \in Project, Disposing(p, "look"),
           Exists(p, Disposal[pc[p]]), ~Exists(p, Quarantine[Disposal[pc[p]]]),
           Verified(p, Disposal[pc[p]], Disposal[pc[p]]), GoOn(p, "move"),
           UNCHANGED <<disk, memory, told, environment>>
    PROVE  IInv'
<1>1. TypeOK /\ ChangesKept /\ OnDisk(p) /\ Begins(p) /\ Undoes(p) /\ Ends(p) /\ Aside(p)
      /\ Roles(p)
  BY Parts
<1>2. pc[p] \in DOMAIN Disposal
  BY DEF Disposing
<1>3. \/ pc[p] = "undoRoot" /\ tree[p]["root"] = "new" /\ ~Exists(p, "q-root")
      \/ pc[p] = "undoStaging" /\ tree[p]["staging"] = "new" /\ ~Exists(p, "q-staging")
      \/ pc[p] = "endBackup" /\ tree[p]["backup"] = "old" /\ ~Exists(p, "q-backup")
      \/ pc[p] = "endStaging" /\ tree[p]["staging"] = "new" /\ ~Exists(p, "q-staging")
  BY <1>1, <1>2, Disposals DEF Verified, Exists
<1>4. Works(p, pc[p], job[p], "move")
  BY <1>1, <1>2, <1>3, GoesOn DEF Steps
<1>5. tree' = tree
  BY <1>1, <1>2, <1>3 DEF disk
<1>6. journal' = journal
  BY <1>1, <1>2, <1>3 DEF disk
<1>7. UNCHANGED <<decision, memory, told, environment>>
  BY <1>1, <1>2, <1>3 DEF disk
<1>8. UNCHANGED <<locks, begun, commit, app, start, edited>>
  BY <1>7 DEF memory, environment
<1>9. OnDisk(p)'
  BY <1>1, <1>2, <1>3, <1>4, <1>5, <1>6, <1>7, Constants DEF OnDisk, Works, Placed,
    Journalled, Exists, Undoable, Decided, Committed, Places, Roots
<1>10. Begins(p)'
  BY <1>1, <1>2, <1>3, <1>4, <1>5, <1>6, <1>7, Constants DEF Begins, Beginning, Works
<1>11. Undoes(p)'
  BY <1>1, <1>2, <1>3, <1>4, <1>5, <1>6, <1>7, Constants DEF Undoes, Undoing, OnDisk,
    Begins, Beginning, Aside, Ends, Ending, Works, Placed, Journalled, Exists, Undoable,
    Decided, Committed, Places, Roots
<1>12. Ends(p)'
  BY <1>1, <1>2, <1>3, <1>4, <1>5, <1>6, <1>7, Constants DEF Ends, Ending, Works,
    Placed, Journalled, Exists, Undoable, Decided, Committed, Places, Roots
<1>13. Aside(p)'
  BY <1>1, <1>2, <1>3, <1>4, <1>5, <1>6, <1>7, Constants DEF Aside, Works, Exists
<1>14. p \in edited =>
           \E place \in Places : tree'[p][place] \in {"old+", "new+", "foreign"}
  BY <1>1, <1>2, <1>3, <1>4, <1>5, <1>6, <1>7, Constants DEF ChangesKept
<1>15. /\ tree' \in [Project -> [Places -> Trees \cup {None}]]
       /\ journal' \in [Project -> Phases \cup {None}]
       /\ \A q \in Project \ {p} : tree'[q] = tree[q] /\ journal'[q] = journal[q]
       /\ journal'[p] # None /\ (journal[p] \in Committed => journal'[p] \in Committed)
       /\ (journal'[p] \in Committed => Decided(p))
       /\ pc[p] # "idle"
  BY <1>1, <1>2, <1>3, <1>4, <1>5, <1>6, <1>7, Constants DEF Placed, Journalled, TypeOK,
    Roles, Begins, Undoes, Ends, Beginning, Undoing, Ending, Undoable, Decided,
    Committed, At
<1>16. Advanced(p)
  BY <1>7, <1>14, <1>15 DEF Advanced
<1>17. pc[p] \in Steps \ {"idle"}
  BY <1>1, <1>2, <1>3 DEF Steps
<1> QED
  BY <1>4, <1>9, <1>10, <1>11, <1>12, <1>13, <1>15, <1>16, <1>17, Advances

LEMMA FindsAside ==
    ASSUME IInv, NEW p \in Project, Disposing(p, "look"),
           ~Exists(p, Disposal[pc[p]]), Exists(p, Quarantine[Disposal[pc[p]]]),
           GoOn(p, "trash"), UNCHANGED <<disk, memory, told, environment>>
    PROVE  IInv'
<1>1. TypeOK /\ ChangesKept /\ OnDisk(p) /\ Begins(p) /\ Undoes(p) /\ Ends(p) /\ Aside(p)
      /\ Roles(p)
  BY Parts
<1>2. pc[p] \in DOMAIN Disposal
  BY DEF Disposing
<1>3. \/ pc[p] = "undoRoot" /\ ~Exists(p, "root") /\ Exists(p, "q-root")
      \/ pc[p] = "undoStaging" /\ ~Exists(p, "staging") /\ Exists(p, "q-staging")
      \/ pc[p] = "endBackup" /\ ~Exists(p, "backup") /\ Exists(p, "q-backup")
      \/ pc[p] = "endStaging" /\ ~Exists(p, "staging") /\ Exists(p, "q-staging")
  BY <1>1, <1>2, Disposals
<1>4. Works(p, pc[p], job[p], "trash")
  BY <1>1, <1>2, <1>3, GoesOn DEF Steps
<1>5. tree' = tree
  BY <1>1, <1>2, <1>3 DEF disk
<1>6. journal' = journal
  BY <1>1, <1>2, <1>3 DEF disk
<1>7. UNCHANGED <<decision, memory, told, environment>>
  BY <1>1, <1>2, <1>3 DEF disk
<1>8. UNCHANGED <<locks, begun, commit, app, start, edited>>
  BY <1>7 DEF memory, environment
<1>9. OnDisk(p)'
  BY <1>1, <1>2, <1>3, <1>4, <1>5, <1>6, <1>7, Constants DEF OnDisk, Works, Placed,
    Journalled, Exists, Undoable, Decided, Committed, Places, Roots
<1>10. Begins(p)'
  BY <1>1, <1>2, <1>3, <1>4, <1>5, <1>6, <1>7, Constants DEF Begins, Beginning, Works
<1>11. Undoes(p)'
  BY <1>1, <1>2, <1>3, <1>4, <1>5, <1>6, <1>7, Constants DEF Undoes, Undoing, Works,
    Placed, Journalled, Exists, Undoable, Decided, Committed, Places, Roots
<1>12. Ends(p)'
  BY <1>1, <1>2, <1>3, <1>4, <1>5, <1>6, <1>7, Constants DEF Ends, Ending, Works,
    Placed, Journalled, Exists, Undoable, Decided, Committed, Places, Roots
<1>13. Aside(p)'
  BY <1>1, <1>2, <1>3, <1>4, <1>5, <1>6, <1>7, Constants DEF Aside, Works
<1>14. p \in edited =>
           \E place \in Places : tree'[p][place] \in {"old+", "new+", "foreign"}
  BY <1>1, <1>2, <1>3, <1>4, <1>5, <1>6, <1>7, Constants DEF ChangesKept
<1>15. /\ tree' \in [Project -> [Places -> Trees \cup {None}]]
       /\ journal' \in [Project -> Phases \cup {None}]
       /\ \A q \in Project \ {p} : tree'[q] = tree[q] /\ journal'[q] = journal[q]
       /\ journal'[p] # None /\ (journal[p] \in Committed => journal'[p] \in Committed)
       /\ (journal'[p] \in Committed => Decided(p))
       /\ pc[p] # "idle"
  BY <1>1, <1>2, <1>3, <1>4, <1>5, <1>6, <1>7, Constants DEF Placed, Journalled, TypeOK,
    Roles, Begins, Undoes, Ends, Beginning, Undoing, Ending, Undoable, Decided,
    Committed, At
<1>16. Advanced(p)
  BY <1>7, <1>14, <1>15 DEF Advanced
<1>17. pc[p] \in Steps \ {"idle"}
  BY <1>1, <1>2, <1>3 DEF Steps
<1> QED
  BY <1>4, <1>9, <1>10, <1>11, <1>12, <1>13, <1>15, <1>16, <1>17, Advances

LEMMA FindsNothing ==
    ASSUME IInv, NEW p \in Project, Disposing(p, "look"),
           ~Exists(p, Disposal[pc[p]]), ~Exists(p, Quarantine[Disposal[pc[p]]]),
           GoTo(p, Following[pc[p]]), UNCHANGED <<disk, memory, told, environment>>
    PROVE  IInv'
<1>1. TypeOK /\ ChangesKept /\ OnDisk(p) /\ Begins(p) /\ Undoes(p) /\ Ends(p) /\ Aside(p)
      /\ Roles(p)
  BY Parts
<1>2. pc[p] \in DOMAIN Disposal
  BY DEF Disposing
<1>3. \/ /\ pc[p] = "undoRoot" /\ ~Exists(p, "root") /\ ~Exists(p, "q-root")
         /\ Following[pc[p]] = "undoBackup"
      \/ /\ pc[p] = "undoStaging" /\ ~Exists(p, "staging") /\ ~Exists(p, "q-staging")
         /\ Following[pc[p]] = "undone"
      \/ /\ pc[p] = "endBackup" /\ ~Exists(p, "backup") /\ ~Exists(p, "q-backup")
         /\ Following[pc[p]] = "endStaging"
      \/ /\ pc[p] = "endStaging" /\ ~Exists(p, "staging") /\ ~Exists(p, "q-staging")
         /\ Following[pc[p]] = "ended"
  BY <1>1, <1>2, Disposals
<1>4. Works(p, Following[pc[p]], job[p], "look")
  BY <1>1, <1>2, <1>3, GoesTo DEF Steps
<1>5. tree' = tree
  BY <1>1, <1>2, <1>3 DEF disk
<1>6. journal' = journal
  BY <1>1, <1>2, <1>3 DEF disk
<1>7. UNCHANGED <<decision, memory, told, environment>>
  BY <1>1, <1>2, <1>3 DEF disk
<1>8. UNCHANGED <<locks, begun, commit, app, start, edited>>
  BY <1>7 DEF memory, environment
<1>9. OnDisk(p)'
  BY <1>1, <1>2, <1>3, <1>4, <1>5, <1>6, <1>7, Constants DEF OnDisk, Works, Placed,
    Journalled, Exists, Undoable, Decided, Committed, Places, Roots
<1>10. Begins(p)'
  BY <1>1, <1>2, <1>3, <1>4, <1>5, <1>6, <1>7, Constants DEF Begins, Beginning, Works
<1>11. Undoes(p)'
  BY <1>1, <1>2, <1>3, <1>4, <1>5, <1>6, <1>7, Constants DEF Undoes, Undoing, Works,
    Placed, Journalled, Exists, Undoable, Decided, Committed, Places, Roots
<1>12. Ends(p)'
  BY <1>1, <1>2, <1>3, <1>4, <1>5, <1>6, <1>7, Constants DEF Ends, Ending, Works,
    Placed, Journalled, Exists, Undoable, Decided, Committed, Places, Roots
<1>13. Aside(p)'
  BY <1>1, <1>2, <1>3, <1>4, <1>5, <1>6, <1>7, Constants DEF Aside, Works
<1>14. p \in edited =>
           \E place \in Places : tree'[p][place] \in {"old+", "new+", "foreign"}
  BY <1>1, <1>2, <1>3, <1>4, <1>5, <1>6, <1>7, Constants DEF ChangesKept
<1>15. /\ tree' \in [Project -> [Places -> Trees \cup {None}]]
       /\ journal' \in [Project -> Phases \cup {None}]
       /\ \A q \in Project \ {p} : tree'[q] = tree[q] /\ journal'[q] = journal[q]
       /\ journal'[p] # None /\ (journal[p] \in Committed => journal'[p] \in Committed)
       /\ (journal'[p] \in Committed => Decided(p))
       /\ pc[p] # "idle"
  BY <1>1, <1>2, <1>3, <1>4, <1>5, <1>6, <1>7, Constants DEF Placed, Journalled, TypeOK,
    Roles, Begins, Undoes, Ends, Beginning, Undoing, Ending, Undoable, Decided,
    Committed, At
<1>16. Advanced(p)
  BY <1>7, <1>14, <1>15 DEF Advanced
<1>17. Following[pc[p]] \in Steps \ {"idle"}
  BY <1>1, <1>2, <1>3 DEF Steps
<1> QED
  BY <1>4, <1>9, <1>10, <1>11, <1>12, <1>13, <1>15, <1>16, <1>17, Advances

LEMMA MovesAsideNewRoot ==
    ASSUME IInv, NEW p \in Project, pc[p] = "undoRoot", MoveAside(p)
    PROVE  IInv'
<1>1. TypeOK /\ ChangesKept /\ OnDisk(p) /\ Begins(p) /\ Undoes(p) /\ Ends(p) /\ Aside(p)
      /\ Roles(p)
  BY Parts
<1>2. pc[p] = "undoRoot" /\ step[p] = "move" /\ pc[p] \in DOMAIN Disposal
  BY DEF MoveAside, Disposing
<1>3. Works(p, "undoRoot", job[p], "trash")
  BY <1>1, <1>2, GoesOn DEF MoveAside, Disposing, Disposal, Quarantine, Expected,
    Following, Verified, Steps
<1>4. Placed(p, None, tree[p]["backup"], tree[p]["staging"],
                tree[p]["root"], tree[p]["q-backup"], tree[p]["q-staging"])
  <2>1. /\ tree \in [Project -> [Places -> Trees \cup {None}]] /\ Rename(p, "root", "q-root")
        /\ "root" \in Places /\ "q-root" \in Places \ {"root"}
    BY <1>1, <1>2 DEF MoveAside, Disposing, Disposal, Quarantine, Expected, Following,
      Verified, TypeOK, Places, Roots
  <2> QED
    BY <2>1, TreeRenamed
<1>5. journal' = journal
  BY <1>1, <1>2 DEF MoveAside, Disposing, Disposal, Quarantine, Expected, Following,
    Verified, disk
<1>6. UNCHANGED <<decision, memory, told, environment>>
  BY <1>1, <1>2 DEF MoveAside, Disposing, Disposal, Quarantine, Expected, Following,
    Verified, disk
<1>7. UNCHANGED <<locks, begun, commit, app, start, edited>>
  BY <1>6 DEF memory, environment
<1>8. OnDisk(p)'
  BY <1>1, <1>2, <1>3, <1>4, <1>5, <1>6, Constants DEF OnDisk, Begins, Undoes, Ends,
    Aside, Beginning, Undoing, Ending, Works, Placed, Journalled, Exists, Undoable,
    Decided, Committed, Places, Roots
<1>9. Begins(p)'
  BY <1>1, <1>2, <1>3, <1>4, <1>5, <1>6, Constants DEF Begins, Beginning, Works
<1>10. Undoes(p)'
  BY <1>1, <1>2, <1>3, <1>4, <1>5, <1>6, Constants DEF Undoes, Undoing, Works, Placed,
    Journalled, Exists, Undoable, Decided, Committed, Places, Roots
<1>11. Ends(p)'
  BY <1>1, <1>2, <1>3, <1>4, <1>5, <1>6, Constants DEF Ends, Ending, Works
<1>12. Aside(p)'
  BY <1>1, <1>2, <1>3, <1>4, <1>5, <1>6, Constants DEF Aside, Works
<1>13. p \in edited =>
           \E place \in Places : tree'[p][place] \in {"old+", "new+", "foreign"}
  BY <1>1, <1>2, <1>3, <1>4, <1>5, <1>6, Constants DEF ChangesKept, OnDisk, Begins,
    Aside, Undoes, Beginning, Works, Placed, Journalled, Exists, Undoable, Decided,
    Committed, Places, Roots
<1>14. /\ tree' \in [Project -> [Places -> Trees \cup {None}]]
       /\ journal' \in [Project -> Phases \cup {None}]
       /\ \A q \in Project \ {p} : tree'[q] = tree[q] /\ journal'[q] = journal[q]
       /\ journal'[p] # None /\ (journal[p] \in Committed => journal'[p] \in Committed)
       /\ (journal'[p] \in Committed => Decided(p))
       /\ pc[p] # "idle"
  BY <1>1, <1>2, <1>3, <1>4, <1>5, <1>6, Constants DEF Placed, Journalled, TypeOK,
    Roles, Begins, Undoes, Ends, Beginning, Undoing, Ending, Undoable, Decided,
    Committed, MoveAside, Disposing, Disposal, Quarantine, Expected, Following,
    Verified, At
<1>15. Advanced(p)
  BY <1>6, <1>13, <1>14 DEF Advanced
<1>16. "undoRoot" \in Steps \ {"idle"}
  BY <1>1, <1>2 DEF Steps
<1> QED
  BY <1>3, <1>8, <1>9, <1>10, <1>11, <1>12, <1>14, <1>15, <1>16, Advances

LEMMA TrashesNewRoot ==
    ASSUME IInv, NEW p \in Project, pc[p] = "undoRoot", Disposing(p, "trash"),
           tree[p]["q-root"] = "new", Put(p, "q-root", None), GoTo(p, "undoBackup"),
           UNCHANGED <<journal, decision, memory, told, environment>>
    PROVE  IInv'
<1>1. TypeOK /\ ChangesKept /\ OnDisk(p) /\ Begins(p) /\ Undoes(p) /\ Ends(p) /\ Aside(p)
      /\ Roles(p)
  BY Parts
<1>2. pc[p] = "undoRoot" /\ step[p] = "trash" /\ tree[p]["q-root"] = "new"
  BY DEF Disposing
<1>3. Works(p, "undoBackup", job[p], "look")
  BY <1>1, <1>2, GoesTo DEF Steps
<1>4. Placed(p, tree[p]["root"], tree[p]["backup"], tree[p]["staging"],
                None, tree[p]["q-backup"], tree[p]["q-staging"])
  BY <1>1, <1>2, TreeSet, StepsOf DEF TypeOK, Trees
<1>5. journal' = journal
  BY <1>1, <1>2 DEF disk
<1>6. UNCHANGED <<decision, memory, told, environment>>
  BY <1>1, <1>2 DEF disk
<1>7. UNCHANGED <<locks, begun, commit, app, start, edited>>
  BY <1>6 DEF memory, environment
<1>8. OnDisk(p)'
  BY <1>1, <1>2, <1>3, <1>4, <1>5, <1>6, Constants DEF OnDisk, Works, Placed,
    Journalled, Exists, Undoable, Decided, Committed, Places, Roots
<1>9. Begins(p)'
  BY <1>1, <1>2, <1>3, <1>4, <1>5, <1>6, Constants DEF Begins, Beginning, Works
<1>10. Undoes(p)'
  BY <1>1, <1>2, <1>3, <1>4, <1>5, <1>6, Constants DEF Undoes, Undoing, Works, Placed,
    Journalled, Exists, Undoable, Decided, Committed, Places, Roots
<1>11. Ends(p)'
  BY <1>1, <1>2, <1>3, <1>4, <1>5, <1>6, Constants DEF Ends, Ending, Works
<1>12. Aside(p)'
  BY <1>1, <1>2, <1>3, <1>4, <1>5, <1>6, Constants DEF Aside, Works
<1>13. p \in edited =>
           \E place \in Places : tree'[p][place] \in {"old+", "new+", "foreign"}
  BY <1>1, <1>2, <1>3, <1>4, <1>5, <1>6, Constants DEF ChangesKept, OnDisk, Begins,
    Aside, Undoes, Beginning, Works, Placed, Journalled, Exists, Undoable, Decided,
    Committed, Places, Roots
<1>14. /\ tree' \in [Project -> [Places -> Trees \cup {None}]]
       /\ journal' \in [Project -> Phases \cup {None}]
       /\ \A q \in Project \ {p} : tree'[q] = tree[q] /\ journal'[q] = journal[q]
       /\ journal'[p] # None /\ (journal[p] \in Committed => journal'[p] \in Committed)
       /\ (journal'[p] \in Committed => Decided(p))
       /\ pc[p] # "idle"
  BY <1>1, <1>2, <1>3, <1>4, <1>5, <1>6, Constants DEF Placed, Journalled, TypeOK,
    Roles, Begins, Undoes, Ends, Beginning, Undoing, Ending, Undoable, Decided,
    Committed, At
<1>15. Advanced(p)
  BY <1>6, <1>13, <1>14 DEF Advanced
<1>16. "undoBackup" \in Steps \ {"idle"}
  BY <1>1, <1>2 DEF Steps
<1> QED
  BY <1>3, <1>8, <1>9, <1>10, <1>11, <1>12, <1>14, <1>15, <1>16, Advances

LEMMA MovesAsideStagingUndone ==
    ASSUME IInv, NEW p \in Project, pc[p] = "undoStaging", MoveAside(p)
    PROVE  IInv'
<1>1. TypeOK /\ ChangesKept /\ OnDisk(p) /\ Begins(p) /\ Undoes(p) /\ Ends(p) /\ Aside(p)
      /\ Roles(p)
  BY Parts
<1>2. pc[p] = "undoStaging" /\ step[p] = "move" /\ pc[p] \in DOMAIN Disposal
  BY DEF MoveAside, Disposing
<1>3. Works(p, "undoStaging", job[p], "trash")
  BY <1>1, <1>2, GoesOn DEF MoveAside, Disposing, Disposal, Quarantine, Expected,
    Following, Verified, Steps
<1>4. Placed(p, tree[p]["root"], tree[p]["backup"], None,
                tree[p]["q-root"], tree[p]["q-backup"], tree[p]["staging"])
  <2>1. /\ tree \in [Project -> [Places -> Trees \cup {None}]]
        /\ Rename(p, "staging", "q-staging")
        /\ "staging" \in Places /\ "q-staging" \in Places \ {"staging"}
    BY <1>1, <1>2 DEF MoveAside, Disposing, Disposal, Quarantine, Expected, Following,
      Verified, TypeOK, Places, Roots
  <2> QED
    BY <2>1, TreeRenamed
<1>5. journal' = journal
  BY <1>1, <1>2 DEF MoveAside, Disposing, Disposal, Quarantine, Expected, Following,
    Verified, disk
<1>6. UNCHANGED <<decision, memory, told, environment>>
  BY <1>1, <1>2 DEF MoveAside, Disposing, Disposal, Quarantine, Expected, Following,
    Verified, disk
<1>7. UNCHANGED <<locks, begun, commit, app, start, edited>>
  BY <1>6 DEF memory, environment
<1>8. OnDisk(p)'
  BY <1>1, <1>2, <1>3, <1>4, <1>5, <1>6, Constants DEF OnDisk, Begins, Undoes, Ends,
    Aside, Beginning, Undoing, Ending, Works, Placed, Journalled, Exists, Undoable,
    Decided, Committed, Places, Roots
<1>9. Begins(p)'
  BY <1>1, <1>2, <1>3, <1>4, <1>5, <1>6, Constants DEF Begins, Beginning, Works
<1>10. Undoes(p)'
  BY <1>1, <1>2, <1>3, <1>4, <1>5, <1>6, Constants DEF Undoes, Undoing, Works, Placed,
    Journalled, Exists, Undoable, Decided, Committed, Places, Roots
<1>11. Ends(p)'
  BY <1>1, <1>2, <1>3, <1>4, <1>5, <1>6, Constants DEF Ends, Ending, Works
<1>12. Aside(p)'
  BY <1>1, <1>2, <1>3, <1>4, <1>5, <1>6, Constants DEF Aside, Works
<1>13. p \in edited =>
           \E place \in Places : tree'[p][place] \in {"old+", "new+", "foreign"}
  BY <1>1, <1>2, <1>3, <1>4, <1>5, <1>6, Constants DEF ChangesKept, OnDisk, Begins,
    Aside, Undoes, Beginning, Works, Placed, Journalled, Exists, Undoable, Decided,
    Committed, Places, Roots
<1>14. /\ tree' \in [Project -> [Places -> Trees \cup {None}]]
       /\ journal' \in [Project -> Phases \cup {None}]
       /\ \A q \in Project \ {p} : tree'[q] = tree[q] /\ journal'[q] = journal[q]
       /\ journal'[p] # None /\ (journal[p] \in Committed => journal'[p] \in Committed)
       /\ (journal'[p] \in Committed => Decided(p))
       /\ pc[p] # "idle"
  BY <1>1, <1>2, <1>3, <1>4, <1>5, <1>6, Constants DEF Placed, Journalled, TypeOK,
    Roles, Begins, Undoes, Ends, Beginning, Undoing, Ending, Undoable, Decided,
    Committed, MoveAside, Disposing, Disposal, Quarantine, Expected, Following,
    Verified, At
<1>15. Advanced(p)
  BY <1>6, <1>13, <1>14 DEF Advanced
<1>16. "undoStaging" \in Steps \ {"idle"}
  BY <1>1, <1>2 DEF Steps
<1> QED
  BY <1>3, <1>8, <1>9, <1>10, <1>11, <1>12, <1>14, <1>15, <1>16, Advances

LEMMA TrashesStagingUndone ==
    ASSUME IInv, NEW p \in Project, pc[p] = "undoStaging", Disposing(p, "trash"),
           tree[p]["q-staging"] = "new", Put(p, "q-staging", None), GoTo(p, "undone"),
           UNCHANGED <<journal, decision, memory, told, environment>>
    PROVE  IInv'
<1>1. TypeOK /\ ChangesKept /\ OnDisk(p) /\ Begins(p) /\ Undoes(p) /\ Ends(p) /\ Aside(p)
      /\ Roles(p)
  BY Parts
<1>2. pc[p] = "undoStaging" /\ step[p] = "trash" /\ tree[p]["q-staging"] = "new"
  BY DEF Disposing
<1>3. Works(p, "undone", job[p], "look")
  BY <1>1, <1>2, GoesTo DEF Steps
<1>4. Placed(p, tree[p]["root"], tree[p]["backup"], tree[p]["staging"],
                tree[p]["q-root"], tree[p]["q-backup"], None)
  BY <1>1, <1>2, TreeSet, StepsOf DEF TypeOK, Trees
<1>5. journal' = journal
  BY <1>1, <1>2 DEF disk
<1>6. UNCHANGED <<decision, memory, told, environment>>
  BY <1>1, <1>2 DEF disk
<1>7. UNCHANGED <<locks, begun, commit, app, start, edited>>
  BY <1>6 DEF memory, environment
<1>8. OnDisk(p)'
  BY <1>1, <1>2, <1>3, <1>4, <1>5, <1>6, Constants DEF OnDisk, Works, Placed,
    Journalled, Exists, Undoable, Decided, Committed, Places, Roots
<1>9. Begins(p)'
  BY <1>1, <1>2, <1>3, <1>4, <1>5, <1>6, Constants DEF Begins, Beginning, Works
<1>10. Undoes(p)'
  BY <1>1, <1>2, <1>3, <1>4, <1>5, <1>6, Constants DEF Undoes, Undoing, Works, Placed,
    Journalled, Exists, Undoable, Decided, Committed, Places, Roots
<1>11. Ends(p)'
  BY <1>1, <1>2, <1>3, <1>4, <1>5, <1>6, Constants DEF Ends, Ending, Works
<1>12. Aside(p)'
  BY <1>1, <1>2, <1>3, <1>4, <1>5, <1>6, Constants DEF Aside, Works
<1>13. p \in edited =>
           \E place \in Places : tree'[p][place] \in {"old+", "new+", "foreign"}
  BY <1>1, <1>2, <1>3, <1>4, <1>5, <1>6, Constants DEF ChangesKept, OnDisk, Begins,
    Aside, Undoes, Beginning, Works, Placed, Journalled, Exists, Undoable, Decided,
    Committed, Places, Roots
<1>14. /\ tree' \in [Project -> [Places -> Trees \cup {None}]]
       /\ journal' \in [Project -> Phases \cup {None}]
       /\ \A q \in Project \ {p} : tree'[q] = tree[q] /\ journal'[q] = journal[q]
       /\ journal'[p] # None /\ (journal[p] \in Committed => journal'[p] \in Committed)
       /\ (journal'[p] \in Committed => Decided(p))
       /\ pc[p] # "idle"
  BY <1>1, <1>2, <1>3, <1>4, <1>5, <1>6, Constants DEF Placed, Journalled, TypeOK,
    Roles, Begins, Undoes, Ends, Beginning, Undoing, Ending, Undoable, Decided,
    Committed, At
<1>15. Advanced(p)
  BY <1>6, <1>13, <1>14 DEF Advanced
<1>16. "undone" \in Steps \ {"idle"}
  BY <1>1, <1>2 DEF Steps
<1> QED
  BY <1>3, <1>8, <1>9, <1>10, <1>11, <1>12, <1>14, <1>15, <1>16, Advances

LEMMA MovesAsideBackup ==
    ASSUME IInv, NEW p \in Project, pc[p] = "endBackup", MoveAside(p)
    PROVE  IInv'
<1>1. TypeOK /\ ChangesKept /\ OnDisk(p) /\ Begins(p) /\ Undoes(p) /\ Ends(p) /\ Aside(p)
      /\ Roles(p)
  BY Parts
<1>2. pc[p] = "endBackup" /\ step[p] = "move" /\ pc[p] \in DOMAIN Disposal
  BY DEF MoveAside, Disposing
<1>3. Works(p, "endBackup", job[p], "trash")
  BY <1>1, <1>2, GoesOn DEF MoveAside, Disposing, Disposal, Quarantine, Expected,
    Following, Verified, Steps
<1>4. Placed(p, tree[p]["root"], None, tree[p]["staging"],
                tree[p]["q-root"], tree[p]["backup"], tree[p]["q-staging"])
  <2>1. /\ tree \in [Project -> [Places -> Trees \cup {None}]]
        /\ Rename(p, "backup", "q-backup")
        /\ "backup" \in Places /\ "q-backup" \in Places \ {"backup"}
    BY <1>1, <1>2 DEF MoveAside, Disposing, Disposal, Quarantine, Expected, Following,
      Verified, TypeOK, Places, Roots
  <2> QED
    BY <2>1, TreeRenamed
<1>5. journal' = journal
  BY <1>1, <1>2 DEF MoveAside, Disposing, Disposal, Quarantine, Expected, Following,
    Verified, disk
<1>6. UNCHANGED <<decision, memory, told, environment>>
  BY <1>1, <1>2 DEF MoveAside, Disposing, Disposal, Quarantine, Expected, Following,
    Verified, disk
<1>7. UNCHANGED <<locks, begun, commit, app, start, edited>>
  BY <1>6 DEF memory, environment
<1>8. OnDisk(p)'
  BY <1>1, <1>2, <1>3, <1>4, <1>5, <1>6, Constants DEF OnDisk, Begins, Undoes, Ends,
    Aside, Beginning, Undoing, Ending, Works, Placed, Journalled, Exists, Undoable,
    Decided, Committed, Places, Roots
<1>9. Begins(p)'
  BY <1>1, <1>2, <1>3, <1>4, <1>5, <1>6, Constants DEF Begins, Beginning, Works
<1>10. Undoes(p)'
  BY <1>1, <1>2, <1>3, <1>4, <1>5, <1>6, Constants DEF Undoes, Undoing, Works
<1>11. Ends(p)'
  BY <1>1, <1>2, <1>3, <1>4, <1>5, <1>6, Constants DEF Ends, Ending, Works, Placed,
    Journalled, Exists, Undoable, Decided, Committed, Places, Roots
<1>12. Aside(p)'
  BY <1>1, <1>2, <1>3, <1>4, <1>5, <1>6, Constants DEF Aside, Works
<1>13. p \in edited =>
           \E place \in Places : tree'[p][place] \in {"old+", "new+", "foreign"}
  BY <1>1, <1>2, <1>3, <1>4, <1>5, <1>6, Constants DEF ChangesKept, OnDisk, Begins,
    Aside, Undoes, Beginning, Works, Placed, Journalled, Exists, Undoable, Decided,
    Committed, Places, Roots
<1>14. /\ tree' \in [Project -> [Places -> Trees \cup {None}]]
       /\ journal' \in [Project -> Phases \cup {None}]
       /\ \A q \in Project \ {p} : tree'[q] = tree[q] /\ journal'[q] = journal[q]
       /\ journal'[p] # None /\ (journal[p] \in Committed => journal'[p] \in Committed)
       /\ (journal'[p] \in Committed => Decided(p))
       /\ pc[p] # "idle"
  BY <1>1, <1>2, <1>3, <1>4, <1>5, <1>6, Constants DEF Placed, Journalled, TypeOK,
    Roles, Begins, Undoes, Ends, Beginning, Undoing, Ending, Undoable, Decided,
    Committed, MoveAside, Disposing, Disposal, Quarantine, Expected, Following,
    Verified, At
<1>15. Advanced(p)
  BY <1>6, <1>13, <1>14 DEF Advanced
<1>16. "endBackup" \in Steps \ {"idle"}
  BY <1>1, <1>2 DEF Steps
<1> QED
  BY <1>3, <1>8, <1>9, <1>10, <1>11, <1>12, <1>14, <1>15, <1>16, Advances

LEMMA TrashesBackup ==
    ASSUME IInv, NEW p \in Project, pc[p] = "endBackup", Disposing(p, "trash"),
           tree[p]["q-backup"] = "old", Put(p, "q-backup", None), GoTo(p, "endStaging"),
           UNCHANGED <<journal, decision, memory, told, environment>>
    PROVE  IInv'
<1>1. TypeOK /\ ChangesKept /\ OnDisk(p) /\ Begins(p) /\ Undoes(p) /\ Ends(p) /\ Aside(p)
      /\ Roles(p)
  BY Parts
<1>2. pc[p] = "endBackup" /\ step[p] = "trash" /\ tree[p]["q-backup"] = "old"
  BY DEF Disposing
<1>3. Works(p, "endStaging", job[p], "look")
  BY <1>1, <1>2, GoesTo DEF Steps
<1>4. Placed(p, tree[p]["root"], tree[p]["backup"], tree[p]["staging"],
                tree[p]["q-root"], None, tree[p]["q-staging"])
  BY <1>1, <1>2, TreeSet, StepsOf DEF TypeOK, Trees
<1>5. journal' = journal
  BY <1>1, <1>2 DEF disk
<1>6. UNCHANGED <<decision, memory, told, environment>>
  BY <1>1, <1>2 DEF disk
<1>7. UNCHANGED <<locks, begun, commit, app, start, edited>>
  BY <1>6 DEF memory, environment
<1>8. OnDisk(p)'
  BY <1>1, <1>2, <1>3, <1>4, <1>5, <1>6, Constants DEF OnDisk, Works, Placed,
    Journalled, Exists, Undoable, Decided, Committed, Places, Roots
<1>9. Begins(p)'
  BY <1>1, <1>2, <1>3, <1>4, <1>5, <1>6, Constants DEF Begins, Beginning, Works
<1>10. Undoes(p)'
  BY <1>1, <1>2, <1>3, <1>4, <1>5, <1>6, Constants DEF Undoes, Undoing, Works
<1>11. Ends(p)'
  BY <1>1, <1>2, <1>3, <1>4, <1>5, <1>6, Constants DEF Ends, Ending, Works, Placed,
    Journalled, Exists, Undoable, Decided, Committed, Places, Roots
<1>12. Aside(p)'
  BY <1>1, <1>2, <1>3, <1>4, <1>5, <1>6, Constants DEF Aside, Works
<1>13. p \in edited =>
           \E place \in Places : tree'[p][place] \in {"old+", "new+", "foreign"}
  BY <1>1, <1>2, <1>3, <1>4, <1>5, <1>6, Constants DEF ChangesKept, OnDisk, Begins,
    Aside, Undoes, Beginning, Works, Placed, Journalled, Exists, Undoable, Decided,
    Committed, Places, Roots
<1>14. /\ tree' \in [Project -> [Places -> Trees \cup {None}]]
       /\ journal' \in [Project -> Phases \cup {None}]
       /\ \A q \in Project \ {p} : tree'[q] = tree[q] /\ journal'[q] = journal[q]
       /\ journal'[p] # None /\ (journal[p] \in Committed => journal'[p] \in Committed)
       /\ (journal'[p] \in Committed => Decided(p))
       /\ pc[p] # "idle"
  BY <1>1, <1>2, <1>3, <1>4, <1>5, <1>6, Constants DEF Placed, Journalled, TypeOK,
    Roles, Begins, Undoes, Ends, Beginning, Undoing, Ending, Undoable, Decided,
    Committed, At
<1>15. Advanced(p)
  BY <1>6, <1>13, <1>14 DEF Advanced
<1>16. "endStaging" \in Steps \ {"idle"}
  BY <1>1, <1>2 DEF Steps
<1> QED
  BY <1>3, <1>8, <1>9, <1>10, <1>11, <1>12, <1>14, <1>15, <1>16, Advances

LEMMA MovesAsideStaging ==
    ASSUME IInv, NEW p \in Project, pc[p] = "endStaging", MoveAside(p)
    PROVE  IInv'
<1>1. TypeOK /\ ChangesKept /\ OnDisk(p) /\ Begins(p) /\ Undoes(p) /\ Ends(p) /\ Aside(p)
      /\ Roles(p)
  BY Parts
<1>2. pc[p] = "endStaging" /\ step[p] = "move" /\ pc[p] \in DOMAIN Disposal
  BY DEF MoveAside, Disposing
<1>3. Works(p, "endStaging", job[p], "trash")
  BY <1>1, <1>2, GoesOn DEF MoveAside, Disposing, Disposal, Quarantine, Expected,
    Following, Verified, Steps
<1>4. Placed(p, tree[p]["root"], tree[p]["backup"], None,
                tree[p]["q-root"], tree[p]["q-backup"], tree[p]["staging"])
  <2>1. /\ tree \in [Project -> [Places -> Trees \cup {None}]]
        /\ Rename(p, "staging", "q-staging")
        /\ "staging" \in Places /\ "q-staging" \in Places \ {"staging"}
    BY <1>1, <1>2 DEF MoveAside, Disposing, Disposal, Quarantine, Expected, Following,
      Verified, TypeOK, Places, Roots
  <2> QED
    BY <2>1, TreeRenamed
<1>5. journal' = journal
  BY <1>1, <1>2 DEF MoveAside, Disposing, Disposal, Quarantine, Expected, Following,
    Verified, disk
<1>6. UNCHANGED <<decision, memory, told, environment>>
  BY <1>1, <1>2 DEF MoveAside, Disposing, Disposal, Quarantine, Expected, Following,
    Verified, disk
<1>7. UNCHANGED <<locks, begun, commit, app, start, edited>>
  BY <1>6 DEF memory, environment
<1>8. OnDisk(p)'
  BY <1>1, <1>2, <1>3, <1>4, <1>5, <1>6, Constants DEF OnDisk, Begins, Undoes, Ends,
    Aside, Beginning, Undoing, Ending, Works, Placed, Journalled, Exists, Undoable,
    Decided, Committed, Places, Roots
<1>9. Begins(p)'
  BY <1>1, <1>2, <1>3, <1>4, <1>5, <1>6, Constants DEF Begins, Beginning, Works
<1>10. Undoes(p)'
  BY <1>1, <1>2, <1>3, <1>4, <1>5, <1>6, Constants DEF Undoes, Undoing, Works
<1>11. Ends(p)'
  BY <1>1, <1>2, <1>3, <1>4, <1>5, <1>6, Constants DEF Ends, Ending, Works, Placed,
    Journalled, Exists, Undoable, Decided, Committed, Places, Roots
<1>12. Aside(p)'
  BY <1>1, <1>2, <1>3, <1>4, <1>5, <1>6, Constants DEF Aside, Works
<1>13. p \in edited =>
           \E place \in Places : tree'[p][place] \in {"old+", "new+", "foreign"}
  BY <1>1, <1>2, <1>3, <1>4, <1>5, <1>6, Constants DEF ChangesKept, OnDisk, Begins,
    Aside, Undoes, Beginning, Works, Placed, Journalled, Exists, Undoable, Decided,
    Committed, Places, Roots
<1>14. /\ tree' \in [Project -> [Places -> Trees \cup {None}]]
       /\ journal' \in [Project -> Phases \cup {None}]
       /\ \A q \in Project \ {p} : tree'[q] = tree[q] /\ journal'[q] = journal[q]
       /\ journal'[p] # None /\ (journal[p] \in Committed => journal'[p] \in Committed)
       /\ (journal'[p] \in Committed => Decided(p))
       /\ pc[p] # "idle"
  BY <1>1, <1>2, <1>3, <1>4, <1>5, <1>6, Constants DEF Placed, Journalled, TypeOK,
    Roles, Begins, Undoes, Ends, Beginning, Undoing, Ending, Undoable, Decided,
    Committed, MoveAside, Disposing, Disposal, Quarantine, Expected, Following,
    Verified, At
<1>15. Advanced(p)
  BY <1>6, <1>13, <1>14 DEF Advanced
<1>16. "endStaging" \in Steps \ {"idle"}
  BY <1>1, <1>2 DEF Steps
<1> QED
  BY <1>3, <1>8, <1>9, <1>10, <1>11, <1>12, <1>14, <1>15, <1>16, Advances

LEMMA TrashesStaging ==
    ASSUME IInv, NEW p \in Project, pc[p] = "endStaging", Disposing(p, "trash"),
           tree[p]["q-staging"] = "new", Put(p, "q-staging", None), GoTo(p, "ended"),
           UNCHANGED <<journal, decision, memory, told, environment>>
    PROVE  IInv'
<1>1. TypeOK /\ ChangesKept /\ OnDisk(p) /\ Begins(p) /\ Undoes(p) /\ Ends(p) /\ Aside(p)
      /\ Roles(p)
  BY Parts
<1>2. pc[p] = "endStaging" /\ step[p] = "trash" /\ tree[p]["q-staging"] = "new"
  BY DEF Disposing
<1>3. Works(p, "ended", job[p], "look")
  BY <1>1, <1>2, GoesTo DEF Steps
<1>4. Placed(p, tree[p]["root"], tree[p]["backup"], tree[p]["staging"],
                tree[p]["q-root"], tree[p]["q-backup"], None)
  BY <1>1, <1>2, TreeSet, StepsOf DEF TypeOK, Trees
<1>5. journal' = journal
  BY <1>1, <1>2 DEF disk
<1>6. UNCHANGED <<decision, memory, told, environment>>
  BY <1>1, <1>2 DEF disk
<1>7. UNCHANGED <<locks, begun, commit, app, start, edited>>
  BY <1>6 DEF memory, environment
<1>8. OnDisk(p)'
  BY <1>1, <1>2, <1>3, <1>4, <1>5, <1>6, Constants DEF OnDisk, Works, Placed,
    Journalled, Exists, Undoable, Decided, Committed, Places, Roots
<1>9. Begins(p)'
  BY <1>1, <1>2, <1>3, <1>4, <1>5, <1>6, Constants DEF Begins, Beginning, Works
<1>10. Undoes(p)'
  BY <1>1, <1>2, <1>3, <1>4, <1>5, <1>6, Constants DEF Undoes, Undoing, Works
<1>11. Ends(p)'
  BY <1>1, <1>2, <1>3, <1>4, <1>5, <1>6, Constants DEF Ends, Ending, Works, Placed,
    Journalled, Exists, Undoable, Decided, Committed, Places, Roots
<1>12. Aside(p)'
  BY <1>1, <1>2, <1>3, <1>4, <1>5, <1>6, Constants DEF Aside, Works
<1>13. p \in edited =>
           \E place \in Places : tree'[p][place] \in {"old+", "new+", "foreign"}
  BY <1>1, <1>2, <1>3, <1>4, <1>5, <1>6, Constants DEF ChangesKept, OnDisk, Begins,
    Aside, Undoes, Beginning, Works, Placed, Journalled, Exists, Undoable, Decided,
    Committed, Places, Roots
<1>14. /\ tree' \in [Project -> [Places -> Trees \cup {None}]]
       /\ journal' \in [Project -> Phases \cup {None}]
       /\ \A q \in Project \ {p} : tree'[q] = tree[q] /\ journal'[q] = journal[q]
       /\ journal'[p] # None /\ (journal[p] \in Committed => journal'[p] \in Committed)
       /\ (journal'[p] \in Committed => Decided(p))
       /\ pc[p] # "idle"
  BY <1>1, <1>2, <1>3, <1>4, <1>5, <1>6, Constants DEF Placed, Journalled, TypeOK,
    Roles, Begins, Undoes, Ends, Beginning, Undoing, Ending, Undoable, Decided,
    Committed, At
<1>15. Advanced(p)
  BY <1>6, <1>13, <1>14 DEF Advanced
<1>16. "ended" \in Steps \ {"idle"}
  BY <1>1, <1>2 DEF Steps
<1> QED
  BY <1>3, <1>8, <1>9, <1>10, <1>11, <1>12, <1>14, <1>15, <1>16, Advances

LEMMA RestoresBackup ==
    ASSUME IInv, NEW p \in Project, At(p, "undo"), tree[p]["backup"] = "old",
           journal[p] # "staging",
           GoTo(p, "undoRoot"), UNCHANGED <<disk, memory, told, environment>>
    PROVE  IInv'
<1>1. TypeOK /\ ChangesKept /\ OnDisk(p) /\ Begins(p) /\ Undoes(p) /\ Ends(p) /\ Aside(p)
      /\ Roles(p)
  BY Parts
<1>2. pc[p] = "undo"
  BY DEF At
<1>3. Works(p, "undoRoot", job[p], "look")
  BY <1>1, <1>2, GoesTo DEF Steps
<1>4. tree' = tree
  BY <1>1, <1>2 DEF disk
<1>5. journal' = journal
  BY <1>1, <1>2 DEF disk
<1>6. UNCHANGED <<decision, memory, told, environment>>
  BY <1>1, <1>2 DEF disk
<1>7. UNCHANGED <<locks, begun, commit, app, start, edited>>
  BY <1>6 DEF memory, environment
<1>8. OnDisk(p)'
  BY <1>1, <1>2, <1>3, <1>4, <1>5, <1>6, Constants DEF OnDisk, Works, Placed,
    Journalled, Exists, Undoable, Decided, Committed, Places, Roots
<1>9. Begins(p)'
  BY <1>1, <1>2, <1>3, <1>4, <1>5, <1>6, Constants DEF Begins, Beginning, Works
<1>10. Undoes(p)'
  BY <1>1, <1>2, <1>3, <1>4, <1>5, <1>6, Constants DEF Undoes, Undoing, Works, Placed,
    Journalled, Exists, Undoable, Decided, Committed, Places, Roots
<1>11. Ends(p)'
  BY <1>1, <1>2, <1>3, <1>4, <1>5, <1>6, Constants DEF Ends, Ending, Works
<1>12. Aside(p)'
  BY <1>1, <1>2, <1>3, <1>4, <1>5, <1>6, Constants DEF Aside, Works
<1>13. p \in edited =>
           \E place \in Places : tree'[p][place] \in {"old+", "new+", "foreign"}
  BY <1>1, <1>2, <1>3, <1>4, <1>5, <1>6, Constants DEF ChangesKept
<1>14. /\ tree' \in [Project -> [Places -> Trees \cup {None}]]
       /\ journal' \in [Project -> Phases \cup {None}]
       /\ \A q \in Project \ {p} : tree'[q] = tree[q] /\ journal'[q] = journal[q]
       /\ journal'[p] # None /\ (journal[p] \in Committed => journal'[p] \in Committed)
       /\ (journal'[p] \in Committed => Decided(p))
       /\ pc[p] # "idle"
  BY <1>1, <1>2, <1>3, <1>4, <1>5, <1>6, Constants DEF Placed, Journalled, TypeOK,
    Roles, Begins, Undoes, Ends, Beginning, Undoing, Ending, Undoable, Decided,
    Committed, At
<1>15. Advanced(p)
  BY <1>6, <1>13, <1>14 DEF Advanced
<1>16. "undoRoot" \in Steps \ {"idle"}
  BY <1>1, <1>2 DEF Steps
<1> QED
  BY <1>3, <1>8, <1>9, <1>10, <1>11, <1>12, <1>14, <1>15, <1>16, Advances

LEMMA FindsOldRoot ==
    ASSUME IInv, NEW p \in Project, At(p, "undo"), ~Exists(p, "backup"), Exists(p, "root"),
           GoTo(p, "undoneRoot"), UNCHANGED <<disk, memory, told, environment>>
    PROVE  IInv'
<1>1. TypeOK /\ ChangesKept /\ OnDisk(p) /\ Begins(p) /\ Undoes(p) /\ Ends(p) /\ Aside(p)
      /\ Roles(p)
  BY Parts
<1>2. pc[p] = "undo"
  BY DEF At
<1>3. Works(p, "undoneRoot", job[p], "look")
  BY <1>1, <1>2, GoesTo DEF Steps
<1>4. tree' = tree
  BY <1>1, <1>2 DEF disk
<1>5. journal' = journal
  BY <1>1, <1>2 DEF disk
<1>6. UNCHANGED <<decision, memory, told, environment>>
  BY <1>1, <1>2 DEF disk
<1>7. UNCHANGED <<locks, begun, commit, app, start, edited>>
  BY <1>6 DEF memory, environment
<1>8. OnDisk(p)'
  BY <1>1, <1>2, <1>3, <1>4, <1>5, <1>6, Constants DEF OnDisk, Works, Placed,
    Journalled, Exists, Undoable, Decided, Committed, Places, Roots
<1>9. Begins(p)'
  BY <1>1, <1>2, <1>3, <1>4, <1>5, <1>6, Constants DEF Begins, Beginning, Works
<1>10. Undoes(p)'
  BY <1>1, <1>2, <1>3, <1>4, <1>5, <1>6, Constants DEF Undoes, Undoing, Works, Placed,
    Journalled, Exists, Undoable, Decided, Committed, Places, Roots
<1>11. Ends(p)'
  BY <1>1, <1>2, <1>3, <1>4, <1>5, <1>6, Constants DEF Ends, Ending, Works
<1>12. Aside(p)'
  BY <1>1, <1>2, <1>3, <1>4, <1>5, <1>6, Constants DEF Aside, Works
<1>13. p \in edited =>
           \E place \in Places : tree'[p][place] \in {"old+", "new+", "foreign"}
  BY <1>1, <1>2, <1>3, <1>4, <1>5, <1>6, Constants DEF ChangesKept
<1>14. /\ tree' \in [Project -> [Places -> Trees \cup {None}]]
       /\ journal' \in [Project -> Phases \cup {None}]
       /\ \A q \in Project \ {p} : tree'[q] = tree[q] /\ journal'[q] = journal[q]
       /\ journal'[p] # None /\ (journal[p] \in Committed => journal'[p] \in Committed)
       /\ (journal'[p] \in Committed => Decided(p))
       /\ pc[p] # "idle"
  BY <1>1, <1>2, <1>3, <1>4, <1>5, <1>6, Constants DEF Placed, Journalled, TypeOK,
    Roles, Begins, Undoes, Ends, Beginning, Undoing, Ending, Undoable, Decided,
    Committed, At
<1>15. Advanced(p)
  BY <1>6, <1>13, <1>14 DEF Advanced
<1>16. "undoneRoot" \in Steps \ {"idle"}
  BY <1>1, <1>2 DEF Steps
<1> QED
  BY <1>3, <1>8, <1>9, <1>10, <1>11, <1>12, <1>14, <1>15, <1>16, Advances

LEMMA MovesBackupBack ==
    ASSUME IInv, NEW p \in Project, At(p, "undoBackup"), ~Exists(p, "root"),
           Rename(p, "backup", "root"),
           GoTo(p, "undoneRoot"), UNCHANGED <<journal, decision, memory, told, environment>>
    PROVE  IInv'
<1>1. TypeOK /\ ChangesKept /\ OnDisk(p) /\ Begins(p) /\ Undoes(p) /\ Ends(p) /\ Aside(p)
      /\ Roles(p)
  BY Parts
<1>2. pc[p] = "undoBackup"
  BY DEF At
<1>3. Works(p, "undoneRoot", job[p], "look")
  BY <1>1, <1>2, GoesTo DEF Steps
<1>4. Placed(p, tree[p]["backup"], None, tree[p]["staging"],
                tree[p]["q-root"], tree[p]["q-backup"], tree[p]["q-staging"])
  <2>1. /\ tree \in [Project -> [Places -> Trees \cup {None}]] /\ Rename(p, "backup", "root")
        /\ "backup" \in Places /\ "root" \in Places \ {"backup"}
    BY <1>1, <1>2 DEF TypeOK, Places, Roots
  <2> QED
    BY <2>1, TreeRenamed
<1>5. journal' = journal
  BY <1>1, <1>2 DEF disk
<1>6. UNCHANGED <<decision, memory, told, environment>>
  BY <1>1, <1>2 DEF disk
<1>7. UNCHANGED <<locks, begun, commit, app, start, edited>>
  BY <1>6 DEF memory, environment
<1>8. OnDisk(p)'
  BY <1>1, <1>2, <1>3, <1>4, <1>5, <1>6, Constants DEF OnDisk, Begins, Undoes, Ends,
    Aside, Beginning, Undoing, Ending, Works, Placed, Journalled, Exists, Undoable,
    Decided, Committed, Places, Roots
<1>9. Begins(p)'
  BY <1>1, <1>2, <1>3, <1>4, <1>5, <1>6, Constants DEF Begins, Beginning, Works
<1>10. Undoes(p)'
  BY <1>1, <1>2, <1>3, <1>4, <1>5, <1>6, Constants DEF Undoes, Undoing, Works, Placed,
    Journalled, Exists, Undoable, Decided, Committed, Places, Roots
<1>11. Ends(p)'
  BY <1>1, <1>2, <1>3, <1>4, <1>5, <1>6, Constants DEF Ends, Ending, Works
<1>12. Aside(p)'
  BY <1>1, <1>2, <1>3, <1>4, <1>5, <1>6, Constants DEF Aside, Works
<1>13. p \in edited =>
           \E place \in Places : tree'[p][place] \in {"old+", "new+", "foreign"}
  BY <1>1, <1>2, <1>3, <1>4, <1>5, <1>6, Constants DEF ChangesKept, OnDisk, Begins,
    Aside, Undoes, Beginning, Works, Placed, Journalled, Exists, Undoable, Decided,
    Committed, Places, Roots
<1>14. /\ tree' \in [Project -> [Places -> Trees \cup {None}]]
       /\ journal' \in [Project -> Phases \cup {None}]
       /\ \A q \in Project \ {p} : tree'[q] = tree[q] /\ journal'[q] = journal[q]
       /\ journal'[p] # None /\ (journal[p] \in Committed => journal'[p] \in Committed)
       /\ (journal'[p] \in Committed => Decided(p))
       /\ pc[p] # "idle"
  BY <1>1, <1>2, <1>3, <1>4, <1>5, <1>6, Constants DEF Placed, Journalled, TypeOK,
    Roles, Begins, Undoes, Ends, Beginning, Undoing, Ending, Undoable, Decided,
    Committed, At
<1>15. Advanced(p)
  BY <1>6, <1>13, <1>14 DEF Advanced
<1>16. "undoneRoot" \in Steps \ {"idle"}
  BY <1>1, <1>2 DEF Steps
<1> QED
  BY <1>3, <1>8, <1>9, <1>10, <1>11, <1>12, <1>14, <1>15, <1>16, Advances

LEMMA DisposesOfStaging ==
    ASSUME IInv, NEW p \in Project, At(p, "undoneRoot"), journal[p] # "staging",
           GoTo(p, "undoStaging"), UNCHANGED <<disk, memory, told, environment>>
    PROVE  IInv'
<1>1. TypeOK /\ ChangesKept /\ OnDisk(p) /\ Begins(p) /\ Undoes(p) /\ Ends(p) /\ Aside(p)
      /\ Roles(p)
  BY Parts
<1>2. pc[p] = "undoneRoot"
  BY DEF At
<1>3. Works(p, "undoStaging", job[p], "look")
  BY <1>1, <1>2, GoesTo DEF Steps
<1>4. tree' = tree
  BY <1>1, <1>2 DEF disk
<1>5. journal' = journal
  BY <1>1, <1>2 DEF disk
<1>6. UNCHANGED <<decision, memory, told, environment>>
  BY <1>1, <1>2 DEF disk
<1>7. UNCHANGED <<locks, begun, commit, app, start, edited>>
  BY <1>6 DEF memory, environment
<1>8. OnDisk(p)'
  BY <1>1, <1>2, <1>3, <1>4, <1>5, <1>6, Constants DEF OnDisk, Works, Placed,
    Journalled, Exists, Undoable, Decided, Committed, Places, Roots
<1>9. Begins(p)'
  BY <1>1, <1>2, <1>3, <1>4, <1>5, <1>6, Constants DEF Begins, Beginning, Works
<1>10. Undoes(p)'
  BY <1>1, <1>2, <1>3, <1>4, <1>5, <1>6, Constants DEF Undoes, Undoing, Works, Placed,
    Journalled, Exists, Undoable, Decided, Committed, Places, Roots
<1>11. Ends(p)'
  BY <1>1, <1>2, <1>3, <1>4, <1>5, <1>6, Constants DEF Ends, Ending, Works
<1>12. Aside(p)'
  BY <1>1, <1>2, <1>3, <1>4, <1>5, <1>6, Constants DEF Aside, Works
<1>13. p \in edited =>
           \E place \in Places : tree'[p][place] \in {"old+", "new+", "foreign"}
  BY <1>1, <1>2, <1>3, <1>4, <1>5, <1>6, Constants DEF ChangesKept
<1>14. /\ tree' \in [Project -> [Places -> Trees \cup {None}]]
       /\ journal' \in [Project -> Phases \cup {None}]
       /\ \A q \in Project \ {p} : tree'[q] = tree[q] /\ journal'[q] = journal[q]
       /\ journal'[p] # None /\ (journal[p] \in Committed => journal'[p] \in Committed)
       /\ (journal'[p] \in Committed => Decided(p))
       /\ pc[p] # "idle"
  BY <1>1, <1>2, <1>3, <1>4, <1>5, <1>6, Constants DEF Placed, Journalled, TypeOK,
    Roles, Begins, Undoes, Ends, Beginning, Undoing, Ending, Undoable, Decided,
    Committed, At
<1>15. Advanced(p)
  BY <1>6, <1>13, <1>14 DEF Advanced
<1>16. "undoStaging" \in Steps \ {"idle"}
  BY <1>1, <1>2 DEF Steps
<1> QED
  BY <1>3, <1>8, <1>9, <1>10, <1>11, <1>12, <1>14, <1>15, <1>16, Advances

LEMMA FindsNoStaging ==
    ASSUME IInv, NEW p \in Project, At(p, "undoneRoot"), journal[p] = "staging",
           ~Exists(p, "staging"),
           GoTo(p, "undone"), UNCHANGED <<disk, memory, told, environment>>
    PROVE  IInv'
<1>1. TypeOK /\ ChangesKept /\ OnDisk(p) /\ Begins(p) /\ Undoes(p) /\ Ends(p) /\ Aside(p)
      /\ Roles(p)
  BY Parts
<1>2. pc[p] = "undoneRoot"
  BY DEF At
<1>3. Works(p, "undone", job[p], "look")
  BY <1>1, <1>2, GoesTo DEF Steps
<1>4. tree' = tree
  BY <1>1, <1>2 DEF disk
<1>5. journal' = journal
  BY <1>1, <1>2 DEF disk
<1>6. UNCHANGED <<decision, memory, told, environment>>
  BY <1>1, <1>2 DEF disk
<1>7. UNCHANGED <<locks, begun, commit, app, start, edited>>
  BY <1>6 DEF memory, environment
<1>8. OnDisk(p)'
  BY <1>1, <1>2, <1>3, <1>4, <1>5, <1>6, Constants DEF OnDisk, Works, Placed,
    Journalled, Exists, Undoable, Decided, Committed, Places, Roots
<1>9. Begins(p)'
  BY <1>1, <1>2, <1>3, <1>4, <1>5, <1>6, Constants DEF Begins, Beginning, Works
<1>10. Undoes(p)'
  BY <1>1, <1>2, <1>3, <1>4, <1>5, <1>6, Constants DEF Undoes, Undoing, OnDisk, Begins,
    Beginning, Aside, Ends, Ending, Works, Placed, Journalled, Exists, Undoable,
    Decided, Committed, Places, Roots
<1>11. Ends(p)'
  BY <1>1, <1>2, <1>3, <1>4, <1>5, <1>6, Constants DEF Ends, Ending, Works
<1>12. Aside(p)'
  BY <1>1, <1>2, <1>3, <1>4, <1>5, <1>6, Constants DEF Aside, Works
<1>13. p \in edited =>
           \E place \in Places : tree'[p][place] \in {"old+", "new+", "foreign"}
  BY <1>1, <1>2, <1>3, <1>4, <1>5, <1>6, Constants DEF ChangesKept
<1>14. /\ tree' \in [Project -> [Places -> Trees \cup {None}]]
       /\ journal' \in [Project -> Phases \cup {None}]
       /\ \A q \in Project \ {p} : tree'[q] = tree[q] /\ journal'[q] = journal[q]
       /\ journal'[p] # None /\ (journal[p] \in Committed => journal'[p] \in Committed)
       /\ (journal'[p] \in Committed => Decided(p))
       /\ pc[p] # "idle"
  BY <1>1, <1>2, <1>3, <1>4, <1>5, <1>6, Constants DEF Placed, Journalled, TypeOK,
    Roles, Begins, Undoes, Ends, Beginning, Undoing, Ending, Undoable, Decided,
    Committed, At
<1>15. Advanced(p)
  BY <1>6, <1>13, <1>14 DEF Advanced
<1>16. "undone" \in Steps \ {"idle"}
  BY <1>1, <1>2 DEF Steps
<1> QED
  BY <1>3, <1>8, <1>9, <1>10, <1>11, <1>12, <1>14, <1>15, <1>16, Advances

LEMMA GoesOnFinalizing ==
    ASSUME IInv, NEW p \in Project, At(p, "end"), journal[p] = "cleanup-verified",
           GoTo(p, "endBackup"), UNCHANGED <<disk, memory, told, environment>>
    PROVE  IInv'
<1>1. TypeOK /\ ChangesKept /\ OnDisk(p) /\ Begins(p) /\ Undoes(p) /\ Ends(p) /\ Aside(p)
      /\ Roles(p)
  BY Parts
<1>2. pc[p] = "end"
  BY DEF At
<1>3. Works(p, "endBackup", job[p], "look")
  BY <1>1, <1>2, GoesTo DEF Steps
<1>4. tree' = tree
  BY <1>1, <1>2 DEF disk
<1>5. journal' = journal
  BY <1>1, <1>2 DEF disk
<1>6. UNCHANGED <<decision, memory, told, environment>>
  BY <1>1, <1>2 DEF disk
<1>7. UNCHANGED <<locks, begun, commit, app, start, edited>>
  BY <1>6 DEF memory, environment
<1>8. OnDisk(p)'
  BY <1>1, <1>2, <1>3, <1>4, <1>5, <1>6, Constants DEF OnDisk, Works, Placed,
    Journalled, Exists, Undoable, Decided, Committed, Places, Roots
<1>9. Begins(p)'
  BY <1>1, <1>2, <1>3, <1>4, <1>5, <1>6, Constants DEF Begins, Beginning, Works
<1>10. Undoes(p)'
  BY <1>1, <1>2, <1>3, <1>4, <1>5, <1>6, Constants DEF Undoes, Undoing, Works
<1>11. Ends(p)'
  BY <1>1, <1>2, <1>3, <1>4, <1>5, <1>6, Constants DEF Ends, Ending, Works, Placed,
    Journalled, Exists, Undoable, Decided, Committed, Places, Roots
<1>12. Aside(p)'
  BY <1>1, <1>2, <1>3, <1>4, <1>5, <1>6, Constants DEF Aside, Works
<1>13. p \in edited =>
           \E place \in Places : tree'[p][place] \in {"old+", "new+", "foreign"}
  BY <1>1, <1>2, <1>3, <1>4, <1>5, <1>6, Constants DEF ChangesKept
<1>14. /\ tree' \in [Project -> [Places -> Trees \cup {None}]]
       /\ journal' \in [Project -> Phases \cup {None}]
       /\ \A q \in Project \ {p} : tree'[q] = tree[q] /\ journal'[q] = journal[q]
       /\ journal'[p] # None /\ (journal[p] \in Committed => journal'[p] \in Committed)
       /\ (journal'[p] \in Committed => Decided(p))
       /\ pc[p] # "idle"
  BY <1>1, <1>2, <1>3, <1>4, <1>5, <1>6, Constants DEF Placed, Journalled, TypeOK,
    Roles, Begins, Undoes, Ends, Beginning, Undoing, Ending, Undoable, Decided,
    Committed, At
<1>15. Advanced(p)
  BY <1>6, <1>13, <1>14 DEF Advanced
<1>16. "endBackup" \in Steps \ {"idle"}
  BY <1>1, <1>2 DEF Steps
<1> QED
  BY <1>3, <1>8, <1>9, <1>10, <1>11, <1>12, <1>14, <1>15, <1>16, Advances

LEMMA VerifiesCleanup ==
    ASSUME IInv, NEW p \in Project, At(p, "end"), WriteJournal(p, "cleanup-verified"),
           GoTo(p, "endBackup"),
           UNCHANGED <<tree, decision, memory, told, environment>>
    PROVE  IInv'
<1>1. TypeOK /\ ChangesKept /\ OnDisk(p) /\ Begins(p) /\ Undoes(p) /\ Ends(p) /\ Aside(p)
      /\ Roles(p)
  BY Parts
<1>2. pc[p] = "end"
  BY DEF At
<1>3. Works(p, "endBackup", job[p], "look")
  BY <1>1, <1>2, GoesTo DEF Steps
<1>4. tree' = tree
  BY <1>1, <1>2 DEF disk
<1>5. Journalled(p, "cleanup-verified")
  BY <1>1, <1>2, JournalSet DEF TypeOK, Phases
<1>6. UNCHANGED <<decision, memory, told, environment>>
  BY <1>1, <1>2 DEF disk
<1>7. UNCHANGED <<locks, begun, commit, app, start, edited>>
  BY <1>6 DEF memory, environment
<1>8. OnDisk(p)'
  BY <1>1, <1>2, <1>3, <1>4, <1>5, <1>6, Constants DEF OnDisk, Begins, Undoes, Ends,
    Aside, Beginning, Undoing, Ending, Works, Placed, Journalled, Exists, Undoable,
    Decided, Committed, Places, Roots
<1>9. Begins(p)'
  BY <1>1, <1>2, <1>3, <1>4, <1>5, <1>6, Constants DEF Begins, Beginning, Works
<1>10. Undoes(p)'
  BY <1>1, <1>2, <1>3, <1>4, <1>5, <1>6, Constants DEF Undoes, Undoing, Works
<1>11. Ends(p)'
  BY <1>1, <1>2, <1>3, <1>4, <1>5, <1>6, Constants DEF Ends, Ending, Works, Placed,
    Journalled, Exists, Undoable, Decided, Committed, Places, Roots
<1>12. Aside(p)'
  BY <1>1, <1>2, <1>3, <1>4, <1>5, <1>6, Constants DEF Aside, Works
<1>13. p \in edited =>
           \E place \in Places : tree'[p][place] \in {"old+", "new+", "foreign"}
  BY <1>1, <1>2, <1>3, <1>4, <1>5, <1>6, Constants DEF ChangesKept
<1>14. /\ tree' \in [Project -> [Places -> Trees \cup {None}]]
       /\ journal' \in [Project -> Phases \cup {None}]
       /\ \A q \in Project \ {p} : tree'[q] = tree[q] /\ journal'[q] = journal[q]
       /\ journal'[p] # None /\ (journal[p] \in Committed => journal'[p] \in Committed)
       /\ (journal'[p] \in Committed => Decided(p))
       /\ pc[p] # "idle"
  BY <1>1, <1>2, <1>3, <1>4, <1>5, <1>6, Constants DEF Placed, Journalled, TypeOK,
    Roles, Begins, Undoes, Ends, Beginning, Undoing, Ending, Undoable, Decided,
    Committed, At
<1>15. Advanced(p)
  BY <1>6, <1>13, <1>14 DEF Advanced
<1>16. "endBackup" \in Steps \ {"idle"}
  BY <1>1, <1>2 DEF Steps
<1> QED
  BY <1>3, <1>8, <1>9, <1>10, <1>11, <1>12, <1>14, <1>15, <1>16, Advances

-----------------------------------------------------------------------------
(***************************************************************************)
(* Then the steps that begin or end a piece of work.                       *)
(***************************************************************************)
LEMMA Visited ==
    ASSUME TypeOK, NEW p \in Project, NEW conflict \in BOOLEAN, NEW pending \in BOOLEAN,
           CommitVisited(p, conflict, pending)
    PROVE  /\ commit' \in [members : SUBSET Project, todo : SUBSET Project,
                           conflict : BOOLEAN, pending : BOOLEAN]
           /\ commit'.members = commit.members /\ commit'.todo = commit.todo \ {p}
           /\ commit'.conflict = (commit.conflict \/ conflict)
           /\ commit'.pending = (commit.pending \/ pending)
BY DEF TypeOK, CommitVisited

LEMMA BeginsReplacement ==
    ASSUME IInv, NEW p \in Project, Begin(p)
    PROVE  IInv'
<1>1. /\ TypeOK /\ ChangesKept /\ Cohorts
      /\ OnDisk(p) /\ Begins(p) /\ Undoes(p) /\ Ends(p) /\ Aside(p) /\ Roles(p)
  BY Parts
<1>2. \A q \in Project : ProjectInv(q) /\ Roles(q)
  BY DEF IInv, ProjectInv
<1>3. Works(p, "copy", "begin", "look")
  BY <1>1, Starts DEF Begin, At, Steps
<1>4. tree' = tree
  BY <1>1 DEF Begin, At, disk
<1>5. Journalled(p, "staging")
  BY <1>1, JournalSet DEF Begin, At, TypeOK, Phases
<1>6. /\ locks' = locks \cup {p} /\ app = "up" /\ pc[p] = "idle" /\ journal[p] = None
      /\ tree[p]["root"] = "old"
      /\ UNCHANGED <<decision, begun, commit, app, start, told,
                     crashes, faults, edits, edited, own>>
  BY <1>1 DEF Begin, At, disk, memory, environment, TypeOK
<1>7. TypeOK'
  BY <1>1, <1>3, <1>4, <1>5, <1>6, Constants DEF TypeOK, Works, Placed, Journalled
<1>8. ChangesKept'
  BY <1>1, <1>3, <1>4, <1>5, <1>6, Constants DEF ChangesKept
<1>9. Cohorts'
  BY <1>1, <1>3, <1>4, <1>5, <1>6, Constants, <1>2 DEF Cohorts, Works
<1>10. OnDisk(p)'
  BY <1>1, <1>3, <1>4, <1>5, <1>6, Constants DEF OnDisk, Works, Placed, Journalled,
    Exists, Undoable, Decided, Committed, Places, Roots
<1>11. Begins(p)'
  BY <1>1, <1>3, <1>4, <1>5, <1>6, Constants DEF Begins, Undoes, Ends, OnDisk,
    Beginning, Undoing, Ending, Works, Placed, Journalled, Exists, Undoable, Decided,
    Committed, Places, Roots
<1>12. Undoes(p)'
  BY <1>1, <1>3, <1>4, <1>5, <1>6, Constants DEF Undoes, Undoing, Works
<1>13. Ends(p)'
  BY <1>1, <1>3, <1>4, <1>5, <1>6, Constants DEF Ends, Ending, Works
<1>14. Aside(p)'
  BY <1>1, <1>3, <1>4, <1>5, <1>6, Constants DEF Aside, Works
<1>15. Roles(p)'
  BY <1>1, <1>3, <1>4, <1>5, <1>6, Constants DEF Roles, Undoable, Decided, Committed,
    Works, Journalled, Cohorts, OnDisk, TypeOK, Placed
<1>16. ASSUME NEW q \in Project \ {p}
       PROVE  Roles(q)'
  BY <1>1, <1>3, <1>4, <1>5, <1>6, Constants, <1>2 DEF Roles, Undoable, Decided,
    Committed, Works, Journalled
<1>17. ASSUME NEW q \in Project \ {p}
       PROVE  OnDisk(q)' /\ Begins(q)' /\ Undoes(q)' /\ Ends(q)' /\ Aside(q)'
  BY <1>1, <1>3, <1>4, <1>5, <1>6, Constants, <1>2, OtherKept DEF Same, Works, Placed,
    Journalled
<1>18. \A q \in Project : ProjectInv(q)'
  BY <1>10, <1>11, <1>12, <1>13, <1>14, <1>15, <1>16, <1>17 DEF ProjectInv
<1> QED
  BY <1>7, <1>8, <1>9, <1>18 DEF IInv

LEMMA Registers ==
    ASSUME IInv, NEW p \in Project, Register(p)
    PROVE  IInv'
<1>1. /\ TypeOK /\ ChangesKept /\ Cohorts
      /\ OnDisk(p) /\ Begins(p) /\ Undoes(p) /\ Ends(p) /\ Aside(p) /\ Roles(p)
  BY Parts
<1>2. \A q \in Project : ProjectInv(q) /\ Roles(q)
  BY DEF IInv, ProjectInv
<1>3. Works(p, "idle", job[p], "look")
  BY <1>1, GoesTo DEF Register, At, Steps
<1>4. tree' = tree
  BY <1>1 DEF Register, At, disk
<1>5. journal' = journal
  BY <1>1 DEF Register, At, disk
<1>6. /\ begun' = begun \cup {p} /\ pc[p] = "register"
      /\ UNCHANGED <<decision, locks, commit, app, start, told,
                     crashes, faults, edits, edited, own>>
  BY <1>1 DEF Register, At, disk, memory, environment, TypeOK
<1>7. TypeOK'
  BY <1>1, <1>3, <1>4, <1>5, <1>6, Constants DEF TypeOK, Works, Placed, Journalled
<1>8. ChangesKept'
  BY <1>1, <1>3, <1>4, <1>5, <1>6, Constants DEF ChangesKept
<1>9. Cohorts'
  BY <1>1, <1>3, <1>4, <1>5, <1>6, Constants, <1>2 DEF Cohorts, Works
<1>10. OnDisk(p)'
  BY <1>1, <1>3, <1>4, <1>5, <1>6, Constants DEF OnDisk, Works, Placed, Journalled,
    Exists, Undoable, Decided, Committed, Places, Roots
<1>11. Begins(p)'
  BY <1>1, <1>3, <1>4, <1>5, <1>6, Constants DEF Begins, Beginning, Works
<1>12. Undoes(p)'
  BY <1>1, <1>3, <1>4, <1>5, <1>6, Constants DEF Undoes, Undoing, Works
<1>13. Ends(p)'
  BY <1>1, <1>3, <1>4, <1>5, <1>6, Constants DEF Ends, Ending, Works
<1>14. Aside(p)'
  BY <1>1, <1>3, <1>4, <1>5, <1>6, Constants DEF Aside, Works
<1>15. Roles(p)'
  BY <1>1, <1>3, <1>4, <1>5, <1>6, Constants DEF Roles, Undoable, Decided, Committed,
    Works, Journalled, Cohorts, OnDisk, TypeOK, Placed, Begins, Undoes, Ends, Beginning,
    Undoing, Ending
<1>16. ASSUME NEW q \in Project \ {p}
       PROVE  Roles(q)'
  BY <1>1, <1>3, <1>4, <1>5, <1>6, Constants, <1>2 DEF Roles, Undoable, Decided,
    Committed, Works, Journalled
<1>17. ASSUME NEW q \in Project \ {p}
       PROVE  OnDisk(q)' /\ Begins(q)' /\ Undoes(q)' /\ Ends(q)' /\ Aside(q)'
  BY <1>1, <1>3, <1>4, <1>5, <1>6, Constants, <1>2, OtherKept DEF Same, Works, Placed,
    Journalled
<1>18. \A q \in Project : ProjectInv(q)'
  BY <1>10, <1>11, <1>12, <1>13, <1>14, <1>15, <1>16, <1>17 DEF ProjectInv
<1> QED
  BY <1>7, <1>8, <1>9, <1>18 DEF IInv

LEMMA FinishesRestoration ==
    ASSUME IInv, NEW p \in Project, Restored(p)
    PROVE  IInv'
<1>1. /\ TypeOK /\ ChangesKept /\ Cohorts
      /\ OnDisk(p) /\ Begins(p) /\ Undoes(p) /\ Ends(p) /\ Aside(p) /\ Roles(p)
  BY Parts
<1>2. \A q \in Project : ProjectInv(q) /\ Roles(q)
  BY DEF IInv, ProjectInv
<1>3. pc[p] = "undone" /\ job[p] \in {"abort", "rollback", "recover"}
  BY <1>1 DEF Restored, At, Undoes, Undoing
<1>4. Works(p, "idle", job[p], "look")
  BY <1>1, <1>3, GoesTo DEF Restored, At, Finishes, Steps
<1>5. tree' = tree
  BY <1>1, <1>3 DEF Restored, At, Finishes, disk
<1>6. Journalled(p, None)
  BY <1>1, <1>3, JournalSet DEF Restored, At, Finishes, TypeOK, Phases
<1>7. /\ locks' = locks \ {p} /\ begun' = begun \ {p} /\ start' = start \ {p}
      /\ told' \in [Project -> {"nothing", "committed", "restored"}]
      /\ UNCHANGED <<decision, commit, app, crashes, faults, edits, edited, own>>
  BY <1>1, <1>3 DEF Restored, At, Finishes, disk, memory, environment, TypeOK
<1>8. TypeOK'
  BY <1>1, <1>3, <1>4, <1>5, <1>6, <1>7, Constants DEF TypeOK, Works, Placed, Journalled
<1>9. ChangesKept'
  BY <1>1, <1>3, <1>4, <1>5, <1>6, <1>7, Constants DEF ChangesKept
<1>10. Cohorts'
  BY <1>1, <1>3, <1>4, <1>5, <1>6, <1>7, Constants, <1>2 DEF Cohorts, Works
<1>11. OnDisk(p)'
  BY <1>1, <1>3, <1>4, <1>5, <1>6, <1>7, Constants DEF OnDisk, Begins, Undoes, Ends,
    Aside, Beginning, Undoing, Ending, Works, Placed, Journalled, Exists, Undoable,
    Decided, Committed, Places, Roots
<1>12. Begins(p)'
  BY <1>1, <1>3, <1>4, <1>5, <1>6, <1>7, Constants DEF Begins, Beginning, Works
<1>13. Undoes(p)'
  BY <1>1, <1>3, <1>4, <1>5, <1>6, <1>7, Constants DEF Undoes, Undoing, Works
<1>14. Ends(p)'
  BY <1>1, <1>3, <1>4, <1>5, <1>6, <1>7, Constants DEF Ends, Ending, Works
<1>15. Aside(p)'
  BY <1>1, <1>3, <1>4, <1>5, <1>6, <1>7, Constants DEF Aside, Works
<1>16. Roles(p)'
  BY <1>1, <1>3, <1>4, <1>5, <1>6, <1>7, Constants DEF Roles, Undoable, Decided,
    Committed, Works, Journalled, Cohorts, OnDisk, TypeOK, Placed, Begins, Undoes, Ends,
    Beginning, Undoing, Ending
<1>17. ASSUME NEW q \in Project \ {p}
       PROVE  Roles(q)'
  BY <1>1, <1>3, <1>4, <1>5, <1>6, <1>7, Constants, <1>2 DEF Roles, Undoable, Decided,
    Committed, Works, Journalled
<1>18. ASSUME NEW q \in Project \ {p}
       PROVE  OnDisk(q)' /\ Begins(q)' /\ Undoes(q)' /\ Ends(q)' /\ Aside(q)'
  BY <1>1, <1>3, <1>4, <1>5, <1>6, <1>7, Constants, <1>2, OtherKept DEF Same, Works,
    Placed, Journalled
<1>19. \A q \in Project : ProjectInv(q)'
  BY <1>11, <1>12, <1>13, <1>14, <1>15, <1>16, <1>17, <1>18 DEF ProjectInv
<1> QED
  BY <1>8, <1>9, <1>10, <1>19 DEF IInv

LEMMA Finalizes ==
    ASSUME IInv, NEW p \in Project, Finalized(p)
    PROVE  IInv'
<1>1. /\ TypeOK /\ ChangesKept /\ Cohorts
      /\ OnDisk(p) /\ Begins(p) /\ Undoes(p) /\ Ends(p) /\ Aside(p) /\ Roles(p)
  BY Parts
<1>2. \A q \in Project : ProjectInv(q) /\ Roles(q)
  BY DEF IInv, ProjectInv
<1>3. pc[p] = "ended" /\ job[p] \in {"commit", "recover"}
  BY <1>1 DEF Finalized, At, Ends, Ending
<1>4. Works(p, "idle", job[p], "look")
  BY <1>1, <1>3, GoesTo DEF Finalized, At, Finishes, Steps
<1>5. tree' = tree
  BY <1>1, <1>3 DEF Finalized, At, Finishes, disk
<1>6. Journalled(p, None)
  BY <1>1, <1>3, JournalSet DEF Finalized, At, Finishes, TypeOK, Phases
<1>7. /\ locks' = locks \ {p} /\ begun' = begun \ {p} /\ start' = start \ {p}
      /\ commit' \in [members : SUBSET Project, todo : SUBSET Project,
                     conflict : BOOLEAN, pending : BOOLEAN]
      /\ commit'.members = commit.members
      /\ commit'.todo = IF job[p] = "commit" THEN commit.todo \ {p} ELSE commit.todo
      /\ commit'.conflict = commit.conflict /\ commit'.pending = commit.pending
      /\ UNCHANGED <<told, decision, app, crashes, faults, edits, edited, own>>
  <2>1. /\ locks' = locks \ {p} /\ begun' = begun \ {p} /\ start' = start \ {p}
        /\ UNCHANGED <<told, decision, app, crashes, faults, edits, edited, own>>
    BY <1>1, <1>3 DEF Finalized, Finishes, environment
  <2>2. CASE job[p] = "commit"
    <3>1. CommitVisited(p, FALSE, FALSE)
      BY <2>2 DEF Finalized, Finishes
    <3> QED
      BY <1>1, <1>3, <2>1, <2>2, <3>1, Visited DEF TypeOK
  <2>3. CASE job[p] # "commit"
    BY <1>1, <1>3, <2>1, <2>3 DEF Finalized, Finishes, TypeOK
  <2> QED
    BY <2>2, <2>3
<1>8. TypeOK'
  BY <1>1, <1>3, <1>4, <1>5, <1>6, <1>7, Constants DEF TypeOK, Works, Placed, Journalled
<1>9. ChangesKept'
  BY <1>1, <1>3, <1>4, <1>5, <1>6, <1>7, Constants DEF ChangesKept
<1>10. Cohorts'
  BY <1>1, <1>3, <1>4, <1>5, <1>6, <1>7, Constants, <1>2 DEF Cohorts, Works
<1>11. OnDisk(p)'
  BY <1>1, <1>3, <1>4, <1>5, <1>6, <1>7, Constants DEF OnDisk, Begins, Undoes, Ends,
    Aside, Beginning, Undoing, Ending, Works, Placed, Journalled, Exists, Undoable,
    Decided, Committed, Places, Roots
<1>12. Begins(p)'
  BY <1>1, <1>3, <1>4, <1>5, <1>6, <1>7, Constants DEF Begins, Beginning, Works
<1>13. Undoes(p)'
  BY <1>1, <1>3, <1>4, <1>5, <1>6, <1>7, Constants DEF Undoes, Undoing, Works
<1>14. Ends(p)'
  BY <1>1, <1>3, <1>4, <1>5, <1>6, <1>7, Constants DEF Ends, Ending, Works
<1>15. Aside(p)'
  BY <1>1, <1>3, <1>4, <1>5, <1>6, <1>7, Constants DEF Aside, Works
<1>16. Roles(p)'
  BY <1>1, <1>3, <1>4, <1>5, <1>6, <1>7, Constants DEF Roles, Undoable, Decided,
    Committed, Works, Journalled, Cohorts, OnDisk, TypeOK, Placed
<1>17. ASSUME NEW q \in Project \ {p}
       PROVE  Roles(q)'
  BY <1>1, <1>3, <1>4, <1>5, <1>6, <1>7, Constants, <1>2 DEF Roles, Undoable, Decided,
    Committed, Works, Journalled
<1>18. ASSUME NEW q \in Project \ {p}
       PROVE  OnDisk(q)' /\ Begins(q)' /\ Undoes(q)' /\ Ends(q)' /\ Aside(q)'
  BY <1>1, <1>3, <1>4, <1>5, <1>6, <1>7, Constants, <1>2, OtherKept DEF Same, Works,
    Placed, Journalled
<1>19. \A q \in Project : ProjectInv(q)'
  BY <1>11, <1>12, <1>13, <1>14, <1>15, <1>16, <1>17, <1>18 DEF ProjectInv
<1> QED
  BY <1>8, <1>9, <1>10, <1>19 DEF IInv

LEMMA AbortsAfterFailure ==
    ASSUME IInv, NEW p \in Project, pc[p] # "idle", job[p] = "begin", Start(p, "undo", "abort"),
           UNCHANGED <<memory, told>>,
           UNCHANGED disk, faults' \in Nat, UNCHANGED <<crashes, edits, edited, own>>
    PROVE  IInv'
<1>1. /\ TypeOK /\ ChangesKept /\ Cohorts
      /\ OnDisk(p) /\ Begins(p) /\ Undoes(p) /\ Ends(p) /\ Aside(p) /\ Roles(p)
  BY Parts
<1>2. \A q \in Project : ProjectInv(q) /\ Roles(q)
  BY DEF IInv, ProjectInv
<1>3. Works(p, "undo", "abort", "look")
  BY <1>1, Starts DEF Steps
<1>4. tree' = tree
  BY <1>1 DEF disk
<1>5. journal' = journal
  BY <1>1 DEF disk
<1>6. /\ UNCHANGED <<decision, locks, begun, commit, app, start, told>>
      /\ faults' \in Nat /\ UNCHANGED <<crashes, edits, edited, own>>
  BY <1>1 DEF disk, memory, environment, TypeOK
<1>7. TypeOK'
  BY <1>1, <1>3, <1>4, <1>5, <1>6, Constants DEF TypeOK, Works, Placed, Journalled
<1>8. ChangesKept'
  BY <1>1, <1>3, <1>4, <1>5, <1>6, Constants DEF ChangesKept
<1>9. Cohorts'
  BY <1>1, <1>3, <1>4, <1>5, <1>6, Constants, <1>2 DEF Cohorts, Works
<1>10. OnDisk(p)'
  BY <1>1, <1>3, <1>4, <1>5, <1>6, Constants DEF OnDisk, Works, Placed, Journalled,
    Exists, Undoable, Decided, Committed, Places, Roots
<1>11. Begins(p)'
  BY <1>1, <1>3, <1>4, <1>5, <1>6, Constants DEF Begins, Beginning, Works
<1>12. Undoes(p)'
  BY <1>1, <1>3, <1>4, <1>5, <1>6, Constants DEF Undoes, Undoing, OnDisk, Begins,
    Beginning, Aside, Ends, Ending, Works, Placed, Journalled, Exists, Undoable,
    Decided, Committed, Places, Roots
<1>13. Ends(p)'
  BY <1>1, <1>3, <1>4, <1>5, <1>6, Constants DEF Ends, Ending, Works
<1>14. Aside(p)'
  BY <1>1, <1>3, <1>4, <1>5, <1>6, Constants DEF Aside, Works
<1>15. Roles(p)'
  BY <1>1, <1>3, <1>4, <1>5, <1>6, Constants DEF Roles, Undoable, Decided, Committed,
    Works, Journalled
<1>16. ASSUME NEW q \in Project \ {p}
       PROVE  Roles(q)'
  BY <1>1, <1>3, <1>4, <1>5, <1>6, Constants, <1>2 DEF Roles, Undoable, Decided,
    Committed, Works, Journalled
<1>17. ASSUME NEW q \in Project \ {p}
       PROVE  OnDisk(q)' /\ Begins(q)' /\ Undoes(q)' /\ Ends(q)' /\ Aside(q)'
  BY <1>1, <1>3, <1>4, <1>5, <1>6, Constants, <1>2, OtherKept DEF Same, Works, Placed,
    Journalled
<1>18. \A q \in Project : ProjectInv(q)'
  BY <1>10, <1>11, <1>12, <1>13, <1>14, <1>15, <1>16, <1>17 DEF ProjectInv
<1> QED
  BY <1>7, <1>8, <1>9, <1>18 DEF IInv

LEMMA FailsToUndo ==
    ASSUME IInv, NEW p \in Project, pc[p] # "idle", job[p] \in {"abort", "rollback"},
           GoTo(p, "idle"),
           UNCHANGED <<memory, told>>,
           UNCHANGED disk, faults' \in Nat, UNCHANGED <<crashes, edits, edited, own>>
    PROVE  IInv'
<1>1. /\ TypeOK /\ ChangesKept /\ Cohorts
      /\ OnDisk(p) /\ Begins(p) /\ Undoes(p) /\ Ends(p) /\ Aside(p) /\ Roles(p)
  BY Parts
<1>2. \A q \in Project : ProjectInv(q) /\ Roles(q)
  BY DEF IInv, ProjectInv
<1>3. pc[p] \in Steps
  BY <1>1 DEF TypeOK
<1>4. pc[p] \in Undoing
  BY <1>1, <1>3 DEF Steps, Begins, Ends, Undoing, Beginning, Ending
<1>5. p \notin commit.todo
  BY <1>1, <1>3, <1>4 DEF Undoes, Undoable, Decided, Cohorts
<1>6. Works(p, "idle", job[p], "look")
  BY <1>1, <1>3, <1>4, <1>5, GoesTo DEF Steps
<1>7. tree' = tree
  BY <1>1, <1>3, <1>4, <1>5 DEF disk
<1>8. journal' = journal
  BY <1>1, <1>3, <1>4, <1>5 DEF disk
<1>9. /\ UNCHANGED <<decision, locks, begun, commit, app, start, told>>
      /\ faults' \in Nat /\ UNCHANGED <<crashes, edits, edited, own>>
  BY <1>1, <1>3, <1>4, <1>5 DEF disk, memory, environment, TypeOK
<1>10. TypeOK'
  BY <1>1, <1>3, <1>4, <1>5, <1>6, <1>7, <1>8, <1>9, Constants DEF TypeOK, Works,
    Placed, Journalled
<1>11. ChangesKept'
  BY <1>1, <1>3, <1>4, <1>5, <1>6, <1>7, <1>8, <1>9, Constants DEF ChangesKept
<1>12. Cohorts'
  BY <1>1, <1>3, <1>4, <1>5, <1>6, <1>7, <1>8, <1>9, Constants, <1>2 DEF Cohorts, Works
<1>13. OnDisk(p)'
  BY <1>1, <1>3, <1>4, <1>5, <1>6, <1>7, <1>8, <1>9, Constants DEF OnDisk, Works,
    Placed, Journalled, Exists, Undoable, Decided, Committed, Places, Roots
<1>14. Begins(p)'
  BY <1>1, <1>3, <1>4, <1>5, <1>6, <1>7, <1>8, <1>9, Constants DEF Begins, Beginning,
    Works
<1>15. Undoes(p)'
  BY <1>1, <1>3, <1>4, <1>5, <1>6, <1>7, <1>8, <1>9, Constants DEF Undoes, Undoing,
    Works
<1>16. Ends(p)'
  BY <1>1, <1>3, <1>4, <1>5, <1>6, <1>7, <1>8, <1>9, Constants DEF Ends, Ending, Works
<1>17. Aside(p)'
  BY <1>1, <1>3, <1>4, <1>5, <1>6, <1>7, <1>8, <1>9, Constants DEF Aside, Works
<1>18. Roles(p)'
  BY <1>1, <1>3, <1>4, <1>5, <1>6, <1>7, <1>8, <1>9, Constants DEF Roles, Undoable,
    Decided, Committed, Works, Journalled, Cohorts, OnDisk, TypeOK, Placed, Begins,
    Undoes, Ends, Beginning, Undoing, Ending
<1>19. ASSUME NEW q \in Project \ {p}
       PROVE  Roles(q)'
  BY <1>1, <1>3, <1>4, <1>5, <1>6, <1>7, <1>8, <1>9, Constants, <1>2 DEF Roles,
    Undoable, Decided, Committed, Works, Journalled
<1>20. ASSUME NEW q \in Project \ {p}
       PROVE  OnDisk(q)' /\ Begins(q)' /\ Undoes(q)' /\ Ends(q)' /\ Aside(q)'
  BY <1>1, <1>3, <1>4, <1>5, <1>6, <1>7, <1>8, <1>9, Constants, <1>2, OtherKept DEF
    Same, Works, Placed, Journalled
<1>21. \A q \in Project : ProjectInv(q)'
  BY <1>13, <1>14, <1>15, <1>16, <1>17, <1>18, <1>19, <1>20 DEF ProjectInv
<1> QED
  BY <1>10, <1>11, <1>12, <1>21 DEF IInv

LEMMA FailsToCommit ==
    ASSUME IInv, NEW p \in Project, pc[p] # "idle", NEW why, job[p] = "commit", GoTo(p, "idle"),
           CommitVisited(p, why = "conflict", why # "conflict"),
           locks' = IF why = "conflict" THEN locks ELSE locks \ {p},
           UNCHANGED <<begun, app, start, told>>,
           UNCHANGED disk, faults' \in Nat, UNCHANGED <<crashes, edits, edited, own>>
    PROVE  IInv'
<1>1. /\ TypeOK /\ ChangesKept /\ Cohorts
      /\ OnDisk(p) /\ Begins(p) /\ Undoes(p) /\ Ends(p) /\ Aside(p) /\ Roles(p)
  BY Parts
<1>2. \A q \in Project : ProjectInv(q) /\ Roles(q)
  BY DEF IInv, ProjectInv
<1>3. Works(p, "idle", job[p], "look")
  BY <1>1, GoesTo DEF Steps
<1>4. tree' = tree
  BY <1>1 DEF disk
<1>5. journal' = journal
  BY <1>1 DEF disk
<1>6. /\ commit' \in [members : SUBSET Project, todo : SUBSET Project,
                     conflict : BOOLEAN, pending : BOOLEAN]
      /\ commit'.members = commit.members /\ commit'.todo = commit.todo \ {p}
      /\ commit'.conflict \/ commit'.pending
      /\ ~commit'.conflict => ~commit.conflict
      /\ ~commit'.pending => ~commit.pending
      /\ locks' \in {locks, locks \ {p}}
      /\ UNCHANGED <<decision, begun, app, start, told>>
      /\ faults' \in Nat /\ UNCHANGED <<crashes, edits, edited, own>>
  BY <1>1 DEF TypeOK, CommitVisited, disk
<1>7. TypeOK'
  BY <1>1, <1>3, <1>4, <1>5, <1>6, Constants DEF TypeOK, Works, Placed, Journalled
<1>8. ChangesKept'
  BY <1>1, <1>3, <1>4, <1>5, <1>6, Constants DEF ChangesKept
<1>9. Cohorts'
  BY <1>1, <1>3, <1>4, <1>5, <1>6, Constants, <1>2 DEF Cohorts, Works
<1>10. OnDisk(p)'
  BY <1>1, <1>3, <1>4, <1>5, <1>6, Constants DEF OnDisk, Works, Placed, Journalled,
    Exists, Undoable, Decided, Committed, Places, Roots
<1>11. Begins(p)'
  BY <1>1, <1>3, <1>4, <1>5, <1>6, Constants DEF Begins, Beginning, Works
<1>12. Undoes(p)'
  BY <1>1, <1>3, <1>4, <1>5, <1>6, Constants DEF Undoes, Undoing, Works
<1>13. Ends(p)'
  BY <1>1, <1>3, <1>4, <1>5, <1>6, Constants DEF Ends, Ending, Works
<1>14. Aside(p)'
  BY <1>1, <1>3, <1>4, <1>5, <1>6, Constants DEF Aside, Works
<1>15. Roles(p)'
  BY <1>1, <1>3, <1>4, <1>5, <1>6, Constants DEF Roles, Undoable, Decided, Committed,
    Works, Journalled, Cohorts, OnDisk, TypeOK, Placed
<1>16. ASSUME NEW q \in Project \ {p}
       PROVE  Roles(q)'
  BY <1>1, <1>3, <1>4, <1>5, <1>6, Constants, <1>2 DEF Roles, Undoable, Decided,
    Committed, Works, Journalled
<1>17. ASSUME NEW q \in Project \ {p}
       PROVE  OnDisk(q)' /\ Begins(q)' /\ Undoes(q)' /\ Ends(q)' /\ Aside(q)'
  BY <1>1, <1>3, <1>4, <1>5, <1>6, Constants, <1>2, OtherKept DEF Same, Works, Placed,
    Journalled
<1>18. \A q \in Project : ProjectInv(q)'
  BY <1>10, <1>11, <1>12, <1>13, <1>14, <1>15, <1>16, <1>17 DEF ProjectInv
<1> QED
  BY <1>7, <1>8, <1>9, <1>18 DEF IInv

LEMMA FailsToRecover ==
    ASSUME IInv, NEW p \in Project, pc[p] # "idle", NEW why, job[p] = "recover", GoTo(p,
           "idle"),
           IF why = "pending" /\ journal[p] \in Committed
           THEN start' = start \ {p} /\ UNCHANGED app
           ELSE app' = "refused" /\ UNCHANGED start,
           UNCHANGED <<locks, begun, commit, told>>,
           UNCHANGED disk, faults' \in Nat, UNCHANGED <<crashes, edits, edited, own>>
    PROVE  IInv'
<1>1. /\ TypeOK /\ ChangesKept /\ Cohorts
      /\ OnDisk(p) /\ Begins(p) /\ Undoes(p) /\ Ends(p) /\ Aside(p) /\ Roles(p)
  BY Parts
<1>2. \A q \in Project : ProjectInv(q) /\ Roles(q)
  BY DEF IInv, ProjectInv
<1>3. Works(p, "idle", job[p], "look")
  BY <1>1, GoesTo DEF Steps
<1>4. tree' = tree
  BY <1>1 DEF disk
<1>5. journal' = journal
  BY <1>1 DEF disk
<1>6. /\ \/ journal[p] \in Committed /\ start' = start \ {p} /\ app' = app
         \/ app' = "refused" /\ start' = start
      /\ UNCHANGED <<decision, locks, begun, commit, told>>
      /\ faults' \in Nat /\ UNCHANGED <<crashes, edits, edited, own>>
  BY <1>1 DEF disk
<1>7. TypeOK'
  BY <1>1, <1>3, <1>4, <1>5, <1>6, Constants DEF TypeOK, Works, Placed, Journalled
<1>8. ChangesKept'
  BY <1>1, <1>3, <1>4, <1>5, <1>6, Constants DEF ChangesKept
<1>9. Cohorts'
  BY <1>1, <1>3, <1>4, <1>5, <1>6, Constants, <1>2 DEF Cohorts, Works, Roles, OnDisk,
    TypeOK
<1>10. OnDisk(p)'
  BY <1>1, <1>3, <1>4, <1>5, <1>6, Constants DEF OnDisk, Works, Placed, Journalled,
    Exists, Undoable, Decided, Committed, Places, Roots
<1>11. Begins(p)'
  BY <1>1, <1>3, <1>4, <1>5, <1>6, Constants DEF Begins, Beginning, Works
<1>12. Undoes(p)'
  BY <1>1, <1>3, <1>4, <1>5, <1>6, Constants DEF Undoes, Undoing, Works
<1>13. Ends(p)'
  BY <1>1, <1>3, <1>4, <1>5, <1>6, Constants DEF Ends, Ending, Works
<1>14. Aside(p)'
  BY <1>1, <1>3, <1>4, <1>5, <1>6, Constants DEF Aside, Works
<1>15. Roles(p)'
  BY <1>1, <1>3, <1>4, <1>5, <1>6, Constants DEF Roles, Undoable, Decided, Committed,
    Works, Journalled, Cohorts, OnDisk, TypeOK, Placed
<1>16. ASSUME NEW q \in Project \ {p}
       PROVE  Roles(q)'
  BY <1>1, <1>3, <1>4, <1>5, <1>6, Constants, <1>2 DEF Roles, Undoable, Decided,
    Committed, Works, Journalled, Cohorts, OnDisk, TypeOK, ProjectInv, Placed
<1>17. ASSUME NEW q \in Project \ {p}
       PROVE  OnDisk(q)' /\ Begins(q)' /\ Undoes(q)' /\ Ends(q)' /\ Aside(q)'
  BY <1>1, <1>3, <1>4, <1>5, <1>6, Constants, <1>2, OtherKept DEF Same, Works, Placed,
    Journalled
<1>18. \A q \in Project : ProjectInv(q)'
  BY <1>10, <1>11, <1>12, <1>13, <1>14, <1>15, <1>16, <1>17 DEF ProjectInv
<1> QED
  BY <1>7, <1>8, <1>9, <1>18 DEF IInv

LEMMA RollsBack ==
    ASSUME IInv, NEW p \in Project, ~RollsBackDecided, Rollback(p)
    PROVE  IInv'
<1>1. /\ TypeOK /\ ChangesKept /\ Cohorts
      /\ OnDisk(p) /\ Begins(p) /\ Undoes(p) /\ Ends(p) /\ Aside(p) /\ Roles(p)
  BY Parts
<1>2. \A q \in Project : ProjectInv(q) /\ Roles(q)
  BY DEF IInv, ProjectInv
<1>3. app = "up" /\ pc[p] = "idle" /\ Undoable(p)
  BY <1>1 DEF Rollback, At, Undoable, Decided
<1>4. Works(p, "undo", "rollback", "look")
  BY <1>1, <1>3, Starts DEF Rollback, At, Steps
<1>5. tree' = tree
  BY <1>1, <1>3 DEF Rollback, At, disk
<1>6. journal' = journal
  BY <1>1, <1>3 DEF Rollback, At, disk
<1>7. /\ UNCHANGED <<decision, locks, begun, commit, app, start, told,
                     crashes, faults, edits, edited, own>>
  BY <1>1, <1>3 DEF Rollback, At, disk, memory, environment, TypeOK
<1>8. TypeOK'
  BY <1>1, <1>3, <1>4, <1>5, <1>6, <1>7, Constants DEF TypeOK, Works, Placed, Journalled
<1>9. ChangesKept'
  BY <1>1, <1>3, <1>4, <1>5, <1>6, <1>7, Constants DEF ChangesKept
<1>10. Cohorts'
  BY <1>1, <1>3, <1>4, <1>5, <1>6, <1>7, Constants, <1>2 DEF Cohorts, Works
<1>11. OnDisk(p)'
  BY <1>1, <1>3, <1>4, <1>5, <1>6, <1>7, Constants DEF OnDisk, Works, Placed,
    Journalled, Exists, Undoable, Decided, Committed, Places, Roots
<1>12. Begins(p)'
  BY <1>1, <1>3, <1>4, <1>5, <1>6, <1>7, Constants DEF Begins, Beginning, Works
<1>13. Undoes(p)'
  BY <1>1, <1>3, <1>4, <1>5, <1>6, <1>7, Constants DEF Undoes, Undoing, Works, Placed,
    Journalled, Exists, Undoable, Decided, Committed, Places, Roots
<1>14. Ends(p)'
  BY <1>1, <1>3, <1>4, <1>5, <1>6, <1>7, Constants DEF Ends, Ending, Works
<1>15. Aside(p)'
  BY <1>1, <1>3, <1>4, <1>5, <1>6, <1>7, Constants DEF Aside, Works
<1>16. Roles(p)'
  BY <1>1, <1>3, <1>4, <1>5, <1>6, <1>7, Constants DEF Roles, Undoable, Decided,
    Committed, Works, Journalled
<1>17. ASSUME NEW q \in Project \ {p}
       PROVE  Roles(q)'
  BY <1>1, <1>3, <1>4, <1>5, <1>6, <1>7, Constants, <1>2 DEF Roles, Undoable, Decided,
    Committed, Works, Journalled
<1>18. ASSUME NEW q \in Project \ {p}
       PROVE  OnDisk(q)' /\ Begins(q)' /\ Undoes(q)' /\ Ends(q)' /\ Aside(q)'
  BY <1>1, <1>3, <1>4, <1>5, <1>6, <1>7, Constants, <1>2, OtherKept DEF Same, Works,
    Placed, Journalled
<1>19. \A q \in Project : ProjectInv(q)'
  BY <1>11, <1>12, <1>13, <1>14, <1>15, <1>16, <1>17, <1>18 DEF ProjectInv
<1> QED
  BY <1>8, <1>9, <1>10, <1>19 DEF IInv

LEMMA MarksCommitted ==
    ASSUME IInv, NEW p \in Project, MarkCommitted(p)
    PROVE  IInv'
<1>1. /\ TypeOK /\ ChangesKept /\ Cohorts
      /\ OnDisk(p) /\ Begins(p) /\ Undoes(p) /\ Ends(p) /\ Aside(p) /\ Roles(p)
  BY Parts
<1>2. \A q \in Project : ProjectInv(q) /\ Roles(q)
  BY DEF IInv, ProjectInv
<1>3. pc[p] = "idle" /\ p \in commit.todo /\ p \in commit.members
      /\ app = "up" /\ p \in decision
  BY <1>1 DEF MarkCommitted, At, Cohorts
<1>4. Works(p, "end", "commit", "look")
  BY <1>1, <1>3, Starts DEF MarkCommitted, At, Steps
<1>5. tree' = tree
  BY <1>1, <1>3 DEF MarkCommitted, At, disk
<1>6. Journalled(p, "renderer-committed")
  BY <1>1, <1>3, JournalSet DEF MarkCommitted, At, TypeOK, Phases
<1>7. /\ UNCHANGED <<decision, locks, begun, commit, app, start, told,
                     crashes, faults, edits, edited, own>>
  BY <1>1, <1>3 DEF MarkCommitted, At, disk, memory, environment, TypeOK
<1>8. TypeOK'
  BY <1>1, <1>3, <1>4, <1>5, <1>6, <1>7, Constants DEF TypeOK, Works, Placed, Journalled
<1>9. ChangesKept'
  BY <1>1, <1>3, <1>4, <1>5, <1>6, <1>7, Constants DEF ChangesKept
<1>10. Cohorts'
  BY <1>1, <1>3, <1>4, <1>5, <1>6, <1>7, Constants, <1>2 DEF Cohorts, Works
<1>11. OnDisk(p)'
  BY <1>1, <1>3, <1>4, <1>5, <1>6, <1>7, Constants DEF OnDisk, Roles, Works, Placed,
    Journalled, Exists, Undoable, Decided, Committed, Places, Roots
<1>12. Begins(p)'
  BY <1>1, <1>3, <1>4, <1>5, <1>6, <1>7, Constants DEF Begins, Beginning, Works
<1>13. Undoes(p)'
  BY <1>1, <1>3, <1>4, <1>5, <1>6, <1>7, Constants DEF Undoes, Undoing, Works
<1>14. Ends(p)'
  BY <1>1, <1>3, <1>4, <1>5, <1>6, <1>7, Constants DEF Ends, Ending, Works, Placed,
    Journalled, Exists, Undoable, Decided, Committed, Places, Roots
<1>15. Aside(p)'
  BY <1>1, <1>3, <1>4, <1>5, <1>6, <1>7, Constants DEF Aside, Works
<1>16. Roles(p)'
  BY <1>1, <1>3, <1>4, <1>5, <1>6, <1>7, Constants DEF Roles, Undoable, Decided,
    Committed, Works, Journalled
<1>17. ASSUME NEW q \in Project \ {p}
       PROVE  Roles(q)'
  BY <1>1, <1>3, <1>4, <1>5, <1>6, <1>7, Constants, <1>2 DEF Roles, Undoable, Decided,
    Committed, Works, Journalled
<1>18. ASSUME NEW q \in Project \ {p}
       PROVE  OnDisk(q)' /\ Begins(q)' /\ Undoes(q)' /\ Ends(q)' /\ Aside(q)'
  BY <1>1, <1>3, <1>4, <1>5, <1>6, <1>7, Constants, <1>2, OtherKept DEF Same, Works,
    Placed, Journalled
<1>19. \A q \in Project : ProjectInv(q)'
  BY <1>11, <1>12, <1>13, <1>14, <1>15, <1>16, <1>17, <1>18 DEF ProjectInv
<1> QED
  BY <1>8, <1>9, <1>10, <1>19 DEF IInv

LEMMA RecoversMember ==
    ASSUME IInv, NEW p \in Project, RecoverMember(p)
    PROVE  IInv'
<1>1. /\ TypeOK /\ ChangesKept /\ Cohorts
      /\ OnDisk(p) /\ Begins(p) /\ Undoes(p) /\ Ends(p) /\ Aside(p) /\ Roles(p)
  BY Parts
<1>2. \A q \in Project : ProjectInv(q) /\ Roles(q)
  BY DEF IInv, ProjectInv
<1>3. app = "decision" /\ p \in start /\ \A q \in Project : pc[q] = "idle"
  BY <1>1 DEF RecoverMember, At
<1>4. Works(p, "end", "recover", "look")
  BY <1>1, <1>3, Starts DEF RecoverMember, At, Steps
<1>5. tree' = tree
  BY <1>1, <1>3 DEF RecoverMember, At, disk
<1>6. journal' = journal
  BY <1>1, <1>3 DEF RecoverMember, At, disk
<1>7. /\ UNCHANGED <<decision, locks, begun, commit, app, start, told,
                     crashes, faults, edits, edited, own>>
  BY <1>1, <1>3 DEF RecoverMember, At, disk, memory, environment, TypeOK
<1>8. TypeOK'
  BY <1>1, <1>3, <1>4, <1>5, <1>6, <1>7, Constants DEF TypeOK, Works, Placed, Journalled
<1>9. ChangesKept'
  BY <1>1, <1>3, <1>4, <1>5, <1>6, <1>7, Constants DEF ChangesKept
<1>10. Cohorts'
  BY <1>1, <1>3, <1>4, <1>5, <1>6, <1>7, Constants, <1>2 DEF Cohorts, Works
<1>11. OnDisk(p)'
  BY <1>1, <1>3, <1>4, <1>5, <1>6, <1>7, Constants DEF OnDisk, Works, Placed,
    Journalled, Exists, Undoable, Decided, Committed, Places, Roots
<1>12. Begins(p)'
  BY <1>1, <1>3, <1>4, <1>5, <1>6, <1>7, Constants DEF Begins, Beginning, Works
<1>13. Undoes(p)'
  BY <1>1, <1>3, <1>4, <1>5, <1>6, <1>7, Constants DEF Undoes, Undoing, Works
<1>14. Ends(p)'
  BY <1>1, <1>3, <1>4, <1>5, <1>6, <1>7, Constants DEF Ends, Undoes, Undoing, Ending,
    Roles, Works, Placed, Journalled, Exists, Undoable, Decided, Committed, Places,
    Roots
<1>15. Aside(p)'
  BY <1>1, <1>3, <1>4, <1>5, <1>6, <1>7, Constants DEF Aside, Works
<1>16. Roles(p)'
  BY <1>1, <1>3, <1>4, <1>5, <1>6, <1>7, Constants DEF Roles, Undoable, Decided,
    Committed, Works, Journalled
<1>17. ASSUME NEW q \in Project \ {p}
       PROVE  Roles(q)'
  BY <1>1, <1>3, <1>4, <1>5, <1>6, <1>7, Constants, <1>2 DEF Roles, Undoable, Decided,
    Committed, Works, Journalled
<1>18. ASSUME NEW q \in Project \ {p}
       PROVE  OnDisk(q)' /\ Begins(q)' /\ Undoes(q)' /\ Ends(q)' /\ Aside(q)'
  BY <1>1, <1>3, <1>4, <1>5, <1>6, <1>7, Constants, <1>2, OtherKept DEF Same, Works,
    Placed, Journalled
<1>19. \A q \in Project : ProjectInv(q)'
  BY <1>11, <1>12, <1>13, <1>14, <1>15, <1>16, <1>17, <1>18 DEF ProjectInv
<1> QED
  BY <1>8, <1>9, <1>10, <1>19 DEF IInv

LEMMA RecoversCommitted ==
    ASSUME IInv, NEW p \in Project, RecoverJournal(p), journal[p] \in Committed
    PROVE  IInv'
<1>1. /\ TypeOK /\ ChangesKept /\ Cohorts
      /\ OnDisk(p) /\ Begins(p) /\ Undoes(p) /\ Ends(p) /\ Aside(p) /\ Roles(p)
  BY Parts
<1>2. \A q \in Project : ProjectInv(q) /\ Roles(q)
  BY DEF IInv, ProjectInv
<1>3. app = "journals" /\ p \in start /\ \A q \in Project : pc[q] = "idle"
  BY <1>1 DEF RecoverJournal, At
<1>4. Works(p, "end", "recover", "look")
  BY <1>1, <1>3, Starts DEF RecoverJournal, At, Steps
<1>5. tree' = tree
  BY <1>1, <1>3 DEF RecoverJournal, At, disk
<1>6. journal' = journal
  BY <1>1, <1>3 DEF RecoverJournal, At, disk
<1>7. /\ UNCHANGED <<decision, locks, begun, commit, app, start, told,
                     crashes, faults, edits, edited, own>>
  BY <1>1, <1>3 DEF RecoverJournal, At, disk, memory, environment, TypeOK
<1>8. TypeOK'
  BY <1>1, <1>3, <1>4, <1>5, <1>6, <1>7, Constants DEF TypeOK, Works, Placed, Journalled
<1>9. ChangesKept'
  BY <1>1, <1>3, <1>4, <1>5, <1>6, <1>7, Constants DEF ChangesKept
<1>10. Cohorts'
  BY <1>1, <1>3, <1>4, <1>5, <1>6, <1>7, Constants, <1>2 DEF Cohorts, Works
<1>11. OnDisk(p)'
  BY <1>1, <1>3, <1>4, <1>5, <1>6, <1>7, Constants DEF OnDisk, Works, Placed,
    Journalled, Exists, Undoable, Decided, Committed, Places, Roots
<1>12. Begins(p)'
  BY <1>1, <1>3, <1>4, <1>5, <1>6, <1>7, Constants DEF Begins, Beginning, Works
<1>13. Undoes(p)'
  BY <1>1, <1>3, <1>4, <1>5, <1>6, <1>7, Constants DEF Undoes, Undoing, Works
<1>14. Ends(p)'
  BY <1>1, <1>3, <1>4, <1>5, <1>6, <1>7, Constants DEF Ends, Ending, Works, Placed,
    Journalled, Exists, Undoable, Decided, Committed, Places, Roots
<1>15. Aside(p)'
  BY <1>1, <1>3, <1>4, <1>5, <1>6, <1>7, Constants DEF Aside, Works
<1>16. Roles(p)'
  BY <1>1, <1>3, <1>4, <1>5, <1>6, <1>7, Constants DEF Roles, Undoable, Decided,
    Committed, Works, Journalled
<1>17. ASSUME NEW q \in Project \ {p}
       PROVE  Roles(q)'
  BY <1>1, <1>3, <1>4, <1>5, <1>6, <1>7, Constants, <1>2 DEF Roles, Undoable, Decided,
    Committed, Works, Journalled
<1>18. ASSUME NEW q \in Project \ {p}
       PROVE  OnDisk(q)' /\ Begins(q)' /\ Undoes(q)' /\ Ends(q)' /\ Aside(q)'
  BY <1>1, <1>3, <1>4, <1>5, <1>6, <1>7, Constants, <1>2, OtherKept DEF Same, Works,
    Placed, Journalled
<1>19. \A q \in Project : ProjectInv(q)'
  BY <1>11, <1>12, <1>13, <1>14, <1>15, <1>16, <1>17, <1>18 DEF ProjectInv
<1> QED
  BY <1>8, <1>9, <1>10, <1>19 DEF IInv

LEMMA RecoversUndoable ==
    ASSUME IInv, NEW p \in Project, RecoverJournal(p), journal[p] \notin Committed
    PROVE  IInv'
<1>1. /\ TypeOK /\ ChangesKept /\ Cohorts
      /\ OnDisk(p) /\ Begins(p) /\ Undoes(p) /\ Ends(p) /\ Aside(p) /\ Roles(p)
  BY Parts
<1>2. \A q \in Project : ProjectInv(q) /\ Roles(q)
  BY DEF IInv, ProjectInv
<1>3. app = "journals" /\ p \in start /\ \A q \in Project : pc[q] = "idle"
  BY <1>1 DEF RecoverJournal, At
<1>4. Works(p, "undo", "recover", "look")
  BY <1>1, <1>3, Starts DEF RecoverJournal, At, Steps
<1>5. tree' = tree
  BY <1>1, <1>3 DEF RecoverJournal, At, disk
<1>6. journal' = journal
  BY <1>1, <1>3 DEF RecoverJournal, At, disk
<1>7. /\ UNCHANGED <<decision, locks, begun, commit, app, start, told,
                     crashes, faults, edits, edited, own>>
  BY <1>1, <1>3 DEF RecoverJournal, At, disk, memory, environment, TypeOK
<1>8. TypeOK'
  BY <1>1, <1>3, <1>4, <1>5, <1>6, <1>7, Constants DEF TypeOK, Works, Placed, Journalled
<1>9. ChangesKept'
  BY <1>1, <1>3, <1>4, <1>5, <1>6, <1>7, Constants DEF ChangesKept
<1>10. Cohorts'
  BY <1>1, <1>3, <1>4, <1>5, <1>6, <1>7, Constants, <1>2 DEF Cohorts, Works
<1>11. OnDisk(p)'
  BY <1>1, <1>3, <1>4, <1>5, <1>6, <1>7, Constants DEF OnDisk, Works, Placed,
    Journalled, Exists, Undoable, Decided, Committed, Places, Roots
<1>12. Begins(p)'
  BY <1>1, <1>3, <1>4, <1>5, <1>6, <1>7, Constants DEF Begins, Beginning, Works
<1>13. Undoes(p)'
  BY <1>1, <1>3, <1>4, <1>5, <1>6, <1>7, Constants DEF Undoes, Undoing, Ends, Ending,
    Roles, Works, Placed, Journalled, Exists, Undoable, Decided, Committed, Places,
    Roots
<1>14. Ends(p)'
  BY <1>1, <1>3, <1>4, <1>5, <1>6, <1>7, Constants DEF Ends, Ending, Works
<1>15. Aside(p)'
  BY <1>1, <1>3, <1>4, <1>5, <1>6, <1>7, Constants DEF Aside, Works
<1>16. Roles(p)'
  BY <1>1, <1>3, <1>4, <1>5, <1>6, <1>7, Constants DEF Roles, Undoable, Decided,
    Committed, Works, Journalled
<1>17. ASSUME NEW q \in Project \ {p}
       PROVE  Roles(q)'
  BY <1>1, <1>3, <1>4, <1>5, <1>6, <1>7, Constants, <1>2 DEF Roles, Undoable, Decided,
    Committed, Works, Journalled
<1>18. ASSUME NEW q \in Project \ {p}
       PROVE  OnDisk(q)' /\ Begins(q)' /\ Undoes(q)' /\ Ends(q)' /\ Aside(q)'
  BY <1>1, <1>3, <1>4, <1>5, <1>6, <1>7, Constants, <1>2, OtherKept DEF Same, Works,
    Placed, Journalled
<1>19. \A q \in Project : ProjectInv(q)'
  BY <1>11, <1>12, <1>13, <1>14, <1>15, <1>16, <1>17, <1>18 DEF ProjectInv
<1> QED
  BY <1>8, <1>9, <1>10, <1>19 DEF IInv

LEMMA FailsToMark ==
    ASSUME IInv, NEW p \in Project, p \in commit.todo, \A q \in commit.members : At(q, "idle"),
           CommitVisited(p, FALSE, TRUE), locks' = locks \ {p},
           UNCHANGED <<begun, app, start, work, told>>,
           UNCHANGED disk, faults' \in Nat, UNCHANGED <<crashes, edits, edited, own>>
    PROVE  IInv'
<1>1. /\ TypeOK /\ ChangesKept /\ Cohorts
      /\ OnDisk(p) /\ Begins(p) /\ Undoes(p) /\ Ends(p) /\ Aside(p) /\ Roles(p)
  BY Parts
<1>2. \A q \in Project : ProjectInv(q) /\ Roles(q)
  BY DEF IInv, ProjectInv
<1>3. pc[p] = "idle" /\ p \in decision /\ app = "up"
  BY <1>1 DEF At, Cohorts
<1>4. UNCHANGED <<pc, job, step>>
  BY <1>1, <1>3 DEF work
<1>5. tree' = tree
  BY <1>1, <1>3 DEF disk
<1>6. journal' = journal
  BY <1>1, <1>3 DEF disk
<1>7. /\ commit' \in [members : SUBSET Project, todo : SUBSET Project,
                     conflict : BOOLEAN, pending : BOOLEAN]
      /\ commit'.members = commit.members /\ commit'.todo = commit.todo \ {p} /\ commit'.pending
      /\ locks' = locks \ {p}
      /\ UNCHANGED <<decision, begun, app, start, told>>
      /\ faults' \in Nat /\ UNCHANGED <<crashes, edits, edited, own>>
  BY <1>1, <1>3, Visited DEF disk
<1>8. TypeOK'
  BY <1>1, <1>3, <1>4, <1>5, <1>6, <1>7, Constants DEF TypeOK, Works, Placed, Journalled
<1>9. ChangesKept'
  BY <1>1, <1>3, <1>4, <1>5, <1>6, <1>7, Constants DEF ChangesKept
<1>10. Cohorts'
  BY <1>1, <1>3, <1>4, <1>5, <1>6, <1>7, Constants, <1>2 DEF Cohorts, Works
<1>11. OnDisk(p)'
  BY <1>1, <1>3, <1>4, <1>5, <1>6, <1>7, Constants DEF OnDisk, Works, Placed,
    Journalled, Exists, Undoable, Decided, Committed, Places, Roots
<1>12. Begins(p)'
  BY <1>1, <1>3, <1>4, <1>5, <1>6, <1>7, Constants DEF Begins, Beginning, Works, Placed,
    Journalled, Exists, Undoable, Decided, Committed, Places, Roots
<1>13. Undoes(p)'
  BY <1>1, <1>3, <1>4, <1>5, <1>6, <1>7, Constants DEF Undoes, Undoing, Works, Placed,
    Journalled, Exists, Undoable, Decided, Committed, Places, Roots
<1>14. Ends(p)'
  BY <1>1, <1>3, <1>4, <1>5, <1>6, <1>7, Constants DEF Ends, Ending, Works, Placed,
    Journalled, Exists, Undoable, Decided, Committed, Places, Roots
<1>15. Aside(p)'
  BY <1>1, <1>3, <1>4, <1>5, <1>6, <1>7, Constants DEF Aside, Works, Exists
<1>16. Roles(p)'
  BY <1>1, <1>3, <1>4, <1>5, <1>6, <1>7, Constants DEF Roles, Undoable, Decided,
    Committed, Works, Journalled, Cohorts, OnDisk, TypeOK, Placed, Begins, Undoes, Ends,
    Beginning, Undoing, Ending
<1>17. ASSUME NEW q \in Project \ {p}
       PROVE  Roles(q)'
  BY <1>1, <1>3, <1>4, <1>5, <1>6, <1>7, Constants, <1>2 DEF Roles, Undoable, Decided,
    Committed, Works, Journalled
<1>18. ASSUME NEW q \in Project \ {p}
       PROVE  OnDisk(q)' /\ Begins(q)' /\ Undoes(q)' /\ Ends(q)' /\ Aside(q)'
  BY <1>1, <1>3, <1>4, <1>5, <1>6, <1>7, Constants, <1>2, OtherKept DEF Same, Works,
    Placed, Journalled
<1>19. \A q \in Project : ProjectInv(q)'
  BY <1>11, <1>12, <1>13, <1>14, <1>15, <1>16, <1>17, <1>18 DEF ProjectInv
<1> QED
  BY <1>8, <1>9, <1>10, <1>19 DEF IInv

-----------------------------------------------------------------------------
(***************************************************************************)
(* Other programs, and a save of the app itself.                           *)
(***************************************************************************)
LEMMA Changes ==
    ASSUME NEW t \in Trees \cup {None}
    PROVE  /\ Changed(t) \in {"old+", "new+", "foreign"}
           /\ t \in {"old", "old+"} => Changed(t) = "old+"
           /\ t \in {"new", "new+"} => Changed(t) = "new+"
           /\ t \notin {"new", "new+"} => Changed(t) # "new+"
<1>1. t = "old" \/ t = "old+" \/ t = "new" \/ t = "new+"
      \/ t \notin {"old", "old+", "new", "new+"}
  OBVIOUS
<1> QED
  BY <1>1, Zenon DEF Changed

LEMMA ChangesOfEdit ==
    ASSUME ChangesKept, edited \subseteq Project, NEW p \in Project,
           \A q \in Project \ {p} : tree'[q] = tree[q],
           edited' = edited \cup {p},
           \E place \in Places : tree'[p][place] \in {"old+", "new+", "foreign"}
    PROVE  ChangesKept'
BY DEF ChangesKept

LEMMA EditsRoot ==
    ASSUME IInv, NEW p \in Project, Edit(p, "root")
    PROVE  IInv'
<1>1. /\ TypeOK /\ ChangesKept /\ Cohorts
      /\ OnDisk(p) /\ Begins(p) /\ Undoes(p) /\ Ends(p) /\ Aside(p) /\ Roles(p)
  BY Parts
<1>2. \A q \in Project : ProjectInv(q) /\ Roles(q)
  BY DEF IInv, ProjectInv
<1>3. tree[p]["root"] \in Trees \cup {None}
  BY <1>1 DEF TypeOK, Places, Roots
<1>4. /\ Changed(tree[p]["root"]) \in {"old+", "new+", "foreign"}
      /\ tree[p]["root"] \in {"old", "old+"} => Changed(tree[p]["root"]) = "old+"
      /\ tree[p]["root"] \in {"new", "new+"} => Changed(tree[p]["root"]) = "new+"
      /\ tree[p]["root"] \notin {"new", "new+"} => Changed(tree[p]["root"]) # "new+"
  BY <1>1, <1>3, Changes
<1>5. UNCHANGED <<pc, job, step>>
  BY <1>1, <1>3, <1>4 DEF Edit, work
<1>6. Placed(p, Changed(tree[p]["root"]), tree[p]["backup"], tree[p]["staging"],
                tree[p]["q-root"], tree[p]["q-backup"], tree[p]["q-staging"])
  <2>1. tree \in [Project -> [Places -> Trees \cup {None}]] /\ "root" \in Places
        /\ Put(p, "root", Changed(tree[p]["root"])) /\ Changed(tree[p]["root"]) \in Trees \cup {None}
    BY <1>1, <1>3, <1>4 DEF Edit, TypeOK, Places, Roots, Trees
  <2> QED
    BY <2>1, TreeSet
<1>7. journal' = journal
  BY <1>1, <1>3, <1>4 DEF Edit, disk
<1>8. /\ edited' = edited \cup {p} /\ edits' \in Nat
      /\ UNCHANGED <<decision, locks, begun, commit, app, start, told>>
      /\ UNCHANGED <<crashes, faults, own>>
  BY <1>1, <1>3, <1>4 DEF Edit, memory, TypeOK
<1>9. TypeOK'
  BY <1>1, <1>3, <1>4, <1>5, <1>6, <1>7, <1>8, Constants DEF TypeOK, Works, Placed,
    Journalled
<1>10. ChangesKept'
  BY <1>1, <1>3, <1>4, <1>5, <1>6, <1>7, <1>8, Constants, ChangesOfEdit
    DEF Placed, TypeOK, Places, Roots
<1>11. Cohorts'
  BY <1>1, <1>3, <1>4, <1>5, <1>6, <1>7, <1>8, Constants, <1>2 DEF Cohorts, Works
<1>12. OnDisk(p)'
  BY <1>1, <1>3, <1>4, <1>5, <1>6, <1>7, <1>8, Constants DEF OnDisk, Roles, Works,
    Placed, Journalled, Exists, Undoable, Decided, Committed, Places, Roots
<1>13. Begins(p)'
  BY <1>1, <1>3, <1>4, <1>5, <1>6, <1>7, <1>8, Constants DEF Begins, Beginning, Works,
    Placed, Journalled, Exists, Undoable, Decided, Committed, Places, Roots
<1>14. Undoes(p)'
  BY <1>1, <1>3, <1>4, <1>5, <1>6, <1>7, <1>8, Constants DEF Undoes, Undoing, Works,
    Placed, Journalled, Exists, Undoable, Decided, Committed, Places, Roots
<1>15. Ends(p)'
  BY <1>1, <1>3, <1>4, <1>5, <1>6, <1>7, <1>8, Constants DEF Ends, Ending, Works,
    Placed, Journalled, Exists, Undoable, Decided, Committed, Places, Roots
<1>16. Aside(p)'
  BY <1>1, <1>3, <1>4, <1>5, <1>6, <1>7, <1>8, Constants DEF Aside, Begins, Undoes,
    Ends, OnDisk, Beginning, Undoing, Ending, Works, Placed, Journalled, Exists,
    Undoable, Decided, Committed, Places, Roots
<1>17. Roles(p)'
  BY <1>1, <1>3, <1>4, <1>5, <1>6, <1>7, <1>8, Constants DEF Roles, Undoable, Decided,
    Committed, Works, Journalled
<1>18. ASSUME NEW q \in Project \ {p}
       PROVE  Roles(q)'
  BY <1>1, <1>3, <1>4, <1>5, <1>6, <1>7, <1>8, Constants, <1>2 DEF Roles, Undoable,
    Decided, Committed, Works, Journalled
<1>19. ASSUME NEW q \in Project \ {p}
       PROVE  OnDisk(q)' /\ Begins(q)' /\ Undoes(q)' /\ Ends(q)' /\ Aside(q)'
  BY <1>1, <1>3, <1>4, <1>5, <1>6, <1>7, <1>8, Constants, <1>2, OtherKept DEF Same,
    Works, Placed, Journalled
<1>20. \A q \in Project : ProjectInv(q)'
  BY <1>12, <1>13, <1>14, <1>15, <1>16, <1>17, <1>18, <1>19 DEF ProjectInv
<1> QED
  BY <1>9, <1>10, <1>11, <1>20 DEF IInv

LEMMA EditsBackup ==
    ASSUME IInv, NEW p \in Project, Edit(p, "backup")
    PROVE  IInv'
<1>1. /\ TypeOK /\ ChangesKept /\ Cohorts
      /\ OnDisk(p) /\ Begins(p) /\ Undoes(p) /\ Ends(p) /\ Aside(p) /\ Roles(p)
  BY Parts
<1>2. \A q \in Project : ProjectInv(q) /\ Roles(q)
  BY DEF IInv, ProjectInv
<1>3. tree[p]["backup"] \in Trees \cup {None}
  BY <1>1 DEF TypeOK, Places, Roots
<1>4. /\ Changed(tree[p]["backup"]) \in {"old+", "new+", "foreign"}
      /\ tree[p]["backup"] \in {"old", "old+"} => Changed(tree[p]["backup"]) = "old+"
      /\ tree[p]["backup"] \in {"new", "new+"} => Changed(tree[p]["backup"]) = "new+"
      /\ tree[p]["backup"] \notin {"new", "new+"} => Changed(tree[p]["backup"]) # "new+"
  BY <1>1, <1>3, Changes
<1>5. Exists(p, "backup")
  BY DEF Edit
<1>6. UNCHANGED <<pc, job, step>>
  BY <1>1, <1>3, <1>4, <1>5 DEF Edit, work
<1>7. Placed(p, tree[p]["root"], Changed(tree[p]["backup"]), tree[p]["staging"],
                tree[p]["q-root"], tree[p]["q-backup"], tree[p]["q-staging"])
  <2>1. tree \in [Project -> [Places -> Trees \cup {None}]] /\ "backup" \in Places
        /\ Put(p, "backup", Changed(tree[p]["backup"])) /\ Changed(tree[p]["backup"]) \in Trees \cup {None}
    BY <1>1, <1>3, <1>4, <1>5 DEF Edit, TypeOK, Places, Roots, Trees
  <2> QED
    BY <2>1, TreeSet
<1>8. journal' = journal
  BY <1>1, <1>3, <1>4, <1>5 DEF Edit, disk
<1>9. /\ edited' = edited \cup {p} /\ edits' \in Nat
      /\ UNCHANGED <<decision, locks, begun, commit, app, start, told>>
      /\ UNCHANGED <<crashes, faults, own>>
  BY <1>1, <1>3, <1>4, <1>5 DEF Edit, memory, TypeOK
<1>10. TypeOK'
  BY <1>1, <1>3, <1>4, <1>5, <1>6, <1>7, <1>8, <1>9, Constants DEF TypeOK, Works,
    Placed, Journalled
<1>11. ChangesKept'
  BY <1>1, <1>3, <1>4, <1>5, <1>6, <1>7, <1>8, <1>9, Constants, ChangesOfEdit
    DEF Placed, TypeOK, Places, Roots
<1>12. Cohorts'
  BY <1>1, <1>3, <1>4, <1>5, <1>6, <1>7, <1>8, <1>9, Constants, <1>2 DEF Cohorts, Works
<1>13. OnDisk(p)'
  BY <1>1, <1>3, <1>4, <1>5, <1>6, <1>7, <1>8, <1>9, Constants DEF OnDisk, Works,
    Placed, Journalled, Exists, Undoable, Decided, Committed, Places, Roots
<1>14. Begins(p)'
  BY <1>1, <1>3, <1>4, <1>5, <1>6, <1>7, <1>8, <1>9, Constants DEF Begins, Beginning,
    Works, Placed, Journalled, Exists, Undoable, Decided, Committed, Places, Roots
<1>15. Undoes(p)'
  BY <1>1, <1>3, <1>4, <1>5, <1>6, <1>7, <1>8, <1>9, Constants DEF Undoes, Undoing,
    Works, Placed, Journalled, Exists, Undoable, Decided, Committed, Places, Roots
<1>16. Ends(p)'
  BY <1>1, <1>3, <1>4, <1>5, <1>6, <1>7, <1>8, <1>9, Constants DEF Ends, Ending, Works,
    Placed, Journalled, Exists, Undoable, Decided, Committed, Places, Roots
<1>17. Aside(p)'
  BY <1>1, <1>3, <1>4, <1>5, <1>6, <1>7, <1>8, <1>9, Constants DEF Aside, Begins,
    Undoes, Ends, OnDisk, Beginning, Undoing, Ending, Works, Placed, Journalled, Exists,
    Undoable, Decided, Committed, Places, Roots
<1>18. Roles(p)'
  BY <1>1, <1>3, <1>4, <1>5, <1>6, <1>7, <1>8, <1>9, Constants DEF Roles, Undoable,
    Decided, Committed, Works, Journalled
<1>19. ASSUME NEW q \in Project \ {p}
       PROVE  Roles(q)'
  BY <1>1, <1>3, <1>4, <1>5, <1>6, <1>7, <1>8, <1>9, Constants, <1>2 DEF Roles,
    Undoable, Decided, Committed, Works, Journalled
<1>20. ASSUME NEW q \in Project \ {p}
       PROVE  OnDisk(q)' /\ Begins(q)' /\ Undoes(q)' /\ Ends(q)' /\ Aside(q)'
  BY <1>1, <1>3, <1>4, <1>5, <1>6, <1>7, <1>8, <1>9, Constants, <1>2, OtherKept DEF
    Same, Works, Placed, Journalled
<1>21. \A q \in Project : ProjectInv(q)'
  BY <1>13, <1>14, <1>15, <1>16, <1>17, <1>18, <1>19, <1>20 DEF ProjectInv
<1> QED
  BY <1>10, <1>11, <1>12, <1>21 DEF IInv

LEMMA Saves ==
    ASSUME IInv, NEW p \in Project, SaveRoot(p)
    PROVE  IInv'
<1>1. /\ TypeOK /\ ChangesKept /\ Cohorts
      /\ OnDisk(p) /\ Begins(p) /\ Undoes(p) /\ Ends(p) /\ Aside(p) /\ Roles(p)
  BY Parts
<1>2. \A q \in Project : ProjectInv(q) /\ Roles(q)
  BY DEF IInv, ProjectInv
<1>3. UNCHANGED <<pc, job, step>>
  BY <1>1 DEF SaveRoot, work
<1>4. Placed(p, "new+", tree[p]["backup"], tree[p]["staging"],
                tree[p]["q-root"], tree[p]["q-backup"], tree[p]["q-staging"])
  BY <1>1, TreeSet, StepsOf DEF SaveRoot, TypeOK, Trees
<1>5. journal' = journal
  BY <1>1 DEF SaveRoot, disk
<1>6. /\ app = "up" /\ p \notin locks /\ journal[p] # None /\ tree[p]["root"] = "new"
      /\ own' \subseteq Project
      /\ UNCHANGED <<decision, locks, begun, commit, app, start, told>>
      /\ UNCHANGED <<crashes, faults, edits, edited>>
  BY <1>1 DEF SaveRoot, memory, TypeOK
<1>7. TypeOK'
  BY <1>1, <1>3, <1>4, <1>5, <1>6, Constants DEF TypeOK, Works, Placed, Journalled
<1>8. ChangesKept'
  BY <1>1, <1>3, <1>4, <1>5, <1>6, Constants, ChangesOfOthers DEF Placed, TypeOK, Places, Roots
<1>9. Cohorts'
  BY <1>1, <1>3, <1>4, <1>5, <1>6, Constants, <1>2 DEF Cohorts, Works
<1>10. OnDisk(p)'
  BY <1>1, <1>3, <1>4, <1>5, <1>6, Constants DEF OnDisk, Works, Placed, Journalled,
    Exists, Undoable, Decided, Committed, Places, Roots
<1>11. Begins(p)'
  BY <1>1, <1>3, <1>4, <1>5, <1>6, Constants DEF Begins, Beginning, Works, Placed,
    Journalled, Exists, Undoable, Decided, Committed, Places, Roots
<1>12. Undoes(p)'
  BY <1>1, <1>3, <1>4, <1>5, <1>6, Constants DEF Undoes, Undoing, Works, Placed,
    Journalled, Exists, Undoable, Decided, Committed, Places, Roots
<1>13. Ends(p)'
  BY <1>1, <1>3, <1>4, <1>5, <1>6, Constants DEF Ends, Ending, Works, Placed,
    Journalled, Exists, Undoable, Decided, Committed, Places, Roots
<1>14. Aside(p)'
  BY <1>1, <1>3, <1>4, <1>5, <1>6, Constants DEF Aside, Begins, Undoes, Ends, OnDisk,
    Beginning, Undoing, Ending, Works, Placed, Journalled, Exists, Undoable, Decided,
    Committed, Places, Roots
<1>15. Roles(p)'
  BY <1>1, <1>3, <1>4, <1>5, <1>6, Constants DEF Roles, Undoable, Decided, Committed,
    Works, Journalled
<1>16. ASSUME NEW q \in Project \ {p}
       PROVE  Roles(q)'
  BY <1>1, <1>3, <1>4, <1>5, <1>6, Constants, <1>2 DEF Roles, Undoable, Decided,
    Committed, Works, Journalled
<1>17. ASSUME NEW q \in Project \ {p}
       PROVE  OnDisk(q)' /\ Begins(q)' /\ Undoes(q)' /\ Ends(q)' /\ Aside(q)'
  BY <1>1, <1>3, <1>4, <1>5, <1>6, Constants, <1>2, OtherKept DEF Same, Works, Placed,
    Journalled
<1>18. \A q \in Project : ProjectInv(q)'
  BY <1>10, <1>11, <1>12, <1>13, <1>14, <1>15, <1>16, <1>17 DEF ProjectInv
<1> QED
  BY <1>7, <1>8, <1>9, <1>18 DEF IInv

-----------------------------------------------------------------------------
(***************************************************************************)
(* The steps of the process as a whole.                                    *)
(***************************************************************************)
LEMMA Decides ==
    ASSUME IInv, NEW cohort \in SUBSET Project, Decide(cohort)
    PROVE  IInv'
<1>1. /\ TypeOK /\ ChangesKept /\ Cohorts
      /\ \A q \in Project : /\ OnDisk(q) /\ Begins(q) /\ Undoes(q)
                          /\ Ends(q) /\ Aside(q) /\ Roles(q)
  BY DEF IInv, ProjectInv
<1>2. UNCHANGED <<tree, journal>>
  BY <1>1 DEF Decide, disk
<1>3. UNCHANGED <<pc, job, step>>
  BY <1>1 DEF Decide, work
<1>4. /\ app = "up" /\ commit.members = {} /\ decision = {} /\ decision' = cohort
      /\ commit' \in [members : SUBSET Project, todo : SUBSET Project,
                     conflict : BOOLEAN, pending : BOOLEAN]
      /\ commit'.members = cohort /\ commit'.todo = cohort
      /\ \A q \in cohort : /\ journal[q] = "installed" /\ pc[q] = "idle"
                          /\ tree[q]["root"] = "new"
      /\ UNCHANGED <<locks, begun, app, start, told, crashes, faults, edits, edited, own>>
  BY <1>1 DEF Decide, Idle, Committable, At, NoCommit, environment
<1>5. TypeOK'
  BY <1>1, <1>2, <1>3, <1>4, Constants DEF TypeOK, Works, Placed, Journalled
<1>6. ChangesKept'
  BY <1>1, <1>2, <1>3, <1>4, Constants DEF ChangesKept
<1>7. Cohorts'
  BY <1>1, <1>2, <1>3, <1>4, Constants DEF Cohorts, Works
<1>8. ASSUME NEW q \in Project
      PROVE  OnDisk(q)'
  BY <1>1, <1>2, <1>3, <1>4, Constants DEF OnDisk, Works, Placed, Journalled, Exists,
    Undoable, Decided, Committed, Places, Roots
<1>9. ASSUME NEW q \in Project
      PROVE  Begins(q)'
  BY <1>1, <1>2, <1>3, <1>4, Constants DEF Begins, Beginning, Works, Placed, Journalled,
    Exists, Undoable, Decided, Committed, Places, Roots
<1>10. ASSUME NEW q \in Project
       PROVE  Undoes(q)'
  BY <1>1, <1>2, <1>3, <1>4, Constants DEF Undoes, Undoing, Works, Placed, Journalled,
    Exists, Undoable, Decided, Committed, Places, Roots
<1>11. ASSUME NEW q \in Project
       PROVE  Ends(q)'
  BY <1>1, <1>2, <1>3, <1>4, Constants DEF Ends, Ending, Works, Placed, Journalled,
    Exists, Undoable, Decided, Committed, Places, Roots
<1>12. ASSUME NEW q \in Project
       PROVE  Aside(q)'
  BY <1>1, <1>2, <1>3, <1>4, Constants DEF Aside, Works, Exists
<1>13. ASSUME NEW q \in Project
       PROVE  Roles(q)'
  BY <1>1, <1>2, <1>3, <1>4, Constants DEF Roles, Undoable, Decided, Committed, Works,
    Journalled, Cohorts, OnDisk, TypeOK, Placed
<1> QED
  BY <1>5, <1>6, <1>7, <1>8, <1>9, <1>10, <1>11, <1>12, <1>13 DEF IInv, ProjectInv

LEMMA EndsCommit ==
    ASSUME IInv, EndCommit
    PROVE  IInv'
<1>1. /\ TypeOK /\ ChangesKept /\ Cohorts
      /\ \A q \in Project : /\ OnDisk(q) /\ Begins(q) /\ Undoes(q)
                          /\ Ends(q) /\ Aside(q) /\ Roles(q)
  BY DEF IInv, ProjectInv
<1>2. ~commit.conflict /\ ~commit.pending => \A q \in decision : journal[q] = None
  BY <1>1 DEF EndCommit, Idle, TypeOK, Cohorts, Roles
<1>3. UNCHANGED <<tree, journal>>
  BY <1>1, <1>2 DEF EndCommit, disk
<1>4. UNCHANGED <<pc, job, step>>
  BY <1>1, <1>2 DEF EndCommit, work
<1>5. /\ commit'.members = {} /\ commit'.todo = {} /\ ~commit'.conflict /\ ~commit'.pending
      /\ commit' \in [members : SUBSET Project, todo : SUBSET Project,
                     conflict : BOOLEAN, pending : BOOLEAN]
      /\ commit.members # {} /\ commit.todo = {} /\ \A q \in commit.members : pc[q] = "idle"
      /\ decision' = IF commit.conflict \/ commit.pending THEN decision ELSE {}
      /\ begun' \subseteq Project /\ told' \in [Project -> {"nothing", "committed", "restored"}]
      /\ UNCHANGED <<locks, app, start, crashes, faults, edits, edited, own>>
  BY <1>1, <1>2 DEF EndCommit, Idle, At, NoCommit, environment, TypeOK
<1>6. TypeOK'
  BY <1>1, <1>2, <1>3, <1>4, <1>5, Constants DEF TypeOK, Works, Placed, Journalled
<1>7. ChangesKept'
  BY <1>1, <1>2, <1>3, <1>4, <1>5, Constants DEF ChangesKept
<1>8. Cohorts'
  BY <1>1, <1>2, <1>3, <1>4, <1>5, Constants DEF Cohorts, Works
<1>9. ASSUME NEW q \in Project
      PROVE  OnDisk(q)'
  BY <1>1, <1>2, <1>3, <1>4, <1>5, Constants DEF OnDisk, Roles, Works, Placed,
    Journalled, Exists, Undoable, Decided, Committed, Places, Roots
<1>10. ASSUME NEW q \in Project
       PROVE  Begins(q)'
  BY <1>1, <1>2, <1>3, <1>4, <1>5, Constants DEF Begins, Beginning, Works, Placed,
    Journalled, Exists, Undoable, Decided, Committed, Places, Roots
<1>11. ASSUME NEW q \in Project
       PROVE  Undoes(q)'
  BY <1>1, <1>2, <1>3, <1>4, <1>5, Constants DEF Undoes, Undoing, Works, Placed,
    Journalled, Exists, Undoable, Decided, Committed, Places, Roots
<1>12. ASSUME NEW q \in Project
       PROVE  Ends(q)'
  BY <1>1, <1>2, <1>3, <1>4, <1>5, Constants DEF Ends, Undoes, Undoing, Ending, Roles,
    Works, Placed, Journalled, Exists, Undoable, Decided, Committed, Places, Roots
<1>13. ASSUME NEW q \in Project
       PROVE  Aside(q)'
  BY <1>1, <1>2, <1>3, <1>4, <1>5, Constants DEF Aside, Works, Exists
<1>14. ASSUME NEW q \in Project
       PROVE  Roles(q)'
  BY <1>1, <1>2, <1>3, <1>4, <1>5, Constants DEF Roles, Undoable, Decided, Committed,
    Works, Journalled, Cohorts, OnDisk, TypeOK, Placed
<1> QED
  BY <1>6, <1>7, <1>8, <1>9, <1>10, <1>11, <1>12, <1>13, <1>14 DEF IInv, ProjectInv

LEMMA StartsRecovery ==
    ASSUME IInv, StartRecovery
    PROVE  IInv'
<1>1. /\ TypeOK /\ ChangesKept /\ Cohorts
      /\ \A q \in Project : /\ OnDisk(q) /\ Begins(q) /\ Undoes(q)
                          /\ Ends(q) /\ Aside(q) /\ Roles(q)
  BY DEF IInv, ProjectInv
<1>2. UNCHANGED <<tree, journal>>
  BY <1>1 DEF StartRecovery, disk
<1>3. UNCHANGED <<pc, job, step>>
  BY <1>1 DEF StartRecovery, work
<1>4. /\ app \in {"down", "refused"}
      /\ app' = IF decision = {} THEN "journals" ELSE "decision"
      /\ start' = {q \in Project : journal[q] # None /\ (decision = {} \/ q \in decision)}
      /\ UNCHANGED <<decision, locks, begun, commit, told, crashes, faults, edits, edited, own>>
  BY <1>1 DEF StartRecovery, disk, environment
<1>5. TypeOK'
  BY <1>1, <1>2, <1>3, <1>4, Constants DEF TypeOK, Works, Placed, Journalled
<1>6. ChangesKept'
  BY <1>1, <1>2, <1>3, <1>4, Constants DEF ChangesKept
<1>7. Cohorts'
  BY <1>1, <1>2, <1>3, <1>4, Constants DEF Cohorts, Works
<1>8. ASSUME NEW q \in Project
      PROVE  OnDisk(q)'
  BY <1>1, <1>2, <1>3, <1>4, Constants DEF OnDisk, Works, Placed, Journalled, Exists,
    Undoable, Decided, Committed, Places, Roots
<1>9. ASSUME NEW q \in Project
      PROVE  Begins(q)'
  BY <1>1, <1>2, <1>3, <1>4, Constants DEF Begins, Beginning, Works, Placed, Journalled,
    Exists, Undoable, Decided, Committed, Places, Roots
<1>10. ASSUME NEW q \in Project
       PROVE  Undoes(q)'
  BY <1>1, <1>2, <1>3, <1>4, Constants DEF Undoes, Undoing, Works, Placed, Journalled,
    Exists, Undoable, Decided, Committed, Places, Roots
<1>11. ASSUME NEW q \in Project
       PROVE  Ends(q)'
  BY <1>1, <1>2, <1>3, <1>4, Constants DEF Ends, Ending, Works, Placed, Journalled,
    Exists, Undoable, Decided, Committed, Places, Roots
<1>12. ASSUME NEW q \in Project
       PROVE  Aside(q)'
  BY <1>1, <1>2, <1>3, <1>4, Constants DEF Aside, Works, Exists
<1>13. ASSUME NEW q \in Project
       PROVE  Roles(q)'
  BY <1>1, <1>2, <1>3, <1>4, Constants DEF Roles, Undoable, Decided, Committed, Works,
    Journalled
<1> QED
  BY <1>5, <1>6, <1>7, <1>8, <1>9, <1>10, <1>11, <1>12, <1>13 DEF IInv, ProjectInv

LEMMA RecoversDecision ==
    ASSUME IInv, DecisionRecovered
    PROVE  IInv'
<1>1. /\ TypeOK /\ ChangesKept /\ Cohorts
      /\ \A q \in Project : /\ OnDisk(q) /\ Begins(q) /\ Undoes(q)
                          /\ Ends(q) /\ Aside(q) /\ Roles(q)
  BY DEF IInv, ProjectInv
<1>2. UNCHANGED <<tree, journal>>
  BY <1>1 DEF DecisionRecovered, disk
<1>3. UNCHANGED <<pc, job, step>>
  BY <1>1 DEF DecisionRecovered, work
<1>4. /\ app = "decision" /\ start = {} /\ app' = "journals"
      /\ start' = {q \in Project : journal[q] # None}
      /\ decision' \subseteq decision
      /\ decision' = decision \/ \A q \in decision : journal[q] = None
      /\ UNCHANGED <<locks, begun, commit, told, crashes, faults, edits, edited, own>>
  BY <1>1 DEF DecisionRecovered, environment
<1>5. TypeOK'
  BY <1>1, <1>2, <1>3, <1>4, Constants DEF TypeOK, Works, Placed, Journalled
<1>6. ChangesKept'
  BY <1>1, <1>2, <1>3, <1>4, Constants DEF ChangesKept
<1>7. Cohorts'
  BY <1>1, <1>2, <1>3, <1>4, Constants DEF Cohorts, Works
<1>8. ASSUME NEW q \in Project
      PROVE  OnDisk(q)'
  BY <1>1, <1>2, <1>3, <1>4, Constants DEF OnDisk, Works, Placed, Journalled, Exists,
    Undoable, Decided, Committed, Places, Roots
<1>9. ASSUME NEW q \in Project
      PROVE  Begins(q)'
  BY <1>1, <1>2, <1>3, <1>4, Constants DEF Begins, Beginning, Works, Placed, Journalled,
    Exists, Undoable, Decided, Committed, Places, Roots
<1>10. ASSUME NEW q \in Project
       PROVE  Undoes(q)'
  BY <1>1, <1>2, <1>3, <1>4, Constants DEF Undoes, Undoing, Works, Placed, Journalled,
    Exists, Undoable, Decided, Committed, Places, Roots
<1>11. ASSUME NEW q \in Project
       PROVE  Ends(q)'
  BY <1>1, <1>2, <1>3, <1>4, Constants DEF Ends, Ending, Works, Placed, Journalled,
    Exists, Undoable, Decided, Committed, Places, Roots
<1>12. ASSUME NEW q \in Project
       PROVE  Aside(q)'
  BY <1>1, <1>2, <1>3, <1>4, Constants DEF Aside, Works, Exists
<1>13. ASSUME NEW q \in Project
       PROVE  Roles(q)'
  BY <1>1, <1>2, <1>3, <1>4, Constants DEF Roles, Undoable, Decided, Committed, Works,
    Journalled
<1> QED
  BY <1>5, <1>6, <1>7, <1>8, <1>9, <1>10, <1>11, <1>12, <1>13 DEF IInv, ProjectInv

LEMMA Recovers ==
    ASSUME IInv, Recovered
    PROVE  IInv'
<1>1. /\ TypeOK /\ ChangesKept /\ Cohorts
      /\ \A q \in Project : /\ OnDisk(q) /\ Begins(q) /\ Undoes(q)
                          /\ Ends(q) /\ Aside(q) /\ Roles(q)
  BY DEF IInv, ProjectInv
<1>2. UNCHANGED <<tree, journal>>
  BY <1>1 DEF Recovered, disk
<1>3. UNCHANGED <<pc, job, step>>
  BY <1>1 DEF Recovered, work
<1>4. /\ app = "journals" /\ start = {} /\ app' = "up"
      /\ UNCHANGED <<decision, locks, begun, commit, start, told,
                     crashes, faults, edits, edited, own>>
  BY <1>1 DEF Recovered, disk, environment
<1>5. TypeOK'
  BY <1>1, <1>2, <1>3, <1>4, Constants DEF TypeOK, Works, Placed, Journalled
<1>6. ChangesKept'
  BY <1>1, <1>2, <1>3, <1>4, Constants DEF ChangesKept
<1>7. Cohorts'
  BY <1>1, <1>2, <1>3, <1>4, Constants DEF Cohorts, Works
<1>8. ASSUME NEW q \in Project
      PROVE  OnDisk(q)'
  BY <1>1, <1>2, <1>3, <1>4, Constants DEF OnDisk, Works, Placed, Journalled, Exists,
    Undoable, Decided, Committed, Places, Roots
<1>9. ASSUME NEW q \in Project
      PROVE  Begins(q)'
  BY <1>1, <1>2, <1>3, <1>4, Constants DEF Begins, Beginning, Works, Placed, Journalled,
    Exists, Undoable, Decided, Committed, Places, Roots
<1>10. ASSUME NEW q \in Project
       PROVE  Undoes(q)'
  BY <1>1, <1>2, <1>3, <1>4, Constants DEF Undoes, Undoing, Works, Placed, Journalled,
    Exists, Undoable, Decided, Committed, Places, Roots
<1>11. ASSUME NEW q \in Project
       PROVE  Ends(q)'
  BY <1>1, <1>2, <1>3, <1>4, Constants DEF Ends, Ending, Works, Placed, Journalled,
    Exists, Undoable, Decided, Committed, Places, Roots
<1>12. ASSUME NEW q \in Project
       PROVE  Aside(q)'
  BY <1>1, <1>2, <1>3, <1>4, Constants DEF Aside, Works, Exists
<1>13. ASSUME NEW q \in Project
       PROVE  Roles(q)'
  BY <1>1, <1>2, <1>3, <1>4, Constants DEF Roles, Undoable, Decided, Committed, Works,
    Journalled
<1> QED
  BY <1>5, <1>6, <1>7, <1>8, <1>9, <1>10, <1>11, <1>12, <1>13 DEF IInv, ProjectInv

LEMMA Crashes ==
    ASSUME IInv, Crash
    PROVE  IInv'
<1>1. /\ TypeOK /\ ChangesKept /\ Cohorts
      /\ \A q \in Project : /\ OnDisk(q) /\ Begins(q) /\ Undoes(q)
                          /\ Ends(q) /\ Aside(q) /\ Roles(q)
  BY DEF IInv, ProjectInv
<1>2. UNCHANGED <<tree, journal>>
  BY <1>1 DEF Crash, disk
<1>3. /\ pc' = [q \in Project |-> "idle"] /\ job' = [q \in Project |-> "begin"]
      /\ step' = [q \in Project |-> "look"]
  BY <1>1 DEF Crash
<1>4. /\ app' = "down" /\ locks' = {} /\ begun' = {} /\ start' = {}
      /\ commit'.members = {} /\ commit'.todo = {} /\ ~commit'.conflict /\ ~commit'.pending
      /\ commit' \in [members : SUBSET Project, todo : SUBSET Project,
                     conflict : BOOLEAN, pending : BOOLEAN]
      /\ crashes' \in Nat
      /\ UNCHANGED <<decision, told, faults, edits, edited, own>>
  BY <1>1 DEF Crash, disk, NoCommit, TypeOK
<1>5. TypeOK'
  BY <1>1, <1>2, <1>3, <1>4, Constants DEF TypeOK, Works, Placed, Journalled, Steps,
    Phases, Trees, Disposal
<1>6. ChangesKept'
  BY <1>1, <1>2, <1>3, <1>4, Constants DEF ChangesKept
<1>7. Cohorts'
  BY <1>1, <1>2, <1>3, <1>4, Constants DEF Cohorts, Works
<1>8. ASSUME NEW q \in Project
      PROVE  OnDisk(q)'
  BY <1>1, <1>2, <1>3, <1>4, Constants DEF OnDisk, Works, Placed, Journalled, Exists,
    Undoable, Decided, Committed, Places, Roots
<1>9. ASSUME NEW q \in Project
      PROVE  Begins(q)'
  BY <1>1, <1>2, <1>3, <1>4, Constants DEF Begins, Beginning, Works
<1>10. ASSUME NEW q \in Project
       PROVE  Undoes(q)'
  BY <1>1, <1>2, <1>3, <1>4, Constants DEF Undoes, Undoing, Works
<1>11. ASSUME NEW q \in Project
       PROVE  Ends(q)'
  BY <1>1, <1>2, <1>3, <1>4, Constants DEF Ends, Ending, Works
<1>12. ASSUME NEW q \in Project
       PROVE  Aside(q)'
  BY <1>1, <1>2, <1>3, <1>4, Constants DEF Aside, Works
<1>13. ASSUME NEW q \in Project
       PROVE  Roles(q)'
  BY <1>1, <1>2, <1>3, <1>4, Constants DEF Roles, Undoable, Decided, Committed, Works,
    Journalled
<1> QED
  BY <1>5, <1>6, <1>7, <1>8, <1>9, <1>10, <1>11, <1>12, <1>13 DEF IInv, ProjectInv

-----------------------------------------------------------------------------
(***************************************************************************)
(* Every step.                                                             *)
(***************************************************************************)
LEMMA Failing ==
    ASSUME IInv, NEW p \in Project, pc[p] # "idle", NEW why, Fails(p, why),
           UNCHANGED disk, faults' \in Nat, UNCHANGED <<crashes, edits, edited, own>>
    PROVE  IInv'
<1>1. CASE job[p] = "begin" /\ Start(p, "undo", "abort") /\ UNCHANGED <<memory, told>>
  BY <1>1, AbortsAfterFailure
<1>2. CASE job[p] \in {"abort", "rollback"} /\ GoTo(p, "idle") /\ UNCHANGED <<memory, told>>
  BY <1>2, FailsToUndo
<1>3. CASE /\ job[p] = "commit" /\ GoTo(p, "idle")
           /\ CommitVisited(p, why = "conflict", why # "conflict")
           /\ locks' = IF why = "conflict" THEN locks ELSE locks \ {p}
           /\ UNCHANGED <<begun, app, start, told>>
  BY <1>3, FailsToCommit
<1>4. CASE /\ job[p] = "recover" /\ GoTo(p, "idle")
           /\ IF why = "pending" /\ journal[p] \in Committed
              THEN start' = start \ {p} /\ UNCHANGED app
              ELSE app' = "refused" /\ UNCHANGED start
           /\ UNCHANGED <<locks, begun, commit, told>>
  BY <1>4, FailsToRecover
<1> QED
  BY <1>1, <1>2, <1>3, <1>4 DEF Fails

LEMMA Conflicting ==
    ASSUME IInv, NEW p \in Project, pc[p] # "idle", Conflict(p)
    PROVE  IInv'
<1>1. UNCHANGED disk /\ faults' \in Nat /\ UNCHANGED <<crashes, edits, edited, own>>
  BY Parts DEF Conflict, environment, TypeOK
<1> QED
  BY <1>1, Failing DEF Conflict

\* A failing file system call of a step.
LEMMA Erring ==
    ASSUME IInv, NEW p \in Project, pc[p] # "idle", Fails(p, "error"),
           UNCHANGED <<disk, environment>>
    PROVE  IInv'
<1>1. UNCHANGED disk /\ faults' \in Nat /\ UNCHANGED <<crashes, edits, edited, own>>
  BY Parts DEF environment, TypeOK
<1> QED
  BY <1>1, Failing

LEMMA Faulting ==
    ASSUME IInv, NEW p \in Project, Fault(p)
    PROVE  IInv'
<1>1. UNCHANGED disk /\ faults' \in Nat /\ UNCHANGED <<crashes, edits, edited, own>>
  BY Parts DEF Fault, TypeOK
<1>2. CASE pc[p] # "idle" /\ Fails(p, FaultKind(p))
  <2> DEFINE kind == FaultKind(p)
  <2>1. Fails(p, kind)
    BY <1>2
  <2> HIDE DEF kind
  <2> QED
    BY <1>1, <1>2, <2>1, Failing
<1>3. CASE /\ p \in commit.todo /\ \A q \in commit.members : At(q, "idle")
           /\ CommitVisited(p, FALSE, TRUE)
           /\ locks' = locks \ {p}
           /\ UNCHANGED <<begun, app, start, work, told>>
  BY <1>1, <1>3, FailsToMark
<1> QED
  BY <1>2, <1>3 DEF Fault, At

\* beginProjectReplacement.
LEMMA BeginStep ==
    ASSUME IInv, NEW p \in Project,
           \/ Begin(p) \/ CopyRoot(p) \/ WriteStaging(p) \/ WritePrepared(p) \/ VerifyRoot(p)
           \/ MoveToBackup(p) \/ WriteBackupMoved(p) \/ InstallStaging(p)
           \/ WriteInstalled(p) \/ Register(p)
    PROVE  IInv'
<1>1. CASE VerifyRoot(p)
  <2>1. CASE tree[p]["root"] = "old"
    BY <1>1, <2>1, FindsRoot, Conflicting DEF VerifyRoot, At
  <2>2. CASE tree[p]["root"] # "old"
    BY <1>1, <2>2, Conflicting DEF VerifyRoot, At
  <2> QED
    BY <2>1, <2>2
<1>2. CASE WriteBackupMoved(p)
  <2>1. CASE tree[p]["backup"] = "old"
    BY <1>2, <2>1, WritesBackupMoved DEF WriteBackupMoved
  <2>2. CASE tree[p]["backup"] # "old"
    BY <1>2, <2>2, Conflicting DEF WriteBackupMoved, At
  <2> QED
    BY <2>1, <2>2
<1>3. CASE InstallStaging(p)
  <2>1. CASE ~Exists(p, "root")
    BY <1>3, <2>1, InstallsStaging DEF InstallStaging
  <2>2. CASE Exists(p, "root")
    BY <1>3, <2>2, Erring DEF InstallStaging, At
  <2> QED
    BY <2>1, <2>2
<1>4. CASE WriteInstalled(p)
  <2>1. CASE tree[p]["root"] = "new"
    BY <1>4, <2>1, WritesInstalled DEF WriteInstalled
  <2>2. CASE tree[p]["root"] # "new"
    BY <1>4, <2>2, Conflicting DEF WriteInstalled, At
  <2> QED
    BY <2>1, <2>2
<1> QED
  BY <1>1, <1>2, <1>3, <1>4, BeginsReplacement, CopiesRoot, WritesStaging, WritesPrepared,
    MovesToBackup, Registers

\* quarantineAndTrashReplacementOwnedRoot.
LEMMA DisposalStep ==
    ASSUME IInv, NEW p \in Project, LookForRoot(p) \/ MoveAside(p) \/ Trash(p)
    PROVE  IInv'
<1> DEFINE root == Disposal[pc[p]]
           aside == Quarantine[root]
<1>1. pc[p] \in DOMAIN Disposal /\ pc[p] # "idle"
  BY StepsOf DEF LookForRoot, MoveAside, Trash, Disposing
<1>2. CASE LookForRoot(p)
  <2>1. Disposing(p, "look")
    BY <1>2 DEF LookForRoot
  <2>2. \/ /\ Exists(p, root) /\ ~Exists(p, aside) /\ Verified(p, root, root)
           /\ GoOn(p, "move") /\ UNCHANGED <<disk, memory, told, environment>>
        \/ Conflict(p)
        \/ /\ ~Exists(p, root) /\ Exists(p, aside)
           /\ GoOn(p, "trash") /\ UNCHANGED <<disk, memory, told, environment>>
        \/ /\ ~Exists(p, root) /\ ~Exists(p, aside)
           /\ GoTo(p, Following[pc[p]]) /\ UNCHANGED <<disk, memory, told, environment>>
    BY <1>2 DEF LookForRoot
  <2> QED
    BY <1>1, <2>1, <2>2, VerifiesInPlace, FindsAside, FindsNothing, Conflicting
<1>3. CASE MoveAside(p)
  BY <1>1, <1>3, StepsOf, MovesAsideNewRoot, MovesAsideStagingUndone, MovesAsideBackup,
    MovesAsideStaging
<1>4. CASE Trash(p)
  <2>1. Disposing(p, "trash")
    BY <1>4 DEF Trash
  <2>2. CASE Conflict(p)
    BY <1>1, <2>2, Conflicting
  <2>3. CASE /\ Verified(p, aside, root) /\ Put(p, aside, None) /\ GoTo(p, Following[pc[p]])
             /\ UNCHANGED <<journal, decision, memory, told, environment>>
    <3>1. CASE pc[p] = "undoRoot"
      <4>1. /\ tree[p]["q-root"] = "new" /\ Put(p, "q-root", None) /\ GoTo(p, "undoBackup")
        BY <2>3, <3>1 DEF Disposal, Quarantine, Following, Expected, Verified
      <4> QED
        BY <2>1, <2>3, <3>1, <4>1, TrashesNewRoot
    <3>2. CASE pc[p] = "undoStaging"
      <4>1. /\ tree[p]["q-staging"] = "new" /\ Put(p, "q-staging", None) /\ GoTo(p, "undone")
        BY <2>3, <3>2 DEF Disposal, Quarantine, Following, Expected, Verified
      <4> QED
        BY <2>1, <2>3, <3>2, <4>1, TrashesStagingUndone
    <3>3. CASE pc[p] = "endBackup"
      <4>1. /\ tree[p]["q-backup"] = "old" /\ Put(p, "q-backup", None)
            /\ GoTo(p, "endStaging")
        BY <2>3, <3>3 DEF Disposal, Quarantine, Following, Expected, Verified
      <4> QED
        BY <2>1, <2>3, <3>3, <4>1, TrashesBackup
    <3>4. CASE pc[p] = "endStaging"
      <4>1. /\ tree[p]["q-staging"] = "new" /\ Put(p, "q-staging", None) /\ GoTo(p, "ended")
        BY <2>3, <3>4 DEF Disposal, Quarantine, Following, Expected, Verified
      <4> QED
        BY <2>1, <2>3, <3>4, <4>1, TrashesStaging
    <3> QED
      BY <1>1, <3>1, <3>2, <3>3, <3>4, StepsOf
  <2> QED
    BY <1>4, <2>2, <2>3 DEF Trash
<1> QED
  BY <1>2, <1>3, <1>4

\* restoreProjectReplacement.
LEMMA RestoreStep ==
    ASSUME IInv, NEW p \in Project,
           Restore(p) \/ MoveBackupBack(p) \/ RestoreStaging(p) \/ Restored(p)
    PROVE  IInv'
<1>1. CASE Restore(p)
  <2>1. At(p, "undo") /\ pc[p] # "idle"
    BY <1>1 DEF Restore, At
  <2>2. CASE /\ tree[p]["backup"] = "old" /\ journal[p] # "staging"
             /\ GoTo(p, "undoRoot") /\ UNCHANGED <<disk, memory, told, environment>>
    BY <2>1, <2>2, RestoresBackup
  <2>3. CASE Conflict(p)
    BY <2>1, <2>3, Conflicting
  <2>4. CASE /\ ~Exists(p, "backup") /\ Exists(p, "root")
             /\ GoTo(p, "undoneRoot") /\ UNCHANGED <<disk, memory, told, environment>>
    BY <2>1, <2>4, FindsOldRoot
  <2>5. CASE Fails(p, "error") /\ UNCHANGED <<disk, environment>>
    BY <2>1, <2>5, Erring
  <2> QED
    BY <1>1, <2>2, <2>3, <2>4, <2>5 DEF Restore
<1>2. CASE MoveBackupBack(p)
  <2>1. CASE ~Exists(p, "root")
    BY <1>2, <2>1, MovesBackupBack DEF MoveBackupBack
  <2>2. CASE Exists(p, "root")
    BY <1>2, <2>2, Erring DEF MoveBackupBack, At
  <2> QED
    BY <2>1, <2>2
<1>3. CASE RestoreStaging(p)
  <2>1. At(p, "undoneRoot") /\ pc[p] # "idle"
    BY <1>3 DEF RestoreStaging, At
  <2>2. CASE /\ journal[p] # "staging" /\ GoTo(p, "undoStaging")
             /\ UNCHANGED <<disk, memory, told, environment>>
    BY <2>1, <2>2, DisposesOfStaging
  <2>3. CASE /\ journal[p] = "staging" /\ ~Exists(p, "staging") /\ GoTo(p, "undone")
             /\ UNCHANGED <<disk, memory, told, environment>>
    BY <2>1, <2>3, FindsNoStaging
  <2>4. CASE Conflict(p)
    BY <2>1, <2>4, Conflicting
  <2> QED
    BY <1>3, <2>2, <2>3, <2>4 DEF RestoreStaging
<1> QED
  BY <1>1, <1>2, <1>3, FinishesRestoration

\* finalizeProjectReplacement.
LEMMA FinalizeStep ==
    ASSUME IInv, NEW p \in Project, Finalize(p) \/ Finalized(p)
    PROVE  IInv'
<1>1. CASE Finalize(p)
  <2>1. At(p, "end") /\ pc[p] # "idle"
    BY <1>1 DEF Finalize, At
  <2>2. CASE /\ journal[p] = "cleanup-verified" /\ GoTo(p, "endBackup")
             /\ UNCHANGED <<disk, memory, told, environment>>
    BY <2>1, <2>2, GoesOnFinalizing
  <2>3. CASE /\ WriteJournal(p, "cleanup-verified") /\ GoTo(p, "endBackup")
             /\ UNCHANGED <<tree, decision, memory, told, environment>>
    BY <2>1, <2>3, VerifiesCleanup
  <2>4. CASE Conflict(p)
    BY <2>1, <2>4, Conflicting
  <2> QED
    BY <1>1, <2>2, <2>3, <2>4 DEF Finalize
<1> QED
  BY <1>1, Finalizes

LEMMA WorkStep ==
    ASSUME IInv, NEW p \in Project, Work(p)
    PROVE  IInv'
<1>1. CASE RecoverJournal(p)
  BY <1>1, RecoversCommitted, RecoversUndoable
<1> QED
  BY <1>1, BeginStep, DisposalStep, RestoreStep, FinalizeStep, MarksCommitted,
    RecoversMember DEF Work

LEMMA Stuttering ==
    ASSUME IInv, UNCHANGED vars
    PROVE  IInv'
<1> USE DEF IInv, vars, disk, memory, work, environment
<1>1. TypeOK'
  BY DEF TypeOK
<1>2. ChangesKept' /\ Cohorts'
  BY DEF ChangesKept, Cohorts
<1>3. ASSUME NEW q \in Project
      PROVE  OnDisk(q)' /\ Begins(q)' /\ Undoes(q)' /\ Ends(q)' /\ Aside(q)'
  BY OtherKept DEF Same
<1>4. ASSUME NEW q \in Project
      PROVE  Roles(q)'
  BY DEF ProjectInv, Roles, Undoable, Decided
<1> QED
  BY <1>1, <1>2, <1>3, <1>4 DEF ProjectInv

LEMMA Initial ==
    ASSUME Init
    PROVE  IInv
<1> USE Constants DEF Init
<1>1. TypeOK
  BY DEF TypeOK, NoCommit, Steps, Trees, Phases
<1>2. ChangesKept /\ Cohorts
  BY DEF ChangesKept, Cohorts, NoCommit
<1>3. ASSUME NEW p \in Project
      PROVE  ProjectInv(p)
  <2>1. /\ tree[p]["root"] = "old"
        /\ \A place \in Places \ {"root"} : tree[p][place] = None
        /\ {"root", "backup", "staging", "q-root", "q-backup", "q-staging"} = Places
    BY DEF Places, Roots
  <2>2. journal[p] = None /\ pc[p] = "idle" /\ job[p] = "begin" /\ step[p] = "look"
        /\ decision = {} /\ commit.members = {} /\ commit.todo = {} /\ app = "up"
    BY DEF NoCommit
  <2>3. OnDisk(p)
    BY <2>1, <2>2 DEF OnDisk, Exists, Decided, Undoable, Committed
  <2>4. Begins(p) /\ Undoes(p) /\ Ends(p) /\ Aside(p)
    BY <2>2 DEF Begins, Undoes, Ends, Aside, Beginning, Undoing, Ending
  <2>5. Roles(p)
    BY <2>2 DEF Roles, Undoable
  <2> QED
    BY <2>3, <2>4, <2>5 DEF ProjectInv
<1> QED
  BY <1>1, <1>2, <1>3 DEF IInv

LEMMA Step ==
    ASSUME ~RollsBackDecided, IInv, [Next]_vars
    PROVE  IInv'
<1>1. CASE UNCHANGED vars
  BY <1>1, Stuttering
<1>2. ASSUME NEW p \in Project, Begin(p) \/ Work(p) \/ Rollback(p) \/ Fault(p) \/ SaveRoot(p)
      PROVE  IInv'
  BY <1>2, BeginStep, WorkStep, RollsBack, Faulting, Saves
<1>3. ASSUME NEW p \in Project, NEW place \in {"root", "backup"}, Edit(p, place)
      PROVE  IInv'
  <2>1. CASE place = "root"
    BY <1>3, <2>1, EditsRoot
  <2>2. CASE place = "backup"
    BY <1>3, <2>2, EditsBackup
  <2> QED
    BY <2>1, <2>2
<1>4. ASSUME NEW cohort \in SUBSET Project, Decide(cohort)
      PROVE  IInv'
  BY <1>4, Decides
<1>5. CASE Proceed
  BY <1>5, EndsCommit, RecoversDecision, Recovers DEF Proceed
<1>6. CASE StartRecovery
  BY <1>6, StartsRecovery
<1>7. CASE Crash
  BY <1>7, Crashes
<1> QED
  BY <1>1, <1>2, <1>3, <1>4, <1>5, <1>6, <1>7 DEF Next
-----------------------------------------------------------------------------
(***************************************************************************)
(* What every step makes of the revision that is kept.                     *)
(***************************************************************************)
Steady == told' = told /\ \A q \in Project : Kept(q)' = Kept(q)

LEMMA Kepts ==
    \A q \in Project : Kept(q) = IF \/ Decided(q)
                                    \/ journal[q] = None /\ tree[q]["root"] \in {"new", "new+"}
                                 THEN "new" ELSE "old"
BY DEF Kept, Decided

LEMMA DiskHeld ==
    ASSUME UNCHANGED <<disk, told>>
    PROVE  Steady
BY DEF Steady, Kept, disk

LEMMA JournalHeld ==
    ASSUME NEW p \in Project, journal[p] # None, UNCHANGED <<journal, decision, told>>,
           \A q \in Project \ {p} : tree'[q] = tree[q]
    PROVE  Steady
BY DEF Steady, Kept

LEMMA TreeHeld ==
    ASSUME TypeOK, NEW p \in Project, NEW phase \in Phases \cup {None},
           WriteJournal(p, phase), UNCHANGED <<tree, decision, told>>,
           p \in decision \/ phase \in Committed
                \/ (phase = None /\ tree[p]["root"] \in {"new", "new+"})
           <=> p \in decision \/ journal[p] \in Committed
                \/ (journal[p] = None /\ tree[p]["root"] \in {"new", "new+"})
    PROVE  Steady
<1>1. Journalled(p, phase)
  BY JournalSet DEF TypeOK
<1> QED
  BY <1>1 DEF Steady, Kept, Journalled

LEMMA PutOthers ==
    ASSUME TypeOK, NEW p \in Project, NEW place \in Places, NEW t, Put(p, place, t)
    PROVE  \A q \in Project \ {p} : tree'[q] = tree[q]
BY DEF TypeOK, Put

LEMMA RenameOthers ==
    ASSUME TypeOK, NEW p \in Project, NEW from, NEW to, Rename(p, from, to)
    PROVE  \A q \in Project \ {p} : tree'[q] = tree[q]
BY DEF TypeOK, Rename

LEMMA WorkJournalled ==
    ASSUME IInv, NEW p \in Project, pc[p] # "idle"
    PROVE  journal[p] # None
BY Parts DEF Roles

LEMMA FailsSteady ==
    ASSUME NEW p \in Project, NEW why, Fails(p, why), UNCHANGED disk
    PROVE  Steady
<1>1. told' = told
  BY DEF Fails
<1> QED
  BY <1>1, DiskHeld

LEMMA ConflictSteady ==
    ASSUME NEW p \in Project, Conflict(p)
    PROVE  Steady
BY FailsSteady DEF Conflict

LEMMA BeginSteady ==
    ASSUME IInv, NEW p \in Project,
           \/ Begin(p) \/ CopyRoot(p) \/ WriteStaging(p) \/ WritePrepared(p) \/ VerifyRoot(p)
           \/ MoveToBackup(p) \/ WriteBackupMoved(p) \/ InstallStaging(p)
           \/ WriteInstalled(p) \/ Register(p)
    PROVE  Steady
<1>1. /\ TypeOK /\ OnDisk(p) /\ Begins(p) /\ Places = Places \cup {"root", "staging", "backup"}
  BY Parts DEF Places, Roots
<1>2. pc[p] \in Beginning => journal[p] # None /\ ~Decided(p)
  BY <1>1 DEF Begins, Undoable
<1>3. {"staging", "prepared", "backup-moved", "installed"} \subseteq Phases
      /\ \A phase \in {"staging", "prepared", "backup-moved", "installed"} :
            phase \notin Committed /\ phase # None
  BY Constants DEF Phases, Committed
<1>4. CASE Begin(p)
  <2>1. /\ WriteJournal(p, "staging") /\ UNCHANGED <<tree, decision, told>>
        /\ journal[p] = None /\ tree[p]["root"] = "old"
    BY <1>4 DEF Begin
  <2>2. p \notin decision /\ journal[p] \notin Committed
    BY <1>1, <2>1, Constants DEF OnDisk, Decided, Committed
  <2> QED
    BY <1>1, <1>3, <2>1, <2>2, TreeHeld
<1>5. CASE CopyRoot(p) \/ WriteStaging(p)
  <2>1. /\ journal[p] # None /\ UNCHANGED <<journal, decision, told>>
        /\ \E t : Put(p, "staging", t)
    BY <1>2, <1>5 DEF CopyRoot, WriteStaging, At, Beginning
  <2> QED
    BY <1>1, <2>1, PutOthers, JournalHeld
<1>6. CASE WritePrepared(p)
  <2>1. /\ WriteJournal(p, "prepared") /\ UNCHANGED <<tree, decision, told>>
        /\ journal[p] # None /\ ~Decided(p)
    BY <1>2, <1>6 DEF WritePrepared, At, Beginning
  <2> QED
    BY <1>1, <1>3, <2>1, TreeHeld DEF Decided
<1>7. CASE VerifyRoot(p)
  BY <1>7, ConflictSteady, DiskHeld DEF VerifyRoot
<1>8. CASE MoveToBackup(p)
  <2>1. /\ journal[p] # None /\ UNCHANGED <<journal, decision, told>>
        /\ Rename(p, "root", "backup")
    BY <1>2, <1>8 DEF MoveToBackup, At, Beginning
  <2> QED
    BY <1>1, <2>1, RenameOthers, JournalHeld
<1>9. CASE WriteBackupMoved(p)
  <2>1. journal[p] # None /\ ~Decided(p)
    BY <1>2, <1>9 DEF WriteBackupMoved, At, Beginning
  <2>2. CASE WriteJournal(p, "backup-moved") /\ UNCHANGED <<tree, decision, told>>
    BY <1>1, <1>3, <2>1, <2>2, TreeHeld DEF Decided
  <2> QED
    BY <1>9, <2>2, ConflictSteady DEF WriteBackupMoved
<1>10. CASE InstallStaging(p)
  <2>1. journal[p] # None
    BY <1>2, <1>10 DEF InstallStaging, At, Beginning
  <2>2. CASE Rename(p, "staging", "root") /\ UNCHANGED <<journal, decision, told>>
    BY <1>1, <2>1, <2>2, RenameOthers, JournalHeld
  <2> QED
    BY <1>10, <2>2, FailsSteady DEF InstallStaging
<1>11. CASE WriteInstalled(p)
  <2>1. journal[p] # None /\ ~Decided(p)
    BY <1>2, <1>11 DEF WriteInstalled, At, Beginning
  <2>2. CASE WriteJournal(p, "installed") /\ UNCHANGED <<tree, decision, told>>
    BY <1>1, <1>3, <2>1, <2>2, TreeHeld DEF Decided
  <2> QED
    BY <1>11, <2>2, ConflictSteady DEF WriteInstalled
<1>12. CASE Register(p)
  BY <1>12, DiskHeld DEF Register
<1> QED
  BY <1>4, <1>5, <1>6, <1>7, <1>8, <1>9, <1>10, <1>11, <1>12

LEMMA DisposalSteady ==
    ASSUME IInv, NEW p \in Project, LookForRoot(p) \/ MoveAside(p) \/ Trash(p)
    PROVE  Steady
<1>1. TypeOK
  BY Parts
<1>2. pc[p] \in DOMAIN Disposal /\ journal[p] # None
  BY WorkJournalled, StepsOf DEF LookForRoot, MoveAside, Trash, Disposing
<1>3. Quarantine[Disposal[pc[p]]] \in Places
  BY <1>2, Disposals DEF Places
<1>4. CASE LookForRoot(p)
  BY <1>4, ConflictSteady, DiskHeld DEF LookForRoot
<1>5. CASE MoveAside(p)
  <2>1. /\ Rename(p, Disposal[pc[p]], Quarantine[Disposal[pc[p]]])
        /\ UNCHANGED <<journal, decision, told>>
    BY <1>5 DEF MoveAside
  <2> QED
    BY <1>1, <1>2, <2>1, RenameOthers, JournalHeld
<1>6. CASE Trash(p)
  <2>1. CASE /\ Put(p, Quarantine[Disposal[pc[p]]], None)
             /\ UNCHANGED <<journal, decision, told>>
    BY <1>1, <1>2, <1>3, <2>1, PutOthers, JournalHeld
  <2> QED
    BY <1>6, <2>1, ConflictSteady DEF Trash
<1> QED
  BY <1>4, <1>5, <1>6

\* The folder before is there, and who asked for it is told so.
LEMMA RestoredGivesBack ==
    ASSUME IInv, NEW p \in Project, Restored(p)
    PROVE  /\ Kept(p) = "old"
           /\ \A q \in Project : Kept(q)' = Kept(q)
           /\ told' \in {told, [told EXCEPT ![p] = "restored"]}
<1>1. TypeOK /\ OnDisk(p) /\ Undoes(p) /\ pc[p] = "undone"
  BY Parts DEF Restored, At
<1>2. Undoable(p) /\ ~Exists(p, "backup")
  BY <1>1 DEF Undoes, Undoing
<1>3. tree[p]["root"] \in {"old", "old+"}
  BY <1>1, <1>2, Constants DEF OnDisk, Exists
<1>4. Journalled(p, None) /\ tree' = tree /\ decision' = decision
  BY <1>1, JournalSet DEF Restored, TypeOK
<1>5. Kept(p) = "old"
  BY <1>2 DEF Kept, Undoable, Decided
<1>6. \A q \in Project : Kept(q)' = Kept(q)
  BY <1>2, <1>3, <1>4, <1>5, Constants DEF Kept, Undoable, Decided, Committed, Journalled
<1>7. told' \in {told, [told EXCEPT ![p] = "restored"]}
  BY DEF Restored, Finishes
<1> QED
  BY <1>5, <1>6, <1>7

LEMMA RestoreSteady ==
    ASSUME IInv, NEW p \in Project, Restore(p) \/ MoveBackupBack(p) \/ RestoreStaging(p)
    PROVE  Steady
<1>1. TypeOK
  BY Parts
<1>2. CASE Restore(p)
  BY <1>2, ConflictSteady, FailsSteady, DiskHeld DEF Restore
<1>3. CASE MoveBackupBack(p)
  <2>1. journal[p] # None
    BY <1>3, WorkJournalled DEF MoveBackupBack, At
  <2>2. CASE Rename(p, "backup", "root") /\ UNCHANGED <<journal, decision, told>>
    BY <1>1, <2>1, <2>2, RenameOthers, JournalHeld
  <2> QED
    BY <1>3, <2>2, FailsSteady DEF MoveBackupBack
<1>4. CASE RestoreStaging(p)
  BY <1>4, ConflictSteady, DiskHeld DEF RestoreStaging
<1> QED
  BY <1>2, <1>3, <1>4

LEMMA FinalizeSteady ==
    ASSUME IInv, NEW p \in Project, Finalize(p) \/ Finalized(p) \/ MarkCommitted(p)
    PROVE  Steady
<1>1. TypeOK /\ OnDisk(p) /\ Ends(p) /\ Cohorts
  BY Parts
<1>2. None \in Phases \cup {None} /\ "cleanup-verified" \in Phases \cup {None}
      /\ "renderer-committed" \in Phases \cup {None} /\ None \notin Committed
      /\ "cleanup-verified" \in Committed /\ "renderer-committed" \in Committed
  BY Constants DEF Phases, Committed
<1>3. CASE Finalize(p)
  <2>1. Decided(p)
    BY <1>1, <1>3 DEF Finalize, At, Ends, Ending
  <2>2. CASE WriteJournal(p, "cleanup-verified") /\ UNCHANGED <<tree, decision, told>>
    BY <1>1, <1>2, <2>1, <2>2, TreeHeld DEF Decided
  <2> QED
    BY <1>3, <2>2, ConflictSteady, DiskHeld DEF Finalize
<1>4. CASE Finalized(p)
  <2>1. Decided(p) /\ tree[p]["root"] \in {"new", "new+"} /\ job[p] \in {"commit", "recover"}
    BY <1>1, <1>4 DEF Finalized, At, Ends, Ending, OnDisk
  <2>2. WriteJournal(p, None) /\ UNCHANGED <<tree, decision, told>>
    BY <1>4, <2>1 DEF Finalized, Finishes
  <2> QED
    BY <1>1, <1>2, <2>1, <2>2, TreeHeld DEF Decided
<1>5. CASE MarkCommitted(p)
  <2>1. p \in decision
    BY <1>1, <1>5 DEF MarkCommitted, Cohorts
  <2>2. WriteJournal(p, "renderer-committed") /\ UNCHANGED <<tree, decision, told>>
    BY <1>5 DEF MarkCommitted
  <2> QED
    BY <1>1, <1>2, <2>1, <2>2, TreeHeld
<1> QED
  BY <1>3, <1>4, <1>5

LEMMA WorkSteady ==
    ASSUME IInv, NEW p \in Project, Work(p), ~Restored(p)
    PROVE  Steady
<1>1. CASE RecoverMember(p) \/ RecoverJournal(p)
  BY <1>1, DiskHeld DEF RecoverMember, RecoverJournal
<1> QED
  BY <1>1, BeginSteady, DisposalSteady, RestoreSteady, FinalizeSteady DEF Work

LEMMA OthersSteady ==
    ASSUME IInv, NEW p \in Project,
           \/ Rollback(p) \/ Fault(p) \/ SaveRoot(p)
           \/ \E place \in {"root", "backup"} : Edit(p, place)
    PROVE  Steady
<1>1. TypeOK /\ OnDisk(p)
  BY Parts
<1>2. CASE Rollback(p)
  BY <1>2, DiskHeld DEF Rollback
<1>3. CASE Fault(p)
  <2> DEFINE kind == FaultKind(p)
  <2>1. UNCHANGED disk
    BY <1>3 DEF Fault
  <2>2. Fails(p, kind) \/ told' = told
    BY <1>3 DEF Fault
  <2> HIDE DEF kind
  <2> QED
    BY <2>1, <2>2, FailsSteady, DiskHeld
<1>4. CASE SaveRoot(p)
  <2>1. journal[p] # None /\ UNCHANGED <<journal, decision, told>> /\ Put(p, "root", "new+")
    BY <1>4 DEF SaveRoot
  <2> QED
    BY <1>1, <2>1, StepsOf, PutOthers, JournalHeld
<1>5. ASSUME NEW place \in {"root", "backup"}, Edit(p, place)
      PROVE  Steady
  <2> DEFINE t == Changed(tree[p][place])
  <2>1. UNCHANGED <<journal, decision, told>> /\ Put(p, place, t)
    BY <1>5 DEF Edit
  <2>2. tree[p][place] \in Trees \cup {None} /\ place \in Places
    BY <1>1 DEF TypeOK, Places, Roots
  <2>3. (t \in {"new", "new+"} <=> tree[p][place] \in {"new", "new+"})
        /\ t \in Trees \cup {None}
    BY <2>2, Changes DEF Trees
  <2> HIDE DEF t
  <2>4. Placed(p, IF place = "root" THEN t ELSE tree[p]["root"],
                  IF place = "backup" THEN t ELSE tree[p]["backup"],
                  IF place = "staging" THEN t ELSE tree[p]["staging"],
                  IF place = "q-root" THEN t ELSE tree[p]["q-root"],
                  IF place = "q-backup" THEN t ELSE tree[p]["q-backup"],
                  IF place = "q-staging" THEN t ELSE tree[p]["q-staging"])
    BY <1>1, <2>1, <2>2, <2>3, TreeSet DEF TypeOK
  <2>5. tree'[p]["root"] \in {"new", "new+"} <=> tree[p]["root"] \in {"new", "new+"}
    BY <2>3, <2>4 DEF Placed
  <2>6. \A q \in Project \ {p} : tree'[q] = tree[q]
    BY <2>4 DEF Placed
  <2> QED
    BY <2>1, <2>5, <2>6 DEF Steady, Kept
<1> QED
  BY <1>2, <1>3, <1>4, <1>5

LEMMA DecideReplaces ==
    ASSUME IInv, NEW cohort \in SUBSET Project, Decide(cohort)
    PROVE  /\ told' = told
           /\ \A q \in cohort : Kept(q) = "old" /\ Kept(q)' = "new"
           /\ \A q \in Project \ cohort : Kept(q)' = Kept(q)
<1>1. /\ decision = {} /\ decision' = cohort /\ UNCHANGED <<tree, journal, told>>
      /\ \A q \in cohort : journal[q] = "installed"
  BY DEF Decide, Committable
<1> QED
  BY <1>1, Constants DEF Kept, Committed

LEMMA EndCommitTells ==
    ASSUME IInv, EndCommit
    PROVE  /\ \A q \in Project : Kept(q)' = Kept(q)
           /\ \/ told' = told
              \/ /\ commit.members \subseteq Project
                 /\ \A q \in commit.members : Kept(q) = "new"
                 /\ told' = [q \in Project |->
                               IF q \in commit.members THEN "committed" ELSE told[q]]
<1>1. /\ TypeOK /\ Cohorts /\ \A q \in Project : OnDisk(q) /\ Roles(q)
  BY DEF IInv, ProjectInv
<1>2. /\ UNCHANGED <<tree, journal>> /\ commit.todo = {} /\ commit.members = decision
      /\ decision' = IF commit.conflict \/ commit.pending THEN decision ELSE {}
  BY <1>1 DEF EndCommit, Idle, Cohorts
<1>3. ~commit.conflict /\ ~commit.pending => \A q \in decision : journal[q] = None
  BY <1>1, <1>2 DEF Roles, TypeOK
<1>4. \A q \in decision : tree[q]["root"] \in {"new", "new+"}
  BY <1>1 DEF OnDisk, Decided, TypeOK
<1>5. \A q \in Project : Kept(q)' = Kept(q)
  BY <1>2, <1>3, <1>4 DEF Kept
<1>6. commit.members \subseteq Project /\ \A q \in commit.members : Kept(q) = "new"
  BY <1>1, <1>2 DEF Kept, TypeOK
<1> QED
  BY <1>5, <1>6 DEF EndCommit

LEMMA ProcessSteady ==
    ASSUME IInv, DecisionRecovered \/ Recovered \/ StartRecovery \/ Crash
    PROVE  Steady
<1>1. CASE DecisionRecovered
  <2>1. \A q \in Project : OnDisk(q)
    BY DEF IInv, ProjectInv
  <2>2. /\ UNCHANGED <<tree, journal, told>> /\ decision' \subseteq decision
        /\ decision' = decision \/ \A q \in decision : journal[q] = None
    BY <1>1 DEF DecisionRecovered
  <2> QED
    BY <2>1, <2>2 DEF Steady, Kept, OnDisk, Decided
<1>2. CASE Recovered \/ StartRecovery \/ Crash
  BY <1>2, DiskHeld DEF Recovered, StartRecovery, Crash
<1> QED
  BY <1>1, <1>2
-----------------------------------------------------------------------------
(***************************************************************************)
(* A cohort is replaced in one step that nothing takes back.               *)
(***************************************************************************)
LEMMA SteadyStutters ==
    ASSUME Steady
    PROVE  UNCHANGED Cohort!vars
BY DEF Steady, Cohort!vars

LEMMA StepReplaces ==
    ASSUME IInv, [Next]_vars
    PROVE  Cohort!Next \/ UNCHANGED Cohort!vars
<1>1. CASE UNCHANGED vars
  BY <1>1, DiskHeld, SteadyStutters DEF vars
<1>2. ASSUME NEW p \in Project, Restored(p)
      PROVE  Cohort!Next \/ UNCHANGED Cohort!vars
  <2>1. CASE told' = told
    BY <1>2, <2>1, RestoredGivesBack, SteadyStutters DEF Steady
  <2>2. CASE told' = [told EXCEPT ![p] = "restored"]
    <3>1. Cohort!TellRestored(p)
      BY <1>2, <2>2, RestoredGivesBack DEF Cohort!TellRestored
    <3> QED
      BY <3>1 DEF Cohort!Next
  <2> QED
    BY <1>2, <2>1, <2>2, RestoredGivesBack
<1>3. ASSUME NEW p \in Project, ~Restored(p), \/ Begin(p) \/ Work(p)
                                              \/ Rollback(p) \/ Fault(p) \/ SaveRoot(p)
                                              \/ \E place \in {"root", "backup"} : Edit(p, place)
      PROVE  UNCHANGED Cohort!vars
  BY <1>3, BeginSteady, WorkSteady, OthersSteady, SteadyStutters
<1>4. ASSUME NEW cohort \in SUBSET Project, Decide(cohort)
      PROVE  Cohort!Next
  <2>1. Cohort!Replace(cohort)
    BY <1>4, DecideReplaces DEF Cohort!Replace
  <2> QED
    BY <2>1 DEF Cohort!Next
<1>5. CASE EndCommit
  <2>1. CASE told' = told
    BY <1>5, <2>1, EndCommitTells, SteadyStutters DEF Steady
  <2>2. CASE told' # told
    <3>1. Cohort!TellCommitted(commit.members) /\ commit.members \in SUBSET Project
      BY <1>5, <2>2, EndCommitTells DEF Cohort!TellCommitted
    <3> QED
      BY <3>1 DEF Cohort!Next
  <2> QED
    BY <2>1, <2>2
<1>6. CASE DecisionRecovered \/ Recovered \/ StartRecovery \/ Crash
  BY <1>6, ProcessSteady, SteadyStutters
<1> QED
  BY <1>1, <1>2, <1>3, <1>4, <1>5, <1>6 DEF Next, Proceed

LEMMA InitKept ==
    ASSUME Init
    PROVE  Cohort!Init
<1>1. \A p \in Project : Kept(p) = "old"
  <2>1. \A p \in Project : /\ tree[p]["root"] = "old" /\ journal[p] = None
                           /\ p \notin decision
    BY DEF Init, Places, Roots
  <2> QED
    BY <2>1, Constants DEF Kept, Committed
<1> QED
  BY <1>1 DEF Init, Cohort!Init
-----------------------------------------------------------------------------
(***************************************************************************)
(* The theorems.                                                           *)
(***************************************************************************)
THEOREM Invariance ==
    ASSUME ~RollsBackDecided
    PROVE  Spec => []IInv
<1>1. Init => IInv
  BY Initial
<1>2. IInv /\ [Next]_vars => IInv'
  BY Step
<1> QED
  BY <1>1, <1>2, PTL DEF Spec

\* Every variable of the replacement has its type.
THEOREM TypeCorrect ==
    ASSUME ~RollsBackDecided
    PROVE  Spec => []TypeOK
<1>1. IInv => TypeOK
  BY DEF IInv
<1> QED
  BY <1>1, Invariance, PTL

\* No revision of a project is lost: the one that is kept is there, and so is what
\* another program or a save of the app changed.
THEOREM NoRevisionLost ==
    ASSUME ~RollsBackDecided
    PROVE  Spec => []RevisionsSafe
<1>1. ASSUME IInv
      PROVE  RevisionsSafe
  <2>1. TypeOK /\ ChangesKept /\ \A p \in Project : OnDisk(p)
    BY <1>1 DEF IInv, ProjectInv
  <2>2. KeptRevisionExists
    <3> SUFFICES ASSUME NEW p \in Project
                 PROVE  IF Kept(p) = "old"
                        THEN \E place \in {"root", "backup"} : tree[p][place] \in {"old", "old+"}
                        ELSE tree[p]["root"] \in {"new", "new+"}
      BY DEF KeptRevisionExists
    <3> QED
      BY <2>1, Constants DEF OnDisk, Kept, Undoable, Decided
  <2> QED
    BY <2>1, <2>2 DEF RevisionsSafe
<1> QED
  BY <1>1, Invariance, PTL

\* A replacement that ended leaves nothing beside the folder, and one that may still
\* be undone keeps its project locked.
THEOREM SettledOrLockedAlways ==
    ASSUME ~RollsBackDecided
    PROVE  Spec => []SettledOrLocked
<1>1. ASSUME IInv
      PROVE  SettledOrLocked
  <2>1. \A p \in Project : OnDisk(p) /\ Roles(p)
    BY <1>1 DEF IInv, ProjectInv
  <2>2. NothingLeftBehind
    BY <2>1 DEF OnDisk, NothingLeftBehind
  <2>3. UnsettledLocked
    BY <2>1 DEF Roles, UnsettledLocked, Kept, Undoable, Decided
  <2> QED
    BY <2>2, <2>3 DEF SettledOrLocked
<1> QED
  BY <1>1, Invariance, PTL

\* The folders of a cohort are replaced in one step that no crash, failure, recovery or
\* other program splits or takes back, and who is told of it is told the truth.
THEOREM ReplacementIsCohortChange ==
    ASSUME ~RollsBackDecided
    PROVE  Spec => ImplementsCohortChange
<1>1. Init => Cohort!Init
  BY InitKept
<1>2. IInv /\ [Next]_vars => [Cohort!Next]_(Cohort!vars)
  BY StepReplaces
<1> QED
  BY <1>1, <1>2, Invariance, PTL DEF Spec, ImplementsCohortChange, Cohort!Spec

\* Only rollbackProjectReplacement undoes a member of a decision: where it looks at the
\* decision, neither an import that fails nor a recovery does.
THEOREM OnlyRollbackUndoesDecided ==
    ASSUME ~RollsBackDecided
    PROVE  Spec => DecidedNotRolledBack
<1>1. IInv /\ [Next]_vars => [\A p \in decision : ~Restored(p)]_vars
  <2>1. ASSUME IInv, NEW p \in decision
        PROVE  ~Restored(p)
    <3>1. p \in Project /\ Undoes(p)
      BY <2>1, Parts DEF IInv, TypeOK
    <3> QED
      BY <2>1, <3>1 DEF Restored, At, Undoes, Undoing, Undoable, Decided
  <2> QED
    BY <2>1
<1> QED
  BY <1>1, Invariance, PTL DEF Spec, DecidedNotRolledBack
=============================================================================
