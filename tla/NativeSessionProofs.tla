-------------------------- MODULE NativeSessionProofs --------------------------
(***************************************************************************)
(* Theorems of NativeSession: its type, the generation of every lease,     *)
(* and, while no asset effect runs and no review is put off, that a lease  *)
(* ends by its own resolution only and that the app's own writes are never *)
(* delivered to it.                                                        *)
(***************************************************************************)
EXTENDS NativeSession, FiniteSetTheorems, TLAPS

Saving == {a \in Savers : job[a] # None}

\* Each kind of job is run by the actors that the code runs it in.
JobsOwned ==
    \A a \in Actor : job[a] # None =>
        /\ a \in Savers => job[a].kind \in {"incremental", "full"}
        /\ a \in AssetEffects => job[a].kind = "asset"
        /\ a = Resolver => /\ job[a].kind \in {"keepApp", "acceptDisk"}
                           /\ job[a].candidate \in Candidate

\* localMutationDepth counts the saves in flight.
DepthCounts == session.depth = Cardinality(Saving)

TypeInv == TypeOK /\ JobsOwned /\ DepthCounts

-----------------------------------------------------------------------------
(***************************************************************************)
(* What the functions without an await do to a session.                    *)
(***************************************************************************)
SameLease(s, t) ==
    /\ t.pending = s.pending
    /\ t.generation = s.generation
    /\ t.depth = s.depth
    /\ t.resolved = s.resolved
    /\ t.refreshEpoch = s.refreshEpoch

LEMMA RequestRescanKeeps ==
    ASSUME NEW s \in Session, NEW r \in BOOLEAN
    PROVE  /\ RequestRescan(s, r) \in Session
           /\ SameLease(s, RequestRescan(s, r))
           /\ RequestRescan(s, r).scan = s.scan
BY DEF RequestRescan, Session, SameLease

LEMMA SessionUpdates ==
    ASSUME NEW s \in Session
    PROVE  /\ \A n \in Nat : [s EXCEPT !.refreshEpoch = n] \in Session
           /\ \A n, m \in Nat : [s EXCEPT !.depth = n, !.mutationEpoch = m] \in Session
           /\ \A files \in Files : [s EXCEPT !.baseline = files] \in Session
           /\ \A c \in Candidate \cup {None} : [s EXCEPT !.pending = c] \in Session
           /\ \A n \in Nat : [s EXCEPT !.generation = n, !.pending = None] \in Session
           /\ \A files \in Files, n \in Nat :
                 [s EXCEPT !.baseline = files, !.generation = n, !.pending = None] \in Session
BY DEF Session

LEMMA BeginRefreshKeeps ==
    ASSUME NEW s \in Session
    PROVE  /\ BeginRefresh(s) \in Session
           /\ BeginRefresh(s).refreshEpoch = s.refreshEpoch + 1
           /\ BeginRefresh(s).pending = s.pending
           /\ BeginRefresh(s).generation = s.generation
           /\ BeginRefresh(s).depth = s.depth
           /\ BeginRefresh(s).resolved = s.resolved
           /\ BeginRefresh(s).scan = s.scan
<1> DEFINE n == s.refreshEpoch + 1
<1>1. n \in Nat
  BY DEF Session
<1>2. BeginRefresh(s) = [s EXCEPT !.refreshEpoch = n]
  BY DEF BeginRefresh
<1>3. n = s.refreshEpoch + 1
  OBVIOUS
<1> HIDE DEF n
<1>4. [s EXCEPT !.refreshEpoch = n] \in Session
  BY <1>1, SessionUpdates
<1> QED BY <1>2, <1>3, <1>4 DEF Session

LEMMA StartScanKeeps ==
    ASSUME NEW s \in Session, NEW r \in BOOLEAN
    PROVE  /\ StartScan(s, r) \in Session
           /\ SameLease(s, StartScan(s, r))
<1> DEFINE scan == [mutationEpoch |-> s.mutationEpoch,
                    hints |-> IF r \/ s.hints = {} THEN File ELSE s.hints,
                    baseline |-> s.baseline, files |-> None]
<1>1. s.hints \in SUBSET File /\ s.baseline \in Files /\ s.mutationEpoch \in Nat
  BY DEF Session
<1>2. scan \in Scan
  BY <1>1 DEF Scan
<1> HIDE DEF scan
<1>3. StartScan(s, r) = [s EXCEPT !.scan = scan, !.hints = {}]
  BY DEF StartScan, scan
<1>4. [s EXCEPT !.scan = scan, !.hints = {}] \in Session
  BY <1>2 DEF Session
<1>5. SameLease(s, [s EXCEPT !.scan = scan, !.hints = {}])
  BY DEF Session, SameLease
<1> QED BY <1>3, <1>4, <1>5

LEMMA PollKeeps ==
    ASSUME NEW s \in Session, NEW r \in BOOLEAN
    PROVE  /\ Poll(s, r) \in Session
           /\ SameLease(s, Poll(s, r))
           /\ Awaiting(s) => Poll(s, r).scan = s.scan
<1>1. CASE s.depth > 0
  BY <1>1, RequestRescanKeeps DEF Poll
<1>2. CASE ~(s.depth > 0) /\ Awaiting(s)
  BY <1>2 DEF Poll, Session, SameLease
<1>3. CASE ~(s.depth > 0) /\ ~Awaiting(s) /\ s.scan # None
  BY <1>3, RequestRescanKeeps DEF Poll
<1>4. CASE ~(s.depth > 0) /\ ~Awaiting(s) /\ s.scan = None
  BY <1>4, StartScanKeeps DEF Poll
<1> QED BY <1>1, <1>2, <1>3, <1>4

LEMMA ResumeKeeps ==
    ASSUME NEW s \in Session
    PROVE  /\ Resume(s) \in Session
           /\ SameLease(s, Resume(s))
           /\ Awaiting(s) => Resume(s).scan = s.scan
<1> DEFINE t == [s EXCEPT !.rescan = FALSE, !.rescanReconcile = FALSE, !.debounce = FALSE]
<1>1. t \in Session /\ SameLease(s, t) /\ t.scan = s.scan /\ s.rescanReconcile \in BOOLEAN
  BY DEF Session, SameLease
<1>2. Resume(s) = Poll(t, s.rescanReconcile) \/ Resume(s) = s
  BY DEF Resume
<1> HIDE DEF t
<1>3. Awaiting(t) <=> Awaiting(s)
  BY <1>1 DEF Awaiting, SameLease
<1>4. Poll(t, s.rescanReconcile) \in Session /\ SameLease(t, Poll(t, s.rescanReconcile))
      /\ (Awaiting(t) => Poll(t, s.rescanReconcile).scan = t.scan)
  BY <1>1, PollKeeps
<1> QED BY <1>1, <1>2, <1>3, <1>4 DEF SameLease

LEMMA EndMutationKeeps ==
    ASSUME NEW s \in Session, s.depth > 0
    PROVE  /\ EndMutation(s) \in Session
           /\ SameLease([s EXCEPT !.depth = @ - 1], EndMutation(s))
           /\ EndMutation(s).depth = s.depth - 1
           /\ EndMutation(s).pending = s.pending
           /\ EndMutation(s).generation = s.generation
           /\ EndMutation(s).resolved = s.resolved
           /\ EndMutation(s).refreshEpoch = s.refreshEpoch
           /\ Awaiting(s) => EndMutation(s).scan = s.scan
<1> DEFINE t == [s EXCEPT !.depth = @ - 1]
<1>1. t \in Session /\ t.depth = s.depth - 1 /\ t.pending = s.pending
      /\ t.generation = s.generation /\ t.resolved = s.resolved
      /\ t.refreshEpoch = s.refreshEpoch /\ t.scan = s.scan
  BY DEF Session
<1>2. EndMutation(s) = Resume(t)
  BY DEF EndMutation
<1> HIDE DEF t
<1>3. Awaiting(t) <=> Awaiting(s)
  BY <1>1 DEF Awaiting
<1>4. t = [s EXCEPT !.depth = @ - 1]
  BY DEF t
<1> QED BY <1>1, <1>2, <1>3, <1>4, ResumeKeeps DEF SameLease

LEMMA ResolvedKeeps ==
    ASSUME NEW s \in Session, NEW id \in Nat
    PROVE  /\ Resolved(s, id) \in Session
           /\ Resolved(s, id).pending = s.pending
           /\ Resolved(s, id).generation = s.generation
           /\ Resolved(s, id).depth = s.depth
           /\ Resolved(s, id).resolved = s.resolved \cup {id}
           /\ Resolved(s, id).refreshEpoch = s.refreshEpoch
           /\ Resolved(s, id).scan = s.scan
<1> DEFINE t == [s EXCEPT !.resolved = @ \cup {id}]
<1>1. t \in Session /\ t.pending = s.pending /\ t.generation = s.generation
      /\ t.depth = s.depth /\ t.resolved = s.resolved \cup {id}
      /\ t.refreshEpoch = s.refreshEpoch /\ t.scan = s.scan
  BY DEF Session
<1>2. Resolved(s, id) = IF t.pollAfter \/ t.reconcileAfter \/ t.hints # {}
                        THEN [t EXCEPT !.pollAfter = FALSE, !.reconcileAfter = FALSE,
                                       !.debounce = FALSE, !.polls = @ \cup {t.reconcileAfter}]
                        ELSE t
  BY DEF Resolved
<1> DEFINE polls == t.polls \cup {t.reconcileAfter}
           u == [t EXCEPT !.pollAfter = FALSE, !.reconcileAfter = FALSE,
                          !.debounce = FALSE, !.polls = polls]
<1> HIDE DEF t
<1>3. t.polls \in SUBSET BOOLEAN /\ t.reconcileAfter \in BOOLEAN
  BY <1>1 DEF Session
<1>4. polls \in SUBSET BOOLEAN
  BY <1>3
<1>5. Resolved(s, id) = IF t.pollAfter \/ t.reconcileAfter \/ t.hints # {} THEN u ELSE t
  BY <1>1, <1>2 DEF Session
<1> HIDE DEF polls
<1>6. /\ u \in Session /\ u.pending = t.pending /\ u.generation = t.generation
      /\ u.depth = t.depth /\ u.resolved = t.resolved
      /\ u.refreshEpoch = t.refreshEpoch /\ u.scan = t.scan
  BY <1>1, <1>4 DEF Session
<1> HIDE DEF u
<1> QED BY <1>1, <1>5, <1>6
-----------------------------------------------------------------------------
(***************************************************************************)
(* Type correctness.                                                       *)
(***************************************************************************)
LEMMA SavingFinite == IsFiniteSet(Saving) /\ Cardinality(Saving) \in Nat
BY ConstantsAssumption, FS_Subset, FS_CardinalityType DEF Saving

LEMMA SavingAdds ==
    ASSUME NEW a \in Savers, job[a] = None, NEW j, j # None, job \in [Actor -> Job \cup {None}],
           job' = [job EXCEPT ![a] = j]
    PROVE  Cardinality(Saving)' = Cardinality(Saving) + 1
<1>1. a \notin Saving /\ Saving' = Saving \cup {a}
  BY DEF Saving, Actor
<1> QED BY <1>1, SavingFinite, FS_AddElement

LEMMA SavingRemoves ==
    ASSUME NEW a \in Savers, job[a] # None, job \in [Actor -> Job \cup {None}],
           job' = [job EXCEPT ![a] = None]
    PROVE  /\ Cardinality(Saving)' = Cardinality(Saving) - 1
           /\ Cardinality(Saving) > 0
<1>1. a \in Saving /\ Saving' = Saving \ {a}
  BY DEF Saving, Actor
<1> QED BY <1>1, SavingFinite, FS_RemoveElement, FS_EmptySet

LEMMA SavingSame ==
    ASSUME NEW a \in Actor, NEW j, job \in [Actor -> Job \cup {None}],
           a \in Savers => (job[a] = None <=> j = None),
           job' = [job EXCEPT ![a] = j]
    PROVE  Saving' = Saving
BY DEF Saving, Actor

LEMMA FoundType ==
    ASSUME TypeOK, NEW id \in Nat, session.scan # None, session.scan.files # None
    PROVE  /\ Found(id) \in Candidate \cup {None}
           /\ Found(id) # None => /\ Found(id).id = id
                                  /\ Found(id).generation = session.generation + 1
                                  /\ Found(id).deliveryState = "awaitingResolution"
                                  /\ ~Found(id).reissued
                                  /\ Range(Found(id).changes) \subseteq Version
<1> DEFINE scan == session.scan
           changed == {f \in File : scan.files[f] # scan.baseline[f]}
           changes == [f \in changed |-> disk[f]]
           found == [id |-> id, generation |-> session.generation + 1, files |-> scan.files,
                     changes |-> changes,
                     deliveryState |-> "awaitingResolution", reissued |-> FALSE]
<1>1. scan \in Scan /\ session.generation \in Nat
  BY DEF TypeOK, Session
<1>2. scan.files \in Files
  BY <1>1 DEF Scan
<1>3. disk \in [File -> Version]
  BY DEF TypeOK, Files
<1>4. changes \in [changed -> Version] /\ changed \in SUBSET File
  BY <1>3
<1>5. changes \in UNION {[C -> Version] : C \in SUBSET File}
  BY <1>4
<1>6. Range(changes) \subseteq Version
  BY <1>4 DEF Range
<1>7. Found(id) = IF changed = {} THEN None ELSE found
  BY DEF Found
<1> HIDE DEF changes, changed, scan
<1>8. found \in Candidate
  BY <1>1, <1>2, <1>5 DEF Candidate
<1> QED BY <1>6, <1>7, <1>8

\* Steps that leave the jobs alone need only keep the rest of the type.
LEMMA JobsUntouched ==
    ASSUME TypeInv, UNCHANGED job, session'.depth = session.depth
    PROVE  JobsOwned' /\ DepthCounts'
BY DEF TypeInv, JobsOwned, DepthCounts, Saving

LEMMA InitType == Init => TypeInv
<1> SUFFICES ASSUME Init PROVE TypeInv
  OBVIOUS
<1>1. 0 \in Version
  BY ConstantsAssumption DEF Version
<1>2. disk \in Files
  BY <1>1 DEF Init, Files
<1>3. session \in Session
  BY <1>2 DEF Init, Session
<1>4. TypeOK
  BY <1>1, <1>2, <1>3, ConstantsAssumption DEF Init, TypeOK
<1>5. Saving = {}
  BY DEF Init, Saving, Actor
<1> QED BY <1>4, <1>5, FS_EmptySet DEF TypeInv, Init, JobsOwned, DepthCounts

-----------------------------------------------------------------------------
LEMMA EnvironmentType ==
    ASSUME TypeInv,
           \/ \E f \in File : ExternalWrite(f) \/ WatcherEvent(f)
           \/ \E p \in Path : AppEdit(p)
    PROVE  TypeInv'
<1>1. ASSUME NEW f \in File, ExternalWrite(f) PROVE TypeInv'
  <2>1. Fresh \in Version
    BY <1>1, ConstantsAssumption DEF ExternalWrite, Fresh, Version, TypeInv, TypeOK
  <2>2. TypeOK'
    BY <1>1, <2>1 DEF ExternalWrite, TypeInv, TypeOK, Files
  <2> QED BY <1>1, <2>2, JobsUntouched DEF ExternalWrite, TypeInv
<1>2. ASSUME NEW p \in Path, AppEdit(p) PROVE TypeInv'
  <2>1. Fresh \in Version
    BY <1>2, ConstantsAssumption DEF AppEdit, Fresh, Version, TypeInv, TypeOK
  <2>2. TypeOK'
    BY <1>2, <2>1 DEF AppEdit, TypeInv, TypeOK, Files, File, history
  <2> QED BY <1>2, <2>2, JobsUntouched DEF AppEdit, TypeInv
<1>3. ASSUME NEW f \in File, WatcherEvent(f) PROVE TypeInv'
  <2>1. session' \in Session /\ session'.depth = session.depth
    BY <1>3 DEF WatcherEvent, TypeInv, TypeOK, Session
  <2>2. TypeOK'
    BY <1>3, <2>1 DEF WatcherEvent, TypeInv, TypeOK, history
  <2> QED BY <1>3, <2>1, <2>2, JobsUntouched DEF WatcherEvent, TypeInv
<1> QED BY <1>1, <1>2, <1>3

Polls ==
    \/ DebouncedPoll \/ IntervalPoll
    \/ \E reconcile \in BOOLEAN : PollAfterResolution(reconcile)

\* A poll keeps the lease, and starts no scan over a candidate under review.
LEMMA PollStep ==
    ASSUME TypeInv, Polls
    PROVE  /\ session' \in Session
           /\ SameLease(session, session')
           /\ Awaiting(session) => session'.scan = session.scan
           /\ UNCHANGED <<disk, app, lastVersion, job, attempts, lastDelta, history>>
<1>1. session \in Session
  BY DEF TypeInv, TypeOK
<1>2. CASE DebouncedPoll
  <2> DEFINE s == [session EXCEPT !.debounce = FALSE]
  <2>1. s \in Session /\ SameLease(session, s) /\ s.scan = session.scan
    BY <1>1 DEF Session, SameLease
  <2>2. session' = Poll(s, FALSE)
    BY <1>2 DEF DebouncedPoll
  <2> HIDE DEF s
  <2>3. Awaiting(s) <=> Awaiting(session)
    BY <2>1 DEF Awaiting, SameLease
  <2>4. /\ Poll(s, FALSE) \in Session /\ SameLease(s, Poll(s, FALSE))
        /\ Awaiting(s) => Poll(s, FALSE).scan = s.scan
    BY <2>1, PollKeeps
  <2> QED BY <1>2, <2>1, <2>2, <2>3, <2>4 DEF SameLease, DebouncedPoll
<1>3. CASE IntervalPoll
  BY <1>1, <1>3, PollKeeps DEF IntervalPoll
<1>4. ASSUME NEW r \in BOOLEAN, PollAfterResolution(r)
      PROVE  /\ session' \in Session
             /\ SameLease(session, session')
             /\ Awaiting(session) => session'.scan = session.scan
             /\ UNCHANGED <<disk, app, lastVersion, job, attempts, lastDelta, history>>
  <2> DEFINE s == [session EXCEPT !.polls = @ \ {r}]
  <2>1. s \in Session /\ SameLease(session, s) /\ s.scan = session.scan
    BY <1>1 DEF Session, SameLease
  <2>2. session' = Poll(s, r)
    BY <1>4 DEF PollAfterResolution
  <2> HIDE DEF s
  <2>3. Awaiting(s) <=> Awaiting(session)
    BY <2>1 DEF Awaiting, SameLease
  <2>4. /\ Poll(s, r) \in Session /\ SameLease(s, Poll(s, r))
        /\ Awaiting(s) => Poll(s, r).scan = s.scan
    BY <2>1, PollKeeps
  <2> QED BY <1>4, <2>1, <2>2, <2>3, <2>4 DEF SameLease, PollAfterResolution
<1> QED BY <1>2, <1>3, <1>4 DEF Polls

LEMMA PollType == ASSUME TypeInv, Polls PROVE TypeInv'
<1>1. TypeOK'
  BY PollStep DEF TypeInv, TypeOK, history
<1> QED BY <1>1, PollStep, JobsUntouched DEF TypeInv, SameLease
-----------------------------------------------------------------------------
LEMMA ReadManifestStep ==
    ASSUME TypeInv, ReadManifest
    PROVE  /\ session' \in Session
           /\ SameLease(session, session')
           /\ session.scan # None
<1> DEFINE files == [f \in File |-> IF f \in session.scan.hints
                                   THEN disk[f] ELSE session.scan.baseline[f]]
<1>1. session \in Session /\ disk \in Files /\ session.scan \in Scan
  BY DEF ReadManifest, TypeInv, TypeOK, Session
<1>2. files \in Files
  BY <1>1 DEF Files, Scan
<1>3. session' = [session EXCEPT !.scan.files = files]
  BY DEF ReadManifest
<1> HIDE DEF files
<1>4. [session.scan EXCEPT !.files = files] \in Scan
  BY <1>1, <1>2 DEF Scan
<1> QED BY <1>1, <1>3, <1>4 DEF ReadManifest, Session, SameLease

LEMMA ReadManifestType == ASSUME TypeInv, ReadManifest PROVE TypeInv'
<1>1. TypeOK'
  BY ReadManifestStep DEF TypeInv, TypeOK, ReadManifest, history
<1> QED BY <1>1, ReadManifestStep, JobsUntouched DEF TypeInv, SameLease, ReadManifest

\* The end of a scan either leaves the lease alone or puts what it found in
\* its place, and then nothing had overtaken the scan.
LEMMA FinishScanStep ==
    ASSUME TypeInv, FinishScan
    PROVE  /\ session' \in Session
           /\ session'.depth = session.depth /\ session'.generation = session.generation
           /\ session'.resolved = session.resolved
           /\ session'.refreshEpoch = session.refreshEpoch
           /\ session.scan # None /\ session.scan.files # None
           /\ \/ /\ session'.pending = session.pending
                 /\ UNCHANGED <<lastDelta, shown>>
                 /\ Awaiting(session) => session'.scan = None
              \/ /\ ~Overtaken
                 /\ session'.pending = Found(lastDelta + 1)
                 /\ lastDelta' = IF Found(lastDelta + 1) = None
                                 THEN lastDelta ELSE lastDelta + 1
                 /\ shown' = IF Found(lastDelta + 1) = None THEN shown
                             ELSE shown \cup Range(Found(lastDelta + 1).changes)
                 /\ session'.pending # None => session'.scan = None
<1> DEFINE found == Found(lastDelta + 1)
           idle == [session EXCEPT !.scan = None]
<1>1. session \in Session /\ lastDelta \in Nat
  BY DEF TypeInv, TypeOK
<1>2. /\ idle \in Session /\ SameLease(session, idle) /\ idle.scan = None
  BY <1>1 DEF Session, SameLease
<1>3. session.scan # None /\ session.scan.files # None
  BY DEF FinishScan
<1>4. found \in Candidate \cup {None}
      /\ (found # None => found.deliveryState = "awaitingResolution")
  BY <1>1, <1>3, FoundType DEF TypeInv
<1>5. CASE Overtaken
  <2> DEFINE s == RequestRescan(idle, TRUE)
  <2>1. session' = Resume(s) /\ UNCHANGED <<lastDelta, shown>>
    BY <1>5 DEF FinishScan
  <2> HIDE DEF idle
  <2>2. s \in Session /\ SameLease(idle, s) /\ s.scan = None
    BY <1>2, RequestRescanKeeps
  <2> HIDE DEF s
  <2>3. Awaiting(s) <=> Awaiting(session)
    BY <1>2, <2>2 DEF Awaiting, SameLease
  <2> QED BY <1>2, <1>3, <2>1, <2>2, <2>3, ResumeKeeps DEF SameLease
<1>6. CASE ~Overtaken /\ SameSignature(found)
  <2>1. session' = Resume(idle) /\ UNCHANGED <<lastDelta, shown>>
    BY <1>6 DEF FinishScan
  <2> HIDE DEF idle
  <2>2. Awaiting(idle) <=> Awaiting(session)
    BY <1>2 DEF Awaiting, SameLease
  <2> QED BY <1>2, <1>3, <2>1, <2>2, ResumeKeeps DEF SameLease
<1>7. CASE ~Overtaken /\ ~SameSignature(found)
  <2> DEFINE s == [idle EXCEPT !.pending = found]
  <2>1. /\ session' = Resume(s)
        /\ lastDelta' = IF found = None THEN lastDelta ELSE lastDelta + 1
        /\ shown' = IF found = None THEN shown ELSE shown \cup Range(found.changes)
    BY <1>7 DEF FinishScan
  <2> HIDE DEF found, idle
  <2>2. /\ s \in Session /\ s.pending = found /\ s.scan = None
        /\ s.generation = idle.generation /\ s.depth = idle.depth
        /\ s.resolved = idle.resolved /\ s.refreshEpoch = idle.refreshEpoch
    BY <1>2, <1>4 DEF Session
  <2> HIDE DEF s
  <2>3. s.pending # None => Awaiting(s)
    BY <1>4, <2>2 DEF Awaiting
  <2>4. /\ session' \in Session /\ SameLease(s, session')
        /\ Awaiting(s) => session'.scan = s.scan
    BY <2>1, <2>2, ResumeKeeps
  <2>5. /\ session'.depth = session.depth /\ session'.generation = session.generation
        /\ session'.resolved = session.resolved
        /\ session'.refreshEpoch = session.refreshEpoch
        /\ session'.pending = found
        /\ session'.pending # None => session'.scan = None
    BY <1>2, <2>2, <2>3, <2>4 DEF SameLease
  <2> QED BY <1>3, <1>7, <2>1, <2>4, <2>5 DEF found
<1> QED BY <1>5, <1>6, <1>7

LEMMA FinishScanType == ASSUME TypeInv, FinishScan PROVE TypeInv'
<1>1. session \in Session /\ lastDelta \in Nat /\ shown \subseteq Version
  BY DEF TypeInv, TypeOK
<1>2. lastDelta' \in Nat /\ shown' \subseteq Version
  BY <1>1, FinishScanStep, FoundType DEF TypeInv
<1>3. TypeOK'
  BY <1>2, FinishScanStep DEF TypeInv, TypeOK, FinishScan
<1> QED BY <1>3, FinishScanStep, JobsUntouched DEF TypeInv, FinishScan

-----------------------------------------------------------------------------
LEMMA NewJobType ==
    ASSUME TypeInv, NEW kind \in Kinds, NEW step \in {"write", "read", "install"},
           NEW target \in SUBSET File
    PROVE  /\ NewJob(kind, step, target) \in Job
           /\ NewJob(kind, step, target) # None
           /\ NewJob(kind, step, target).kind = kind
BY NoneAssumption DEF NewJob, Job, TypeInv, TypeOK

LEMMA JobUpdates ==
    ASSUME NEW j \in Job, NEW step \in {"write", "read", "install"}, NEW files \in Files,
           NEW n \in Nat
    PROVE  /\ [j EXCEPT !.step = step] \in Job
           /\ [j EXCEPT !.step = step, !.epoch = n] \in Job
           /\ [j EXCEPT !.step = step, !.files = files, !.epoch = n] \in Job
BY DEF Job

\* What becomes of the jobs when one actor takes its next step or ends.
LEMMA JobAdvances ==
    ASSUME TypeInv, NEW a \in Actor, NEW j \in Job, job[a] # None,
           j.kind = job[a].kind, j.candidate = job[a].candidate,
           job' = [job EXCEPT ![a] = j], session'.depth = session.depth
    PROVE  job' \in [Actor -> Job \cup {None}] /\ JobsOwned' /\ DepthCounts'
<1>1. j # None
  BY NoneAssumption
<1>2. Saving' = Saving
  BY <1>1, SavingSame DEF TypeInv, TypeOK
<1>3. JobsOwned'
  BY DEF JobsOwned, TypeInv, TypeOK
<1> QED BY <1>2, <1>3 DEF TypeInv, TypeOK, DepthCounts

LEMMA JobEnds ==
    ASSUME TypeInv, NEW a \in Actor, a \notin Savers, job' = [job EXCEPT ![a] = None],
           session'.depth = session.depth
    PROVE  job' \in [Actor -> Job \cup {None}] /\ JobsOwned' /\ DepthCounts'
<1>2. Saving' = Saving
  BY SavingSame DEF TypeInv, TypeOK
<1>3. JobsOwned'
  BY DEF JobsOwned, TypeInv, TypeOK
<1> QED BY <1>2, <1>3 DEF TypeInv, TypeOK, DepthCounts

LEMMA SaveEnds ==
    ASSUME TypeInv, NEW a \in Savers, job[a] # None, job' = [job EXCEPT ![a] = None]
    PROVE  /\ session.depth > 0
           /\ job' \in [Actor -> Job \cup {None}] /\ JobsOwned'
           /\ session'.depth = session.depth - 1 => DepthCounts'
<1>1. JobsOwned'
  BY DEF JobsOwned, TypeInv, TypeOK
<1>2. /\ Cardinality(Saving)' = Cardinality(Saving) - 1
      /\ Cardinality(Saving) > 0
  BY SavingRemoves DEF TypeInv, TypeOK
<1> QED BY <1>1, <1>2 DEF TypeInv, TypeOK, DepthCounts, Actor

\* Only a save runs in a saver, and only the two kinds of save run there.
LEMMA SaversSave ==
    ASSUME TypeInv, NEW a \in Actor, job[a] # None
    PROVE  /\ job[a] \in Job
           /\ job[a].kind \in {"incremental", "full"} => a \in Savers
           /\ job[a].kind \in {"asset", "keepApp", "acceptDisk"} => a \notin Savers
           /\ job[a].kind = "asset" => a \in AssetEffects
           /\ job[a].kind \in {"keepApp", "acceptDisk"} => /\ a = Resolver
                                                          /\ job[a].candidate \in Candidate
BY ConstantsAssumption DEF TypeInv, TypeOK, JobsOwned, Actor
-----------------------------------------------------------------------------
LEMMA BeginSaveType ==
    ASSUME TypeInv, NEW a \in Savers, NEW kind \in {"incremental", "full"},
           NEW target \in SUBSET File, BeginSave(a, kind, target)
    PROVE  TypeInv'
<1> DEFINE j == NewJob(kind, "write", target)
<1>1. j \in Job /\ j # None /\ j.kind = kind
  BY NewJobType DEF Kinds
<1>2. job' = [job EXCEPT ![a] = j] /\ job[a] = None /\ a \in Actor
  BY DEF BeginSave, Idle, Actor
<1> HIDE DEF j
<1>3. session' \in Session /\ session'.depth = session.depth + 1
  <2> DEFINE n == session.depth + 1
             m == session.mutationEpoch + 1
  <2>1. session \in Session /\ n \in Nat /\ m \in Nat
    BY DEF TypeInv, TypeOK, Session
  <2>2. session' = [session EXCEPT !.depth = n, !.mutationEpoch = m] /\ n = session.depth + 1
    BY DEF BeginSave
  <2> HIDE DEF n, m
  <2> QED BY <2>1, <2>2, SessionUpdates DEF Session
<1>4. attempts' \in 0 .. MaxSaves
  BY ConstantsAssumption DEF BeginSave, TypeInv, TypeOK
<1>5. job' \in [Actor -> Job \cup {None}]
  BY <1>1, <1>2 DEF TypeInv, TypeOK
<1>6. JobsOwned'
  BY <1>1, <1>2, ConstantsAssumption DEF TypeInv, TypeOK, JobsOwned
<1>7. DepthCounts'
  BY <1>1, <1>2, <1>3, SavingAdds DEF TypeInv, TypeOK, DepthCounts
<1> QED BY <1>3, <1>4, <1>5, <1>6, <1>7 DEF BeginSave, TypeInv, TypeOK, history

LEMMA RefuseSaveType ==
    ASSUME TypeInv, NEW a \in Savers, RefuseSave(a)
    PROVE  TypeInv'
<1> DEFINE candidate == [session.pending EXCEPT !.id = lastDelta + 1, !.reissued = TRUE,
                                                !.deliveryState = "awaitingResolution"]
<1>1. session \in Session /\ session.pending \in Candidate /\ lastDelta \in Nat
  BY DEF RefuseSave, Deferred, TypeInv, TypeOK, Session
<1>2. candidate \in Candidate
  <2> DEFINE c == session.pending
             n == lastDelta + 1
             Changes == UNION {[C -> Version] : C \in SUBSET File}
  <2>1. n \in Nat
    BY <1>1
  <2>2. Candidate = [id : Nat, generation : Nat, files : Files, changes : Changes,
                     deliveryState : {"awaitingResolution", "deferred"}, reissued : BOOLEAN]
    BY DEF Candidate
  <2>3. c \in Candidate
    BY <1>1
  <2> HIDE DEF Changes, n, c
  <2>4. [c EXCEPT !.id = n, !.reissued = TRUE, !.deliveryState = "awaitingResolution"] \in Candidate
    BY <2>1, <2>2, <2>3
  <2> QED BY <2>4 DEF n, c
<1>3. session' = [session EXCEPT !.pending = candidate]
  BY <1>1 DEF RefuseSave, Session
<1> HIDE DEF candidate
<1>4. session' \in Session /\ session'.depth = session.depth
  BY <1>1, <1>2, <1>3 DEF Session
<1>5. attempts' \in 0 .. MaxSaves /\ lastDelta' \in Nat
  BY ConstantsAssumption DEF RefuseSave, TypeInv, TypeOK
<1>6. TypeOK'
  BY <1>4, <1>5 DEF RefuseSave, TypeInv, TypeOK, history
<1> QED BY <1>4, <1>6, JobsUntouched DEF RefuseSave, TypeInv

\* The writes touch neither the session nor who is at work.
LEMMA WriteType ==
    ASSUME TypeInv, NEW a \in Actor, WriteIncremental(a) \/ WriteFull(a)
    PROVE  TypeInv'
<1> DEFINE j == [job[a] EXCEPT !.step = "read"]
<1>1. job[a] # None /\ job[a] \in Job /\ disk \in Files
  BY SaversSave DEF WriteIncremental, WriteFull, At, TypeInv, TypeOK
<1>2. j \in Job /\ j.kind = job[a].kind /\ j.candidate = job[a].candidate
  BY <1>1 DEF Job
<1>3. job' = [job EXCEPT ![a] = j]
  BY DEF WriteIncremental, WriteFull, TypeInv, TypeOK
<1>4. disk' \in Files
  BY <1>1 DEF WriteIncremental, WriteFull, Job, Files
<1> HIDE DEF j
<1>5. session' = session
  BY DEF WriteIncremental, WriteFull
<1>6. job' \in [Actor -> Job \cup {None}] /\ JobsOwned' /\ DepthCounts'
  BY <1>1, <1>2, <1>3, <1>5, JobAdvances
<1> QED BY <1>4, <1>5, <1>6 DEF WriteIncremental, WriteFull, TypeInv, TypeOK, history

LEMMA FailIncrementalStep ==
    ASSUME TypeInv, NEW a \in Actor, FailIncremental(a)
    PROVE  /\ TypeInv'
           /\ session.depth > 0
           /\ session'.pending = session.pending /\ session'.generation = session.generation
           /\ session'.resolved = session.resolved
<1>1. a \in Savers /\ job[a] # None /\ job' = [job EXCEPT ![a] = None]
  BY SaversSave DEF FailIncremental, At
<1>2. session.depth > 0 /\ job' \in [Actor -> Job \cup {None}] /\ JobsOwned'
      /\ (session'.depth = session.depth - 1 => DepthCounts')
  BY <1>1, SaveEnds
<1>3. session' \in Session /\ session'.depth = session.depth - 1
      /\ session'.pending = session.pending /\ session'.generation = session.generation
      /\ session'.resolved = session.resolved
  BY <1>2, EndMutationKeeps DEF FailIncremental, TypeInv, TypeOK
<1> QED BY <1>2, <1>3 DEF FailIncremental, TypeInv, TypeOK, history

LEMMA PatchBaselineStep ==
    ASSUME TypeInv, NEW a \in Actor, PatchBaseline(a)
    PROVE  /\ TypeInv'
           /\ session.depth > 0
           /\ session'.pending = session.pending /\ session'.generation = session.generation
           /\ session'.resolved = session.resolved
<1> DEFINE j == [job[a] EXCEPT !.step = "install"]
           files == [f \in File |-> IF f \in job[a].target THEN disk[f] ELSE session.baseline[f]]
<1>1. a \in Savers /\ job[a] # None /\ job[a] \in Job
  BY SaversSave DEF PatchBaseline, At
<1>2. j \in Job /\ j.kind = job[a].kind /\ j.candidate = job[a].candidate
  BY <1>1 DEF Job
<1>3. job' = [job EXCEPT ![a] = j]
  BY DEF PatchBaseline, TypeInv, TypeOK
<1>4. session \in Session /\ session.baseline \in Files /\ disk \in Files
  BY DEF TypeInv, TypeOK, Session
<1>5. files \in Files
  BY <1>4 DEF Files
<1>6. session' = BeginRefresh([session EXCEPT !.baseline = files])
  BY <1>4 DEF PatchBaseline, Session
<1> HIDE DEF files, j
<1>7. session' \in Session /\ session'.depth = session.depth
      /\ session'.pending = session.pending /\ session'.generation = session.generation
      /\ session'.resolved = session.resolved
  <2> DEFINE s == [session EXCEPT !.baseline = files]
  <2>1. s \in Session /\ s.depth = session.depth
        /\ s.pending = session.pending /\ s.generation = session.generation
        /\ s.resolved = session.resolved
    BY <1>4, <1>5, SessionUpdates DEF Session
  <2> HIDE DEF s
  <2> QED BY <1>6, <2>1, BeginRefreshKeeps DEF s
<1>8. job' \in [Actor -> Job \cup {None}] /\ JobsOwned' /\ DepthCounts'
  BY <1>1, <1>2, <1>3, <1>7, JobAdvances
<1>9. session.depth > 0
  <2>1. a \in Saving
    BY <1>1 DEF Saving
  <2> QED BY <2>1, SavingFinite, FS_EmptySet DEF TypeInv, DepthCounts
<1> QED BY <1>7, <1>8, <1>9 DEF PatchBaseline, TypeInv, TypeOK, history

LEMMA FinishIncrementalStep ==
    ASSUME TypeInv, NEW a \in Actor, FinishIncremental(a)
    PROVE  /\ TypeInv'
           /\ session.depth > 0
           /\ session'.pending = None /\ session'.generation = session.generation + 1
           /\ session'.resolved = session.resolved
<1> DEFINE s == [session EXCEPT !.generation = @ + 1, !.pending = None]
<1>1. a \in Savers /\ job[a] # None /\ job' = [job EXCEPT ![a] = None]
  BY SaversSave DEF FinishIncremental, At
<1>2. session.depth > 0 /\ job' \in [Actor -> Job \cup {None}] /\ JobsOwned'
      /\ (session'.depth = session.depth - 1 => DepthCounts')
  BY <1>1, SaveEnds
<1>3. s \in Session /\ s.depth = session.depth /\ s.pending = None
      /\ s.generation = session.generation + 1 /\ s.resolved = session.resolved
  <2> DEFINE n == session.generation + 1
  <2>1. session \in Session /\ n \in Nat
    BY DEF TypeInv, TypeOK, Session
  <2>2. s = [session EXCEPT !.generation = n, !.pending = None] /\ n = session.generation + 1
    BY <2>1 DEF Session
  <2> HIDE DEF n, s
  <2>3. s \in Session
    BY <2>1, <2>2, SessionUpdates
  <2> QED BY <2>1, <2>2, <2>3 DEF Session
<1>4. session' = EndMutation(s)
  BY DEF FinishIncremental
<1> HIDE DEF s
<1>5. session' \in Session /\ session'.depth = session.depth - 1
      /\ session'.pending = None /\ session'.generation = session.generation + 1
      /\ session'.resolved = session.resolved
  BY <1>2, <1>3, <1>4, EndMutationKeeps
<1> QED BY <1>2, <1>5 DEF FinishIncremental, TypeInv, TypeOK, history

LEMMA BeginAssetEffectType ==
    ASSUME TypeInv, NEW a \in AssetEffects, NEW f \in AssetPath, BeginAssetEffect(a, f)
    PROVE  TypeInv'
<1> DEFINE j == NewJob("asset", "read", {f})
<1>1. j \in Job /\ j # None /\ j.kind = "asset"
  BY NewJobType DEF Kinds, File
<1>2. job' = [job EXCEPT ![a] = j] /\ a \in Actor /\ a \notin Savers /\ a # Resolver
  BY ConstantsAssumption DEF BeginAssetEffect, Actor
<1> HIDE DEF j
<1>3. Fresh \in Version
  BY ConstantsAssumption DEF BeginAssetEffect, Fresh, Version, TypeInv, TypeOK
<1>4. disk' \in Files /\ app' \in Files /\ lastVersion' \in Version
  BY <1>3 DEF BeginAssetEffect, TypeInv, TypeOK, Files
<1>5. job' \in [Actor -> Job \cup {None}] /\ JobsOwned'
  BY <1>1, <1>2 DEF TypeInv, TypeOK, JobsOwned
<1>6. Saving' = Saving
  BY <1>2, SavingSame DEF TypeInv, TypeOK
<1> QED BY <1>4, <1>5, <1>6 DEF BeginAssetEffect, TypeInv, TypeOK, DepthCounts, history

LEMMA ReadSnapshotStep ==
    ASSUME TypeInv, NEW a \in Actor, ReadSnapshot(a)
    PROVE  /\ TypeInv'
           /\ session' = BeginRefresh(session)
<1> DEFINE n == session.refreshEpoch + 1
           j == [job[a] EXCEPT !.step = "install", !.files = disk, !.epoch = n]
<1>1. job[a] # None /\ job[a] \in Job /\ disk \in Files /\ session \in Session /\ n \in Nat
  BY SaversSave DEF ReadSnapshot, At, TypeInv, TypeOK, Session
<1>2. job' = [job EXCEPT ![a] = j]
  BY <1>1 DEF ReadSnapshot, TypeInv, TypeOK
<1> HIDE DEF n
<1>3. j \in Job /\ j.kind = job[a].kind /\ j.candidate = job[a].candidate
  BY <1>1, JobUpdates DEF Job
<1> HIDE DEF j
<1>4. session' = BeginRefresh(session) /\ session' \in Session /\ session'.depth = session.depth
  BY <1>1, BeginRefreshKeeps DEF ReadSnapshot
<1>5. job' \in [Actor -> Job \cup {None}] /\ JobsOwned' /\ DepthCounts'
  BY <1>1, <1>2, <1>3, <1>4, JobAdvances
<1> QED BY <1>4, <1>5 DEF ReadSnapshot, TypeInv, TypeOK, history

LEMMA InstalledKeeps ==
    ASSUME NEW s \in Session, NEW files \in Files, NEW n \in Nat
    PROVE  /\ Installed(s, files, n) \in Session
           /\ Installed(s, files, n).depth = s.depth
           /\ Installed(s, files, n).resolved = s.resolved
           /\ Installed(s, files, n).refreshEpoch = s.refreshEpoch
           /\ Installed(s, files, n).scan = s.scan
           /\ IF s.refreshEpoch = n
              THEN /\ Installed(s, files, n).pending = None
                   /\ Installed(s, files, n).generation = s.generation + 1
              ELSE Installed(s, files, n) = s
<1> DEFINE g == s.generation + 1
           t == [s EXCEPT !.baseline = files, !.generation = g, !.pending = None]
<1>1. g \in Nat /\ g = s.generation + 1
  BY DEF Session
<1>2. Installed(s, files, n) = IF s.refreshEpoch = n THEN t ELSE s
  BY DEF Installed
<1> HIDE DEF g
<1>3. t \in Session
  BY <1>1, SessionUpdates
<1>4. t.depth = s.depth /\ t.resolved = s.resolved /\ t.refreshEpoch = s.refreshEpoch
      /\ t.scan = s.scan /\ t.pending = None /\ t.generation = g
  BY DEF Session
<1> HIDE DEF t
<1> QED BY <1>1, <1>2, <1>3, <1>4

\* What the end of a refresh does with the lease: it drops the candidate and
\* moves the generation, or leaves both alone because a newer refresh began.
LEMMA InstallSnapshotStep ==
    ASSUME TypeInv, NEW a \in Actor, InstallSnapshot(a)
    PROVE  /\ TypeInv'
           /\ \/ /\ session'.pending = None
                 /\ session'.generation = session.generation + 1
              \/ /\ session'.pending = session.pending
                 /\ session'.generation = session.generation
                 /\ session.refreshEpoch # job[a].epoch
           /\ job[a].kind = "full" => session.depth > 0
           /\ IF job[a].kind = "keepApp"
              THEN session'.resolved = session.resolved \cup {job[a].candidate.id}
              ELSE session'.resolved = session.resolved
<1> DEFINE s == Installed(session, job[a].files, job[a].epoch)
<1>1. /\ job[a] # None /\ job[a] \in Job /\ job[a].kind \in {"full", "keepApp", "asset"}
      /\ job' = [job EXCEPT ![a] = None]
      /\ session \in Session /\ job[a].files \in Files /\ job[a].epoch \in Nat
  BY SaversSave DEF InstallSnapshot, At, TypeInv, TypeOK, Job
<1>2. /\ s \in Session /\ s.depth = session.depth /\ s.resolved = session.resolved
      /\ \/ s.pending = None /\ s.generation = session.generation + 1
         \/ /\ s.pending = session.pending /\ s.generation = session.generation
            /\ session.refreshEpoch # job[a].epoch
  BY <1>1, InstalledKeeps
<1>3. session' = CASE job[a].kind = "full"    -> EndMutation(s)
                   [] job[a].kind = "keepApp" -> Resolved(s, job[a].candidate.id)
                   [] job[a].kind = "asset"   -> s
  BY DEF InstallSnapshot
<1>4. UNCHANGED <<disk, app, lastVersion, attempts, lastDelta, history>>
  BY DEF InstallSnapshot
<1> HIDE DEF s
<1>5. CASE job[a].kind = "full"
  <2>1. a \in Savers
    BY <1>1, <1>5, SaversSave
  <2>2. session.depth > 0 /\ job' \in [Actor -> Job \cup {None}] /\ JobsOwned'
        /\ (session'.depth = session.depth - 1 => DepthCounts')
    BY <1>1, <2>1, SaveEnds
  <2>3. session' = EndMutation(s)
    BY <1>3, <1>5
  <2>4. session' \in Session /\ session'.depth = session.depth - 1
        /\ session'.pending = s.pending /\ session'.generation = s.generation
        /\ session'.resolved = s.resolved
    BY <1>2, <2>2, <2>3, EndMutationKeeps
  <2> QED BY <1>2, <1>4, <1>5, <2>2, <2>4 DEF TypeInv, TypeOK, history
<1>6. CASE job[a].kind = "keepApp"
  <2>1. a \notin Savers /\ job[a].candidate.id \in Nat
    BY <1>1, <1>6, SaversSave DEF Candidate
  <2>2. session' = Resolved(s, job[a].candidate.id)
    BY <1>3, <1>6
  <2>3. session' \in Session /\ session'.depth = session.depth
        /\ session'.pending = s.pending /\ session'.generation = s.generation
        /\ session'.resolved = s.resolved \cup {job[a].candidate.id}
    BY <1>2, <2>1, <2>2, ResolvedKeeps
  <2>4. job' \in [Actor -> Job \cup {None}] /\ JobsOwned' /\ DepthCounts'
    BY <1>1, <2>1, <2>3, JobEnds
  <2> QED BY <1>2, <1>4, <1>6, <2>3, <2>4 DEF TypeInv, TypeOK, history
<1>7. CASE job[a].kind = "asset"
  <2>1. a \notin Savers
    BY <1>1, <1>7, SaversSave
  <2>2. session' = s
    BY <1>3, <1>7
  <2>3. job' \in [Actor -> Job \cup {None}] /\ JobsOwned' /\ DepthCounts'
    BY <1>1, <1>2, <2>1, <2>2, JobEnds
  <2> QED BY <1>2, <1>4, <1>7, <2>2, <2>3 DEF TypeInv, TypeOK, history
<1> QED BY <1>1, <1>5, <1>6, <1>7

-----------------------------------------------------------------------------
\* A resolution starts with the candidate that is pending.
LEMMA ResolutionBegins ==
    ASSUME TypeInv, Idle(Resolver), Resolvable,
           NEW kind \in {"keepApp", "acceptDisk"}, NEW step \in {"write", "read"},
           NEW target \in SUBSET File,
           job' = [job EXCEPT ![Resolver] =
                     [NewJob(kind, step, target) EXCEPT !.candidate = session.pending]],
           session' = session
    PROVE  /\ session.pending \in Candidate
           /\ job' \in [Actor -> Job \cup {None}] /\ JobsOwned' /\ DepthCounts'
<1> DEFINE j == [NewJob(kind, step, target) EXCEPT !.candidate = session.pending]
<1>1. session.pending \in Candidate /\ app \in Files
  BY DEF Resolvable, TypeInv, TypeOK, Session
<1>2. NewJob(kind, step, target) \in Job
  BY NewJobType DEF Kinds
<1>3. j \in Job /\ j.kind = kind /\ j.candidate = session.pending
  BY <1>1, <1>2 DEF Job, NewJob
<1>4. job' = [job EXCEPT ![Resolver] = j] /\ Resolver \in Actor /\ Resolver \notin Savers
      /\ Resolver \notin AssetEffects
  BY ConstantsAssumption DEF Actor
<1> HIDE DEF j
<1>5. job' \in [Actor -> Job \cup {None}] /\ JobsOwned'
  BY <1>1, <1>3, <1>4 DEF TypeInv, TypeOK, JobsOwned
<1>6. Saving' = Saving
  BY <1>4, SavingSame DEF TypeInv, TypeOK
<1> QED BY <1>1, <1>5, <1>6 DEF TypeInv, DepthCounts

LEMMA BeginKeepAppType == ASSUME TypeInv, BeginKeepApp PROVE TypeInv'
<1>1. Path \in SUBSET File
  BY DEF File
<1>2. job' \in [Actor -> Job \cup {None}] /\ JobsOwned' /\ DepthCounts'
  BY <1>1, ResolutionBegins DEF BeginKeepApp
<1> QED BY <1>2 DEF BeginKeepApp, TypeInv, TypeOK, history

LEMMA BeginAcceptDiskType == ASSUME TypeInv, BeginAcceptDisk PROVE TypeInv'
<1>0. /\ Idle(Resolver) /\ Resolvable /\ session' = session /\ {} \in SUBSET File
      /\ job' = [job EXCEPT ![Resolver] =
                   [NewJob("acceptDisk", "read", {}) EXCEPT !.candidate = session.pending]]
  BY DEF BeginAcceptDisk
<1>1. session.pending \in Candidate
      /\ job' \in [Actor -> Job \cup {None}] /\ JobsOwned' /\ DepthCounts'
  BY <1>0, ResolutionBegins
<1>2. PICK C \in SUBSET File : session.pending.changes \in [C -> Version]
  BY <1>1 DEF Candidate
<1>3. app \in [File -> Version]
  BY DEF TypeInv, TypeOK, Files
<1>4. app' \in Files
  BY <1>2, <1>3 DEF BeginAcceptDisk, Files
<1> QED BY <1>1, <1>4 DEF BeginAcceptDisk, TypeInv, TypeOK, history

LEMMA BeginAcceptedInstallStep ==
    ASSUME TypeInv, BeginAcceptedInstall
    PROVE  TypeInv' /\ session' = BeginRefresh(session)
<1> DEFINE n == session.refreshEpoch + 1
           j == [job[Resolver] EXCEPT !.step = "install", !.epoch = n]
<1>1. /\ Resolver \in Actor /\ job[Resolver] # None /\ job[Resolver] \in Job
      /\ session \in Session /\ n \in Nat
  BY DEF BeginAcceptedInstall, At, Actor, TypeInv, TypeOK, Session
<1>2. job' = [job EXCEPT ![Resolver] = j]
  BY <1>1 DEF BeginAcceptedInstall, TypeInv, TypeOK
<1> HIDE DEF n
<1>3. j \in Job /\ j.kind = job[Resolver].kind /\ j.candidate = job[Resolver].candidate
  BY <1>1, JobUpdates DEF Job
<1> HIDE DEF j
<1>4. session' = BeginRefresh(session) /\ session' \in Session /\ session'.depth = session.depth
  BY <1>1, BeginRefreshKeeps DEF BeginAcceptedInstall
<1>5. job' \in [Actor -> Job \cup {None}] /\ JobsOwned' /\ DepthCounts'
  BY <1>1, <1>2, <1>3, <1>4, JobAdvances
<1> QED BY <1>4, <1>5 DEF BeginAcceptedInstall, TypeInv, TypeOK, history

LEMMA FinishAcceptDiskStep ==
    ASSUME TypeInv, FinishAcceptDisk
    PROVE  /\ TypeInv'
           /\ session'.pending = None
           /\ session'.generation = job[Resolver].candidate.generation
           /\ session'.depth = session.depth
           /\ session'.resolved = session.resolved \cup {job[Resolver].candidate.id}
           /\ session'.scan = session.scan
<1> DEFINE r == job[Resolver]
           files == IF session.refreshEpoch = r.epoch THEN r.candidate.files ELSE session.baseline
           n == r.candidate.generation
           s == [session EXCEPT !.baseline = files, !.generation = n, !.pending = None]
<1>1. Resolver \in Actor /\ r # None /\ r.kind = "acceptDisk" /\ session \in Session
      /\ job' = [job EXCEPT ![Resolver] = None]
  BY DEF FinishAcceptDisk, At, Actor, TypeInv, TypeOK
<1>2. Resolver \notin Savers /\ r.candidate \in Candidate
  BY <1>1, SaversSave
<1>3. files \in Files /\ n \in Nat /\ r.candidate.id \in Nat
  BY <1>1, <1>2 DEF Candidate, Session
<1>4. session' = Resolved(s, r.candidate.id)
  BY <1>1 DEF FinishAcceptDisk, Session
<1> HIDE DEF files, n
<1>5. s \in Session
  BY <1>1, <1>3, SessionUpdates
<1>6. s.pending = None /\ s.generation = n /\ s.depth = session.depth
      /\ s.resolved = session.resolved /\ s.scan = session.scan
  BY <1>1 DEF Session
<1> HIDE DEF s
<1>7. session' \in Session /\ session'.pending = None /\ session'.generation = n
      /\ session'.depth = session.depth /\ session'.scan = session.scan
      /\ session'.resolved = session.resolved \cup {r.candidate.id}
  BY <1>3, <1>4, <1>5, <1>6, ResolvedKeeps
<1>8. job' \in [Actor -> Job \cup {None}] /\ JobsOwned' /\ DepthCounts'
  BY <1>1, <1>2, <1>7, JobEnds
<1>9. TypeInv'
  BY <1>7, <1>8 DEF FinishAcceptDisk, TypeInv, TypeOK, history
<1> QED BY <1>7, <1>9 DEF n

LEMMA DismissStep ==
    ASSUME TypeInv, Dismiss
    PROVE  /\ TypeInv'
           /\ session'.pending # None
           /\ session'.pending.generation = session.pending.generation
           /\ session'.generation = session.generation
<1> DEFINE candidate == [session.pending EXCEPT !.deliveryState = "deferred"]
           s == [session EXCEPT !.pending = candidate]
<1>1. session \in Session /\ session.pending \in Candidate
  BY DEF Dismiss, Resolvable, TypeInv, TypeOK, Session
<1>2. candidate \in Candidate /\ candidate.generation = session.pending.generation
  <2> DEFINE Changes == UNION {[C -> Version] : C \in SUBSET File}
             c == session.pending
  <2>1. Candidate = [id : Nat, generation : Nat, files : Files, changes : Changes,
                     deliveryState : {"awaitingResolution", "deferred"}, reissued : BOOLEAN]
    BY DEF Candidate
  <2>2. c \in Candidate
    BY <1>1
  <2> HIDE DEF Changes, c
  <2>3. [c EXCEPT !.deliveryState = "deferred"] \in Candidate
        /\ [c EXCEPT !.deliveryState = "deferred"].generation = c.generation
    BY <2>1, <2>2
  <2> QED BY <2>3 DEF c
<1>3. session.pending.id \in Nat /\ session.pending.files \in Files
  BY <1>1 DEF Candidate
<1>4. session' = Resolved(s, session.pending.id)
  BY <1>1 DEF Dismiss, Session
<1>5. candidate # None
  BY <1>2, NoneAssumption
<1> HIDE DEF candidate
<1>6. s \in Session
  BY <1>1, <1>2, SessionUpdates
<1>7. s.pending = candidate /\ s.generation = session.generation /\ s.depth = session.depth
  BY <1>1 DEF Session
<1> HIDE DEF s
<1>8. session' \in Session /\ session'.pending = candidate
      /\ session'.generation = session.generation /\ session'.depth = session.depth
  BY <1>3, <1>4, <1>6, <1>7, ResolvedKeeps
<1>9. TypeOK' /\ UNCHANGED job
  BY <1>3, <1>8 DEF Dismiss, TypeInv, TypeOK, history
<1> QED BY <1>2, <1>5, <1>8, <1>9, JobsUntouched DEF TypeInv

-----------------------------------------------------------------------------
LEMMA StepsType == ASSUME TypeInv, NEW a \in Actor, Steps(a) PROVE TypeInv'
BY WriteType, FailIncrementalStep, PatchBaselineStep, FinishIncrementalStep,
   ReadSnapshotStep, InstallSnapshotStep DEF Steps

LEMMA SaveType ==
    ASSUME TypeInv, NEW a \in Savers,
           \/ \E p \in Path : BeginSave(a, "incremental", {p})
           \/ BeginSave(a, "full", Path)
           \/ RefuseSave(a)
    PROVE  TypeInv'
<1>1. Path \in SUBSET File /\ \A p \in Path : {p} \in SUBSET File
  BY DEF File
<1>2. ASSUME NEW p \in Path, BeginSave(a, "incremental", {p}) PROVE TypeInv'
  BY <1>1, <1>2, BeginSaveType
<1>3. ASSUME BeginSave(a, "full", Path) PROVE TypeInv'
  BY <1>1, <1>3, BeginSaveType
<1> QED BY <1>2, <1>3, RefuseSaveType

LEMMA NextType == TypeInv /\ [Next]_vars => TypeInv'
<1> SUFFICES ASSUME TypeInv, [Next]_vars PROVE TypeInv'
  OBVIOUS
<1>1. CASE UNCHANGED vars
  BY <1>1 DEF vars, history, TypeInv, TypeOK, JobsOwned, DepthCounts, Saving
<1>2. CASE \/ \E f \in File : ExternalWrite(f) \/ WatcherEvent(f)
           \/ \E p \in Path : AppEdit(p)
  BY <1>2, EnvironmentType
<1>3. CASE Polls
  BY <1>3, PollType
<1>4. CASE ReadManifest
  BY <1>4, ReadManifestType
<1>5. CASE FinishScan
  BY <1>5, FinishScanType
<1>6. CASE \E a \in Savers : \/ \E p \in Path : BeginSave(a, "incremental", {p})
                            \/ BeginSave(a, "full", Path)
                            \/ RefuseSave(a)
  BY <1>6, SaveType
<1>7. CASE \E a \in AssetEffects, f \in AssetPath : BeginAssetEffect(a, f)
  BY <1>7, BeginAssetEffectType
<1>8. CASE \E a \in Actor : Steps(a)
  BY <1>8, StepsType
<1>9. CASE Resolve \/ BeginAcceptedInstall \/ FinishAcceptDisk
  BY <1>9, BeginKeepAppType, BeginAcceptDiskType, DismissStep, BeginAcceptedInstallStep,
     FinishAcceptDiskStep DEF Resolve
<1> QED BY <1>1, <1>2, <1>3, <1>4, <1>5, <1>6, <1>7, <1>8, <1>9 DEF Next, Polls

LEMMA TypeInvariant == Spec => []TypeInv
<1>1. Init => TypeInv
  BY InitType
<1>2. TypeInv /\ [Next]_vars => TypeInv'
  BY NextType
<1> QED BY <1>1, <1>2, PTL DEF Spec

\* Every state of a session has the shape the code's types give it: scans,
\* candidates and jobs are never half built, whatever overtakes what.
THEOREM TypeCorrect == Spec => []TypeOK
<1>1. TypeInv => TypeOK
  BY DEF TypeInv
<1> QED BY <1>1, TypeInvariant, PTL

-----------------------------------------------------------------------------
(***************************************************************************)
(* The generation of a lease.                                              *)
(***************************************************************************)
LEMMA SavesKeepGeneration ==
    ASSUME TypeInv, LeaseOfNextGeneration, NEW a \in Savers,
           \/ \E p \in Path : BeginSave(a, "incremental", {p})
           \/ BeginSave(a, "full", Path)
           \/ RefuseSave(a)
    PROVE  LeaseOfNextGeneration'
<1>1. session \in Session
  BY DEF TypeInv, TypeOK
<1>2. ASSUME NEW kind, NEW target, BeginSave(a, kind, target) PROVE LeaseOfNextGeneration'
  BY <1>1, <1>2 DEF BeginSave, LeaseOfNextGeneration, Session
<1>3. ASSUME RefuseSave(a) PROVE LeaseOfNextGeneration'
  <2>1. session.pending \in Candidate /\ session.pending # None
    BY <1>1, <1>3 DEF RefuseSave, Deferred, Session
  <2>2. session'.pending.generation = session.pending.generation
        /\ session'.generation = session.generation
    BY <1>1, <1>3, <2>1 DEF RefuseSave, Session, Candidate
  <2> QED BY <2>1, <2>2 DEF LeaseOfNextGeneration
<1> QED BY <1>2, <1>3

LEMMA StepsKeepGeneration ==
    ASSUME TypeInv, LeaseOfNextGeneration, NEW a \in Actor, Steps(a)
    PROVE  LeaseOfNextGeneration'
<1>1. CASE WriteIncremental(a) \/ WriteFull(a)
  BY <1>1 DEF WriteIncremental, WriteFull, LeaseOfNextGeneration
<1>2. CASE FailIncremental(a)
  BY <1>2, FailIncrementalStep DEF LeaseOfNextGeneration
<1>3. CASE PatchBaseline(a)
  BY <1>3, PatchBaselineStep DEF LeaseOfNextGeneration
<1>4. CASE FinishIncremental(a)
  BY <1>4, FinishIncrementalStep DEF LeaseOfNextGeneration
<1>5. CASE ReadSnapshot(a)
  BY <1>5, ReadSnapshotStep, BeginRefreshKeeps DEF LeaseOfNextGeneration, TypeInv, TypeOK
<1>6. CASE InstallSnapshot(a)
  BY <1>6, InstallSnapshotStep DEF LeaseOfNextGeneration
<1> QED BY <1>1, <1>2, <1>3, <1>4, <1>5, <1>6 DEF Steps

LEMMA NextKeepsGeneration ==
    TypeInv /\ LeaseOfNextGeneration /\ [Next]_vars => LeaseOfNextGeneration'
<1> SUFFICES ASSUME TypeInv, LeaseOfNextGeneration, [Next]_vars PROVE LeaseOfNextGeneration'
  OBVIOUS
<1>0. session \in Session
  BY DEF TypeInv, TypeOK
<1>1. CASE UNCHANGED vars
  BY <1>1 DEF vars, LeaseOfNextGeneration
<1>2. CASE \E f \in File : ExternalWrite(f) \/ WatcherEvent(f)
  BY <1>0, <1>2 DEF ExternalWrite, WatcherEvent, LeaseOfNextGeneration, Session
<1>3. CASE \E p \in Path : AppEdit(p)
  BY <1>3 DEF AppEdit, LeaseOfNextGeneration
<1>4. CASE Polls
  BY <1>4, PollStep DEF LeaseOfNextGeneration, SameLease
<1>5. CASE ReadManifest
  BY <1>5, ReadManifestStep DEF LeaseOfNextGeneration, SameLease
<1>6. CASE FinishScan
  <2> DEFINE id == lastDelta + 1
  <2>1. id \in Nat
    BY DEF TypeInv, TypeOK
  <2>2. /\ session.scan # None /\ session.scan.files # None
        /\ session'.generation = session.generation
        /\ session'.pending = session.pending \/ session'.pending = Found(id)
    BY <1>6, FinishScanStep
  <2> HIDE DEF id
  <2>3. Found(id) # None => Found(id).generation = session.generation + 1
    BY <2>1, <2>2, FoundType DEF TypeInv
  <2> QED BY <2>2, <2>3 DEF LeaseOfNextGeneration
<1>7. CASE \E a \in Savers : \/ \E p \in Path : BeginSave(a, "incremental", {p})
                            \/ BeginSave(a, "full", Path)
                            \/ RefuseSave(a)
  BY <1>7, SavesKeepGeneration
<1>8. CASE \E a \in AssetEffects, f \in AssetPath : BeginAssetEffect(a, f)
  BY <1>8 DEF BeginAssetEffect, LeaseOfNextGeneration
<1>9. CASE \E a \in Actor : Steps(a)
  BY <1>9, StepsKeepGeneration
<1>10. CASE BeginKeepApp \/ BeginAcceptDisk
  BY <1>10 DEF BeginKeepApp, BeginAcceptDisk, LeaseOfNextGeneration
<1>11. CASE Dismiss
  BY <1>11, DismissStep DEF LeaseOfNextGeneration, Dismiss, Resolvable
<1>12. CASE BeginAcceptedInstall
  BY <1>0, <1>12, BeginAcceptedInstallStep, BeginRefreshKeeps DEF LeaseOfNextGeneration
<1>13. CASE FinishAcceptDisk
  BY <1>13, FinishAcceptDiskStep DEF LeaseOfNextGeneration
<1> QED BY <1>1, <1>2, <1>3, <1>4, <1>5, <1>6, <1>7, <1>8, <1>9, <1>10, <1>11, <1>12, <1>13
        DEF Next, Polls, Resolve

\* A candidate is a lease on the generation after the accepted one, for any
\* number of saves, asset effects and files and every kind of answer.
THEOREM LeaseGeneration == Spec => []LeaseOfNextGeneration
<1>1. Init => LeaseOfNextGeneration
  BY DEF Init, LeaseOfNextGeneration
<1>2. TypeInv /\ LeaseOfNextGeneration /\ [Next]_vars => LeaseOfNextGeneration'
  BY NextKeepsGeneration
<1> QED BY <1>1, <1>2, TypeInvariant, PTL DEF Spec

-----------------------------------------------------------------------------
(***************************************************************************)
(* A lease ends by its own resolution only, when no asset effect runs and  *)
(* no review is put off: the two ways in which the code breaks it.         *)
(***************************************************************************)
NoAssetEffect == \A a \in AssetEffects : job[a] = None

LEMMA AssetEffectsNeedAssets ==
    ASSUME AssetPath = {}
    PROVE  Spec => []NoAssetEffect
<1>1. Init => NoAssetEffect
  BY DEF Init, NoAssetEffect, Actor
<1>2. TypeInv /\ NoAssetEffect /\ [Next]_vars => NoAssetEffect'
  <2> SUFFICES ASSUME TypeInv, NoAssetEffect, [Next]_vars PROVE NoAssetEffect'
    OBVIOUS
  <2>1. ASSUME NEW a \in Actor, a \notin AssetEffects, NEW j, job' = [job EXCEPT ![a] = j]
        PROVE  NoAssetEffect'
    BY <2>1 DEF NoAssetEffect, TypeInv, TypeOK, Actor
  <2>2. ASSUME job' = job PROVE NoAssetEffect'
    BY <2>2 DEF NoAssetEffect
  <2>3. ASSUME NEW a \in Actor, job[a] # None PROVE a \notin AssetEffects
    BY <2>3 DEF NoAssetEffect
  <2>4. ASSUME NEW a \in Actor, Steps(a) PROVE NoAssetEffect'
    <3>1. a \notin AssetEffects
      BY <2>3, <2>4 DEF Steps, At, WriteIncremental, FailIncremental, PatchBaseline,
           FinishIncremental, WriteFull, ReadSnapshot, InstallSnapshot
    <3>2. \E j : job' = [job EXCEPT ![a] = j]
      BY <2>4 DEF Steps, WriteIncremental, FailIncremental, PatchBaseline,
           FinishIncremental, WriteFull, ReadSnapshot, InstallSnapshot
    <3> QED BY <2>1, <3>1, <3>2
  <2>5. ASSUME NEW a \in Savers,
               \/ \E p \in Path : BeginSave(a, "incremental", {p})
               \/ BeginSave(a, "full", Path)
               \/ RefuseSave(a)
        PROVE  NoAssetEffect'
    <3>1. a \in Actor /\ a \notin AssetEffects
      BY ConstantsAssumption DEF Actor
    <3>2. job' = job \/ \E j : job' = [job EXCEPT ![a] = j]
      BY <2>5 DEF BeginSave, RefuseSave
    <3> QED BY <2>1, <2>2, <3>1, <3>2
  <2>6. ASSUME BeginKeepApp \/ BeginAcceptDisk \/ BeginAcceptedInstall \/ FinishAcceptDisk
        PROVE  NoAssetEffect'
    <3>1. Resolver \in Actor /\ Resolver \notin AssetEffects
      BY ConstantsAssumption DEF Actor
    <3>2. \E j : job' = [job EXCEPT ![Resolver] = j]
      BY <2>6 DEF BeginKeepApp, BeginAcceptDisk, BeginAcceptedInstall, FinishAcceptDisk
    <3> QED BY <2>1, <3>1, <3>2
  <2>7. ASSUME \/ UNCHANGED vars
               \/ \E f \in File : ExternalWrite(f) \/ WatcherEvent(f)
               \/ \E p \in Path : AppEdit(p)
               \/ DebouncedPoll \/ IntervalPoll
               \/ \E reconcile \in BOOLEAN : PollAfterResolution(reconcile)
               \/ ReadManifest \/ FinishScan \/ Dismiss
        PROVE  job' = job
    BY <2>7 DEF vars, ExternalWrite, WatcherEvent, AppEdit, DebouncedPoll, IntervalPoll,
         PollAfterResolution, ReadManifest, FinishScan, Dismiss
  <2> QED BY <2>2, <2>4, <2>5, <2>6, <2>7 DEF Next, Resolve
<1> QED BY <1>1, <1>2, TypeInvariant, PTL DEF Spec

\* While a candidate is pending no scan and no save runs.
QuietUnderReview ==
    session.pending # None => /\ Awaiting(session) /\ ~session.pending.reissued
                              /\ session.scan = None
                              /\ session.depth = 0

\* The resolution in flight is that of the pending candidate, and no newer
\* refresh than its own has begun.
ResolvesPending ==
    job[Resolver] # None =>
        /\ session.pending # None
        /\ session.pending = job[Resolver].candidate
        /\ job[Resolver].step = "install" => job[Resolver].epoch = session.refreshEpoch

\* Ids are fresh: the pending one is not among those resolved.
FreshIds ==
    /\ session.resolved \subseteq 0 .. lastDelta
    /\ session.pending # None => /\ session.pending.id \in 0 .. lastDelta
                                 /\ session.pending.id \notin session.resolved

LeaseInv == QuietUnderReview /\ ResolvesPending /\ FreshIds

Leased == TypeInv /\ NoAssetEffect /\ LeaseOfNextGeneration /\ LeaseInv

\* Only the resolution is at work while a candidate is pending.
LEMMA OnlyResolverUnderReview ==
    ASSUME Leased, session.pending # None, NEW a \in Actor, job[a] # None
    PROVE  a = Resolver
<1>1. session.depth = 0
  BY DEF Leased, LeaseInv, QuietUnderReview
<1>2. Saving = {}
  BY <1>1, SavingFinite, FS_EmptySet DEF Leased, TypeInv, DepthCounts
<1> QED BY <1>2 DEF Saving, Leased, NoAssetEffect, Actor

\* Without a candidate there is nothing for the invariant to say but that the
\* ids resolved so far are old.
LEMMA NoCandidate ==
    ASSUME session'.pending = None, job'[Resolver] = None,
           session'.resolved \subseteq 0 .. lastDelta'
    PROVE  LeaseInv'
BY DEF LeaseInv, QuietUnderReview, ResolvesPending, FreshIds

\* A step that keeps the lease, the jobs and the ids keeps the invariant.
LEMMA SameLeaseKeeps ==
    ASSUME Leased, SameLease(session, session'), UNCHANGED <<job, lastDelta>>,
           Awaiting(session) => session'.scan = session.scan
    PROVE  LeaseInv'
BY DEF Leased, LeaseInv, QuietUnderReview, ResolvesPending, FreshIds, SameLease, Awaiting

LEMMA EnvironmentKeepsLease ==
    ASSUME Leased,
           \/ \E f \in File : ExternalWrite(f) \/ WatcherEvent(f)
           \/ \E p \in Path : AppEdit(p)
    PROVE  LeaseInv' /\ SameLease(session, session')
<1>1. session \in Session
  BY DEF Leased, TypeInv, TypeOK
<1>2. /\ SameLease(session, session') /\ session'.scan = session.scan
      /\ UNCHANGED <<job, lastDelta>>
  BY <1>1 DEF ExternalWrite, WatcherEvent, AppEdit, Session, SameLease
<1> QED BY <1>2, SameLeaseKeeps

LEMMA PollKeepsLease ==
    ASSUME Leased, Polls
    PROVE  LeaseInv' /\ SameLease(session, session')
BY PollStep, SameLeaseKeeps DEF Leased

\* A scan is in flight only without a candidate; what it finds becomes one.
LEMMA ScanKeepsLease ==
    ASSUME Leased, ReadManifest \/ FinishScan
    PROVE  LeaseInv' /\ session.pending = None /\ session'.generation = session.generation
<1> DEFINE id == lastDelta + 1
<1>1. session.scan # None
  BY ReadManifestStep, FinishScanStep DEF Leased
<1>2. session.pending = None
  BY <1>1 DEF Leased, LeaseInv, QuietUnderReview
<1>3. job[Resolver] = None
  BY <1>2 DEF Leased, LeaseInv, ResolvesPending
<1>4. lastDelta \in Nat /\ session.resolved \subseteq 0 .. lastDelta
  BY DEF Leased, TypeInv, TypeOK, LeaseInv, FreshIds
<1>5. CASE ReadManifest
  <2>1. SameLease(session, session') /\ UNCHANGED <<job, lastDelta>>
    BY <1>5, ReadManifestStep DEF Leased, ReadManifest
  <2> QED BY <1>2, <1>3, <1>4, <2>1, NoCandidate DEF SameLease
<1>6. CASE FinishScan
  <2>1. /\ session'.generation = session.generation /\ session'.resolved = session.resolved
        /\ session'.depth = session.depth /\ job' = job /\ session.scan.files # None
    BY <1>6, FinishScanStep DEF Leased, FinishScan
  <2>2. CASE session'.pending = session.pending /\ lastDelta' = lastDelta
    BY <1>2, <1>3, <1>4, <2>1, <2>2, NoCandidate
  <2>3. CASE /\ ~Overtaken
             /\ session'.pending = Found(id)
             /\ lastDelta' = IF Found(id) = None THEN lastDelta ELSE id
             /\ session'.pending # None => session'.scan = None
    <3>1. id \in Nat /\ id \notin session.resolved /\ 0 .. lastDelta \subseteq 0 .. id
          /\ id \in 0 .. id
      BY <1>4
    <3>2. session.depth = 0
      BY <2>3 DEF Overtaken, Leased, TypeInv, TypeOK, Session
    <3> HIDE DEF id
    <3>3. Found(id) # None => /\ Found(id).id = id
                              /\ Found(id).deliveryState = "awaitingResolution"
                              /\ ~Found(id).reissued
      BY <1>1, <2>1, <3>1, FoundType DEF Leased, TypeInv
    <3>4. CASE Found(id) = None
      BY <1>2, <1>3, <1>4, <2>1, <2>3, <3>4, NoCandidate
    <3>5. CASE Found(id) # None
      BY <1>2, <1>3, <1>4, <2>1, <2>3, <3>1, <3>2, <3>3, <3>5
         DEF LeaseInv, QuietUnderReview, ResolvesPending, FreshIds, Awaiting
    <3> QED BY <3>4, <3>5
  <2>4. \/ session'.pending = session.pending /\ lastDelta' = lastDelta
        \/ /\ ~Overtaken
           /\ session'.pending = Found(id)
           /\ lastDelta' = IF Found(id) = None THEN lastDelta ELSE id
           /\ session'.pending # None => session'.scan = None
    BY <1>6, FinishScanStep DEF Leased
  <2> QED BY <2>1, <2>2, <2>3, <2>4
<1>7. session'.generation = session.generation
  BY <1>5, <1>6, ReadManifestStep, FinishScanStep DEF Leased, SameLease
<1> QED BY <1>2, <1>5, <1>6, <1>7

\* A save begins only without a candidate.
LEMMA SaveBeginsUnleased ==
    ASSUME Leased, NEW a \in Savers,
           \/ \E p \in Path : BeginSave(a, "incremental", {p})
           \/ BeginSave(a, "full", Path)
           \/ RefuseSave(a)
    PROVE  LeaseInv' /\ session.pending = None /\ session'.generation = session.generation
<1>0. session \in Session
  BY DEF Leased, TypeInv, TypeOK
<1>1. ~RefuseSave(a)
  BY <1>0 DEF Leased, LeaseInv, QuietUnderReview, RefuseSave, Deferred, Awaiting
<1>2. ASSUME NEW kind, NEW target, BeginSave(a, kind, target)
      PROVE  LeaseInv' /\ session.pending = None /\ session'.generation = session.generation
  <2>1. session.pending = None
    BY <1>2 DEF BeginSave, Refuses, Leased, LeaseInv, QuietUnderReview
  <2>2. job[Resolver] = None
    BY <2>1 DEF Leased, LeaseInv, ResolvesPending
  <2>3. job'[Resolver] = None
    BY <1>2, <2>2, ConstantsAssumption DEF BeginSave, Leased, TypeInv, TypeOK, Actor
  <2>4. /\ session'.pending = session.pending /\ session'.generation = session.generation
        /\ session'.resolved = session.resolved /\ lastDelta' = lastDelta
    BY <1>0, <1>2 DEF BeginSave, Session
  <2> QED BY <2>1, <2>3, <2>4, NoCandidate DEF Leased, LeaseInv, FreshIds
<1> QED BY <1>1, <1>2

\* The steps of a save find no candidate and leave none.
LEMMA SaveStepsKeepLease ==
    ASSUME Leased, NEW a \in Savers, job[a] # None, Steps(a)
    PROVE  /\ LeaseInv' /\ session.pending = None
           /\ session'.generation >= session.generation
<1>1. a \in Actor /\ a # Resolver
  BY ConstantsAssumption DEF Actor
<1>2. session.pending = None
  BY <1>1, OnlyResolverUnderReview
<1>3. job[Resolver] = None /\ Resolver \in Actor
  BY <1>2 DEF Leased, LeaseInv, ResolvesPending, Actor
<1>4. job'[Resolver] = None
  BY <1>1, <1>3 DEF Steps, WriteIncremental, FailIncremental, PatchBaseline,
       FinishIncremental, WriteFull, ReadSnapshot, InstallSnapshot, Leased, TypeInv, TypeOK
<1>5. lastDelta' = lastDelta
  BY DEF Steps, WriteIncremental, FailIncremental, PatchBaseline,
       FinishIncremental, WriteFull, ReadSnapshot, InstallSnapshot
<1>6. session \in Session /\ session.generation \in Nat
  BY DEF Leased, TypeInv, TypeOK, Session
<1>7. /\ session'.pending = None /\ session'.resolved = session.resolved
      /\ \/ session'.generation = session.generation
         \/ session'.generation = session.generation + 1
  <2>1. CASE WriteIncremental(a) \/ WriteFull(a)
    BY <1>2, <2>1 DEF WriteIncremental, WriteFull
  <2>2. CASE FailIncremental(a)
    BY <1>1, <1>2, <2>2, FailIncrementalStep DEF Leased
  <2>3. CASE PatchBaseline(a)
    BY <1>1, <1>2, <2>3, PatchBaselineStep DEF Leased
  <2>4. CASE FinishIncremental(a)
    BY <1>1, <1>2, <2>4, FinishIncrementalStep DEF Leased
  <2>5. CASE ReadSnapshot(a)
    BY <1>1, <1>2, <1>6, <2>5, ReadSnapshotStep, BeginRefreshKeeps DEF Leased
  <2>6. CASE InstallSnapshot(a)
    <3>1. job[a].kind # "keepApp"
      BY <1>1, SaversSave DEF Leased
    <3> QED BY <1>1, <1>2, <2>6, <3>1, InstallSnapshotStep DEF Leased
  <2> QED BY <2>1, <2>2, <2>3, <2>4, <2>5, <2>6 DEF Steps
<1>8. session'.resolved \subseteq 0 .. lastDelta'
  BY <1>5, <1>7 DEF Leased, LeaseInv, FreshIds
<1> QED BY <1>2, <1>4, <1>6, <1>7, <1>8, NoCandidate

\* The steps of the resolution: the refresh it begins is the newest, and its
\* end resolves the candidate that is pending.
LEMMA ResolutionKeepsLease ==
    ASSUME Leased, Steps(Resolver) \/ BeginAcceptedInstall \/ FinishAcceptDisk
    PROVE  /\ LeaseInv'
           /\ session'.generation >= session.generation
           /\ \/ session'.pending = session.pending
              \/ session.pending.id \in session'.resolved
<1> DEFINE r == job[Resolver]
<1>1. /\ Resolver \in Actor /\ Resolver \notin Savers /\ r # None /\ r \in Job
      /\ r.kind \in {"keepApp", "acceptDisk"} /\ r.candidate \in Candidate
  BY ConstantsAssumption DEF Actor, Leased, TypeInv, TypeOK, JobsOwned, Steps, At,
     WriteIncremental, FailIncremental, PatchBaseline, FinishIncremental, WriteFull,
     ReadSnapshot, InstallSnapshot, BeginAcceptedInstall, FinishAcceptDisk
<1>2. /\ session.pending # None /\ session.pending = r.candidate
      /\ r.step = "install" => r.epoch = session.refreshEpoch
  BY <1>1 DEF Leased, LeaseInv, ResolvesPending
<1>3. session \in Session /\ session.generation \in Nat /\ job \in [Actor -> Job \cup {None}]
      /\ session.refreshEpoch \in Nat /\ lastDelta \in Nat
  BY DEF Leased, TypeInv, TypeOK, Session
<1>4. CASE WriteFull(Resolver)
  <2>1. /\ session' = session /\ lastDelta' = lastDelta
        /\ job'[Resolver] = [r EXCEPT !.step = "read"]
    BY <1>1, <1>3, <1>4 DEF WriteFull
  <2>2. job'[Resolver].candidate = r.candidate /\ job'[Resolver].step = "read"
    BY <1>1, <2>1 DEF Job
  <2>3. LeaseInv'
    BY <1>2, <2>1, <2>2
       DEF Leased, LeaseInv, QuietUnderReview, ResolvesPending, FreshIds, Awaiting
  <2> QED BY <1>3, <2>1, <2>3
<1>5. CASE ReadSnapshot(Resolver) \/ BeginAcceptedInstall
  <2> DEFINE n == session.refreshEpoch + 1
  <2>1. /\ session' = BeginRefresh(session) /\ lastDelta' = lastDelta
    BY <1>5 DEF ReadSnapshot, BeginAcceptedInstall
  <2>2. /\ session'.refreshEpoch = n /\ session'.pending = session.pending
        /\ session'.generation = session.generation /\ session'.depth = session.depth
        /\ session'.resolved = session.resolved /\ session'.scan = session.scan
    BY <1>3, <2>1, BeginRefreshKeeps
  <2>3. \/ job'[Resolver] = [r EXCEPT !.step = "install", !.files = disk, !.epoch = n]
        \/ job'[Resolver] = [r EXCEPT !.step = "install", !.epoch = n]
    BY <1>1, <1>3, <1>5 DEF ReadSnapshot, BeginAcceptedInstall
  <2> HIDE DEF n
  <2>4. job'[Resolver].candidate = r.candidate /\ job'[Resolver].epoch = n
    BY <1>1, <2>3 DEF Job
  <2>5. LeaseInv'
    BY <1>2, <2>1, <2>2, <2>4
       DEF Leased, LeaseInv, QuietUnderReview, ResolvesPending, FreshIds, Awaiting
  <2> QED BY <1>3, <2>2, <2>5
<1>6. CASE InstallSnapshot(Resolver)
  <2>1. r.kind = "keepApp" /\ r.epoch = session.refreshEpoch
    BY <1>1, <1>2, <1>6 DEF InstallSnapshot, At
  <2>2. /\ session'.pending = None /\ session'.generation = session.generation + 1
        /\ session'.resolved = session.resolved \cup {r.candidate.id}
    BY <1>1, <1>6, <2>1, InstallSnapshotStep DEF Leased
  <2>3. job'[Resolver] = None /\ lastDelta' = lastDelta
    BY <1>1, <1>3, <1>6 DEF InstallSnapshot
  <2>4. session'.resolved \subseteq 0 .. lastDelta'
    BY <1>2, <2>2, <2>3 DEF Leased, LeaseInv, FreshIds
  <2> QED BY <1>2, <1>3, <2>2, <2>3, <2>4, NoCandidate
<1>7. CASE FinishAcceptDisk
  <2>1. /\ session'.pending = None /\ session'.generation = session.pending.generation
        /\ session'.resolved = session.resolved \cup {r.candidate.id}
    BY <1>2, <1>7, FinishAcceptDiskStep DEF Leased
  <2>2. session'.generation = session.generation + 1
    BY <1>2, <2>1 DEF Leased, LeaseOfNextGeneration
  <2>3. job'[Resolver] = None /\ lastDelta' = lastDelta
    BY <1>1, <1>3, <1>7 DEF FinishAcceptDisk
  <2>4. session'.resolved \subseteq 0 .. lastDelta'
    BY <1>2, <2>1, <2>3 DEF Leased, LeaseInv, FreshIds
  <2> QED BY <1>2, <1>3, <2>1, <2>2, <2>3, <2>4, NoCandidate
<1>8. ~WriteIncremental(Resolver) /\ ~FailIncremental(Resolver) /\ ~PatchBaseline(Resolver)
      /\ ~FinishIncremental(Resolver)
  BY <1>1 DEF WriteIncremental, FailIncremental, PatchBaseline, FinishIncremental, At
<1> QED BY <1>4, <1>5, <1>6, <1>7, <1>8 DEF Steps

LEMMA ResolutionBeginsLease ==
    ASSUME Leased, BeginKeepApp \/ BeginAcceptDisk
    PROVE  LeaseInv' /\ session' = session
<1> DEFINE r == job'[Resolver]
<1>1. /\ session' = session /\ lastDelta' = lastDelta /\ session.pending # None
      /\ Resolver \in Actor
  BY DEF BeginKeepApp, BeginAcceptDisk, Resolvable, Actor
<1>2. r.candidate = session.pending /\ r.step # "install"
  BY <1>1 DEF BeginKeepApp, BeginAcceptDisk, NewJob, Leased, TypeInv, TypeOK
<1> QED BY <1>1, <1>2
        DEF Leased, LeaseInv, QuietUnderReview, ResolvesPending, FreshIds, Awaiting

\* What one step does to the lease.
LeaseStep ==
    /\ LeaseInv'
    /\ session'.generation >= session.generation
    /\ session.pending = None \/ session'.pending = session.pending
         \/ session.pending.id \in session'.resolved

LEMMA NextLease ==
    ASSUME AssetPath = {}, "dismiss" \notin Resolutions, Leased, [Next]_vars
    PROVE  LeaseStep
<1>0. session.generation \in Nat
  BY DEF Leased, TypeInv, TypeOK, Session
<1>1. CASE UNCHANGED vars
  BY <1>0, <1>1 DEF vars, LeaseStep, Leased, LeaseInv, QuietUnderReview, ResolvesPending,
     FreshIds, Awaiting
<1>2. CASE \/ \E f \in File : ExternalWrite(f) \/ WatcherEvent(f)
           \/ \E p \in Path : AppEdit(p)
  BY <1>0, <1>2, EnvironmentKeepsLease DEF LeaseStep, SameLease
<1>3. CASE Polls
  BY <1>0, <1>3, PollKeepsLease DEF LeaseStep, SameLease
<1>4. CASE ReadManifest \/ FinishScan
  BY <1>0, <1>4, ScanKeepsLease DEF LeaseStep
<1>5. CASE \E a \in Savers : \/ \E p \in Path : BeginSave(a, "incremental", {p})
                            \/ BeginSave(a, "full", Path)
                            \/ RefuseSave(a)
  <2> PICK a \in Savers : \/ \E p \in Path : BeginSave(a, "incremental", {p})
                         \/ BeginSave(a, "full", Path)
                         \/ RefuseSave(a)
    BY <1>5
  <2>1. LeaseInv' /\ session.pending = None /\ session'.generation = session.generation
    BY SaveBeginsUnleased
  <2> QED BY <1>0, <2>1 DEF LeaseStep
<1>6. ASSUME NEW a \in Actor, Steps(a) PROVE LeaseStep
  <2>1. job[a] # None
    BY <1>6 DEF Steps, At, WriteIncremental, FailIncremental, PatchBaseline,
       FinishIncremental, WriteFull, ReadSnapshot, InstallSnapshot
  <2>2. a \in Savers \/ a = Resolver
    BY <2>1 DEF Leased, NoAssetEffect, Actor
  <2> QED BY <1>6, <2>1, <2>2, SaveStepsKeepLease, ResolutionKeepsLease DEF LeaseStep
<1>7. CASE BeginAcceptedInstall \/ FinishAcceptDisk
  BY <1>7, ResolutionKeepsLease DEF LeaseStep
<1>8. CASE BeginKeepApp \/ BeginAcceptDisk
  BY <1>0, <1>8, ResolutionBeginsLease DEF LeaseStep
<1>9. ~Dismiss /\ ~\E a \in AssetEffects, f \in AssetPath : BeginAssetEffect(a, f)
  BY DEF Dismiss
<1> QED BY <1>1, <1>2, <1>3, <1>4, <1>5, <1>6, <1>7, <1>8, <1>9 DEF Next, Polls, Resolve

LEMMA LeasedInvariant ==
    ASSUME AssetPath = {}, "dismiss" \notin Resolutions
    PROVE  Spec => []Leased
<1>1. Init => LeaseInv
  BY DEF Init, LeaseInv, QuietUnderReview, ResolvesPending, FreshIds, Actor
<1>2. Leased /\ [Next]_vars => LeaseInv'
  BY NextLease DEF LeaseStep
<1>3. TypeInv /\ NoAssetEffect /\ LeaseOfNextGeneration /\ LeaseInv <=> Leased
  BY DEF Leased
<1>4. Spec => []NoAssetEffect
  BY AssetEffectsNeedAssets
<1> QED BY <1>1, <1>2, <1>3, <1>4, TypeInvariant, LeaseGeneration, PTL DEF Spec

\* Until the user puts a review off or an asset effect runs, nothing but its
\* own resolution ends a lease: every save, poll, scan and refresh that could
\* race with it is kept out, for any number of saves and files.
THEOREM LeaseHeldThroughReview ==
    ASSUME AssetPath = {}, "dismiss" \notin Resolutions
    PROVE  Spec => LeaseHeld
<1>1. Leased /\ [Next]_vars =>
        [Awaiting(session) /\ ~session.pending.reissued =>
           \/ session'.pending = session.pending
           \/ session.pending.id \in session'.resolved]_vars
  BY NextLease DEF LeaseStep, Awaiting
<1> QED BY <1>1, LeasedInvariant, PTL DEF Spec, LeaseHeld

\* Under the same assumptions a resolved candidate is gone, so that it cannot
\* refuse saves and polls for ever.
THEOREM ResolvedLeaseReleased ==
    ASSUME AssetPath = {}, "dismiss" \notin Resolutions
    PROVE  Spec => []ResolvedLeaseGone
<1>1. Leased => ResolvedLeaseGone
  BY DEF Leased, LeaseInv, FreshIds, ResolvedLeaseGone, Awaiting
<1> QED BY <1>1, LeasedInvariant, PTL

\* Under the same assumptions the accepted generation never goes back.
THEOREM GenerationsInOrder ==
    ASSUME AssetPath = {}, "dismiss" \notin Resolutions
    PROVE  Spec => GenerationAdvances
<1>1. Leased /\ [Next]_vars => [session'.generation >= session.generation]_vars
  BY NextLease DEF LeaseStep
<1> QED BY <1>1, LeasedInvariant, PTL DEF Spec, GenerationAdvances
-----------------------------------------------------------------------------
(***************************************************************************)
(* The app's own writes are not delivered to it, when besides one save is  *)
(* in flight at most, as the renderer's queue sees to: what a file holds   *)
(* is the version of another program, or a version the session knows of.   *)
(***************************************************************************)
OneSave == \A a, b \in Savers : a = b

Accounted(files) == \A f \in File : disk[f] \in external \/ disk[f] = files[f]

\* f was written by a job that has not brought the baseline up to date yet.
Unrecorded(f) ==
    \E a \in Actor : \/ At(a, {"incremental"}, "read") /\ f \in job[a].target
                     \/ At(a, {"full", "keepApp"}, "read")
                     \/ At(a, {"full", "keepApp"}, "install")

\* Apart from such files the disk differs from the baseline by what others wrote.
BaselineAccounts ==
    \A f \in File : \/ disk[f] \in external
                    \/ disk[f] = session.baseline[f]
                    \/ Unrecorded(f)

\* A refresh installs what it read, over which others only have written since.
SnapshotAccounts ==
    \A a \in Actor : At(a, {"full", "keepApp"}, "install") => Accounted(job[a].files)

\* No newer refresh overtakes that of a save.
SaveRefreshNewest ==
    \A a \in Savers : At(a, {"full"}, "install") => job[a].epoch = session.refreshEpoch

\* So does the candidate that may become the baseline.
CandidateAccounts ==
    session.pending # None /\ ~At(Resolver, {"keepApp"}, "read")
                           /\ ~At(Resolver, {"keepApp"}, "install")
        => Accounted(session.pending.files)

\* A scan that nothing overtook looks at the current baseline, and what it has found
\* changed is the work of another program, also when it was changed again meanwhile.
ScanAccounts(s) ==
    s.scan # None =>
        /\ s.scan.mutationEpoch <= s.mutationEpoch
        /\ s.scan.mutationEpoch = s.mutationEpoch =>
              /\ s.depth = 0
              /\ s.scan.baseline = s.baseline
              /\ s.scan.files # None =>
                    \A f \in File : s.scan.files[f] # s.scan.baseline[f] => disk[f] \in external

OwnInv ==
    /\ BaselineAccounts /\ SnapshotAccounts /\ SaveRefreshNewest /\ CandidateAccounts
    /\ ScanAccounts(session)
    /\ OwnWritesNotDelivered

-----------------------------------------------------------------------------
\* A scan that has just begun.
FreshScan(s) ==
    /\ s.scan # None /\ s.depth = 0
    /\ s.scan.baseline = s.baseline /\ s.scan.mutationEpoch = s.mutationEpoch
    /\ s.scan.files = None

\* t has the baseline of s, and its scan or one that has just begun.
ScanFrom(s, t) ==
    /\ t.baseline = s.baseline /\ t.mutationEpoch = s.mutationEpoch
    /\ t.scan = s.scan \/ FreshScan(t)

LEMMA PollScan ==
    ASSUME NEW s \in Session, NEW r \in BOOLEAN
    PROVE  ScanFrom(s, Poll(s, r))
<1>1. CASE s.depth > 0
  BY <1>1 DEF Poll, RequestRescan, Session, ScanFrom
<1>2. CASE ~(s.depth > 0) /\ Awaiting(s)
  BY <1>2 DEF Poll, Session, ScanFrom
<1>3. CASE ~(s.depth > 0) /\ ~Awaiting(s) /\ s.scan # None
  BY <1>3 DEF Poll, RequestRescan, Session, ScanFrom
<1>4. CASE ~(s.depth > 0) /\ ~Awaiting(s) /\ s.scan = None
  <2> DEFINE scan == [mutationEpoch |-> s.mutationEpoch,
                      hints |-> IF r \/ s.hints = {} THEN File ELSE s.hints,
                      baseline |-> s.baseline, files |-> None]
             t == [s EXCEPT !.scan = scan, !.hints = {}]
  <2>1. Poll(s, r) = t
    BY <1>4 DEF Poll, StartScan
  <2>2. /\ scan.mutationEpoch = s.mutationEpoch /\ scan.baseline = s.baseline
        /\ scan.files = None /\ scan \in Scan
    BY DEF Session, Scan
  <2> HIDE DEF scan
  <2>3. /\ t.scan = scan /\ t.baseline = s.baseline /\ t.mutationEpoch = s.mutationEpoch
        /\ t.depth = s.depth
    BY DEF Session
  <2>4. s.depth = 0 /\ scan # None
    BY <1>4, <2>2, NoneAssumption DEF Session
  <2> HIDE DEF t
  <2> QED BY <2>1, <2>2, <2>3, <2>4 DEF ScanFrom, FreshScan
<1> QED BY <1>1, <1>2, <1>3, <1>4

LEMMA ResumeScan ==
    ASSUME NEW s \in Session
    PROVE  ScanFrom(s, Resume(s))
<1> DEFINE t == [s EXCEPT !.rescan = FALSE, !.rescanReconcile = FALSE, !.debounce = FALSE]
<1>1. /\ t \in Session /\ t.scan = s.scan /\ s.rescanReconcile \in BOOLEAN
      /\ t.baseline = s.baseline /\ t.mutationEpoch = s.mutationEpoch
  BY DEF Session
<1>2. Resume(s) = Poll(t, s.rescanReconcile) \/ Resume(s) = s
  BY DEF Resume
<1> HIDE DEF t
<1>3. ScanFrom(t, Poll(t, s.rescanReconcile))
  BY <1>1, PollScan
<1> QED BY <1>1, <1>2, <1>3 DEF ScanFrom

LEMMA EndMutationScan ==
    ASSUME NEW s \in Session, s.depth > 0
    PROVE  ScanFrom(s, EndMutation(s))
<1> DEFINE t == [s EXCEPT !.depth = @ - 1]
<1>1. /\ t \in Session /\ t.scan = s.scan
      /\ t.baseline = s.baseline /\ t.mutationEpoch = s.mutationEpoch
  BY DEF Session
<1>2. EndMutation(s) = Resume(t)
  BY DEF EndMutation
<1> HIDE DEF t
<1> QED BY <1>1, <1>2, ResumeScan DEF ScanFrom

LEMMA ResolvedScan ==
    ASSUME NEW s \in Session, NEW id \in Nat
    PROVE  ScanFrom(s, Resolved(s, id))
<1> DEFINE t == [s EXCEPT !.resolved = @ \cup {id}]
           u == [t EXCEPT !.pollAfter = FALSE, !.reconcileAfter = FALSE,
                          !.debounce = FALSE, !.polls = @ \cup {t.reconcileAfter}]
<1>1. t.scan = s.scan /\ t.baseline = s.baseline /\ t.mutationEpoch = s.mutationEpoch
  BY DEF Session
<1>2. u.scan = t.scan /\ u.baseline = t.baseline /\ u.mutationEpoch = t.mutationEpoch
  BY DEF Session
<1>3. Resolved(s, id) = u \/ Resolved(s, id) = t
  BY DEF Resolved
<1> HIDE DEF t, u
<1> QED BY <1>1, <1>2, <1>3 DEF ScanFrom

LEMMA BeginRefreshScan ==
    ASSUME NEW s \in Session
    PROVE  /\ BeginRefresh(s).scan = s.scan /\ BeginRefresh(s).baseline = s.baseline
           /\ BeginRefresh(s).mutationEpoch = s.mutationEpoch
BY DEF BeginRefresh, Session

-----------------------------------------------------------------------------
\* The save or the resolution in flight is the only job.
LEMMA OneJob ==
    ASSUME OneSave, Leased, NEW a \in Actor, job[a] # None, NEW b \in Actor, job[b] # None
    PROVE  a = b
<1>1. \A c \in Actor : job[c] # None => c \in Savers \/ c = Resolver
  BY DEF Leased, NoAssetEffect, Actor
<1>2. job[Resolver] # None => \A c \in Actor : job[c] # None => c = Resolver
  BY OnlyResolverUnderReview DEF Leased, LeaseInv, ResolvesPending
<1> QED BY <1>1, <1>2 DEF OneSave

\* While there is one, no scan is under way that it has not overtaken.
LEMMA ScanOvertaken ==
    ASSUME Leased, ScanAccounts(session), NEW a \in Actor, job[a] # None
    PROVE  session.scan # None => session.scan.mutationEpoch < session.mutationEpoch
<1>1. CASE a \in Savers
  <2>1. session.depth # 0
    BY <1>1, SavingFinite, FS_EmptySet DEF Saving, Leased, TypeInv, DepthCounts
  <2>2. session.scan # None => /\ session.scan.mutationEpoch \in Nat
                               /\ session.mutationEpoch \in Nat
    BY DEF Leased, TypeInv, TypeOK, Session, Scan
  <2> QED BY <2>1, <2>2 DEF ScanAccounts
<1>2. CASE a = Resolver
  BY <1>2 DEF Leased, LeaseInv, ResolvesPending, QuietUnderReview
<1> QED BY <1>1, <1>2 DEF Leased, NoAssetEffect, Actor

\* A scan overtaken stays so, and one that has just begun has found nothing yet.
LEMMA ScanStaysOvertaken ==
    ASSUME session'.scan # None =>
              \/ /\ session'.scan.mutationEpoch < session'.mutationEpoch
                 /\ session'.scan.mutationEpoch \in Nat /\ session'.mutationEpoch \in Nat
              \/ FreshScan(session') /\ session'.mutationEpoch \in Nat
    PROVE  ScanAccounts(session)'
BY DEF ScanAccounts, FreshScan

\* The one job in flight goes on as j, or ends.
JobGoesOn(a, j) ==
    /\ job' = [job EXCEPT ![a] = j]
    /\ job'[a] = j
    /\ \A b \in Actor \ {a} : job[b] = None /\ job'[b] = None

LEMMA OnlyJobGoesOn ==
    ASSUME OneSave, Leased, NEW a \in Actor, job[a] # None, NEW j,
           job' = [job EXCEPT ![a] = j]
    PROVE  JobGoesOn(a, j)
<1>1. job \in [Actor -> Job \cup {None}]
  BY DEF Leased, TypeInv, TypeOK
<1>2. \A b \in Actor \ {a} : job[b] = None
  BY OneJob
<1> QED BY <1>1, <1>2 DEF JobGoesOn

\* A step of the one job: what has to be shown of the files.
LEMMA JobStepAccounts ==
    ASSUME OneSave, Leased, OwnInv, LeaseInv', NEW a \in Actor, job[a] # None, NEW j,
           job' = [job EXCEPT ![a] = j], UNCHANGED history,
           session' \in Session,
           session'.scan # None => \/ /\ session'.scan = session.scan
                                      /\ session'.mutationEpoch = session.mutationEpoch
                                   \/ FreshScan(session'),
           \A f \in File : \/ disk'[f] \in external
                           \/ disk'[f] = session'.baseline[f]
                           \/ /\ j # None
                              /\ \/ /\ j.kind = "incremental" /\ j.step = "read"
                                    /\ f \in j.target
                                 \/ /\ j.kind \in {"full", "keepApp"}
                                    /\ j.step \in {"read", "install"},
           j # None /\ j.kind \in {"full", "keepApp"} /\ j.step = "install" =>
              \A f \in File : disk'[f] \in external \/ disk'[f] = j.files[f],
           j # None /\ j.kind = "full" /\ j.step = "install" => j.epoch = session'.refreshEpoch,
           session'.pending # None =>
              \/ j # None /\ a = Resolver /\ j.kind = "keepApp" /\ j.step \in {"read", "install"}
              \/ \A f \in File : disk'[f] \in external \/ disk'[f] = session'.pending.files[f]
    PROVE  OwnInv'
<1>1. JobGoesOn(a, j)
  BY OnlyJobGoesOn
<1>2. external' = external /\ shown' = shown
  BY DEF history
<1>3. BaselineAccounts'
  BY <1>1, <1>2 DEF JobGoesOn, BaselineAccounts, Unrecorded, At
<1>4. SnapshotAccounts'
  BY <1>1, <1>2 DEF JobGoesOn, SnapshotAccounts, Accounted, At
<1>5. SaveRefreshNewest'
  BY <1>1 DEF JobGoesOn, SaveRefreshNewest, At, Actor
<1>6. CandidateAccounts'
  BY <1>1, <1>2 DEF JobGoesOn, CandidateAccounts, Accounted, At, Actor
<1>7. ScanAccounts(session)'
  <2>1. session'.mutationEpoch \in Nat
        /\ (session'.scan # None => session'.scan.mutationEpoch \in Nat)
    BY DEF Session, Scan
  <2>2. session.scan # None => session.scan.mutationEpoch < session.mutationEpoch
    BY ScanOvertaken DEF OwnInv
  <2> QED BY <2>1, <2>2, ScanStaysOvertaken
<1>8. OwnWritesNotDelivered'
  BY <1>2 DEF OwnInv, OwnWritesNotDelivered
<1> QED BY <1>3, <1>4, <1>5, <1>6, <1>7, <1>8 DEF OwnInv

\* What the invariant says while a is at work.
LEMMA AtWork ==
    ASSUME OneSave, Leased, OwnInv, NEW a \in Actor, job[a] # None
    PROVE  /\ \A f \in File : \/ disk[f] \in external
                              \/ disk[f] = session.baseline[f]
                              \/ At(a, {"incremental"}, "read") /\ f \in job[a].target
                              \/ At(a, {"full", "keepApp"}, "read")
                              \/ At(a, {"full", "keepApp"}, "install")
           /\ a # Resolver => session.pending = None /\ session.depth > 0
<1>1. \A b \in Actor : job[b] # None => b = a
  BY OneJob
<1>2. \A f \in File : \/ disk[f] \in external
                      \/ disk[f] = session.baseline[f]
                      \/ At(a, {"incremental"}, "read") /\ f \in job[a].target
                      \/ At(a, {"full", "keepApp"}, "read")
                      \/ At(a, {"full", "keepApp"}, "install")
  BY <1>1 DEF OwnInv, BaselineAccounts, Unrecorded, At
<1>3. a # Resolver => session.pending = None
  BY OnlyResolverUnderReview
<1>4. ASSUME a # Resolver PROVE session.depth > 0
  <2>1. a \in Saving
    BY <1>4 DEF Saving, Leased, NoAssetEffect, Actor
  <2>2. session.depth \in Nat /\ session.depth # 0
    BY <2>1, SavingFinite, FS_EmptySet DEF Leased, TypeInv, DepthCounts
  <2> QED BY <2>2
<1> QED BY <1>2, <1>3, <1>4

-----------------------------------------------------------------------------
LEMMA WriteIncrementalAccounts ==
    ASSUME OneSave, Leased, OwnInv, LeaseInv', NEW a \in Actor, WriteIncremental(a)
    PROVE  OwnInv'
<1> DEFINE j == [job[a] EXCEPT !.step = "read"]
<1>1. job[a] # None /\ job[a] \in Job /\ job[a].kind = "incremental" /\ job[a].step = "write"
      /\ a \in Savers
  BY SaversSave DEF WriteIncremental, At, Leased
<1>2. /\ job' = [job EXCEPT ![a] = j] /\ session' = session
      /\ UNCHANGED history
      /\ \A f \in File : f \notin job[a].target => disk'[f] = disk[f]
  BY DEF WriteIncremental, history
<1>3. /\ j # None /\ j.kind = "incremental" /\ j.step = "read" /\ j.target = job[a].target
  BY <1>1, NoneAssumption DEF Job
<1>4. /\ \A f \in File : disk[f] \in external \/ disk[f] = session.baseline[f]
      /\ session.pending = None
  BY <1>1, AtWork, ConstantsAssumption DEF At
<1>5. session \in Session
  BY DEF Leased, TypeInv, TypeOK
<1> HIDE DEF j
<1> QED BY <1>1, <1>2, <1>3, <1>4, <1>5, JobStepAccounts

LEMMA FailIncrementalAccounts ==
    ASSUME OneSave, Leased, OwnInv, LeaseInv', NEW a \in Actor, FailIncremental(a)
    PROVE  OwnInv'
<1>1. job[a] # None /\ job[a].kind = "incremental" /\ job[a].step = "write" /\ a # Resolver
  BY SaversSave, ConstantsAssumption DEF FailIncremental, At, Leased
<1>2. /\ job' = [job EXCEPT ![a] = None] /\ session' = EndMutation(session)
      /\ disk' = disk /\ UNCHANGED history
  BY DEF FailIncremental, history
<1>3. /\ \A f \in File : disk[f] \in external \/ disk[f] = session.baseline[f]
      /\ session.pending = None /\ session.depth > 0
  BY <1>1, AtWork DEF At
<1>4. session \in Session
  BY DEF Leased, TypeInv, TypeOK
<1>5. ScanFrom(session, session') /\ session' \in Session /\ session'.pending = None
  BY <1>2, <1>3, <1>4, EndMutationScan, EndMutationKeeps
<1> QED BY <1>1, <1>2, <1>3, <1>5, JobStepAccounts DEF ScanFrom

LEMMA PatchBaselineAccounts ==
    ASSUME OneSave, Leased, OwnInv, LeaseInv', NEW a \in Actor, PatchBaseline(a)
    PROVE  OwnInv'
<1> DEFINE j == [job[a] EXCEPT !.step = "install"]
           files == [f \in File |-> IF f \in job[a].target THEN disk[f] ELSE session.baseline[f]]
           s == [session EXCEPT !.baseline = files]
<1>1. job[a] # None /\ job[a] \in Job /\ job[a].kind = "incremental" /\ job[a].step = "read"
      /\ a # Resolver
  BY SaversSave, ConstantsAssumption DEF PatchBaseline, At, Leased
<1>2. session \in Session /\ disk \in Files
  BY DEF Leased, TypeInv, TypeOK
<1>3. session' = BeginRefresh(s)
  BY <1>2 DEF PatchBaseline, Session
<1>4. job' = [job EXCEPT ![a] = j] /\ disk' = disk /\ UNCHANGED history
  BY DEF PatchBaseline, history
<1>5. files \in Files
  BY <1>2 DEF Files, Session
<1>6. \A f \in File : f \in job[a].target => files[f] = disk[f]
  OBVIOUS
<1>7. \A f \in File : f \notin job[a].target => files[f] = session.baseline[f]
  OBVIOUS
<1> HIDE DEF files
<1>8. /\ s \in Session /\ s.scan = session.scan /\ s.baseline = files
      /\ s.mutationEpoch = session.mutationEpoch /\ s.pending = session.pending
  BY <1>2, <1>5, SessionUpdates DEF Session
<1> HIDE DEF s
<1>9. /\ session' \in Session /\ session'.scan = session.scan /\ session'.baseline = files
      /\ session'.mutationEpoch = session.mutationEpoch /\ session'.pending = session.pending
  BY <1>3, <1>8, BeginRefreshScan, BeginRefreshKeeps
<1>10. /\ \A f \in File : \/ disk[f] \in external \/ disk[f] = session.baseline[f]
                          \/ f \in job[a].target
       /\ session.pending = None
  BY <1>1, AtWork DEF At
<1>11. j.kind = "incremental" /\ j.step = "install"
  BY <1>1 DEF Job
<1> HIDE DEF j
<1>12. \A f \in File : disk'[f] \in external \/ disk'[f] = session'.baseline[f]
  BY <1>4, <1>6, <1>7, <1>9, <1>10
<1> QED BY <1>1, <1>4, <1>9, <1>10, <1>11, <1>12, JobStepAccounts

LEMMA FinishIncrementalAccounts ==
    ASSUME OneSave, Leased, OwnInv, LeaseInv', NEW a \in Actor, FinishIncremental(a)
    PROVE  OwnInv'
<1> DEFINE n == session.generation + 1
           s == [session EXCEPT !.generation = n, !.pending = None]
<1>1. job[a] # None /\ job[a].kind = "incremental" /\ job[a].step = "install" /\ a # Resolver
  BY SaversSave, ConstantsAssumption DEF FinishIncremental, At, Leased
<1>2. session \in Session /\ n \in Nat
  BY DEF Leased, TypeInv, TypeOK, Session
<1>3. /\ job' = [job EXCEPT ![a] = None] /\ session' = EndMutation(s)
      /\ disk' = disk /\ UNCHANGED history
  BY <1>2 DEF FinishIncremental, history, Session
<1> HIDE DEF n
<1>4. /\ s \in Session /\ s.scan = session.scan /\ s.baseline = session.baseline
      /\ s.mutationEpoch = session.mutationEpoch /\ s.pending = None /\ s.depth = session.depth
  BY <1>2, SessionUpdates DEF Session
<1> HIDE DEF s
<1>5. /\ \A f \in File : disk[f] \in external \/ disk[f] = session.baseline[f]
      /\ session.pending = None /\ session.depth > 0
  BY <1>1, AtWork DEF At
<1>6. ScanFrom(s, session') /\ session' \in Session /\ session'.pending = None
  BY <1>3, <1>4, <1>5, EndMutationScan, EndMutationKeeps
<1>7. \A f \in File : disk'[f] \in external \/ disk'[f] = session'.baseline[f]
  BY <1>3, <1>4, <1>5, <1>6 DEF ScanFrom
<1>8. session'.scan # None => \/ /\ session'.scan = session.scan
                                 /\ session'.mutationEpoch = session.mutationEpoch
                              \/ FreshScan(session')
  BY <1>4, <1>6 DEF ScanFrom
<1> QED BY <1>1, <1>3, <1>6, <1>7, <1>8, JobStepAccounts

LEMMA WriteFullAccounts ==
    ASSUME OneSave, Leased, OwnInv, LeaseInv', NEW a \in Actor, WriteFull(a)
    PROVE  OwnInv'
<1> DEFINE j == [job[a] EXCEPT !.step = "read"]
<1>1. job[a] # None /\ job[a] \in Job /\ job[a].kind \in {"full", "keepApp"}
      /\ (a # Resolver => job[a].kind = "full") /\ (a = Resolver => job[a].kind = "keepApp")
  <2>1. job[a] # None /\ job[a].kind \in {"full", "keepApp"}
    BY DEF WriteFull, At
  <2> QED BY <2>1, SaversSave, ConstantsAssumption DEF Leased
<1>2. /\ job' = [job EXCEPT ![a] = j] /\ session' = session /\ UNCHANGED history
  BY DEF WriteFull, history
<1>3. /\ j # None /\ j.kind = job[a].kind /\ j.step = "read"
  BY <1>1, NoneAssumption DEF Job
<1>4. session \in Session
  BY DEF Leased, TypeInv, TypeOK
<1>5. a # Resolver => session.pending = None
  BY <1>1, AtWork
<1> HIDE DEF j
<1> QED BY <1>1, <1>2, <1>3, <1>4, <1>5, JobStepAccounts

LEMMA ReadSnapshotAccounts ==
    ASSUME OneSave, Leased, OwnInv, LeaseInv', NEW a \in Actor, ReadSnapshot(a)
    PROVE  OwnInv'
<1> DEFINE n == session.refreshEpoch + 1
           j == [job[a] EXCEPT !.step = "install", !.files = disk, !.epoch = n]
<1>1. job[a] # None /\ job[a] \in Job /\ job[a].kind \in {"full", "keepApp"}
      /\ (a # Resolver => job[a].kind = "full") /\ (a = Resolver => job[a].kind = "keepApp")
  <2>1. job[a] # None /\ job[a].kind \in {"full", "keepApp", "asset"}
    BY DEF ReadSnapshot, At
  <2>2. job[a].kind # "asset"
    BY <2>1, SaversSave DEF Leased, NoAssetEffect
  <2> QED BY <2>1, <2>2, SaversSave, ConstantsAssumption DEF Leased
<1>2. /\ job' = [job EXCEPT ![a] = j] /\ session' = BeginRefresh(session)
      /\ disk' = disk /\ UNCHANGED history
  BY DEF ReadSnapshot, history
<1>3. session \in Session
  BY DEF Leased, TypeInv, TypeOK
<1>4. /\ session' \in Session /\ session'.scan = session.scan
      /\ session'.mutationEpoch = session.mutationEpoch /\ session'.pending = session.pending
      /\ session'.refreshEpoch = n
  BY <1>2, <1>3, BeginRefreshScan, BeginRefreshKeeps
<1>5. /\ j # None /\ j.kind = job[a].kind /\ j.step = "install" /\ j.files = disk /\ j.epoch = n
  <2>1. j.kind = job[a].kind /\ j.step = "install" /\ j.files = disk /\ j.epoch = n
    BY <1>1 DEF Job
  <2>2. disk \in Files /\ n \in Nat
    BY <1>3 DEF Leased, TypeInv, TypeOK, Session
  <2> HIDE DEF n
  <2>3. j \in Job
    BY <1>1, <2>2 DEF Job
  <2> QED BY <2>1, <2>3, NoneAssumption
<1> HIDE DEF n
<1>6. a # Resolver => session.pending = None
  BY <1>1, AtWork
<1> HIDE DEF j
<1> QED BY <1>1, <1>2, <1>4, <1>5, <1>6, JobStepAccounts

LEMMA InstallSnapshotAccounts ==
    ASSUME OneSave, Leased, OwnInv, LeaseInv', NEW a \in Actor, InstallSnapshot(a)
    PROVE  OwnInv'
<1> DEFINE files == job[a].files
           n == session.generation + 1
           s == [session EXCEPT !.baseline = files, !.generation = n, !.pending = None]
<1>1. job[a] # None /\ job[a] \in Job /\ job[a].kind \in {"full", "keepApp"}
      /\ job[a].step = "install"
      /\ (job[a].kind = "full" => a \in Savers /\ a # Resolver)
      /\ (job[a].kind = "keepApp" => a = Resolver /\ job[a].candidate.id \in Nat)
  <2>1. job[a] # None /\ job[a].kind \in {"full", "keepApp", "asset"} /\ job[a].step = "install"
    BY DEF InstallSnapshot, At
  <2>2. job[a].kind # "asset"
    BY <2>1, SaversSave DEF Leased, NoAssetEffect
  <2>3. job[a].kind = "keepApp" => a = Resolver /\ job[a].candidate \in Candidate
    BY <2>1, SaversSave DEF Leased
  <2> QED BY <2>1, <2>2, <2>3, SaversSave, ConstantsAssumption DEF Leased, Candidate
<1>2. job[a].epoch = session.refreshEpoch
  <2>1. CASE job[a].kind = "full"
    BY <1>1, <2>1 DEF OwnInv, SaveRefreshNewest, At
  <2>2. CASE job[a].kind = "keepApp"
    BY <1>1, <2>2 DEF Leased, LeaseInv, ResolvesPending
  <2> QED BY <1>1, <2>1, <2>2
<1>3. session \in Session /\ n \in Nat /\ files \in Files
  BY <1>1 DEF Leased, TypeInv, TypeOK, Session, Job
<1>4. Installed(session, job[a].files, job[a].epoch) = s
  BY <1>2 DEF Installed
<1>5. /\ job' = [job EXCEPT ![a] = None] /\ disk' = disk /\ UNCHANGED history
      /\ session' = CASE job[a].kind = "full"    -> EndMutation(s)
                      [] job[a].kind = "keepApp" -> Resolved(s, job[a].candidate.id)
                      [] job[a].kind = "asset"   -> s
  BY <1>4 DEF InstallSnapshot, history
<1>6. \A f \in File : disk[f] \in external \/ disk[f] = files[f]
  BY <1>1 DEF OwnInv, SnapshotAccounts, Accounted, At
<1> HIDE DEF n, files
<1>7. /\ s \in Session /\ s.scan = session.scan /\ s.baseline = files
      /\ s.mutationEpoch = session.mutationEpoch /\ s.pending = None /\ s.depth = session.depth
  BY <1>3, SessionUpdates DEF Session
<1> HIDE DEF s
<1>8. ScanFrom(s, session') /\ session' \in Session /\ session'.pending = None
  <2>1. CASE job[a].kind = "full"
    <3>1. session.depth > 0
      BY <1>1, <2>1, AtWork
    <3>2. session' = EndMutation(s)
      BY <1>5, <2>1
    <3> QED BY <1>7, <3>1, <3>2, EndMutationScan, EndMutationKeeps
  <2>2. CASE job[a].kind = "keepApp"
    <3>1. session' = Resolved(s, job[a].candidate.id)
      BY <1>5, <2>2
    <3> QED BY <1>1, <1>7, <2>2, <3>1, ResolvedScan, ResolvedKeeps
  <2> QED BY <1>1, <2>1, <2>2
<1>9. \A f \in File : disk'[f] \in external \/ disk'[f] = session'.baseline[f]
  BY <1>5, <1>6, <1>7, <1>8 DEF ScanFrom
<1>10. session'.scan # None => \/ /\ session'.scan = session.scan
                                  /\ session'.mutationEpoch = session.mutationEpoch
                               \/ FreshScan(session')
  BY <1>7, <1>8 DEF ScanFrom
<1> QED BY <1>1, <1>5, <1>8, <1>9, <1>10, JobStepAccounts

LEMMA AcceptDiskAccounts ==
    ASSUME OneSave, Leased, OwnInv, LeaseInv', BeginAcceptedInstall \/ FinishAcceptDisk
    PROVE  OwnInv'
<1> DEFINE r == job[Resolver]
<1>1. /\ Resolver \in Actor /\ r # None /\ r \in Job /\ r.kind = "acceptDisk"
      /\ r.candidate \in Candidate /\ session \in Session
  <2>1. Resolver \in Actor /\ r # None /\ r.kind = "acceptDisk"
    BY DEF BeginAcceptedInstall, FinishAcceptDisk, At, Actor
  <2> QED BY <2>1, SaversSave DEF Leased, TypeInv, TypeOK
<1>2. /\ session.pending # None /\ session.pending = r.candidate
      /\ r.step = "install" => r.epoch = session.refreshEpoch
  BY <1>1 DEF Leased, LeaseInv, ResolvesPending
<1>3. \A f \in File : disk[f] \in external \/ disk[f] = session.baseline[f]
  BY <1>1, AtWork DEF At
<1>4. \A f \in File : disk[f] \in external \/ disk[f] = r.candidate.files[f]
  BY <1>1, <1>2 DEF OwnInv, CandidateAccounts, Accounted, At
<1>5. CASE BeginAcceptedInstall
  <2> DEFINE n == session.refreshEpoch + 1
             j == [r EXCEPT !.step = "install", !.epoch = n]
  <2>1. /\ job' = [job EXCEPT ![Resolver] = j] /\ session' = BeginRefresh(session)
        /\ disk' = disk /\ UNCHANGED history
    BY <1>5 DEF BeginAcceptedInstall, history
  <2>2. j.kind = "acceptDisk"
    BY <1>1 DEF Job
  <2> HIDE DEF j
  <2>3. /\ session' \in Session /\ session'.scan = session.scan
        /\ session'.baseline = session.baseline
        /\ session'.mutationEpoch = session.mutationEpoch /\ session'.pending = session.pending
    BY <1>1, <2>1, BeginRefreshScan, BeginRefreshKeeps
  <2>4. \A f \in File : disk'[f] \in external \/ disk'[f] = session'.baseline[f]
    BY <1>3, <2>1, <2>3
  <2>5. \A f \in File : disk'[f] \in external \/ disk'[f] = session'.pending.files[f]
    BY <1>2, <1>4, <2>1, <2>3
  <2>6. j.kind \notin {"full", "keepApp"} /\ j.kind # "full"
    BY <2>2
  <2> HIDE DEF r
  <2> QED BY <1>1, <2>1, <2>3, <2>4, <2>5, <2>6, JobStepAccounts DEF r
<1>6. CASE FinishAcceptDisk
  <2> DEFINE files == r.candidate.files
             n == r.candidate.generation
             s == [session EXCEPT !.baseline = files, !.generation = n, !.pending = None]
  <2>1. r.epoch = session.refreshEpoch
    BY <1>2, <1>6 DEF FinishAcceptDisk, At
  <2>2. /\ job' = [job EXCEPT ![Resolver] = None] /\ session' = Resolved(s, r.candidate.id)
        /\ disk' = disk /\ UNCHANGED history
    BY <1>1, <1>6, <2>1 DEF FinishAcceptDisk, history, Session
  <2>3. files \in Files /\ n \in Nat /\ r.candidate.id \in Nat
    BY <1>1 DEF Candidate
  <2> HIDE DEF files, n
  <2>4. /\ s \in Session /\ s.scan = session.scan /\ s.baseline = files
        /\ s.mutationEpoch = session.mutationEpoch /\ s.pending = None
    BY <1>1, <2>3, SessionUpdates DEF Session
  <2> HIDE DEF s
  <2>5. ScanFrom(s, session') /\ session' \in Session /\ session'.pending = None
    BY <2>2, <2>3, <2>4, ResolvedScan, ResolvedKeeps
  <2>6. \A f \in File : disk'[f] \in external \/ disk'[f] = session'.baseline[f]
    BY <1>4, <2>2, <2>4, <2>5 DEF ScanFrom, files
  <2>7. session'.scan # None => \/ /\ session'.scan = session.scan
                                   /\ session'.mutationEpoch = session.mutationEpoch
                                \/ FreshScan(session')
    BY <2>4, <2>5 DEF ScanFrom
  <2> QED BY <1>1, <2>2, <2>5, <2>6, <2>7, JobStepAccounts
<1> QED BY <1>5, <1>6

-----------------------------------------------------------------------------
\* A scan that goes on while others write, and one that has just begun.
LEMMA ScanUntouched ==
    ASSUME ScanAccounts(session), session'.scan = session.scan,
           session'.mutationEpoch = session.mutationEpoch, session'.depth = session.depth,
           session'.baseline = session.baseline, external \subseteq external',
           \A f \in File : disk'[f] = disk[f] \/ disk'[f] \in external'
    PROVE  ScanAccounts(session)'
BY DEF ScanAccounts

LEMMA NewScanAccounts ==
    ASSUME session' \in Session, session'.scan = None \/ FreshScan(session')
    PROVE  ScanAccounts(session)'
<1>1. session'.mutationEpoch \in Nat
  BY DEF Session
<1> QED BY <1>1 DEF ScanAccounts, FreshScan

\* A step that leaves jobs, baseline and candidate alone.
LEMMA QuietStepAccounts ==
    ASSUME OwnInv, UNCHANGED job, session'.baseline = session.baseline,
           session'.refreshEpoch = session.refreshEpoch, session'.pending = session.pending,
           external \subseteq external', UNCHANGED shown,
           \A f \in File : disk'[f] = disk[f] \/ disk'[f] \in external',
           ScanAccounts(session)'
    PROVE  OwnInv'
<1>1. BaselineAccounts'
  BY DEF OwnInv, BaselineAccounts, Unrecorded, At
<1>2. SnapshotAccounts'
  BY DEF OwnInv, SnapshotAccounts, Accounted, At
<1>3. SaveRefreshNewest'
  BY DEF OwnInv, SaveRefreshNewest, At
<1>4. CandidateAccounts'
  BY DEF OwnInv, CandidateAccounts, Accounted, At
<1>5. OwnWritesNotDelivered'
  BY DEF OwnInv, OwnWritesNotDelivered
<1> QED BY <1>1, <1>2, <1>3, <1>4, <1>5 DEF OwnInv

LEMMA EnvironmentAccounts ==
    ASSUME Leased, OwnInv,
           \/ \E f \in File : ExternalWrite(f) \/ WatcherEvent(f)
           \/ \E p \in Path : AppEdit(p)
    PROVE  OwnInv'
<1>1. session \in Session /\ disk \in Files
  BY DEF Leased, TypeInv, TypeOK
<1>2. /\ session'.scan = session.scan /\ session'.mutationEpoch = session.mutationEpoch
      /\ session'.depth = session.depth /\ session'.baseline = session.baseline
      /\ session'.pending = session.pending /\ session'.refreshEpoch = session.refreshEpoch
  BY <1>1 DEF ExternalWrite, WatcherEvent, AppEdit, Session
<1>3. UNCHANGED <<job, shown>> /\ external \subseteq external'
  BY DEF ExternalWrite, WatcherEvent, AppEdit, history
<1>4. \A f \in File : disk'[f] = disk[f] \/ disk'[f] \in external'
  BY <1>1 DEF ExternalWrite, WatcherEvent, AppEdit, Files
<1>5. ScanAccounts(session)'
  BY <1>2, <1>3, <1>4, ScanUntouched DEF OwnInv
<1> QED BY <1>2, <1>3, <1>4, <1>5, QuietStepAccounts

LEMMA PollAccounts ==
    ASSUME Leased, OwnInv, Polls
    PROVE  OwnInv'
<1>1. /\ session \in Session /\ session' \in Session /\ SameLease(session, session')
      /\ UNCHANGED <<disk, job, external, shown>>
  BY PollStep DEF Leased, TypeInv, TypeOK, history
<1>2. ScanFrom(session, session')
  <2>1. ASSUME NEW r \in BOOLEAN, NEW s \in Session, session' = Poll(s, r),
               s.scan = session.scan, s.baseline = session.baseline,
               s.mutationEpoch = session.mutationEpoch
        PROVE  ScanFrom(session, session')
    BY <2>1, PollScan DEF ScanFrom
  <2>2. CASE DebouncedPoll
    <3> DEFINE s == [session EXCEPT !.debounce = FALSE]
    <3>1. session' = Poll(s, FALSE)
      BY <2>2 DEF DebouncedPoll
    <3>2. /\ s \in Session /\ s.scan = session.scan /\ s.baseline = session.baseline
          /\ s.mutationEpoch = session.mutationEpoch
      BY <1>1 DEF Session
    <3> HIDE DEF s
    <3> QED BY <2>1, <3>1, <3>2
  <2>3. CASE IntervalPoll
    BY <1>1, <2>1, <2>3 DEF IntervalPoll
  <2>4. ASSUME NEW r \in BOOLEAN, PollAfterResolution(r) PROVE ScanFrom(session, session')
    <3> DEFINE s == [session EXCEPT !.polls = @ \ {r}]
    <3>1. session' = Poll(s, r)
      BY <2>4 DEF PollAfterResolution
    <3>2. /\ s \in Session /\ s.scan = session.scan /\ s.baseline = session.baseline
          /\ s.mutationEpoch = session.mutationEpoch
      BY <1>1 DEF Session
    <3> HIDE DEF s
    <3> QED BY <2>1, <3>1, <3>2
  <2> QED BY <2>2, <2>3, <2>4 DEF Polls
<1>3. ScanAccounts(session)'
  BY <1>1, <1>2, ScanUntouched, NewScanAccounts DEF ScanFrom, SameLease, OwnInv
<1> QED BY <1>1, <1>2, <1>3, QuietStepAccounts DEF ScanFrom, SameLease

-----------------------------------------------------------------------------
\* Where no save is in flight and no candidate under review, nothing is.
LEMMA AtRest ==
    ASSUME Leased, OwnInv, session.pending = None, session.depth = 0
    PROVE  \A f \in File : disk[f] \in external \/ disk[f] = session.baseline[f]
<1>1. Saving = {}
  BY SavingFinite, FS_EmptySet DEF Leased, TypeInv, DepthCounts
<1>2. \A a \in Actor : job[a] = None
  BY <1>1 DEF Saving, Leased, NoAssetEffect, LeaseInv, ResolvesPending, Actor
<1> QED BY <1>2 DEF OwnInv, BaselineAccounts, Unrecorded, At

LEMMA ReadManifestAccounts ==
    ASSUME Leased, OwnInv, ReadManifest
    PROVE  OwnInv'
<1> DEFINE files == [f \in File |-> IF f \in session.scan.hints
                                   THEN disk[f] ELSE session.scan.baseline[f]]
           scan == [session.scan EXCEPT !.files = files]
<1>1. /\ session \in Session /\ session.scan # None /\ session.scan \in Scan
      /\ session.pending = None
  BY ScanKeepsLease DEF ReadManifest, Leased, TypeInv, TypeOK, Session
<1>2. session' = [session EXCEPT !.scan = scan]
  BY DEF ReadManifest
<1>3. /\ scan.mutationEpoch = session.scan.mutationEpoch
      /\ scan.baseline = session.scan.baseline /\ scan.files = files
  BY <1>1 DEF Scan
<1>4. \A f \in File : files[f] = disk[f] \/ files[f] = session.scan.baseline[f]
  OBVIOUS
<1> HIDE DEF files, scan
<1>5. /\ session'.scan = scan /\ session'.mutationEpoch = session.mutationEpoch
      /\ session'.depth = session.depth /\ session'.baseline = session.baseline
      /\ session'.pending = session.pending /\ session'.refreshEpoch = session.refreshEpoch
  BY <1>1, <1>2 DEF Session
<1>6. UNCHANGED <<disk, job, external, shown>>
  BY DEF ReadManifest, history
<1>7. ScanAccounts(session)'
  <2>1. session.scan.mutationEpoch <= session.mutationEpoch
    BY <1>1 DEF OwnInv, ScanAccounts
  <2>2. CASE session.scan.mutationEpoch = session.mutationEpoch
    <3>1. session.depth = 0 /\ session.scan.baseline = session.baseline
      BY <1>1, <2>2 DEF OwnInv, ScanAccounts
    <3>2. \A f \in File : disk[f] \in external \/ disk[f] = session.baseline[f]
      BY <1>1, <3>1, AtRest
    <3>3. \A f \in File : scan.files[f] # scan.baseline[f] => disk[f] \in external
      BY <1>3, <1>4, <3>1, <3>2
    <3> QED BY <1>3, <1>5, <1>6, <2>1, <3>1, <3>3 DEF ScanAccounts
  <2>3. CASE session.scan.mutationEpoch # session.mutationEpoch
    BY <1>3, <1>5, <2>1, <2>3 DEF ScanAccounts
  <2> QED BY <2>2, <2>3
<1> QED BY <1>5, <1>6, <1>7, QuietStepAccounts

\* The end of a scan leaves none but one that has just begun.
LEMMA FinishScanScan ==
    ASSUME TypeInv, FinishScan
    PROVE  /\ session'.scan = None \/ FreshScan(session')
           /\ session'.baseline = session.baseline
           /\ UNCHANGED <<disk, job, external>>
<1> DEFINE found == Found(lastDelta + 1)
           idle == [session EXCEPT !.scan = None]
<1>1. session \in Session /\ lastDelta + 1 \in Nat
  BY DEF TypeInv, TypeOK
<1>2. found \in Candidate \cup {None}
  BY <1>1, FoundType DEF FinishScan, TypeInv
<1>3. idle \in Session /\ idle.scan = None /\ idle.baseline = session.baseline
  BY <1>1 DEF Session
<1>4. session' \in {Resume(RequestRescan(idle, TRUE)), Resume(idle),
                    Resume([idle EXCEPT !.pending = found])}
  BY DEF FinishScan
<1> HIDE DEF idle, found
<1>5. ASSUME NEW s \in Session, s.scan = None, s.baseline = idle.baseline
      PROVE  /\ Resume(s).scan = None \/ FreshScan(Resume(s))
             /\ Resume(s).baseline = session.baseline
  BY <1>3, <1>5, ResumeScan DEF ScanFrom
<1>6. /\ RequestRescan(idle, TRUE) \in Session /\ RequestRescan(idle, TRUE).scan = None
      /\ RequestRescan(idle, TRUE).baseline = idle.baseline
  BY <1>3 DEF RequestRescan, Session
<1>7. /\ [idle EXCEPT !.pending = found] \in Session
      /\ [idle EXCEPT !.pending = found].scan = None
      /\ [idle EXCEPT !.pending = found].baseline = idle.baseline
  <2>1. [idle EXCEPT !.pending = found] \in Session
    BY <1>2, <1>3, SessionUpdates
  <2> QED BY <1>3, <2>1 DEF Session
<1>8. UNCHANGED <<disk, job, external>>
  BY DEF FinishScan
<1> QED BY <1>3, <1>4, <1>5, <1>6, <1>7, <1>8

\* What a scan that nothing overtook has found is the work of other programs.
LEMMA FoundAccounts ==
    ASSUME Leased, OwnInv, session.pending = None, session.scan # None,
           session.scan.files # None, ~Overtaken, NEW id \in Nat, Found(id) # None
    PROVE  /\ Accounted(Found(id).files)
           /\ Range(Found(id).changes) \subseteq external
<1> DEFINE scan == session.scan
           changed == {f \in File : scan.files[f] # scan.baseline[f]}
           changes == [f \in changed |-> disk[f]]
           found == [id |-> id, generation |-> session.generation + 1, files |-> scan.files,
                     changes |-> changes,
                     deliveryState |-> "awaitingResolution", reissued |-> FALSE]
<1>1. Found(id) = found
  BY DEF Found
<1>2. /\ session.depth = 0 /\ scan.baseline = session.baseline
      /\ \A f \in File : scan.files[f] # scan.baseline[f] => disk[f] \in external
  <2>1. scan.mutationEpoch = session.mutationEpoch
    BY DEF Overtaken
  <2> QED BY <2>1 DEF OwnInv, ScanAccounts
<1>3. \A f \in File : disk[f] \in external \/ disk[f] = session.baseline[f]
  BY <1>2, AtRest
<1>4. Accounted(scan.files)
  BY <1>2, <1>3 DEF Accounted
<1>5. Range(changes) \subseteq external
  BY <1>2 DEF Range
<1>6. found.files = scan.files /\ found.changes = changes
  OBVIOUS
<1> QED BY <1>1, <1>4, <1>5, <1>6

LEMMA FinishScanAccounts ==
    ASSUME Leased, OwnInv, FinishScan
    PROVE  OwnInv'
<1> DEFINE id == lastDelta + 1
<1>1. /\ session' \in Session /\ session.pending = None /\ id \in Nat
      /\ session.scan # None /\ session.scan.files # None
      /\ session'.refreshEpoch = session.refreshEpoch
  BY ScanKeepsLease, FinishScanStep DEF Leased, TypeInv, TypeOK
<1>2. /\ session'.scan = None \/ FreshScan(session')
      /\ session'.baseline = session.baseline /\ UNCHANGED <<disk, job, external>>
  BY FinishScanScan DEF Leased
<1>3. ScanAccounts(session)'
  BY <1>1, <1>2, NewScanAccounts
<1>4. CASE session'.pending = session.pending /\ UNCHANGED shown
  BY <1>1, <1>2, <1>3, <1>4, QuietStepAccounts
<1>5. CASE /\ ~Overtaken /\ session'.pending = Found(id)
           /\ shown' = IF Found(id) = None THEN shown
                       ELSE shown \cup Range(Found(id).changes)
  <2>1. Found(id) # None => /\ Accounted(Found(id).files)
                            /\ Range(Found(id).changes) \subseteq external
    BY <1>1, <1>5, FoundAccounts
  <2> HIDE DEF id
  <2>2. BaselineAccounts' /\ SnapshotAccounts'
    BY <1>2 DEF OwnInv, BaselineAccounts, Unrecorded, SnapshotAccounts, Accounted, At
  <2>3. SaveRefreshNewest'
    BY <1>1, <1>2 DEF OwnInv, SaveRefreshNewest, At
  <2>4. CandidateAccounts'
    BY <1>2, <1>5, <2>1 DEF CandidateAccounts, Accounted, At
  <2>5. OwnWritesNotDelivered'
    BY <1>2, <1>5, <2>1 DEF OwnInv, OwnWritesNotDelivered
  <2> QED BY <1>3, <2>2, <2>3, <2>4, <2>5 DEF OwnInv
<1> QED BY <1>4, <1>5, FinishScanStep DEF Leased

-----------------------------------------------------------------------------
\* A save or a resolution begins, before it has written or read anything.
LEMMA JobBeginsAccounts ==
    ASSUME TypeInv, OwnInv, NEW a \in Actor, job[a] = None, NEW j,
           job' = [job EXCEPT ![a] = j], j.step = "write" \/ j.kind = "acceptDisk",
           UNCHANGED <<disk, history>>, session'.baseline = session.baseline,
           session'.refreshEpoch = session.refreshEpoch, session'.pending = session.pending,
           ScanAccounts(session)'
    PROVE  OwnInv'
<1>1. /\ external' = external /\ shown' = shown
      /\ job'[a] = j /\ \A b \in Actor \ {a} : job'[b] = job[b]
  BY DEF history, TypeInv, TypeOK
<1>3. BaselineAccounts'
  <2>1. \A f \in File : Unrecorded(f) => Unrecorded(f)'
    BY <1>1 DEF Unrecorded, At
  <2> QED BY <1>1, <2>1 DEF OwnInv, BaselineAccounts
<1>4. SnapshotAccounts'
  BY <1>1 DEF OwnInv, SnapshotAccounts, Accounted, At
<1>5. SaveRefreshNewest'
  BY <1>1 DEF OwnInv, SaveRefreshNewest, At, Actor
<1>6. CandidateAccounts'
  BY <1>1 DEF OwnInv, CandidateAccounts, Accounted, At, Actor
<1>7. OwnWritesNotDelivered'
  BY <1>1 DEF OwnInv, OwnWritesNotDelivered
<1> QED BY <1>3, <1>4, <1>5, <1>6, <1>7 DEF OwnInv

LEMMA BeginSaveAccounts ==
    ASSUME Leased, OwnInv, NEW a \in Savers, NEW kind, NEW target, BeginSave(a, kind, target)
    PROVE  OwnInv'
<1> DEFINE j == NewJob(kind, "write", target)
<1>1. session \in Session
  BY DEF Leased, TypeInv, TypeOK
<1>2. /\ a \in Actor /\ job[a] = None /\ job' = [job EXCEPT ![a] = j] /\ j.step = "write"
      /\ UNCHANGED <<disk, history>>
  BY DEF BeginSave, Idle, NewJob, Actor
<1>3. /\ session'.scan = session.scan /\ session'.baseline = session.baseline
      /\ session'.mutationEpoch = session.mutationEpoch + 1
      /\ session'.refreshEpoch = session.refreshEpoch /\ session'.pending = session.pending
  BY <1>1 DEF BeginSave, Session
<1>4. session.mutationEpoch \in Nat /\ (session.scan # None => session.scan.mutationEpoch \in Nat)
  BY <1>1 DEF Session, Scan
<1>5. ScanAccounts(session)'
  BY <1>3, <1>4 DEF OwnInv, ScanAccounts
<1> HIDE DEF j
<1> QED BY <1>2, <1>3, <1>5, JobBeginsAccounts DEF Leased

LEMMA ResolutionBeginsAccounts ==
    ASSUME Leased, OwnInv, BeginKeepApp \/ BeginAcceptDisk
    PROVE  OwnInv'
<1>1. /\ Resolver \in Actor /\ job[Resolver] = None /\ session' = session
      /\ UNCHANGED <<disk, history>>
  BY DEF BeginKeepApp, BeginAcceptDisk, Idle, Actor
<1>2. ScanAccounts(session)'
  BY <1>1, ScanUntouched DEF OwnInv, history
<1>3. \E j : job' = [job EXCEPT ![Resolver] = j] /\ (j.step = "write" \/ j.kind = "acceptDisk")
  <2>1. CASE BeginKeepApp
    <3> DEFINE j == [NewJob("keepApp", "write", Path) EXCEPT !.candidate = session.pending]
    <3>1. job' = [job EXCEPT ![Resolver] = j] /\ j.step = "write"
      BY <2>1 DEF BeginKeepApp, NewJob
    <3> QED BY <3>1
  <2>2. CASE BeginAcceptDisk
    <3> DEFINE j == [NewJob("acceptDisk", "read", {}) EXCEPT !.candidate = session.pending]
    <3>1. job' = [job EXCEPT ![Resolver] = j] /\ j.kind = "acceptDisk"
      BY <2>2 DEF BeginAcceptDisk, NewJob
    <3> QED BY <3>1
  <2> QED BY <2>1, <2>2
<1> QED BY <1>1, <1>2, <1>3, JobBeginsAccounts DEF Leased

-----------------------------------------------------------------------------
LEMMA InitAccounts == Init => OwnInv
<1> SUFFICES ASSUME Init PROVE OwnInv
  OBVIOUS
<1>1. /\ session.baseline = disk /\ session.pending = None /\ session.scan = None
      /\ \A a \in Actor : job[a] = None
      /\ shown = {}
  BY DEF Init
<1> QED BY <1>1 DEF OwnInv, BaselineAccounts, SnapshotAccounts, SaveRefreshNewest,
           CandidateAccounts, ScanAccounts, OwnWritesNotDelivered, At, Actor

LEMMA NextAccounts ==
    ASSUME AssetPath = {}, "dismiss" \notin Resolutions, OneSave, Leased, OwnInv, [Next]_vars
    PROVE  OwnInv'
<1>1. LeaseInv'
  BY NextLease DEF LeaseStep
<1>2. CASE UNCHANGED vars
  <2>1. ScanAccounts(session)'
    BY <1>2, ScanUntouched DEF vars, history, OwnInv
  <2> QED BY <1>2, <2>1, QuietStepAccounts DEF vars, history
<1>3. CASE \/ \E f \in File : ExternalWrite(f) \/ WatcherEvent(f)
           \/ \E p \in Path : AppEdit(p)
  BY <1>3, EnvironmentAccounts
<1>4. CASE Polls
  BY <1>4, PollAccounts
<1>5. CASE ReadManifest \/ FinishScan
  BY <1>5, ReadManifestAccounts, FinishScanAccounts
<1>6. CASE \E a \in Savers : \/ \E p \in Path : BeginSave(a, "incremental", {p})
                            \/ BeginSave(a, "full", Path)
                            \/ RefuseSave(a)
  <2>1. \A a \in Savers : ~RefuseSave(a)
    BY DEF RefuseSave, Deferred, Awaiting, Leased, LeaseInv, QuietUnderReview
  <2> QED BY <1>6, <2>1, BeginSaveAccounts
<1>7. ASSUME NEW a \in Actor, Steps(a) PROVE OwnInv'
  BY <1>1, <1>7, WriteIncrementalAccounts, FailIncrementalAccounts, PatchBaselineAccounts,
     FinishIncrementalAccounts, WriteFullAccounts, ReadSnapshotAccounts,
     InstallSnapshotAccounts DEF Steps
<1>8. CASE BeginAcceptedInstall \/ FinishAcceptDisk
  BY <1>1, <1>8, AcceptDiskAccounts
<1>9. CASE BeginKeepApp \/ BeginAcceptDisk
  BY <1>9, ResolutionBeginsAccounts
<1>10. ~Dismiss /\ ~\E a \in AssetEffects, f \in AssetPath : BeginAssetEffect(a, f)
  BY DEF Dismiss
<1> QED BY <1>2, <1>3, <1>4, <1>5, <1>6, <1>7, <1>8, <1>9, <1>10 DEF Next, Polls, Resolve

\* When the renderer has one save of the folder in flight at most, as its queue
\* sees to, no scan mistakes the app's own write for the change of another
\* program: not one that begins before, during or after the write, for any
\* number of files, edits and answers.
THEOREM OwnWritesStayOwn ==
    ASSUME AssetPath = {}, "dismiss" \notin Resolutions, OneSave
    PROVE  Spec => []OwnWritesNotDelivered
<1>1. Init => OwnInv
  BY InitAccounts
<1>2. Leased /\ OwnInv /\ [Next]_vars => OwnInv'
  BY NextAccounts
<1>3. OwnInv => OwnWritesNotDelivered
  BY DEF OwnInv
<1> QED BY <1>1, <1>2, <1>3, LeasedInvariant, PTL DEF Spec
=============================================================================
