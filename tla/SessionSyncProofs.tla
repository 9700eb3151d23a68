--------------------------- MODULE SessionSyncProofs ---------------------------
(***************************************************************************)
(* Theorems about the two parts of the renderer's session with the native  *)
(* side: the queue of external deltas (DeltaQueue), for any number of      *)
(* folders, deltas and queue objects, and the life of a folder's session   *)
(* around it (SessionLifecycle), for any number of mounts, sessions,       *)
(* changes, answers and failures.                                          *)
(*                                                                         *)
(* Of the queue: the type invariant, one drain per folder, the stop that   *)
(* waits for it, that the queue objects implement DeltaChannel, and what   *)
(* the memory of delta ids has to do with what is queued.  The last needs  *)
(* induction over the remembered ids, which is carried out with sets: of   *)
(* the numbers, or the sequences, that a fact holds for.                   *)
(*                                                                         *)
(* Of the session: that the renderer and the main process agree on it,     *)
(* that a review holds its folder, that only what was merged is accepted,  *)
(* that a delta is merged while its session runs, and that the folder's    *)
(* queue is the channel the queue objects implement.                       *)
(***************************************************************************)
EXTENDS DeltaQueue, SessionLifecycle, TLAPS, SequenceTheorems, NaturalsInduction,
        WellFoundedInduction

-----------------------------------------------------------------------------
(* The inductive invariant *)

\* A folder's current queue object is its own, and not retired.
CurrentInUse ==
    \A r \in Root : roots[r] # None =>
        queues[roots[r]].root = r /\ ~queues[roots[r]].aborted

\* A drain runs for the current object of a folder that waits for no other, or for
\* the retired object the folder waits for.
WorkersAttached ==
    \A q \in Queue : queues[q].working # None =>
        LET r == queues[q].root
        IN  /\ ~queues[q].paused
            /\ \/ roots[r] = q /\ clearing[r] = None
               \/ queues[q].aborted /\ clearing[r] = q

ClearingRetired ==
    \A r \in Root : clearing[r] # None =>
        /\ clearing[r] \in draining
        /\ queues[clearing[r]].root = r /\ queues[clearing[r]].aborted

\* A stop that is pending while its folder is being cleared waits for that.
StopsWait ==
    \A r \in Root : stops[r].pending /\ clearing[r] # None => stops[r].after = clearing[r]

QueueInv == QueuesOK /\ CurrentInUse /\ WorkersAttached /\ ClearingRetired /\ StopsWait

-----------------------------------------------------------------------------
(* Steps that change one queue object and the current object of its folder *)

\* q becomes the object new of folder r, whose current object becomes x.
OneQueue(q, r, new, x) ==
    /\ new \in RootQueue /\ new.root = r
    /\ queues' = [queues EXCEPT ![q] = new]
    /\ roots' = [roots EXCEPT ![r] = x]
    /\ x = roots[r] \/ (x \in {q, None} /\ roots[r] \in {q, None})
    /\ \A s \in Root \ {r} : roots[s] # q
    /\ queues[q].working # None => queues[q].root = r

\* What keeps the invariant of such a step.
Attached(q, r, new, x) ==
    /\ x = q => ~new.aborted
    /\ \A s \in Root : clearing[s] = q => s = r /\ new.aborted
    /\ new.working # None =>
           /\ ~new.paused
           /\ \/ x = q /\ clearing[r] = None
              \/ new.aborted /\ clearing[r] = q

LEMMA OneQueueInv ==
    ASSUME QueueInv, NEW q \in Queue, NEW r \in Root, NEW new, NEW x,
           OneQueue(q, r, new, x), Attached(q, r, new, x),
           UNCHANGED <<clearing, draining, stops>>,
           waiting' \subseteq Queue \X Queue
    PROVE  QueueInv'
<1> USE DEF QueueInv, OneQueue
<1>1. /\ queues' \in [Queue -> RootQueue] /\ queues'[q] = new
      /\ \A p \in Queue \ {q} : queues'[p] = queues[p]
  BY DEF QueuesOK
<1>2. /\ roots' \in [Root -> Queue \cup {None}] /\ roots'[r] = x
      /\ \A s \in Root \ {r} : roots'[s] = roots[s]
  BY DEF QueuesOK
<1>3. QueuesOK'
  BY <1>1, <1>2 DEF QueuesOK
<1>4. CurrentInUse'
  BY <1>1, <1>2, ConstantsAssumption DEF QueuesOK, CurrentInUse, Attached
<1>5. WorkersAttached'
  <2> SUFFICES ASSUME NEW p \in Queue, queues'[p].working # None
               PROVE  LET s == queues'[p].root
                      IN  /\ ~queues'[p].paused
                          /\ \/ roots'[s] = p /\ clearing[s] = None
                             \/ queues'[p].aborted /\ clearing[s] = p
    BY DEF WorkersAttached
  <2>1. CASE p = q
    BY <2>1, <1>1, <1>2 DEF Attached
  <2>2. CASE p # q
    <3>1. /\ ~queues[p].paused
          /\ \/ roots[queues[p].root] = p /\ clearing[queues[p].root] = None
             \/ queues[p].aborted /\ clearing[queues[p].root] = p
      BY <2>2, <1>1 DEF WorkersAttached
    <3>2. queues[p].root \in Root
      BY DEF QueuesOK, RootQueue
    <3>3. roots[queues[p].root] = p => roots'[queues[p].root] = p
      BY <2>2, <3>2, <1>2, ConstantsAssumption
    <3> QED BY <2>2, <3>1, <3>3, <1>1
  <2> QED BY <2>1, <2>2
<1>6. ClearingRetired'
  BY <1>1, ConstantsAssumption DEF QueuesOK, ClearingRetired, Attached
<1>7. StopsWait'
  BY DEF StopsWait
<1> QED BY <1>3, <1>4, <1>5, <1>6, <1>7

-----------------------------------------------------------------------------
(* The drain *)

\* q is, or becomes, the object of folder r that is to be drained, now in this state.  
Drainable(q, r, state) ==
    /\ state \in RootQueue /\ state.root = r /\ ~state.aborted
    /\ state.working = queues[q].working
    /\ state.working # None => ~state.paused
    /\ roots[r] \in {q, None}
    /\ \A s \in Root \ {r} : roots[s] # q
    /\ \A s \in Root : clearing[s] # q
    /\ queues[q].working # None => queues[q].root = r /\ roots[r] = q

\* What becomes of it: it stays as it is, takes its next delta, or ends.
Scheduled(q, r, state, new, x) ==
    \/ new = state /\ x = q
    \/ /\ state.working = None /\ ~state.paused /\ state.items # <<>> /\ clearing[r] = None
       /\ new = [state EXCEPT !.working = Head(state.items), !.items = Tail(state.items)]
       /\ x = q
    \/ /\ state.working = None /\ ~state.paused /\ state.items = <<>>
       /\ new = state /\ x = None

LEMMA TakeNext ==
    ASSUME NEW items \in Seq(Delta), items # <<>>
    PROVE  Head(items) \in Delta /\ Tail(items) \in Seq(Delta)
OBVIOUS

LEMMA DrainOutcome ==
    ASSUME QueueInv, NEW q \in Queue, NEW r \in Root, NEW state, NEW entries,
           Drainable(q, r, state), entries = [roots EXCEPT ![r] = q],
           clearing[r] = None, Drain(q, state, entries)
    PROVE  \E new, x : /\ OneQueue(q, r, new, x) /\ Attached(q, r, new, x)
                       /\ Scheduled(q, r, state, new, x)
<1> DEFINE taken == [state EXCEPT !.working = Head(state.items), !.items = Tail(state.items)]
<1> USE DEF Drainable
<1>1. CASE state.working # None \/ state.paused
  <2>1. queues' = [queues EXCEPT ![q] = state] /\ roots' = entries
    BY <1>1 DEF Drain
  <2>2. OneQueue(q, r, state, q)
    BY <2>1 DEF OneQueue
  <2>3. Attached(q, r, state, q)
    BY ConstantsAssumption DEF Attached
  <2> QED BY <2>2, <2>3 DEF Scheduled
<1>2. CASE state.working = None /\ ~state.paused /\ state.items # <<>>
  <2>1. queues' = [queues EXCEPT ![q] = taken] /\ roots' = entries
    BY <1>2 DEF Drain, Looped, Blocked
  <2>2. Head(state.items) \in Delta /\ Tail(state.items) \in Seq(Delta)
    BY <1>2, TakeNext DEF RootQueue
  <2>3. taken \in RootQueue /\ taken.root = r /\ ~taken.aborted /\ ~taken.paused
    BY <1>2, <2>2 DEF RootQueue
  <2>4. OneQueue(q, r, taken, q)
    BY <2>1, <2>3 DEF OneQueue
  <2>5. Attached(q, r, taken, q)
    BY <2>3, ConstantsAssumption DEF Attached
  <2>6. Scheduled(q, r, state, taken, q)
    BY <1>2 DEF Scheduled
  <2> QED BY <2>4, <2>5, <2>6
<1>3. CASE state.working = None /\ ~state.paused /\ state.items = <<>>
  <2>1. [state EXCEPT !.working = None] = state
    BY <1>3 DEF RootQueue
  <2>2. entries[r] = q /\ [entries EXCEPT ![r] = None] = [roots EXCEPT ![r] = None]
    BY DEF QueueInv, QueuesOK
  <2>3. queues' = [queues EXCEPT ![q] = state] /\ roots' = [roots EXCEPT ![r] = None]
    BY <1>3, <2>1, <2>2 DEF Drain, Looped, Blocked, RootsAfter
  <2>4. OneQueue(q, r, state, None)
    BY <2>3 DEF OneQueue
  <2>5. Attached(q, r, state, None)
    BY <1>3, ConstantsAssumption DEF Attached
  <2>6. Scheduled(q, r, state, state, None)
    BY <1>3 DEF Scheduled
  <2> QED BY <2>4, <2>5, <2>6
<1> QED BY <1>1, <1>2, <1>3

LEMMA ScheduleOutcome ==
    ASSUME QueueInv, NEW q \in Queue, NEW r \in Root, NEW state, NEW entries,
           Drainable(q, r, state), entries = [roots EXCEPT ![r] = q],
           ScheduleDrain(q, state, entries)
    PROVE  /\ waiting' \subseteq Queue \X Queue
           /\ \E new, x : /\ OneQueue(q, r, new, x) /\ Attached(q, r, new, x)
                          /\ Scheduled(q, r, state, new, x)
<1>1. CASE clearing[r] # None
  <2>1. /\ waiting' = waiting \cup {<<q, clearing[r]>>}
        /\ queues' = [queues EXCEPT ![q] = state] /\ roots' = entries
    BY <1>1 DEF ScheduleDrain, Drainable
  <2>2. clearing[r] \in Queue /\ waiting \subseteq Queue \X Queue
    BY <1>1 DEF QueueInv, QueuesOK
  <2>3. queues[q].working = None
    BY <1>1 DEF QueueInv, WorkersAttached, Drainable
  <2>4. OneQueue(q, r, state, q)
    BY <2>1 DEF OneQueue, Drainable
  <2>5. Attached(q, r, state, q)
    BY <2>3 DEF Attached, Drainable
  <2> QED BY <2>1, <2>2, <2>4, <2>5 DEF Scheduled
<1>2. CASE clearing[r] = None
  <2>1. Drain(q, state, entries) /\ waiting' = waiting
    BY <1>2 DEF ScheduleDrain, Drainable
  <2> QED BY <1>2, <2>1, DrainOutcome DEF QueueInv, QueuesOK
<1> QED BY <1>1, <1>2

LEMMA FreshDrainable ==
    ASSUME QueueInv, NEW q \in Queue, NEW r \in Root, Fresh(q), roots[r] = None,
           NEW items \in Seq(Delta)
    PROVE  Drainable(q, r, [NewQueue(r) EXCEPT !.items = items])
<1>1. \A s \in Root : roots[s] # q /\ clearing[s] # q
  BY ConstantsAssumption DEF Fresh, QueueInv, ClearingRetired
<1> QED BY <1>1 DEF Drainable, NewQueue, RootQueue, Fresh

LEMMA CurrentDrainable ==
    ASSUME QueueInv, NEW r \in Root, roots[r] # None,
           NEW state \in RootQueue, state.root = r, ~state.aborted,
           state.working = queues[roots[r]].working,
           state.paused => queues[roots[r]].paused
    PROVE  roots[r] \in Queue /\ Drainable(roots[r], r, state)
<1> DEFINE q == roots[r]
<1>1. q \in Queue /\ queues[q].root = r /\ ~queues[q].aborted
  BY DEF QueueInv, QueuesOK, CurrentInUse
<1>2. \A s \in Root \ {r} : roots[s] # q
  BY <1>1, ConstantsAssumption DEF QueueInv, CurrentInUse
<1>3. \A s \in Root : clearing[s] # q
  BY <1>1, ConstantsAssumption DEF QueueInv, ClearingRetired
<1>4. queues[q].working # None => ~queues[q].paused
  BY <1>1 DEF QueueInv, WorkersAttached
<1> QED BY <1>1, <1>2, <1>3, <1>4 DEF Drainable

-----------------------------------------------------------------------------
(* A delta that was processed *)

\* The drain of q ends because it was cleared, or because a review holds it, or because
\* nothing is left, or it goes on with the next delta.
Settled(q, r, new, x) ==
    LET state == queues[q]
    IN  \/ state.aborted /\ new = [state EXCEPT !.working = None] /\ x = roots[r]
        \/ /\ ~state.aborted /\ roots[r] = q
           /\ \/ new = [state EXCEPT !.paused = TRUE, !.working = None] /\ x = q
              \/ /\ state.items = <<>>
                 /\ new = [state EXCEPT !.working = None] /\ x = None
              \/ /\ state.items # <<>>
                 /\ new = [state EXCEPT !.working = Head(state.items),
                                        !.items = Tail(state.items)]
                 /\ x = q

LEMMA SettleOutcome ==
    ASSUME QueueInv, NEW q \in Queue, Settle(q)
    PROVE  LET r == queues[q].root
           IN  r \in Root /\ \E new, x : /\ OneQueue(q, r, new, x) /\ Attached(q, r, new, x)
                                         /\ Settled(q, r, new, x)
<1> DEFINE state == queues[q]
           r == state.root
           ended == [state EXCEPT !.working = None]
           hold == [state EXCEPT !.paused = TRUE, !.working = None]
           taken == [state EXCEPT !.working = Head(state.items), !.items = Tail(state.items)]
<1>1. state \in RootQueue /\ r \in Root /\ state.working # None /\ ~state.paused
  BY DEF QueueInv, QueuesOK, RootQueue, WorkersAttached, Settle
<1>2. PICK disposition \in {"continue", "pause", "throw"} :
          LET judged == Judged(state, disposition)
          IN  /\ queues' = [queues EXCEPT ![q] = Looped(judged)]
              /\ roots' = IF Blocked(judged) THEN RootsAfter(q, judged, roots) ELSE roots
  BY DEF Settle
<1>3. ended \in RootQueue /\ ended.root = r /\ hold \in RootQueue /\ hold.root = r
  BY <1>1 DEF RootQueue
<1>4. roots[r] = [roots EXCEPT ![r] = roots[r]][r] /\ roots = [roots EXCEPT ![r] = roots[r]]
  BY <1>1 DEF QueueInv, QueuesOK
<1>5. \A s \in Root \ {r} : roots[s] # q
  BY <1>1, ConstantsAssumption DEF QueueInv, CurrentInUse
<1>6. \A s \in Root : clearing[s] = q => s = r /\ state.aborted
  BY <1>1, ConstantsAssumption DEF QueueInv, ClearingRetired
<1>7. CASE state.aborted
  <2>1. Judged(state, disposition) = state /\ Blocked(state) /\ Looped(state) = ended
    BY <1>7 DEF Judged, Blocked, Looped
  <2>2. roots[r] # q
    BY <1>1, <1>7, ConstantsAssumption DEF QueueInv, CurrentInUse
  <2>3. queues' = [queues EXCEPT ![q] = ended] /\ roots' = roots
    BY <1>2, <2>1, <2>2 DEF RootsAfter
  <2>4. OneQueue(q, r, ended, roots[r])
    BY <1>3, <1>4, <1>5, <2>3 DEF OneQueue
  <2>5. ended.working = None /\ ended.aborted
    BY <1>1, <1>7 DEF RootQueue
  <2>6. Attached(q, r, ended, roots[r])
    BY <1>6, <2>2, <2>5 DEF Attached
  <2> QED BY <1>1, <1>7, <2>4, <2>6 DEF Settled
<1>8. CASE ~state.aborted
  <2>1. roots[r] = q /\ clearing[r] = None
    BY <1>1, <1>8 DEF QueueInv, WorkersAttached
  <2>2. roots = [roots EXCEPT ![r] = q]
    BY <1>4, <2>1
  <2>3. CASE disposition \in {"pause", "throw"}
    <3>1. Judged(state, disposition) = [state EXCEPT !.paused = TRUE]
      BY <1>8, <2>3 DEF Judged
    <3>2. [state EXCEPT !.paused = TRUE].paused
      BY <1>1 DEF RootQueue
    <3>3. queues' = [queues EXCEPT ![q] = hold] /\ roots' = roots
      BY <1>1, <1>2, <3>1, <3>2 DEF Looped, Blocked, RootsAfter, RootQueue
    <3>4. OneQueue(q, r, hold, q)
      BY <1>3, <1>5, <2>1, <2>2, <3>3 DEF OneQueue
    <3>5. hold.working = None /\ ~hold.aborted
      BY <1>1, <1>8 DEF RootQueue
    <3>6. Attached(q, r, hold, q)
      BY <1>6, <1>8, <3>5 DEF Attached
    <3> QED BY <1>1, <1>8, <2>1, <3>4, <3>6 DEF Settled
  <2>4. CASE disposition = "continue"
    <3>1. Judged(state, disposition) = state
      BY <1>1, <1>8, <2>4 DEF Judged, RootQueue
    <3>2. CASE state.items = <<>>
      <4>1. queues' = [queues EXCEPT ![q] = ended] /\ roots' = [roots EXCEPT ![r] = None]
        BY <1>1, <1>2, <2>1, <3>1, <3>2 DEF Looped, Blocked, RootsAfter
      <4>2. OneQueue(q, r, ended, None)
        BY <1>3, <1>5, <2>1, <4>1 DEF OneQueue
      <4>3. ended.working = None /\ ~ended.aborted
        BY <1>1, <1>8 DEF RootQueue
      <4>4. Attached(q, r, ended, None)
        BY <1>6, <1>8, <4>3, ConstantsAssumption DEF Attached
      <4> QED BY <1>1, <1>8, <2>1, <3>2, <4>2, <4>4 DEF Settled
    <3>3. CASE state.items # <<>>
      <4>1. queues' = [queues EXCEPT ![q] = taken] /\ roots' = roots
        BY <1>1, <1>2, <1>8, <3>1, <3>3 DEF Looped, Blocked
      <4>2. Head(state.items) \in Delta /\ Tail(state.items) \in Seq(Delta)
        BY <1>1, <3>3, TakeNext DEF RootQueue
      <4>3. taken \in RootQueue /\ taken.root = r /\ ~taken.aborted /\ ~taken.paused
        BY <1>1, <1>8, <4>2 DEF RootQueue
      <4>4. OneQueue(q, r, taken, q)
        BY <1>5, <2>1, <2>2, <4>1, <4>3 DEF OneQueue
      <4>5. Attached(q, r, taken, q)
        BY <1>6, <1>8, <2>1, <4>3 DEF Attached
      <4> QED BY <1>1, <1>8, <2>1, <3>3, <4>4, <4>5 DEF Settled
    <3> QED BY <3>2, <3>3
  <2> QED BY <2>3, <2>4
<1> QED BY <1>7, <1>8

-----------------------------------------------------------------------------
(* The invariant is inductive *)

LEMMA QueueInit == Init => QueueInv
<1> SUFFICES ASSUME Init PROVE QueueInv
  OBVIOUS
<1>1. PICK r \in Root : queues = [q \in Queue |-> NewQueue(r)]
  BY DEF Init
<1>2. NewQueue(r) \in RootQueue /\ NewQueue(r).working = None
  BY DEF NewQueue, RootQueue
<1>3. QueuesOK
  BY <1>1, <1>2 DEF Init, QueuesOK, NoStop, Stop
<1> QED BY <1>1, <1>2, <1>3, ConstantsAssumption
    DEF Init, QueueInv, CurrentInUse, WorkersAttached, ClearingRetired, StopsWait, NoStop

\* A delta that is enqueued changes the folder's queue object q, or a fresh one.
LEMMA EnqueueOutcome ==
    ASSUME QueueInv, NEW d \in Delta, Enqueue(d)
    PROVE  LET r == RootOf[d]
           IN  /\ r \in Root /\ waiting' \subseteq Queue \X Queue
               /\ \E q \in Queue : \E state, new, x :
                      /\ Drainable(q, r, state)
                      /\ IF roots[r] = None
                         THEN queues[q].working = None /\ state.items = <<d>> /\ ~state.paused
                         ELSE /\ roots[r] = q
                              /\ state = [queues[q] EXCEPT !.items = Append(@, d)]
                      /\ OneQueue(q, r, new, x) /\ Attached(q, r, new, x)
                      /\ Scheduled(q, r, state, new, x)
<1> DEFINE r == RootOf[d]
           root(q) == IF roots[r] = None THEN NewQueue(r) ELSE queues[q]
           state(q) == [root(q) EXCEPT !.items = Append(@, d)]
<1>1. r \in Root
  BY ConstantsAssumption
<1>2. PICK q \in Queue : /\ QueueFor(q, r)
                         /\ ScheduleDrain(q, state(q), [roots EXCEPT ![r] = q])
  BY DEF Enqueue
<1>3. CASE roots[r] = None
  <2>1. state(q) = [NewQueue(r) EXCEPT !.items = <<d>>]
    BY <1>3 DEF NewQueue
  <2>2. <<d>> \in Seq(Delta) /\ Fresh(q)
    BY <1>2, <1>3 DEF QueueFor
  <2>3. Drainable(q, r, state(q))
    BY <1>1, <1>3, <2>1, <2>2, FreshDrainable
  <2>4. queues[q].working = None /\ state(q).items = <<d>> /\ ~state(q).paused
    BY <2>1, <2>2 DEF Fresh, NewQueue
  <2> HIDE DEF state
  <2>5. waiting' \subseteq Queue \X Queue
        /\ \E new, x : /\ OneQueue(q, r, new, x) /\ Attached(q, r, new, x)
                       /\ Scheduled(q, r, state(q), new, x)
    BY <1>1, <1>2, <2>3, ScheduleOutcome
  <2> QED BY <1>1, <1>3, <2>3, <2>4, <2>5
<1>4. CASE roots[r] # None
  <2>1. roots[r] = q /\ state(q) = [queues[q] EXCEPT !.items = Append(@, d)]
    BY <1>2, <1>4 DEF QueueFor
  <2>2. queues[q] \in RootQueue /\ queues[q].root = r /\ ~queues[q].aborted
    BY <1>1, <1>4, <2>1 DEF QueueInv, QueuesOK, CurrentInUse
  <2>3. /\ state(q) \in RootQueue /\ state(q).root = r /\ ~state(q).aborted
        /\ state(q).working = queues[q].working
        /\ state(q).paused => queues[q].paused
    <3> DEFINE longer == [queues[q] EXCEPT !.items = Append(@, d)]
    <3>1. Append(queues[q].items, d) \in Seq(Delta)
      BY <2>2 DEF RootQueue
    <3>2. /\ longer \in RootQueue /\ longer.root = r /\ ~longer.aborted
          /\ longer.working = queues[q].working /\ longer.paused = queues[q].paused
      BY <2>2, <3>1 DEF RootQueue
    <3>3. state(q) = longer
      BY <2>1
    <3> HIDE DEF state, longer
    <3> QED BY <3>2, <3>3
  <2>4. Drainable(q, r, state(q))
    BY <1>1, <1>4, <2>1, <2>3, CurrentDrainable
  <2> HIDE DEF state
  <2>5. waiting' \subseteq Queue \X Queue
        /\ \E new, x : /\ OneQueue(q, r, new, x) /\ Attached(q, r, new, x)
                       /\ Scheduled(q, r, state(q), new, x)
    BY <1>1, <1>2, <2>4, ScheduleOutcome
  <2> QED BY <1>1, <1>4, <2>1, <2>4, <2>5
<1> QED BY <1>3, <1>4

LEMMA ResumeOutcome ==
    ASSUME QueueInv, NEW r \in Root, Resume(r)
    PROVE  LET q == roots[r]
               state == [queues[q] EXCEPT !.paused = FALSE]
           IN  /\ q \in Queue /\ waiting' \subseteq Queue \X Queue
               /\ Drainable(q, r, state)
               /\ \E new, x : /\ OneQueue(q, r, new, x) /\ Attached(q, r, new, x)
                              /\ Scheduled(q, r, state, new, x)
<1> DEFINE q == roots[r]
           state == [queues[q] EXCEPT !.paused = FALSE]
<1>1. q \in Queue /\ q # None
  BY DEF Resume, QueueInv, QueuesOK
<1>2. queues[q] \in RootQueue /\ queues[q].root = r /\ ~queues[q].aborted
  BY <1>1 DEF QueueInv, QueuesOK, CurrentInUse
<1>3. /\ state \in RootQueue /\ state.root = r /\ ~state.aborted
      /\ state.working = queues[q].working /\ ~state.paused
  BY <1>2 DEF RootQueue
<1>4. roots = [roots EXCEPT ![r] = q]
  BY DEF QueueInv, QueuesOK
<1>5. ScheduleDrain(q, state, roots)
  BY DEF Resume
<1> HIDE DEF state
<1>6. Drainable(q, r, state)
  BY <1>1, <1>3, CurrentDrainable
<1>7. waiting' \subseteq Queue \X Queue
      /\ \E new, x : /\ OneQueue(q, r, new, x) /\ Attached(q, r, new, x)
                     /\ Scheduled(q, r, state, new, x)
  BY <1>1, <1>4, <1>5, <1>6, ScheduleOutcome
<1> QED BY <1>1, <1>6, <1>7 DEF state

\* A drain put off is scheduled once more, or nothing changes.
LEMMA ScheduleWaitingOutcome ==
    ASSUME QueueInv, NEW pair \in waiting, ScheduleWaiting(pair[1], pair[2])
    PROVE  LET q == pair[1]
               r == queues[q].root
           IN  /\ q \in Queue /\ r \in Root /\ waiting' \subseteq Queue \X Queue
               /\ \/ UNCHANGED <<queues, roots>>
                  \/ /\ Drainable(q, r, queues[q])
                     /\ roots[r] = q
                     /\ \E new, x : /\ OneQueue(q, r, new, x) /\ Attached(q, r, new, x)
                                    /\ Scheduled(q, r, queues[q], new, x)
<1> DEFINE q == pair[1]
           r == queues[q].root
<1>1. q \in Queue /\ queues[q] \in RootQueue /\ r \in Root
  BY DEF QueueInv, QueuesOK, RootQueue
<1>2. clearing[r] # None => <<q, clearing[r]>> \in Queue \X Queue
  BY <1>1 DEF QueueInv, QueuesOK
<1>3. waiting \subseteq Queue \X Queue
  BY DEF QueueInv, QueuesOK
<1>4. waiting' \subseteq Queue \X Queue
  BY <1>2, <1>3 DEF ScheduleWaiting
<1>5. CASE roots[r] # q \/ clearing[r] # None
  BY <1>1, <1>4, <1>5 DEF ScheduleWaiting
<1>6. CASE roots[r] = q /\ clearing[r] = None
  <2>1. Drain(q, queues[q], roots) /\ roots = [roots EXCEPT ![r] = q]
    BY <1>1, <1>6 DEF ScheduleWaiting, QueueInv, QueuesOK
  <2>2. roots[r] # None /\ ~queues[q].aborted
    BY <1>1, <1>6, ConstantsAssumption DEF QueueInv, CurrentInUse
  <2>3. Drainable(q, r, queues[q])
    BY <1>1, <1>6, <2>2, CurrentDrainable
  <2>4. \E new, x : /\ OneQueue(q, r, new, x) /\ Attached(q, r, new, x)
                    /\ Scheduled(q, r, queues[q], new, x)
    BY <1>1, <1>6, <2>1, <2>3, DrainOutcome
  <2> QED BY <1>1, <1>4, <1>6, <2>3, <2>4
<1> QED BY <1>5, <1>6

\* A folder that is cleared has no current object; the one it had is retired.
LEMMA ClearInv ==
    ASSUME QueueInv, NEW r \in Root, ClearRoot(r)
    PROVE  QueueInv'
<1> DEFINE q == roots[r]
           running == q # None /\ queues[q].working # None
           retired == [queues[q] EXCEPT !.aborted = TRUE, !.items = <<>>, !.paused = FALSE]
<1>1. /\ roots' = [roots EXCEPT ![r] = None]
      /\ waiting' = waiting
      /\ stops' = [stops EXCEPT ![r] = [pending |-> TRUE, after |-> ClearingOf(r)]]
      /\ IF q = None THEN queues' = queues ELSE queues' = [queues EXCEPT ![q] = retired]
      /\ clearing' = IF running THEN [clearing EXCEPT ![r] = q] ELSE clearing
      /\ draining' = IF running THEN draining \cup {q} ELSE draining
  BY DEF ClearRoot, QueueInv, QueuesOK, RootQueue
<1>2. QueuesOK
  BY DEF QueueInv
<1>3. q # None => /\ q \in Queue /\ queues[q] \in RootQueue
                  /\ queues[q].root = r /\ ~queues[q].aborted
  BY <1>2 DEF QueueInv, QueuesOK, CurrentInUse
<1>4. q # None => /\ retired \in RootQueue /\ retired.root = r /\ retired.aborted
                  /\ ~retired.paused /\ retired.working = queues[q].working
  <2>1. <<>> \in Seq(Delta)
    OBVIOUS
  <2> QED BY <1>3, <2>1 DEF RootQueue
<1>5. running => clearing[r] = None
  BY <1>3 DEF QueueInv, WorkersAttached
<1>6. ClearingOf(r) = clearing'[r]
  BY <1>1, <1>2 DEF ClearingOf, QueuesOK
<1>7. QueuesOK'
  BY <1>1, <1>2, <1>3, <1>4, <1>6 DEF QueuesOK, Stop
<1>8. CurrentInUse'
  BY <1>1, <1>2, <1>3, <1>4 DEF QueueInv, QueuesOK, CurrentInUse
<1>9. WorkersAttached'
  <2> SUFFICES ASSUME NEW p \in Queue, queues'[p].working # None
               PROVE  LET s == queues'[p].root
                      IN  /\ ~queues'[p].paused
                          /\ \/ roots'[s] = p /\ clearing'[s] = None
                             \/ queues'[p].aborted /\ clearing'[s] = p
    BY DEF WorkersAttached
  <2>1. CASE p = q
    <3> HIDE DEF retired
    <3>1. q # None /\ queues'[p] = retired
      BY <2>1, <1>1, <1>2, ConstantsAssumption DEF QueuesOK
    <3>2. running /\ clearing'[r] = p /\ retired.aborted /\ ~retired.paused /\ retired.root = r
      BY <2>1, <3>1, <1>1, <1>2, <1>4 DEF QueuesOK
    <3> QED BY <3>1, <3>2
  <2>2. CASE p # q
    <3>1. queues'[p] = queues[p] /\ queues[p].root \in Root
      BY <2>2, <1>1, <1>2 DEF QueuesOK, RootQueue
    <3>2. /\ ~queues[p].paused
          /\ \/ roots[queues[p].root] = p /\ clearing[queues[p].root] = None
             \/ queues[p].aborted /\ clearing[queues[p].root] = p
      BY <3>1 DEF QueueInv, WorkersAttached
    <3>3. queues[p].root = r => clearing[r] = p /\ queues[p].aborted
      BY <2>2, <3>2
    <3>4. queues[p].root = r => clearing' = clearing
      BY <3>3, <1>1, <1>5, ConstantsAssumption
    <3>5. queues[p].root # r => /\ roots'[queues[p].root] = roots[queues[p].root]
                                /\ clearing'[queues[p].root] = clearing[queues[p].root]
      BY <1>1, <1>2, <3>1 DEF QueuesOK
    <3> QED BY <3>1, <3>2, <3>3, <3>4, <3>5
  <2> QED BY <2>1, <2>2
<1>10. ClearingRetired'
  <2> SUFFICES ASSUME NEW s \in Root, clearing'[s] # None
               PROVE  /\ clearing'[s] \in draining'
                      /\ queues'[clearing'[s]].root = s /\ queues'[clearing'[s]].aborted
    BY DEF ClearingRetired
  <2>1. CASE running /\ s = r
    BY <2>1, <1>1, <1>2, <1>3, <1>4 DEF QueuesOK
  <2>2. CASE ~(running /\ s = r)
    <3>1. clearing'[s] = clearing[s]
      BY <2>2, <1>1, <1>2 DEF QueuesOK
    <3>2. /\ clearing[s] \in draining
          /\ queues[clearing[s]].root = s /\ queues[clearing[s]].aborted
      BY <3>1 DEF QueueInv, ClearingRetired
    <3>3. clearing[s] # q /\ clearing[s] \in Queue
      BY <1>2, <1>3, <3>1, <3>2 DEF QueuesOK
    <3> QED BY <3>1, <3>2, <3>3, <1>1, <1>2 DEF QueuesOK
  <2> QED BY <2>1, <2>2
<1>11. StopsWait'
  <2> SUFFICES ASSUME NEW s \in Root, stops'[s].pending, clearing'[s] # None
               PROVE  stops'[s].after = clearing'[s]
    BY DEF StopsWait
  <2>1. CASE s = r
    BY <2>1, <1>1, <1>2, <1>6 DEF QueuesOK
  <2>2. CASE s # r
    BY <2>2, <1>1, <1>2 DEF QueuesOK, QueueInv, StopsWait
  <2> QED BY <2>1, <2>2
<1> QED BY <1>7, <1>8, <1>9, <1>10, <1>11 DEF QueueInv

\* A step that leaves the queue objects alone and settles a clearing, or issues a stop.
LEMMA FinishClearingInv ==
    ASSUME QueueInv, NEW q \in Queue, FinishClearing(q)
    PROVE  QueueInv'
<1> USE DEF QueueInv
<1>1. /\ draining' = draining \ {q} /\ queues[q].working = None
      /\ clearing' = [r \in Root |-> IF clearing[r] = q THEN None ELSE clearing[r]]
      /\ UNCHANGED <<queues, roots, waiting, stops>>
  BY DEF FinishClearing
<1>2. QueuesOK'
  BY <1>1 DEF QueuesOK
<1>3. CurrentInUse'
  BY <1>1 DEF CurrentInUse
<1>4. WorkersAttached'
  BY <1>1, ConstantsAssumption DEF WorkersAttached, QueuesOK, RootQueue
<1>5. ClearingRetired'
  BY <1>1 DEF ClearingRetired, QueuesOK
<1>6. StopsWait'
  BY <1>1 DEF StopsWait, QueuesOK
<1> QED BY <1>2, <1>3, <1>4, <1>5, <1>6

LEMMA StopSessionInv ==
    ASSUME QueueInv, NEW r \in Root, StopSession(r)
    PROVE  QueueInv'
<1>1. NoStop \in Stop /\ ~NoStop.pending
  BY DEF NoStop, Stop
<1>2. stops' = [stops EXCEPT ![r] = NoStop]
      /\ UNCHANGED <<queues, roots, clearing, draining, waiting>>
  BY DEF StopSession
<1> QED BY <1>1, <1>2
    DEF QueueInv, QueuesOK, CurrentInUse, WorkersAttached, ClearingRetired, StopsWait

LEMMA QueueStep == QueueInv /\ [Next]_vars => QueueInv'
<1> SUFFICES ASSUME QueueInv, [Next]_vars PROVE QueueInv'
  OBVIOUS
<1>1. ASSUME NEW d \in Delta, Enqueue(d) PROVE QueueInv'
  <2>1. UNCHANGED <<clearing, draining, stops>>
    BY <1>1 DEF Enqueue
  <2> QED BY <1>1, <2>1, EnqueueOutcome, OneQueueInv
<1>2. ASSUME NEW r \in Root, Resume(r) PROVE QueueInv'
  <2>1. UNCHANGED <<clearing, draining, stops>>
    BY <1>2 DEF Resume
  <2> QED BY <1>2, <2>1, ResumeOutcome, OneQueueInv
<1>3. ASSUME NEW q \in Queue, Settle(q) PROVE QueueInv'
  <2>1. UNCHANGED <<clearing, draining, stops>> /\ waiting' \subseteq Queue \X Queue
    BY <1>3 DEF Settle, QueueInv, QueuesOK
  <2> QED BY <1>3, <2>1, SettleOutcome, OneQueueInv
<1>4. ASSUME NEW pair \in waiting, ScheduleWaiting(pair[1], pair[2]) PROVE QueueInv'
  <2>1. UNCHANGED <<clearing, draining, stops>>
    BY <1>4 DEF ScheduleWaiting
  <2>2. waiting' \subseteq Queue \X Queue
    BY <1>4, ScheduleWaitingOutcome
  <2>3. CASE UNCHANGED <<queues, roots>>
    BY <2>1, <2>2, <2>3
    DEF QueueInv, QueuesOK, CurrentInUse, WorkersAttached, ClearingRetired, StopsWait
  <2>4. CASE ~UNCHANGED <<queues, roots>>
    BY <1>4, <2>1, <2>2, <2>4, ScheduleWaitingOutcome, OneQueueInv
  <2> QED BY <2>3, <2>4
<1>5. CASE UNCHANGED vars
  BY <1>5
  DEF vars, QueueInv, QueuesOK, CurrentInUse, WorkersAttached, ClearingRetired, StopsWait
<1> QED BY <1>1, <1>2, <1>3, <1>4, <1>5, ClearInv, FinishClearingInv, StopSessionInv DEF Next

THEOREM InvariantHolds == Spec => []QueueInv
BY QueueInit, QueueStep, PTL DEF Spec

LEMMA InvOneDrain == QueueInv => OneDrain
BY ConstantsAssumption DEF QueueInv, WorkersAttached, OneDrain, Workers

(***************************************************************************)
(* Two deltas of one folder are never processed at the same time.          *)
(***************************************************************************)
THEOREM OneDrainPerFolder == Spec => []OneDrain
BY InvariantHolds, InvOneDrain, PTL

LEMMA InvStopAfterDrain == QueueInv => StopAfterDrain
<1> SUFFICES ASSUME QueueInv, NEW r \in Root, MayStop(r), NEW q \in Workers(r), queues[q].aborted
             PROVE  FALSE
  BY DEF StopAfterDrain
<1>1. q \in Queue /\ queues[q].working # None /\ queues[q].root = r
  BY DEF Workers
<1>2. roots[r] # q
  BY <1>1, ConstantsAssumption DEF QueueInv, CurrentInUse
<1>3. clearing[r] = q /\ q # None
  BY <1>1, <1>2, ConstantsAssumption DEF QueueInv, WorkersAttached
<1>4. q \in draining /\ stops[r].after = q
  BY <1>3 DEF QueueInv, ClearingRetired, StopsWait, MayStop
<1> QED BY <1>4 DEF MayStop

(***************************************************************************)
(* The native session of a closed folder is stopped only when no cleared   *)
(* delta of the folder is being processed.                                 *)
(***************************************************************************)
THEOREM StopsAfterDrain == Spec => []StopAfterDrain
BY InvariantHolds, InvStopAfterDrain, PTL

-----------------------------------------------------------------------------
(* The queue objects as a channel *)

\* The worker of a folder is its only busy queue object.
LEMMA BusyWorker ==
    ASSUME OneDrain, NEW q \in Queue, queues[q].working # None, queues[q].root \in Root
    PROVE  Busy[queues[q].root] = [delta |-> queues[q].working, dropped |-> queues[q].aborted]
<1>1. Workers(queues[q].root) = {q}
  BY DEF OneDrain, Workers
<1> QED BY <1>1 DEF Busy

LEMMA BusyNobody ==
    ASSUME NEW r \in Root, \A q \in Queue : queues[q].root = r => queues[q].working = None
    PROVE  Busy[r] = None
<1>1. Workers(r) = {}
  BY DEF Workers
<1> QED BY <1>1 DEF Busy

LEMMA OneUpdate ==
    ASSUME NEW f, NEW g, NEW r \in Root,
           f = [s \in Root |-> f[s]], g = [s \in Root |-> g[s]],
           \A s \in Root \ {r} : g[s] = f[s]
    PROVE  g = [f EXCEPT ![r] = g[r]]
OBVIOUS

\* What a step that changes one queue object does to the channel of its folder.
ChannelChange(q, r, new, x) ==
    /\ x = None => /\ Chan' = [Chan EXCEPT ![r] = <<>>]
                   /\ Held' = [Held EXCEPT ![r] = FALSE]
    /\ x # None => /\ Chan' = [Chan EXCEPT ![r] = queues'[x].items]
                   /\ Held' = [Held EXCEPT ![r] = queues'[x].paused]
    /\ new.working = None /\ queues[q].working = None => Busy' = Busy
    /\ new.working # None =>
          Busy' = [Busy EXCEPT ![r] = [delta |-> new.working, dropped |-> new.aborted]]
    /\ queues[q].working # None =>
          Busy[r] = [delta |-> queues[q].working, dropped |-> queues[q].aborted]
    /\ queues[q].working # None /\ new.working = None =>
          Busy' = [Busy EXCEPT ![r] = None]

LEMMA OneQueueChannel ==
    ASSUME QueueInv, QueueInv', NEW q \in Queue, NEW r \in Root, NEW new, NEW x,
           OneQueue(q, r, new, x)
    PROVE  ChannelChange(q, r, new, x)
<1> USE DEF OneQueue
<1>1. /\ queues'[q] = new /\ \A p \in Queue \ {q} : queues'[p] = queues[p]
      /\ roots'[r] = x /\ \A s \in Root \ {r} : roots'[s] = roots[s]
  BY DEF QueueInv, QueuesOK
<1>2. \A s \in Root : roots[s] # None => roots[s] \in Queue
  BY DEF QueueInv, QueuesOK
<1>3. \A s \in Root \ {r} : Chan'[s] = Chan[s] /\ Held'[s] = Held[s]
  BY <1>1, <1>2 DEF Chan, Held
<1>4. /\ x = None => Chan'[r] = <<>> /\ Held'[r] = FALSE
      /\ x # None => Chan'[r] = queues'[x].items /\ Held'[r] = queues'[x].paused
  <2>1. x # None => queues'[x].paused \in BOOLEAN
    BY <1>1 DEF QueueInv, QueuesOK, RootQueue
  <2> QED BY <1>1, <2>1 DEF Chan, Held
<1>5. Chan' = [Chan EXCEPT ![r] = Chan'[r]] /\ Held' = [Held EXCEPT ![r] = Held'[r]]
  <2>1. /\ Chan' = [s \in Root |-> Chan'[s]] /\ Chan = [s \in Root |-> Chan[s]]
        /\ Held' = [s \in Root |-> Held'[s]] /\ Held = [s \in Root |-> Held[s]]
    BY DEF Chan, Held
  <2> QED BY <1>3, <2>1, OneUpdate
<1>6. /\ x = None => /\ Chan' = [Chan EXCEPT ![r] = <<>>]
                     /\ Held' = [Held EXCEPT ![r] = FALSE]
      /\ x # None => /\ Chan' = [Chan EXCEPT ![r] = queues'[x].items]
                     /\ Held' = [Held EXCEPT ![r] = queues'[x].paused]
  BY <1>4, <1>5
<1>7. OneDrain /\ OneDrain'
  <2>1. QueueInv' => OneDrain'
    BY ConstantsAssumption DEF QueueInv, WorkersAttached, OneDrain, Workers
  <2> QED BY <2>1, InvOneDrain
<1>8. \A s \in Root \ {r} : Workers(s)' = Workers(s) /\ q \notin Workers(s)
  BY <1>1 DEF Workers
<1>9. \A s \in Root \ {r} : Busy'[s] = Busy[s]
  <2> TAKE s \in Root \ {r}
  <2>1. CASE Workers(s) = {}
    BY <2>1, <1>8 DEF Busy
  <2>2. CASE Workers(s) # {}
    <3>1. (CHOOSE p \in Workers(s) : TRUE) \in Workers(s)
      BY <2>2
    <3>2. queues'[CHOOSE p \in Workers(s) : TRUE] = queues[CHOOSE p \in Workers(s) : TRUE]
      BY <1>1, <1>8, <3>1 DEF Workers
    <3> QED BY <2>2, <1>8, <3>2 DEF Busy
  <2> QED BY <2>1, <2>2
<1>10. queues[q].working # None =>
          Busy[r] = [delta |-> queues[q].working, dropped |-> queues[q].aborted]
  BY <1>7, BusyWorker
<1>11. ASSUME new.working # None
       PROVE  Busy'[r] = [delta |-> new.working, dropped |-> new.aborted]
  <2>1. Workers(r)' = {q}
    BY <1>1, <1>7, <1>11 DEF OneDrain, Workers
  <2> QED BY <2>1, <1>1 DEF Busy
<1>12. ASSUME queues[q].working # None, new.working = None
       PROVE  Busy'[r] = None
  <2>1. Workers(r)' = {}
    BY <1>1, <1>7, <1>12 DEF OneDrain, Workers
  <2> QED BY <2>1 DEF Busy
<1>13. ASSUME queues[q].working = None, new.working = None
       PROVE  Busy'[r] = Busy[r]
  <2>1. Workers(r)' = Workers(r) /\ q \notin Workers(r)
    BY <1>1, <1>13 DEF Workers
  <2>2. CASE Workers(r) = {}
    BY <2>1, <2>2 DEF Busy
  <2>3. CASE Workers(r) # {}
    <3>1. (CHOOSE p \in Workers(r) : TRUE) \in Workers(r)
      BY <2>3
    <3>2. queues'[CHOOSE p \in Workers(r) : TRUE] = queues[CHOOSE p \in Workers(r) : TRUE]
      BY <1>1, <2>1, <3>1 DEF Workers
    <3> QED BY <2>1, <2>3, <3>2 DEF Busy
  <2> QED BY <2>2, <2>3
<1>14. Busy' = [Busy EXCEPT ![r] = Busy'[r]]
  <2>1. Busy' = [s \in Root |-> Busy'[s]] /\ Busy = [s \in Root |-> Busy[s]]
    BY DEF Busy
  <2> QED BY <1>9, <2>1, OneUpdate
<1>15. \A v : Busy'[r] = v => Busy' = [Busy EXCEPT ![r] = v]
  BY <1>14
<1>16. Busy'[r] = Busy[r] => Busy' = Busy
  <2>1. Busy' = [s \in Root |-> Busy'[s]] /\ Busy = [s \in Root |-> Busy[s]]
    BY DEF Busy
  <2> QED BY <1>9, <2>1
<1> QED BY <1>6, <1>10, <1>11, <1>12, <1>13, <1>15, <1>16 DEF ChannelChange

\* Scheduling a drain leaves the channel as the queue object's new state says, or begins
\* its first delta.
LEMMA ScheduledChannel ==
    ASSUME QueueInv, QueueInv', NEW q \in Queue, NEW r \in Root, NEW state, NEW new, NEW x,
           Drainable(q, r, state), OneQueue(q, r, new, x), Scheduled(q, r, state, new, x)
    PROVE  \/ /\ Chan' = [Chan EXCEPT ![r] = state.items]
              /\ Held' = [Held EXCEPT ![r] = state.paused]
              /\ Busy' = Busy
           \/ /\ Busy[r] = None /\ ~state.paused /\ state.items # <<>>
              /\ Chan' = [Chan EXCEPT ![r] = Tail(state.items)]
              /\ Held' = [Held EXCEPT ![r] = state.paused]
              /\ Busy' = [Busy EXCEPT ![r] = [delta |-> Head(state.items), dropped |-> FALSE]]
<1>1. /\ state \in RootQueue /\ ~state.aborted /\ state.working = queues[q].working
      /\ q # None
  BY ConstantsAssumption DEF Drainable
<1>2. queues'[q] = new
  BY DEF OneQueue, QueueInv, QueuesOK
<1>6. ChannelChange(q, r, new, x)
  BY OneQueueChannel
<1>3. CASE new = state /\ x = q
  <2>1. Chan' = [Chan EXCEPT ![r] = state.items] /\ Held' = [Held EXCEPT ![r] = state.paused]
    <3>1. x # None /\ queues'[x] = state
      BY <1>1, <1>2, <1>3
    <3> QED BY <1>6, <3>1 DEF ChannelChange
  <2>2. CASE state.working = None
    BY <1>6, <1>1, <1>3, <2>1, <2>2 DEF ChannelChange
  <2>3. CASE state.working # None
    <3>1. ~queues[q].aborted
      BY <1>1, <2>3 DEF Drainable, QueueInv, CurrentInUse
    <3>2. Busy[r] = [delta |-> state.working, dropped |-> FALSE]
      <4>1. Busy[r] = [delta |-> state.working, dropped |-> queues[q].aborted]
        BY <1>6, <1>1, <2>3 DEF ChannelChange
      <4>2. queues[q].aborted = FALSE
        BY <3>1 DEF QueueInv, QueuesOK, RootQueue
      <4> QED BY <4>1, <4>2
    <3>3. Busy' = [Busy EXCEPT ![r] = [delta |-> state.working, dropped |-> FALSE]]
      <4>1. Busy' = [Busy EXCEPT ![r] = [delta |-> state.working, dropped |-> state.aborted]]
        BY <1>6, <1>3, <2>3 DEF ChannelChange
      <4>2. state.aborted = FALSE
        BY <1>1 DEF RootQueue
      <4> QED BY <4>1, <4>2
    <3>4. Busy' = [Busy EXCEPT ![r] = Busy[r]]
      BY <3>2, <3>3
    <3>5. Busy' = Busy
      BY <3>4 DEF Busy
    <3> QED BY <2>1, <3>5
  <2> QED BY <2>2, <2>3
<1>4. CASE /\ state.working = None /\ ~state.paused /\ state.items # <<>> /\ clearing[r] = None
           /\ new = [state EXCEPT !.working = Head(state.items), !.items = Tail(state.items)]
           /\ x = q
  <2>1. Head(state.items) \in Delta
    BY <1>1, <1>4, TakeNext DEF RootQueue
  <2>2. /\ new.working = Head(state.items) /\ new.working # None /\ ~new.aborted
        /\ new.items = Tail(state.items) /\ new.paused = state.paused
        /\ new.aborted = FALSE
    BY <1>1, <1>4, <2>1, ConstantsAssumption DEF RootQueue
  <2>3. \A p \in Queue : queues[p].root = r => queues[p].working = None
    <3> TAKE p \in Queue
    <3> SUFFICES ASSUME queues[p].root = r, queues[p].working # None PROVE FALSE
      OBVIOUS
    <3>1. roots[r] = p
      BY <1>1, <1>4, ConstantsAssumption DEF QueueInv, WorkersAttached
    <3>2. p = q
      BY <3>1, ConstantsAssumption DEF Drainable
    <3> QED BY <1>1, <1>4, <3>2
  <2>4. Busy[r] = None
    BY <2>3, BusyNobody
  <2>5. Busy' = [Busy EXCEPT ![r] = [delta |-> Head(state.items), dropped |-> FALSE]]
    <3>1. Busy' = [Busy EXCEPT ![r] = [delta |-> new.working, dropped |-> new.aborted]]
      BY <1>6, <2>2 DEF ChannelChange
    <3> QED BY <2>2, <3>1
  <2>6. /\ Chan' = [Chan EXCEPT ![r] = Tail(state.items)]
        /\ Held' = [Held EXCEPT ![r] = state.paused]
    <3>1. x # None /\ queues'[x] = new
      BY <1>1, <1>2, <1>4
    <3>2. /\ Chan' = [Chan EXCEPT ![r] = new.items]
          /\ Held' = [Held EXCEPT ![r] = new.paused]
      BY <1>6, <3>1 DEF ChannelChange
    <3> QED BY <2>2, <3>2
  <2> QED BY <1>4, <2>4, <2>5, <2>6
<1>5. CASE /\ state.working = None /\ ~state.paused /\ state.items = <<>>
           /\ new = state /\ x = None
  <2>1. Chan' = [Chan EXCEPT ![r] = <<>>] /\ Held' = [Held EXCEPT ![r] = FALSE]
    BY <1>6, <1>5 DEF ChannelChange
  <2>2. Busy' = Busy
    BY <1>6, <1>1, <1>5 DEF ChannelChange
  <2>3. state.paused = FALSE
    BY <1>1, <1>5 DEF RootQueue
  <2> QED BY <1>5, <2>1, <2>2, <2>3
<1> QED BY <1>3, <1>4, <1>5 DEF Scheduled

-----------------------------------------------------------------------------
(* Every step is a step of the channel *)

ChannelStep == [Channel!Next]_(Channel!vars)

LEMMA ChanFacts ==
    /\ Chan = [s \in Root |-> Chan[s]] /\ Held = [s \in Root |-> Held[s]]
    /\ Busy = [s \in Root |-> Busy[s]]
    /\ \A r \in Root : /\ Chan[r] = IF roots[r] = None THEN <<>> ELSE queues[roots[r]].items
                       /\ Held[r] = (roots[r] # None /\ queues[roots[r]].paused)
BY DEF Chan, Held, Busy

LEMMA SameAt ==
    ASSUME NEW f, NEW r \in Root, NEW v, f = [s \in Root |-> f[s]], f[r] = v
    PROVE  [f EXCEPT ![r] = v] = f
OBVIOUS

LEMMA EnqueueChannel ==
    ASSUME QueueInv, QueueInv', NEW d \in Delta, Enqueue(d)
    PROVE  Channel!Accept(d)
<1> DEFINE r == RootOf[d]
<1>1. PICK q, state, new, x :
          /\ q \in Queue /\ Drainable(q, r, state)
          /\ IF roots[r] = None
             THEN queues[q].working = None /\ state.items = <<d>> /\ ~state.paused
             ELSE /\ roots[r] = q
                  /\ state = [queues[q] EXCEPT !.items = Append(@, d)]
          /\ OneQueue(q, r, new, x) /\ Scheduled(q, r, state, new, x)
  BY EnqueueOutcome
<1>2. r \in Root
  BY ConstantsAssumption
<1>3. state.items = Append(Chan[r], d) /\ state.paused = Held[r]
  <2>1. CASE roots[r] = None
    <3>1. Append(<<>>, d) = <<d>>
      OBVIOUS
    <3>2. state.paused \in BOOLEAN
      BY <1>1 DEF Drainable, RootQueue
    <3> QED BY <1>1, <1>2, <2>1, <3>1, <3>2, ChanFacts
  <2>2. CASE roots[r] # None
    <3>1. queues[q] \in RootQueue
      BY <1>1 DEF QueueInv, QueuesOK
    <3>2. state.items = Append(queues[q].items, d) /\ state.paused = queues[q].paused
      BY <1>1, <2>2, <3>1 DEF RootQueue
    <3>3. Chan[r] = queues[q].items /\ Held[r] = queues[q].paused
      BY <1>1, <1>2, <2>2, <3>1, ChanFacts DEF RootQueue
    <3> QED BY <3>2, <3>3
  <2> QED BY <2>1, <2>2
<1>4. [Held EXCEPT ![r] = state.paused] = Held
  BY <1>2, <1>3, ChanFacts, SameAt
<1> HIDE DEF r
<1>5. \/ Chan' = [Chan EXCEPT ![r] = state.items] /\ Held' = Held /\ Busy' = Busy
      \/ /\ Busy[r] = None /\ ~state.paused /\ state.items # <<>>
         /\ Chan' = [Chan EXCEPT ![r] = Tail(state.items)] /\ Held' = Held
         /\ Busy' = [Busy EXCEPT ![r] = [delta |-> Head(state.items), dropped |-> FALSE]]
  BY <1>1, <1>2, <1>4, ScheduledChannel
<1> QED BY <1>3, <1>5 DEF Channel!Accept, Channel!Idle, Channel!Begin, r

LEMMA ResumeChannel ==
    ASSUME QueueInv, QueueInv', NEW r \in Root, Resume(r)
    PROVE  Channel!Release(r)
<1> DEFINE q == roots[r]
           state == [queues[q] EXCEPT !.paused = FALSE]
<1>1. PICK new, x :
          /\ q \in Queue /\ Drainable(q, r, state)
          /\ OneQueue(q, r, new, x) /\ Scheduled(q, r, state, new, x)
  BY ResumeOutcome
<1>2. queues[q] \in RootQueue /\ q # None
  BY <1>1, ConstantsAssumption DEF QueueInv, QueuesOK
<1>3. state.items = Chan[r] /\ state.paused = FALSE
  BY <1>2, ChanFacts DEF RootQueue
<1>4. [Chan EXCEPT ![r] = state.items] = Chan
  BY <1>3, ChanFacts, SameAt
<1> HIDE DEF state
<1>5. \/ Chan' = Chan /\ Held' = [Held EXCEPT ![r] = FALSE] /\ Busy' = Busy
      \/ /\ Busy[r] = None /\ state.items # <<>>
         /\ Chan' = [Chan EXCEPT ![r] = Tail(state.items)]
         /\ Held' = [Held EXCEPT ![r] = FALSE]
         /\ Busy' = [Busy EXCEPT ![r] = [delta |-> Head(state.items), dropped |-> FALSE]]
  BY <1>1, <1>3, <1>4, ScheduledChannel
<1> QED BY <1>3, <1>5 DEF Channel!Release, Channel!Begin

LEMMA ScheduleWaitingChannel ==
    ASSUME QueueInv, QueueInv', NEW pair \in waiting, ScheduleWaiting(pair[1], pair[2])
    PROVE  ChannelStep
<1> DEFINE q == pair[1]
           r == queues[q].root
<1>1. CASE UNCHANGED <<queues, roots>>
  BY <1>1 DEF ChannelStep, Channel!vars, Chan, Busy, Held, Workers
<1>2. CASE ~UNCHANGED <<queues, roots>>
  <2>1. PICK new, x :
          /\ q \in Queue /\ r \in Root /\ roots[r] = q /\ Drainable(q, r, queues[q])
          /\ OneQueue(q, r, new, x) /\ Scheduled(q, r, queues[q], new, x)
    BY <1>2, ScheduleWaitingOutcome
  <2>2. queues[q] \in RootQueue /\ q # None
    BY <2>1, ConstantsAssumption DEF QueueInv, QueuesOK
  <2>3. queues[q].items = Chan[r] /\ queues[q].paused = Held[r]
    BY <2>1, <2>2, ChanFacts DEF RootQueue
  <2>4. [Chan EXCEPT ![r] = queues[q].items] = Chan /\ [Held EXCEPT ![r] = queues[q].paused] = Held
    <3> HIDE DEF q, r
    <3>1. Chan = [s \in Root |-> Chan[s]] /\ Held = [s \in Root |-> Held[s]]
      BY ChanFacts
    <3>2. [Chan EXCEPT ![r] = queues[q].items] = Chan
      BY <2>1, <2>3, <3>1, SameAt
    <3>3. [Held EXCEPT ![r] = queues[q].paused] = Held
      BY <2>1, <2>3, <3>1, SameAt
    <3> QED BY <3>2, <3>3
  <2>5. \/ Chan' = Chan /\ Held' = Held /\ Busy' = Busy
        \/ Channel!Start(r)
    <3> HIDE DEF r
    <3> QED BY <2>1, <2>3, <2>4, ScheduledChannel DEF Channel!Start, Channel!Idle, Channel!Begin
  <2> QED BY <2>1, <2>5 DEF ChannelStep, Channel!Next, Channel!vars
<1> QED BY <1>1, <1>2

LEMMA SettleChannel ==
    ASSUME QueueInv, QueueInv', NEW q \in Queue, Settle(q)
    PROVE  \E r \in Root : Channel!Finish(r) \/ Channel!FinishAndBegin(r)
<1> DEFINE state == queues[q]
           r == state.root
<1>1. PICK new, x : OneQueue(q, r, new, x) /\ Settled(q, r, new, x)
  BY SettleOutcome
<1>2. state \in RootQueue /\ r \in Root /\ state.working # None /\ ~state.paused
  BY DEF QueueInv, QueuesOK, RootQueue, WorkersAttached, Settle
<1>3. ChannelChange(q, r, new, x)
  BY <1>1, <1>2, OneQueueChannel
<1>4. queues'[q] = new /\ (\A p \in Queue \ {q} : queues'[p] = queues[p]) /\ q # None
  BY <1>1, ConstantsAssumption DEF OneQueue, QueueInv, QueuesOK
<1>5. Busy[r] = [delta |-> state.working, dropped |-> state.aborted]
  BY <1>2, <1>3 DEF ChannelChange
<1>6. Busy[r] # None
  <2>1. [delta |-> state.working, dropped |-> state.aborted] \in [delta : Delta, dropped : BOOLEAN]
    BY <1>2 DEF RootQueue
  <2> QED BY <1>5, <2>1, ConstantsAssumption
<1>7. Busy[r].dropped = state.aborted
  BY <1>5
<1> SUFFICES Channel!Finish(r) \/ Channel!FinishAndBegin(r)
  BY <1>2
<1>8. CASE state.aborted /\ new = [state EXCEPT !.working = None] /\ x = roots[r]
  <2>1. x # q
    BY <1>2, <1>4, <1>8 DEF QueueInv, CurrentInUse
  <2>2. new.working = None
    BY <1>2, <1>8 DEF RootQueue
  <2>3. Busy' = [Busy EXCEPT ![r] = None]
    BY <1>2, <1>3, <2>2 DEF ChannelChange
  <2>4. Chan' = [Chan EXCEPT ![r] = Chan[r]] /\ Held' = [Held EXCEPT ![r] = Held[r]]
    <3>1. CASE x = None
      BY <1>2, <1>3, <1>8, <3>1, ChanFacts DEF ChannelChange
    <3>2. CASE x # None
      <4>1. x \in Queue /\ queues'[x] = queues[x] /\ queues[x].paused \in BOOLEAN
        BY <1>2, <1>4, <1>8, <2>1, <3>2 DEF QueueInv, QueuesOK, RootQueue
      <4>2. Chan[r] = queues[x].items /\ Held[r] = queues[x].paused
        BY <1>2, <1>8, <3>2, <4>1, ChanFacts
      <4> QED BY <1>3, <3>2, <4>1, <4>2 DEF ChannelChange
    <3> QED BY <3>1, <3>2
  <2>5. Chan' = Chan
    BY <1>2, <2>4, ChanFacts, SameAt
  <2> QED BY <1>6, <1>7, <1>8, <2>3, <2>4, <2>5 DEF Channel!Finish
<1>9. ASSUME ~state.aborted, roots[r] = q PROVE Chan[r] = state.items /\ Held[r] = FALSE
  BY <1>2, <1>4, <1>9, ChanFacts
<1>10. CASE /\ ~state.aborted /\ roots[r] = q
            /\ new = [state EXCEPT !.paused = TRUE, !.working = None] /\ x = q
  <2>1. /\ new.working = None /\ new.items = state.items /\ new.paused = TRUE
        /\ x # None /\ queues'[x] = new
    BY <1>2, <1>4, <1>10 DEF RootQueue
  <2>2. /\ Busy' = [Busy EXCEPT ![r] = None] /\ Held' = [Held EXCEPT ![r] = TRUE]
        /\ Chan' = [Chan EXCEPT ![r] = Chan[r]]
    BY <1>2, <1>3, <1>9, <1>10, <2>1 DEF ChannelChange
  <2>3. Chan' = Chan
    BY <1>2, <2>2, ChanFacts, SameAt
  <2> QED BY <1>6, <1>7, <1>10, <2>2, <2>3 DEF Channel!Finish
<1>11. CASE /\ ~state.aborted /\ roots[r] = q /\ state.items = <<>>
            /\ new = [state EXCEPT !.working = None] /\ x = None
  <2>1. new.working = None
    BY <1>2, <1>11 DEF RootQueue
  <2>2. /\ Busy' = [Busy EXCEPT ![r] = None] /\ Held' = [Held EXCEPT ![r] = FALSE]
        /\ Chan' = [Chan EXCEPT ![r] = Chan[r]]
    BY <1>2, <1>3, <1>9, <1>11, <2>1 DEF ChannelChange
  <2>3. Chan' = Chan
    BY <1>2, <2>2, ChanFacts, SameAt
  <2> QED BY <1>6, <1>7, <1>11, <2>2, <2>3 DEF Channel!Finish
<1>12. CASE /\ ~state.aborted /\ roots[r] = q /\ state.items # <<>>
            /\ new = [state EXCEPT !.working = Head(state.items), !.items = Tail(state.items)]
            /\ x = q
  <2>1. Head(state.items) \in Delta
    BY <1>2, <1>12, TakeNext DEF RootQueue
  <2>2. /\ new.working = Head(state.items) /\ new.working # None
        /\ new.items = Tail(state.items) /\ new.paused = FALSE /\ new.aborted = FALSE
        /\ x # None /\ queues'[x] = new
    BY <1>2, <1>4, <1>12, <2>1, ConstantsAssumption DEF RootQueue
  <2>3. Busy' = [Busy EXCEPT ![r] = [delta |-> new.working, dropped |-> new.aborted]]
    BY <1>3, <2>2 DEF ChannelChange
  <2>4. /\ Held' = [Held EXCEPT ![r] = Held[r]]
        /\ Chan' = [Chan EXCEPT ![r] = Tail(Chan[r])]
    BY <1>3, <1>9, <1>12, <2>2 DEF ChannelChange
  <2>5. Held' = Held
    BY <1>2, <2>4, ChanFacts, SameAt
  <2>6. Channel!Begin(r, Chan[r])
    BY <1>9, <1>12, <2>2, <2>3, <2>4 DEF Channel!Begin
  <2> QED BY <1>6, <1>7, <1>9, <1>12, <2>5, <2>6 DEF Channel!FinishAndBegin
<1> HIDE DEF r, state
<1> QED BY <1>1, <1>8, <1>10, <1>11, <1>12 DEF Settled, state

LEMMA ClearChannel ==
    ASSUME QueueInv, QueueInv', NEW r \in Root, ClearRoot(r)
    PROVE  Channel!Drop(r)
<1> DEFINE q == roots[r]
           retired == [queues[q] EXCEPT !.aborted = TRUE, !.items = <<>>, !.paused = FALSE]
<1>1. /\ roots' = [roots EXCEPT ![r] = None]
      /\ IF q = None THEN queues' = queues ELSE queues' = [queues EXCEPT ![q] = retired]
  BY DEF ClearRoot, QueueInv, QueuesOK, RootQueue
<1>2. q # None => /\ q \in Queue /\ queues[q] \in RootQueue
                  /\ queues[q].root = r /\ ~queues[q].aborted
  BY DEF QueueInv, QueuesOK, CurrentInUse
<1>3. q # None => /\ retired.root = r /\ retired.aborted = TRUE
                  /\ retired.working = queues[q].working
  BY <1>2 DEF RootQueue
<1> HIDE DEF retired
<1>4. \A p \in Queue : /\ queues'[p].working = queues[p].working
                       /\ queues'[p].root = queues[p].root
                       /\ queues[p].root # r => queues'[p] = queues[p]
  BY <1>1, <1>2, <1>3 DEF QueueInv, QueuesOK
<1>5. \A s \in Root : Workers(s)' = Workers(s)
  BY <1>4 DEF Workers
<1>6. \A p \in Workers(r) : queues'[p].aborted = TRUE
  <2> TAKE p \in Workers(r)
  <2>1. p \in Queue /\ queues[p].working # None /\ queues[p].root = r
        /\ queues[p].aborted \in BOOLEAN
    BY DEF Workers, QueueInv, QueuesOK, RootQueue
  <2>2. CASE p = q
    BY <2>1, <2>2, <1>1, <1>2, <1>3, ConstantsAssumption DEF QueueInv, QueuesOK
  <2>3. CASE p # q
    <3>1. queues[p].aborted = TRUE
      BY <2>1, <2>3 DEF QueueInv, WorkersAttached
    <3>2. queues'[p] = queues[p]
      BY <2>1, <2>3, <1>1, <1>2 DEF QueueInv, QueuesOK
    <3> QED BY <3>1, <3>2
  <2> QED BY <2>2, <2>3
<1>7. Chan' = [Chan EXCEPT ![r] = <<>>] /\ Held' = [Held EXCEPT ![r] = FALSE]
  <2>1. /\ Chan' = [s \in Root |-> Chan'[s]] /\ Chan = [s \in Root |-> Chan[s]]
        /\ Held' = [s \in Root |-> Held'[s]] /\ Held = [s \in Root |-> Held[s]]
    BY DEF Chan, Held
  <2>2. Chan'[r] = <<>> /\ Held'[r] = FALSE
    BY <1>1 DEF Chan, Held, QueueInv, QueuesOK
  <2>3. ASSUME NEW s \in Root \ {r}
        PROVE  Chan'[s] = Chan[s] /\ Held'[s] = Held[s]
    <3>1. roots'[s] = roots[s] /\ (roots[s] # None => roots[s] \in Queue)
      BY <1>1 DEF QueueInv, QueuesOK
    <3>2. roots[s] # None => queues[roots[s]].root # r
      BY DEF QueueInv, CurrentInUse
    <3>3. roots[s] # None => queues'[roots[s]] = queues[roots[s]]
      BY <1>4, <3>1, <3>2
    <3> QED BY <3>1, <3>3 DEF Chan, Held
  <2>4. Chan' = [Chan EXCEPT ![r] = Chan'[r]] /\ Held' = [Held EXCEPT ![r] = Held'[r]]
    BY <2>1, <2>3, OneUpdate
  <2> QED BY <2>2, <2>4
<1>8. \A s \in Root \ {r} : Busy'[s] = Busy[s]
  <2> TAKE s \in Root \ {r}
  <2>1. CASE Workers(s) = {}
    BY <2>1, <1>5 DEF Busy
  <2>2. CASE Workers(s) # {}
    <3>1. (CHOOSE p \in Workers(s) : TRUE) \in Workers(s)
      BY <2>2
    <3>2. queues'[CHOOSE p \in Workers(s) : TRUE] = queues[CHOOSE p \in Workers(s) : TRUE]
      BY <1>4, <3>1 DEF Workers
    <3> QED BY <2>2, <1>5, <3>2 DEF Busy
  <2> QED BY <2>1, <2>2
<1>9. Busy' = [Busy EXCEPT ![r] = Busy'[r]]
  <2>1. Busy' = [s \in Root |-> Busy'[s]] /\ Busy = [s \in Root |-> Busy[s]]
    BY DEF Busy
  <2> QED BY <1>8, <2>1, OneUpdate
<1>10. Busy'[r] = IF Busy[r] = None THEN None ELSE [delta |-> Busy[r].delta, dropped |-> TRUE]
  <2>1. CASE Workers(r) = {}
    BY <2>1, <1>5 DEF Busy
  <2>2. CASE Workers(r) # {}
    <3> DEFINE p == CHOOSE p \in Workers(r) : TRUE
    <3>1. p \in Workers(r)
      BY <2>2
    <3>2. p \in Queue /\ queues[p].working \in Delta /\ queues[p].aborted \in BOOLEAN
      BY <3>1 DEF Workers, QueueInv, QueuesOK, RootQueue
    <3>3. Busy[r] = [delta |-> queues[p].working, dropped |-> queues[p].aborted]
      BY <2>2 DEF Busy
    <3>4. Busy'[r] = [delta |-> queues'[p].working, dropped |-> queues'[p].aborted]
      BY <2>2, <1>5 DEF Busy
    <3>5. queues'[p].working = queues[p].working /\ queues'[p].aborted = TRUE
      BY <1>4, <1>6, <3>1, <3>2
    <3> HIDE DEF p
    <3>6. Busy[r] # None
      BY <3>2, <3>3, ConstantsAssumption
    <3>7. [delta |-> Busy[r].delta, dropped |-> TRUE]
              = [delta |-> queues[p].working, dropped |-> TRUE]
      BY <3>3
    <3>8. Busy'[r] = [delta |-> queues[p].working, dropped |-> TRUE]
      BY <3>4, <3>5
    <3> QED BY <3>6, <3>7, <3>8
  <2> QED BY <2>1, <2>2
<1>11. Busy' = [Busy EXCEPT ![r] = IF Busy[r] = None THEN None
                                   ELSE [delta |-> Busy[r].delta, dropped |-> TRUE]]
  BY <1>9, <1>10
<1> QED BY <1>7, <1>11 DEF Channel!Drop

LEMMA ChannelInit == Init => Channel!Init
<1> SUFFICES ASSUME Init PROVE Channel!Init
  OBVIOUS
<1>1. \A q \in Queue : queues[q].working = None
  BY DEF Init, NewQueue
<1>2. \A r \in Root : roots[r] = None
  BY DEF Init
<1> QED BY <1>1, <1>2 DEF Channel!Init, Chan, Busy, Held, Workers

LEMMA ChannelNext == QueueInv /\ QueueInv' /\ [Next]_vars => ChannelStep
<1> SUFFICES ASSUME QueueInv, QueueInv', [Next]_vars PROVE ChannelStep
  OBVIOUS
<1>1. ASSUME NEW d \in Delta, Enqueue(d) PROVE ChannelStep
  BY <1>1, EnqueueChannel DEF ChannelStep, Channel!Next
<1>2. ASSUME NEW r \in Root, Resume(r) PROVE ChannelStep
  BY <1>2, ResumeChannel DEF ChannelStep, Channel!Next
<1>3. ASSUME NEW r \in Root, ClearRoot(r) PROVE ChannelStep
  BY <1>3, ClearChannel DEF ChannelStep, Channel!Next
<1>4. ASSUME NEW q \in Queue, Settle(q) PROVE ChannelStep
  BY <1>4, SettleChannel DEF ChannelStep, Channel!Next
<1>5. ASSUME UNCHANGED <<queues, roots>> PROVE ChannelStep
  BY <1>5 DEF ChannelStep, Channel!vars, Chan, Busy, Held, Workers
<1>6. ASSUME NEW r \in Root, StopSession(r) PROVE UNCHANGED <<queues, roots>>
  BY <1>6 DEF StopSession
<1>7. ASSUME NEW q \in Queue, FinishClearing(q) PROVE UNCHANGED <<queues, roots>>
  BY <1>7 DEF FinishClearing
<1>8. UNCHANGED vars => UNCHANGED <<queues, roots>>
  BY DEF vars
<1> QED BY <1>1, <1>2, <1>3, <1>4, <1>5, <1>6, <1>7, <1>8, ScheduleWaitingChannel DEF Next

(***************************************************************************)
(* The queue objects of a folder, retired and replaced, implement one FIFO *)
(* channel with one worker that reviews hold and clearing drops.           *)
(***************************************************************************)
THEOREM QueuesImplementChannel == Spec => ImplementsChannel
<1>1. QueueInv /\ [Next]_vars => QueueInv'
  BY QueueStep
<1>2. QueueInv /\ QueueInv' /\ [Next]_vars => [Channel!Next]_(Channel!vars)
  BY ChannelNext DEF ChannelStep
<1> QED BY <1>1, <1>2, ChannelInit, QueueInit, PTL DEF Spec, Channel!Spec, ImplementsChannel

-----------------------------------------------------------------------------
(* Induction *)

\* A set of numbers has a least one; the library states it for a relation.
LEMMA LeastNumber ==
  ASSUME NEW T \in SUBSET Nat, T # {}
  PROVE  \E n \in T : \A m \in T : n <= m
<1> DEFINE R == {ss \in Nat \X Nat : ss[1] < ss[2]}
<1>1. OpToRel(<, Nat) = R
  BY Zenon DEF OpToRel
<1>2. IsWellFoundedOn(R, Nat)
  BY <1>1, NatLessThanWellFounded, Zenon
<1>3. \E x \in T : \A y \in T : <<y, x>> \notin R
  <2> HIDE DEF R
  <2> QED
    BY <1>2, WFMin, Zenon
<1>4. PICK x \in T : \A y \in T : <<y, x>> \notin R
  BY <1>3
<1>5. ASSUME NEW m \in T PROVE x <= m
  <2>1. <<m, x>> \in R <=> m < x
    OBVIOUS
  <2>2. x \in Nat /\ m \in Nat
    OBVIOUS
  <2> QED
    BY <1>4, <2>1, <2>2
<1> QED
  BY <1>4, <1>5

\* Induction over the numbers, with the set of those it holds for.
LEMMA Induction ==
  ASSUME NEW P, 0 \in P, \A n \in Nat : n \in P => n + 1 \in P
  PROVE  Nat \subseteq P
<1> SUFFICES ASSUME Nat \ P # {} PROVE FALSE
  OBVIOUS
<1>1. PICK n \in Nat \ P : \A m \in Nat \ P : n <= m
  <2>1. Nat \ P \in SUBSET Nat
    OBVIOUS
  <2> QED
    BY <2>1, LeastNumber, Zenon
<1>2. n # 0 /\ n - 1 \in Nat /\ n - 1 + 1 = n
  BY <1>1
<1>3. n - 1 \in P
  BY <1>1, <1>2
<1> QED
  BY <1>1, <1>2, <1>3

LEMMA MaxIs ==
  ASSUME NEW n \in Nat, NEW s \in SUBSET (1..n), s # {}
  PROVE  Max(s) \in s /\ \A i \in s : Max(s) >= i
<1> DEFINE T == {n - i : i \in s}
<1>1. T \in SUBSET Nat /\ T # {}
  <2>1. \A i \in s : i \in 1..n /\ n - i \in Nat
    OBVIOUS
  <2> QED
    BY <2>1
<1>2. PICK k \in T : \A m \in T : k <= m
  BY <1>1, LeastNumber
<1>3. PICK j \in s : k = n - j
  BY <1>2
<1>4. \A i \in s : j >= i
  BY <1>2, <1>3
<1> QED
  BY <1>3, <1>4, Zenon DEF Max

LEMMA MaxInterval ==
  ASSUME NEW k \in Nat \ {0}
  PROVE  Max(1..k) = k /\ 1..k # {} /\ (1..k) \ {k} = 1..(k - 1)
<1>1. k \in 1..k /\ (1..k) \ {k} = 1..(k - 1)
  OBVIOUS
<1>2. Max(1..k) \in 1..k /\ \A i \in 1..k : Max(1..k) >= i
  BY <1>1, MaxIs
<1> QED
  BY <1>1, <1>2

-----------------------------------------------------------------------------
(* Folds from the left *)

\* The solutions of the recursion FoldLeft is defined by, over every subset
\* of the sequence's places, for an operation given as a function.
Fold(h, seq, base, F) ==
  h = [s \in SUBSET (DOMAIN seq) |->
         IF s = {} THEN base ELSE F[<<h[s \ {Max(s)}], seq[Max(s)]>>]]

\* There is one, so that the one FoldLeft chooses is one.
LEMMA FoldExists ==
  ASSUME NEW A, NEW T, NEW F \in [A \X T -> A], NEW base \in A, NEW seq \in Seq(T)
  PROVE  \E h \in [SUBSET (DOMAIN seq) -> A] : Fold(h, seq, base, F)
<1> DEFINE Part(n, h) ==
              \A s \in SUBSET (1..n) :
                h[s] = IF s = {} THEN base ELSE F[<<h[s \ {Max(s)}], seq[Max(s)]>>]
            P == {n \in Nat : n <= Len(seq) => \E h \in [SUBSET (1..n) -> A] : Part(n, h)}
<1>1. 0 \in P
  <2>1. [s \in SUBSET (1..0) |-> base] \in [SUBSET (1..0) -> A]
    OBVIOUS
  <2>2. \A s \in SUBSET (1..0) : s = {}
    OBVIOUS
  <2>3. Part(0, [s \in SUBSET (1..0) |-> base])
    BY <2>2
  <2> QED
    BY <2>1, <2>3
<1>2. ASSUME NEW n \in Nat, n \in P, n + 1 <= Len(seq)
      PROVE  \E h \in [SUBSET (1..(n + 1)) -> A] : Part(n + 1, h)
  <2>1. PICK g \in [SUBSET (1..n) -> A] : Part(n, g)
    <3>1. n <= Len(seq)
      BY <1>2
    <3> HIDE DEF Part
    <3> QED
      BY <1>2, <3>1
  <2> DEFINE N == n + 1
              h == [s \in SUBSET (1..N) |->
                      IF N \in s THEN F[<<g[s \ {N}], seq[N]>>] ELSE g[s]]
  <2>2. /\ N \in 1..N /\ N \in 1..Len(seq) /\ seq[N] \in T
        /\ \A s \in SUBSET (1..N) : s \ {N} \in SUBSET (1..n)
    BY <1>2
  <2>3. h \in [SUBSET (1..N) -> A]
    <3>1. ASSUME NEW s \in SUBSET (1..N), N \in s PROVE F[<<g[s \ {N}], seq[N]>>] \in A
      BY <2>2
    <3>2. ASSUME NEW s \in SUBSET (1..N), N \notin s PROVE g[s] \in A
      <4>1. s = s \ {N}
        BY <3>2
      <4> QED
        BY <2>2, <4>1
    <3> QED
      BY <3>1, <3>2
  <2>4. ASSUME NEW s \in SUBSET (1..N)
        PROVE  h[s] = IF s = {} THEN base ELSE F[<<h[s \ {Max(s)}], seq[Max(s)]>>]
    <3>1. CASE N \in s
      <4>1. Max(s) = N
        <5>1. N \in Nat /\ s # {} /\ \A i \in s : i \in Nat /\ i <= N
          BY <3>1
        <5> HIDE DEF N
        <5>2. Max(s) \in s /\ \A i \in s : Max(s) >= i
          BY <5>1, MaxIs
        <5>3. Max(s) \in Nat /\ Max(s) <= N /\ Max(s) >= N
          BY <3>1, <5>1, <5>2, Zenon
        <5> QED
          BY <5>1, <5>3
      <4>2. h[s] = F[<<g[s \ {N}], seq[N]>>]
        BY <3>1
      <4>3. h[s \ {N}] = g[s \ {N}]
        BY <2>2
      <4> HIDE DEF h, N
      <4> QED
        BY <3>1, <4>1, <4>2, <4>3
    <3>2. CASE N \notin s
      <4>1. s \in SUBSET (1..n) /\ s \ {Max(s)} \in SUBSET (1..n)
        <5>1. s = s \ {N}
          BY <3>2
        <5>2. s \in SUBSET (1..n)
          BY <2>2, <5>1
        <5> QED
          BY <5>2
      <4>2. h[s] = g[s] /\ h[s \ {Max(s)}] = g[s \ {Max(s)}]
        BY <3>2, <4>1
      <4> HIDE DEF h, N
      <4> QED
        BY <2>1, <4>1, <4>2
    <3> QED
      BY <3>1, <3>2
  <2> HIDE DEF h
  <2> QED
    BY <2>3, <2>4
<1>3. ASSUME NEW n \in Nat, n \in P PROVE n + 1 \in P
  <2>1. n + 1 <= Len(seq) => \E h \in [SUBSET (1..(n + 1)) -> A] : Part(n + 1, h)
    BY <1>2, <1>3
  <2>2. n + 1 \in Nat
    OBVIOUS
  <2> HIDE DEF Part
  <2> QED
    BY <2>1, <2>2, Zenon
<1>4. Nat \subseteq P
  <2> HIDE DEF P
  <2> QED
    BY <1>1, <1>3, Induction
<1>5. Len(seq) \in Nat /\ DOMAIN seq = 1..Len(seq) /\ Len(seq) <= Len(seq)
  OBVIOUS
<1>6. PICK h \in [SUBSET (1..Len(seq)) -> A] : Part(Len(seq), h)
  <2> HIDE DEF Part
  <2> QED
    BY <1>4, <1>5
<1> QED
  BY <1>5, <1>6 DEF Fold

-----------------------------------------------------------------------------
(* The ids of some folders *)

\* The solutions of the recursion OfRoots is defined by.
OfRootsFold(h, ids, rs) ==
    h = [s \in SUBSET (DOMAIN ids) |->
            IF s = {} THEN <<>>
            ELSE IF RootOf[ids[Max(s)]] \in rs THEN Append(h[s \ {Max(s)}], ids[Max(s)])
            ELSE h[s \ {Max(s)}]]

LEMMA OfRootsFoldExists ==
    ASSUME NEW ids \in Seq(Delta), NEW rs
    PROVE  \E h : OfRootsFold(h, ids, rs)
<1> DEFINE F == [pair \in Seq(Delta) \X Delta |->
                    IF RootOf[pair[2]] \in rs THEN Append(pair[1], pair[2]) ELSE pair[1]]
<1>1. F \in [Seq(Delta) \X Delta -> Seq(Delta)]
  <2>1. \A pair \in Seq(Delta) \X Delta : Append(pair[1], pair[2]) \in Seq(Delta)
    BY AppendProperties
  <2> QED BY <2>1
<1>2. <<>> \in Seq(Delta)
  OBVIOUS
<1>3. PICK h \in [SUBSET (DOMAIN ids) -> Seq(Delta)] : Fold(h, ids, <<>>, F)
  <2> HIDE DEF F
  <2> QED BY <1>1, <1>2, FoldExists
<1>4. ASSUME NEW s \in SUBSET (DOMAIN ids), s # {}
      PROVE  F[<<h[s \ {Max(s)}], ids[Max(s)]>>]
                = IF RootOf[ids[Max(s)]] \in rs THEN Append(h[s \ {Max(s)}], ids[Max(s)])
                  ELSE h[s \ {Max(s)}]
  <2>1. Len(ids) \in Nat /\ DOMAIN ids = 1..Len(ids)
    OBVIOUS
  <2>2. Max(s) \in s
    BY <1>4, <2>1, MaxIs
  <2>3. ids[Max(s)] \in Delta /\ h[s \ {Max(s)}] \in Seq(Delta)
    BY <2>2
  <2> QED BY <2>3
<1> HIDE DEF F
<1>5. /\ h = [s \in SUBSET (DOMAIN ids) |-> h[s]]
      /\ \A s \in SUBSET (DOMAIN ids) :
             h[s] = IF s = {} THEN <<>> ELSE F[<<h[s \ {Max(s)}], ids[Max(s)]>>]
  BY <1>3 DEF Fold
<1>6. ASSUME NEW s \in SUBSET (DOMAIN ids)
      PROVE  h[s] = IF s = {} THEN <<>>
                    ELSE IF RootOf[ids[Max(s)]] \in rs
                    THEN Append(h[s \ {Max(s)}], ids[Max(s)])
                    ELSE h[s \ {Max(s)}]
  <2>1. CASE s = {}
    BY <1>5, <2>1
  <2>2. CASE s # {}
    <3>1. h[s] = F[<<h[s \ {Max(s)}], ids[Max(s)]>>]
      BY <1>5, <2>2
    <3> QED BY <1>4, <2>2, <3>1, Zenon
  <2> QED BY <2>1, <2>2
<1> DEFINE G(s) == IF s = {} THEN <<>>
                   ELSE IF RootOf[ids[Max(s)]] \in rs
                   THEN Append(h[s \ {Max(s)}], ids[Max(s)])
                   ELSE h[s \ {Max(s)}]
<1>7. h = [s \in SUBSET (DOMAIN ids) |-> G(s)]
  <2>1. \A s \in SUBSET (DOMAIN ids) : h[s] = G(s)
    BY <1>6
  <2> HIDE DEF G
  <2> QED BY <1>5, <2>1
<1> QED BY <1>7, Zenon DEF OfRootsFold

\* g holds what OfRoots keeps of the ids up to each place.
KeptUpTo(g, ids, rs) ==
    /\ g[0] = <<>>
    /\ \A k \in 1..Len(ids) :
           g[k] = IF RootOf[ids[k]] \in rs THEN Append(g[k - 1], ids[k]) ELSE g[k - 1]

LEMMA OfRootsUpTo ==
    ASSUME NEW ids \in Seq(Delta), NEW rs
    PROVE  \E g : KeptUpTo(g, ids, rs) /\ OfRoots(ids, rs) = g[Len(ids)]
<1> DEFINE h == CHOOSE h : OfRootsFold(h, ids, rs)
<1>1. OfRoots(ids, rs) = h[DOMAIN ids]
  BY DEF OfRoots, FoldLeft, MapThenFoldSet, OfRootsFold
<1>2. OfRootsFold(h, ids, rs)
  BY OfRootsFoldExists
<1> HIDE DEF h
<1>3. Len(ids) \in Nat /\ DOMAIN ids = 1..Len(ids)
  OBVIOUS
<1>4. h[1..0] = <<>>
  <2>1. 1..0 \in SUBSET (DOMAIN ids) /\ 1..0 = {}
    OBVIOUS
  <2> QED BY <1>2, <2>1 DEF OfRootsFold
<1>5. ASSUME NEW k \in 1..Len(ids)
      PROVE  h[1..k] = IF RootOf[ids[k]] \in rs THEN Append(h[1..(k - 1)], ids[k])
                       ELSE h[1..(k - 1)]
  <2>1. 1..k \in SUBSET (DOMAIN ids) /\ k \in Nat \ {0}
    OBVIOUS
  <2>2. Max(1..k) = k /\ 1..k # {} /\ (1..k) \ {k} = 1..(k - 1)
    BY <2>1, MaxInterval
  <2>3. \A s \in SUBSET (DOMAIN ids) :
            s # {} => h[s] = IF RootOf[ids[Max(s)]] \in rs
                             THEN Append(h[s \ {Max(s)}], ids[Max(s)])
                             ELSE h[s \ {Max(s)}]
    BY <1>2 DEF OfRootsFold
  <2>4. h[1..k] = IF RootOf[ids[Max(1..k)]] \in rs
                  THEN Append(h[(1..k) \ {Max(1..k)}], ids[Max(1..k)])
                  ELSE h[(1..k) \ {Max(1..k)}]
    BY <2>1, <2>2, <2>3, Zenon
  <2> QED BY <2>2, <2>4, Zenon
<1> DEFINE g == [k \in 0..Len(ids) |-> h[1..k]]
<1>6. g[0] = <<>> /\ g[Len(ids)] = h[DOMAIN ids]
  BY <1>3, <1>4
<1>7. ASSUME NEW k \in 1..Len(ids)
      PROVE  g[k] = IF RootOf[ids[k]] \in rs THEN Append(g[k - 1], ids[k]) ELSE g[k - 1]
  <2>1. k \in 0..Len(ids) /\ k - 1 \in 0..Len(ids)
    BY <1>3
  <2>2. g[k] = h[1..k] /\ g[k - 1] = h[1..(k - 1)]
    BY <2>1
  <2> HIDE DEF g
  <2> QED BY <1>5, <2>2
<1> HIDE DEF g
<1> QED BY <1>1, <1>6, <1>7 DEF KeptUpTo

LEMMA OfRootsEmpty ==
    ASSUME NEW rs
    PROVE  OfRoots(<<>>, rs) = <<>>
<1>1. <<>> \in Seq(Delta) /\ Len(<<>>) = 0
  OBVIOUS
<1>2. PICK g : KeptUpTo(g, <<>>, rs) /\ OfRoots(<<>>, rs) = g[Len(<<>>)]
  BY <1>1, OfRootsUpTo, Zenon
<1> QED BY <1>1, <1>2 DEF KeptUpTo

\* Appending an id appends it to what is kept, or changes nothing.
LEMMA OfRootsAppend ==
    ASSUME NEW ids \in Seq(Delta), NEW d \in Delta, NEW rs
    PROVE  OfRoots(Append(ids, d), rs)
              = IF RootOf[d] \in rs THEN Append(OfRoots(ids, rs), d) ELSE OfRoots(ids, rs)
<1> DEFINE longer == Append(ids, d)
<1>1. /\ longer \in Seq(Delta) /\ Len(longer) = Len(ids) + 1 /\ Len(ids) \in Nat
      /\ \A k \in 1..Len(ids) : longer[k] = ids[k]
      /\ longer[Len(ids) + 1] = d
  BY AppendProperties
<1> HIDE DEF longer
<1>2. PICK f : KeptUpTo(f, ids, rs) /\ OfRoots(ids, rs) = f[Len(ids)]
  BY OfRootsUpTo
<1>3. PICK g : KeptUpTo(g, longer, rs) /\ OfRoots(longer, rs) = g[Len(longer)]
  BY <1>1, OfRootsUpTo
<1> DEFINE P == {k \in Nat : k <= Len(ids) => f[k] = g[k]}
<1>4. 0 \in P
  BY <1>2, <1>3 DEF KeptUpTo
<1>5. ASSUME NEW k \in Nat, k \in P PROVE k + 1 \in P
  <2> SUFFICES ASSUME k + 1 <= Len(ids) PROVE f[k + 1] = g[k + 1]
    OBVIOUS
  <2>1. /\ k + 1 \in 1..Len(ids) /\ k + 1 \in 1..Len(longer) /\ k + 1 - 1 = k /\ k <= Len(ids)
        /\ longer[k + 1] = ids[k + 1]
    BY <1>1
  <2>2. f[k] = g[k]
    BY <1>5, <2>1
  <2>3. f[k + 1] = IF RootOf[ids[k + 1]] \in rs THEN Append(f[k], ids[k + 1]) ELSE f[k]
    BY <1>2, <2>1 DEF KeptUpTo
  <2>4. g[k + 1] = IF RootOf[ids[k + 1]] \in rs THEN Append(g[k], ids[k + 1]) ELSE g[k]
    BY <1>3, <2>1 DEF KeptUpTo
  <2> QED BY <2>2, <2>3, <2>4
<1>6. Nat \subseteq P
  <2> HIDE DEF P
  <2> QED BY <1>4, <1>5, Induction
<1>7. f[Len(ids)] = g[Len(ids)]
  BY <1>1, <1>6
<1>8. Len(ids) + 1 \in 1..Len(longer) /\ Len(ids) + 1 - 1 = Len(ids)
  BY <1>1
<1>9. g[Len(ids) + 1] = IF RootOf[d] \in rs THEN Append(g[Len(ids)], d) ELSE g[Len(ids)]
  BY <1>1, <1>3, <1>8 DEF KeptUpTo
<1> QED BY <1>1, <1>2, <1>3, <1>7, <1>9 DEF longer

\* Induction over sequences of ids, with the set of those it holds for.
LEMMA IdsInduction ==
    ASSUME NEW P, <<>> \in P,
           \A ids \in Seq(Delta), d \in Delta : ids \in P => Append(ids, d) \in P
    PROVE  Seq(Delta) \subseteq P
<1> DEFINE Q == {n \in Nat : \A ids \in Seq(Delta) : Len(ids) = n => ids \in P}
<1>1. 0 \in Q
  <2>1. \A ids \in Seq(Delta) : Len(ids) = 0 => ids = <<>>
    OBVIOUS
  <2> QED BY <2>1
<1>2. ASSUME NEW n \in Nat, n \in Q PROVE n + 1 \in Q
  <2> SUFFICES ASSUME NEW ids \in Seq(Delta), Len(ids) = n + 1 PROVE ids \in P
    OBVIOUS
  <2>1. ids # <<>>
    OBVIOUS
  <2>2. PICK shorter \in Seq(Delta), d \in Delta : ids = Append(shorter, d)
    BY <2>1, SequenceEmptyOrAppend
  <2>3. Len(shorter) = n
    BY <2>2, AppendProperties
  <2>4. shorter \in P
    BY <1>2, <2>3
  <2> QED BY <2>2, <2>4
<1>3. Nat \subseteq Q
  <2> HIDE DEF Q
  <2> QED BY <1>1, <1>2, Induction
<1>4. \A ids \in Seq(Delta) : Len(ids) \in Q
  BY <1>3
<1> QED BY <1>4

\* What is kept is ids, no more of them than there are.
LEMMA OfRootsType ==
    ASSUME NEW ids \in Seq(Delta), NEW rs
    PROVE  OfRoots(ids, rs) \in Seq(Delta) /\ Len(OfRoots(ids, rs)) <= Len(ids)
<1> DEFINE P == {s \in Seq(Delta) : OfRoots(s, rs) \in Seq(Delta)
                                    /\ Len(OfRoots(s, rs)) <= Len(s)}
<1>1. <<>> \in P
  <2>1. <<>> \in Seq(Delta) /\ Len(<<>>) <= Len(<<>>)
    OBVIOUS
  <2> QED BY <2>1, OfRootsEmpty, Zenon
<1>2. ASSUME NEW s \in Seq(Delta), NEW d \in Delta, s \in P
      PROVE  Append(s, d) \in P
  <2> DEFINE kept == OfRoots(s, rs)
  <2>1. kept \in Seq(Delta) /\ Len(kept) <= Len(s)
    BY <1>2
  <2>2. OfRoots(Append(s, d), rs) = IF RootOf[d] \in rs THEN Append(kept, d) ELSE kept
    BY OfRootsAppend
  <2> HIDE DEF kept
  <2>3. /\ Append(s, d) \in Seq(Delta) /\ Len(Append(s, d)) = Len(s) + 1 /\ Len(s) \in Nat
        /\ Append(kept, d) \in Seq(Delta) /\ Len(Append(kept, d)) = Len(kept) + 1
        /\ Len(kept) \in Nat
    BY <2>1, AppendProperties
  <2>4. OfRoots(Append(s, d), rs) \in Seq(Delta)
    BY <2>1, <2>2, <2>3
  <2>5. Len(OfRoots(Append(s, d), rs)) <= Len(Append(s, d))
    BY <2>1, <2>2, <2>3
  <2> QED BY <2>3, <2>4, <2>5
<1>3. Seq(Delta) \subseteq P
  <2> HIDE DEF P
  <2> QED BY <1>1, <1>2, IdsInduction
<1> QED BY <1>3

NoRepeat(ids) == \A i, j \in 1..Len(ids) : ids[i] = ids[j] => i = j

IsIn(d, ids) == \E i \in 1..Len(ids) : ids[i] = d

LEMMA NoRepeatAppend ==
    ASSUME NEW ids \in Seq(Delta), NEW d \in Delta
    PROVE  /\ \A e : IsIn(e, Append(ids, d)) <=> IsIn(e, ids) \/ e = d
           /\ NoRepeat(Append(ids, d)) <=> NoRepeat(ids) /\ ~IsIn(d, ids)
<1> DEFINE longer == Append(ids, d)
<1>1. /\ Len(longer) = Len(ids) + 1 /\ Len(ids) \in Nat
      /\ \A k \in 1..Len(ids) : longer[k] = ids[k]
      /\ longer[Len(ids) + 1] = d
  BY AppendProperties
<1> HIDE DEF longer
<1>2. \A e : IsIn(e, longer) <=> IsIn(e, ids) \/ e = d
  <2>1. \A k \in 1..Len(longer) : k \in 1..Len(ids) \/ k = Len(ids) + 1
    BY <1>1
  <2>2. Len(ids) + 1 \in 1..Len(longer) /\ \A k \in 1..Len(ids) : k \in 1..Len(longer)
    BY <1>1
  <2> QED BY <1>1, <2>1, <2>2 DEF IsIn
<1>3. NoRepeat(longer) <=> NoRepeat(ids) /\ ~IsIn(d, ids)
  <2>1. \A k \in 1..Len(longer) : k \in 1..Len(ids) \/ k = Len(ids) + 1
    BY <1>1
  <2>2. /\ Len(ids) + 1 \in 1..Len(longer) /\ Len(ids) + 1 \notin 1..Len(ids)
        /\ \A k \in 1..Len(ids) : k \in 1..Len(longer)
    BY <1>1
  <2> QED BY <1>1, <2>1, <2>2 DEF NoRepeat, IsIn
<1> QED BY <1>2, <1>3 DEF longer

\* Every kept id is one of the ids; ids without a repetition are kept without one.
LEMMA OfRootsNoRepeat ==
    ASSUME NEW ids \in Seq(Delta), NEW rs
    PROVE  /\ \A e : IsIn(e, OfRoots(ids, rs)) => IsIn(e, ids)
           /\ NoRepeat(ids) => NoRepeat(OfRoots(ids, rs))
<1> DEFINE Kept(s) == OfRoots(s, rs)
           P == {s \in Seq(Delta) : /\ \A e : IsIn(e, Kept(s)) => IsIn(e, s)
                                    /\ NoRepeat(s) => NoRepeat(Kept(s))}
<1>1. <<>> \in P
  <2>1. <<>> \in Seq(Delta)
    OBVIOUS
  <2> QED BY <2>1, OfRootsEmpty, Zenon
<1>2. ASSUME NEW s \in Seq(Delta), NEW d \in Delta, s \in P
      PROVE  Append(s, d) \in P
  <2>1. Kept(s) \in Seq(Delta) /\ Append(s, d) \in Seq(Delta)
    BY OfRootsType, AppendProperties
  <2>2. Kept(Append(s, d)) = IF RootOf[d] \in rs THEN Append(Kept(s), d) ELSE Kept(s)
    BY OfRootsAppend
  <2>3. /\ \A e : IsIn(e, Kept(s)) => IsIn(e, s)
        /\ NoRepeat(s) => NoRepeat(Kept(s))
    BY <1>2
  <2> HIDE DEF Kept
  <2>4. /\ \A e : IsIn(e, Append(s, d)) <=> IsIn(e, s) \/ e = d
        /\ NoRepeat(Append(s, d)) <=> NoRepeat(s) /\ ~IsIn(d, s)
    BY NoRepeatAppend
  <2>5. /\ \A e : IsIn(e, Append(Kept(s), d)) <=> IsIn(e, Kept(s)) \/ e = d
        /\ NoRepeat(Append(Kept(s), d)) <=> NoRepeat(Kept(s)) /\ ~IsIn(d, Kept(s))
    BY <2>1, NoRepeatAppend
  <2>6. \A e : IsIn(e, Kept(Append(s, d))) => IsIn(e, Append(s, d))
    BY <2>2, <2>3, <2>4, <2>5, Zenon
  <2>7. NoRepeat(Append(s, d)) => NoRepeat(Kept(Append(s, d)))
    BY <2>2, <2>3, <2>4, <2>5, Zenon
  <2> QED BY <2>1, <2>6, <2>7
<1>3. Seq(Delta) \subseteq P
  <2> HIDE DEF P
  <2> QED BY <1>1, <1>2, IdsInduction
<1> QED BY <1>3

\* The ids of some folders among those of more folders.
LEMMA OfRootsTwice ==
    ASSUME NEW ids \in Seq(Delta), NEW rs, NEW few, few \subseteq rs
    PROVE  OfRoots(OfRoots(ids, rs), few) = OfRoots(ids, few)
<1> DEFINE P == {s \in Seq(Delta) : OfRoots(OfRoots(s, rs), few) = OfRoots(s, few)}
<1>1. <<>> \in P
  <2>1. <<>> \in Seq(Delta)
    OBVIOUS
  <2> QED BY <2>1, OfRootsEmpty, Zenon
<1>2. ASSUME NEW s \in Seq(Delta), NEW d \in Delta, s \in P
      PROVE  Append(s, d) \in P
  <2>1. OfRoots(s, rs) \in Seq(Delta) /\ Append(s, d) \in Seq(Delta)
    BY OfRootsType, AppendProperties
  <2>2. /\ OfRoots(Append(s, d), rs)
              = IF RootOf[d] \in rs THEN Append(OfRoots(s, rs), d) ELSE OfRoots(s, rs)
        /\ OfRoots(Append(s, d), few)
              = IF RootOf[d] \in few THEN Append(OfRoots(s, few), d) ELSE OfRoots(s, few)
    BY OfRootsAppend
  <2>3. OfRoots(Append(OfRoots(s, rs), d), few)
              = IF RootOf[d] \in few THEN Append(OfRoots(OfRoots(s, rs), few), d)
                ELSE OfRoots(OfRoots(s, rs), few)
    BY <2>1, OfRootsAppend
  <2>4. OfRoots(OfRoots(s, rs), few) = OfRoots(s, few)
    BY <1>2
  <2> QED BY <2>1, <2>2, <2>3, <2>4
<1>3. Seq(Delta) \subseteq P
  <2> HIDE DEF P
  <2> QED BY <1>1, <1>2, IdsInduction
<1> QED BY <1>3

\* None of other folders are left.
LEMMA OfRootsApart ==
    ASSUME NEW ids \in Seq(Delta), NEW rs, NEW others, \A r : ~(r \in rs /\ r \in others)
    PROVE  OfRoots(OfRoots(ids, rs), others) = <<>>
<1> DEFINE P == {s \in Seq(Delta) : OfRoots(OfRoots(s, rs), others) = <<>>}
<1>1. <<>> \in P
  <2>1. <<>> \in Seq(Delta)
    OBVIOUS
  <2> QED BY <2>1, OfRootsEmpty, Zenon
<1>2. ASSUME NEW s \in Seq(Delta), NEW d \in Delta, s \in P
      PROVE  Append(s, d) \in P
  <2>1. OfRoots(s, rs) \in Seq(Delta) /\ Append(s, d) \in Seq(Delta)
    BY OfRootsType, AppendProperties
  <2>2. OfRoots(Append(s, d), rs)
              = IF RootOf[d] \in rs THEN Append(OfRoots(s, rs), d) ELSE OfRoots(s, rs)
    BY OfRootsAppend
  <2>3. OfRoots(Append(OfRoots(s, rs), d), others)
              = IF RootOf[d] \in others THEN Append(OfRoots(OfRoots(s, rs), others), d)
                ELSE OfRoots(OfRoots(s, rs), others)
    BY <2>1, OfRootsAppend
  <2>4. OfRoots(OfRoots(s, rs), others) = <<>>
    BY <1>2
  <2>5. ~(RootOf[d] \in rs /\ RootOf[d] \in others)
    OBVIOUS
  <2> QED BY <2>1, <2>2, <2>3, <2>4, <2>5
<1>3. Seq(Delta) \subseteq P
  <2> HIDE DEF P
  <2> QED BY <1>1, <1>2, IdsInduction
<1> QED BY <1>3

\* Without the oldest id, the oldest of those kept goes, or none.
LEMMA OfRootsTail ==
    ASSUME NEW ids \in Seq(Delta), ids # <<>>, NEW rs
    PROVE  \/ OfRoots(Tail(ids), rs) = OfRoots(ids, rs)
           \/ OfRoots(ids, rs) # <<>> /\ OfRoots(Tail(ids), rs) = Tail(OfRoots(ids, rs))
<1> DEFINE P == {s \in Seq(Delta) :
                    s # <<>> =>
                      \/ OfRoots(Tail(s), rs) = OfRoots(s, rs)
                      \/ OfRoots(s, rs) # <<>> /\ OfRoots(Tail(s), rs) = Tail(OfRoots(s, rs))}
<1>1. <<>> \in P
  OBVIOUS
<1>2. ASSUME NEW s \in Seq(Delta), NEW d \in Delta, s \in P
      PROVE  Append(s, d) \in P
  <2> DEFINE kept == OfRoots(s, rs)
             rest == OfRoots(Tail(s), rs)
  <2>1. /\ kept \in Seq(Delta) /\ Append(s, d) \in Seq(Delta) /\ Append(s, d) # <<>>
        /\ OfRoots(Append(s, d), rs) = IF RootOf[d] \in rs THEN Append(kept, d) ELSE kept
    <3>1. kept \in Seq(Delta)
      BY OfRootsType
    <3>2. OfRoots(Append(s, d), rs) = IF RootOf[d] \in rs THEN Append(kept, d) ELSE kept
      BY OfRootsAppend
    <3>3. Append(s, d) \in Seq(Delta) /\ Append(s, d) # <<>>
      OBVIOUS
    <3> QED BY <3>1, <3>2, <3>3
  <2>2. CASE s = <<>>
    <3>1. Tail(Append(s, d)) = <<>> /\ <<>> \in Seq(Delta)
      BY <2>2
    <3>2. kept = <<>> /\ OfRoots(Tail(Append(s, d)), rs) = <<>>
      BY <2>2, <3>1, OfRootsEmpty
    <3>3. RootOf[d] \in rs => OfRoots(Append(s, d), rs) = <<d>>
      BY <2>1, <3>2
    <3>4. <<d>> # <<>> /\ Tail(<<d>>) = <<>>
      OBVIOUS
    <3> QED BY <2>1, <3>2, <3>3, <3>4
  <2>3. CASE s # <<>>
    <3>1. /\ Tail(s) \in Seq(Delta) /\ Tail(Append(s, d)) = Append(Tail(s), d)
      <4>1. Tail(s) \in Seq(Delta)
        BY <2>3
      <4>2. Append(Tail(s), d) \in Seq(Delta) /\ Tail(Append(s, d)) \in Seq(Delta)
        BY <4>1, <2>3
      <4>3. Tail(Append(s, d)) = Append(Tail(s), d)
        BY <2>3
      <4> QED BY <4>1, <4>3
    <3>2. OfRoots(Append(Tail(s), d), rs)
              = IF RootOf[d] \in rs THEN Append(rest, d) ELSE rest
      BY <3>1, OfRootsAppend
    <3>3. rest = kept \/ (kept # <<>> /\ rest = Tail(kept))
      BY <1>2, <2>3
    <3> HIDE DEF kept, rest
    <3>4. kept # <<>> => Append(kept, d) # <<>> /\ Tail(Append(kept, d)) = Append(Tail(kept), d)
      BY <2>1
    <3> QED BY <2>1, <3>1, <3>2, <3>3, <3>4
  <2> QED BY <2>2, <2>3
<1>3. Seq(Delta) \subseteq P
  <2> HIDE DEF P
  <2> QED BY <1>1, <1>2, IdsInduction
<1> QED BY <1>3

-----------------------------------------------------------------------------
(* Sequences that end alike *)

\* Counted from their ends, the two agree as far as both go.
EndsAlike(s, t) ==
    \A k \in Nat : k < Len(s) /\ k < Len(t) => s[Len(s) - k] = t[Len(t) - k]

LEMMA SuffixEndsAlike ==
    ASSUME NEW s \in Seq(Delta), NEW t \in Seq(Delta)
    PROVE  IsSuffix(s, t) <=> Len(s) <= Len(t) /\ EndsAlike(s, t)
<1> DEFINE rs == Reverse(s)
           rt == Reverse(t)
<1>1. Len(s) \in Nat /\ Len(t) \in Nat
  OBVIOUS
<1>2. /\ rs \in Seq(Delta) /\ Len(rs) = Len(s)
      /\ \A k \in 1..Len(s) : rs[k] = s[Len(s) - k + 1]
  <2>1. \A k \in 1..Len(s) : Len(s) - k + 1 \in 1..Len(s)
    BY <1>1
  <2>2. \A k \in 1..Len(s) : s[Len(s) - k + 1] \in Delta
    BY <2>1, ElementOfSeq
  <2> QED BY <1>1, <2>2 DEF Reverse
<1>3. /\ rt \in Seq(Delta) /\ Len(rt) = Len(t)
      /\ \A k \in 1..Len(t) : rt[k] = t[Len(t) - k + 1]
  <2>1. \A k \in 1..Len(t) : Len(t) - k + 1 \in 1..Len(t)
    BY <1>1
  <2>2. \A k \in 1..Len(t) : t[Len(t) - k + 1] \in Delta
    BY <2>1, ElementOfSeq
  <2> QED BY <1>1, <2>2 DEF Reverse
<1> HIDE DEF rs, rt
<1>4. ASSUME Len(s) <= Len(t)
      PROVE  SubSeq(rs, 1, Len(rs)) = SubSeq(rt, 1, Len(rs))
                <=> \A k \in 1..Len(s) : rs[k] = rt[k]
  <2> DEFINE front == SubSeq(rt, 1, Len(s))
  <2>1. SubSeq(rs, 1, Len(rs)) = rs
    BY <1>2, SubSeqFull
  <2>2. /\ front \in Seq(Delta) /\ Len(front) = Len(s)
        /\ \A k \in 1..Len(s) : front[k] = rt[k]
    <3>1. \A k \in 1..Len(s) : rt[k] \in Delta
      BY <1>1, <1>3, <1>4, ElementOfSeq
    <3>2. /\ front \in Seq(Delta)
          /\ Len(front) = IF 1 <= Len(s) THEN Len(s) - 1 + 1 ELSE 0
          /\ \A k \in 1..(Len(s) - 1 + 1) : front[k] = rt[1 + k - 1]
      <4>1. 1 \in Int /\ Len(s) \in Int
        BY <1>1
      <4> QED BY <3>1, <4>1, SubSeqProperties
    <3> QED BY <1>1, <3>2
  <2> HIDE DEF front
  <2>3. rs = front <=> \A k \in 1..Len(s) : rs[k] = front[k]
    BY <1>2, <2>2, SeqEqual
  <2> QED BY <1>2, <2>1, <2>2, <2>3 DEF front
<1>5. ASSUME Len(s) <= Len(t)
      PROVE  (\A k \in 1..Len(s) : rs[k] = rt[k]) <=> EndsAlike(s, t)
  <2>1. \A k \in 1..Len(s) : /\ rs[k] = s[Len(s) - (k - 1)] /\ rt[k] = t[Len(t) - (k - 1)]
                             /\ k - 1 \in Nat /\ k - 1 < Len(s) /\ k - 1 < Len(t)
    BY <1>1, <1>2, <1>3, <1>5
  <2>2. \A k \in Nat : k < Len(s) => k + 1 \in 1..Len(s) /\ k + 1 - 1 = k
    BY <1>1
  <2>3. ASSUME EndsAlike(s, t) PROVE \A k \in 1..Len(s) : rs[k] = rt[k]
    BY <2>1, <2>3 DEF EndsAlike
  <2>4. ASSUME \A k \in 1..Len(s) : rs[k] = rt[k] PROVE EndsAlike(s, t)
    <3> SUFFICES ASSUME NEW k \in Nat, k < Len(s), k < Len(t)
                 PROVE  s[Len(s) - k] = t[Len(t) - k]
      BY DEF EndsAlike
    <3>1. k + 1 \in 1..Len(s) /\ k + 1 - 1 = k
      BY <2>2
    <3>2. rs[k + 1] = s[Len(s) - (k + 1 - 1)] /\ rt[k + 1] = t[Len(t) - (k + 1 - 1)]
      BY <2>1, <3>1
    <3> QED BY <2>4, <3>1, <3>2
  <2> QED BY <2>3, <2>4
<1> QED BY <1>2, <1>3, <1>4, <1>5 DEF IsSuffix, IsPrefix, rs, rt

LEMMA SuffixesEndAlike ==
    ASSUME NEW s \in Seq(Delta), NEW t \in Seq(Delta)
    PROVE  IsSuffix(s, t) \/ IsSuffix(t, s) <=> EndsAlike(s, t)
<1>1. Len(s) \in Nat /\ Len(t) \in Nat
  OBVIOUS
<1>2. Len(s) <= Len(t) \/ Len(t) <= Len(s)
  BY <1>1
<1>3. EndsAlike(s, t) <=> EndsAlike(t, s)
  BY DEF EndsAlike
<1> QED BY <1>2, <1>3, SuffixEndsAlike

\* The same id at the end of both, or the head of one less, changes nothing of that.
LEMMA EndsAlikeAppend ==
    ASSUME NEW s \in Seq(Delta), NEW t \in Seq(Delta), NEW d \in Delta, EndsAlike(s, t)
    PROVE  EndsAlike(Append(s, d), Append(t, d))
<1> DEFINE ls == Append(s, d)
           lt == Append(t, d)
<1>1. /\ Len(ls) = Len(s) + 1 /\ Len(s) \in Nat
      /\ \A k \in 1..Len(s) : ls[k] = s[k]
      /\ ls[Len(s) + 1] = d
  BY AppendProperties
<1>2. /\ Len(lt) = Len(t) + 1 /\ Len(t) \in Nat
      /\ \A k \in 1..Len(t) : lt[k] = t[k]
      /\ lt[Len(t) + 1] = d
  BY AppendProperties
<1> HIDE DEF ls, lt
<1> SUFFICES ASSUME NEW k \in Nat, k < Len(ls), k < Len(lt)
             PROVE  ls[Len(ls) - k] = lt[Len(lt) - k]
  BY DEF EndsAlike, ls, lt
<1>3. CASE k = 0
  <2>1. Len(ls) - k = Len(s) + 1 /\ Len(lt) - k = Len(t) + 1
    BY <1>1, <1>2, <1>3
  <2> QED BY <1>1, <1>2, <2>1
<1>4. CASE k # 0
  <2>1. /\ k - 1 \in Nat /\ k - 1 < Len(s) /\ k - 1 < Len(t)
        /\ Len(ls) - k = Len(s) - (k - 1) /\ Len(lt) - k = Len(t) - (k - 1)
        /\ Len(s) - (k - 1) \in 1..Len(s) /\ Len(t) - (k - 1) \in 1..Len(t)
    BY <1>1, <1>2, <1>4
  <2>2. s[Len(s) - (k - 1)] = t[Len(t) - (k - 1)]
    BY <2>1 DEF EndsAlike
  <2> QED BY <1>1, <1>2, <2>1, <2>2
<1> QED BY <1>3, <1>4

LEMMA EndsAlikeTail ==
    ASSUME NEW s \in Seq(Delta), NEW t \in Seq(Delta), s # <<>>, EndsAlike(s, t)
    PROVE  EndsAlike(Tail(s), t) /\ EndsAlike(t, Tail(s))
<1> DEFINE rest == Tail(s)
<1>1. /\ rest \in Seq(Delta) /\ Len(rest) = Len(s) - 1 /\ Len(s) \in Nat \ {0} /\ Len(t) \in Nat
      /\ \A k \in 1..Len(rest) : rest[k] = s[k + 1]
  BY HeadTailProperties, EmptySeq
<1> HIDE DEF rest
<1>2. ASSUME NEW k \in Nat, k < Len(rest), k < Len(t)
      PROVE  rest[Len(rest) - k] = t[Len(t) - k]
  <2>1. k < Len(s) /\ Len(rest) - k \in 1..Len(rest) /\ Len(rest) - k + 1 = Len(s) - k
    BY <1>1, <1>2
  <2>2. rest[Len(rest) - k] = s[Len(s) - k]
    BY <1>1, <2>1
  <2> QED BY <1>2, <2>1, <2>2 DEF EndsAlike
<1> QED BY <1>2 DEF EndsAlike, rest

-----------------------------------------------------------------------------
(* What the queues have to do and what is remembered *)

\* What a queue object has to do.
WorkOf(state) == (IF state.working = None THEN <<>> ELSE <<state.working>>) \o state.items

LEMMA WorkOfType ==
    ASSUME NEW state \in RootQueue
    PROVE  /\ WorkOf(state) \in Seq(Delta)
           /\ state.working = None => WorkOf(state) = state.items
           /\ state.working # None => /\ WorkOf(state) # <<>>
                                      /\ Tail(WorkOf(state)) = state.items
<1>1. state.items \in Seq(Delta) /\ state.working \in Delta \cup {None}
  BY DEF RootQueue
<1>2. CASE state.working = None
  BY <1>1, <1>2, ConcatEmptySeq DEF WorkOf
<1>3. CASE state.working # None
  <2> DEFINE work == <<state.working>> \o state.items
  <2>1. <<state.working>> \in Seq(Delta) /\ Len(<<state.working>>) = 1
    BY <1>1, <1>3
  <2>2. /\ work \in Seq(Delta) /\ Len(work) = 1 + Len(state.items)
        /\ \A i \in 1..(1 + Len(state.items)) :
               work[i] = IF i <= 1 THEN <<state.working>>[i] ELSE state.items[i - 1]
    BY <1>1, <2>1, ConcatProperties
  <2> HIDE DEF work
  <2>3. work # <<>> /\ Len(state.items) \in Nat
    BY <1>1, <2>2, EmptySeq
  <2>4. /\ Tail(work) \in Seq(Delta) /\ Len(Tail(work)) = Len(work) - 1
        /\ \A i \in 1..Len(Tail(work)) : Tail(work)[i] = work[i + 1]
    BY <2>2, <2>3, HeadTailProperties
  <2>5. \A i \in 1..Len(Tail(work)) : Tail(work)[i] = state.items[i]
    <3> TAKE i \in 1..Len(Tail(work))
    <3>1. i + 1 \in 1..(1 + Len(state.items)) /\ ~(i + 1 <= 1) /\ i + 1 - 1 = i
      BY <2>2, <2>3, <2>4
    <3> QED BY <2>2, <2>4, <3>1
  <2>6. Tail(work) = state.items
    <3>1. Len(Tail(work)) = Len(state.items)
      BY <2>2, <2>3, <2>4
    <3> DEFINE rest == Tail(work)
               items == state.items
    <3>2. /\ rest \in Seq(Delta) /\ items \in Seq(Delta) /\ Len(rest) = Len(items)
          /\ \A i \in 1..Len(rest) : rest[i] = items[i]
      BY <1>1, <2>4, <2>5, <3>1
    <3> HIDE DEF rest, items
    <3>3. rest = items
      BY <3>2, SeqEqual
    <3> QED BY <3>3 DEF rest, items
  <2>7. WorkOf(state) = work
    BY <1>3 DEF WorkOf, work
  <2> QED BY <1>3, <2>2, <2>3, <2>6, <2>7
<1> QED BY <1>2, <1>3

LEMMA WorkIs ==
    ASSUME QueueInv, NEW r \in Root
    PROVE  /\ roots[r] = None => Work(r) = <<>>
           /\ roots[r] # None => /\ roots[r] \in Queue /\ queues[roots[r]] \in RootQueue
                                 /\ Work(r) = WorkOf(queues[roots[r]])
           /\ Work(r) \in Seq(Delta)
<1>1. roots[r] # None => roots[r] \in Queue /\ queues[roots[r]] \in RootQueue
  BY DEF QueueInv, QueuesOK
<1>2. roots[r] # None => Work(r) = WorkOf(queues[roots[r]])
  BY DEF Work, WorkOf
<1>3. roots[r] = None => Work(r) = <<>>
  BY DEF Work
<1>4. <<>> \in Seq(Delta)
  OBVIOUS
<1> QED BY <1>1, <1>2, <1>3, <1>4, WorkOfType

\* A step that changes one queue object changes what its folder has to do, to what the
\* object has to do then, or to nothing.
LEMMA OneQueueWork ==
    ASSUME QueueInv, QueueInv', NEW q \in Queue, NEW r \in Root, NEW new, NEW x,
           OneQueue(q, r, new, x)
    PROVE  /\ \A s \in Root \ {r} : Work(s)' = Work(s)
           /\ x = None => Work(r)' = <<>>
           /\ x = q => Work(r)' = WorkOf(new)
           /\ x # None /\ x # q => Work(r)' = Work(r)
<1> USE DEF OneQueue
<1>1. /\ queues'[q] = new /\ (\A p \in Queue \ {q} : queues'[p] = queues[p])
      /\ roots'[r] = x /\ (\A s \in Root \ {r} : roots'[s] = roots[s])
  BY DEF QueueInv, QueuesOK
<1>2. /\ \A s \in Root : roots[s] # None => roots[s] \in Queue
      /\ q # None
  BY ConstantsAssumption DEF QueueInv, QueuesOK
<1>3. \A s \in Root \ {r} : Work(s)' = Work(s)
  BY <1>1, <1>2 DEF Work
<1>4. x = None => Work(r)' = <<>>
  BY <1>1 DEF Work
<1>5. ASSUME x = q PROVE Work(r)' = WorkOf(new)
  <2>1. roots'[r] = q /\ roots'[r] # None /\ queues'[roots'[r]] = new
    BY <1>1, <1>2, <1>5
  <2>2. roots'[r] # None => Work(r)' = WorkOf(queues'[roots'[r]])
    BY DEF Work, WorkOf
  <2> QED BY <2>1, <2>2
<1>6. x # None /\ x # q => Work(r)' = Work(r)
  BY <1>1, <1>2 DEF Work
<1> QED BY <1>3, <1>4, <1>5, <1>6

\* Scheduling an object begins its first delta at most, and drops it only when it has none.
LEMMA ScheduledWork ==
    ASSUME QueueInv, QueueInv', NEW q \in Queue, NEW r \in Root, NEW state, NEW new, NEW x,
           Drainable(q, r, state), OneQueue(q, r, new, x), Scheduled(q, r, state, new, x)
    PROVE  /\ \A s \in Root \ {r} : Work(s)' = Work(s)
           /\ Work(r)' = WorkOf(state)
<1>1. /\ \A s \in Root \ {r} : Work(s)' = Work(s)
      /\ x = None => Work(r)' = <<>>
      /\ x = q => Work(r)' = WorkOf(new)
  BY OneQueueWork
<1>2. state \in RootQueue
  BY DEF Drainable
<1>3. CASE new = state /\ x = q
  BY <1>1, <1>3
<1>4. CASE /\ state.working = None /\ state.items # <<>>
           /\ new = [state EXCEPT !.working = Head(state.items), !.items = Tail(state.items)]
           /\ x = q
  <2>1. state.items \in Seq(Delta)
    BY <1>2 DEF RootQueue
  <2>2. Head(state.items) \in Delta /\ Tail(state.items) \in Seq(Delta)
    BY <1>4, <2>1, TakeNext
  <2>3. new.working = Head(state.items) /\ new.items = Tail(state.items)
    BY <1>2, <1>4 DEF RootQueue
  <2>4. WorkOf(new) = <<Head(state.items)>> \o Tail(state.items)
    BY <2>2, <2>3, ConstantsAssumption DEF WorkOf
  <2>5. <<Head(state.items)>> \o Tail(state.items) = state.items
    BY <1>4, <2>1
  <2>6. WorkOf(state) = state.items
    BY <1>2, <1>4, WorkOfType
  <2> QED BY <1>1, <1>4, <2>4, <2>5, <2>6
<1>5. CASE state.working = None /\ state.items = <<>> /\ x = None
  BY <1>1, <1>2, <1>5, WorkOfType
<1> QED BY <1>1, <1>3, <1>4, <1>5 DEF Scheduled

\* A delta that is enqueued is what its folder has to do last.
LEMMA EnqueueWork ==
    ASSUME QueueInv, QueueInv', NEW d \in Delta, Enqueue(d)
    PROVE  /\ \A s \in Root \ {RootOf[d]} : Work(s)' = Work(s)
           /\ Work(RootOf[d])' = Append(Work(RootOf[d]), d)
<1> DEFINE r == RootOf[d]
<1>1. PICK q, state, new, x :
          /\ q \in Queue /\ r \in Root
          /\ Drainable(q, r, state)
          /\ IF roots[r] = None
             THEN queues[q].working = None /\ state.items = <<d>> /\ ~state.paused
             ELSE /\ roots[r] = q
                  /\ state = [queues[q] EXCEPT !.items = Append(@, d)]
          /\ OneQueue(q, r, new, x) /\ Attached(q, r, new, x)
          /\ Scheduled(q, r, state, new, x)
  BY EnqueueOutcome
<1> HIDE DEF r
<1>2. (\A s \in Root \ {r} : Work(s)' = Work(s)) /\ Work(r)' = WorkOf(state)
  BY <1>1, ScheduledWork
<1>3. state \in RootQueue /\ state.working = queues[q].working
  BY <1>1 DEF Drainable
<1>4. WorkOf(state) = Append(Work(r), d)
  <2>1. CASE roots[r] = None
    <3>1. Work(r) = <<>>
      BY <1>1, <2>1, WorkIs
    <3>2. WorkOf(state) = <<d>>
      BY <1>1, <1>3, <2>1, WorkOfType
    <3>3. Append(<<>>, d) = <<d>>
      OBVIOUS
    <3> QED BY <3>1, <3>2, <3>3
  <2>2. CASE roots[r] # None
    <3>1. /\ queues[q] \in RootQueue /\ Work(r) = WorkOf(queues[q])
      BY <1>1, <2>2, WorkIs
    <3>2. state.items = Append(queues[q].items, d) /\ queues[q].items \in Seq(Delta)
      BY <1>1, <2>2, <3>1 DEF RootQueue
    <3>3. CASE queues[q].working = None
      BY <1>3, <3>1, <3>2, <3>3, WorkOfType
    <3>4. CASE queues[q].working # None
      <4>1. queues[q].working \in Delta
        BY <3>1, <3>4 DEF RootQueue
      <4>2. /\ WorkOf(state) = <<queues[q].working>> \o Append(queues[q].items, d)
            /\ WorkOf(queues[q]) = <<queues[q].working>> \o queues[q].items
        BY <1>3, <3>2, <3>4 DEF WorkOf
      <4>3. \A w \in Delta, items \in Seq(Delta) :
                <<w>> \o Append(items, d) = Append(<<w>> \o items, d)
        OBVIOUS
      <4> QED BY <3>1, <3>2, <4>1, <4>2, <4>3
    <3> QED BY <3>3, <3>4
  <2> QED BY <2>1, <2>2
<1> QED BY <1>2, <1>4 DEF r

LEMMA ResumeWork ==
    ASSUME QueueInv, QueueInv', NEW r \in Root, Resume(r)
    PROVE  \A s \in Root : Work(s)' = Work(s)
<1> DEFINE q == roots[r]
           state == [queues[q] EXCEPT !.paused = FALSE]
<1>1. PICK new, x :
          /\ q \in Queue /\ Drainable(q, r, state)
          /\ OneQueue(q, r, new, x) /\ Scheduled(q, r, state, new, x)
  BY ResumeOutcome
<1>2. q # None
  BY DEF Resume
<1>3. queues[q] \in RootQueue /\ Work(r) = WorkOf(queues[q])
  BY <1>2, WorkIs
<1>4. WorkOf(state) = WorkOf(queues[q])
  BY <1>3 DEF WorkOf, RootQueue
<1> HIDE DEF state
<1>5. (\A s \in Root \ {r} : Work(s)' = Work(s)) /\ Work(r)' = WorkOf(state)
  BY <1>1, ScheduledWork
<1> QED BY <1>3, <1>4, <1>5

LEMMA ScheduleWaitingWork ==
    ASSUME QueueInv, QueueInv', NEW pair \in waiting, ScheduleWaiting(pair[1], pair[2])
    PROVE  \A s \in Root : Work(s)' = Work(s)
<1>1. CASE UNCHANGED <<queues, roots>>
  BY <1>1 DEF Work
<1>2. CASE ~UNCHANGED <<queues, roots>>
  <2>1. PICK q, r, state, new, x :
          /\ q \in Queue /\ r \in Root
          /\ state = queues[q] /\ roots[r] = q /\ Drainable(q, r, state)
          /\ OneQueue(q, r, new, x) /\ Scheduled(q, r, state, new, x)
    BY <1>2, ScheduleWaitingOutcome
  <2>2. (\A s \in Root \ {r} : Work(s)' = Work(s)) /\ Work(r)' = WorkOf(state)
    BY <2>1, ScheduledWork
  <2>3. q # None
    BY <2>1, ConstantsAssumption
  <2>4. Work(r) = WorkOf(queues[q])
    BY <2>1, <2>3, WorkIs
  <2> QED BY <2>1, <2>2, <2>4
<1> QED BY <1>1, <1>2

\* A delta that was processed was what its folder had to do first, or it was cleared.
LEMMA SettleWork ==
    ASSUME QueueInv, QueueInv', NEW q \in Queue, Settle(q)
    PROVE  \A s \in Root : \/ Work(s)' = Work(s)
                           \/ Work(s) # <<>> /\ Work(s)' = Tail(Work(s))
<1> DEFINE state == queues[q]
<1>1. PICK r, new, x : /\ r \in Root /\ r = state.root
                       /\ OneQueue(q, r, new, x) /\ Settled(q, r, new, x)
  BY SettleOutcome
<1>2. state \in RootQueue /\ state.working # None /\ q # None
  BY ConstantsAssumption DEF Settle, QueueInv, QueuesOK
<1>3. /\ state.items \in Seq(Delta)
      /\ WorkOf(state) # <<>> /\ Tail(WorkOf(state)) = state.items
  BY <1>2, WorkOfType DEF RootQueue
<1>4. /\ \A s \in Root \ {r} : Work(s)' = Work(s)
      /\ x = None => Work(r)' = <<>>
      /\ x = q => Work(r)' = WorkOf(new)
      /\ x # None /\ x # q => Work(r)' = Work(r)
  BY <1>1, OneQueueWork
<1>5. roots[r] = q => Work(r) = WorkOf(state)
  BY <1>1, <1>2, WorkIs
<1> SUFFICES Work(r)' = Work(r) \/ (Work(r) # <<>> /\ Work(r)' = Tail(Work(r)))
  BY <1>4
<1>6. CASE state.aborted /\ x = roots[r]
  <2>1. roots[r] # q
    BY <1>1, <1>2, <1>6 DEF QueueInv, CurrentInUse
  <2>2. roots[r] = None => Work(r) = <<>>
    BY <1>1, WorkIs
  <2> QED BY <1>4, <1>6, <2>1, <2>2
<1>7. ASSUME roots[r] = q, Work(r)' = state.items
      PROVE  Work(r) # <<>> /\ Work(r)' = Tail(Work(r))
  BY <1>3, <1>5, <1>7
<1>8. CASE /\ roots[r] = q
           /\ new = [state EXCEPT !.paused = TRUE, !.working = None] /\ x = q
  <2>1. new \in RootQueue /\ new.working = None /\ new.items = state.items
    BY <1>1, <1>2, <1>8 DEF OneQueue, RootQueue
  <2>2. WorkOf(new) = state.items
    BY <2>1, WorkOfType
  <2> QED BY <1>4, <1>7, <1>8, <2>2
<1>9. CASE roots[r] = q /\ state.items = <<>> /\ x = None
  BY <1>4, <1>7, <1>9
<1>10. CASE /\ roots[r] = q /\ state.items # <<>>
            /\ new = [state EXCEPT !.working = Head(state.items), !.items = Tail(state.items)]
            /\ x = q
  <2>1. Head(state.items) \in Delta /\ Tail(state.items) \in Seq(Delta)
    BY <1>3, <1>10, TakeNext
  <2>2. new.working = Head(state.items) /\ new.items = Tail(state.items)
    BY <1>2, <1>10 DEF RootQueue
  <2>3. WorkOf(new) = <<Head(state.items)>> \o Tail(state.items)
    BY <2>1, <2>2, ConstantsAssumption DEF WorkOf
  <2>4. <<Head(state.items)>> \o Tail(state.items) = state.items
    BY <1>3, <1>10
  <2> QED BY <1>4, <1>7, <1>10, <2>3, <2>4
<1> HIDE DEF state
<1> QED BY <1>1, <1>6, <1>8, <1>9, <1>10 DEF Settled, state

LEMMA ClearWork ==
    ASSUME QueueInv, QueueInv', NEW r \in Root, ClearRoot(r)
    PROVE  Work(r)' = <<>> /\ \A s \in Root \ {r} : Work(s)' = Work(s)
<1>1. /\ roots' = [roots EXCEPT ![r] = None]
      /\ \A p \in Queue : p # roots[r] => queues'[p] = queues[p]
  BY DEF ClearRoot, QueueInv, QueuesOK
<1>2. Work(r)' = <<>>
  BY <1>1 DEF Work, QueueInv, QueuesOK
<1>3. ASSUME NEW s \in Root \ {r} PROVE Work(s)' = Work(s)
  <2>1. roots'[s] = roots[s] /\ (roots[s] # None => roots[s] \in Queue)
    BY <1>1 DEF QueueInv, QueuesOK
  <2>2. roots[s] # None => roots[s] # roots[r]
    BY DEF QueueInv, CurrentInUse
  <2> QED BY <1>1, <2>1, <2>2 DEF Work
<1> QED BY <1>2, <1>3

-----------------------------------------------------------------------------
(* The memory *)

\* The memory as it is stated over the places of the sequence.
MemoryInv ==
    /\ seen \in Seq(Delta) /\ Len(seen) <= MaxRemembered
    /\ NoRepeat(seen)
    /\ \A r \in Root : EndsAlike(Work(r), Remembered(r))

LEMMA RememberedType ==
    ASSUME seen \in Seq(Delta), NEW r \in Root
    PROVE  Remembered(r) \in Seq(Delta)
BY OfRootsType DEF Remembered

LEMMA MemoryInvIs ==
    ASSUME QueueInv
    PROVE  MemoryInv <=> MemoryExact
<1>1. ASSUME seen \in Seq(Delta), NEW r \in Root
      PROVE  EndsAlike(Work(r), Remembered(r))
                <=> IsSuffix(Work(r), Remembered(r)) \/ IsSuffix(Remembered(r), Work(r))
  <2>1. Work(r) \in Seq(Delta) /\ Remembered(r) \in Seq(Delta)
    BY <1>1, WorkIs, RememberedType
  <2> QED BY <2>1, SuffixesEndAlike
<1>2. ASSUME seen \in Seq(Delta)
      PROVE  NoRepeat(seen) <=> \A i, j \in DOMAIN seen : seen[i] = seen[j] => i = j
  <2>1. DOMAIN seen = 1..Len(seen)
    BY <1>2
  <2> QED BY <2>1 DEF NoRepeat
<1> QED BY <1>1, <1>2 DEF MemoryInv, MemoryExact, MemoryMatchesQueue, TypeOK, QueueInv

LEMMA MemoryInit == Init => MemoryInv
<1> SUFFICES ASSUME Init PROVE MemoryInv
  OBVIOUS
<1>1. /\ seen = <<>> /\ seen \in Seq(Delta) /\ Len(seen) = 0
      /\ \A r \in Root : roots[r] = None
  BY DEF Init
<1>2. NoRepeat(seen)
  BY <1>1 DEF NoRepeat
<1>3. ASSUME NEW r \in Root PROVE EndsAlike(Work(r), Remembered(r))
  <2>1. Work(r) = <<>> /\ Len(<<>>) = 0
    BY <1>1 DEF Work
  <2>2. \A k \in Nat : ~(k < 0)
    OBVIOUS
  <2> QED BY <2>1, <2>2 DEF EndsAlike
<1> QED BY <1>1, <1>2, <1>3, ConstantsAssumption DEF MemoryInv

\* A new id is remembered last, and the oldest is forgotten when the memory is full.
LEMMA RememberIs ==
    ASSUME seen \in Seq(Delta), Len(seen) <= MaxRemembered, NoRepeat(seen),
           NEW d \in Delta, ~IsSeen(d)
    PROVE  /\ Remember(d) \in Seq(Delta) /\ Len(Remember(d)) <= MaxRemembered
           /\ NoRepeat(Remember(d))
           /\ \/ Remember(d) = Append(seen, d)
              \/ Append(seen, d) # <<>> /\ Remember(d) = Tail(Append(seen, d))
<1> DEFINE ids == Append(seen, d)
<1>1. ids \in Seq(Delta) /\ Len(ids) = Len(seen) + 1 /\ Len(seen) \in Nat /\ ids # <<>>
  OBVIOUS
<1>2. NoRepeat(ids)
  <2>1. ~IsIn(d, seen)
    BY DEF IsSeen, IsIn
  <2> QED BY <2>1, NoRepeatAppend
<1> HIDE DEF ids
<1>3. /\ Tail(ids) \in Seq(Delta) /\ Len(Tail(ids)) = Len(ids) - 1
      /\ \A i \in 1..Len(Tail(ids)) : Tail(ids)[i] = ids[i + 1]
  BY <1>1, HeadTailProperties
<1>4. NoRepeat(Tail(ids))
  <2>1. \A i \in 1..Len(Tail(ids)) : i \in Int /\ i + 1 \in 1..Len(ids)
    BY <1>1, <1>3
  <2> QED BY <1>2, <1>3, <2>1 DEF NoRepeat
<1>5. Remember(d) = IF Len(ids) > MaxRemembered THEN Tail(ids) ELSE ids
  BY DEF Remember, ids
<1>6. MaxRemembered \in Nat
  BY ConstantsAssumption
<1>7. CASE Len(ids) > MaxRemembered
  BY <1>1, <1>3, <1>4, <1>5, <1>6, <1>7 DEF ids
<1>8. CASE ~(Len(ids) > MaxRemembered)
  BY <1>1, <1>2, <1>5, <1>6, <1>8 DEF ids
<1> QED BY <1>7, <1>8

LEMMA EnqueueMemory ==
    ASSUME QueueInv, QueueInv', MemoryInv, NEW d \in Delta, Enqueue(d)
    PROVE  MemoryInv'
<1> DEFINE ids == Append(seen, d)
<1>1. seen' = Remember(d) /\ ~IsSeen(d)
  BY DEF Enqueue
<1>2. seen \in Seq(Delta) /\ ids \in Seq(Delta)
  BY DEF MemoryInv
<1>3. /\ seen' \in Seq(Delta) /\ Len(seen') <= MaxRemembered /\ NoRepeat(seen')
      /\ \/ seen' = ids
         \/ ids # <<>> /\ seen' = Tail(ids)
  BY <1>1, RememberIs DEF MemoryInv
<1> HIDE DEF ids
<1>4. ASSUME NEW r \in Root PROVE EndsAlike(Work(r)', Remembered(r)')
  <2> DEFINE work == Work(r)'
             longer == OfRoots(ids, {r})
  <2>1. Work(r) \in Seq(Delta) /\ Remembered(r) \in Seq(Delta)
    BY <1>2, WorkIs, RememberedType
  <2>2. longer = IF RootOf[d] = r THEN Append(Remembered(r), d) ELSE Remembered(r)
    BY <1>2, OfRootsAppend DEF ids, Remembered
  <2>3. work = IF RootOf[d] = r THEN Append(Work(r), d) ELSE Work(r)
    BY EnqueueWork
  <2>4. EndsAlike(Work(r), Remembered(r))
    BY DEF MemoryInv
  <2>5. work \in Seq(Delta) /\ longer \in Seq(Delta)
    <3>1. Append(Work(r), d) \in Seq(Delta) /\ Append(Remembered(r), d) \in Seq(Delta)
      BY <2>1, AppendProperties
    <3> HIDE DEF work, longer
    <3> QED BY <2>1, <2>2, <2>3, <3>1
  <2>6. Remembered(r)' = OfRoots(seen', {r})
    BY DEF Remembered
  <2>7. \/ Remembered(r)' = longer
        \/ longer # <<>> /\ Remembered(r)' = Tail(longer)
    BY <1>2, <1>3, <2>6, OfRootsTail
  <2> HIDE DEF work, longer
  <2>8. EndsAlike(work, longer)
    BY <2>1, <2>2, <2>3, <2>4, EndsAlikeAppend
  <2>9. longer # <<>> => EndsAlike(work, Tail(longer))
    <3>1. EndsAlike(longer, work)
      BY <2>8 DEF EndsAlike
    <3> QED BY <2>5, <3>1, EndsAlikeTail
  <2> QED BY <2>7, <2>8, <2>9 DEF work
<1>5. (\A r \in Root : EndsAlike(Work(r), Remembered(r)))'
  BY <1>4 DEF EndsAlike
<1> QED BY <1>3, <1>5 DEF MemoryInv, NoRepeat

\* A step that leaves the memory and does at most the first of a folder's deltas.
LEMMA WorkMemory ==
    ASSUME QueueInv, MemoryInv, seen' = seen,
           \A s \in Root : \/ Work(s)' = Work(s)
                           \/ Work(s) # <<>> /\ Work(s)' = Tail(Work(s))
    PROVE  MemoryInv'
<1>1. ASSUME NEW r \in Root PROVE EndsAlike(Work(r)', Remembered(r)')
  <2>1. Remembered(r)' = Remembered(r)
    BY DEF Remembered
  <2>2. Work(r) \in Seq(Delta) /\ Remembered(r) \in Seq(Delta)
    BY WorkIs, RememberedType DEF MemoryInv
  <2>3. EndsAlike(Work(r), Remembered(r))
    BY DEF MemoryInv
  <2>4. Work(r) # <<>> => EndsAlike(Tail(Work(r)), Remembered(r))
    BY <2>2, <2>3, EndsAlikeTail
  <2> QED BY <2>1, <2>3, <2>4
<1>2. (\A r \in Root : EndsAlike(Work(r), Remembered(r)))'
  BY <1>1 DEF EndsAlike
<1> QED BY <1>2 DEF MemoryInv, NoRepeat

\* Clearing a folder forgets its ids, and no others.
LEMMA ClearMemory ==
    ASSUME QueueInv, QueueInv', MemoryInv, NEW r \in Root, ClearRoot(r)
    PROVE  MemoryInv'
<1>1. seen' = OfRoots(seen, Root \ {r}) /\ seen \in Seq(Delta)
  BY DEF ClearRoot, ForgetRoot, MemoryInv
<1>2. seen' \in Seq(Delta) /\ Len(seen') <= Len(seen)
  BY <1>1, OfRootsType
<1>3. Len(seen') <= MaxRemembered
  <2>1. Len(seen) \in Nat /\ Len(seen') \in Nat /\ MaxRemembered \in Nat
    BY <1>1, <1>2, ConstantsAssumption
  <2> QED BY <1>2, <2>1 DEF MemoryInv
<1>4. NoRepeat(seen')
  BY <1>1, OfRootsNoRepeat DEF MemoryInv
<1>5. ASSUME NEW s \in Root PROVE EndsAlike(Work(s)', Remembered(s)')
  <2>1. Remembered(s)' = OfRoots(OfRoots(seen, Root \ {r}), {s})
    BY <1>1 DEF Remembered
  <2>2. CASE s = r
    <3>1. Work(s)' = <<>> /\ Len(<<>>) = 0
      BY <2>2, ClearWork
    <3>2. \A k \in Nat : ~(k < 0)
      OBVIOUS
    <3> QED BY <3>1, <3>2 DEF EndsAlike
  <2>3. CASE s # r
    <3>1. Remembered(s)' = Remembered(s)
      BY <1>1, <2>1, <2>3, OfRootsTwice DEF Remembered
    <3>2. Work(s)' = Work(s)
      BY <2>3, ClearWork
    <3> QED BY <3>1, <3>2 DEF MemoryInv
  <2> QED BY <2>2, <2>3
<1>6. (\A s \in Root : EndsAlike(Work(s), Remembered(s)))'
  BY <1>5 DEF EndsAlike
<1> QED BY <1>2, <1>3, <1>4, <1>6 DEF MemoryInv, NoRepeat

LEMMA MemoryStep == QueueInv /\ QueueInv' /\ MemoryInv /\ [Next]_vars => MemoryInv'
<1> SUFFICES ASSUME QueueInv, QueueInv', MemoryInv, [Next]_vars PROVE MemoryInv'
  OBVIOUS
<1>1. ASSUME seen' = seen, \A s \in Root : Work(s)' = Work(s) PROVE MemoryInv'
  BY <1>1, WorkMemory
<1>2. ASSUME NEW r \in Root, Resume(r) PROVE MemoryInv'
  BY <1>1, <1>2, ResumeWork DEF Resume
<1>3. ASSUME NEW q \in Queue, Settle(q) PROVE MemoryInv'
  BY <1>3, SettleWork, WorkMemory DEF Settle
<1>4. ASSUME NEW pair \in waiting, ScheduleWaiting(pair[1], pair[2]) PROVE MemoryInv'
  BY <1>1, <1>4, ScheduleWaitingWork DEF ScheduleWaiting
<1>5. ASSUME UNCHANGED <<queues, roots, seen>> PROVE MemoryInv'
  BY <1>1, <1>5 DEF Work
<1>6. ASSUME NEW r \in Root, StopSession(r) PROVE UNCHANGED <<queues, roots, seen>>
  BY <1>6 DEF StopSession
<1>7. ASSUME NEW q \in Queue, FinishClearing(q) PROVE UNCHANGED <<queues, roots, seen>>
  BY <1>7 DEF FinishClearing
<1>8. UNCHANGED vars => UNCHANGED <<queues, roots, seen>>
  BY DEF vars
<1> QED BY <1>2, <1>3, <1>4, <1>5, <1>6, <1>7, <1>8, EnqueueMemory, ClearMemory DEF Next

(***************************************************************************)
(* What is remembered of a folder and what its queue still has to do are   *)
(* two ends of the same sequence of accepted deltas, no id is remembered   *)
(* twice and the memory keeps its bound: an id that is forgotten, because  *)
(* it is the oldest or because its folder is cleared, is no other's.       *)
(***************************************************************************)
THEOREM MemoryIsExact == Spec => []MemoryExact
<1>1. Init => QueueInv /\ MemoryInv
  BY QueueInit, MemoryInit
<1>2. QueueInv /\ MemoryInv /\ [Next]_vars => (QueueInv /\ MemoryInv)'
  BY QueueStep, MemoryStep
<1>3. QueueInv /\ MemoryInv => MemoryExact
  BY MemoryInvIs
<1> QED BY <1>1, <1>2, <1>3, PTL DEF Spec

-----------------------------------------------------------------------------
(***************************************************************************)
(* The session of a folder: its inductive invariant, LifecycleInv.         *)
(***************************************************************************)
Acknowledging == {"acknowledge 1", "acknowledge 2", "acknowledge 3"}
Begun == {"record", "assets", "done"}

-----------------------------------------------------------------------------
(***************************************************************************)
(* Messages.  A mount has one start and one stop under way at most, and so *)
(* have the queue and the answer of the user one call.                     *)
(***************************************************************************)
Same(m, n) ==
    /\ m.kind = n.kind /\ m.kind # "note"
    /\ IF m.kind = "resolve" THEN m.by = n.by ELSE m.mount = n.mount

Unique(s) == \A i, j \in DOMAIN s : Same(s[i], s[j]) => i = j
Apart(S, T) == \A m \in S, n \in T : ~Same(m, n)

Sent == ToSet(calls)
Arriving == ToSet(wire)
UnderWay == Sent \cup Arriving
Waiting == ToSet(records)

Once(cs, ws, os) ==
    /\ Unique(cs) /\ Unique(ws) /\ Apart(ToSet(cs), ToSet(ws))
    /\ \A o, p \in os : o.mount = p.mount => o = p
    /\ \A o \in os, m \in ToSet(cs) \cup ToSet(ws) : m.kind = "start" => m.mount # o.mount

OnceEach == Once(calls, wire, opening) /\ Unique(records)

\* What is under way is waited for.
Expected(m) ==
    /\ m.kind = "start" => task[m.mount] = "start"
    /\ m.kind = "stop" => cleanup[m.mount] \in {"stop", "stop again"}
    /\ m.kind = "resolve" /\ m.by = "queue" => step \in Acknowledging
    /\ m.kind = "resolve" /\ m.by = "answer" => answer # Nothing /\ answer.step \in Acknowledging

AllExpected ==
    /\ \A m \in UnderWay : Expected(m)
    /\ \A o \in opening : task[o.mount] = "start"
    /\ \A r \in Waiting : r.kind = "start" => task[r.mount] = "record"

Messages == OnceEach /\ AllExpected

(***************************************************************************)
(* Mounts take turns: one starts when those before it have settled.        *)
(***************************************************************************)
Turn(e) ==
    /\ task[e] = "none" <=> e > mounts
    /\ cleanup[e] = "none" <=> e > mounts \/ e = current
    /\ task[e] \notin {"none", "wait"} => \A b \in Mount : b < e => cleanup[b] = "settled"
    /\ cleanup[e] = "settled" => task[e] \in {"done", "late"}
    /\ cleanup[e] = "stop again" => task[e] = "late"

Turns ==
    /\ current \in {0, mounts} /\ (starting => current # 0)
    /\ \A e \in Mount : Turn(e)

(***************************************************************************)
(* Only what was merged is accepted.                                       *)
(***************************************************************************)
AcceptsMerged ==
    /\ \A c \in Sent : c.kind = "resolve" /\ c.how = "accept" => c.delta \in merged
    /\ step \in Acknowledging => busy.delta \in merged
    /\ answer # Nothing /\ answer.step \in DOMAIN NextTry => answer.delta \in merged
    /\ AcceptedIsMerged

(***************************************************************************)
(* A delta that is under way was found by a session.                       *)
(***************************************************************************)
Found(d) == owner[d] # 0

AllFound ==
    /\ native.ready => native.inst # 0
    /\ pending # Nothing => Found(pending)
    /\ \A m \in Arriving : m.kind = "note" => Found(m.delta)
    /\ \A r \in Waiting : r.kind = "note" => Found(r.delta) /\ r.inst = owner[r.delta]
    /\ \A d \in ToSet(buffered) \cup ToSet(chan) : Found(d)
    /\ busy # Nothing => Found(busy.delta)

(***************************************************************************)
(* The session that is started for the current mount runs until its stop.  *)
(***************************************************************************)
Runs(inst) == native.inst = inst /\ native.heard

SessionRuns ==
    /\ \A o \in opening : o.mount = current => Runs(o.inst)
    /\ \A m \in Arriving : m.kind = "start" /\ m.mount = current /\ m.inst # 0 => Runs(m.inst)
    /\ active # 0 => current # 0 /\ task[current] \in Begun /\ Runs(active)

(***************************************************************************)
(* While a delta is processed whose queue was dropped, its session runs:   *)
(* the cleanup of the mount e that dropped it waits, and so do the others. *)
(***************************************************************************)
DrainedBy(e) ==
    /\ cleanup[e] = "drain" /\ task[e] \in Begun
    /\ \A b \in Mount : b > e => cleanup[b] \in {"none", "drain"}

DrainHolds ==
    Draining /\ busy.delta \notin late =>
        native.inst = owner[busy.delta] /\ \E e \in Mount : DrainedBy(e)

(***************************************************************************)
(* One review at a time, until an answer outlives its session.             *)
(***************************************************************************)
Reviewed ==
    /\ reviews # {} => current # 0
    /\ answer # Nothing => answer.mount <= mounts
    /\ ~stray =>
          /\ \A c, d \in reviews : c = d
          /\ answer # Nothing /\ answer.mount = current => reviews = {answer.delta}
    /\ ReviewHoldsFolder

LifecycleInv ==
    /\ LifecycleTypeOK /\ Messages /\ Turns /\ AcceptsMerged /\ AllFound /\ SessionRuns
    /\ OwnSessionOnly /\ DrainHolds /\ Reviewed

-----------------------------------------------------------------------------
(***************************************************************************)
(* Sequences of messages.                                                  *)
(***************************************************************************)
LEMMA SameSymmetric == \A m, n : Same(m, n) <=> Same(n, m)
BY DEF Same

LEMMA HeadAndTail ==
    ASSUME NEW S, NEW s \in Seq(S), s # <<>>
    PROVE  /\ Head(s) \in S /\ Tail(s) \in Seq(S)
           /\ ToSet(s) = {Head(s)} \cup ToSet(Tail(s))
           /\ Unique(s) => Unique(Tail(s)) /\ \A m \in ToSet(Tail(s)) : ~Same(Head(s), m)
<1>1. /\ Len(s) \in Nat \ {0} /\ DOMAIN s = 1..Len(s)
      /\ Len(Tail(s)) = Len(s) - 1 /\ DOMAIN Tail(s) = 1..(Len(s) - 1)
      /\ Head(s) = s[1] /\ \A i \in 1..(Len(s) - 1) : Tail(s)[i] = s[i + 1]
      /\ Head(s) \in S /\ Tail(s) \in Seq(S)
  OBVIOUS
<1>2. ToSet(s) = {Head(s)} \cup ToSet(Tail(s))
  <2>1. ASSUME NEW i \in DOMAIN s PROVE s[i] \in {Head(s)} \cup ToSet(Tail(s))
    <3>1. i = 1 \/ (i - 1 \in 1..(Len(s) - 1) /\ s[i] = Tail(s)[i - 1])
      BY <1>1
    <3> QED BY <1>1, <3>1 DEF ToSet
  <2>2. ASSUME NEW i \in DOMAIN Tail(s) PROVE Tail(s)[i] \in ToSet(s)
    <3>1. i + 1 \in DOMAIN s
      BY <1>1
    <3> QED BY <1>1, <3>1 DEF ToSet
  <2> QED BY <1>1, <2>1, <2>2 DEF ToSet
<1>3. ASSUME Unique(s) PROVE Unique(Tail(s))
  <2> SUFFICES ASSUME NEW i \in DOMAIN Tail(s), NEW j \in DOMAIN Tail(s),
                      Same(Tail(s)[i], Tail(s)[j])
               PROVE  i = j
    BY DEF Unique
  <2>1. i + 1 \in DOMAIN s /\ j + 1 \in DOMAIN s
    BY <1>1
  <2>2. Same(s[i + 1], s[j + 1])
    BY <1>1
  <2>3. i + 1 = j + 1
    BY <1>3, <2>1, <2>2 DEF Unique
  <2> QED BY <1>1, <2>3
<1>4. ASSUME Unique(s), NEW m \in ToSet(Tail(s)) PROVE ~Same(Head(s), m)
  <2>1. PICK i \in DOMAIN Tail(s) : m = Tail(s)[i]
    BY DEF ToSet
  <2>2. i + 1 \in DOMAIN s /\ 1 \in DOMAIN s /\ m = s[i + 1] /\ i + 1 # 1
    BY <1>1, <2>1
  <2> QED BY <1>1, <1>4, <2>2 DEF Unique
<1> QED BY <1>1, <1>2, <1>3, <1>4

LEMMA OneMore ==
    ASSUME NEW S, NEW s \in Seq(S), NEW x \in S
    PROVE  /\ Append(s, x) \in Seq(S) /\ ToSet(Append(s, x)) = ToSet(s) \cup {x}
           /\ Unique(s) /\ (\A m \in ToSet(s) : ~Same(m, x)) => Unique(Append(s, x))
<1> DEFINE t == Append(s, x)
<1>1. /\ Len(s) \in Nat /\ DOMAIN s = 1..Len(s) /\ DOMAIN t = 1..(Len(s) + 1)
      /\ t[Len(s) + 1] = x /\ t \in Seq(S) /\ \A i \in 1..Len(s) : t[i] = s[i]
  OBVIOUS
<1> HIDE DEF t
<1>2. ToSet(t) = ToSet(s) \cup {x}
  <2>1. ASSUME NEW i \in DOMAIN t PROVE t[i] \in ToSet(s) \cup {x}
    <3>1. i = Len(s) + 1 \/ i \in 1..Len(s)
      BY <1>1
    <3> QED BY <1>1, <3>1 DEF ToSet
  <2>2. ASSUME NEW i \in DOMAIN s PROVE s[i] \in ToSet(t)
    <3>1. i \in DOMAIN t /\ t[i] = s[i]
      BY <1>1
    <3> QED BY <3>1 DEF ToSet
  <2>3. x \in ToSet(t)
    <3>1. Len(s) + 1 \in DOMAIN t
      BY <1>1
    <3> QED BY <1>1, <3>1 DEF ToSet
  <2> QED BY <2>1, <2>2, <2>3 DEF ToSet
<1>3. ASSUME Unique(s), \A m \in ToSet(s) : ~Same(m, x) PROVE Unique(t)
  <2> SUFFICES ASSUME NEW i \in DOMAIN t, NEW j \in DOMAIN t, Same(t[i], t[j]) PROVE i = j
    BY DEF Unique
  <2>1. \A k \in DOMAIN t : \/ k = Len(s) + 1
                            \/ k \in DOMAIN s /\ t[k] = s[k] /\ t[k] \in ToSet(s)
    <3>1. \A k \in DOMAIN t : k = Len(s) + 1 \/ k \in DOMAIN s
      BY <1>1
    <3> QED BY <1>1, <3>1 DEF ToSet
  <2>2. Same(t[j], t[i])
    BY SameSymmetric
  <2> QED BY <1>1, <1>3, <2>1, <2>2 DEF Unique
<1> QED BY <1>1, <1>2, <1>3 DEF t

LEMMA Joined ==
    ASSUME NEW S, NEW s \in Seq(S), NEW t \in Seq(S)
    PROVE  /\ s \o t \in Seq(S) /\ ToSet(s \o t) = ToSet(s) \cup ToSet(t)
           /\ Unique(s) /\ Unique(t) /\ Apart(ToSet(s), ToSet(t)) => Unique(s \o t)
<1> DEFINE u == s \o t
<1>1. /\ Len(s) \in Nat /\ DOMAIN s = 1..Len(s) /\ Len(t) \in Nat /\ DOMAIN t = 1..Len(t)
      /\ DOMAIN u = 1..(Len(s) + Len(t)) /\ u \in Seq(S)
      /\ \A i \in 1..(Len(s) + Len(t)) :
             u[i] = IF i <= Len(s) THEN s[i] ELSE t[i - Len(s)]
  BY ConcatProperties
<1> HIDE DEF u
<1>2. \A i \in DOMAIN u : \/ i \in DOMAIN s /\ u[i] = s[i] /\ u[i] \in ToSet(s)
                          \/ /\ i > Len(s) /\ i - Len(s) \in DOMAIN t
                             /\ u[i] = t[i - Len(s)] /\ u[i] \in ToSet(t)
  BY <1>1 DEF ToSet
<1>3. ToSet(u) = ToSet(s) \cup ToSet(t)
  <2>1. \A i \in DOMAIN s : i \in DOMAIN u /\ u[i] = s[i]
    BY <1>1
  <2>2. \A i \in DOMAIN t : i + Len(s) \in DOMAIN u /\ u[i + Len(s)] = t[i]
    BY <1>1
  <2>3. ToSet(s) \subseteq ToSet(u)
    BY <2>1 DEF ToSet
  <2>4. ToSet(t) \subseteq ToSet(u)
    BY <2>2 DEF ToSet
  <2>5. ToSet(u) \subseteq ToSet(s) \cup ToSet(t)
    BY <1>2 DEF ToSet
  <2> QED BY <2>3, <2>4, <2>5
<1>4. ASSUME Unique(s), Unique(t), Apart(ToSet(s), ToSet(t)) PROVE Unique(u)
  <2> SUFFICES ASSUME NEW i \in DOMAIN u, NEW j \in DOMAIN u, Same(u[i], u[j]) PROVE i = j
    BY DEF Unique
  <2>1. Same(u[j], u[i])
    BY SameSymmetric
  <2> QED BY <1>1, <1>2, <1>4, <2>1 DEF Unique, Apart
<1> QED BY <1>1, <1>3, <1>4 DEF u

(***************************************************************************)
(* The messages.                                                           *)
(***************************************************************************)
StartCall(e) == [kind |-> "start", mount |-> e]
StopCall(e) == [kind |-> "stop", mount |-> e]
ResolveCall(by, d, how) ==
    [kind |-> "resolve", by |-> by, delta |-> d, how |-> how, result |-> "none"]
Started(e, inst) == [kind |-> "start", mount |-> e, inst |-> inst]
Noted(d) == [kind |-> "note", delta |-> d]

LEMMA CallForms ==
    /\ \A e \in Mount : /\ StartCall(e) \in ToMain
                       /\ StopCall(e) \in ToMain /\ StopCall(e) \in ToRenderer
    /\ \A by \in {"queue", "answer"}, d \in Deltas, how \in Verdicts :
           ResolveCall(by, d, how) \in ToMain
BY DEF StartCall, StopCall, ResolveCall, ToMain, ToRenderer

LEMMA MessageForms ==
    /\ \A e \in Mount, inst \in Session : Started(e, inst) \in ToRenderer
    /\ \A d \in Deltas : Noted(d) \in ToRenderer
    /\ \A e \in Mount, inst \in Session \ {0} : Started(e, inst) \in Recorded
    /\ \A inst \in Session, d \in Deltas : Note(inst, d) \in Recorded
BY DEF Started, Noted, Note, ToRenderer, Recorded

LEMMA CallIs ==
    ASSUME NEW c \in ToMain
    PROVE  /\ c.kind \in {"start", "stop", "resolve"}
           /\ c.kind \in {"start", "stop"} => c.mount \in Mount
           /\ c.kind = "start" => c = StartCall(c.mount)
           /\ c.kind = "stop" => c = StopCall(c.mount)
           /\ c.kind = "resolve" =>
                  /\ c.by \in {"queue", "answer"} /\ c.delta \in Deltas /\ c.how \in Verdicts
                  /\ c = ResolveCall(c.by, c.delta, c.how)
BY DEF ToMain, StartCall, StopCall, ResolveCall

LEMMA MessageIs ==
    ASSUME NEW m \in ToRenderer
    PROVE  /\ m.kind \in {"start", "stop", "resolve", "note"}
           /\ m.kind \in {"start", "stop"} => m.mount \in Mount
           /\ m.kind = "start" => m.inst \in Session
           /\ m.kind = "resolve" => m.by \in {"queue", "answer"}
           /\ m.kind = "note" => m.delta \in Deltas
BY DEF ToRenderer

LEMMA RecordIs ==
    ASSUME NEW r \in Recorded
    PROVE  /\ r.kind \in {"start", "note"}
           /\ r.kind = "start" => r.mount \in Mount /\ r.inst \in Session \ {0}
           /\ r.kind = "note" => r.inst \in Session /\ r.delta \in Deltas
BY DEF Recorded

\* The answer to a resolution.
Replied(c, result) == [c EXCEPT !.result = result]

LEMMA ReplyIs ==
    ASSUME NEW c \in ToMain, c.kind = "resolve", NEW result \in {"ok", "stale", "error"}
    PROVE  /\ Replied(c, result) \in ToRenderer
           /\ Replied(c, result).kind = "resolve" /\ Replied(c, result).by = c.by
BY DEF ToMain, ToRenderer, Replied
-----------------------------------------------------------------------------
(***************************************************************************)
(* What is buffered of a session.                                          *)
(***************************************************************************)
\* The solutions of the recursion BufferedOf is defined by.
BufferedFold(h, inst) ==
    h = [s \in SUBSET (DOMAIN buffered) |->
            IF s = {} THEN <<>>
            ELSE IF owner[buffered[Max(s)]] = inst
            THEN Append(h[s \ {Max(s)}], buffered[Max(s)])
            ELSE h[s \ {Max(s)}]]

LEMMA BufferedIs ==
    ASSUME buffered \in Seq(Deltas), NEW inst
    PROVE  BufferedOf(inst) \in Seq({d \in Deltas : owner[d] = inst})
<1> DEFINE Own == {d \in Deltas : owner[d] = inst}
           F == [pair \in Seq(Own) \X Deltas |->
                    IF owner[pair[2]] = inst THEN Append(pair[1], pair[2]) ELSE pair[1]]
<1>1. F \in [Seq(Own) \X Deltas -> Seq(Own)]
  <2>1. \A pair \in Seq(Own) \X Deltas :
            owner[pair[2]] = inst => Append(pair[1], pair[2]) \in Seq(Own)
    <3> SUFFICES ASSUME NEW s \in Seq(Own), NEW d \in Own PROVE Append(s, d) \in Seq(Own)
      OBVIOUS
    <3> HIDE DEF Own
    <3> QED BY AppendProperties
  <2> QED BY <2>1
<1>2. <<>> \in Seq(Own)
  OBVIOUS
<1>3. PICK h \in [SUBSET (DOMAIN buffered) -> Seq(Own)] : Fold(h, buffered, <<>>, F)
  <2> HIDE DEF F, Own
  <2> QED BY <1>1, <1>2, FoldExists
<1>4. BufferedFold(h, inst)
  <2>1. ASSUME NEW s \in SUBSET (DOMAIN buffered), s # {}
        PROVE  F[<<h[s \ {Max(s)}], buffered[Max(s)]>>]
                  = IF owner[buffered[Max(s)]] = inst
                    THEN Append(h[s \ {Max(s)}], buffered[Max(s)])
                    ELSE h[s \ {Max(s)}]
    <3>1. Len(buffered) \in Nat /\ DOMAIN buffered = 1..Len(buffered)
      OBVIOUS
    <3>2. Max(s) \in s
      BY <2>1, <3>1, MaxIs
    <3>3. buffered[Max(s)] \in Deltas /\ h[s \ {Max(s)}] \in Seq(Own)
      BY <3>2
    <3> HIDE DEF Own
    <3> QED BY <3>3
  <2> HIDE DEF F
  <2>2. /\ h = [s \in SUBSET (DOMAIN buffered) |-> h[s]]
        /\ \A s \in SUBSET (DOMAIN buffered) :
               h[s] = IF s = {} THEN <<>> ELSE F[<<h[s \ {Max(s)}], buffered[Max(s)]>>]
    BY <1>3 DEF Fold
  <2> DEFINE G(s) == IF s = {} THEN <<>>
                     ELSE IF owner[buffered[Max(s)]] = inst
                     THEN Append(h[s \ {Max(s)}], buffered[Max(s)])
                     ELSE h[s \ {Max(s)}]
  <2>3. \A s \in SUBSET (DOMAIN buffered) : h[s] = G(s)
    BY <2>1, <2>2
  <2>4. h = [s \in SUBSET (DOMAIN buffered) |-> G(s)]
    <3> HIDE DEF G
    <3> QED BY <2>2, <2>3
  <2> QED BY <2>4, Zenon DEF BufferedFold
<1> DEFINE g == CHOOSE g : BufferedFold(g, inst)
<1>5. BufferedOf(inst) = g[DOMAIN buffered]
  BY DEF BufferedOf, FoldLeft, MapThenFoldSet, BufferedFold
<1>6. BufferedFold(g, inst)
  BY <1>4
<1> HIDE DEF g
<1>7. Len(buffered) \in Nat /\ DOMAIN buffered = 1..Len(buffered)
  OBVIOUS
<1>8. \A s \in SUBSET (DOMAIN buffered) :
          g[s] = IF s = {} THEN <<>>
                 ELSE IF owner[buffered[Max(s)]] = inst
                 THEN Append(g[s \ {Max(s)}], buffered[Max(s)])
                 ELSE g[s \ {Max(s)}]
  BY <1>6 DEF BufferedFold
<1> DEFINE P == {n \in Nat : n <= Len(buffered) => g[1..n] \in Seq(Own)}
<1>9. 0 \in P
  <2>1. 1..0 = {} /\ 1..0 \in SUBSET (DOMAIN buffered)
    OBVIOUS
  <2>2. g[1..0] = <<>>
    BY <1>8, <2>1
  <2> QED BY <1>2, <2>2
<1>10. ASSUME NEW n \in Nat, n \in P PROVE n + 1 \in P
  <2> DEFINE N == n + 1
  <2> SUFFICES ASSUME N <= Len(buffered) PROVE g[1..N] \in Seq(Own)
    OBVIOUS
  <2>1. /\ N \in Nat \ {0} /\ 1..N \in SUBSET (DOMAIN buffered) /\ buffered[N] \in Deltas
        /\ N - 1 = n
    BY <1>7
  <2>2. Max(1..N) = N /\ 1..N # {} /\ (1..N) \ {N} = 1..n
    <3> HIDE DEF N
    <3> QED BY <2>1, MaxInterval
  <2>3. g[1..N] = IF owner[buffered[Max(1..N)]] = inst
                  THEN Append(g[(1..N) \ {Max(1..N)}], buffered[Max(1..N)])
                  ELSE g[(1..N) \ {Max(1..N)}]
    <3> HIDE DEF N
    <3> QED BY <1>8, <2>1, <2>2, Zenon
  <2>4. g[1..N] = IF owner[buffered[N]] = inst THEN Append(g[1..n], buffered[N]) ELSE g[1..n]
    <3> HIDE DEF N
    <3> QED BY <2>2, <2>3, Zenon
  <2>5. g[1..n] \in Seq(Own)
    BY <1>7, <1>10
  <2>6. owner[buffered[N]] = inst => buffered[N] \in Own
    BY <2>1
  <2> HIDE DEF N, Own
  <2>7. owner[buffered[N]] = inst => Append(g[1..n], buffered[N]) \in Seq(Own)
    BY <2>5, <2>6, AppendProperties
  <2> QED BY <2>4, <2>5, <2>7
<1>11. Nat \subseteq P
  <2> HIDE DEF P
  <2> QED BY <1>9, <1>10, Induction
<1>12. g[1..Len(buffered)] \in Seq(Own)
  BY <1>7, <1>11
<1> QED BY <1>5, <1>7, <1>12

-----------------------------------------------------------------------------
(***************************************************************************)
(* The first message of each channel.                                      *)
(***************************************************************************)
LEMMA FirstCall ==
    ASSUME LifecycleTypeOK, calls # <<>>
    PROVE  /\ Head(calls) \in ToMain /\ Tail(calls) \in Seq(ToMain)
           /\ Sent = {Head(calls)} \cup ToSet(Tail(calls))
           /\ Unique(calls) =>
                 Unique(Tail(calls)) /\ \A m \in ToSet(Tail(calls)) : ~Same(Head(calls), m)
BY HeadAndTail DEF LifecycleTypeOK, Sent

LEMMA FirstMessage ==
    ASSUME LifecycleTypeOK, wire # <<>>
    PROVE  /\ Head(wire) \in ToRenderer /\ Tail(wire) \in Seq(ToRenderer)
           /\ Arriving = {Head(wire)} \cup ToSet(Tail(wire))
           /\ Unique(wire) =>
                 Unique(Tail(wire)) /\ \A m \in ToSet(Tail(wire)) : ~Same(Head(wire), m)
BY HeadAndTail DEF LifecycleTypeOK, Arriving

LEMMA FirstRecord ==
    ASSUME LifecycleTypeOK, records # <<>>
    PROVE  /\ Head(records) \in Recorded /\ Tail(records) \in Seq(Recorded)
           /\ Waiting = {Head(records)} \cup ToSet(Tail(records))
           /\ Unique(records) =>
                 /\ Unique(Tail(records))
                 /\ \A r \in ToSet(Tail(records)) : ~Same(Head(records), r)
BY HeadAndTail DEF LifecycleTypeOK, Waiting

LEMMA Elements ==
    ASSUME LifecycleTypeOK
    PROVE  /\ Sent \subseteq ToMain /\ Arriving \subseteq ToRenderer
           /\ Waiting \subseteq Recorded
           /\ ToSet(chan) \subseteq Deltas /\ ToSet(buffered) \subseteq Deltas
<1>1. ASSUME NEW S, NEW s \in Seq(S) PROVE ToSet(s) \subseteq S
  BY ElementOfSeq DEF ToSet
<1> QED BY <1>1 DEF LifecycleTypeOK, Sent, Arriving, Waiting

-----------------------------------------------------------------------------
(***************************************************************************)
(* Type correctness.                                                       *)
(***************************************************************************)
LEMMA Constants ==
    /\ MaxMounts \in Nat /\ MaxSessions \in Nat /\ MaxDeltas \in Nat
    /\ MaxAnswers \in Nat /\ MaxFailures \in Nat
    /\ Nothing \notin Nat /\ Nothing \notin Verdicts /\ Nothing \notin Working
    /\ Nothing \notin Answering
BY LifecycleConstants, NothingAssumption

MainOK ==
    /\ native \in [inst : Session, ready : BOOLEAN, heard : BOOLEAN]
    /\ pending \in Deltas \cup {Nothing} /\ deferred \in BOOLEAN
    /\ resolved \in [Deltas -> Verdicts \cup {Nothing}]
    /\ opening \subseteq [mount : Mount, inst : Session \ {0}]
    /\ sessions \in Session /\ owner \in [Deltas -> Session]
ChannelsOK == calls \in Seq(ToMain) /\ wire \in Seq(ToRenderer) /\ records \in Seq(Recorded)
LifecycleOK ==
    /\ current \in 0 .. mounts /\ mounts \in 0 .. MaxMounts
    /\ task \in [Mount -> {"none", "wait", "start", "record", "assets", "done", "late"}]
    /\ cleanup \in [Mount -> {"none", "drain", "stop", "stopped", "stop again", "settled"}]
    /\ active \in Session /\ starting \in BOOLEAN /\ buffered \in Seq(Deltas)
QueueOK ==
    /\ chan \in Seq(Deltas) /\ held \in BOOLEAN
    /\ busy \in Working \cup {Nothing}
    /\ step \in Steps /\ (step = "none") = (busy = Nothing)
ReviewOK ==
    /\ reviews \subseteq Deltas /\ answer \in Answering \cup {Nothing}
    /\ answers \in Nat /\ failures \in Nat
HistoryOK ==
    merged \subseteq Deltas /\ late \subseteq Deltas /\ unmarked \subseteq Mount
    /\ stray \in BOOLEAN

LEMMA TypeParts ==
    LifecycleTypeOK <=> MainOK /\ ChannelsOK /\ LifecycleOK /\ QueueOK /\ ReviewOK /\ HistoryOK
BY DEF LifecycleTypeOK, MainOK, ChannelsOK, LifecycleOK, QueueOK, ReviewOK, HistoryOK

LEMMA TypeInit == LifecycleInit => LifecycleTypeOK
<1> SUFFICES ASSUME LifecycleInit PROVE LifecycleTypeOK
  OBVIOUS
<1>0. 0 \in Session /\ 0 \in 0 .. MaxMounts /\ 0 \in 0 .. 0
  BY Constants DEF Session
<1>1. MainOK
  BY <1>0 DEF LifecycleInit, MainOK, NoSession
<1>2. ChannelsOK
  <2>1. <<>> \in Seq(ToMain) /\ <<>> \in Seq(ToRenderer) /\ <<>> \in Seq(Recorded)
    OBVIOUS
  <2> QED BY <2>1 DEF LifecycleInit, ChannelsOK
<1>3. LifecycleOK
  <2>1. <<>> \in Seq(Deltas)
    OBVIOUS
  <2> QED BY <1>0, <2>1 DEF LifecycleInit, LifecycleOK
<1>4. QueueOK
  <2>1. <<>> \in Seq(Deltas)
    OBVIOUS
  <2> QED BY <2>1 DEF LifecycleInit, QueueOK, Steps
<1>5. ReviewOK /\ HistoryOK
  BY DEF LifecycleInit, ReviewOK, HistoryOK
<1> QED BY <1>1, <1>2, <1>3, <1>4, <1>5, TypeParts

\* The steps that leave a group of variables alone.
LEMMA SameMain == MainOK /\ UNCHANGED main => MainOK'
BY DEF MainOK, main

LEMMA SameChannels == ChannelsOK /\ UNCHANGED <<calls, wire, records>> => ChannelsOK'
BY DEF ChannelsOK

LEMMA SameLifecycle == LifecycleOK /\ UNCHANGED lifecycle => LifecycleOK'
BY DEF LifecycleOK, lifecycle

LEMMA SameQueue == QueueOK /\ UNCHANGED queue => QueueOK'
BY DEF QueueOK, queue

LEMMA SameReview == ReviewOK /\ UNCHANGED <<review, failures>> => ReviewOK'
BY DEF ReviewOK, review

LEMMA SameHistory == HistoryOK /\ UNCHANGED history => HistoryOK'
BY DEF HistoryOK, history

LEMMA SameParts ==
    LifecycleTypeOK =>
        /\ UNCHANGED main => MainOK'
        /\ UNCHANGED <<calls, wire, records>> => ChannelsOK'
        /\ UNCHANGED lifecycle => LifecycleOK'
        /\ UNCHANGED queue => QueueOK'
        /\ UNCHANGED <<review, failures>> => ReviewOK'
        /\ UNCHANGED history => HistoryOK'
BY TypeParts, SameMain, SameChannels, SameLifecycle, SameQueue, SameReview, SameHistory

LEMMA PartsType ==
    MainOK' /\ ChannelsOK' /\ LifecycleOK' /\ QueueOK' /\ ReviewOK' /\ HistoryOK' => LifecycleTypeOK'
BY DEF LifecycleTypeOK, MainOK, ChannelsOK, LifecycleOK, QueueOK, ReviewOK, HistoryOK

LEMMA TypeMain ==
    ASSUME LifecycleTypeOK, Hydrate \/ (\E d \in Deltas : FindChange(d)) \/ Main
    PROVE  LifecycleTypeOK'
<1> USE TypeParts
<1>0. 0 \in Session /\ \A n \in Session : n < MaxSessions => n + 1 \in Session \ {0}
  BY Constants DEF Session
<1>a. calls # <<>> => Head(calls) \in ToMain /\ Tail(calls) \in Seq(ToMain)
  BY FirstCall
<1>b. \A m \in ToRenderer : Append(wire, m) \in Seq(ToRenderer)
  BY AppendProperties DEF ChannelsOK
<1>1. CASE Hydrate
  <2>1. MainOK'
    BY <1>0, <1>1 DEF Hydrate, MainOK
  <2> QED BY <1>1, <2>1, SameParts, PartsType DEF Hydrate
<1>2. ASSUME NEW d \in Deltas, FindChange(d) PROVE LifecycleTypeOK'
  <2>1. MainOK'
    BY <1>2 DEF FindChange, MainOK
  <2>2. ChannelsOK'
    <3>1. Noted(d) \in ToRenderer
      BY MessageForms
    <3> QED BY <1>2, <1>b, <3>1 DEF FindChange, ChannelsOK, Noted
  <2> QED BY <1>2, <2>1, <2>2, SameParts, PartsType DEF FindChange
<1>3. CASE HandleStart
  <2>1. Head(calls).mount \in Mount
    BY <1>3, <1>a, CallIs DEF HandleStart
  <2>2. native' \in [inst : Session \ {0}, ready : BOOLEAN, heard : BOOLEAN]
    BY <1>0, <1>3 DEF HandleStart, MainOK
  <2>x. native'.inst \in Session \ {0} /\ native' \in [inst : Session, ready : BOOLEAN, heard : BOOLEAN]
    BY <2>2
  <2>y. [mount |-> Head(calls).mount, inst |-> native'.inst] \in [mount : Mount, inst : Session \ {0}]
    BY <2>1, <2>x
  <2>z. /\ opening' = opening \cup {[mount |-> Head(calls).mount, inst |-> native'.inst]}
        /\ sessions' = sessions \/ (sessions < MaxSessions /\ sessions' = sessions + 1)
        /\ UNCHANGED <<pending, deferred>> \/ (pending' = Nothing /\ deferred' = FALSE)
        /\ UNCHANGED <<resolved, owner>>
    BY <1>3 DEF HandleStart
  <2>3. MainOK'
    BY <1>0, <2>x, <2>y, <2>z DEF MainOK
  <2>4. ChannelsOK'
    BY <1>3, <1>a DEF HandleStart, ChannelsOK
  <2> QED BY <1>3, <2>3, <2>4, SameParts, PartsType DEF HandleStart
<1>4. ASSUME NEW o \in opening, AnswerStart(o) PROVE LifecycleTypeOK'
  <2>1. o.mount \in Mount /\ o.inst \in Session
    BY DEF MainOK
  <2>x. native' \in [inst : Session, ready : BOOLEAN, heard : BOOLEAN]
    <3>1. CASE native' = [native EXCEPT !.ready = TRUE]
      BY <3>1 DEF MainOK
    <3>2. CASE native' = native
      BY <3>2 DEF MainOK
    <3>3. CASE native' = NoSession
      BY <1>0, <3>3 DEF NoSession
    <3> QED BY <1>4, <3>1, <3>2, <3>3 DEF AnswerStart, Dropped
  <2>y. /\ opening' \subseteq opening
        /\ UNCHANGED <<pending, deferred>> \/ (pending' = Nothing /\ deferred' = FALSE)
        /\ UNCHANGED <<resolved, sessions, owner>>
    BY <1>4 DEF AnswerStart, Dropped
  <2>2. MainOK'
    BY <2>x, <2>y DEF MainOK
  <2>3. Started(o.mount, o.inst) \in ToRenderer /\ Started(o.mount, 0) \in ToRenderer
    BY <1>0, <2>1, MessageForms
  <2>4. wire' \in Seq(ToRenderer)
    <3> DEFINE note == IF pending = Nothing \/ deferred THEN <<>> ELSE <<Noted(pending)>>
    <3>1. pending # Nothing => Noted(pending) \in ToRenderer
      BY MessageForms DEF MainOK
    <3>2. note \in Seq(ToRenderer)
      BY <3>1
    <3>3. \/ wire' = wire \o Append(note, Started(o.mount, o.inst))
          \/ wire' = Append(wire, Started(o.mount, 0))
      BY <1>4 DEF AnswerStart, Started, Noted
    <3> HIDE DEF note
    <3>4. Append(note, Started(o.mount, o.inst)) \in Seq(ToRenderer)
      BY <2>3, <3>2, AppendProperties
    <3>5. wire \in Seq(ToRenderer)
      BY DEF ChannelsOK
    <3> QED BY <1>b, <2>3, <3>3, <3>4, <3>5, ConcatProperties
  <2>5. ChannelsOK'
    BY <1>4, <2>4 DEF AnswerStart, ChannelsOK, lifecycle
  <2>6. ReviewOK'
    BY <1>4 DEF AnswerStart, ReviewOK, Fail, review
  <2> QED BY <1>4, <2>2, <2>5, <2>6, SameParts, PartsType DEF AnswerStart
<1>5. CASE HandleStop
  <2>1. MainOK'
    BY <1>0, <1>5 DEF HandleStop, MainOK, Dropped, NoSession
  <2>2. Head(calls) \in ToRenderer
    BY <1>5, <1>a, CallIs, CallForms DEF HandleStop
  <2>3. ChannelsOK'
    BY <1>5, <1>a, <1>b, <2>2 DEF HandleStop, ChannelsOK
  <2> QED BY <1>5, <2>1, <2>3, SameParts, PartsType DEF HandleStop
<1>6. CASE HandleResolve
  <2>1. /\ Head(calls).delta \in Deltas /\ Head(calls).how \in Verdicts
        /\ \A result \in {"ok", "stale", "error"} : Replied(Head(calls), result) \in ToRenderer
    BY <1>6, <1>a, CallIs, ReplyIs DEF HandleResolve
  <2>2. MainOK'
    BY <1>6, <2>1 DEF HandleResolve, MainOK
  <2>3. ChannelsOK'
    BY <1>6, <1>a, <1>b, <2>1 DEF HandleResolve, ChannelsOK, Replied
  <2>4. ReviewOK'
    BY <1>6 DEF HandleResolve, ReviewOK, Fail, review
  <2> QED BY <1>6, <2>2, <2>3, <2>4, SameParts, PartsType DEF HandleResolve
<1> QED BY <1>1, <1>2, <1>3, <1>4, <1>5, <1>6 DEF Main

LEMMA AppendedCall ==
    ASSUME ChannelsOK, NEW c \in ToMain, Call(c), UNCHANGED records,
           \/ UNCHANGED wire
           \/ wire # <<>> /\ wire' = Tail(wire)
    PROVE  ChannelsOK'
<1>1. calls' \in Seq(ToMain)
  BY AppendProperties DEF ChannelsOK, Call
<1>2. wire' \in Seq(ToRenderer)
  BY HeadAndTail DEF ChannelsOK
<1> QED BY <1>1, <1>2 DEF ChannelsOK

LEMMA ReceivedMessage ==
    ASSUME ChannelsOK, Received, UNCHANGED <<calls, records>>
    PROVE  ChannelsOK'
<1>1. wire' \in Seq(ToRenderer)
  BY HeadAndTail DEF ChannelsOK, Received
<1> QED BY <1>1 DEF ChannelsOK

LEMMA Numbers ==
    ASSUME LifecycleTypeOK
    PROVE  /\ mounts \in Nat /\ MaxMounts \in Nat /\ mounts <= MaxMounts
           /\ current \in Nat /\ current <= mounts
           /\ 0 \in 0..mounts /\ (current # 0 => current \in Mount)
           /\ (mounts < MaxMounts => mounts + 1 \in Mount /\ mounts + 1 \in 0..MaxMounts)
           /\ mounts + 1 \in 0..(mounts + 1)
<1>1. current \in 0..mounts /\ mounts \in 0..MaxMounts /\ MaxMounts \in Nat
  BY Constants DEF LifecycleTypeOK
<1> QED BY <1>1 DEF Mount

LEMMA TypeCleanUp ==
    ASSUME LifecycleTypeOK, NEW next, CleanUp(next), current # 0, UNCHANGED <<wire, records>>
    PROVE  /\ ChannelsOK' /\ QueueOK'
           /\ active' \in Session /\ starting' \in BOOLEAN /\ buffered' \in Seq(Deltas)
           /\ cleanup' \in [Mount -> {"none", "drain", "stop", "stopped", "stop again", "settled"}]
           /\ reviews' = {}
<1> USE TypeParts
<1>1. current \in Mount /\ 0 \in Session
  BY Numbers, Constants DEF Session
<1>2. ChannelsOK'
  <2>1. CASE busy = Nothing
    <3>1. Call(StopCall(current))
      BY <2>1 DEF CleanUp, StopCall
    <3> QED BY <1>1, <3>1, CallForms, AppendedCall
  <2>2. CASE busy # Nothing
    BY <2>2 DEF CleanUp, ChannelsOK
  <2> QED BY <2>1, <2>2
<1>3. QueueOK'
  <2>1. <<>> \in Seq(Deltas)
    OBVIOUS
  <2>2. busy # Nothing => [busy EXCEPT !.dropped = TRUE] \in Working
    BY DEF QueueOK, Working
  <2>3. (busy' = Nothing) = (busy = Nothing) /\ busy' \in Working \cup {Nothing}
    BY <2>2, Constants DEF CleanUp, Drop
  <2> QED BY <2>1, <2>3 DEF CleanUp, Drop, QueueOK
<1>4. <<>> \in Seq(Deltas)
  OBVIOUS
<1> QED BY <1>1, <1>2, <1>3, <1>4 DEF CleanUp, LifecycleOK

LEMMA TypeLifecycle ==
    ASSUME LifecycleTypeOK, Turns,
           \/ MountFolder \/ UnmountFolder \/ ReceiveStop \/ ReceiveStart \/ RecordStart
           \/ \E e \in Mount : StartSession(e) \/ EndStart(e) \/ StopDrained(e) \/ SettleCleanup(e)
    PROVE  LifecycleTypeOK'
<1> USE TypeParts
<1>0. 0 \in Session
  BY Constants DEF Session
<1>1. CASE MountFolder
  <2>1. /\ mounts' \in Mount /\ mounts' \in 0..MaxMounts
        /\ current' = mounts' /\ current' \in 0..mounts'
    BY <1>1, Numbers DEF MountFolder
  <2>2. task' \in [Mount -> {"none", "wait", "start", "record", "assets", "done", "late"}]
    BY <1>1, <2>1 DEF MountFolder, LifecycleOK
  <2>3. CASE current # 0
    <3>1. CleanUp(mounts') /\ UNCHANGED <<wire, records, main, answer, answers, failures, history>>
      BY <1>1, <2>3 DEF MountFolder
    <3>2. /\ ChannelsOK' /\ QueueOK'
          /\ active' \in Session /\ starting' \in BOOLEAN /\ buffered' \in Seq(Deltas)
          /\ cleanup' \in [Mount -> {"none", "drain", "stop", "stopped", "stop again", "settled"}]
          /\ reviews' = {}
      BY <2>3, <3>1, TypeCleanUp
    <3>3. LifecycleOK' /\ ReviewOK'
      BY <2>1, <2>2, <3>1, <3>2 DEF LifecycleOK, ReviewOK
    <3> QED BY <3>1, <3>2, <3>3, SameParts, PartsType
  <2>4. CASE current = 0
    <3>1. LifecycleOK'
      BY <1>1, <2>1, <2>2, <2>4 DEF MountFolder, LifecycleOK
    <3> QED BY <1>1, <2>4, <3>1, SameParts, PartsType DEF MountFolder, review
  <2> QED BY <2>3, <2>4
<1>2. CASE UnmountFolder
  <2>1. /\ ChannelsOK' /\ QueueOK'
        /\ active' \in Session /\ starting' \in BOOLEAN /\ buffered' \in Seq(Deltas)
        /\ cleanup' \in [Mount -> {"none", "drain", "stop", "stopped", "stop again", "settled"}]
        /\ reviews' = {}
    BY <1>2, TypeCleanUp DEF UnmountFolder
  <2>2. LifecycleOK' /\ ReviewOK'
    BY <1>2, <2>1, Numbers DEF UnmountFolder, LifecycleOK, ReviewOK
  <2> QED BY <1>2, <2>1, <2>2, SameParts, PartsType DEF UnmountFolder
<1>3. CASE ReceiveStop
  <2>1. LifecycleOK'
    BY <1>3 DEF ReceiveStop, LifecycleOK
  <2> QED BY <1>3, <2>1, ReceivedMessage, SameParts, PartsType DEF ReceiveStop
<1>4. CASE ReceiveStart
  <2>1. Head(wire).mount \in Mount /\ Head(wire).inst \in Session
    BY <1>4, FirstMessage, MessageIs DEF ReceiveStart, Received
  <2>2. LifecycleOK'
    <3>1. <<>> \in Seq(Deltas)
      OBVIOUS
    <3> QED BY <1>4, <2>1, <3>1 DEF ReceiveStart, LifecycleOK
  <2>3. ChannelsOK'
    <3>1. CASE UNCHANGED records
      BY <1>4, <3>1, ReceivedMessage DEF ReceiveStart
    <3>2. CASE /\ Head(wire).inst # 0
               /\ records' = Append(records, Started(Head(wire).mount, Head(wire).inst))
      <4>1. Started(Head(wire).mount, Head(wire).inst) \in Recorded
        BY <2>1, <3>2, MessageForms
      <4>2. records' \in Seq(Recorded)
        BY <3>2, <4>1, AppendProperties DEF ChannelsOK
      <4> QED BY <1>4, <4>2, FirstMessage DEF ReceiveStart, Received, ChannelsOK
    <3> QED BY <1>4, <3>1, <3>2 DEF ReceiveStart, Started
  <2> QED BY <1>4, <2>2, <2>3, SameParts, PartsType DEF ReceiveStart
<1>5. CASE RecordStart
  <2>1. Head(records).mount \in Mount /\ Head(records).inst \in Session
    BY <1>5, FirstRecord, RecordIs DEF RecordStart
  <2>2. ChannelsOK'
    <3> DEFINE inst == Head(records).inst
               deltas == BufferedOf(inst)
               notes == [i \in DOMAIN deltas |-> Note(inst, deltas[i])]
    <3>1. deltas \in Seq({d \in Deltas : owner[d] = inst})
      BY BufferedIs DEF LifecycleOK
    <3>2. notes \in Seq(Recorded)
      <4>1. \A i \in DOMAIN deltas : deltas[i] \in Deltas
        BY <3>1
      <4>2. \A i \in DOMAIN deltas : Note(inst, deltas[i]) \in Recorded
        BY <2>1, <4>1, MessageForms
      <4>3. DOMAIN deltas = 1..Len(deltas) /\ Len(deltas) \in Nat
        BY <3>1
      <4> HIDE DEF deltas, inst
      <4> QED BY <4>2, <4>3
    <3>3. records' = Tail(records) \o notes
      BY <1>5 DEF RecordStart
    <3> HIDE DEF notes
    <3>4. records' \in Seq(Recorded)
      BY <1>5, <3>2, <3>3, FirstRecord, ConcatProperties DEF RecordStart
    <3> QED BY <1>5, <3>4 DEF RecordStart, ChannelsOK
  <2>3. LifecycleOK'
    <3>1. <<>> \in Seq(Deltas)
      OBVIOUS
    <3> QED BY <1>5, <2>1, <3>1 DEF RecordStart, LifecycleOK
  <2>4. HistoryOK'
    BY <1>5, Numbers DEF RecordStart, HistoryOK, Turns
  <2> QED BY <1>5, <2>2, <2>3, <2>4, SameParts, PartsType DEF RecordStart
<1>6. ASSUME NEW e \in Mount, StartSession(e) \/ EndStart(e) PROVE LifecycleTypeOK'
  <2>1. LifecycleOK'
    BY <1>6 DEF StartSession, EndStart, LifecycleOK
  <2>2. ChannelsOK'
    <3>1. CASE UNCHANGED calls
      BY <1>6, <3>1, SameParts DEF StartSession, EndStart
    <3>2. CASE Call(StartCall(e)) /\ UNCHANGED <<wire, records>>
      BY <3>2, CallForms, AppendedCall
    <3> QED BY <1>6, <3>1, <3>2 DEF StartSession, EndStart, StartCall
  <2> QED BY <1>6, <2>1, <2>2, SameParts, PartsType DEF StartSession, EndStart
<1>7. ASSUME NEW e \in Mount, StopDrained(e) \/ SettleCleanup(e) PROVE LifecycleTypeOK'
  <2>1. LifecycleOK'
    BY <1>7 DEF StopDrained, SettleCleanup, LifecycleOK
  <2>2. ChannelsOK'
    <3>1. CASE UNCHANGED calls
      BY <1>7, <3>1, SameParts DEF StopDrained, SettleCleanup
    <3>2. CASE Call(StopCall(e)) /\ UNCHANGED <<wire, records>>
      BY <3>2, CallForms, AppendedCall
    <3> QED BY <1>7, <3>1, <3>2 DEF StopDrained, SettleCleanup, StopCall
  <2> QED BY <1>7, <2>1, <2>2, SameParts, PartsType DEF StopDrained, SettleCleanup
<1> QED BY <1>1, <1>2, <1>3, <1>4, <1>5, <1>6, <1>7

LEMMA TypeFinish ==
    ASSUME QueueOK, NEW holds \in BOOLEAN, Finish(holds)
    PROVE  QueueOK'
BY DEF QueueOK, Finish, Steps

LEMMA BusyIs ==
    ASSUME LifecycleTypeOK
    PROVE  /\ step # "none" => busy # Nothing
           /\ busy # Nothing => busy.delta \in Deltas /\ busy.dropped \in BOOLEAN
BY DEF LifecycleTypeOK, Working

LEMMA NextTryIs ==
    ASSUME NEW s \in DOMAIN NextTry
    PROVE  s \in Acknowledging /\ NextTry[s] \in Acknowledging /\ NextTry[s] \in Steps \ {"none"}
BY DEF NextTry, Acknowledging, Steps

LEMMA TypeQueue ==
    ASSUME LifecycleTypeOK, AllExpected,
           \/ ReceiveNote \/ RecordNote \/ Begin \/ IngestFails \/ IngestConflicts \/ Ingest
           \/ ReceiveAcknowledgement
    PROVE  LifecycleTypeOK'
<1> USE TypeParts
<1>1. CASE ReceiveNote
  <2>1. Head(wire).delta \in Deltas
    BY <1>1, FirstMessage, MessageIs DEF ReceiveNote, Received
  <2>2. LifecycleOK'
    <3>1. Append(buffered, Head(wire).delta) \in Seq(Deltas)
      BY <2>1, AppendProperties DEF LifecycleOK
    <3> QED BY <1>1, <3>1 DEF ReceiveNote, LifecycleOK
  <2>3. records' \in Seq(Recorded)
    <3>1. Note(active, Head(wire).delta) \in Recorded
      BY <2>1, MessageForms DEF LifecycleOK
    <3>2. Append(records, Note(active, Head(wire).delta)) \in Seq(Recorded)
      BY <3>1, AppendProperties DEF ChannelsOK
    <3> QED BY <1>1, <3>2 DEF ReceiveNote, ChannelsOK
  <2>4. ChannelsOK'
    BY <1>1, <2>3, FirstMessage DEF ReceiveNote, Received, ChannelsOK
  <2> QED BY <1>1, <2>2, <2>4, SameParts, PartsType DEF ReceiveNote
<1>2. CASE RecordNote
  <2>1. Head(records).delta \in Deltas
    BY <1>2, FirstRecord, RecordIs DEF RecordNote
  <2>2. QueueOK'
    <3>1. chan' \in Seq(Deltas)
      BY <1>2, <2>1, AppendProperties DEF RecordNote, Accept, QueueOK
    <3> QED BY <1>2, <3>1 DEF RecordNote, QueueOK
  <2>3. ChannelsOK'
    BY <1>2, FirstRecord DEF RecordNote, ChannelsOK
  <2>4. HistoryOK'
    BY <1>2, <2>1 DEF RecordNote, HistoryOK
  <2> QED BY <1>2, <2>2, <2>3, <2>4, SameParts, PartsType DEF RecordNote
<1>3. CASE Begin
  <2>1. Head(chan) \in Deltas /\ Tail(chan) \in Seq(Deltas)
    BY <1>3, HeadAndTail DEF Begin, QueueOK
  <2>2. busy' \in Working
    BY <1>3, <2>1 DEF Begin, Working
  <2>3. QueueOK'
    BY <1>3, <2>1, <2>2, Constants DEF Begin, QueueOK, Steps
  <2> QED BY <1>3, <2>3, SameParts, PartsType DEF Begin
<1>4. CASE IngestFails
  <2>1. QueueOK'
    BY <1>4, TypeFinish DEF IngestFails
  <2>2. ReviewOK'
    BY <1>4 DEF IngestFails, ReviewOK, Fail, review
  <2> QED BY <1>4, <2>1, <2>2, SameParts, PartsType DEF IngestFails
<1>5. CASE IngestConflicts
  <2>1. QueueOK'
    BY <1>5, TypeFinish DEF IngestConflicts
  <2>2. ReviewOK'
    <3>1. busy.delta \in Deltas
      BY <1>5, BusyIs DEF IngestConflicts
    <3> QED BY <1>5, <3>1 DEF IngestConflicts, ReviewOK
  <2> QED BY <1>5, <2>1, <2>2, SameParts, PartsType DEF IngestConflicts
<1>6. CASE Ingest
  <2>1. busy # Nothing /\ busy.delta \in Deltas
    BY <1>6, BusyIs DEF Ingest
  <2>2. ResolveCall("queue", busy.delta, "accept") \in ToMain
    BY <2>1, CallForms DEF Verdicts
  <2>3. CASE busy.dropped
    <3>1. QueueOK'
      BY <1>6, <2>3, TypeFinish DEF Ingest
    <3>2. HistoryOK'
      BY <1>6, <2>1 DEF Ingest, HistoryOK
    <3> QED BY <1>6, <2>3, <3>1, <3>2, SameParts, PartsType DEF Ingest
  <2>4. CASE ~busy.dropped
    <3>1. QueueOK'
      BY <1>6, <2>1, <2>4 DEF Ingest, QueueOK, Steps
    <3>2. HistoryOK'
      BY <1>6, <2>1 DEF Ingest, HistoryOK
    <3>3. ChannelsOK'
      <4>1. Call(ResolveCall("queue", busy.delta, "accept"))
        BY <1>6, <2>4 DEF Ingest, Resolve, ResolveCall
      <4> QED BY <1>6, <2>2, <4>1, AppendedCall DEF Ingest
    <3> QED BY <1>6, <2>4, <3>1, <3>2, <3>3, SameParts, PartsType DEF Ingest
  <2> QED BY <2>3, <2>4
<1>7. CASE ReceiveAcknowledgement
  <2>1. busy # Nothing /\ busy.delta \in Deltas
    <3>1. Expected(Head(wire))
      BY <1>7, FirstMessage DEF ReceiveAcknowledgement, Received, AllExpected, UnderWay
    <3>2. step # "none"
      BY <1>7, <3>1 DEF ReceiveAcknowledgement, Expected, Acknowledging
    <3> QED BY <3>2, BusyIs
  <2>2. CASE Retries(step, Head(wire).result)
    <3>1. NextTry[step] \in Steps \ {"none"}
      BY <2>2, NextTryIs DEF Retries
    <3>2. QueueOK'
      BY <1>7, <2>1, <2>2, <3>1 DEF ReceiveAcknowledgement, QueueOK
    <3>3. ChannelsOK'
      <4>1. /\ Call(ResolveCall("queue", busy.delta, "accept")) /\ UNCHANGED records
            /\ wire # <<>> /\ wire' = Tail(wire)
        BY <1>7, <2>2 DEF ReceiveAcknowledgement, Resolve, ResolveCall, Received
      <4>2. ResolveCall("queue", busy.delta, "accept") \in ToMain
        BY <2>1, CallForms DEF Verdicts
      <4> QED BY <4>1, <4>2, AppendedCall
    <3> QED BY <1>7, <3>2, <3>3, SameParts, PartsType DEF ReceiveAcknowledgement
  <2>3. CASE ~Retries(step, Head(wire).result)
    <3>1. QueueOK'
      <4>1. Finish(Head(wire).result # "ok")
        BY <1>7, <2>3 DEF ReceiveAcknowledgement
      <4> QED BY <4>1, TypeFinish
    <3>2. ChannelsOK'
      BY <1>7, <2>3, ReceivedMessage DEF ReceiveAcknowledgement
    <3> QED BY <1>7, <3>1, <3>2, SameParts, PartsType DEF ReceiveAcknowledgement
  <2> QED BY <2>2, <2>3
<1> QED BY <1>1, <1>2, <1>3, <1>4, <1>5, <1>6, <1>7

LEMMA AnswerIs ==
    ASSUME LifecycleTypeOK, Reviewed, NEW d \in Deltas, NEW how \in Verdicts, Answer(d, how)
    PROVE  /\ current \in Mount /\ answer' \in Answering /\ answer' # Nothing
           /\ answer' = [delta |-> d, how |-> how, mount |-> current,
                         step |-> IF how = "accept" THEN "ingest" ELSE "acknowledge 3"]
<1>1. current \in Mount
  BY Numbers DEF Answer, Reviewed
<1>2. answer' \in Answering
  BY <1>1 DEF Answer, Answering, Steps
<1> QED BY <1>1, <1>2, Constants DEF Answer

LEMMA TypeAnswers ==
    ASSUME LifecycleTypeOK, AllExpected, Reviewed,
           \/ \E d \in Deltas, how \in Verdicts : Answer(d, how)
           \/ AnswerIngests \/ ReceiveAnswer
    PROVE  LifecycleTypeOK'
<1> USE TypeParts
<1>0. answer # Nothing =>
          /\ answer \in Answering /\ answer.delta \in Deltas
          /\ \A s \in Steps \ {"none"} : [answer EXCEPT !.step = s] \in Answering
  BY DEF ReviewOK, Answering
<1>1. ASSUME NEW d \in Deltas, NEW how \in Verdicts, Answer(d, how) PROVE LifecycleTypeOK'
  <2>2. answer' \in Answering
    BY <1>1, AnswerIs
  <2>3. ReviewOK'
    <3>1. answers' \in Nat
      <4>1. answers \in Nat
        BY DEF ReviewOK
      <4>2. answers' = answers + 1
        BY <1>1 DEF Answer
      <4> QED BY <4>1, <4>2
    <3> QED BY <1>1, <2>2, <3>1 DEF Answer, ReviewOK
  <2>4. ChannelsOK'
    <3>1. CASE UNCHANGED calls
      BY <1>1, <3>1, SameParts DEF Answer
    <3>2. CASE Call(ResolveCall("answer", d, how))
      BY <1>1, <3>2, CallForms, AppendedCall DEF Answer
    <3> QED BY <1>1, <3>1, <3>2 DEF Answer, Resolve, ResolveCall
  <2> QED BY <1>1, <2>3, <2>4, SameParts, PartsType DEF Answer
<1>2. CASE AnswerIngests
  <2>1. answer' \in Answering
    BY <1>0, <1>2 DEF AnswerIngests, Steps
  <2>2. ReviewOK'
    BY <1>2, <2>1 DEF AnswerIngests, ReviewOK
  <2>3. HistoryOK'
    BY <1>0, <1>2 DEF AnswerIngests, HistoryOK
  <2>4. ChannelsOK'
    <3>1. Call(ResolveCall("answer", answer.delta, "accept"))
      BY <1>2 DEF AnswerIngests, Resolve, ResolveCall
    <3>2. ResolveCall("answer", answer.delta, "accept") \in ToMain
      BY <1>0, <1>2, CallForms DEF AnswerIngests, Verdicts
    <3> QED BY <1>2, <3>1, <3>2, AppendedCall DEF AnswerIngests
  <2> QED BY <1>2, <2>2, <2>3, <2>4, SameParts, PartsType DEF AnswerIngests
<1>3. CASE ReceiveAnswer
  <2>1. answer # Nothing
    <3>1. Expected(Head(wire))
      BY <1>3, FirstMessage DEF ReceiveAnswer, Received, AllExpected, UnderWay
    <3> QED BY <1>3, <3>1 DEF ReceiveAnswer, Expected
  <2>2. CASE Retries(answer.step, Head(wire).result)
    <3>1. NextTry[answer.step] \in Steps \ {"none"}
      BY <2>2, NextTryIs DEF Retries
    <3>2. answer' \in Answering
      BY <1>0, <1>3, <2>1, <2>2, <3>1 DEF ReceiveAnswer
    <3>3. ReviewOK' /\ QueueOK' /\ HistoryOK'
      BY <1>3, <2>2, <3>2 DEF ReceiveAnswer, ReviewOK, QueueOK, HistoryOK
    <3>4. ChannelsOK'
      <4>1. /\ Call(ResolveCall("answer", answer.delta, "accept")) /\ UNCHANGED records
            /\ wire # <<>> /\ wire' = Tail(wire)
        BY <1>3, <2>2 DEF ReceiveAnswer, Resolve, ResolveCall, Received
      <4>2. ResolveCall("answer", answer.delta, "accept") \in ToMain
        BY <1>0, <2>1, CallForms DEF Verdicts
      <4> QED BY <4>1, <4>2, AppendedCall
    <3> QED BY <1>3, <3>3, <3>4, SameParts, PartsType DEF ReceiveAnswer
  <2>3. CASE ~Retries(answer.step, Head(wire).result)
    <3>1. ReviewOK' /\ QueueOK'
      BY <1>3, <2>3 DEF ReceiveAnswer, ReviewOK, QueueOK
    <3>2. HistoryOK'
      BY <1>3, <2>3 DEF ReceiveAnswer, HistoryOK
    <3>3. ChannelsOK'
      BY <1>3, <2>3, ReceivedMessage DEF ReceiveAnswer
    <3> QED BY <1>3, <3>1, <3>2, <3>3, SameParts, PartsType DEF ReceiveAnswer
  <2> QED BY <2>2, <2>3
<1> QED BY <1>1, <1>2, <1>3

LEMMA TypeStep ==
    ASSUME LifecycleTypeOK, AllExpected, Turns, Reviewed, [LifecycleNext]_allVars
    PROVE  LifecycleTypeOK'
<1>1. CASE UNCHANGED allVars
  BY <1>1, SameParts, PartsType DEF allVars
<1>2. CASE LifecycleNext
  BY <1>2, TypeMain, TypeLifecycle, TypeQueue, TypeAnswers
  DEF LifecycleNext, Renderer, RendererWork, Main, Verdicts
<1> QED BY <1>1, <1>2

-----------------------------------------------------------------------------
(***************************************************************************)
(* Messages: each once, and waited for.                                    *)
(***************************************************************************)
LEMMA SameTransitive ==
    ASSUME NEW h, NEW m, NEW c, Same(h, c), ~Same(h, m)
    PROVE  ~Same(m, c)
BY DEF Same

\* c can be added to what is under way.
New(c, cs, ws, os) ==
    /\ \A m \in ToSet(cs) \cup ToSet(ws) : ~Same(m, c)
    /\ c.kind = "start" => \A o \in os : o.mount # c.mount

LEMMA Sends ==
    ASSUME NEW cs \in Seq(ToMain), NEW ws, NEW os, Once(cs, ws, os),
           NEW c \in ToMain, New(c, cs, ws, os)
    PROVE  Once(Append(cs, c), ws, os)
<1>1. ToSet(Append(cs, c)) = ToSet(cs) \cup {c} /\ Unique(Append(cs, c))
  BY OneMore DEF Once, New
<1>2. \A m : Same(c, m) => Same(m, c)
  BY SameSymmetric
<1> QED BY <1>1, <1>2 DEF Once, New, Apart

LEMMA Arrives ==
    ASSUME NEW cs, NEW ws \in Seq(ToRenderer), NEW os, Once(cs, ws, os),
           NEW c \in ToRenderer, New(c, cs, ws, os)
    PROVE  Once(cs, Append(ws, c), os)
<1>1. ToSet(Append(ws, c)) = ToSet(ws) \cup {c} /\ Unique(Append(ws, c))
  BY OneMore DEF Once, New
<1> QED BY <1>1 DEF Once, New, Apart

LEMMA TakesCall ==
    ASSUME NEW cs \in Seq(ToMain), cs # <<>>, NEW ws, NEW os, Once(cs, ws, os)
    PROVE  Once(Tail(cs), ws, os) /\ New(Head(cs), Tail(cs), ws, os)
<1>1. /\ ToSet(cs) = {Head(cs)} \cup ToSet(Tail(cs)) /\ Unique(Tail(cs))
      /\ \A m \in ToSet(Tail(cs)) : ~Same(Head(cs), m)
  BY HeadAndTail DEF Once
<1>2. \A m : Same(m, Head(cs)) => Same(Head(cs), m)
  BY SameSymmetric
<1> QED BY <1>1, <1>2 DEF Once, New, Apart

LEMMA TakesMessage ==
    ASSUME NEW cs, NEW ws \in Seq(ToRenderer), ws # <<>>, NEW os, Once(cs, ws, os)
    PROVE  Once(cs, Tail(ws), os) /\ New(Head(ws), cs, Tail(ws), os)
<1>1. /\ ToSet(ws) = {Head(ws)} \cup ToSet(Tail(ws)) /\ Unique(Tail(ws))
      /\ \A m \in ToSet(Tail(ws)) : ~Same(Head(ws), m)
  BY HeadAndTail DEF Once
<1>2. \A m : Same(m, Head(ws)) => Same(Head(ws), m)
  BY SameSymmetric
<1> QED BY <1>1, <1>2 DEF Once, New, Apart

\* What replaces a message that was taken is as new as it was.
LEMMA Replaces ==
    ASSUME NEW h, NEW c, Same(h, c), NEW cs, NEW ws, NEW os, New(h, cs, ws, os)
    PROVE  New(c, cs, ws, os)
<1>1. \A m : Same(m, c) => Same(m, h)
  BY DEF Same
<1>2. c.kind = "start" => h.kind = "start" /\ h.mount = c.mount
  BY DEF Same
<1> QED BY <1>1, <1>2 DEF New

LEMMA Sequences ==
    ASSUME LifecycleTypeOK
    PROVE  /\ calls \in Seq(ToMain) /\ wire \in Seq(ToRenderer) /\ records \in Seq(Recorded)
           /\ Sent = ToSet(calls) /\ Arriving = ToSet(wire) /\ Waiting = ToSet(records)
           /\ UnderWay = ToSet(calls) \cup ToSet(wire)
BY DEF LifecycleTypeOK, Sent, Arriving, Waiting, UnderWay

\* A call of the renderer, for which there is room.
LEMMA NewCall ==
    ASSUME LifecycleTypeOK, OnceEach, NEW c \in ToMain, Call(c), UNCHANGED <<wire, records,
           opening>>,
           New(c, calls, wire, opening)
    PROVE  /\ OnceEach' /\ Sent' = Sent \cup {c} /\ Arriving' = Arriving
           /\ UnderWay' = UnderWay \cup {c} /\ Waiting' = Waiting
<1>1. /\ ToSet(Append(calls, c)) = ToSet(calls) \cup {c}
      /\ Once(Append(calls, c), wire, opening)
  BY Sequences, OneMore, Sends DEF OnceEach
<1> QED BY <1>1 DEF Call, OnceEach, Sent, Arriving, UnderWay, Waiting

\* A message that is received.
LEMMA OneReceived ==
    ASSUME LifecycleTypeOK, OnceEach, Received, UNCHANGED <<calls, opening>>
    PROVE  /\ Once(calls, wire, opening)' /\ Sent' = Sent /\ Arriving' \subseteq Arriving
           /\ UnderWay' \subseteq UnderWay
           /\ \A m \in UnderWay' : ~Same(m, Head(wire))
           /\ Head(wire).kind = "start" => \A o \in opening : o.mount # Head(wire).mount
           /\ Head(wire) \in Arriving /\ Head(wire) \in UnderWay
<1>1. /\ Once(calls, Tail(wire), opening) /\ New(Head(wire), calls, Tail(wire), opening)
      /\ ToSet(wire) = {Head(wire)} \cup ToSet(Tail(wire))
  BY Sequences, TakesMessage, HeadAndTail DEF Received, OnceEach
<1> QED BY <1>1 DEF Received, New, OnceEach, Sent, Arriving, UnderWay

\* A message that is received and answered by a call of its kind.
LEMMA Retried ==
    ASSUME LifecycleTypeOK, OnceEach, Received, NEW c \in ToMain, Call(c), Same(Head(wire), c),
           UNCHANGED <<records, opening>>
    PROVE  /\ OnceEach' /\ Sent' = Sent \cup {c} /\ Arriving' \subseteq Arriving
           /\ UnderWay' \subseteq UnderWay \cup {c}
           /\ Waiting' = Waiting
<1>1. /\ Once(calls, Tail(wire), opening) /\ New(Head(wire), calls, Tail(wire), opening)
      /\ ToSet(wire) = {Head(wire)} \cup ToSet(Tail(wire))
  BY Sequences, TakesMessage, HeadAndTail DEF Received, OnceEach
<1>2. New(c, calls, Tail(wire), opening)
  BY <1>1, Replaces
<1>3. /\ ToSet(Append(calls, c)) = ToSet(calls) \cup {c}
      /\ Once(Append(calls, c), Tail(wire), opening)
  BY <1>1, <1>2, Sequences, OneMore, Sends
<1> QED BY <1>1, <1>3 DEF Received, Call, OnceEach, Sent, Arriving, UnderWay, Waiting

\* A call that is answered by a message of its kind.
LEMMA Replies ==
    ASSUME LifecycleTypeOK, OnceEach, calls # <<>>, NEW m \in ToRenderer, Same(Head(calls), m),
           calls' = Tail(calls), wire' = Append(wire, m), UNCHANGED <<records, opening>>
    PROVE  /\ OnceEach' /\ Sent' \subseteq Sent /\ Arriving' = Arriving \cup {m}
           /\ UnderWay' \subseteq UnderWay \cup {m}
           /\ Head(calls) \in Sent /\ Waiting' = Waiting
<1>1. /\ Once(Tail(calls), wire, opening) /\ New(Head(calls), Tail(calls), wire, opening)
      /\ ToSet(calls) = {Head(calls)} \cup ToSet(Tail(calls))
  BY Sequences, TakesCall, HeadAndTail DEF OnceEach
<1>2. New(m, Tail(calls), wire, opening)
  BY <1>1, Replaces
<1>3. /\ ToSet(Append(wire, m)) = ToSet(wire) \cup {m}
      /\ Once(Tail(calls), Append(wire, m), opening)
  BY <1>1, <1>2, Sequences, OneMore, Arrives
<1> QED BY <1>1, <1>3 DEF OnceEach, Sent, Arriving, UnderWay, Waiting

\* What is under way of a kind that nothing expects is nothing.
LEMMA Unexpected ==
    LifecycleTypeOK /\ Messages =>
        /\ \A m \in UnderWay : Expected(m)
        /\ \A o \in opening : task[o.mount] = "start"
BY DEF Messages, AllExpected

LEMMA NewStop ==
    ASSUME LifecycleTypeOK, Messages, NEW e \in Mount, cleanup[e] \notin {"stop", "stop again"}
    PROVE  New(StopCall(e), calls, wire, opening)
<1>1. \A m \in UnderWay : ~(m.kind = "stop" /\ m.mount = e)
  BY Unexpected DEF Expected
<1> QED BY <1>1, Sequences DEF New, Same, StopCall

LEMMA NewStart ==
    ASSUME LifecycleTypeOK, Messages, NEW e \in Mount, task[e] # "start"
    PROVE  New(StartCall(e), calls, wire, opening)
<1>1. \A m \in UnderWay : ~(m.kind = "start" /\ m.mount = e)
  BY Unexpected DEF Expected
<1>2. \A o \in opening : o.mount # e
  BY Unexpected DEF Expected
<1> QED BY <1>1, <1>2, Sequences DEF New, Same, StartCall

LEMMA NewResolution ==
    ASSUME LifecycleTypeOK, Messages, NEW by \in {"queue", "answer"}, NEW d, NEW how,
           by = "queue" => step \notin Acknowledging,
           by = "answer" => answer = Nothing \/ answer.step \notin Acknowledging
    PROVE  New(ResolveCall(by, d, how), calls, wire, opening)
<1>1. \A m \in UnderWay : ~(m.kind = "resolve" /\ m.by = by)
  BY Unexpected DEF Expected
<1> QED BY <1>1, Sequences DEF New, Same, ResolveCall

LEMMA MessagesInit == LifecycleInit => Messages
<1> SUFFICES ASSUME LifecycleInit PROVE Messages
  OBVIOUS
<1>1. calls = <<>> /\ wire = <<>> /\ records = <<>> /\ opening = {}
  BY DEF LifecycleInit
<1>2. ToSet(<<>>) = {} /\ Unique(<<>>)
  BY DEF ToSet, Unique
<1> QED BY <1>1, <1>2 DEF Messages, OnceEach, Once, Apart, AllExpected, Sent, Arriving, UnderWay,
                          Waiting

LEMMA StartAnswered ==
    ASSUME LifecycleTypeOK, NEW o \in opening, AnswerStart(o)
    PROVE  /\ o.mount \in Mount /\ o.inst \in Session \ {0}
           /\ \E inst \in {0, o.inst} :
                 /\ inst # 0 => native.inst = o.inst /\ native' = [native EXCEPT !.ready = TRUE]
                 /\ \/ wire' = Append(wire, Started(o.mount, inst))
                    \/ /\ pending # Nothing
                       /\ wire' = Append(Append(wire, Noted(pending)), Started(o.mount, inst))
<1> DEFINE note == IF pending = Nothing \/ deferred THEN <<>> ELSE <<Noted(pending)>>
           reply == Started(o.mount, o.inst)
<1>1. o.mount \in Mount /\ o.inst \in Session \ {0} /\ o.inst \in Session
  BY DEF LifecycleTypeOK
<1>2. pending # Nothing => Noted(pending) \in ToRenderer
  BY MessageForms DEF LifecycleTypeOK
<1>3. reply \in ToRenderer
  BY <1>1, MessageForms
<1>4. \/ /\ native.inst = o.inst /\ native' = [native EXCEPT !.ready = TRUE]
         /\ wire' = wire \o Append(note, reply)
      \/ wire' = Append(wire, Started(o.mount, 0))
  BY DEF AnswerStart, Started, Noted
<1> HIDE DEF reply
<1>5. CASE /\ native.inst = o.inst /\ native' = [native EXCEPT !.ready = TRUE]
           /\ wire' = wire \o Append(note, reply)
  <2>1. wire \in Seq(ToRenderer)
    BY DEF LifecycleTypeOK
  <2>2. CASE pending = Nothing \/ deferred
    <3>1. wire' = wire \o <<reply>>
      BY <1>5, <2>2
    <3>2. wire' = Append(wire, reply)
      BY <1>3, <2>1, <3>1
    <3> QED BY <1>1, <1>5, <3>2 DEF reply
  <2>3. CASE ~(pending = Nothing \/ deferred)
    <3>1. wire' = wire \o <<Noted(pending), reply>>
      BY <1>5, <2>3
    <3>2. wire' = Append(Append(wire, Noted(pending)), reply)
      BY <1>2, <1>3, <2>1, <2>3, <3>1
    <3> QED BY <1>1, <1>5, <2>3, <3>2 DEF reply
  <2> QED BY <2>2, <2>3
<1> QED BY <1>1, <1>4, <1>5

LEMMA MessagesMain ==
    ASSUME LifecycleTypeOK, Messages, Hydrate \/ (\E d \in Deltas : FindChange(d)) \/ Main
    PROVE  Messages'
<1>0. OnceEach /\ AllExpected /\ Once(calls, wire, opening)
  BY DEF Messages, OnceEach
<1>1. CASE Hydrate
  BY <1>1
  DEF Hydrate, Messages, OnceEach, Once, AllExpected, Expected, Sent, Arriving, UnderWay, Waiting,
              lifecycle, queue, review
<1>2. ASSUME NEW d \in Deltas, FindChange(d) PROVE Messages'
  <2>1. wire' = wire \/ wire' = Append(wire, Noted(d))
    BY <1>2 DEF FindChange, Noted
  <2>2. Noted(d) \in ToRenderer /\ New(Noted(d), calls, wire, opening) /\ Noted(d).kind = "note"
    BY MessageForms DEF New, Noted, Same
  <2>3. OnceEach'
    BY <1>0, <1>2, <2>1, <2>2, Sequences, Arrives DEF FindChange, OnceEach
  <2>4. UnderWay' \subseteq UnderWay \cup {Noted(d)}
    BY <1>2, <2>1, <2>2, Sequences, OneMore DEF FindChange, UnderWay, Sent, Arriving
  <2>5. \A m \in UnderWay' : Expected(m)'
    BY <1>0, <1>2, <2>2, <2>4 DEF FindChange, AllExpected, Expected, lifecycle, queue, review
  <2> QED BY <1>0, <1>2, <2>3, <2>5 DEF FindChange, Messages, AllExpected, Waiting, lifecycle
<1>3. CASE HandleStart
  <2> DEFINE e == Head(calls).mount
             o == [mount |-> e, inst |-> native'.inst]
  <2>1. calls # <<>> /\ Head(calls).kind = "start" /\ calls' = Tail(calls) /\ wire' = wire
        /\ opening' = opening \cup {o} /\ UNCHANGED <<records, lifecycle, queue, review>>
    BY <1>3 DEF HandleStart
  <2>2. /\ Once(Tail(calls), wire, opening) /\ New(Head(calls), Tail(calls), wire, opening)
        /\ Sent = {Head(calls)} \cup ToSet(Tail(calls))
    BY <1>0, <2>1, Sequences, TakesCall, HeadAndTail
  <2>3. \A m \in ToSet(Tail(calls)) \cup ToSet(wire) : m.kind = "start" => m.mount # e
    BY <2>1, <2>2 DEF New, Same
  <2>4. \A p \in opening : p.mount # e
    BY <2>1, <2>2 DEF New
  <2>5. o.mount = e
    OBVIOUS
  <2>6. OnceEach'
    <3> HIDE DEF o, e
    <3>1. Once(Tail(calls), wire, opening \cup {o})
      BY <2>2, <2>3, <2>4, <2>5 DEF Once
    <3> QED BY <1>0, <2>1, <3>1 DEF OnceEach
  <2>7. UnderWay' \subseteq UnderWay /\ Head(calls) \in UnderWay
    BY <2>1, <2>2 DEF UnderWay, Sent, Arriving
  <2>8. task[e] = "start"
    BY <2>1, <2>7, Unexpected DEF Expected
  <2>9. AllExpected'
    <3> HIDE DEF o, e
    <3> QED BY <1>0, <2>1, <2>5, <2>7, <2>8
            DEF AllExpected, Expected, Waiting, lifecycle, queue, review
  <2> QED BY <2>6, <2>9 DEF Messages
<1>4. ASSUME NEW o \in opening, AnswerStart(o) PROVE Messages'
  <2>1. PICK inst \in {0, o.inst} :
            \/ wire' = Append(wire, Started(o.mount, inst))
            \/ /\ pending # Nothing
               /\ wire' = Append(Append(wire, Noted(pending)), Started(o.mount, inst))
    BY <1>4, StartAnswered
  <2> DEFINE reply == Started(o.mount, inst)
             n == Noted(pending)
             os == opening \ {o}
  <2>2. /\ reply \in ToRenderer /\ reply.kind = "start" /\ reply.mount = o.mount
        /\ pending # Nothing => n \in ToRenderer /\ n.kind = "note"
    <3>1. o.mount \in Mount /\ inst \in Session
      BY <1>4, StartAnswered, Constants DEF Session
    <3> QED BY <3>1, MessageForms DEF Started, Noted, LifecycleTypeOK
  <2>3. opening' = os /\ UNCHANGED <<calls, records, lifecycle, queue, review>>
    BY <1>4 DEF AnswerStart
  <2>4. Once(calls, wire, os) /\ wire \in Seq(ToRenderer)
    BY <1>0, Sequences DEF Once
  <2>5. \A p \in os : p.mount # o.mount
    BY <1>0 DEF Once
  <2>6. \A m \in ToSet(calls) \cup ToSet(wire) : m.kind = "start" => m.mount # o.mount
    BY <1>0 DEF Once
  <2> HIDE DEF reply, n, os
  <2>7. New(reply, calls, wire, os)
    BY <2>2, <2>5, <2>6 DEF New, Same
  <2>8. CASE wire' = Append(wire, reply)
    <3>1. Once(calls, wire', os) /\ ToSet(wire') = ToSet(wire) \cup {reply}
      BY <2>2, <2>4, <2>7, <2>8, Arrives, OneMore
    <3>2. OnceEach'
      BY <1>0, <2>3, <3>1 DEF OnceEach
    <3>3. UnderWay' = UnderWay \cup {reply}
      BY <2>3, <3>1 DEF UnderWay, Sent, Arriving
    <3>4. task[o.mount] = "start"
      BY Unexpected
    <3>5. \A m \in UnderWay' : Expected(m)'
      BY <1>0, <2>2, <2>3, <3>3, <3>4 DEF AllExpected, Expected, lifecycle, queue, review
    <3>6. \A p \in opening' : task'[p.mount] = "start"
      BY <1>0, <2>3 DEF AllExpected, os, lifecycle
    <3>7. \A r \in Waiting' : r.kind = "start" => task'[r.mount] = "record"
      BY <1>0, <2>3 DEF AllExpected, Waiting, lifecycle
    <3> QED BY <3>2, <3>5, <3>6, <3>7 DEF Messages, AllExpected
  <2>9. CASE pending # Nothing /\ wire' = Append(Append(wire, n), reply)
    <3> DEFINE ws == Append(wire, n)
    <3>1. New(n, calls, wire, os)
      BY <2>2, <2>9 DEF New, Same
    <3>2. Once(calls, ws, os) /\ ToSet(ws) = ToSet(wire) \cup {n} /\ ws \in Seq(ToRenderer)
      BY <2>2, <2>4, <2>9, <3>1, Arrives, OneMore
    <3>3. New(reply, calls, ws, os)
      BY <2>2, <2>7, <2>9, <3>2 DEF New, Same
    <3> HIDE DEF ws
    <3>4. Once(calls, Append(ws, reply), os) /\ ToSet(Append(ws, reply)) = ToSet(ws) \cup {reply}
      BY <2>2, <3>2, <3>3, Arrives, OneMore
    <3>5. wire' = Append(ws, reply)
      BY <2>9 DEF ws
    <3>6. OnceEach'
      BY <1>0, <2>3, <3>4, <3>5 DEF OnceEach
    <3>7. UnderWay' = UnderWay \cup {n, reply}
      BY <2>3, <3>2, <3>4, <3>5 DEF UnderWay, Sent, Arriving
    <3>8. task[o.mount] = "start"
      BY Unexpected
    <3>9. \A m \in UnderWay' : Expected(m)'
      BY <1>0, <2>2, <2>3, <2>9, <3>7, <3>8 DEF AllExpected, Expected, lifecycle, queue, review
    <3>10. \A p \in opening' : task'[p.mount] = "start"
      BY <1>0, <2>3 DEF AllExpected, os, lifecycle
    <3>11. \A r \in Waiting' : r.kind = "start" => task'[r.mount] = "record"
      BY <1>0, <2>3 DEF AllExpected, Waiting, lifecycle
    <3> QED BY <3>6, <3>9, <3>10, <3>11 DEF Messages, AllExpected
  <2> QED BY <2>1, <2>8, <2>9 DEF reply, n
<1>5. CASE HandleStop
  <2> DEFINE c == Head(calls)
  <2>1. calls # <<>> /\ c.kind = "stop" /\ calls' = Tail(calls) /\ wire' = Append(wire, c)
        /\ UNCHANGED <<opening, lifecycle, records, queue, review>>
    BY <1>5 DEF HandleStop
  <2>2. c \in ToRenderer
    BY <2>1, FirstCall, CallIs, CallForms
  <2>3. Same(c, c)
    BY <2>1 DEF Same
  <2>4. OnceEach' /\ UnderWay' \subseteq UnderWay
    BY <1>0, <2>1, <2>2, <2>3, Replies DEF UnderWay
  <2> QED BY <1>0, <2>1, <2>4
          DEF Messages, AllExpected, Expected, Waiting, lifecycle, queue, review
<1>6. CASE HandleResolve
  <2> DEFINE c == Head(calls)
  <2>1. calls # <<>> /\ c.kind = "resolve" /\ calls' = Tail(calls)
        /\ UNCHANGED <<opening, lifecycle, records, queue, review>>
    BY <1>6 DEF HandleResolve
  <2>2. PICK result \in {"ok", "stale", "error"} : wire' = Append(wire, Replied(c, result))
    BY <1>6 DEF HandleResolve, Replied
  <2> DEFINE m == Replied(c, result)
  <2>3. m \in ToRenderer /\ m.kind = "resolve" /\ m.by = c.by /\ c \in Sent
    BY <2>1, FirstCall, ReplyIs
  <2>4. Same(c, m)
    BY <2>1, <2>3 DEF Same
  <2>5. OnceEach' /\ UnderWay' \subseteq UnderWay \cup {m}
    <3> HIDE DEF m
    <3> QED BY <1>0, <2>1, <2>2, <2>3, <2>4, Replies DEF m
  <2>6. Expected(c)
    BY <1>0, <2>3 DEF AllExpected, UnderWay
  <2>7. Expected(m)
    BY <2>1, <2>3, <2>6 DEF Expected
  <2> HIDE DEF m, c
  <2> QED BY <1>0, <2>1, <2>5, <2>7
          DEF Messages, AllExpected, Expected, Waiting, lifecycle, queue, review
<1> QED BY <1>1, <1>2, <1>3, <1>4, <1>5, <1>6 DEF Main

LEMMA MessagesCleanUp ==
    ASSUME LifecycleTypeOK, Messages, Turns, current # 0, NEW next, CleanUp(next),
           \A e \in Mount : task[e] # "none" => task'[e] = task[e],
           UNCHANGED <<wire, records, opening, answer>>
    PROVE  Messages'
<1>0. OnceEach /\ AllExpected /\ current \in Mount /\ cleanup[current] = "none"
  BY Numbers DEF Messages, Turns, Turn
<1>1. OnceEach' /\ UnderWay' \subseteq UnderWay \cup {StopCall(current)}
      /\ Waiting' = Waiting
  <2>1. CASE busy = Nothing
    <3>1. Call(StopCall(current))
      BY <2>1 DEF CleanUp, StopCall
    <3>2. StopCall(current) \in ToMain /\ New(StopCall(current), calls, wire, opening)
      BY <1>0, CallForms, NewStop
    <3> QED BY <1>0, <3>1, <3>2, NewCall
  <2>2. CASE busy # Nothing
    BY <1>0, <2>2 DEF CleanUp, OnceEach, UnderWay, Sent, Arriving, Waiting
  <2> QED BY <2>1, <2>2
<1>2. ASSUME NEW m \in UnderWay' PROVE Expected(m)'
  <2>1. CASE m \in UnderWay
    <3>1. Expected(m) /\ (m.kind \in {"start", "stop"} => m.mount \in Mount)
      BY <1>0, <2>1, Elements, CallIs, MessageIs DEF AllExpected, UnderWay
    <3>2. m.kind = "start" => task'[m.mount] = "start"
      BY <3>1 DEF Expected
    <3>3. m.kind = "stop" => cleanup'[m.mount] = cleanup[m.mount]
      BY <1>0, <3>1 DEF Expected, CleanUp, LifecycleTypeOK
    <3>4. step' = step
      BY DEF CleanUp, Drop
    <3> QED BY <3>1, <3>2, <3>3, <3>4 DEF Expected
  <2>2. CASE m = StopCall(current) /\ m \notin UnderWay
    <3>1. m.kind = "stop" /\ m.mount = current
      BY <2>2 DEF StopCall
    <3>2. busy = Nothing
      BY <2>2 DEF CleanUp, UnderWay, Sent, Arriving
    <3>3. cleanup'[current] = "stop"
      BY <1>0, <3>2 DEF CleanUp, LifecycleTypeOK
    <3> QED BY <3>1, <3>3 DEF Expected
  <2> QED BY <1>1, <2>1, <2>2
<1>3. \A o \in opening' : task'[o.mount] = "start"
  <2>1. \A o \in opening : o.mount \in Mount
    BY DEF LifecycleTypeOK
  <2> QED BY <1>0, <2>1 DEF AllExpected
<1>4. \A r \in Waiting' : r.kind = "start" => task'[r.mount] = "record"
  <2>1. \A r \in Waiting : r.kind = "start" => r.mount \in Mount
    BY Elements, RecordIs
  <2> QED BY <1>0, <1>1, <2>1 DEF AllExpected
<1> QED BY <1>1, <1>2, <1>3, <1>4 DEF Messages, AllExpected

\* A mount whose task goes on from where no message or record expects it.
LEMMA TaskGoesOn ==
    ASSUME LifecycleTypeOK, Messages, NEW e \in Mount, NEW t, task' = [task EXCEPT ![e] = t],
           task[e] \notin {"start", "record"},
           UNCHANGED <<calls, wire, records, opening, cleanup, step, answer>>
    PROVE  Messages'
<1>1. \A b \in Mount : task[b] \in {"start", "record"} => task'[b] = task[b]
  BY DEF LifecycleTypeOK
<1>2. \A m \in UnderWay : Expected(m) /\ (m.kind = "start" => m.mount \in Mount)
  BY Elements, CallIs, MessageIs DEF Messages, AllExpected, UnderWay
<1>3. \A o \in opening : o.mount \in Mount /\ task[o.mount] = "start"
  BY DEF LifecycleTypeOK, Messages, AllExpected
<1>4. \A r \in Waiting : r.kind = "start" => r.mount \in Mount /\ task[r.mount] = "record"
  BY Elements, RecordIs DEF Messages, AllExpected
<1>5. UnderWay' = UnderWay /\ Waiting' = Waiting /\ OnceEach'
  BY DEF UnderWay, Sent, Arriving, Waiting, Messages, OnceEach
<1>6. \A m \in UnderWay' : Expected(m)'
  BY <1>1, <1>2, <1>5 DEF Expected
<1> QED BY <1>1, <1>3, <1>4, <1>5, <1>6 DEF Messages, AllExpected

LEMMA MessagesLifecycle ==
    ASSUME LifecycleTypeOK, Messages, Turns,
           \/ MountFolder \/ UnmountFolder \/ ReceiveStop \/ ReceiveStart \/ RecordStart
           \/ \E e \in Mount : StartSession(e) \/ EndStart(e) \/ StopDrained(e) \/ SettleCleanup(e)
    PROVE  Messages'
<1>0. OnceEach /\ AllExpected /\ Once(calls, wire, opening)
  BY DEF Messages, OnceEach
<1>a. /\ \A m \in UnderWay : m.kind \in {"start", "stop"} => m.mount \in Mount
      /\ \A o \in opening : o.mount \in Mount
      /\ \A r \in Waiting : r.kind = "start" => r.mount \in Mount
  BY Elements, CallIs, MessageIs, RecordIs DEF UnderWay, LifecycleTypeOK
<1>1. CASE MountFolder
  <2>1. mounts + 1 \in Mount /\ task[mounts + 1] = "none"
    <3>1. mounts + 1 \in Mount /\ mounts + 1 > mounts
      BY <1>1, Numbers DEF MountFolder
    <3> QED BY <3>1 DEF Turns, Turn
  <2>2. task' = [task EXCEPT ![mounts + 1] = "wait"]
    BY <1>1 DEF MountFolder
  <2>3. \A e \in Mount : task[e] # "none" => task'[e] = task[e]
    BY <2>1, <2>2 DEF LifecycleTypeOK
  <2>4. CASE current # 0
    BY <1>1, <2>3, <2>4, MessagesCleanUp DEF MountFolder, main
  <2>5. CASE current = 0
    BY <1>1, <2>1, <2>2, <2>5, TaskGoesOn DEF MountFolder, main, queue
  <2> QED BY <2>4, <2>5
<1>2. CASE UnmountFolder
  BY <1>2, MessagesCleanUp DEF UnmountFolder, main
<1>3. CASE ReceiveStop
  <2> DEFINE e == Head(wire).mount
  <2>1. Received /\ Head(wire).kind = "stop"
        /\ UNCHANGED <<calls, opening, task, records, step, answer>>
        /\ \E c : cleanup' = [cleanup EXCEPT ![e] = c]
    BY <1>3 DEF ReceiveStop, main, review, queue
  <2>2. /\ OnceEach' /\ UnderWay' \subseteq UnderWay
        /\ \A m \in UnderWay' : ~Same(m, Head(wire))
    BY <1>0, <2>1, OneReceived DEF OnceEach
  <2>3. \A m \in UnderWay' : m.kind = "stop" => m.mount # e
    BY <2>1, <2>2 DEF Same
  <2>4. ASSUME NEW m \in UnderWay' PROVE Expected(m)'
    <3>1. Expected(m) /\ (m.kind = "stop" => m.mount \in Mount)
      BY <1>0, <1>a, <2>2 DEF AllExpected
    <3>2. m.kind = "stop" => cleanup'[m.mount] = cleanup[m.mount]
      BY <2>1, <2>3, <3>1 DEF LifecycleTypeOK
    <3> QED BY <2>1, <3>1, <3>2 DEF Expected
  <2> QED BY <1>0, <2>1, <2>2, <2>4 DEF Messages, AllExpected, Waiting
<1>4. CASE ReceiveStart
  <2> DEFINE e == Head(wire).mount
             r == Started(e, Head(wire).inst)
  <2>1. Received /\ Head(wire).kind = "start"
        /\ UNCHANGED <<calls, opening, cleanup, step, answer>>
        /\ \E t : task' = [task EXCEPT ![e] = t]
    BY <1>4 DEF ReceiveStart, main, review, queue
  <2>2. \/ UNCHANGED records
        \/ Head(wire).inst # 0 /\ task'= [task EXCEPT ![e] = "record"] /\ records' = Append(records, r)
    BY <1>4 DEF ReceiveStart, Started
  <2>3. /\ Once(calls, wire, opening)' /\ UnderWay' \subseteq UnderWay
        /\ \A m \in UnderWay' : ~Same(m, Head(wire))
        /\ \A o \in opening : o.mount # e
        /\ Head(wire) \in UnderWay /\ Head(wire) \in Arriving
    BY <1>0, <2>1, OneReceived
  <2>4. \A m \in UnderWay' : m.kind = "start" => m.mount # e
    BY <2>1, <2>3 DEF Same
  <2>5. e \in Mount /\ task[e] = "start" /\ Head(wire).inst \in Session
    BY <1>a, <2>1, <2>3, Unexpected, Elements, MessageIs DEF Expected
  <2> HIDE DEF e
  <2>6. \A b \in Mount : b # e => task'[b] = task[b]
    BY <2>1, <2>5 DEF LifecycleTypeOK
  <2>7. ASSUME NEW m \in UnderWay' PROVE Expected(m)'
    <3>1. Expected(m) /\ (m.kind = "start" => m.mount \in Mount)
      BY <1>0, <1>a, <2>3 DEF AllExpected
    <3>2. m.kind = "start" => task'[m.mount] = task[m.mount]
      BY <2>4, <2>6, <3>1
    <3> QED BY <2>1, <3>1, <3>2 DEF Expected
  <2>8. \A o \in opening' : task'[o.mount] = "start"
    BY <1>0, <1>a, <2>1, <2>3, <2>6 DEF AllExpected
  <2>9. \A s \in Waiting : s.kind = "start" => s.mount # e /\ task'[s.mount] = "record"
    BY <1>0, <1>a, <2>5, <2>6 DEF AllExpected
  <2>10. Unique(records') /\ \A s \in Waiting' : s.kind = "start" => task'[s.mount] = "record"
    <3>1. CASE UNCHANGED records
      BY <1>0, <2>9, <3>1 DEF OnceEach, Waiting
    <3>2. CASE /\ Head(wire).inst # 0 /\ task'= [task EXCEPT ![e] = "record"]
               /\ records' = Append(records, r)
      <4>1. r \in Recorded /\ r.kind = "start" /\ r.mount = e
        BY <2>5, <3>2, MessageForms DEF Started
      <4> HIDE DEF r
      <4>2. \A s \in Waiting : ~Same(s, r)
        BY <2>9, <4>1 DEF Same
      <4>3. Unique(records') /\ Waiting' = Waiting \cup {r}
        BY <1>0, <3>2, <4>1, <4>2, OneMore, Sequences DEF OnceEach, Waiting
      <4>4. task'[e] = "record"
        BY <2>5, <3>2 DEF LifecycleTypeOK
      <4> QED BY <2>9, <4>1, <4>3, <4>4
    <3> QED BY <2>2, <3>1, <3>2
  <2> QED BY <2>3, <2>7, <2>8, <2>10 DEF Messages, AllExpected, OnceEach
<1>5. CASE RecordStart
  <2> DEFINE e == Head(records).mount
             inst == Head(records).inst
             deltas == BufferedOf(inst)
             notes == [i \in DOMAIN deltas |-> Note(inst, deltas[i])]
  <2>1. /\ records # <<>> /\ Head(records).kind = "start"
        /\ records' = Tail(records) \o notes
        /\ task' = [task EXCEPT ![e] = "assets"]
        /\ UNCHANGED <<calls, wire, opening, cleanup, step, answer>>
    BY <1>5 DEF RecordStart, main, review, queue
  <2>2. /\ Tail(records) \in Seq(Recorded) /\ Unique(Tail(records))
        /\ \A r \in ToSet(Tail(records)) : ~Same(Head(records), r)
        /\ Waiting = {Head(records)} \cup ToSet(Tail(records))
    BY <1>0, <2>1, FirstRecord DEF OnceEach
  <2>3. e \in Mount /\ inst \in Session /\ task[e] = "record"
    BY <1>0, <2>1, <2>2, FirstRecord, RecordIs DEF AllExpected
  <2>4. notes \in Seq(Recorded) /\ \A r \in ToSet(notes) : r.kind = "note"
    <3>1. deltas \in Seq({d \in Deltas : owner[d] = inst})
      BY BufferedIs DEF LifecycleTypeOK
    <3>2. \A i \in DOMAIN deltas : deltas[i] \in Deltas
      BY <3>1
    <3>3. \A i \in DOMAIN deltas : Note(inst, deltas[i]) \in Recorded
      BY <2>3, <3>2, MessageForms
    <3>4. DOMAIN deltas = 1..Len(deltas) /\ Len(deltas) \in Nat
      BY <3>1
    <3> HIDE DEF deltas, inst
    <3>5. notes \in Seq(Recorded) /\ DOMAIN notes = DOMAIN deltas
      BY <3>3, <3>4
    <3>6. \A i \in DOMAIN notes : notes[i].kind = "note"
      BY DEF Note
    <3> QED BY <3>5, <3>6 DEF ToSet
  <2> HIDE DEF e, notes
  <2>5. Unique(notes) /\ Apart(ToSet(Tail(records)), ToSet(notes))
    BY <2>4 DEF Unique, Apart, Same, ToSet
  <2>6. Unique(records') /\ Waiting' = ToSet(Tail(records)) \cup ToSet(notes)
    <3> DEFINE s == Tail(records) \o notes
    <3>1. Unique(s) /\ ToSet(s) = ToSet(Tail(records)) \cup ToSet(notes)
      BY <2>2, <2>4, <2>5, Joined
    <3>2. records' = s
      BY <2>1
    <3> HIDE DEF s
    <3> QED BY <3>1, <3>2 DEF Waiting
  <2>7. \A r \in ToSet(Tail(records)) : r.kind = "start" => r.mount # e
    BY <2>1, <2>2 DEF Same, e
  <2>8. \A b \in Mount : b # e => task'[b] = task[b]
    BY <2>1, <2>3 DEF LifecycleTypeOK
  <2>9. ASSUME NEW r \in Waiting', r.kind = "start" PROVE task'[r.mount] = "record"
    <3>1. r \in ToSet(Tail(records)) /\ r \in Waiting
      BY <2>2, <2>4, <2>6, <2>9
    <3> QED BY <1>0, <1>a, <2>7, <2>8, <2>9, <3>1 DEF AllExpected
  <2>10. UnderWay' = UnderWay /\ Once(calls, wire, opening)'
    BY <1>0, <2>1 DEF UnderWay, Sent, Arriving
  <2>11. ASSUME NEW m \in UnderWay' PROVE Expected(m)'
    <3>1. Expected(m) /\ (m.kind = "start" => m.mount \in Mount)
      BY <1>0, <1>a, <2>10 DEF AllExpected
    <3>2. m.kind = "start" => task'[m.mount] = task[m.mount]
      BY <2>3, <2>8, <3>1 DEF Expected
    <3> QED BY <2>1, <3>1, <3>2 DEF Expected
  <2>12. \A o \in opening' : task'[o.mount] = "start"
    BY <1>0, <1>a, <2>1, <2>3, <2>8 DEF AllExpected
  <2> QED BY <2>6, <2>9, <2>10, <2>11, <2>12 DEF Messages, AllExpected, OnceEach
<1>6. ASSUME NEW e \in Mount, StartSession(e) PROVE Messages'
  <2>1. task[e] = "wait" /\ UNCHANGED <<wire, records, opening, cleanup, step, answer>>
    BY <1>6 DEF StartSession, main, queue, review
  <2>2. CASE task' = [task EXCEPT ![e] = "done"] /\ UNCHANGED calls
    BY <2>1, <2>2, TaskGoesOn
  <2>3. CASE task' = [task EXCEPT ![e] = "start"] /\ Call(StartCall(e))
    <3>1. New(StartCall(e), calls, wire, opening) /\ StartCall(e) \in ToMain
      BY <2>1, NewStart, CallForms
    <3>2. OnceEach' /\ UnderWay' = UnderWay \cup {StartCall(e)} /\ Waiting' = Waiting
      BY <1>0, <2>1, <2>3, <3>1, NewCall
    <3>3. \A b \in Mount : task[b] # "wait" => task'[b] = task[b]
      BY <2>1, <2>3 DEF LifecycleTypeOK
    <3>4. task'[e] = "start" /\ StartCall(e).kind = "start" /\ StartCall(e).mount = e
      BY <2>3 DEF LifecycleTypeOK, StartCall
    <3>5. ASSUME NEW m \in UnderWay' PROVE Expected(m)'
      <4>1. CASE m \in UnderWay
        BY <1>0, <1>a, <2>1, <3>3, <4>1 DEF AllExpected, Expected
      <4>2. CASE m = StartCall(e)
        BY <3>4, <4>2 DEF Expected
      <4> QED BY <3>2, <4>1, <4>2
    <3>6. \A o \in opening' : task'[o.mount] = "start"
      BY <1>0, <1>a, <2>1, <3>3 DEF AllExpected
    <3>7. \A r \in Waiting' : r.kind = "start" => task'[r.mount] = "record"
      BY <1>0, <1>a, <3>2, <3>3 DEF AllExpected
    <3> QED BY <3>2, <3>5, <3>6, <3>7 DEF Messages, AllExpected
  <2> QED BY <1>6, <2>2, <2>3 DEF StartSession, StartCall
<1>7. ASSUME NEW e \in Mount, EndStart(e) PROVE Messages'
  BY <1>7, TaskGoesOn DEF EndStart, main, queue, review
<1>8. ASSUME NEW e \in Mount, StopDrained(e) \/ SettleCleanup(e) PROVE Messages'
  <2>1. /\ cleanup[e] \notin {"stop", "stop again"}
        /\ UNCHANGED <<wire, records, opening, task, step, answer>>
        /\ \E c : cleanup' = [cleanup EXCEPT ![e] = c]
    BY <1>8 DEF StopDrained, SettleCleanup, main, queue, review
  <2>2. \A b \in Mount : b # e => cleanup'[b] = cleanup[b]
    BY <2>1 DEF LifecycleTypeOK
  <2>3. \A m \in UnderWay : Expected(m)'
    BY <1>0, <1>a, <2>1, <2>2 DEF AllExpected, Expected
  <2>4. CASE UNCHANGED calls
    BY <1>0, <2>1, <2>3, <2>4 DEF Messages, OnceEach, AllExpected, UnderWay, Sent, Arriving, Waiting
  <2>5. CASE Call(StopCall(e)) /\ cleanup'[e] \in {"stop", "stop again"}
    <3>1. New(StopCall(e), calls, wire, opening) /\ StopCall(e) \in ToMain
      BY <2>1, NewStop, CallForms
    <3>2. OnceEach' /\ UnderWay' = UnderWay \cup {StopCall(e)} /\ Waiting' = Waiting
      BY <1>0, <2>1, <2>5, <3>1, NewCall
    <3>3. Expected(StopCall(e))'
      BY <2>5 DEF Expected, StopCall
    <3> QED BY <1>0, <2>1, <2>3, <3>2, <3>3 DEF Messages, AllExpected
  <2>6. UNCHANGED calls \/ (Call(StopCall(e)) /\ cleanup'[e] \in {"stop", "stop again"})
    BY <1>8 DEF StopDrained, SettleCleanup, StopCall, LifecycleTypeOK
  <2> QED BY <2>4, <2>5, <2>6
<1> QED BY <1>1, <1>2, <1>3, <1>4, <1>5, <1>6, <1>7, <1>8

\* The queue or an answer goes on from where it waits for no call.
LEMMA QueueGoesOn ==
    ASSUME LifecycleTypeOK, Messages, step \notin Acknowledging,
           UNCHANGED <<calls, wire, records, opening, task, cleanup, answer>>
    PROVE  Messages'
<1>1. \A m \in UnderWay : Expected(m)'
  BY Unexpected DEF Expected
<1> QED BY <1>1 DEF Messages, OnceEach, AllExpected, UnderWay, Sent, Arriving, Waiting

LEMMA QueueCalls ==
    ASSUME LifecycleTypeOK, Messages, step \notin Acknowledging, step' \in Acknowledging,
           NEW d \in Deltas, NEW how \in Verdicts, Resolve("queue", d, how),
           UNCHANGED <<wire, records, opening, task, cleanup, answer>>
    PROVE  Messages'
<1> DEFINE c == ResolveCall("queue", d, how)
<1>1. c \in ToMain /\ c.kind = "resolve" /\ c.by = "queue"
  BY CallForms DEF ResolveCall
<1>2. New(c, calls, wire, opening)
  BY NewResolution
<1>3. Call(c)
  BY DEF Resolve, ResolveCall
<1> HIDE DEF c
<1>4. OnceEach' /\ UnderWay' = UnderWay \cup {c} /\ Waiting' = Waiting
  BY <1>1, <1>2, <1>3, NewCall DEF Messages
<1>5. \A m \in UnderWay : Expected(m)'
  BY Unexpected DEF Expected
<1>6. Expected(c)'
  BY <1>1 DEF Expected
<1> QED BY <1>4, <1>5, <1>6 DEF Messages, AllExpected

LEMMA MessagesQueue ==
    ASSUME LifecycleTypeOK, Messages,
           \/ ReceiveNote \/ RecordNote \/ Begin \/ IngestFails \/ IngestConflicts \/ Ingest
           \/ ReceiveAcknowledgement
    PROVE  Messages'
<1>0. OnceEach /\ AllExpected /\ Once(calls, wire, opening)
  BY DEF Messages, OnceEach
<1>1. CASE ReceiveNote
  <2>1. Received /\ UNCHANGED <<calls, opening, task, cleanup, step, answer>>
    BY <1>1 DEF ReceiveNote, main, queue, review
  <2>2. Once(calls, wire, opening)' /\ UnderWay' \subseteq UnderWay
    BY <1>0, <2>1, OneReceived
  <2>3. \A m \in UnderWay' : Expected(m)'
    BY <1>0, <2>1, <2>2 DEF AllExpected, Expected
  <2>4. CASE UNCHANGED records
    BY <1>0, <2>1, <2>2, <2>3, <2>4 DEF Messages, OnceEach, AllExpected, Waiting
  <2>5. CASE records' = Append(records, Note(active, Head(wire).delta))
    <3> DEFINE r == Note(active, Head(wire).delta)
    <3>1. Head(wire).delta \in Deltas
      BY <1>1, FirstMessage, MessageIs DEF ReceiveNote, Received
    <3>2. r \in Recorded /\ r.kind = "note"
      BY <3>1, MessageForms DEF Note, LifecycleTypeOK
    <3> HIDE DEF r
    <3>3. \A s \in Waiting : ~Same(s, r)
      BY <3>2 DEF Same
    <3>4. Unique(records') /\ Waiting' = Waiting \cup {r}
      BY <1>0, <2>5, <3>2, <3>3, OneMore, Sequences DEF OnceEach, Waiting, r
    <3> QED BY <1>0, <2>1, <2>2, <2>3, <3>2, <3>4 DEF Messages, OnceEach, AllExpected
  <2> QED BY <1>1, <2>4, <2>5 DEF ReceiveNote
<1>2. CASE RecordNote
  <2>1. /\ records # <<>> /\ records' = Tail(records)
        /\ UNCHANGED <<calls, wire, opening, task, cleanup, step, answer>>
    BY <1>2 DEF RecordNote, main, lifecycle, review
  <2>2. Unique(records') /\ Waiting' \subseteq Waiting
    BY <1>0, <2>1, FirstRecord DEF OnceEach, Waiting
  <2>3. UnderWay' = UnderWay
    BY <2>1 DEF UnderWay, Sent, Arriving
  <2>4. \A m \in UnderWay' : Expected(m)'
    BY <1>0, <2>1, <2>3 DEF AllExpected, Expected
  <2> QED BY <1>0, <2>1, <2>2, <2>4 DEF Messages, OnceEach, AllExpected
<1>3. CASE Begin
  <2>1. step \notin Acknowledging
    BY <1>3 DEF Begin, LifecycleTypeOK, Acknowledging
  <2> QED BY <1>3, <2>1, QueueGoesOn DEF Begin, main, lifecycle, review
<1>4. CASE IngestFails \/ IngestConflicts
  <2>1. step \notin Acknowledging
    BY <1>4 DEF IngestFails, IngestConflicts, Acknowledging
  <2> QED BY <1>4, <2>1, QueueGoesOn DEF IngestFails, IngestConflicts, main, lifecycle, review
<1>5. CASE Ingest
  <2>1. step \notin Acknowledging /\ UNCHANGED <<wire, records, opening, task, cleanup, answer>>
    BY <1>5 DEF Ingest, Acknowledging, main, lifecycle, review
  <2>2. busy.delta \in Deltas
    BY <1>5, BusyIs DEF Ingest
  <2>3. CASE UNCHANGED calls
    BY <2>1, <2>3, QueueGoesOn
  <2>4. CASE step' = "acknowledge 1" /\ Resolve("queue", busy.delta, "accept")
    BY <2>1, <2>2, <2>4, QueueCalls DEF Acknowledging, Verdicts
  <2> QED BY <1>5, <2>3, <2>4 DEF Ingest
<1>6. CASE ReceiveAcknowledgement
  <2>1. /\ Received /\ Head(wire).kind = "resolve" /\ Head(wire).by = "queue"
        /\ UNCHANGED <<opening, task, cleanup, answer, records>>
    BY <1>6 DEF ReceiveAcknowledgement, main, lifecycle, review
  <2>2. step \in Acknowledging
    <3>1. Head(wire) \in UnderWay
      BY <2>1, FirstMessage DEF Received, UnderWay
    <3> QED BY <2>1, <3>1, Unexpected DEF Expected
  <2>3. busy.delta \in Deltas
    BY <2>2, BusyIs DEF Acknowledging
  <2>4. CASE step' \in Acknowledging /\ Resolve("queue", busy.delta, "accept")
    <3> DEFINE c == ResolveCall("queue", busy.delta, "accept")
    <3>1. c \in ToMain /\ c.kind = "resolve" /\ c.by = "queue"
      BY <2>3, CallForms DEF ResolveCall, Verdicts
    <3>2. Call(c)
      BY <2>4 DEF Resolve, ResolveCall
    <3> HIDE DEF c
    <3>3. Same(Head(wire), c)
      BY <2>1, <3>1 DEF Same
    <3>4. OnceEach' /\ UnderWay' \subseteq UnderWay \cup {c} /\ Waiting' = Waiting
      BY <1>0, <2>1, <3>1, <3>2, <3>3, Retried
    <3>5. \A m \in UnderWay' : Expected(m)'
      BY <1>0, <2>1, <2>4, <3>1, <3>4 DEF AllExpected, Expected
    <3> QED BY <1>0, <2>1, <3>4, <3>5 DEF Messages, AllExpected
  <2>5. CASE UNCHANGED calls
    <3>1. /\ Once(calls, wire, opening)' /\ UnderWay' \subseteq UnderWay
          /\ \A m \in UnderWay' : ~Same(m, Head(wire))
      BY <1>0, <2>1, <2>5, OneReceived
    <3>2. \A m \in UnderWay' : ~(m.kind = "resolve" /\ m.by = "queue")
      BY <2>1, <3>1 DEF Same
    <3>3. \A m \in UnderWay' : Expected(m)'
      BY <1>0, <2>1, <3>1, <3>2 DEF AllExpected, Expected
    <3> QED BY <1>0, <2>1, <3>1, <3>3 DEF Messages, OnceEach, AllExpected, Waiting
  <2>6. CASE Retries(step, Head(wire).result)
    <3>1. step' \in Acknowledging
      BY <1>6, <2>6, NextTryIs DEF ReceiveAcknowledgement, Retries
    <3> QED BY <1>6, <2>4, <2>6, <3>1 DEF ReceiveAcknowledgement
  <2> QED BY <1>6, <2>5, <2>6 DEF ReceiveAcknowledgement
<1> QED BY <1>1, <1>2, <1>3, <1>4, <1>5, <1>6

LEMMA MessagesAnswers ==
    ASSUME LifecycleTypeOK, Messages, Reviewed,
           \/ \E d \in Deltas, how \in Verdicts : Answer(d, how)
           \/ AnswerIngests \/ ReceiveAnswer
    PROVE  Messages'
<1>0. OnceEach /\ AllExpected /\ Once(calls, wire, opening)
  BY DEF Messages, OnceEach
<1>1. ASSUME NEW d \in Deltas, NEW how \in Verdicts, Resolve("answer", d, how),
             answer = Nothing \/ answer.step \notin Acknowledging,
             answer' # Nothing, answer'.step \in Acknowledging,
             UNCHANGED <<wire, records, opening, task, cleanup, step>>
      PROVE  Messages'
  <2> DEFINE c == ResolveCall("answer", d, how)
  <2>1. c \in ToMain /\ c.kind = "resolve" /\ c.by = "answer"
    BY CallForms DEF ResolveCall
  <2>2. New(c, calls, wire, opening)
    BY <1>1, NewResolution
  <2>3. Call(c)
    BY <1>1 DEF Resolve, ResolveCall
  <2> HIDE DEF c
  <2>4. OnceEach' /\ UnderWay' = UnderWay \cup {c} /\ Waiting' = Waiting
    BY <1>0, <1>1, <2>1, <2>2, <2>3, NewCall
  <2>5. \A m \in UnderWay : Expected(m)'
    BY <1>1, Unexpected DEF Expected
  <2>6. Expected(c)'
    BY <1>1, <2>1 DEF Expected
  <2> QED BY <1>0, <1>1, <2>4, <2>5, <2>6 DEF Messages, AllExpected
<1>2. ASSUME NEW d \in Deltas, NEW how \in Verdicts, Answer(d, how) PROVE Messages'
  <2>1. answer = Nothing /\ UNCHANGED <<wire, records, opening, task, cleanup, step>>
    BY <1>2 DEF Answer, main, lifecycle, queue
  <2>2. CASE how = "accept"
    <3>1. \A m \in UnderWay : Expected(m)'
      BY <2>1, Unexpected DEF Expected
    <3>2. UNCHANGED calls
      BY <1>2, <2>2 DEF Answer
    <3> QED BY <1>0, <2>1, <3>1, <3>2
            DEF Messages, OnceEach, AllExpected, UnderWay, Sent, Arriving, Waiting
  <2>3. CASE how # "accept"
    <3>1. answer' # Nothing /\ answer'.step \in Acknowledging
      <4>1. /\ answer' # Nothing
            /\ answer' = [delta |-> d, how |-> how, mount |-> current,
                          step |-> IF how = "accept" THEN "ingest" ELSE "acknowledge 3"]
        BY <1>2, AnswerIs
      <4>2. answer'.step = "acknowledge 3"
        BY <2>3, <4>1
      <4> QED BY <4>1, <4>2 DEF Acknowledging
    <3>2. Resolve("answer", d, how)
      BY <1>2, <2>3 DEF Answer
    <3> QED BY <1>1, <2>1, <3>1, <3>2
  <2> QED BY <2>2, <2>3
<1>3. CASE AnswerIngests
  <2>1. /\ answer # Nothing /\ answer.step = "ingest" /\ Resolve("answer", answer.delta, "accept")
        /\ answer' = [answer EXCEPT !.step = "acknowledge 1"]
        /\ UNCHANGED <<wire, records, opening, task, cleanup, step>>
    BY <1>3 DEF AnswerIngests, main, lifecycle, queue
  <2>2. answer \in Answering
    BY <2>1 DEF LifecycleTypeOK
  <2>3. answer' \in Answering /\ answer'.step = "acknowledge 1"
    BY <2>1, <2>2 DEF Answering, Steps
  <2>4. answer' # Nothing /\ answer.delta \in Deltas
    BY <2>2, <2>3, Constants DEF Answering
  <2> QED BY <1>1, <2>1, <2>3, <2>4 DEF Acknowledging, Verdicts
<1>4. CASE ReceiveAnswer
  <2>1. /\ Received /\ Head(wire).kind = "resolve" /\ Head(wire).by = "answer"
        /\ UNCHANGED <<opening, task, cleanup, step, records>>
    BY <1>4 DEF ReceiveAnswer, main, lifecycle
  <2>2. answer # Nothing /\ answer \in Answering
    <3>1. Head(wire) \in UnderWay
      BY <2>1, FirstMessage DEF Received, UnderWay
    <3> QED BY <2>1, <3>1, Unexpected DEF Expected, LifecycleTypeOK
  <2>3. CASE Retries(answer.step, Head(wire).result)
    <3> DEFINE c == ResolveCall("answer", answer.delta, "accept")
    <3>1. c \in ToMain /\ c.kind = "resolve" /\ c.by = "answer"
      BY <2>2, CallForms DEF ResolveCall, Verdicts, Answering
    <3>2. Call(c)
      BY <1>4, <2>3 DEF ReceiveAnswer, Resolve, ResolveCall
    <3> HIDE DEF c
    <3>3. Same(Head(wire), c)
      BY <2>1, <3>1 DEF Same
    <3>4. OnceEach' /\ UnderWay' \subseteq UnderWay \cup {c} /\ Waiting' = Waiting
      BY <1>0, <2>1, <3>1, <3>2, <3>3, Retried
    <3>5. /\ NextTry[answer.step] \in Acknowledging
          /\ NextTry[answer.step] \in Steps \ {"none"}
          /\ answer' = [answer EXCEPT !.step = NextTry[answer.step]]
      BY <1>4, <2>3, NextTryIs DEF ReceiveAnswer, Retries
    <3>6. answer' \in Answering /\ answer'.step \in Acknowledging
      BY <2>2, <3>5 DEF Answering
    <3>7. answer' # Nothing
      BY <3>6, Constants
    <3>8. \A m \in UnderWay' : Expected(m)'
      BY <1>0, <2>1, <3>1, <3>4, <3>6, <3>7 DEF AllExpected, Expected
    <3> QED BY <1>0, <2>1, <3>4, <3>8 DEF Messages, AllExpected
  <2>4. CASE UNCHANGED calls
    <3>1. /\ Once(calls, wire, opening)' /\ UnderWay' \subseteq UnderWay
          /\ \A m \in UnderWay' : ~Same(m, Head(wire))
      BY <1>0, <2>1, <2>4, OneReceived
    <3>2. \A m \in UnderWay' : ~(m.kind = "resolve" /\ m.by = "answer")
      BY <2>1, <3>1 DEF Same
    <3>3. \A m \in UnderWay' : Expected(m)'
      BY <1>0, <2>1, <3>1, <3>2 DEF AllExpected, Expected
    <3> QED BY <1>0, <2>1, <3>1, <3>3 DEF Messages, OnceEach, AllExpected, Waiting
  <2> QED BY <1>4, <2>3, <2>4 DEF ReceiveAnswer
<1> QED BY <1>2, <1>3, <1>4

LEMMA MessagesStep ==
    ASSUME LifecycleTypeOK, Messages, Turns, Reviewed, [LifecycleNext]_allVars
    PROVE  Messages'
<1>1. CASE UNCHANGED allVars
  BY <1>1 DEF allVars, main, lifecycle, queue, review, Messages, OnceEach, AllExpected, Expected,
              UnderWay, Sent, Arriving, Waiting
<1>2. CASE LifecycleNext
  BY <1>2, MessagesMain, MessagesLifecycle, MessagesQueue, MessagesAnswers
  DEF LifecycleNext, Renderer, RendererWork, Main, Verdicts
<1> QED BY <1>1, <1>2

-----------------------------------------------------------------------------
(***************************************************************************)
(* Turns.                                                                  *)
(***************************************************************************)
LEMMA TurnsInit == LifecycleInit => Turns
<1> SUFFICES ASSUME LifecycleInit PROVE Turns
  OBVIOUS
<1>1. \A e \in Mount : e > 0 /\ task[e] = "none" /\ cleanup[e] = "none"
  BY Constants DEF LifecycleInit, Mount
<1>2. mounts = 0 /\ current = 0 /\ starting = FALSE
  BY DEF LifecycleInit
<1> QED BY <1>1, <1>2 DEF Turns, Turn

\* A mount's task goes on, from where it has started to where it is not over.
LEMMA TurnsTask ==
    ASSUME LifecycleTypeOK, Turns, NEW e \in Mount, NEW t, task' = [task EXCEPT ![e] = t],
           task[e] \notin {"none", "wait", "done", "late"}, t \notin {"none", "wait"},
           UNCHANGED <<current, mounts, cleanup>>, starting' => starting
    PROVE  Turns'
<1>1. /\ \A b \in Mount : b # e => task'[b] = task[b]
      /\ task'[e] = t
  BY DEF LifecycleTypeOK
<1>2. ASSUME NEW b \in Mount PROVE Turn(b)'
  <2>1. Turn(b) /\ (\A a \in Mount : a < b => a \in Mount)
    BY DEF Turns
  <2>2. CASE b = e
    BY <1>1, <2>1, <2>2 DEF Turn
  <2>3. CASE b # e
    BY <1>1, <2>1, <2>3 DEF Turn
  <2> QED BY <2>2, <2>3
<1> QED BY <1>2 DEF Turns

\* A mount's cleanup goes on.
LEMMA TurnsCleanup ==
    ASSUME LifecycleTypeOK, Turns, NEW e \in Mount, NEW c, cleanup' = [cleanup EXCEPT ![e] = c],
           cleanup[e] \notin {"none", "settled"}, c # "none",
           c = "settled" => task[e] \in {"done", "late"}, c = "stop again" => task[e] = "late",
           UNCHANGED <<current, mounts, task, starting>>
    PROVE  Turns'
<1>1. /\ \A b \in Mount : b # e => cleanup'[b] = cleanup[b]
      /\ cleanup'[e] = c
  BY DEF LifecycleTypeOK
<1>2. ASSUME NEW b \in Mount PROVE Turn(b)'
  <2>1. Turn(b)
    BY DEF Turns
  <2>2. task'[b] \notin {"none", "wait"} => \A a \in Mount : a < b => cleanup'[a] = "settled"
    BY <1>1, <2>1 DEF Turn
  <2>3. CASE b = e
    BY <1>1, <2>1, <2>2, <2>3 DEF Turn
  <2>4. CASE b # e
    BY <1>1, <2>1, <2>2, <2>4 DEF Turn
  <2> QED BY <2>3, <2>4
<1> QED BY <1>2 DEF Turns

LEMMA TurnsCleanUp ==
    ASSUME LifecycleTypeOK, Turns, NEW next, CleanUp(next), current # 0,
           \/ next = 0 /\ UNCHANGED <<mounts, task>> /\ current' = 0
           \/ /\ mounts < MaxMounts /\ next = mounts + 1 /\ mounts' = mounts + 1
              /\ current' = mounts + 1 /\ task' = [task EXCEPT ![mounts + 1] = "wait"]
    PROVE  Turns'
<1>1. current \in Mount /\ current = mounts /\ mounts \in Nat
  BY Numbers DEF Turns
<1>2. /\ \A b \in Mount : b # current => cleanup'[b] = cleanup[b]
      /\ cleanup'[current] \in {"stop", "drain"}
      /\ starting' = (next # 0)
  BY <1>1 DEF CleanUp, LifecycleTypeOK
<1>3. cleanup[current] = "none"
  BY <1>1 DEF Turns, Turn
<1>4. \A e \in Mount : e \in Nat /\ e # 0
  BY DEF Mount
<1>5. CASE next = 0 /\ UNCHANGED <<mounts, task>> /\ current' = 0
  <2>1. ASSUME NEW e \in Mount PROVE Turn(e)'
    <3>1. Turn(e) /\ e \in Nat /\ e # 0
      BY <1>4 DEF Turns
    <3>2. task'[e] \notin {"none", "wait"} => \A b \in Mount : b < e => cleanup'[b] = "settled"
      BY <1>2, <1>3, <1>5, <3>1 DEF Turn
    <3>3. CASE e = current
      <4>1. ~(e > mounts) /\ cleanup'[e] \in {"stop", "drain"}
        BY <1>1, <1>2, <3>3
      <4>2. task'[e] = task[e] /\ mounts' = mounts /\ e # current'
        BY <1>5, <3>1
      <4> QED BY <3>1, <3>2, <4>1, <4>2 DEF Turn
    <3>4. CASE e # current
      BY <1>1, <1>2, <1>3, <1>5, <3>1, <3>2, <3>4 DEF Turn
    <3> QED BY <3>3, <3>4
  <2> QED BY <1>1, <1>2, <1>5, <2>1 DEF Turns
<1>6. CASE /\ mounts < MaxMounts /\ next = mounts + 1 /\ mounts' = mounts + 1
           /\ current' = mounts + 1 /\ task' = [task EXCEPT ![mounts + 1] = "wait"]
  <2>1. mounts + 1 \in Mount
    BY <1>6, Numbers
  <2>2. \A b \in Mount : task'[b] = IF b = mounts + 1 THEN "wait" ELSE task[b]
    BY <1>6, <2>1 DEF LifecycleTypeOK
  <2>3. \A e \in Mount : e > mounts + 1 <=> (e > mounts /\ e # mounts + 1)
    BY <1>1, <1>4
  <2>4. ASSUME NEW e \in Mount PROVE Turn(e)'
    <3>1. Turn(e) /\ e \in Nat /\ e # 0
      BY <1>4 DEF Turns
    <3>2. task'[e] \notin {"none", "wait"} => \A b \in Mount : b < e => cleanup'[b] = "settled"
      BY <1>2, <1>3, <2>2, <3>1 DEF Turn
    <3>3. task'[e] = "none" <=> e > mounts + 1
      BY <2>2, <2>3, <3>1 DEF Turn
    <3>4. cleanup'[e] = "none" <=> (e > mounts + 1) \/ e = mounts + 1
      <4>1. CASE e = current
        BY <1>1, <1>2, <4>1
      <4>2. CASE e # current
        <5>1. cleanup'[e] = "none" <=> e > mounts
          BY <1>2, <3>1, <4>2 DEF Turn
        <5> QED BY <1>1, <3>1, <5>1
      <4> QED BY <4>1, <4>2
    <3>5. cleanup'[e] # "none" => cleanup'[e] \in {"stop", "drain"} \/ (e # mounts + 1 /\ cleanup'[e] = cleanup[e])
      BY <1>1, <1>2, <3>4
    <3> QED BY <1>6, <2>2, <3>1, <3>2, <3>3, <3>4, <3>5 DEF Turn
  <2>5. current' \in {0, mounts'} /\ (starting' => current' # 0)
    BY <1>1, <1>2, <1>6
  <2> QED BY <2>4, <2>5 DEF Turns
<1> QED BY <1>5, <1>6

LEMMA TurnsStep ==
    ASSUME LifecycleTypeOK, Messages, Turns, [LifecycleNext]_allVars
    PROVE  Turns'
<1>1. CASE UNCHANGED <<current, mounts, task, cleanup, starting>>
  BY <1>1 DEF Turns, Turn
<1>2. CASE MountFolder
  <2>1. CASE current # 0
    BY <1>2, <2>1, TurnsCleanUp DEF MountFolder
  <2>2. CASE current = 0
    <3>1. /\ mounts + 1 \in Mount /\ mounts \in Nat
          /\ mounts' = mounts + 1 /\ current' = mounts + 1
          /\ task' = [task EXCEPT ![mounts + 1] = "wait"] /\ UNCHANGED cleanup
      BY <1>2, <2>2, Numbers DEF MountFolder
    <3>2. \A b \in Mount : task'[b] = IF b = mounts + 1 THEN "wait" ELSE task[b]
      BY <3>1 DEF LifecycleTypeOK
    <3>3. \A e \in Mount : /\ e \in Nat /\ e # 0
                            /\ e > mounts + 1 <=> (e > mounts /\ e # mounts + 1)
      BY <3>1 DEF Mount
    <3>4. mounts + 1 > mounts
      BY <3>1
    <3>5. ASSUME NEW e \in Mount PROVE Turn(e)'
      <4>1. Turn(e)
        BY DEF Turns
      <4>2. CASE e = mounts + 1
        <5>1. cleanup[e] = "none"
          BY <3>4, <4>1, <4>2 DEF Turn
        <5>2. task'[e] = "wait" /\ ~(e > mounts + 1)
          BY <3>2, <3>3, <4>2
        <5> QED BY <3>1, <4>2, <5>1, <5>2 DEF Turn
      <4>3. CASE e # mounts + 1
        <5>1. task'[e] = task[e]
          BY <3>2, <4>3
        <5>2. e \in Nat /\ e # 0
          BY DEF Mount
        <5>3. e > mounts + 1 <=> e > mounts
          BY <3>1, <4>3, <5>2
        <5> QED BY <2>2, <3>1, <4>1, <4>3, <5>1, <5>2, <5>3 DEF Turn
      <4> QED BY <4>2, <4>3
    <3> QED BY <3>1, <3>3, <3>5 DEF Turns
  <2> QED BY <2>1, <2>2
<1>3. CASE UnmountFolder
  BY <1>3, TurnsCleanUp DEF UnmountFolder
<1>4. CASE ReceiveStop
  <2> DEFINE e == Head(wire).mount
  <2>1. Head(wire) \in UnderWay /\ Head(wire) \in ToRenderer /\ Head(wire).kind = "stop"
    BY <1>4, FirstMessage DEF ReceiveStop, Received, UnderWay
  <2>2. e \in Mount /\ cleanup[e] \in {"stop", "stop again"}
    BY <2>1, MessageIs, Unexpected DEF Expected
  <2>3. cleanup[e] = "stop again" => task[e] = "late"
    BY <2>2 DEF Turns, Turn
  <2> HIDE DEF e
  <2>4. cleanup' = [cleanup EXCEPT ![e] = IF cleanup[e] = "stop" THEN "stopped" ELSE "settled"]
    BY <1>4, <2>2 DEF ReceiveStop, LifecycleTypeOK, e
  <2>5. UNCHANGED <<current, mounts, task, starting>>
    BY <1>4 DEF ReceiveStop
  <2> QED BY <2>2, <2>3, <2>4, <2>5, TurnsCleanup
<1>5. CASE ReceiveStart
  <2> DEFINE e == Head(wire).mount
  <2>1. Head(wire) \in UnderWay /\ Head(wire) \in ToRenderer /\ Head(wire).kind = "start"
    BY <1>5, FirstMessage DEF ReceiveStart, Received, UnderWay
  <2>2. e \in Mount /\ task[e] = "start"
    BY <2>1, MessageIs, Unexpected DEF Expected
  <2>3. PICK t \in {"record", "late", "done"} : task' = [task EXCEPT ![e] = t]
    BY <1>5 DEF ReceiveStart
  <2>4. UNCHANGED <<current, mounts, cleanup>> /\ (starting' => starting)
    <3>1. starting' = starting \/ starting' = (starting /\ e # current)
      BY <1>5 DEF ReceiveStart
    <3>2. UNCHANGED <<current, mounts, cleanup>>
      BY <1>5 DEF ReceiveStart
    <3>3. starting' => starting
      <4> HIDE DEF e
      <4> QED BY <3>1, Zenon
    <3> QED BY <3>2, <3>3
  <2> HIDE DEF e
  <2> QED BY <2>2, <2>3, <2>4, TurnsTask
<1>6. CASE RecordStart
  <2> DEFINE e == Head(records).mount
  <2>1. Head(records) \in Waiting /\ Head(records) \in Recorded /\ Head(records).kind = "start"
    BY <1>6, FirstRecord DEF RecordStart
  <2>2. e \in Mount /\ task[e] = "record"
    BY <2>1, RecordIs DEF Messages, AllExpected
  <2>3. task' = [task EXCEPT ![e] = "assets"] /\ UNCHANGED <<current, mounts, cleanup>>
        /\ (starting' => starting)
    BY <1>6 DEF RecordStart
  <2> HIDE DEF e
  <2> QED BY <2>2, <2>3, TurnsTask
<1>7. ASSUME NEW e \in Mount, StartSession(e) PROVE Turns'
  <2>1. task[e] = "wait" /\ e <= mounts /\ e \in Nat /\ mounts \in Nat
    <3>1. task[e] = "wait" /\ e \in Nat /\ mounts \in Nat /\ Turn(e)
      BY <1>7, Numbers DEF StartSession, Turns, Mount
    <3>2. ~(e > mounts)
      BY <3>1 DEF Turn
    <3> QED BY <3>1, <3>2
  <2>2. \A b \in Mount : b < e => cleanup[b] = "settled"
    <3> SUFFICES ASSUME NEW b \in Mount, b < e PROVE cleanup[b] = "settled"
      OBVIOUS
    <3>1. e - 1 \in Mount /\ e - 1 + 1 = e /\ b <= e - 1 /\ b \in Nat
      BY <2>1, Constants DEF Mount
    <3>2. cleanup[e - 1] \in {"none", "settled"}
      BY <1>7, <3>1 DEF StartSession, PreviousSettled
    <3>3. e - 1 # current /\ ~(e - 1 > mounts)
      <4>1. e - 1 # 0 /\ e - 1 < mounts /\ e - 1 \in Nat
        BY <2>1, <3>1 DEF Mount
      <4>2. current = 0 \/ current = mounts
        BY DEF Turns
      <4> QED BY <2>1, <4>1, <4>2
    <3>x. Turn(e - 1)
      BY <3>1 DEF Turns
    <3>4. cleanup[e - 1] = "settled"
      BY <3>x, <3>2, <3>3 DEF Turn
    <3>5. task[e - 1] \in {"done", "late"}
      BY <3>x, <3>4 DEF Turn
    <3>6. CASE b = e - 1
      BY <3>4, <3>6
    <3>7. CASE b < e - 1
      BY <3>x, <3>5, <3>7 DEF Turn
    <3> QED BY <3>1, <3>6, <3>7
  <2>3. PICK t \in {"done", "start"} : task' = [task EXCEPT ![e] = t]
    BY <1>7 DEF StartSession
  <2>4. \A b \in Mount : task'[b] = IF b = e THEN t ELSE task[b]
    BY <2>3 DEF LifecycleTypeOK
  <2>5. UNCHANGED <<current, mounts, cleanup, starting>>
    BY <1>7 DEF StartSession
  <2>6. cleanup[e] # "settled" /\ cleanup[e] # "stop again"
    BY <2>1 DEF Turns, Turn
  <2>7. ASSUME NEW b \in Mount PROVE Turn(b)'
    <3>1. Turn(b)
      BY DEF Turns
    <3>2. CASE b = e
      BY <2>1, <2>2, <2>4, <2>5, <2>6, <3>1, <3>2 DEF Turn
    <3>3. CASE b # e
      BY <2>4, <2>5, <3>1, <3>3 DEF Turn
    <3> QED BY <3>2, <3>3
  <2> QED BY <2>5, <2>7 DEF Turns
<1>8. ASSUME NEW e \in Mount, EndStart(e) PROVE Turns'
  BY <1>8, TurnsTask DEF EndStart
<1>9. ASSUME NEW e \in Mount, StopDrained(e) \/ SettleCleanup(e) PROVE Turns'
  <2>1. PICK c \in {"stop", "stop again", "settled"} : cleanup' = [cleanup EXCEPT ![e] = c]
        /\ (c = "settled" => task[e] \in {"done", "late"}) /\ (c = "stop again" => task[e] = "late")
    BY <1>9 DEF StopDrained, SettleCleanup
  <2>2. cleanup[e] \notin {"none", "settled"} /\ UNCHANGED <<current, mounts, task, starting>>
    BY <1>9 DEF StopDrained, SettleCleanup
  <2> QED BY <2>1, <2>2, TurnsCleanup
<1> QED
  BY <1>1, <1>2, <1>3, <1>4, <1>5, <1>6, <1>7, <1>8, <1>9
  DEF LifecycleNext, Main, Renderer, RendererWork, allVars, lifecycle, Hydrate, FindChange,
      HandleStart, HandleStop,
      HandleResolve, AnswerStart, ReceiveNote, ReceiveAcknowledgement, ReceiveAnswer, RecordNote,
      Begin, IngestConflicts, Ingest, AnswerIngests, IngestFails, Answer

-----------------------------------------------------------------------------
(***************************************************************************)
(* Only what was merged is accepted.                                       *)
(***************************************************************************)
LEMMA SentIs ==
    ASSUME LifecycleTypeOK
    PROVE  /\ UNCHANGED calls => Sent' = Sent
           /\ calls # <<>> /\ calls' = Tail(calls) => Sent' \subseteq Sent /\ Head(calls) \in Sent
           /\ \A c \in ToMain : Call(c) => Sent' = Sent \cup {c}
<1>1. calls \in Seq(ToMain)
  BY DEF LifecycleTypeOK
<1>2. calls # <<>> /\ calls' = Tail(calls) => Sent' \subseteq Sent /\ Head(calls) \in Sent
  BY FirstCall DEF Sent
<1>3. ASSUME NEW c \in ToMain, Call(c) PROVE Sent' = Sent \cup {c}
  BY <1>1, <1>3, OneMore DEF Call, Sent
<1> QED BY <1>2, <1>3 DEF Sent

LEMMA AcceptsInit == LifecycleInit => AcceptsMerged
<1> SUFFICES ASSUME LifecycleInit PROVE AcceptsMerged
  OBVIOUS
<1>1. Sent = {}
  BY DEF LifecycleInit, Sent, ToSet
<1>2. \A d \in Deltas : resolved[d] # "accept"
  BY Constants DEF LifecycleInit, Verdicts
<1> QED BY <1>1, <1>2 DEF LifecycleInit, AcceptsMerged, AcceptedIsMerged, Acknowledging

LEMMA AcceptsSame ==
    ASSUME AcceptsMerged, Sent' \subseteq Sent, merged \subseteq merged',
           UNCHANGED <<resolved, step, busy, answer>>
    PROVE  AcceptsMerged'
BY DEF AcceptsMerged, AcceptedIsMerged

LEMMA AcceptsCalls ==
    ASSUME LifecycleTypeOK, AcceptsMerged, NEW c \in ToMain, Call(c),
           c.kind = "resolve" /\ c.how = "accept" => c.delta \in merged',
           merged \subseteq merged', UNCHANGED resolved,
           step' \in Acknowledging => busy'.delta \in merged',
           answer' # Nothing /\ answer'.step \in DOMAIN NextTry => answer'.delta \in merged'
    PROVE  AcceptsMerged'
<1>1. Sent' = Sent \cup {c}
  BY SentIs
<1> QED BY <1>1 DEF AcceptsMerged, AcceptedIsMerged

LEMMA AcceptsStep ==
    ASSUME LifecycleTypeOK, Messages, Reviewed, Turns, AcceptsMerged, [LifecycleNext]_allVars
    PROVE  AcceptsMerged'
<1>1. CASE UNCHANGED <<calls, merged, resolved, step, busy, answer>>
  BY <1>1, AcceptsSame, SentIs
<1>2. CASE HandleStart \/ HandleStop
  BY <1>2, AcceptsSame, SentIs DEF HandleStart, HandleStop, queue, review, history
<1>3. CASE HandleResolve
  <2> DEFINE c == Head(calls)
  <2>1. /\ calls # <<>> /\ calls' = Tail(calls) /\ c.kind = "resolve"
        /\ resolved' = resolved \/ resolved' = [resolved EXCEPT ![c.delta] = c.how]
        /\ UNCHANGED <<merged, step, busy, answer>>
    BY <1>3 DEF HandleResolve, queue, review, history
  <2>2. Sent' \subseteq Sent /\ c \in Sent
    BY <2>1, SentIs
  <2>3. c.how = "accept" => c.delta \in merged
    BY <2>1, <2>2 DEF AcceptsMerged
  <2>4. AcceptedIsMerged'
    BY <2>1, <2>3 DEF AcceptsMerged, AcceptedIsMerged, LifecycleTypeOK
  <2> QED BY <2>1, <2>2, <2>4 DEF AcceptsMerged
<1>4. ASSUME NEW next, CleanUp(next), current # 0, UNCHANGED <<merged, resolved, answer>>
      PROVE  AcceptsMerged'
  <2>1. step' = step /\ (busy # Nothing => busy'.delta = busy.delta)
    BY <1>4 DEF CleanUp, Drop, LifecycleTypeOK, Working
  <2>2. step' \in Acknowledging => busy'.delta \in merged'
    BY <1>4, <2>1, BusyIs DEF AcceptsMerged, Acknowledging
  <2>3. CASE UNCHANGED calls
    BY <1>4, <2>2, <2>3, SentIs DEF AcceptsMerged, AcceptedIsMerged
  <2>4. CASE Call(StopCall(current))
    <3>1. StopCall(current) \in ToMain /\ StopCall(current).kind = "stop"
      BY <1>4, Numbers, CallForms DEF StopCall
    <3>2. answer' # Nothing /\ answer'.step \in DOMAIN NextTry => answer'.delta \in merged'
      BY <1>4 DEF AcceptsMerged
    <3> QED BY <1>4, <2>2, <2>4, <3>1, <3>2, AcceptsCalls
  <2> QED BY <1>4, <2>3, <2>4 DEF CleanUp, StopCall
<1>5. CASE MountFolder
  <2>1. CASE current # 0
    BY <1>4, <1>5, <2>1 DEF MountFolder, main, history
  <2>2. CASE current = 0
    BY <1>1, <1>5, <2>2 DEF MountFolder, main, history, queue
  <2> QED BY <2>1, <2>2
<1>6. CASE UnmountFolder
  BY <1>4, <1>6 DEF UnmountFolder, main, history
<1>7. ASSUME NEW e \in Mount, StartSession(e) \/ StopDrained(e) \/ SettleCleanup(e)
      PROVE  AcceptsMerged'
  <2>1. UNCHANGED <<merged, resolved, step, busy, answer>>
    BY <1>7 DEF StartSession, StopDrained, SettleCleanup, main, queue, review, history
  <2>2. UNCHANGED calls \/ \E c \in {StartCall(e), StopCall(e)} : Call(c)
    BY <1>7 DEF StartSession, StopDrained, SettleCleanup, StartCall, StopCall
  <2>3. \A c \in {StartCall(e), StopCall(e)} : c \in ToMain /\ c.kind # "resolve"
    <3>1. StartCall(e) \in ToMain /\ StopCall(e) \in ToMain
      BY CallForms
    <3>2. StartCall(e).kind = "start" /\ StopCall(e).kind = "stop"
      BY DEF StartCall, StopCall
    <3> QED BY <3>1, <3>2
  <2>4. ASSUME NEW c \in {StartCall(e), StopCall(e)}, Call(c) PROVE AcceptsMerged'
    <3>1. /\ step' \in Acknowledging => busy'.delta \in merged'
          /\ answer' # Nothing /\ answer'.step \in DOMAIN NextTry => answer'.delta \in merged'
      BY <2>1 DEF AcceptsMerged
    <3> QED BY <2>1, <2>3, <2>4, <3>1, AcceptsCalls
  <2> QED BY <1>1, <2>1, <2>2, <2>4
<1>8. CASE RecordNote
  BY <1>1, <1>8 DEF RecordNote, main, review
<1>9. CASE Begin
  <2>1. UNCHANGED <<calls, merged, resolved, answer>> /\ step' = "ingest"
    BY <1>9 DEF Begin, main, review, history
  <2> QED BY <2>1, SentIs DEF AcceptsMerged, AcceptedIsMerged, Acknowledging
<1>10. CASE IngestFails \/ IngestConflicts
  <2>1. UNCHANGED <<calls, merged, resolved, answer>> /\ step' = "none"
    BY <1>10 DEF IngestFails, IngestConflicts, Finish, main, review, history
  <2> QED BY <2>1, SentIs DEF AcceptsMerged, AcceptedIsMerged, Acknowledging
<1>11. CASE Ingest
  <2>1. busy.delta \in Deltas /\ merged' = merged \cup {busy.delta} /\ UNCHANGED <<resolved, answer>>
    BY <1>11, BusyIs DEF Ingest, main, review
  <2>2. CASE UNCHANGED calls /\ step' = "none"
    BY <2>1, <2>2, SentIs DEF AcceptsMerged, AcceptedIsMerged, Acknowledging
  <2>3. CASE busy' = busy /\ Resolve("queue", busy.delta, "accept")
    <3>1. /\ ResolveCall("queue", busy.delta, "accept") \in ToMain
          /\ ResolveCall("queue", busy.delta, "accept").delta = busy.delta
      BY <2>1, CallForms DEF Verdicts, ResolveCall
    <3>2. Call(ResolveCall("queue", busy.delta, "accept"))
      BY <2>3 DEF Resolve, ResolveCall
    <3>3. answer' # Nothing /\ answer'.step \in DOMAIN NextTry => answer'.delta \in merged'
      BY <2>1 DEF AcceptsMerged
    <3> QED BY <2>1, <2>3, <3>1, <3>2, <3>3, AcceptsCalls
  <2> QED BY <1>11, <2>2, <2>3 DEF Ingest, Finish
<1>12. CASE ReceiveAcknowledgement
  <2>1. /\ Head(wire) \in UnderWay /\ Head(wire).kind = "resolve" /\ Head(wire).by = "queue"
        /\ UNCHANGED <<merged, resolved, answer>>
    BY <1>12, FirstMessage DEF ReceiveAcknowledgement, Received, UnderWay, main, review, history
  <2>2. step \in Acknowledging
    BY <2>1, Unexpected DEF Expected
  <2>3. busy.delta \in Deltas /\ busy.delta \in merged
    BY <2>2, BusyIs DEF Acknowledging, AcceptsMerged
  <2>4. CASE UNCHANGED calls /\ step' = "none"
    BY <2>1, <2>4, SentIs DEF AcceptsMerged, AcceptedIsMerged, Acknowledging
  <2>5. CASE busy' = busy /\ Resolve("queue", busy.delta, "accept")
    <3>1. /\ ResolveCall("queue", busy.delta, "accept") \in ToMain
          /\ ResolveCall("queue", busy.delta, "accept").delta = busy.delta
      BY <2>3, CallForms DEF Verdicts, ResolveCall
    <3>2. Call(ResolveCall("queue", busy.delta, "accept"))
      BY <2>5 DEF Resolve, ResolveCall
    <3>3. answer' # Nothing /\ answer'.step \in DOMAIN NextTry => answer'.delta \in merged'
      BY <2>1 DEF AcceptsMerged
    <3> QED BY <2>1, <2>3, <2>5, <3>1, <3>2, <3>3, AcceptsCalls
  <2> QED BY <1>12, <2>4, <2>5 DEF ReceiveAcknowledgement, Finish
<1>13. ASSUME NEW d \in Deltas, NEW how \in Verdicts, Answer(d, how) PROVE AcceptsMerged'
  <2>1. UNCHANGED <<merged, resolved, step, busy>>
    BY <1>13 DEF Answer, main, queue, history
  <2>2. answer'.step \notin DOMAIN NextTry
    <3>1. answer' = [delta |-> d, how |-> how, mount |-> current,
                     step |-> IF how = "accept" THEN "ingest" ELSE "acknowledge 3"]
      BY <1>13, AnswerIs
    <3>2. answer'.step \in {"ingest", "acknowledge 3"}
      BY <3>1
    <3> QED BY <3>2 DEF NextTry
  <2>3. CASE UNCHANGED calls
    BY <2>1, <2>2, <2>3, SentIs DEF AcceptsMerged, AcceptedIsMerged
  <2>4. CASE how # "accept" /\ Resolve("answer", d, how)
    <3>1. /\ ResolveCall("answer", d, how) \in ToMain
          /\ ResolveCall("answer", d, how).how = how
      BY CallForms DEF ResolveCall
    <3>2. Call(ResolveCall("answer", d, how))
      BY <2>4 DEF Resolve, ResolveCall
    <3>3. step' \in Acknowledging => busy'.delta \in merged'
      BY <2>1 DEF AcceptsMerged
    <3> QED BY <2>1, <2>2, <2>4, <3>1, <3>2, <3>3, AcceptsCalls
  <2> QED BY <1>13, <2>3, <2>4 DEF Answer
<1>14. CASE AnswerIngests \/ ReceiveAnswer
  <2>1. /\ answer # Nothing /\ UNCHANGED <<resolved, step, busy>> /\ merged \subseteq merged'
        /\ \/ UNCHANGED calls /\ answer' = Nothing
           \/ /\ Resolve("answer", answer.delta, "accept") /\ answer.delta \in merged'
              /\ \E s : answer' = [answer EXCEPT !.step = s]
    <3>1. CASE AnswerIngests
      BY <3>1 DEF AnswerIngests, main, queue
    <3>2. CASE ReceiveAnswer
      <4>1. Head(wire) \in UnderWay /\ Head(wire).kind = "resolve" /\ Head(wire).by = "answer"
        BY <3>2, FirstMessage DEF ReceiveAnswer, Received, UnderWay
      <4>2. answer # Nothing
        BY <4>1, Unexpected DEF Expected
      <4>3. Retries(answer.step, Head(wire).result) => answer.delta \in merged
        BY <4>2 DEF Retries, AcceptsMerged
      <4> QED BY <3>2, <4>2, <4>3 DEF ReceiveAnswer, main
    <3> QED BY <1>14, <3>1, <3>2
  <2>2. answer \in Answering
    BY <2>1 DEF LifecycleTypeOK
  <2>3. step' \in Acknowledging => busy'.delta \in merged'
    BY <2>1 DEF AcceptsMerged
  <2>4. CASE UNCHANGED calls /\ answer' = Nothing
    BY <2>1, <2>3, <2>4, SentIs DEF AcceptsMerged, AcceptedIsMerged
  <2>5. CASE /\ Resolve("answer", answer.delta, "accept") /\ answer.delta \in merged'
             /\ \E s : answer' = [answer EXCEPT !.step = s]
    <3>1. answer.delta \in Deltas /\ answer'.delta = answer.delta
      BY <2>2, <2>5 DEF Answering
    <3>2. /\ ResolveCall("answer", answer.delta, "accept") \in ToMain
          /\ ResolveCall("answer", answer.delta, "accept").delta = answer.delta
      BY <3>1, CallForms DEF ResolveCall, Verdicts
    <3>3. Call(ResolveCall("answer", answer.delta, "accept"))
      BY <2>5 DEF Resolve, ResolveCall
    <3> QED BY <2>1, <2>3, <2>5, <3>1, <3>2, <3>3, AcceptsCalls
  <2> QED BY <2>1, <2>4, <2>5
<1> QED
  BY <1>1, <1>2, <1>3, <1>5, <1>6, <1>7, <1>8, <1>9, <1>10, <1>11, <1>12, <1>13, <1>14
  DEF LifecycleNext, Main, Renderer, RendererWork, allVars, main, queue, review, history,
      lifecycle, Verdicts,
      Hydrate, FindChange, AnswerStart, ReceiveStop, ReceiveStart, ReceiveNote, RecordStart, EndStart

-----------------------------------------------------------------------------
(***************************************************************************)
(* Deltas are found.                                                       *)
(***************************************************************************)
LEMMA NoElements == ToSet(<<>>) = {}
BY DEF ToSet

LEMMA FoundInit == LifecycleInit => AllFound
<1> SUFFICES ASSUME LifecycleInit PROVE AllFound
  OBVIOUS
<1>1. Arriving = {} /\ Waiting = {} /\ ToSet(buffered) = {} /\ ToSet(chan) = {}
  BY NoElements DEF LifecycleInit, Arriving, Waiting
<1> QED BY <1>1 DEF LifecycleInit, AllFound, NoSession

\* The conjuncts of AllFound.
FoundInQueue ==
    /\ \A d \in ToSet(buffered) \cup ToSet(chan) : Found(d)
    /\ busy # Nothing => Found(busy.delta)

FoundInChannels ==
    /\ \A m \in Arriving : m.kind = "note" => Found(m.delta)
    /\ \A r \in Waiting : r.kind = "note" => Found(r.delta) /\ r.inst = owner[r.delta]

FoundByMain ==
    /\ native.ready => native.inst # 0
    /\ pending # Nothing => Found(pending)

LEMMA FoundParts == AllFound <=> FoundByMain /\ FoundInChannels /\ FoundInQueue
BY DEF AllFound, FoundByMain, FoundInChannels, FoundInQueue

LEMMA FoundSame ==
    ASSUME AllFound
    PROVE  /\ UNCHANGED main => FoundByMain'
           /\ UNCHANGED <<wire, records, owner>> => FoundInChannels'
           /\ UNCHANGED <<buffered, chan, busy, owner>> => FoundInQueue'
BY FoundParts DEF FoundByMain, FoundInChannels, FoundInQueue, Found, main, Arriving, Waiting

\* Fewer messages and deltas.
LEMMA FoundFewer ==
    ASSUME AllFound, UNCHANGED owner
    PROVE  /\ Arriving' \subseteq Arriving /\ UNCHANGED records => FoundInChannels'
           /\ /\ ToSet(buffered') \subseteq ToSet(buffered) /\ ToSet(chan') \subseteq ToSet(chan)
              /\ busy' # Nothing => busy # Nothing /\ busy'.delta = busy.delta
              => FoundInQueue'
BY FoundParts DEF FoundInChannels, FoundInQueue, Found, Waiting

LEMMA FoundAgain == FoundByMain' /\ FoundInChannels' /\ FoundInQueue' => AllFound'
BY DEF AllFound, FoundByMain, FoundInChannels, FoundInQueue

\* A message more, a record more.
LEMMA MoreArrives ==
    ASSUME LifecycleTypeOK, NEW m \in ToRenderer, wire' = Append(wire, m)
    PROVE  Arriving' = Arriving \cup {m}
<1>1. wire \in Seq(ToRenderer)
  BY DEF LifecycleTypeOK
<1>2. ToSet(Append(wire, m)) = ToSet(wire) \cup {m}
  BY <1>1, OneMore
<1> QED BY <1>2 DEF Arriving

LEMMA MoreWaits ==
    ASSUME LifecycleTypeOK, NEW r \in Recorded, records' = Append(records, r)
    PROVE  Waiting' = Waiting \cup {r}
<1>1. records \in Seq(Recorded)
  BY DEF LifecycleTypeOK
<1>2. ToSet(Append(records, r)) = ToSet(records) \cup {r}
  BY <1>1, OneMore
<1> QED BY <1>2 DEF Waiting

LEMMA FewerArrive ==
    ASSUME LifecycleTypeOK, Received
    PROVE  Arriving' \subseteq Arriving
BY FirstMessage DEF Received, Arriving

LEMMA FoundMain ==
    ASSUME LifecycleTypeOK, Messages, AllFound, Hydrate \/ (\E d \in Deltas : FindChange(d)) \/ Main
    PROVE  AllFound'
<1>p. FoundByMain /\ FoundInChannels /\ FoundInQueue
  BY FoundParts
<1>0. native \in [inst : Session, ready : BOOLEAN, heard : BOOLEAN]
  BY DEF LifecycleTypeOK
<1>1. CASE Hydrate
  <2>1. UNCHANGED <<pending, owner, wire, records, buffered, chan, busy>>
    BY <1>1 DEF Hydrate, lifecycle, queue
  <2>2. sessions + 1 # 0
    <3>1. sessions \in Session
      BY DEF LifecycleTypeOK
    <3>2. sessions \in Nat
      BY <3>1, Constants DEF Session
    <3> QED BY <3>2
  <2>3. native'.inst # 0
    BY <1>1, <2>2 DEF Hydrate
  <2> QED BY <1>p, <2>1, <2>3, FoundSame, FoundAgain DEF FoundByMain, Found
<1>2. ASSUME NEW d \in Deltas, FindChange(d) PROVE AllFound'
  <2>1. /\ owner[d] = 0 /\ native.inst # 0 /\ native' = native /\ pending' = d
        /\ owner' = [owner EXCEPT ![d] = native.inst] /\ owner \in [Deltas -> Session]
        /\ UNCHANGED <<records, buffered, chan, busy>>
    BY <1>p, <1>2 DEF FindChange, LifecycleTypeOK, FoundByMain, lifecycle, queue
  <2>2. Found(d)' /\ \A x \in Deltas : Found(x) => owner'[x] = owner[x] /\ Found(x)'
    BY <2>1 DEF Found
  <2>3. FoundByMain'
    BY <1>p, <2>1, <2>2 DEF FoundByMain
  <2>4. wire' = wire \/ wire' = Append(wire, Noted(d))
    BY <1>2 DEF FindChange, Noted
  <2>5. Arriving' \subseteq Arriving \cup {Noted(d)}
    <3>1. Noted(d) \in ToRenderer
      BY MessageForms DEF Noted
    <3> QED BY <2>4, <3>1, MoreArrives DEF Arriving
  <2>6. Noted(d).delta = d
    BY DEF Noted
  <2>7. FoundInChannels'
    <3>1. \A m \in Arriving : m.kind = "note" => m.delta \in Deltas
      BY Elements, MessageIs
    <3>2. \A r \in Waiting : r.kind = "note" => r.delta \in Deltas
      BY Elements, RecordIs
    <3> QED BY <1>p, <2>1, <2>2, <2>5, <2>6, <3>1, <3>2 DEF FoundInChannels, Waiting
  <2>8. FoundInQueue'
    BY <1>p, <2>1, <2>2, Elements, BusyIs DEF FoundInQueue
  <2> QED BY <2>3, <2>7, <2>8, FoundAgain
<1>3. CASE HandleStart
  <2>1. /\ native'.ready => native.ready /\ native'.inst = native.inst
        /\ pending' # Nothing => pending' = pending
        /\ UNCHANGED <<owner, wire, records, buffered, chan, busy>>
    BY <1>0, <1>3 DEF HandleStart, lifecycle, queue
  <2> QED BY <1>p, <2>1, FoundSame, FoundAgain DEF FoundByMain, Found
<1>4. ASSUME NEW o \in opening, AnswerStart(o) PROVE AllFound'
  <2>1. UNCHANGED <<owner, records, buffered, chan, busy>> /\ o.inst # 0
    BY <1>4 DEF AnswerStart, lifecycle, queue, LifecycleTypeOK
  <2>2. \/ native.inst = o.inst /\ native' = [native EXCEPT !.ready = TRUE] /\ pending' = pending
        \/ native' = native /\ pending' = pending
        \/ native' = NoSession /\ pending' = Nothing
    BY <1>4 DEF AnswerStart, Dropped
  <2>3. FoundByMain'
    BY <1>p, <1>0, <2>1, <2>2 DEF FoundByMain, Found, NoSession
  <2>4. PICK inst \in {0, o.inst} :
            \/ wire' = Append(wire, Started(o.mount, inst))
            \/ /\ pending # Nothing
               /\ wire' = Append(Append(wire, Noted(pending)), Started(o.mount, inst))
    BY <1>4, StartAnswered
  <2>5. Started(o.mount, inst) \in ToRenderer /\ Started(o.mount, inst).kind = "start"
    <3>1. o.mount \in Mount /\ inst \in Session
      BY <1>4, StartAnswered, Constants DEF Session
    <3> QED BY <3>1, MessageForms DEF Started
  <2>6. pending # Nothing => Noted(pending) \in ToRenderer /\ Noted(pending).delta = pending /\ Found(pending)
    BY <1>p, MessageForms DEF Noted, LifecycleTypeOK, FoundByMain
  <2>7. \A m \in Arriving' : m \in Arriving \/ m.kind = "start"
                               \/ (pending # Nothing /\ m = Noted(pending))
    <3> DEFINE reply == Started(o.mount, inst)
               n == Noted(pending)
    <3> HIDE DEF reply, n
    <3>1. CASE wire' = Append(wire, reply)
      BY <2>5, <3>1, Sequences, OneMore DEF Arriving, reply
    <3>2. CASE pending # Nothing /\ wire' = Append(Append(wire, n), reply)
      <4>1. Append(wire, n) \in Seq(ToRenderer) /\ ToSet(Append(wire, n)) = ToSet(wire) \cup {n}
        BY <2>6, <3>2, Sequences, OneMore DEF n
      <4>2. Arriving' = ToSet(Append(wire, n)) \cup {reply}
        <5>1. reply \in ToRenderer
          BY <2>5 DEF reply
        <5>2. \A s \in Seq(ToRenderer) : ToSet(Append(s, reply)) = ToSet(s) \cup {reply}
          BY <5>1, OneMore
        <5>3. ToSet(Append(Append(wire, n), reply)) = ToSet(Append(wire, n)) \cup {reply}
          BY <4>1, <5>2
        <5> QED BY <3>2, <5>3 DEF Arriving
      <4> QED BY <2>5, <3>2, <4>1, <4>2 DEF Arriving, reply, n
    <3> QED BY <2>4, <3>1, <3>2 DEF reply, n
  <2>8. FoundInChannels'
    BY <1>p, <2>1, <2>6, <2>7 DEF FoundInChannels, Found, Waiting
  <2> QED BY <2>1, <2>3, <2>8, FoundSame, FoundAgain
<1>5. CASE HandleStop
  <2>1. /\ native' = NoSession /\ pending' = Nothing
        /\ UNCHANGED <<owner, records, buffered, chan, busy>>
        /\ calls # <<>> /\ Head(calls).kind = "stop" /\ wire' = Append(wire, Head(calls))
    BY <1>5 DEF HandleStop, Dropped, lifecycle, queue
  <2>2. Head(calls) \in ToRenderer
    BY <2>1, FirstCall, CallIs, CallForms
  <2>3. Arriving' = Arriving \cup {Head(calls)}
    BY <2>1, <2>2, Sequences, OneMore DEF Arriving
  <2> QED BY <1>p, <2>1, <2>3, FoundSame, FoundAgain
          DEF FoundByMain, FoundInChannels, Found, NoSession, Waiting
<1>6. CASE HandleResolve
  <2> DEFINE c == Head(calls)
  <2>1. /\ native' = native /\ (pending' = pending \/ pending' = Nothing)
        /\ UNCHANGED <<owner, records, buffered, chan, busy>>
        /\ calls # <<>> /\ c.kind = "resolve"
    BY <1>6 DEF HandleResolve, lifecycle, queue
  <2>2. PICK result \in {"ok", "stale", "error"} : wire' = Append(wire, Replied(c, result))
    BY <1>6 DEF HandleResolve, Replied
  <2> DEFINE m == Replied(c, result)
  <2>3. m \in ToRenderer /\ m.kind = "resolve"
    BY <2>1, FirstCall, ReplyIs
  <2> HIDE DEF m
  <2>4. Arriving' = Arriving \cup {m}
    BY <2>2, <2>3, Sequences, OneMore DEF Arriving, m
  <2> QED BY <1>p, <2>1, <2>3, <2>4, FoundSame, FoundAgain
          DEF FoundByMain, FoundInChannels, Found, Waiting
<1> QED BY <1>1, <1>2, <1>3, <1>4, <1>5, <1>6 DEF Main

LEMMA FoundStep ==
    ASSUME LifecycleTypeOK, Messages, AllFound, [LifecycleNext]_allVars
    PROVE  AllFound'
<1>p. FoundByMain /\ FoundInChannels /\ FoundInQueue
  BY FoundParts
<1>1. CASE UNCHANGED <<main, wire, records, buffered, chan, busy>>
  BY <1>1, FoundSame, FoundAgain DEF main
<1>2. CASE Hydrate \/ (\E d \in Deltas : FindChange(d)) \/ Main
  BY <1>2, FoundMain
<1>3. ASSUME NEW next, CleanUp(next), UNCHANGED <<main, wire, records>> PROVE AllFound'
  <2>1. /\ ToSet(buffered') = {} /\ ToSet(chan') = {}
        /\ busy' # Nothing => busy # Nothing /\ busy'.delta = busy.delta
    BY <1>3, NoElements DEF CleanUp, Drop, LifecycleTypeOK, Working
  <2> QED BY <1>3, <2>1, FoundSame, FoundAgain, FoundFewer DEF main
<1>4. CASE MountFolder \/ UnmountFolder
  <2>1. CASE current # 0
    BY <1>3, <1>4, <2>1 DEF MountFolder, UnmountFolder
  <2>2. CASE current = 0
    BY <1>1, <1>4, <2>2 DEF MountFolder, UnmountFolder, queue
  <2> QED BY <2>1, <2>2
<1>5. CASE ReceiveStop \/ ReceiveAcknowledgement \/ ReceiveAnswer
  <2>1. Received /\ UNCHANGED <<main, records, buffered, chan>>
        /\ (busy' = busy \/ busy' = Nothing)
    BY <1>5 DEF ReceiveStop, ReceiveAcknowledgement, ReceiveAnswer, lifecycle, queue, Finish
  <2>2. FoundInQueue'
    BY <1>p, <2>1 DEF FoundInQueue, Found, main
  <2> QED BY <2>1, <2>2, FoundSame, FoundAgain, FoundFewer, FewerArrive DEF main
<1>6. CASE ReceiveStart
  <2> DEFINE r == Started(Head(wire).mount, Head(wire).inst)
  <2>1. /\ Received /\ UNCHANGED <<main, chan, busy>> /\ (buffered' = buffered \/ buffered' = <<>>)
        /\ records' = records \/ (records' = Append(records, r) /\ Head(wire).inst # 0)
        /\ Head(wire).kind = "start"
    BY <1>6 DEF ReceiveStart, queue, Started
  <2>2. Head(wire).mount \in Mount /\ Head(wire).inst \in Session
    BY <2>1, FirstMessage, MessageIs DEF Received
  <2>3. Head(wire).inst # 0 => r \in Recorded /\ r.kind = "start"
    BY <2>2, MessageForms DEF Started
  <2> HIDE DEF r
  <2>4. \A s \in Waiting' : s \in Waiting \/ s.kind = "start"
    BY <2>1, <2>3, MoreWaits DEF Waiting
  <2>5. FoundInChannels'
    BY <1>p, <2>1, <2>4, FewerArrive DEF FoundInChannels, Found, main
  <2>6. FoundInQueue'
    BY <1>p, <2>1, NoElements DEF FoundInQueue, Found, main
  <2> QED BY <2>1, <2>5, <2>6, FoundSame, FoundAgain
<1>7. CASE RecordStart
  <2> DEFINE inst == Head(records).inst
             deltas == BufferedOf(inst)
             notes == [i \in DOMAIN deltas |-> Note(inst, deltas[i])]
  <2>1. /\ records # <<>> /\ Head(records).kind = "start" /\ records' = Tail(records) \o notes
        /\ UNCHANGED <<main, wire, chan, busy>> /\ buffered' = <<>>
    BY <1>7 DEF RecordStart, queue
  <2>2. /\ Tail(records) \in Seq(Recorded) /\ inst \in Session \ {0}
        /\ Waiting = {Head(records)} \cup ToSet(Tail(records))
    BY <2>1, FirstRecord, RecordIs
  <2>3. notes \in Seq(Recorded)
        /\ \A r \in ToSet(notes) : Found(r.delta) /\ r.inst = owner[r.delta]
    <3>1. deltas \in Seq({d \in Deltas : owner[d] = inst})
      BY BufferedIs DEF LifecycleTypeOK
    <3>2. \A i \in DOMAIN deltas : deltas[i] \in Deltas /\ owner[deltas[i]] = inst
      BY <3>1
    <3>3. \A i \in DOMAIN deltas : Note(inst, deltas[i]) \in Recorded
      BY <2>2, <3>2, MessageForms
    <3>4. DOMAIN deltas = 1..Len(deltas) /\ Len(deltas) \in Nat
      BY <3>1
    <3> HIDE DEF deltas, inst
    <3>5. notes \in Seq(Recorded) /\ DOMAIN notes = DOMAIN deltas
      BY <3>3, <3>4
    <3>6. \A i \in DOMAIN notes : Found(notes[i].delta) /\ notes[i].inst = owner[notes[i].delta]
      BY <2>2, <3>2 DEF Note, Found
    <3> QED BY <3>5, <3>6 DEF ToSet
  <2> HIDE DEF notes
  <2>4. Waiting' = ToSet(Tail(records)) \cup ToSet(notes)
    <3>1. ToSet(Tail(records) \o notes) = ToSet(Tail(records)) \cup ToSet(notes)
      BY <2>2, <2>3, Joined
    <3> QED BY <2>1, <3>1 DEF Waiting
  <2>5. FoundInChannels'
    BY <1>p, <2>1, <2>2, <2>3, <2>4 DEF FoundInChannels, Found, main, Arriving
  <2>6. FoundInQueue'
    BY <1>p, <2>1, NoElements DEF FoundInQueue, Found, main
  <2> QED BY <2>1, <2>5, <2>6, FoundSame, FoundAgain
<1>8. CASE ReceiveNote
  <2> DEFINE d == Head(wire).delta
  <2>1. /\ Received /\ UNCHANGED <<main, chan, busy>> /\ Head(wire).kind = "note"
        /\ records' = records \/ (records' = Append(records, Note(active, d)) /\ active = owner[d])
        /\ buffered' = buffered \/ buffered' = Append(buffered, d)
    BY <1>8 DEF ReceiveNote, queue
  <2>2. d \in Deltas /\ Found(d)
    BY <1>p, <2>1, FirstMessage, MessageIs DEF Received, FoundInChannels
  <2>3. Note(active, d) \in Recorded /\ Note(active, d).delta = d /\ Note(active, d).inst = active
    BY <2>2, MessageForms DEF Note, LifecycleTypeOK
  <2> HIDE DEF d
  <2>4. FoundInChannels'
    <3>1. Waiting' = Waiting \/ (Waiting' = Waiting \cup {Note(active, d)} /\ active = owner[d])
      BY <2>1, <2>3, MoreWaits DEF Waiting, d
    <3> QED BY <1>p, <2>1, <2>2, <2>3, <3>1, FewerArrive DEF FoundInChannels, Found, main
  <2>5. FoundInQueue'
    <3>1. ToSet(buffered') \subseteq ToSet(buffered) \cup {d}
      <4>1. buffered \in Seq(Deltas) /\ d \in Deltas
        BY <2>2 DEF LifecycleTypeOK
      <4>2. ToSet(Append(buffered, d)) = ToSet(buffered) \cup {d}
        BY <4>1, OneMore
      <4> QED BY <2>1, <4>2 DEF d
    <3> QED BY <1>p, <2>1, <2>2, <3>1 DEF FoundInQueue, Found, main
  <2> QED BY <2>1, <2>4, <2>5, FoundSame, FoundAgain
<1>9. CASE RecordNote
  <2> DEFINE d == Head(records).delta
  <2>1. /\ records # <<>> /\ Head(records).kind = "note" /\ records' = Tail(records)
        /\ UNCHANGED <<main, wire, buffered, busy>> /\ chan' = Append(chan, d)
    BY <1>9 DEF RecordNote, Accept, lifecycle
  <2>2. d \in Deltas /\ Found(d) /\ Waiting' \subseteq Waiting
    BY <1>p, <2>1, FirstRecord, RecordIs DEF FoundInChannels, Waiting
  <2> HIDE DEF d
  <2>3. ToSet(chan') = ToSet(chan) \cup {d}
    <3>1. chan \in Seq(Deltas) /\ d \in Deltas
      BY <2>2 DEF LifecycleTypeOK
    <3>2. ToSet(Append(chan, d)) = ToSet(chan) \cup {d}
      BY <3>1, OneMore
    <3> QED BY <2>1, <3>2 DEF d
  <2>4. FoundInQueue'
    BY <1>p, <2>1, <2>2, <2>3 DEF FoundInQueue, Found, main
  <2>5. FoundInChannels'
    BY <1>p, <2>1, <2>2 DEF FoundInChannels, Found, main, Arriving
  <2> QED BY <2>1, <2>4, <2>5, FoundSame, FoundAgain
<1>10. CASE Begin
  <2>1. /\ chan # <<>> /\ chan' = Tail(chan) /\ busy'.delta = Head(chan)
        /\ UNCHANGED <<main, wire, records, buffered>>
    BY <1>10 DEF Begin, lifecycle
  <2>2. ToSet(chan) = {Head(chan)} \cup ToSet(Tail(chan))
    BY <2>1, HeadAndTail DEF LifecycleTypeOK
  <2>3. FoundInQueue'
    BY <1>p, <2>1, <2>2 DEF FoundInQueue, Found, main
  <2> QED BY <2>1, <2>3, FoundSame, FoundAgain DEF main
<1>11. CASE IngestFails \/ IngestConflicts \/ Ingest
  <2>1. UNCHANGED <<main, wire, records, buffered, chan>> /\ (busy' = busy \/ busy' = Nothing)
    BY <1>11 DEF IngestFails, IngestConflicts, Ingest, Finish, lifecycle
  <2>2. FoundInQueue'
    BY <1>p, <2>1 DEF FoundInQueue, Found, main
  <2> QED BY <2>1, <2>2, FoundSame, FoundAgain DEF main
<1> QED
  BY <1>1, <1>2, <1>4, <1>5, <1>6, <1>7, <1>8, <1>9, <1>10, <1>11
  DEF LifecycleNext, Main, Renderer, RendererWork, allVars, queue, lifecycle, Answer,
      AnswerIngests, StartSession,
      EndStart, StopDrained, SettleCleanup

-----------------------------------------------------------------------------
(***************************************************************************)
(* The session of the current mount runs.                                  *)
(***************************************************************************)
\* The conjuncts of SessionRuns.
OpeningRuns == \A o \in opening : o.mount = current => Runs(o.inst)
StartedRuns ==
    \A m \in Arriving : m.kind = "start" /\ m.mount = current /\ m.inst # 0 => Runs(m.inst)
ActiveRuns == active # 0 => current # 0 /\ task[current] \in Begun /\ Runs(active)

LEMMA RunsParts == SessionRuns <=> OpeningRuns /\ StartedRuns /\ ActiveRuns
BY DEF SessionRuns, OpeningRuns, StartedRuns, ActiveRuns

LEMMA RunsAgain == OpeningRuns' /\ StartedRuns' /\ ActiveRuns' => SessionRuns'
BY DEF SessionRuns, OpeningRuns, StartedRuns, ActiveRuns

\* The current mount has not started.
Idle == current = 0 \/ task[current] \in {"none", "wait"}

\* While an older mount has not settled.
LEMMA Quiet ==
    ASSUME LifecycleTypeOK, Turns, NEW e \in Mount, e # current, cleanup[e] # "settled",
           cleanup[e] # "none" \/ task[e] # "none"
    PROVE  Idle
<1>1. CASE current = 0
  BY <1>1 DEF Idle
<1>2. CASE current # 0
  <2>1. current = mounts /\ current \in Mount /\ current \in Nat /\ e \in Nat
    BY <1>2, Numbers DEF Turns, Mount
  <2>2. Turn(e) /\ Turn(current)
    BY <2>1 DEF Turns
  <2>3. ~(e > mounts)
    BY <2>2 DEF Turn
  <2>4. e < current
    BY <2>1, <2>3, Numbers
  <2> QED BY <2>1, <2>2, <2>4 DEF Turn, Idle
<1> QED BY <1>1, <1>2

LEMMA IdleIs ==
    ASSUME LifecycleTypeOK, Messages, SessionRuns, Idle
    PROVE  /\ \A o \in opening : o.mount # current
           /\ \A m \in UnderWay : m.kind = "start" => m.mount # current
           /\ active = 0
<1>1. ASSUME NEW o \in opening PROVE o.mount # current
  <2>1. o.mount \in Mount /\ task[o.mount] = "start"
    BY Unexpected DEF LifecycleTypeOK
  <2> QED BY <2>1 DEF Idle, Mount
<1>2. ASSUME NEW m \in UnderWay, m.kind = "start" PROVE m.mount # current
  <2>1. m.mount \in Mount
    BY <1>2, Elements, CallIs, MessageIs DEF UnderWay
  <2>2. task[m.mount] = "start"
    BY <1>2, Unexpected DEF Expected
  <2> QED BY <2>1, <2>2 DEF Idle, Mount
<1>3. active = 0
  BY RunsParts DEF ActiveRuns, Idle, Begun
<1> QED BY <1>1, <1>2, <1>3

\* No start of the current mount is under way.
LEMMA RunsIdle ==
    ASSUME \A o \in opening' : o.mount # current',
           \A m \in Arriving' : m.kind = "start" => m.mount # current',
           active' = 0
    PROVE  SessionRuns'
BY DEF SessionRuns

LEMMA RunsSame ==
    ASSUME SessionRuns, UNCHANGED <<current, active>>,
           native'.inst = native.inst, native'.heard = native.heard,
           opening' \subseteq opening,
           \A m \in Arriving' : m.kind = "start" => m \in Arriving,
           active # 0 /\ current # 0 /\ task[current] \in Begun => task'[current] \in Begun
    PROVE  SessionRuns'
BY DEF SessionRuns, Runs

LEMMA RunsMain ==
    ASSUME LifecycleTypeOK, Messages, Turns, SessionRuns,
           Hydrate \/ (\E d \in Deltas : FindChange(d)) \/ Main
    PROVE  SessionRuns'
<1>p. OpeningRuns /\ StartedRuns /\ ActiveRuns
  BY RunsParts
<1>0. native \in [inst : Session, ready : BOOLEAN, heard : BOOLEAN]
  BY DEF LifecycleTypeOK
<1>1. CASE Hydrate
  <2>1. native.inst = 0 /\ UNCHANGED <<opening, wire, current, active, task>>
    BY <1>1 DEF Hydrate, lifecycle
  <2>2. \A o \in opening : o.inst # 0
    BY DEF LifecycleTypeOK
  <2>3. OpeningRuns'
    BY <1>p, <2>1, <2>2 DEF OpeningRuns, Runs
  <2>4. StartedRuns'
    BY <1>p, <2>1 DEF StartedRuns, Runs, Arriving
  <2>5. ActiveRuns'
    BY <1>p, <2>1 DEF ActiveRuns, Runs
  <2> QED BY <2>3, <2>4, <2>5, RunsAgain
<1>2. ASSUME NEW d \in Deltas, FindChange(d) PROVE SessionRuns'
  <2>1. UNCHANGED <<native, opening, current, active, task>>
    BY <1>2 DEF FindChange, lifecycle
  <2>2. wire' = wire \/ wire' = Append(wire, Noted(d))
    BY <1>2 DEF FindChange, Noted
  <2>3. Noted(d) \in ToRenderer /\ Noted(d).kind = "note"
    BY MessageForms DEF Noted
  <2>4. \A m \in Arriving' : m.kind = "start" => m \in Arriving
    BY <2>2, <2>3, MoreArrives DEF Arriving
  <2> QED BY <2>1, <2>4, RunsSame
<1>3. CASE HandleStart
  <2> DEFINE c == Head(calls)
             o == [mount |-> c.mount, inst |-> native'.inst]
  <2>1. /\ calls # <<>> /\ c.kind = "start" /\ opening' = opening \cup {o}
        /\ UNCHANGED <<wire, current, active, task>>
    BY <1>3 DEF HandleStart, lifecycle
  <2>2. native'.heard
    BY <1>0, <1>3 DEF HandleStart
  <2>3. c \in UnderWay /\ c \in Sent
    BY <2>1, FirstCall DEF UnderWay
  <2>4. c.mount \in Mount /\ task[c.mount] = "start"
    BY <2>1, <2>3, Elements, CallIs, Unexpected DEF Expected
  <2>5. CASE c.mount = current
    <3>1. active = 0
      BY <1>p, <2>4, <2>5 DEF ActiveRuns, Begun
    <3>2. \A p \in opening : p.mount # c.mount
      BY <2>1, <2>3 DEF Messages, OnceEach, Once, Sent
    <3>3. \A m \in Arriving : m.kind = "start" => m.mount # c.mount
      BY <2>1, <2>3 DEF Messages, OnceEach, Once, Sent, Arriving, Apart, Same
    <3>4. OpeningRuns'
      BY <2>1, <2>2, <2>5, <3>2 DEF OpeningRuns, Runs
    <3>5. StartedRuns' /\ ActiveRuns'
      BY <2>1, <2>5, <3>1, <3>3 DEF StartedRuns, ActiveRuns, Arriving
    <3> QED BY <3>4, <3>5, RunsAgain
  <2>6. CASE c.mount # current
    <3>1. cleanup[c.mount] # "settled"
      BY <2>4 DEF Turns, Turn
    <3>2. Idle
      BY <2>4, <2>6, <3>1, Quiet
    <3>3. \A p \in opening' : p.mount # current'
      BY <2>1, <2>6, <3>2, IdleIs
    <3>4. \A m \in Arriving' : m.kind = "start" => m.mount # current'
      BY <2>1, <3>2, IdleIs DEF UnderWay, Arriving
    <3> QED BY <2>1, <3>2, <3>3, <3>4, IdleIs, RunsIdle
  <2> QED BY <2>5, <2>6
<1>4. ASSUME NEW o \in opening, AnswerStart(o) PROVE SessionRuns'
  <2>1. opening' = opening \ {o} /\ UNCHANGED <<current, active, task>>
    BY <1>4 DEF AnswerStart, lifecycle
  <2>2. /\ o.mount \in Mount /\ o.inst \in Session \ {0}
    BY <1>4, StartAnswered
  <2>3. PICK inst \in {0, o.inst} :
            /\ inst # 0 => native.inst = o.inst /\ native' = [native EXCEPT !.ready = TRUE]
            /\ \/ wire' = Append(wire, Started(o.mount, inst))
               \/ /\ pending # Nothing
                  /\ wire' = Append(Append(wire, Noted(pending)), Started(o.mount, inst))
    BY <1>4, StartAnswered
  <2>4. \A m \in Arriving' : m.kind = "start" => m \in Arriving \/ m = Started(o.mount, inst)
    <3>1. Started(o.mount, inst) \in ToRenderer
      BY <2>2, MessageForms, Constants DEF Session
    <3>2. CASE wire' = Append(wire, Started(o.mount, inst))
      BY <3>1, <3>2, MoreArrives
    <3>3. CASE /\ pending # Nothing
               /\ wire' = Append(Append(wire, Noted(pending)), Started(o.mount, inst))
      <4>1. Noted(pending) \in ToRenderer /\ wire \in Seq(ToRenderer)
        BY <3>3, MessageForms DEF LifecycleTypeOK
      <4>2. /\ Append(wire, Noted(pending)) \in Seq(ToRenderer)
            /\ ToSet(Append(wire, Noted(pending))) = ToSet(wire) \cup {Noted(pending)}
        BY <4>1, OneMore
      <4>3. \A s \in Seq(ToRenderer) :
                ToSet(Append(s, Started(o.mount, inst))) = ToSet(s) \cup {Started(o.mount, inst)}
        BY <3>1, OneMore
      <4>4. Arriving' = ToSet(wire) \cup {Noted(pending)} \cup {Started(o.mount, inst)}
        BY <3>3, <4>2, <4>3 DEF Arriving
      <4>5. Noted(pending).kind = "note"
        BY DEF Noted
      <4> QED BY <4>4, <4>5 DEF Arriving
    <3> QED BY <2>3, <3>2, <3>3
  <2>5. /\ Started(o.mount, inst).mount = o.mount /\ Started(o.mount, inst).inst = inst
        /\ task[o.mount] = "start"
    BY Unexpected DEF Started
  <2>6. CASE o.mount = current
    <3>1. active = 0
      BY <1>p, <2>5, <2>6 DEF ActiveRuns, Begun
    <3>2. \A p \in opening : p.mount = current => p = o
      BY <2>6 DEF Messages, OnceEach, Once
    <3>3. \A m \in Arriving : m.kind = "start" => m.mount # current
      BY <2>6 DEF Messages, OnceEach, Once, Arriving
    <3>4. OpeningRuns' /\ ActiveRuns'
      BY <2>1, <3>1, <3>2 DEF OpeningRuns, ActiveRuns
    <3>5. Runs(o.inst)
      BY <1>p, <2>6 DEF OpeningRuns
    <3>6. inst # 0 => Runs(inst)'
      BY <1>0, <2>3, <3>5 DEF Runs
    <3>7. StartedRuns'
      BY <2>1, <2>4, <2>5, <3>3, <3>6 DEF StartedRuns
    <3> QED BY <3>4, <3>7, RunsAgain
  <2>7. CASE o.mount # current
    <3>1. cleanup[o.mount] # "settled"
      BY <2>2, <2>5 DEF Turns, Turn
    <3>2. Idle
      BY <2>2, <2>5, <2>7, <3>1, Quiet
    <3>3. \A p \in opening' : p.mount # current'
      BY <2>1, <3>2, IdleIs
    <3>4. \A m \in Arriving' : m.kind = "start" => m.mount # current'
      BY <2>1, <2>4, <2>5, <2>7, <3>2, IdleIs DEF UnderWay
    <3> QED BY <2>1, <3>2, <3>3, <3>4, IdleIs, RunsIdle
  <2> QED BY <2>6, <2>7
<1>5. CASE HandleStop
  <2> DEFINE c == Head(calls)
  <2>1. /\ calls # <<>> /\ c.kind = "stop" /\ wire' = Append(wire, c)
        /\ UNCHANGED <<opening, current, active, task>>
    BY <1>5 DEF HandleStop, lifecycle
  <2>2. c \in UnderWay /\ c \in ToMain
    BY <2>1, FirstCall DEF UnderWay
  <2>3. c.mount \in Mount /\ cleanup[c.mount] \in {"stop", "stop again"} /\ c \in ToRenderer
    BY <2>1, <2>2, CallIs, CallForms, Unexpected DEF Expected
  <2>4. c.mount # current
    BY <2>3 DEF Turns, Turn
  <2>5. Idle
    BY <2>3, <2>4, Quiet
  <2>6. \A m \in Arriving' : m.kind = "start" => m \in Arriving
    BY <2>1, <2>3, MoreArrives
  <2>7. \A m \in Arriving' : m.kind = "start" => m.mount # current'
    BY <2>1, <2>5, <2>6, IdleIs DEF UnderWay
  <2> QED BY <2>1, <2>5, <2>7, IdleIs, RunsIdle
<1>6. CASE HandleResolve
  <2> DEFINE c == Head(calls)
  <2>1. UNCHANGED <<native, opening, current, active, task>> /\ calls # <<>> /\ c.kind = "resolve"
    BY <1>6 DEF HandleResolve, lifecycle
  <2>2. PICK result \in {"ok", "stale", "error"} : wire' = Append(wire, Replied(c, result))
    BY <1>6 DEF HandleResolve, Replied
  <2>3. Replied(c, result) \in ToRenderer /\ Replied(c, result).kind = "resolve"
    BY <2>1, FirstCall, ReplyIs
  <2>4. \A m \in Arriving' : m.kind = "start" => m \in Arriving
    BY <2>2, <2>3, MoreArrives
  <2> QED BY <2>1, <2>4, RunsSame
<1> QED BY <1>1, <1>2, <1>3, <1>4, <1>5, <1>6 DEF Main

LEMMA RunsStep ==
    ASSUME LifecycleTypeOK, Messages, Turns, SessionRuns, [LifecycleNext]_allVars
    PROVE  SessionRuns'
<1>p. OpeningRuns /\ StartedRuns /\ ActiveRuns
  BY RunsParts
<1>1. CASE UNCHANGED <<native, opening, wire, current, active, task>>
  BY <1>1, RunsSame DEF Arriving
<1>2. CASE Hydrate \/ (\E d \in Deltas : FindChange(d)) \/ Main
  BY <1>2, RunsMain
<1>3. CASE MountFolder
  <2>1. /\ mounts + 1 \in Mount /\ current' = mounts + 1 /\ UNCHANGED <<opening, wire>>
    BY <1>3, Numbers DEF MountFolder, main
  <2>2. task[mounts + 1] = "none"
    <3>1. Turn(mounts + 1) /\ mounts \in Nat
      BY <2>1, Numbers DEF Turns
    <3>2. mounts + 1 > mounts
      BY <3>1
    <3> QED BY <3>1, <3>2 DEF Turn
  <2>3. active' = 0
    <3>1. CASE current # 0
      BY <1>3, <3>1 DEF MountFolder, CleanUp
    <3>2. CASE current = 0
      BY <1>3, <3>2, <1>p DEF MountFolder, ActiveRuns
    <3> QED BY <3>1, <3>2
  <2>4. \A o \in opening : o.mount # mounts + 1
    BY <2>2, Unexpected
  <2>5. \A m \in Arriving : m.kind = "start" => m.mount # mounts + 1
    BY <2>2, Unexpected DEF Expected, UnderWay
  <2> QED BY <2>1, <2>3, <2>4, <2>5, RunsIdle DEF Arriving
<1>4. CASE UnmountFolder
  <2>1. current' = 0 /\ active' = 0 /\ UNCHANGED <<opening, wire>>
    BY <1>4 DEF UnmountFolder, CleanUp, main
  <2>2. \A o \in opening : o.mount # 0
    <3>1. \A o \in opening : o.mount \in Mount
      BY DEF LifecycleTypeOK
    <3> QED BY <3>1 DEF Mount
  <2>3. \A m \in Arriving : m.kind = "start" => m.mount # 0
    BY Elements, MessageIs DEF Mount
  <2> QED BY <2>1, <2>2, <2>3, RunsIdle DEF Arriving
<1>5. ASSUME NEW e \in Mount, NEW t, task' = [task EXCEPT ![e] = t],
             task[e] \in Begun => t \in Begun, UNCHANGED <<native, opening, wire, current, active>>
      PROVE  SessionRuns'
  <2>1. current # 0 => current \in Mount
    BY Numbers
  <2>2. active # 0 /\ current # 0 /\ task[current] \in Begun => task'[current] \in Begun
    BY <1>5, <2>1 DEF LifecycleTypeOK
  <2> QED BY <1>5, <2>2, RunsSame DEF Arriving
<1>6. ASSUME NEW e \in Mount, StartSession(e) \/ EndStart(e) PROVE SessionRuns'
  <2>1. PICK t : task' = [task EXCEPT ![e] = t] /\ (task[e] \in Begun => t \in Begun)
    BY <1>6 DEF StartSession, EndStart, Begun
  <2>2. UNCHANGED <<native, opening, wire, current, active>>
    BY <1>6 DEF StartSession, EndStart, main
  <2> QED BY <1>5, <2>1, <2>2
<1>7. CASE RecordStart
  <2> DEFINE e == Head(records).mount
  <2>1. Head(records) \in Waiting /\ Head(records) \in Recorded /\ Head(records).kind = "start"
    BY <1>7, FirstRecord DEF RecordStart
  <2>2. e \in Mount
    BY <2>1, RecordIs
  <2>3. /\ task' = [task EXCEPT ![e] = "assets"] /\ "assets" \in Begun
        /\ UNCHANGED <<native, opening, wire, current, active>>
    BY <1>7 DEF RecordStart, main, Begun
  <2> HIDE DEF e
  <2> QED BY <1>5, <2>2, <2>3
<1>8. CASE ReceiveStop \/ ReceiveNote \/ ReceiveAcknowledgement \/ ReceiveAnswer
  <2>1. Received /\ UNCHANGED <<native, opening, current, active, task>>
    BY <1>8 DEF ReceiveStop, ReceiveNote, ReceiveAcknowledgement, ReceiveAnswer, main, lifecycle
  <2> QED BY <2>1, FewerArrive, RunsSame
<1>9. CASE ReceiveStart
  <2> DEFINE m == Head(wire)
             e == m.mount
  <2>1. Received /\ UNCHANGED <<native, opening, current>> /\ m.kind = "start"
    BY <1>9 DEF ReceiveStart, main
  <2>2. m \in UnderWay /\ m \in Arriving /\ e \in Mount
    BY <2>1, FirstMessage, MessageIs DEF UnderWay, Received
  <2>3. task[e] = "start"
    BY <2>1, <2>2, Unexpected DEF Expected
  <2>4. e = current => active = 0
    BY <1>p, <2>3 DEF ActiveRuns, Begun
  <2>5. \/ e = current /\ m.inst # 0 /\ active' = m.inst /\ task' = [task EXCEPT ![e] = "record"]
        \/ active' = active /\ \E t : task' = [task EXCEPT ![e] = t]
    BY <1>9 DEF ReceiveStart
  <2>6. Arriving' \subseteq Arriving
    BY <2>1, FewerArrive
  <2> HIDE DEF m, e
  <2>7. OpeningRuns'
    BY <1>p, <2>1 DEF OpeningRuns, Runs
  <2>8. StartedRuns'
    BY <1>p, <2>1, <2>6 DEF StartedRuns, Runs
  <2>9. ActiveRuns'
    <3>1. CASE e = current /\ m.inst # 0 /\ active' = m.inst
               /\ task' = [task EXCEPT ![e] = "record"]
      <4>1. Runs(m.inst)
        BY <1>p, <2>1, <2>2, <3>1 DEF StartedRuns, e
      <4>2. current # 0 /\ task'[current] = "record"
        <5>1. current # 0
          BY <2>2, <3>1 DEF Mount
        <5>2. task'[e] = "record"
          BY <2>2, <3>1 DEF LifecycleTypeOK
        <5> QED BY <3>1, <5>1, <5>2
      <4> QED BY <2>1, <3>1, <4>1, <4>2 DEF ActiveRuns, Runs, Begun
    <3>2. CASE active' = active /\ \E t : task' = [task EXCEPT ![e] = t]
      <4>1. e # current /\ current # 0 => task'[current] = task[current]
        BY <2>2, <3>2, Numbers DEF LifecycleTypeOK
      <4> QED BY <1>p, <2>1, <2>4, <3>2, <4>1 DEF ActiveRuns, Runs
    <3> QED BY <2>5, <3>1, <3>2
  <2> QED BY <2>7, <2>8, <2>9, RunsAgain
<1>10. CASE Begin \/ IngestFails \/ IngestConflicts \/ Ingest \/ AnswerIngests \/ RecordNote
            \/ (\E e \in Mount : StopDrained(e) \/ SettleCleanup(e))
            \/ (\E d \in Deltas, how \in Verdicts : Answer(d, how))
  <2>1. UNCHANGED <<native, opening, wire, current, active, task>>
    BY <1>10 DEF Begin, IngestFails, IngestConflicts, Ingest, AnswerIngests, RecordNote,
                 StopDrained, SettleCleanup, Answer, main, lifecycle
  <2> QED BY <1>1, <2>1
<1>11. CASE UNCHANGED allVars
  BY <1>1, <1>11 DEF allVars, main, lifecycle
<1> QED
  BY <1>2, <1>3, <1>4, <1>6, <1>7, <1>8, <1>9, <1>10, <1>11
  DEF LifecycleNext, Renderer, RendererWork, Verdicts

-----------------------------------------------------------------------------
(***************************************************************************)
(* What is queued is of the active session.                                *)
(***************************************************************************)
\* What OwnSessionOnly is about.
Queued == ToSet(chan) \cup (IF busy = Nothing \/ Draining THEN {} ELSE {busy.delta})

LEMMA OwnIs == OwnSessionOnly <=> \A d \in Queued \ late : owner[d] = active
BY DEF OwnSessionOnly, Queued

LEMMA OwnAgain == (\A d \in Queued' \ late' : owner'[d] = active') => OwnSessionOnly'
BY DEF OwnSessionOnly, Queued

LEMMA OwnInit == LifecycleInit => OwnSessionOnly
BY NoElements DEF LifecycleInit, OwnSessionOnly

LEMMA QueuedIs ==
    ASSUME LifecycleTypeOK, AllFound
    PROVE  \A d \in Queued : d \in Deltas /\ Found(d)
<1>1. \A d \in ToSet(chan) : d \in Deltas /\ Found(d)
  BY Elements, FoundParts DEF FoundInQueue
<1>2. busy # Nothing => busy.delta \in Deltas /\ Found(busy.delta)
  BY BusyIs, FoundParts DEF FoundInQueue
<1> QED BY <1>1, <1>2 DEF Queued

LEMMA QueuedFewer ==
    ASSUME OwnSessionOnly, Queued' \subseteq Queued, late \subseteq late', UNCHANGED <<owner,
           active>>
    PROVE  OwnSessionOnly'
BY OwnIs, OwnAgain

\* The queue is dropped.
LEMMA QueuedDropped ==
    ASSUME LifecycleTypeOK, Drop
    PROVE  Queued' = {}
<1>1. ToSet(chan') = {}
  BY NoElements DEF Drop
<1>2. busy' = Nothing \/ Draining'
  BY DEF Drop, Draining, LifecycleTypeOK, Working
<1> QED BY <1>1, <1>2 DEF Queued

LEMMA OwnStep ==
    ASSUME LifecycleTypeOK, Messages, AllFound, SessionRuns, OwnSessionOnly, [LifecycleNext]_allVars
    PROVE  OwnSessionOnly'
<1>1. CASE UNCHANGED <<owner, active, chan, busy, late>>
  BY <1>1, QueuedFewer DEF Queued, Draining
<1>2. ASSUME NEW d \in Deltas, FindChange(d) PROVE OwnSessionOnly'
  <2>1. /\ owner[d] = 0 /\ owner' = [owner EXCEPT ![d] = native.inst]
        /\ UNCHANGED <<active, chan, busy, late>>
    BY <1>2 DEF FindChange, lifecycle, queue, history
  <2>2. Queued' = Queued
    BY <2>1 DEF Queued, Draining
  <2>3. \A x \in Queued : owner'[x] = owner[x]
    BY <2>1, QueuedIs DEF Found, LifecycleTypeOK
  <2> QED BY <2>1, <2>2, <2>3, OwnIs, OwnAgain
<1>3. CASE MountFolder \/ UnmountFolder
  <2>1. CASE current # 0
    <3>1. Drop
      BY <1>3, <2>1 DEF MountFolder, UnmountFolder, CleanUp
    <3> QED BY <3>1, QueuedDropped, OwnAgain
  <2>2. CASE current = 0
    BY <1>1, <1>3, <2>2 DEF MountFolder, UnmountFolder, main, queue, history
  <2> QED BY <2>1, <2>2
<1>4. CASE ReceiveStart
  <2> DEFINE m == Head(wire)
  <2>1. Received /\ UNCHANGED <<owner, chan, busy, late>> /\ m.kind = "start"
    BY <1>4 DEF ReceiveStart, main, queue, history
  <2>2. task[m.mount] = "start"
    BY <2>1, FirstMessage, Unexpected DEF UnderWay, Received, Expected
  <2>3. CASE active' = active
    BY <1>1, <2>1, <2>3
  <2>4. CASE active' # active
    <3>1. m.mount = current
      BY <1>4, <2>4 DEF ReceiveStart
    <3>2. active = 0
      BY <2>2, <3>1 DEF SessionRuns, Begun
    <3>3. Queued \ late = {}
      BY <3>2, OwnIs, QueuedIs DEF Found
    <3>4. Queued' \ late' = {}
      BY <2>1, <3>3 DEF Queued, Draining
    <3> QED BY <3>4, OwnAgain
  <2> QED BY <2>3, <2>4
<1>5. CASE RecordNote
  <2> DEFINE r == Head(records)
  <2>1. /\ records # <<>> /\ r.kind = "note" /\ chan' = Append(chan, r.delta)
        /\ late' = IF r.inst = owner[r.delta] /\ owner[r.delta] # active
                   THEN late \cup {r.delta} ELSE late
        /\ UNCHANGED <<owner, active, busy>>
    BY <1>5 DEF RecordNote, Accept, main, lifecycle
  <2>2. r \in Waiting /\ r.delta \in Deltas
    BY <2>1, FirstRecord, RecordIs
  <2>3. r.inst = owner[r.delta]
    BY <2>1, <2>2, FoundParts DEF FoundInChannels
  <2>4. chan \in Seq(Deltas)
    BY DEF LifecycleTypeOK
  <2>5. ToSet(Append(chan, r.delta)) = ToSet(chan) \cup {r.delta}
    BY <2>2, <2>4, OneMore
  <2>6. Queued' = Queued \cup {r.delta}
    BY <2>1, <2>5 DEF Queued, Draining
  <2>7. ASSUME NEW d \in Queued' \ late' PROVE owner'[d] = active'
    BY <2>1, <2>3, <2>6, OwnIs
  <2> QED BY <2>7, OwnAgain
<1>6. CASE Begin
  <2>1. /\ busy = Nothing /\ chan # <<>> /\ chan' = Tail(chan)
        /\ busy' = [delta |-> Head(chan), dropped |-> FALSE] /\ UNCHANGED <<owner, active, late>>
    BY <1>6 DEF Begin, main, lifecycle, history
  <2>2. chan \in Seq(Deltas)
    BY DEF LifecycleTypeOK
  <2>3. ToSet(chan) = {Head(chan)} \cup ToSet(Tail(chan))
    BY <2>1, <2>2, HeadAndTail
  <2>4. busy'.delta = Head(chan)
    BY <2>1
  <2>5. Queued' \subseteq Queued
    BY <2>1, <2>3, <2>4 DEF Queued, Draining
  <2> QED BY <2>1, <2>5, QueuedFewer
<1>7. CASE IngestFails \/ IngestConflicts \/ Ingest \/ ReceiveAcknowledgement
  <2>1. UNCHANGED <<owner, active, chan, late>> /\ (busy' = busy \/ busy' = Nothing)
    BY <1>7 DEF IngestFails, IngestConflicts, Ingest, ReceiveAcknowledgement, Finish, main,
                lifecycle, history
  <2>2. Queued' \subseteq Queued
    BY <2>1 DEF Queued, Draining
  <2> QED BY <2>1, <2>2, QueuedFewer
<1>8. CASE Hydrate \/ Main \/ RecordStart
  <2>1. UNCHANGED <<owner, active, chan, busy, late>>
    BY <1>8 DEF Hydrate, Main, HandleStart, HandleStop, HandleResolve, AnswerStart, RecordStart,
                main, lifecycle, queue, history
  <2> QED BY <1>1, <2>1
<1>9. CASE \/ ReceiveStop \/ ReceiveNote \/ ReceiveAnswer \/ AnswerIngests
           \/ \E e \in Mount : \/ StartSession(e) \/ EndStart(e)
                               \/ StopDrained(e) \/ SettleCleanup(e)
           \/ \E d \in Deltas, how \in Verdicts : Answer(d, how)
  <2>1. UNCHANGED <<owner, active, chan, busy, late>>
    BY <1>9 DEF ReceiveStop, ReceiveNote, ReceiveAnswer, AnswerIngests, StartSession, EndStart,
                StopDrained, SettleCleanup, Answer, main, lifecycle, queue, history
  <2> QED BY <1>1, <2>1
<1>10. CASE UNCHANGED allVars
  BY <1>1, <1>10 DEF allVars, main, lifecycle, queue, history
<1> QED
  BY <1>2, <1>3, <1>4, <1>5, <1>6, <1>7, <1>8, <1>9, <1>10
  DEF LifecycleNext, Renderer, RendererWork, Verdicts

-----------------------------------------------------------------------------
(***************************************************************************)
(* The session of a delta whose queue was dropped.                         *)
(***************************************************************************)
\* What DrainHolds is about.
DrainsOwn == Draining /\ busy.delta \notin late

LEMMA DrainIs ==
    DrainHolds <=> (DrainsOwn => native.inst = owner[busy.delta] /\ \E e \in Mount : DrainedBy(e))
BY DEF DrainHolds, DrainsOwn

LEMMA DrainAgain ==
    (DrainsOwn' => native'.inst = owner'[busy'.delta] /\ \E e \in Mount : DrainedBy(e)')
    => DrainHolds'
BY DEF DrainHolds, DrainsOwn

LEMMA DrainSame ==
    ASSUME DrainHolds, UNCHANGED <<busy, owner>>, native'.inst = native.inst, late \subseteq late',
           \A e \in Mount : DrainedBy(e) => DrainedBy(e)'
    PROVE  DrainHolds'
<1>1. DrainsOwn' => DrainsOwn
  BY DEF DrainsOwn, Draining
<1> QED BY <1>1, DrainIs, DrainAgain

LEMMA DrainNone == ~DrainsOwn' => DrainHolds'
BY DrainAgain

\* While it is processed, no start and no stop is under way.
LEMMA DrainQuiet ==
    ASSUME LifecycleTypeOK, Turns, NEW a \in Mount, DrainedBy(a), NEW e \in Mount
    PROVE  /\ task[e] # "start" /\ cleanup[e] \notin {"stop", "stopped", "stop again"}
<1>1. Turn(a) /\ Turn(e) /\ a \in Nat /\ e \in Nat
  BY DEF Turns, Mount
<1>2. CASE e = a
  BY <1>2 DEF DrainedBy, Begun
<1>3. CASE e < a
  <2>1. cleanup[e] = "settled"
    BY <1>1, <1>3 DEF Turn, DrainedBy, Begun
  <2> QED BY <1>1, <2>1 DEF Turn
<1>4. CASE e > a
  <2>1. task[e] # "start"
    BY <1>1, <1>4 DEF Turn, DrainedBy
  <2>2. cleanup[e] \in {"none", "drain"}
    BY <1>4 DEF DrainedBy
  <2> QED BY <2>1, <2>2
<1>5. e = a \/ e < a \/ e > a
  BY <1>1
<1> QED BY <1>2, <1>3, <1>4, <1>5

LEMMA DrainCalls ==
    ASSUME LifecycleTypeOK, Messages, Turns, DrainHolds, DrainsOwn
    PROVE  /\ \A m \in UnderWay : m.kind \notin {"start", "stop"}
           /\ opening = {} /\ \A e \in Mount : cleanup[e] # "stopped"
<1>1. PICK a \in Mount : DrainedBy(a)
  BY DrainIs
<1>2. \A e \in Mount : task[e] # "start" /\ cleanup[e] \notin {"stop", "stopped", "stop again"}
  BY <1>1, DrainQuiet
<1>3. ASSUME NEW m \in UnderWay, m.kind \in {"start", "stop"} PROVE FALSE
  <2>1. m.mount \in Mount
    BY <1>3, Elements, CallIs, MessageIs DEF UnderWay
  <2> QED BY <1>2, <1>3, <2>1, Unexpected DEF Expected
<1>4. ASSUME NEW o \in opening PROVE FALSE
  <2>1. o.mount \in Mount
    BY DEF LifecycleTypeOK
  <2> QED BY <1>2, <2>1, Unexpected
<1> QED BY <1>2, <1>3, <1>4

\* The cleanup of the current mount drops the queue.
LEMMA DrainCleanUp ==
    ASSUME LifecycleTypeOK, Turns, AllFound, SessionRuns, OwnSessionOnly, DrainHolds,
           NEW next, CleanUp(next), current # 0, UNCHANGED <<native, owner, late>>,
           \A e \in Mount : task[e] # "none" => task'[e] = task[e]
    PROVE  DrainHolds'
<1>0. current \in Mount /\ current = mounts /\ mounts \in Nat
  BY Numbers DEF Turns
<1>1. \A e \in Mount : Turn(e) /\ e \in Nat
  BY DEF Turns, Mount
<1>2. cleanup[current] = "none"
  BY <1>0, <1>1 DEF Turn
<1>3. SUFFICES ASSUME DrainsOwn'
               PROVE  native'.inst = owner'[busy'.delta] /\ \E e \in Mount : DrainedBy(e)'
  BY DrainAgain
<1>4. busy # Nothing /\ busy' = [busy EXCEPT !.dropped = TRUE] /\ busy \in Working
  BY <1>3 DEF CleanUp, Drop, DrainsOwn, Draining, LifecycleTypeOK
<1>5. busy'.delta = busy.delta /\ busy.delta \notin late
  BY <1>3, <1>4 DEF DrainsOwn, Working
<1>6. cleanup' = [cleanup EXCEPT ![current] = "drain"]
  BY <1>4 DEF CleanUp
<1>7. \A e \in Mount : cleanup'[e] = IF e = current THEN "drain" ELSE cleanup[e]
  BY <1>6 DEF LifecycleTypeOK
<1>8. CASE DrainsOwn
  <2>1. native.inst = owner[busy.delta] /\ \E e \in Mount : DrainedBy(e)
    BY <1>8, DrainIs
  <2>2. PICK a \in Mount : DrainedBy(a)
    BY <2>1
  <2>3. a # current /\ task'[a] = task[a]
    BY <1>2, <2>2 DEF DrainedBy, Begun
  <2>4. DrainedBy(a)'
    BY <1>7, <2>2, <2>3 DEF DrainedBy
  <2> QED BY <1>5, <2>1, <2>4
<1>9. CASE ~DrainsOwn
  <2>1. busy.delta \in Queued \ late
    BY <1>4, <1>5, <1>9 DEF DrainsOwn, Queued
  <2>2. owner[busy.delta] = active /\ active # 0
    BY <2>1, OwnIs, QueuedIs DEF Found
  <2>3. native.inst = active /\ task[current] \in Begun
    BY <2>2, RunsParts DEF ActiveRuns, Runs
  <2>4. task'[current] = task[current]
    BY <1>0, <2>3 DEF Begun
  <2>5. \A b \in Mount : b > current => cleanup'[b] = "none"
    <3> SUFFICES ASSUME NEW b \in Mount, b > current PROVE cleanup'[b] = "none"
      OBVIOUS
    <3>1. b # current /\ b > mounts
      BY <1>0, <1>1
    <3>2. cleanup[b] = "none"
      BY <1>1, <3>1 DEF Turn
    <3> QED BY <1>7, <3>1, <3>2
  <2>6. ASSUME NEW c \in Mount, c = current PROVE DrainedBy(c)'
    BY <1>0, <1>7, <2>3, <2>4, <2>5, <2>6 DEF DrainedBy
  <2> QED BY <1>0, <1>5, <2>2, <2>3, <2>6
<1> QED BY <1>8, <1>9

LEMMA DrainStep ==
    ASSUME LifecycleTypeOK, Messages, Turns, AllFound, SessionRuns, OwnSessionOnly, DrainHolds,
           [LifecycleNext]_allVars
    PROVE  DrainHolds'
<1>1. CASE UNCHANGED <<busy, owner, native, cleanup, task>> /\ late \subseteq late'
  BY <1>1, DrainSame DEF DrainedBy
<1>2. ASSUME NEW e \in Mount, NEW t, task' = [task EXCEPT ![e] = t],
             task[e] \in Begun => t \in Begun, UNCHANGED <<busy, owner, native, cleanup, late>>
      PROVE  DrainHolds'
  <2>1. ASSUME NEW a \in Mount, DrainedBy(a) PROVE DrainedBy(a)'
    <3>1. task'[a] \in Begun
      BY <1>2, <2>1 DEF DrainedBy, LifecycleTypeOK
    <3> QED BY <1>2, <2>1, <3>1 DEF DrainedBy
  <2> QED BY <1>2, <2>1, DrainSame
<1>3. CASE UNCHANGED <<busy, late>> /\ ~DrainsOwn
  BY <1>3, DrainNone DEF DrainsOwn, Draining
<1>4. ASSUME NEW d \in Deltas, FindChange(d) PROVE DrainHolds'
  <2>1. /\ owner[d] = 0 /\ owner' = [owner EXCEPT ![d] = native.inst]
        /\ UNCHANGED <<native, busy, late, cleanup, task>>
    BY <1>4 DEF FindChange, lifecycle, queue, history
  <2>2. CASE DrainsOwn
    <3>1. busy.delta # d /\ busy.delta \in Deltas
      BY <2>1, <2>2, BusyIs, FoundParts DEF FoundInQueue, Found, DrainsOwn, Draining
    <3>2. owner'[busy.delta] = owner[busy.delta]
      BY <2>1, <3>1 DEF LifecycleTypeOK
    <3>3. \A e \in Mount : DrainedBy(e) => DrainedBy(e)'
      BY <2>1 DEF DrainedBy
    <3> QED BY <2>1, <2>2, <3>2, <3>3, DrainIs, DrainAgain
  <2>3. CASE ~DrainsOwn
    BY <1>3, <2>1, <2>3
  <2> QED BY <2>2, <2>3
<1>5. CASE Hydrate
  <2>1. native.inst = 0 /\ UNCHANGED <<busy, late>>
    BY <1>5 DEF Hydrate, queue, history
  <2>2. ~DrainsOwn
    BY <2>1, DrainIs, FoundParts DEF FoundInQueue, Found, DrainsOwn, Draining
  <2> QED BY <1>3, <2>1, <2>2
<1>6. CASE HandleStart \/ HandleStop
  <2>1. UNCHANGED <<busy, late>> /\ calls # <<>> /\ Head(calls).kind \in {"start", "stop"}
    BY <1>6 DEF HandleStart, HandleStop, queue, history
  <2>2. Head(calls) \in UnderWay
    BY <2>1, FirstCall DEF UnderWay
  <2> QED BY <1>3, <2>1, <2>2, DrainCalls
<1>7. ASSUME NEW o \in opening, AnswerStart(o) PROVE DrainHolds'
  <2>1. UNCHANGED <<busy, late>>
    BY <1>7 DEF AnswerStart, queue, history
  <2> QED BY <1>3, <2>1, DrainCalls
<1>8. CASE ReceiveStop \/ ReceiveStart
  <2>1. UNCHANGED <<busy, late>> /\ wire # <<>> /\ Head(wire).kind \in {"start", "stop"}
    BY <1>8 DEF ReceiveStop, ReceiveStart, Received, queue, history
  <2>2. Head(wire) \in UnderWay
    BY <2>1, FirstMessage DEF UnderWay
  <2> QED BY <1>3, <2>1, <2>2, DrainCalls
<1>9. CASE MountFolder
  <2>1. mounts + 1 \in Mount /\ mounts \in Nat
    BY <1>9, Numbers DEF MountFolder
  <2>2. task[mounts + 1] = "none"
    <3>1. Turn(mounts + 1) /\ mounts + 1 > mounts
      BY <2>1 DEF Turns
    <3> QED BY <3>1 DEF Turn
  <2>3. task' = [task EXCEPT ![mounts + 1] = "wait"] /\ UNCHANGED <<native, owner, late>>
    BY <1>9 DEF MountFolder, main, history
  <2>4. \A e \in Mount : task[e] # "none" => task'[e] = task[e]
    BY <2>2, <2>3 DEF LifecycleTypeOK
  <2>5. CASE current # 0
    <3>1. CleanUp(mounts')
      BY <1>9, <2>5 DEF MountFolder
    <3> QED BY <2>3, <2>4, <2>5, <3>1, DrainCleanUp
  <2>6. CASE current = 0
    <3>1. UNCHANGED <<busy, cleanup>>
      BY <1>9, <2>6 DEF MountFolder, queue
    <3>2. task[mounts + 1] \notin Begun
      BY <2>2 DEF Begun
    <3> QED BY <1>2, <2>1, <2>3, <3>1, <3>2
  <2> QED BY <2>5, <2>6
<1>10. CASE UnmountFolder
  <2>1. current # 0 /\ CleanUp(0) /\ UNCHANGED <<native, owner, late, task>>
    BY <1>10 DEF UnmountFolder, main, history
  <2> QED BY <2>1, DrainCleanUp
<1>11. ASSUME NEW e \in Mount, StartSession(e) \/ EndStart(e) PROVE DrainHolds'
  <2>1. PICK t : task' = [task EXCEPT ![e] = t] /\ (task[e] \in Begun => t \in Begun)
    BY <1>11 DEF StartSession, EndStart, Begun
  <2>2. UNCHANGED <<busy, owner, native, cleanup, late>>
    BY <1>11 DEF StartSession, EndStart, main, queue, history
  <2> QED BY <1>2, <2>1, <2>2
<1>12. CASE RecordStart
  <2> DEFINE e == Head(records).mount
  <2>1. Head(records) \in Recorded /\ Head(records).kind = "start"
    BY <1>12, FirstRecord DEF RecordStart
  <2>2. e \in Mount
    BY <2>1, RecordIs
  <2>3. /\ task' = [task EXCEPT ![e] = "assets"] /\ "assets" \in Begun
        /\ UNCHANGED <<busy, owner, native, cleanup, late>>
    BY <1>12 DEF RecordStart, main, Begun, queue
  <2> HIDE DEF e
  <2> QED BY <1>2, <2>2, <2>3
<1>13. ASSUME NEW e \in Mount, SettleCleanup(e) PROVE DrainHolds'
  <2>1. cleanup[e] = "stopped" /\ UNCHANGED <<busy, late>>
    BY <1>13 DEF SettleCleanup, queue, history
  <2> QED BY <1>3, <2>1, DrainCalls
<1>14. ASSUME NEW e \in Mount, StopDrained(e) PROVE DrainHolds'
  <2>1. ~Draining /\ UNCHANGED <<busy, late>>
    BY <1>14 DEF StopDrained, queue, history
  <2> QED BY <1>3, <2>1 DEF DrainsOwn
<1>15. CASE Begin
  <2>1. busy'.dropped = FALSE
    BY <1>15 DEF Begin
  <2> QED BY <2>1, DrainNone DEF DrainsOwn, Draining
<1>16. CASE IngestFails \/ IngestConflicts \/ Ingest \/ ReceiveAcknowledgement
  <2>1. /\ UNCHANGED <<owner, native, cleanup, task, late>>
        /\ (busy' = busy \/ busy' = Nothing)
    BY <1>16 DEF IngestFails, IngestConflicts, Ingest, ReceiveAcknowledgement, Finish, main,
                 lifecycle, history
  <2>2. CASE busy' = busy
    BY <1>1, <2>1, <2>2
  <2>3. CASE busy' = Nothing
    BY <2>3, DrainNone DEF DrainsOwn, Draining
  <2> QED BY <2>1, <2>2, <2>3
<1>17. CASE \/ HandleResolve \/ ReceiveNote \/ ReceiveAnswer \/ RecordNote \/ AnswerIngests
            \/ (\E d \in Deltas, how \in Verdicts : Answer(d, how))
  <2>1. UNCHANGED <<busy, owner, native, cleanup, task>> /\ late \subseteq late'
    BY <1>17 DEF HandleResolve, ReceiveNote, ReceiveAnswer, RecordNote, AnswerIngests, Answer,
                 main, lifecycle, queue, history
  <2> QED BY <1>1, <2>1
<1>18. CASE UNCHANGED allVars
  BY <1>1, <1>18 DEF allVars, main, lifecycle, queue, history
<1> QED
  BY <1>4, <1>5, <1>6, <1>7, <1>8, <1>9, <1>10, <1>11, <1>12, <1>13, <1>14, <1>15, <1>16, <1>17,
     <1>18
  DEF LifecycleNext, Main, Renderer, RendererWork, Verdicts

-----------------------------------------------------------------------------
(***************************************************************************)
(* Reviews.                                                                *)
(***************************************************************************)
\* The conjuncts of Reviewed.
ReviewsAre ==
    /\ reviews # {} => current # 0
    /\ answer # Nothing => answer.mount <= mounts

OneReview ==
    ~stray =>
       /\ \A c, d \in reviews : c = d
       /\ answer # Nothing /\ answer.mount = current => reviews = {answer.delta}

LEMMA ReviewParts == Reviewed <=> ReviewsAre /\ OneReview /\ ReviewHoldsFolder
BY DEF Reviewed, ReviewsAre, OneReview

LEMMA ReviewedAgain == ReviewsAre' /\ OneReview' /\ ReviewHoldsFolder' => Reviewed'
BY DEF Reviewed, ReviewsAre, OneReview

LEMMA ReviewInit == LifecycleInit => Reviewed
BY DEF LifecycleInit, Reviewed, ReviewHoldsFolder

\* A delta that is being processed and was not dropped has no review beside it.
LEMMA NoReview ==
    ASSUME Reviewed, busy # Nothing, ~Draining, ~stray
    PROVE  reviews = {}
BY ReviewParts DEF ReviewHoldsFolder

\* process() is done with its delta.
LEMMA ReviewFinish ==
    ASSUME Reviewed, busy # Nothing, NEW holds, Finish(holds),
           UNCHANGED <<reviews, current, answer, mounts, stray>>
    PROVE  Reviewed'
<1>1. ReviewsAre' /\ OneReview'
  BY ReviewParts DEF ReviewsAre, OneReview
<1>2. busy' = Nothing
  BY DEF Finish
<1>3. ReviewHoldsFolder'
  <2>1. SUFFICES ASSUME reviews # {}, ~stray PROVE held'
    BY <1>2 DEF ReviewHoldsFolder
  <2>2. held /\ Draining
    BY <2>1, ReviewParts DEF ReviewHoldsFolder
  <2>3. held' = held
    BY <2>2 DEF Draining, Finish
  <2> QED BY <2>2, <2>3
<1> QED BY <1>1, <1>3, ReviewedAgain

\* The reviews of the folder are closed.
LEMMA ReviewsClosed ==
    ASSUME reviews' = {}, answer' = answer, answer # Nothing => answer.mount <= mounts',
           answer # Nothing => answer.mount # current'
    PROVE  Reviewed'
BY DEF Reviewed, ReviewHoldsFolder

LEMMA ReviewStep ==
    ASSUME LifecycleTypeOK, Messages, Reviewed, [LifecycleNext]_allVars
    PROVE  Reviewed'
<1>p. ReviewsAre /\ OneReview /\ ReviewHoldsFolder
  BY ReviewParts
<1>0. answer # Nothing => answer \in Answering /\ answer.mount \in Mount /\ answer.mount \in Nat
  <2>1. answer # Nothing => answer \in Answering
    BY DEF LifecycleTypeOK
  <2>2. \A e \in Mount : e \in Nat
    BY DEF Mount
  <2> QED BY <2>1, <2>2 DEF Answering
<1>1. CASE UNCHANGED <<reviews, current, answer, mounts, stray, held, busy>>
  BY <1>1, <1>p, ReviewedAgain DEF ReviewsAre, OneReview, ReviewHoldsFolder, Draining
<1>2. CASE MountFolder
  <2>1. mounts' = mounts + 1 /\ current' = mounts + 1 /\ answer' = answer /\ mounts \in Nat
    BY <1>2, Numbers DEF MountFolder
  <2>2. answer # Nothing => answer.mount <= mounts + 1 /\ answer.mount # mounts + 1
    <3>1. answer # Nothing => answer.mount <= mounts /\ answer.mount \in Nat
      BY <1>p, <1>0 DEF ReviewsAre
    <3> QED BY <2>1, <3>1
  <2>3. reviews' = {}
    BY <1>2, <1>p DEF MountFolder, CleanUp, ReviewsAre
  <2> QED BY <2>1, <2>2, <2>3, ReviewsClosed
<1>3. CASE UnmountFolder
  <2>1. mounts' = mounts /\ current' = 0 /\ answer' = answer /\ reviews' = {}
    BY <1>3 DEF UnmountFolder, CleanUp
  <2>2. answer # Nothing => answer.mount <= mounts /\ answer.mount # 0
    BY <1>p, <1>0 DEF ReviewsAre, Mount
  <2> QED BY <2>1, <2>2, ReviewsClosed
<1>4. CASE Begin
  <2>1. ~held /\ UNCHANGED <<reviews, current, answer, mounts, stray, held>>
    BY <1>4 DEF Begin, lifecycle, review, history
  <2>2. ReviewsAre' /\ OneReview'
    BY <2>1, <1>p DEF ReviewsAre, OneReview
  <2>3. ReviewHoldsFolder'
    BY <2>1, <1>p DEF ReviewHoldsFolder
  <2> QED BY <2>2, <2>3, ReviewedAgain
<1>5. CASE IngestFails
  <2>1. busy # Nothing /\ Finish(TRUE) /\ UNCHANGED <<reviews, current, answer, mounts, stray>>
    BY <1>5, BusyIs DEF IngestFails, lifecycle, review, history
  <2> QED BY <2>1, ReviewFinish
<1>6. CASE IngestConflicts
  <2>1. /\ busy # Nothing /\ Finish(TRUE) /\ UNCHANGED <<current, answer, mounts, stray>>
        /\ reviews' = (IF busy.dropped THEN reviews ELSE reviews \cup {busy.delta})
        /\ current # 0 /\ busy.dropped \in BOOLEAN
    BY <1>6, BusyIs DEF IngestConflicts, lifecycle, history
  <2>2. CASE busy.dropped
    BY <2>1, <2>2, ReviewFinish
  <2>3. CASE ~busy.dropped
    <3>1. ~Draining /\ held' = TRUE /\ busy' = Nothing
      BY <2>1, <2>3 DEF Draining, Finish
    <3>2. ~stray => reviews = {} /\ reviews' = {busy.delta}
      BY <2>1, <2>3, <3>1, NoReview
    <3>3. ReviewsAre'
      BY <1>p, <2>1 DEF ReviewsAre
    <3>4. OneReview'
      BY <1>p, <2>1, <3>2 DEF OneReview
    <3>5. ReviewHoldsFolder'
      BY <3>1 DEF ReviewHoldsFolder
    <3> QED BY <3>3, <3>4, <3>5, ReviewedAgain
  <2> QED BY <2>2, <2>3
<1>7. CASE Ingest
  <2>1. busy # Nothing /\ UNCHANGED <<reviews, current, answer, mounts, stray>>
    BY <1>7, BusyIs DEF Ingest, lifecycle, review
  <2>2. Finish(FALSE) \/ UNCHANGED <<busy, held>>
    BY <1>7 DEF Ingest
  <2> QED BY <1>1, <2>1, <2>2, ReviewFinish
<1>8. CASE ReceiveAcknowledgement
  <2> DEFINE result == Head(wire).result
  <2>1. UNCHANGED <<reviews, current, answer, mounts, stray>>
    BY <1>8 DEF ReceiveAcknowledgement, lifecycle, review, history
  <2>2. Finish(result # "ok") \/ UNCHANGED <<busy, held>>
    BY <1>8 DEF ReceiveAcknowledgement
  <2>3. Head(wire) \in UnderWay /\ Head(wire).kind = "resolve" /\ Head(wire).by = "queue"
    BY <1>8, FirstMessage DEF ReceiveAcknowledgement, Received, UnderWay
  <2>4. busy # Nothing
    BY <2>3, Unexpected, BusyIs DEF Expected, Acknowledging
  <2> QED BY <1>1, <2>1, <2>2, <2>4, ReviewFinish
<1>9. ASSUME NEW d \in Deltas, NEW how \in Verdicts, Answer(d, how) PROVE Reviewed'
  <2>1. d \in reviews /\ answer = Nothing /\ UNCHANGED <<reviews, current, mounts, stray, held, busy>>
    BY <1>9 DEF Answer, lifecycle, queue, history
  <2>2. answer'.delta = d /\ answer'.mount = current
    BY <1>9 DEF Answer
  <2>3. ReviewsAre'
    BY <1>p, <2>1, <2>2, Numbers DEF ReviewsAre
  <2>4. OneReview'
    BY <1>p, <2>1, <2>2 DEF OneReview
  <2>5. ReviewHoldsFolder'
    BY <1>p, <2>1 DEF ReviewHoldsFolder, Draining
  <2> QED BY <2>3, <2>4, <2>5, ReviewedAgain
<1>10. ASSUME answer # Nothing, NEW s, answer' = [answer EXCEPT !.step = s],
              UNCHANGED <<reviews, current, mounts, stray, held, busy>>
       PROVE  Reviewed'
  <2>1. answer'.mount = answer.mount /\ answer'.delta = answer.delta
    BY <1>0, <1>10 DEF Answering
  <2>2. ReviewsAre'
    BY <1>p, <1>10, <2>1 DEF ReviewsAre
  <2>3. OneReview'
    BY <1>p, <1>10, <2>1 DEF OneReview
  <2>4. ReviewHoldsFolder'
    BY <1>p, <1>10 DEF ReviewHoldsFolder, Draining
  <2> QED BY <2>2, <2>3, <2>4, ReviewedAgain
<1>11. CASE AnswerIngests
  <2>1. /\ answer # Nothing /\ answer' = [answer EXCEPT !.step = "acknowledge 1"]
        /\ UNCHANGED <<reviews, current, mounts, stray, held, busy>>
    BY <1>11 DEF AnswerIngests, lifecycle, queue
  <2> QED BY <2>1, <1>10
<1>12. CASE ReceiveAnswer
  <2>1. Head(wire) \in UnderWay /\ Head(wire).kind = "resolve" /\ Head(wire).by = "answer"
    BY <1>12, FirstMessage DEF ReceiveAnswer, Received, UnderWay
  <2>2. answer # Nothing
    BY <2>1, Unexpected DEF Expected
  <2>3. UNCHANGED <<current, mounts, busy>>
    BY <1>12 DEF ReceiveAnswer, lifecycle
  <2>4. CASE (\E s : answer' = [answer EXCEPT !.step = s]) /\ UNCHANGED <<held, reviews, stray>>
    BY <2>2, <2>3, <2>4, <1>10
  <2>5. CASE answer' = Nothing /\ UNCHANGED <<held, reviews, stray>>
    <3>1. ReviewsAre' /\ OneReview'
      BY <1>p, <2>3, <2>5 DEF ReviewsAre, OneReview
    <3>2. ReviewHoldsFolder'
      BY <1>p, <2>3, <2>5 DEF ReviewHoldsFolder, Draining
    <3> QED BY <3>1, <3>2, ReviewedAgain
  <2>6. CASE /\ answer' = Nothing /\ reviews' = reviews \ {answer.delta}
             /\ stray' = (stray \/ answer.mount # current)
    <3>1. ~stray' => ~stray /\ answer.mount = current
      BY <2>6, Zenon
    <3>2. ~stray' => reviews' = {}
      BY <1>p, <2>2, <2>6, <3>1 DEF OneReview
    <3>3. ReviewsAre'
      BY <1>p, <2>3, <2>6 DEF ReviewsAre
    <3>4. OneReview' /\ ReviewHoldsFolder'
      BY <2>6, <3>2 DEF OneReview, ReviewHoldsFolder
    <3> QED BY <3>3, <3>4, ReviewedAgain
  <2> QED BY <1>12, <2>4, <2>5, <2>6 DEF ReceiveAnswer
<1>13. CASE Hydrate \/ Main \/ RecordStart \/ RecordNote \/ (\E d \in Deltas : FindChange(d))
  <2>1. UNCHANGED <<reviews, current, answer, mounts, stray, held, busy>>
    BY <1>13 DEF Hydrate, Main, HandleStart, HandleStop, HandleResolve, AnswerStart, RecordStart,
                 RecordNote, FindChange, lifecycle, queue, review, history
  <2> QED BY <1>1, <2>1
<1>14. CASE \/ ReceiveStop \/ ReceiveStart \/ ReceiveNote
            \/ \E e \in Mount : \/ StartSession(e) \/ EndStart(e)
                                \/ StopDrained(e) \/ SettleCleanup(e)
  <2>1. UNCHANGED <<reviews, current, answer, mounts, stray, held, busy>>
    BY <1>14 DEF ReceiveStop, ReceiveStart, ReceiveNote, StartSession, EndStart, StopDrained,
                 SettleCleanup, queue, review, history
  <2> QED BY <1>1, <2>1
<1>15. CASE UNCHANGED allVars
  BY <1>1, <1>15 DEF allVars, lifecycle, queue, review, history
<1> QED
  BY <1>2, <1>3, <1>4, <1>5, <1>6, <1>7, <1>8, <1>9, <1>11, <1>12, <1>13, <1>14, <1>15
  DEF LifecycleNext, Renderer, RendererWork, Verdicts

-----------------------------------------------------------------------------
(***************************************************************************)
(* The theorems.                                                           *)
(***************************************************************************)
LEMMA LifecycleInvInit == LifecycleInit => LifecycleInv
<1> SUFFICES ASSUME LifecycleInit PROVE LifecycleInv
  OBVIOUS
<1>1. LifecycleTypeOK /\ Messages /\ Turns /\ AcceptsMerged /\ AllFound
  BY TypeInit, MessagesInit, TurnsInit, AcceptsInit, FoundInit
<1>2. SessionRuns
  <2>1. Arriving = {} /\ opening = {} /\ active = 0
    BY NoElements DEF LifecycleInit, Arriving
  <2> QED BY <2>1 DEF SessionRuns
<1>3. DrainHolds
  BY DEF LifecycleInit, DrainHolds, Draining
<1> QED BY <1>1, <1>2, <1>3, OwnInit, ReviewInit DEF LifecycleInv

LEMMA LifecycleInvStep == LifecycleInv /\ [LifecycleNext]_allVars => LifecycleInv'
<1> SUFFICES ASSUME LifecycleInv, [LifecycleNext]_allVars PROVE LifecycleInv'
  OBVIOUS
<1>1. /\ LifecycleTypeOK /\ Messages /\ Turns /\ AcceptsMerged /\ AllFound /\ SessionRuns
      /\ OwnSessionOnly /\ DrainHolds /\ Reviewed /\ AllExpected
  BY DEF LifecycleInv, Messages
<1>2. LifecycleTypeOK' /\ Messages' /\ Turns'
  BY <1>1, TypeStep, MessagesStep, TurnsStep
<1>3. AcceptsMerged' /\ AllFound' /\ SessionRuns'
  BY <1>1, AcceptsStep, FoundStep, RunsStep
<1>4. OwnSessionOnly' /\ DrainHolds' /\ Reviewed'
  BY <1>1, OwnStep, DrainStep, ReviewStep
<1> QED BY <1>2, <1>3, <1>4 DEF LifecycleInv

(***************************************************************************)
(* The inductive invariant holds.                                          *)
(***************************************************************************)
THEOREM LifecycleInvHolds == LifecycleSpec => []LifecycleInv
BY LifecycleInvInit, LifecycleInvStep, PTL DEF LifecycleSpec

LEMMA InvActiveRuns == LifecycleInv => ActiveSessionRuns
BY DEF LifecycleInv, SessionRuns, Runs, ActiveSessionRuns

(***************************************************************************)
(* The renderer's active session is the one the main process runs and      *)
(* notifies, and what is queued or processed is of it: the cleanup of an   *)
(* older mount, however late its stop, ends only its own session, and the  *)
(* notification of an older session is not taken for one of the new.       *)
(***************************************************************************)
THEOREM SessionsStayApart == LifecycleSpec => []SessionsApart
<1>1. LifecycleInv => SessionsApart
  BY InvActiveRuns DEF LifecycleInv, SessionsApart
<1> QED BY <1>1, LifecycleInvHolds, PTL

(***************************************************************************)
(* While a review of the folder is open its queue processes nothing but a  *)
(* delta that was dropped, unless an answer outlived its session.          *)
(***************************************************************************)
THEOREM ReviewsHoldFolders == LifecycleSpec => []ReviewHoldsFolder
<1>1. LifecycleInv => ReviewHoldsFolder
  BY DEF LifecycleInv, Reviewed
<1> QED BY <1>1, LifecycleInvHolds, PTL

(***************************************************************************)
(* The main process is told that a change is accepted only when the        *)
(* document has it, retries and late answers included.                     *)
(***************************************************************************)
THEOREM AcceptedWasMerged == LifecycleSpec => []AcceptedIsMerged
<1>1. LifecycleInv => AcceptedIsMerged
  BY DEF LifecycleInv, AcceptsMerged
<1> QED BY <1>1, LifecycleInvHolds, PTL

\* What MergedBeforeStop says of a step.
MergesOwn ==
    \A d \in merged' \ merged : d \in late \/ answer # answer' \/ native.inst = owner[d]

LEMMA MergesInSession == LifecycleInv /\ [LifecycleNext]_allVars => [MergesOwn]_merged
<1> SUFFICES ASSUME LifecycleInv, [LifecycleNext]_allVars, merged' # merged PROVE MergesOwn
  OBVIOUS
<1>1. LifecycleTypeOK /\ AllFound /\ SessionRuns /\ OwnSessionOnly /\ DrainHolds
  BY DEF LifecycleInv
<1>2. CASE AnswerIngests
  <2>1. answer \in Answering /\ answer.step = "ingest"
        /\ answer' = [answer EXCEPT !.step = "acknowledge 1"]
    BY <1>1, <1>2 DEF AnswerIngests, LifecycleTypeOK
  <2>2. answer'.step = "acknowledge 1"
    BY <2>1 DEF Answering
  <2> QED BY <2>1, <2>2 DEF MergesOwn
<1>3. CASE Ingest
  <2>1. merged' = merged \cup {busy.delta} /\ step = "ingest"
    BY <1>3 DEF Ingest
  <2>2. busy # Nothing
    BY <1>1, <2>1, BusyIs
  <2>3. CASE Draining
    <3>1. busy.delta \in late \/ native.inst = owner[busy.delta]
      BY <1>1, <2>3 DEF DrainHolds
    <3> QED BY <2>1, <3>1 DEF MergesOwn
  <2>4. CASE ~Draining
    <3>1. busy.delta \in Queued
      BY <2>2, <2>4 DEF Queued
    <3>2. busy.delta \notin late => owner[busy.delta] = active /\ active # 0
      BY <1>1, <3>1, OwnIs, QueuedIs DEF Found
    <3>3. active # 0 => native.inst = active
      BY <1>1 DEF SessionRuns, Runs
    <3> QED BY <2>1, <3>2, <3>3 DEF MergesOwn
  <2> QED BY <2>3, <2>4
<1>4. CASE Main \/ Hydrate \/ MountFolder \/ UnmountFolder \/ IngestFails \/ IngestConflicts
  <2>1. merged' = merged
    BY <1>4 DEF Main, HandleStart, HandleStop, HandleResolve, AnswerStart, Hydrate, MountFolder,
                UnmountFolder, IngestFails, IngestConflicts, history
  <2> QED BY <2>1
<1>5. CASE Renderer \/ Begin \/ UNCHANGED allVars
  <2>1. merged' = merged
    BY <1>5 DEF Renderer, ReceiveStop, ReceiveStart, ReceiveNote, ReceiveAcknowledgement,
                ReceiveAnswer, RecordStart, RecordNote, Begin, allVars, history
  <2> QED BY <2>1
<1>6. CASE \/ \E e \in Mount : \/ StartSession(e) \/ EndStart(e)
                               \/ StopDrained(e) \/ SettleCleanup(e)
           \/ \E d \in Deltas : FindChange(d) \/ \E how \in Verdicts : Answer(d, how)
  <2>1. merged' = merged
    BY <1>6 DEF StartSession, EndStart, StopDrained, SettleCleanup, FindChange, Answer, history
  <2> QED BY <2>1
<1> QED BY <1>2, <1>3, <1>4, <1>5, <1>6 DEF LifecycleNext, RendererWork, Verdicts

(***************************************************************************)
(* The queue merges a change only while the session that found it runs:    *)
(* the stop of a cleanup waits for the delta that is being processed.      *)
(***************************************************************************)
THEOREM MergesBeforeStop == LifecycleSpec => MergedBeforeStop
BY LifecycleInvHolds, MergesInSession, PTL DEF LifecycleSpec, MergedBeforeStop, MergesOwn

-----------------------------------------------------------------------------
(***************************************************************************)
(* The queue of the folder is the channel of DeltaChannel.                 *)
(***************************************************************************)
\* What the refinement mapping makes of a variable.
Only(x) == [r \in {"folder"} |-> x]
ChannelSteps == [FolderQueue!Next]_(FolderQueue!vars)

LEMMA OnlyIs ==
    ASSUME NEW x, NEW y
    PROVE  Only(x)["folder"] = x /\ [Only(x) EXCEPT !["folder"] = y] = Only(y)
BY DEF Only

LEMMA ChannelSame == UNCHANGED <<chan, busy, held>> => ChannelSteps
BY DEF ChannelSteps, FolderQueue!vars

LEMMA ChannelFinish ==
    ASSUME LifecycleTypeOK, busy # Nothing, NEW holds \in BOOLEAN, Finish(holds)
    PROVE  ChannelSteps
<1>1. Only(busy') = [Only(busy) EXCEPT !["folder"] = Nothing] /\ Only(busy)["folder"] = busy
  BY OnlyIs DEF Finish
<1>2. Only(held') = [Only(held) EXCEPT !["folder"] = IF busy.dropped THEN held ELSE holds]
      /\ Only(held)["folder"] = held
  BY OnlyIs DEF Finish
<1>3. Only(chan') = Only(chan)
  BY DEF Finish
<1>4. FolderQueue!Finish("folder")
  BY <1>1, <1>2, <1>3 DEF FolderQueue!Finish, Only
<1> QED BY <1>4 DEF ChannelSteps, FolderQueue!Next

LEMMA ChannelDrop ==
    ASSUME LifecycleTypeOK, Drop
    PROVE  ChannelSteps
<1>1. Only(chan') = [Only(chan) EXCEPT !["folder"] = <<>>]
      /\ Only(held') = [Only(held) EXCEPT !["folder"] = FALSE]
  BY OnlyIs DEF Drop
<1> DEFINE dropped == IF busy = Nothing THEN Nothing ELSE [delta |-> busy.delta, dropped |-> TRUE]
<1>2. busy' = dropped
  <2>1. CASE busy = Nothing
    BY <2>1 DEF Drop
  <2>2. CASE busy # Nothing
    <3>1. busy \in Working /\ busy' = [busy EXCEPT !.dropped = TRUE]
      BY <2>2 DEF Drop, LifecycleTypeOK
    <3>2. busy' = [delta |-> busy.delta, dropped |-> TRUE]
      BY <3>1 DEF Working
    <3> QED BY <2>2, <3>2
  <2> QED BY <2>1, <2>2
<1> HIDE DEF dropped
<1>3. Only(busy)["folder"] = busy /\ Only(busy') = [Only(busy) EXCEPT !["folder"] = dropped]
  BY <1>2, OnlyIs
<1>4. FolderQueue!Drop("folder")
  BY <1>1, <1>3 DEF FolderQueue!Drop, Only, dropped
<1> QED BY <1>4 DEF ChannelSteps, FolderQueue!Next

LEMMA ChannelAccept ==
    ASSUME LifecycleTypeOK, NEW d \in Deltas, Accept(d), UNCHANGED <<busy, held>>
    PROVE  ChannelSteps
<1>1. Only(chan)["folder"] = chan /\ Only(chan') = [Only(chan) EXCEPT !["folder"] = Append(chan, d)]
  BY OnlyIs DEF Accept
<1>2. [x \in Deltas |-> "folder"][d] = "folder"
  OBVIOUS
<1>3. FolderQueue!Accept(d)
  BY <1>1, <1>2 DEF FolderQueue!Accept, Only
<1> QED BY <1>3 DEF ChannelSteps, FolderQueue!Next

LEMMA ChannelBegin ==
    ASSUME Begin
    PROVE  ChannelSteps
<1>1. busy = Nothing /\ ~held /\ chan # <<>> /\ held' = held /\ chan' = Tail(chan)
      /\ busy' = [delta |-> Head(chan), dropped |-> FALSE]
  BY DEF Begin
<1>2. /\ Only(chan)["folder"] = chan /\ Only(busy)["folder"] = busy /\ Only(held)["folder"] = held
      /\ Only(chan') = [Only(chan) EXCEPT !["folder"] = Tail(chan)]
      /\ Only(busy') = [Only(busy) EXCEPT !["folder"] = [delta |-> Head(chan), dropped |-> FALSE]]
      /\ Only(held') = Only(held)
  BY <1>1, OnlyIs
<1>3. FolderQueue!Start("folder")
  BY <1>1, <1>2 DEF FolderQueue!Start, FolderQueue!Idle, FolderQueue!Begin, Only
<1> QED BY <1>3 DEF ChannelSteps, FolderQueue!Next

LEMMA ChannelRelease ==
    ASSUME held' = FALSE, UNCHANGED <<chan, busy>>
    PROVE  ChannelSteps
<1>1. Only(held') = [Only(held) EXCEPT !["folder"] = FALSE]
      /\ Only(chan') = Only(chan) /\ Only(busy') = Only(busy)
  BY OnlyIs
<1>2. FolderQueue!Release("folder")
  BY <1>1 DEF FolderQueue!Release, Only
<1> QED BY <1>2 DEF ChannelSteps, FolderQueue!Next

LEMMA LifecycleChannel == LifecycleInv /\ [LifecycleNext]_allVars => ChannelSteps
<1> SUFFICES ASSUME LifecycleInv, [LifecycleNext]_allVars PROVE ChannelSteps
  OBVIOUS
<1>1. LifecycleTypeOK /\ Messages
  BY DEF LifecycleInv
<1>2. CASE MountFolder \/ UnmountFolder
  <2>1. Drop \/ UNCHANGED <<chan, busy, held>>
    BY <1>2 DEF MountFolder, UnmountFolder, CleanUp, queue
  <2> QED BY <1>1, <2>1, ChannelDrop, ChannelSame
<1>3. CASE RecordNote
  <2>1. /\ Accept(Head(records).delta) /\ UNCHANGED <<busy, held>>
        /\ records # <<>> /\ Head(records).kind = "note"
    BY <1>3 DEF RecordNote
  <2>2. Head(records).delta \in Deltas
    BY <1>1, <2>1, FirstRecord, RecordIs
  <2> QED BY <1>1, <2>1, <2>2, ChannelAccept
<1>4. CASE Begin
  BY <1>4, ChannelBegin
<1>5. CASE IngestFails \/ IngestConflicts \/ Ingest
  <2>1. busy # Nothing
    BY <1>1, <1>5, BusyIs DEF IngestFails, IngestConflicts, Ingest
  <2>2. (\E holds \in BOOLEAN : Finish(holds)) \/ UNCHANGED <<chan, busy, held>>
    BY <1>5 DEF IngestFails, IngestConflicts, Ingest
  <2> QED BY <1>1, <2>1, <2>2, ChannelFinish, ChannelSame
<1>6. CASE ReceiveAcknowledgement
  <2>1. Head(wire) \in UnderWay /\ Head(wire).kind = "resolve" /\ Head(wire).by = "queue"
    BY <1>1, <1>6, FirstMessage DEF ReceiveAcknowledgement, Received, UnderWay
  <2>2. busy # Nothing
    BY <1>1, <2>1, Unexpected, BusyIs DEF Expected, Acknowledging
  <2>3. (\E holds \in BOOLEAN : Finish(holds)) \/ UNCHANGED <<chan, busy, held>>
    BY <1>6 DEF ReceiveAcknowledgement
  <2> QED BY <1>1, <2>2, <2>3, ChannelFinish, ChannelSame
<1>7. CASE ReceiveAnswer
  <2>1. UNCHANGED <<chan, busy>> /\ (held' = FALSE \/ held' = held)
    BY <1>7 DEF ReceiveAnswer
  <2> QED BY <2>1, ChannelRelease, ChannelSame
<1>8. CASE \/ Hydrate \/ Main \/ ReceiveStop \/ ReceiveStart \/ ReceiveNote \/ RecordStart
           \/ AnswerIngests \/ UNCHANGED allVars
  <2>1. UNCHANGED <<chan, busy, held>>
    BY <1>8 DEF Hydrate, Main, HandleStart, HandleStop, HandleResolve, AnswerStart, ReceiveStop,
                ReceiveStart, ReceiveNote, RecordStart, AnswerIngests, allVars, queue
  <2> QED BY <2>1, ChannelSame
<1>9. CASE \/ \E e \in Mount : \/ StartSession(e) \/ EndStart(e)
                               \/ StopDrained(e) \/ SettleCleanup(e)
           \/ \E d \in Deltas : FindChange(d) \/ \E how \in Verdicts : Answer(d, how)
  <2>1. UNCHANGED <<chan, busy, held>>
    BY <1>9 DEF StartSession, EndStart, StopDrained, SettleCleanup, FindChange, Answer, queue
  <2> QED BY <2>1, ChannelSame
<1> QED BY <1>2, <1>3, <1>4, <1>5, <1>6, <1>7, <1>8, <1>9
        DEF LifecycleNext, Renderer, RendererWork, Verdicts

(***************************************************************************)
(* The queue of the folder, as its session uses it, is the channel that    *)
(* the queue objects implement.                                            *)
(***************************************************************************)
THEOREM LifecycleUsesChannel == LifecycleSpec => UsesChannel
<1>1. LifecycleInit => FolderQueue!Init
  BY DEF LifecycleInit, FolderQueue!Init
<1>2. LifecycleInv /\ [LifecycleNext]_allVars => [FolderQueue!Next]_(FolderQueue!vars)
  BY LifecycleChannel DEF ChannelSteps
<1> QED BY <1>1, <1>2, LifecycleInvHolds, PTL DEF LifecycleSpec, FolderQueue!Spec, UsesChannel

=============================================================================
