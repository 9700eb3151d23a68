------------------------------ MODULE DeltaQueue ------------------------------
(***************************************************************************)
(* The renderer's queue of external deltas (NativeProjectDeltaQueue): per  *)
(* project folder a queue object whose drain hands one delta at a time to  *)
(* process(), which merges it or opens a review.  A review, or an error,   *)
(* pauses the folder until it is resumed.  Closing the folder's session    *)
(* clears its queue: the object is retired, and a replacement waits until  *)
(* the retired object's drain has come to its end, as the stop of the      *)
(* native session does.                                                    *)
(*                                                                         *)
(* JavaScript runs each of these steps without interruption: a method of   *)
(* the queue, what follows when process() settles, and the callbacks of    *)
(* the promise clearRoot returns, each of which is a microtask of its own. *)
(***************************************************************************)
EXTENDS Integers, SequencesExt

CONSTANTS
    Root,
    Delta,
    RootOf,
    None,
    Queue,          \* the identities of queue objects; one not referred to is reused
    MaxRemembered,  \* how many delta ids are remembered (512 in the code)
    MaxItems        \* bound on the deltas waiting in one queue object

ASSUME ConstantsAssumption ==
    /\ RootOf \in [Delta -> Root]
    /\ None \notin Delta /\ None \notin Queue
    /\ None \notin [delta : Delta, dropped : BOOLEAN]
    /\ MaxRemembered \in Nat \ {0} /\ MaxItems \in Nat

VARIABLES
    queues,    \* the queue objects
    roots,     \* the current queue object of each folder, or None
    clearing,  \* the retired object whose drain the folder waits for, or None
    draining,  \* the retired objects whose clearing promise has not settled
    waiting,   \* <<q, c>>: q is to be scheduled when the clearing of c settles
    seen,      \* the remembered delta ids, oldest first
    stops      \* per folder being closed, what its stop waits for

vars == <<queues, roots, clearing, draining, waiting, seen, stops>>

\* A drain is running exactly while it awaits process() for a delta.
RootQueue == [root : Root, items : Seq(Delta), paused : BOOLEAN, aborted : BOOLEAN,
              working : Delta \cup {None}]

\* The stop of a session's native side waits for the promise clearRoot returned (None: at once).
\* Closing a session again before that waits for the later promise.
NoStop == [pending |-> FALSE, after |-> None]
Stop == [pending : BOOLEAN, after : Queue \cup {None}]

QueuesOK ==
    /\ queues \in [Queue -> RootQueue]
    /\ roots \in [Root -> Queue \cup {None}]
    /\ clearing \in [Root -> Queue \cup {None}]
    /\ draining \subseteq Queue
    /\ waiting \subseteq Queue \X Queue
    /\ stops \in [Root -> Stop]

TypeOK == QueuesOK /\ seen \in Seq(Delta) /\ Len(seen) <= MaxRemembered

NewQueue(r) == [root |-> r, items |-> <<>>, paused |-> FALSE, aborted |-> FALSE,
                working |-> None]

Init ==
    /\ \E r \in Root : queues = [q \in Queue |-> NewQueue(r)]
    /\ roots = [r \in Root |-> None]
    /\ clearing = [r \in Root |-> None]
    /\ draining = {}
    /\ waiting = {}
    /\ seen = <<>>
    /\ stops = [r \in Root |-> NoStop]

-----------------------------------------------------------------------------
(* Drains *)

\* No variable, running drain or promise refers to q.
Fresh(q) ==
    /\ \A r \in Root : roots[r] # q /\ stops[r].after # q
    /\ queues[q].working = None /\ q \notin draining
    /\ \A pair \in waiting : pair[1] # q /\ pair[2] # q

Blocked(queue) == queue.paused \/ queue.aborted \/ queue.items = <<>>

\* The loop of a drain, at its head: the next delta is given to process(), or the drain ends.
Looped(queue) ==
    IF Blocked(queue)
    THEN [queue EXCEPT !.working = None]
    ELSE [queue EXCEPT !.working = Head(queue.items), !.items = Tail(queue.items)]

\* A drain that ends deletes whatever queue the folder has.
RootsAfter_Replacement(q, queue, current) ==
    IF ~queue.paused /\ queue.items = <<>>
    THEN [current EXCEPT ![queue.root] = None]
    ELSE current

\* A drain that ends with nothing left to do deletes its queue, if it is still the current one.
RootsAfter(q, queue, current) ==
    IF ~queue.paused /\ queue.items = <<>> /\ current[queue.root] = q
    THEN [current EXCEPT ![queue.root] = None]
    ELSE current

Drain(q, queue, current) ==
    IF queue.working # None \/ queue.paused \/ queue.aborted
    THEN /\ queues' = [queues EXCEPT ![q] = queue]
         /\ roots' = current
    ELSE /\ queues' = [queues EXCEPT ![q] = Looped(queue)]
         /\ roots' = IF Blocked(queue) THEN RootsAfter(q, queue, current) ELSE current

\* A drain put off is not scheduled again.
ScheduleDrain_Forgotten(q, queue, current) ==
    IF clearing[queue.root] # None
    THEN queues' = [queues EXCEPT ![q] = queue] /\ roots' = current /\ UNCHANGED waiting
    ELSE Drain(q, queue, current) /\ UNCHANGED waiting

\* q, whose state becomes queue, is drained now, or when the folder's clearing has settled.
ScheduleDrain(q, queue, current) ==
    LET c == clearing[queue.root]
    IN  IF c # None
        THEN /\ waiting' = waiting \cup {<<q, c>>}
             /\ queues' = [queues EXCEPT ![q] = queue]
             /\ roots' = current
        ELSE /\ Drain(q, queue, current)
             /\ UNCHANGED waiting

-----------------------------------------------------------------------------
(* The methods of the queue *)

\* When the memory is full, the newest id is the one that goes.
Remember_EvictsNewest(d) ==
    LET ids == Append(seen, d)
    IN  IF Len(ids) > MaxRemembered THEN seen ELSE ids

Remember(d) ==
    LET ids == Append(seen, d)
    IN  IF Len(ids) > MaxRemembered THEN Tail(ids) ELSE ids

\* Those of the ids that belong to the given folders, in their order.
OfRoots(ids, rs) ==
    FoldLeft(LAMBDA kept, d : IF RootOf[d] \in rs THEN Append(kept, d) ELSE kept, <<>>, ids)

ForgetRoot(r) == OfRoots(seen, Root \ {r})

IsSeen(d) == \E i \in DOMAIN seen : seen[i] = d

\* The folder's queue object, or a new one.
QueueFor(q, r) == IF roots[r] = None THEN Fresh(q) ELSE roots[r] = q

Enqueue(d) ==
    LET r == RootOf[d]
    IN  /\ ~IsSeen(d)
        /\ seen' = Remember(d)
        /\ \E q \in Queue :
               LET root == IF roots[r] = None THEN NewQueue(r) ELSE queues[q]
               IN  /\ QueueFor(q, r)
                   /\ Len(root.items) < MaxItems
                   /\ ScheduleDrain(q, [root EXCEPT !.items = Append(@, d)],
                                    [roots EXCEPT ![r] = q])
        /\ UNCHANGED <<clearing, draining, stops>>

\* The answer to a review was carried out.
Resume(r) ==
    /\ roots[r] # None
    /\ ScheduleDrain(roots[r], [queues[roots[r]] EXCEPT !.paused = FALSE], roots)
    /\ UNCHANGED <<clearing, draining, seen, stops>>

\* Clearing a folder without a current queue returns nothing to wait for.
ClearingOf_OnlyCurrent(r) ==
    IF roots[r] # None /\ queues[roots[r]].working # None THEN roots[r] ELSE None

\* What clearRoot returns: the promise the caller awaits, None for undefined.
ClearingOf(r) ==
    IF roots[r] # None /\ queues[roots[r]].working # None THEN roots[r] ELSE clearing[r]

\* The lifecycle of the folder's session ends; its stop follows when the promise settles.
ClearRoot(r) ==
    LET q == roots[r]
        running == q # None /\ queues[q].working # None
    IN  /\ seen' = ForgetRoot(r)
        /\ queues' = IF q = None THEN queues
                     ELSE [queues EXCEPT ![q].aborted = TRUE, ![q].items = <<>>,
                                         ![q].paused = FALSE]
        /\ roots' = [roots EXCEPT ![r] = None]
        /\ clearing' = IF running THEN [clearing EXCEPT ![r] = q] ELSE clearing
        /\ draining' = IF running THEN draining \cup {q} ELSE draining
        /\ stops' = [stops EXCEPT ![r] = [pending |-> TRUE, after |-> ClearingOf(r)]]
        /\ UNCHANGED waiting

-----------------------------------------------------------------------------
(* What runs later *)

\* The state of a queue object when process() has settled: an error pauses as a review does.
Judged(queue, disposition) ==
    IF queue.aborted THEN queue
    ELSE [queue EXCEPT !.paused = disposition \in {"pause", "throw"}]

Settle(q) ==
    /\ queues[q].working # None
    /\ \E disposition \in {"continue", "pause", "throw"} :
           LET queue == Judged(queues[q], disposition)
           IN  /\ queues' = [queues EXCEPT ![q] = Looped(queue)]
               /\ roots' = IF Blocked(queue) THEN RootsAfter(q, queue, roots) ELSE roots
    /\ UNCHANGED <<clearing, draining, waiting, seen, stops>>

\* The drain of a retired object has come to its end.
FinishClearing(q) ==
    /\ q \in draining /\ queues[q].working = None
    /\ draining' = draining \ {q}
    /\ clearing' = [r \in Root |-> IF clearing[r] = q THEN None ELSE clearing[r]]
    /\ UNCHANGED <<queues, roots, waiting, seen, stops>>

\* A drain put off until then is scheduled, if its object is still the current one.
ScheduleWaiting(q, c) ==
    /\ <<q, c>> \in waiting /\ c \notin draining
    /\ LET others == waiting \ {<<q, c>>}
           root == queues[q].root
       IN  IF roots[root] # q
           THEN waiting' = others /\ UNCHANGED <<queues, roots>>
           ELSE IF clearing[root] # None
           THEN waiting' = others \cup {<<q, clearing[root]>>} /\ UNCHANGED <<queues, roots>>
           ELSE waiting' = others /\ Drain(q, queues[q], roots)
    /\ UNCHANGED <<clearing, draining, seen, stops>>

\* The promise clearRoot returned has settled, or there was none.
MayStop(r) == stops[r].pending /\ stops[r].after \notin draining

StopSession(r) ==
    /\ MayStop(r)
    /\ stops' = [stops EXCEPT ![r] = NoStop]
    /\ UNCHANGED <<queues, roots, clearing, draining, waiting, seen>>

Next ==
    \/ \E d \in Delta : Enqueue(d)
    \/ \E r \in Root : Resume(r) \/ ClearRoot(r) \/ StopSession(r)
    \/ \E q \in Queue : Settle(q) \/ FinishClearing(q)
    \/ \E pair \in waiting : ScheduleWaiting(pair[1], pair[2])

Spec == Init /\ [][Next]_vars

\* process() settles, and settled promises run their callbacks.
Fairness ==
    /\ \A q \in Queue : WF_vars(Settle(q)) /\ WF_vars(FinishClearing(q))
    /\ \A q, c \in Queue : WF_vars(ScheduleWaiting(q, c))

FairSpec == Spec /\ Fairness

-----------------------------------------------------------------------------
(* Properties *)

Workers(r) == {q \in Queue : queues[q].working # None /\ queues[q].root = r}

(***************************************************************************)
(* Two deltas of one folder are never processed at the same time, also     *)
(* when a cleared queue is replaced while its drain is running.            *)
(***************************************************************************)
OneDrain == \A r \in Root : \A p, q \in Workers(r) : p = q

(***************************************************************************)
(* The native session of a closed folder is stopped only when no cleared   *)
(* delta of the folder is being processed, however often it was closed and *)
(* its queue replaced meanwhile (clearRoot's promise).                     *)
(***************************************************************************)
StopAfterDrain ==
    \A r \in Root : MayStop(r) => \A q \in Workers(r) : ~queues[q].aborted

\* The deltas of the folder's current queue that were begun or wait, oldest first.
Work(r) ==
    IF roots[r] = None THEN <<>>
    ELSE LET queue == queues[roots[r]]
         IN  (IF queue.working = None THEN <<>> ELSE <<queue.working>>) \o queue.items

Remembered(r) == OfRoots(seen, {r})

(***************************************************************************)
(* What a folder's queue still has to do and the ids remembered of it are  *)
(* two ends of the same sequence of accepted deltas, and no id is          *)
(* remembered twice: a delta that is queued twice was forgotten between.   *)
(***************************************************************************)
MemoryMatchesQueue ==
    /\ \A i, j \in DOMAIN seen : seen[i] = seen[j] => i = j
    /\ \A r \in Root : IsSuffix(Work(r), Remembered(r)) \/ IsSuffix(Remembered(r), Work(r))

\* The memory is bounded besides, and the queue objects are as they should be.
MemoryExact == TypeOK /\ MemoryMatchesQueue

\* The channel of DeltaChannel these objects amount to.
Chan == [r \in Root |-> IF roots[r] = None THEN <<>> ELSE queues[roots[r]].items]

Busy ==
    [r \in Root |->
        IF Workers(r) = {} THEN None
        ELSE LET q == CHOOSE q \in Workers(r) : TRUE
             IN  [delta |-> queues[q].working, dropped |-> queues[q].aborted]]

Held == [r \in Root |-> roots[r] # None /\ queues[roots[r]].paused]

Channel == INSTANCE DeltaChannel WITH chan <- Chan, busy <- Busy, held <- Held

(***************************************************************************)
(* The queue objects of a folder, retired and replaced, amount to one FIFO *)
(* channel: nothing is begun out of order, while another delta is in       *)
(* progress, while a review holds the folder, or after it was cleared, and *)
(* the verdict on a cleared delta does not hold the queue that replaced    *)
(* its own.                                                                *)
(***************************************************************************)
ImplementsChannel == Channel!Spec

(***************************************************************************)
(* A queued delta does not wait for ever: it is begun, or cleared, or its  *)
(* own folder is paused; the reviews of other folders do not matter.       *)
(***************************************************************************)
Waits(d, q) ==
    /\ roots[RootOf[d]] = q /\ ~queues[q].paused
    /\ \E i \in DOMAIN queues[q].items : queues[q].items[i] = d

NoneWaitsForEver ==
    \A d \in Delta, q \in Queue : Waits(d, q) ~> (queues[q].working = d \/ ~Waits(d, q))

\* A closed folder's stop does not wait for ever: what clearRoot returns settles in the end.
ClearingSettles == \A q \in Queue : q \in draining ~> q \notin draining

\* No callback is lost: neither a delta nor a stop waits for one for ever.
NothingStuck == NoneWaitsForEver /\ ClearingSettles

=============================================================================
