-------------------------- MODULE DocumentSavesProofs --------------------------
(***************************************************************************)
(* Theorems about DocumentSaves, for any number of passages, texts, edits  *)
(* and failures: the type invariant; what reaches the disk and what an     *)
(* acknowledgement accepts, when every edit waits for its save (an editor  *)
(* window's edits and their retries), and when edits are of every kind but *)
(* none is retried; and, in the first case, what stays retryable.          *)
(***************************************************************************)
EXTENDS DocumentSaves, TLAPS, SequenceTheorems

-----------------------------------------------------------------------------
(* The queue as a sequence *)

LEMMA QueueAppend ==
    ASSUME NEW q \in Seq(Save), NEW s \in Save
    PROVE  /\ Append(q, s) \in Seq(Save)
           /\ DOMAIN Append(q, s) = 1 .. Len(q) + 1
           /\ \A i \in DOMAIN q : i \in 1 .. Len(q) + 1 /\ Append(q, s)[i] = q[i]
           /\ Append(q, s)[Len(q) + 1] = s
BY AppendProperties

LEMMA QueueTail ==
    ASSUME NEW q \in Seq(Save), q # <<>>
    PROVE  /\ Tail(q) \in Seq(Save)
           /\ 1 \in DOMAIN q /\ Head(q) = q[1] /\ Head(q) \in Save
           /\ \A i \in DOMAIN Tail(q) : i + 1 \in DOMAIN q /\ Tail(q)[i] = q[i + 1]
           /\ \A i \in DOMAIN q : i > 1 => i - 1 \in DOMAIN Tail(q) /\ Tail(q)[i - 1] = q[i]
BY HeadTailProperties

-----------------------------------------------------------------------------
(* Types.  A receipt takes its text from a save somebody waited for, which *)
(* therefore has one for the passage it is about.                          *)

BarrierTexts ==
    \A i \in DOMAIN queue :
        queue[i].barrier => \A p \in queue[i].target : queue[i].text[p] \in Text

TypeInv == TypeOK /\ BarrierTexts

LEMMA OnlyUpdateType ==
    ASSUME NEW p \in Passage, NEW t \in Text
    PROVE  OnlyUpdate(p, t) \in Updates /\ OnlyUpdate(p, t)[p] = t
BY DEF OnlyUpdate, Updates

LEMMA NoUpdatesType == NoUpdates \in Updates
BY DEF NoUpdates, Updates

\* A save that is queued keeps the queue's type.
LEMMA EnqueueType ==
    ASSUME TypeInv, NEW save \in Save, Enqueue(save),
           save.barrier => \A p \in save.target : save.text[p] \in Text
    PROVE  queue' \in Seq(Save) /\ BarrierTexts' /\ queue' # <<>>
<1>1. queue \in Seq(Save)
  BY DEF TypeInv, TypeOK
<1>2. queue' \in Seq(Save) /\ DOMAIN queue' = 1 .. Len(queue) + 1
  BY <1>1, QueueAppend DEF Enqueue
<1>3. ASSUME NEW i \in DOMAIN queue'
      PROVE  (i \in DOMAIN queue /\ queue'[i] = queue[i]) \/ queue'[i] = save
  BY <1>1, <1>2, QueueAppend DEF Enqueue
<1> QED BY <1>2, <1>3 DEF TypeInv, BarrierTexts

LEMMA DequeueType ==
    ASSUME TypeInv, queue # <<>>, queue' = Dequeued(queue)
    PROVE  queue' \in Seq(Save) /\ BarrierTexts'
<1>1. queue \in Seq(Save)
  BY DEF TypeInv, TypeOK
<1> QED BY <1>1, QueueTail DEF TypeInv, BarrierTexts, Dequeued

LEMMA ActiveType ==
    ASSUME TypeInv, queue # <<>>
    PROVE  /\ Active \in Save /\ Active = queue[1] /\ 1 \in DOMAIN queue
           /\ Active.barrier => \A p \in Active.target : Active.text[p] \in Text
BY QueueTail DEF TypeInv, TypeOK, Active, BarrierTexts

LEMMA InitType == Init => TypeInv
BY ConstantsAssumption DEF Init, TypeInv, TypeOK, BarrierTexts, Documents, Revision

LEMMA ApplyType ==
    ASSUME TypeInv, NEW p \in Passage, NEW t \in Text, NEW full \in BOOLEAN,
           NEW barrier \in BOOLEAN, Apply(p, t, full, barrier), ~(full /\ barrier)
    PROVE  TypeInv'
<1> DEFINE save == [revision |-> revision + 1, target |-> {p}, full |-> full,
                    text |-> IF full THEN NoUpdates ELSE OnlyUpdate(p, t),
                    barrier |-> barrier, retry |-> FALSE]
<1>1. revision' \in Revision /\ revision' = revision + 1
  BY ConstantsAssumption DEF Apply, TypeInv, TypeOK, Revision
<1>2. save \in Save
  BY <1>1, OnlyUpdateType, NoUpdatesType DEF Save
<1>3. save.barrier => \A q \in save.target : save.text[q] \in Text
  BY OnlyUpdateType
<1>4. Enqueue(save)
  BY DEF Apply
<1> HIDE DEF save
<1>5. queue' \in Seq(Save) /\ BarrierTexts' /\ queue' # <<>>
  BY <1>2, <1>3, <1>4, EnqueueType
<1>6. doc' \in Documents
  BY DEF Apply, TypeInv, TypeOK, Documents
<1> QED BY <1>1, <1>5, <1>6 DEF Apply, TypeInv, TypeOK, history

LEMMA RetryType ==
    ASSUME TypeInv, NEW p \in Passage, RetryPersistence(p)
    PROVE  TypeInv'
<1> DEFINE save == [revision |-> receipts[p].revision, target |-> {p},
                    text |-> OnlyUpdate(p, receipts[p].text), full |-> FALSE,
                    barrier |-> TRUE, retry |-> TRUE]
<1>1. receipts[p] \in Receipt
  BY DEF RetryPersistence, TypeInv, TypeOK
<1>2. receipts[p].revision \in Revision /\ receipts[p].text \in Text
  BY <1>1 DEF Receipt
<1>3. save \in Save
  BY <1>2, OnlyUpdateType DEF Save
<1>4. save.barrier => \A q \in save.target : save.text[q] \in Text
  BY <1>2, OnlyUpdateType
<1>5. Enqueue(save)
  BY DEF RetryPersistence
<1> HIDE DEF save
<1>6. queue' \in Seq(Save) /\ BarrierTexts' /\ queue' # <<>>
  BY <1>3, <1>4, <1>5, EnqueueType
<1> QED BY <1>6 DEF RetryPersistence, TypeInv, TypeOK, history

\* The steps of the active save that only change what it is doing.
LEMMA WorkType ==
    ASSUME TypeInv,
           StartSave \/ Materialize \/ RematerializeOnce \/ FallBackToFull
    PROVE  TypeInv'
<1>1. ASSUME NEW a \in {1, 2} PROVE Materializing(a) \in Work
  BY NoUpdatesType DEF Materializing, Work, TypeInv, TypeOK
<1>2. ASSUME NEW full \in BOOLEAN, NEW text \in Updates PROVE Calling(full, text) \in Work
  BY DEF Calling, Work, TypeInv, TypeOK
<1>3. doc \in Updates
  BY DEF TypeInv, TypeOK, Documents, Updates
<1>4. queue # <<>>
  BY DEF StartSave, Materialize, RematerializeOnce, FallBackToFull, TypeInv, TypeOK
<1>5. Active.text \in Updates
  BY <1>4, ActiveType DEF Save
<1>6. work' \in Work
  <2>1. CASE StartSave
    BY <2>1, <1>1, <1>2, <1>5 DEF StartSave
  <2>2. CASE Materialize
    BY <2>2, <1>2, <1>3 DEF Materialize
  <2>3. CASE RematerializeOnce \/ FallBackToFull
    BY <2>3, <1>1 DEF RematerializeOnce, FallBackToFull
  <2> QED BY <2>1, <2>2, <2>3
<1>7. UNCHANGED <<doc, saved, revision, disk, queue, receipts, status, acks, failures, history>>
  BY DEF StartSave, Materialize, RematerializeOnce, FallBackToFull
<1> QED BY <1>4, <1>6, <1>7 DEF TypeInv, TypeOK, BarrierTexts, history

LEMMA CompleteSaveType == ASSUME TypeInv, CompleteSave PROVE TypeInv'
<1>1. queue # <<>> /\ work \in Work
  BY DEF CompleteSave, TypeInv, TypeOK
<1>2. queue' \in Seq(Save) /\ BarrierTexts'
  BY <1>1, DequeueType DEF CompleteSave
<1>3. Active.revision \in Revision /\ Active.revision \in Nat
  BY <1>1, ActiveType, ConstantsAssumption DEF Save, Revision
<1>4. disk' \in Documents
  BY <1>1 DEF CompleteSave, TypeInv, TypeOK, Documents, Work, Updates
<1>5. receipts' \in [Passage -> Receipt \cup {None}]
  BY DEF CompleteSave, Cleared, TypeInv, TypeOK
<1>6. wrote' \in [Passage -> Nat] /\ failed' \subseteq Passage
  BY <1>3 DEF CompleteSave, TypeInv, TypeOK
<1>7. status' \in Revision \cup {None} /\ work' = None
  BY <1>3 DEF CompleteSave
<1> QED BY <1>2, <1>4, <1>5, <1>6, <1>7 DEF CompleteSave, TypeInv, TypeOK

LEMMA FailedType ==
    ASSUME TypeInv, queue # <<>>, Failed, failures' \in 0 .. MaxFailures
    PROVE  TypeInv'
<1>1. queue' \in Seq(Save) /\ BarrierTexts'
  BY DequeueType DEF Failed
<1>2. receipts' \in [Passage -> Receipt \cup {None}]
  BY ActiveType DEF Failed, Registered, Receipt, Save, TypeInv, TypeOK
<1>3. failed' \subseteq Passage
  BY ActiveType DEF Failed, Save, TypeInv, TypeOK
<1> QED BY <1>1, <1>2, <1>3 DEF Failed, TypeInv, TypeOK

LEMMA FailuresType ==
    ASSUME TypeInv, FailSave \/ FailMaterialize
    PROVE  queue # <<>> /\ Failed /\ failures' \in 0 .. MaxFailures
BY ConstantsAssumption DEF FailSave, FailMaterialize, TypeInv, TypeOK

LEMMA NextType == TypeInv /\ [Next]_vars => TypeInv'
<1> SUFFICES ASSUME TypeInv, [Next]_vars PROVE TypeInv'
  OBVIOUS
<1>1. ASSUME NEW p \in Passage, NEW t \in Text,
             PersistedEdit(p, t) \/ PlainEdit(p, t) \/ BroadEdit(p, t)
      PROVE  TypeInv'
  BY <1>1, ApplyType DEF PersistedEdit, PlainEdit, BroadEdit
<1>2. CASE NotifySaved
  BY <1>2 DEF NotifySaved, TypeInv, TypeOK, BarrierTexts, history
<1>3. ASSUME NEW r \in acks, AcknowledgeSaved(r) PROVE TypeInv'
  BY <1>3 DEF AcknowledgeSaved, TypeInv, TypeOK, BarrierTexts, history
<1>4. CASE UNCHANGED vars
  BY <1>4 DEF vars, TypeInv, TypeOK, BarrierTexts
<1>5. CASE FailSave \/ FailMaterialize
  BY <1>5, FailuresType, FailedType
<1> QED BY <1>1, <1>2, <1>3, <1>4, <1>5, RetryType, WorkType, CompleteSaveType
     DEF Next, SaveStep

LEMMA TypeInvariant == Spec => []TypeInv
BY InitType, NextType, PTL DEF Spec

\* The queue, the save at work, the receipts and the acknowledgements keep
\* their shape under every interleaving of edits, saves and retries.
THEOREM TypeCorrect == Spec => []TypeOK
<1>1. TypeInv => TypeOK
  BY DEF TypeInv
<1> QED BY <1>1, TypeInvariant, PTL

-----------------------------------------------------------------------------
(* The invariant: the queue, the save at work and the receipts, each       *)
(* related to the document.                                                *)

SaveOf(i, p) == i \in DOMAIN queue /\ queue[i].target = {p}

\* Every queued save carries the document's text of one passage, and no two
\* concern the same one.
QueueOfTexts ==
    /\ \A i \in DOMAIN queue :
         /\ queue[i].barrier /\ ~queue[i].full
         /\ \E p \in Passage : /\ queue[i].target = {p}
                               /\ queue[i].text = OnlyUpdate(p, doc[p])
    /\ \A i, j \in DOMAIN queue : queue[i].target = queue[j].target => i = j

\* Nothing written or refused so far is newer than an edit that is queued.
Older(r) == \A i \in DOMAIN queue : ~queue[i].retry => r < queue[i].revision

RevisionsInOrder ==
    /\ \A i, j \in DOMAIN queue :
         i < j /\ ~queue[i].retry /\ ~queue[j].retry => queue[i].revision < queue[j].revision
    /\ \A i \in DOMAIN queue : queue[i].revision <= revision
    /\ \A r \in acks : r <= revision /\ Older(r)
    /\ status # None => status <= revision /\ Older(status)
    /\ \A p \in Passage : receipts[p] # None =>
         receipts[p].revision <= revision /\ Older(receipts[p].revision)

\* A receipt holds the document's text, until an edit of the passage is queued;
\* a queued retry is that of its receipt.
ReceiptsOfTexts ==
    /\ \A p \in Passage : receipts[p] # None /\ ~AwaitsSave(p) => receipts[p].text = doc[p]
    /\ \A i \in DOMAIN queue, p \in Passage :
         SaveOf(i, p) /\ queue[i].retry =>
            /\ receipts[p] # None
            /\ receipts[p].revision = queue[i].revision
            /\ receipts[p].text = doc[p]

\* An edit of p is queued behind the active save; or is queued at all.
EditBehind(p) == \E i \in DOMAIN queue : i > 1 /\ SaveOf(i, p) /\ ~queue[i].retry
EditQueued(p) == \E i \in DOMAIN queue : SaveOf(i, p) /\ ~queue[i].retry

\* The active save writes its passage's newest text; what else a whole-story
\* save writes is the newest text too, or an edit behind it will replace it.
WorkOfTexts ==
    work # None /\ work.step = "call" =>
        \A p \in Passage :
            /\ SaveOf(1, p) => work.text[p] = doc[p]
            /\ work.text[p] \in {None, doc[p]} \/ EditBehind(p)

DiskOfTexts == \A p \in Passage \ failed : disk[p] = doc[p] \/ EditQueued(p)

SavesInv ==
    /\ QueueOfTexts /\ RevisionsInOrder /\ ReceiptsOfTexts
    /\ WorkOfTexts /\ DiskOfTexts /\ FailedTextRetryable

SavedInv == TypeInv /\ SavesInv

LEMMA QueuedRevision ==
    ASSUME TypeInv, NEW i \in DOMAIN queue
    PROVE  queue[i] \in Save /\ queue[i].revision \in Nat
<1>1. queue \in Seq(Save)
  BY DEF TypeInv, TypeOK
<1>2. queue[i] \in Save
  BY <1>1
<1>3. Revision \subseteq Nat
  BY ConstantsAssumption DEF Revision
<1> QED BY <1>2, <1>3 DEF Save

LEMMA AwaitsQueued ==
    ASSUME QueueOfTexts, NEW p \in Passage
    PROVE  AwaitsSave(p) <=> \E i \in DOMAIN queue : SaveOf(i, p)
BY DEF QueueOfTexts, AwaitsSave, SaveOf

\* A save joins the queue: that of an edit, which is newer than all before it,
\* or the retry of a receipt.
LEMMA EnqueueKeeps ==
    ASSUME SavedInv, NEW p \in Passage, ~AwaitsSave(p),
           NEW save \in Save, Enqueue(save),
           save.target = {p}, save.barrier, ~save.full,
           save.text = OnlyUpdate(p, doc'[p]),
           \A q \in Passage \ {p} : doc'[q] = doc[q],
           revision <= revision', save.revision <= revision', revision' \in Nat,
           ~save.retry => revision < save.revision,
           save.retry => /\ doc' = doc
                         /\ receipts[p] # None
                         /\ receipts[p].revision = save.revision
                         /\ receipts[p].text = doc[p],
           UNCHANGED <<disk, work, receipts, status, acks, failed>>
    PROVE  SavesInv'
<1> DEFINE n == Len(queue) + 1
<1>1. queue \in Seq(Save) /\ n \in Nat /\ DOMAIN queue = 1 .. Len(queue) /\ Len(queue) \in Nat
  BY DEF SavedInv, TypeInv, TypeOK
<1>2. /\ DOMAIN queue' = 1 .. n /\ n \in DOMAIN queue' /\ queue'[n] = save
      /\ \A i \in DOMAIN queue : i \in DOMAIN queue' /\ i < n /\ queue'[i] = queue[i]
      /\ \A i \in DOMAIN queue' : i # n => i \in DOMAIN queue
  BY <1>1, QueueAppend DEF Enqueue
<1>3. \A i \in DOMAIN queue : queue[i].target # {p}
  BY AwaitsQueued DEF SavedInv, SavesInv, SaveOf
<1>4. \A i \in DOMAIN queue : queue[i].revision \in Nat
  BY QueuedRevision DEF SavedInv
<1>5. revision \in Nat /\ save.revision \in Nat
  BY ConstantsAssumption DEF SavedInv, TypeInv, TypeOK, Save, Revision
<1> HIDE DEF n
<1>6. QueueOfTexts'
  <2>1. \A i \in DOMAIN queue' :
          /\ queue'[i].barrier /\ ~queue'[i].full
          /\ \E q \in Passage : /\ queue'[i].target = {q}
                                /\ queue'[i].text = OnlyUpdate(q, doc'[q])
    <3> SUFFICES ASSUME NEW i \in DOMAIN queue'
                 PROVE  /\ queue'[i].barrier /\ ~queue'[i].full
                        /\ \E q \in Passage : /\ queue'[i].target = {q}
                                              /\ queue'[i].text = OnlyUpdate(q, doc'[q])
      OBVIOUS
    <3>1. CASE i = n
      BY <3>1, <1>2
    <3>2. CASE i # n
      <4>1. i \in DOMAIN queue /\ queue'[i] = queue[i]
        BY <3>2, <1>2
      <4>2. PICK q \in Passage : queue[i].target = {q} /\ queue[i].text = OnlyUpdate(q, doc[q])
        BY <4>1 DEF SavedInv, SavesInv, QueueOfTexts
      <4>3. q # p
        BY <4>1, <4>2, <1>3
      <4> QED BY <4>1, <4>2, <4>3 DEF SavedInv, SavesInv, QueueOfTexts
    <3> QED BY <3>1, <3>2
  <2>2. \A i, j \in DOMAIN queue' : queue'[i].target = queue'[j].target => i = j
    BY <1>2, <1>3 DEF SavedInv, SavesInv, QueueOfTexts
  <2> QED BY <2>1, <2>2 DEF QueueOfTexts
<1>7. ASSUME NEW r \in Nat, r <= revision, Older(r) PROVE r <= revision' /\ Older(r)'
  BY <1>2, <1>5, <1>7 DEF Older
<1>8. RevisionsInOrder'
  <2>1. \A i, j \in DOMAIN queue' :
          i < j /\ ~queue'[i].retry /\ ~queue'[j].retry => queue'[i].revision < queue'[j].revision
    BY <1>1, <1>2, <1>4, <1>5 DEF SavedInv, SavesInv, RevisionsInOrder
  <2>2. \A i \in DOMAIN queue' : queue'[i].revision <= revision'
    BY <1>2, <1>4, <1>5 DEF SavedInv, SavesInv, RevisionsInOrder
  <2>3. \A r \in acks : r \in Nat
    BY ConstantsAssumption DEF SavedInv, TypeInv, TypeOK, Revision
  <2>4. status # None => status \in Nat
    BY ConstantsAssumption DEF SavedInv, TypeInv, TypeOK, Revision
  <2>5. \A q \in Passage : receipts[q] # None => receipts[q].revision \in Nat
    BY ConstantsAssumption DEF SavedInv, TypeInv, TypeOK, Revision, Receipt
  <2>6. \A r \in acks' : r <= revision' /\ Older(r)'
    BY <2>3, <1>7 DEF SavedInv, SavesInv, RevisionsInOrder
  <2>7. status' # None => status' <= revision' /\ Older(status)'
    BY <2>4, <1>7 DEF SavedInv, SavesInv, RevisionsInOrder, Older
  <2>8. \A q \in Passage : receipts'[q] # None =>
          receipts'[q].revision <= revision' /\ Older(receipts[q].revision)'
    BY <2>5, <1>7 DEF SavedInv, SavesInv, RevisionsInOrder, Older
  <2> QED BY <2>1, <2>2, <2>6, <2>7, <2>8 DEF RevisionsInOrder
<1>9. ASSUME NEW q \in Passage, AwaitsSave(q) \/ q = p PROVE AwaitsSave(q)'
  BY <1>2, <1>9 DEF AwaitsSave
<1>10. ReceiptsOfTexts'
  BY <1>2, <1>3, <1>9 DEF SavedInv, SavesInv, ReceiptsOfTexts, SaveOf
<1>11. ASSUME NEW q \in Passage, EditBehind(q) PROVE EditBehind(q)'
  BY <1>2, <1>11 DEF EditBehind, SaveOf
<1>12. ASSUME NEW q \in Passage, EditQueued(q) PROVE EditQueued(q)'
  BY <1>2, <1>12 DEF EditQueued, SaveOf
<1>13. ~save.retry => EditQueued(p)'
  BY <1>2 DEF EditQueued, SaveOf
<1>14. WorkOfTexts'
  <2> SUFFICES ASSUME work # None, work.step = "call", NEW q \in Passage
               PROVE  /\ SaveOf(1, q)' => work.text[q] = doc'[q]
                      /\ work.text[q] \in {None, doc'[q]} \/ EditBehind(q)'
    BY DEF WorkOfTexts
  <2>1. 1 \in DOMAIN queue /\ n > 1
    BY <1>1, QueueTail DEF SavedInv, TypeInv, TypeOK, n
  <2>2. /\ SaveOf(1, q) => work.text[q] = doc[q]
        /\ work.text[q] \in {None, doc[q]} \/ EditBehind(q)
    BY DEF SavedInv, SavesInv, WorkOfTexts
  <2>3. SaveOf(1, q)' => SaveOf(1, q) /\ q # p
    BY <2>1, <1>2, <1>3 DEF SaveOf
  <2>4. q = p /\ ~save.retry => EditBehind(q)'
    BY <2>1, <1>2 DEF EditBehind, SaveOf
  <2> QED BY <2>2, <2>3, <2>4, <1>11
<1>15. DiskOfTexts'
  BY <1>12, <1>13 DEF SavedInv, SavesInv, DiskOfTexts
<1>16. FailedTextRetryable'
  BY <1>9 DEF SavedInv, SavesInv, FailedTextRetryable, TypeInv, TypeOK
<1> QED BY <1>6, <1>8, <1>10, <1>14, <1>15, <1>16 DEF SavesInv

\* The active save leaves the queue.
LEMMA DequeueKeeps ==
    ASSUME SavedInv, queue # <<>>, queue' = Dequeued(queue), doc' = doc
    PROVE  /\ QueueOfTexts'
           /\ \A i \in DOMAIN queue' : i + 1 \in DOMAIN queue /\ queue'[i] = queue[i + 1]
           /\ \A p \in Passage : EditBehind(p) <=> EditQueued(p)'
           /\ \A p \in Passage : ~SaveOf(1, p) => (AwaitsSave(p) <=> AwaitsSave(p)')
           /\ \A r \in Nat : Older(r) => Older(r)'
<1>1. /\ \A i \in DOMAIN queue' : i \in Nat \ {0} /\ i + 1 \in DOMAIN queue
                                 /\ queue'[i] = queue[i + 1]
      /\ \A i \in DOMAIN queue : i \in Nat \ {0}
      /\ \A i \in DOMAIN queue : i > 1 => i - 1 \in DOMAIN queue' /\ queue'[i - 1] = queue[i]
  <2>1. queue \in Seq(Save)
    BY DEF SavedInv, TypeInv, TypeOK
  <2> QED BY <2>1, QueueTail DEF Dequeued
<1>2. QueueOfTexts'
  <2>1. \A i, j \in DOMAIN queue' : queue'[i].target = queue'[j].target => i = j
    BY <1>1 DEF SavedInv, SavesInv, QueueOfTexts
  <2> QED BY <1>1, <2>1 DEF SavedInv, SavesInv, QueueOfTexts
<1>3. ASSUME NEW p \in Passage PROVE EditBehind(p) <=> EditQueued(p)'
  <2>1. ASSUME EditBehind(p) PROVE EditQueued(p)'
    BY <2>1, <1>1 DEF EditBehind, EditQueued, SaveOf
  <2>2. ASSUME EditQueued(p)' PROVE EditBehind(p)
    <3>1. PICK i \in DOMAIN queue' : SaveOf(i, p)' /\ ~queue'[i].retry
      BY <2>2 DEF EditQueued
    <3>2. i + 1 \in DOMAIN queue /\ i + 1 > 1 /\ SaveOf(i + 1, p) /\ ~queue[i + 1].retry
      BY <3>1, <1>1 DEF SaveOf
    <3> QED BY <3>2 DEF EditBehind
  <2> QED BY <2>1, <2>2
<1>4. ASSUME NEW p \in Passage, ~SaveOf(1, p) PROVE AwaitsSave(p) <=> AwaitsSave(p)'
  <2>1. ASSUME NEW i \in DOMAIN queue, SaveOf(i, p)
        PROVE  i - 1 \in DOMAIN queue' /\ SaveOf(i - 1, p)'
    BY <2>1, <1>1, <1>4 DEF SaveOf
  <2>2. ASSUME NEW i \in DOMAIN queue', SaveOf(i, p)'
        PROVE  i + 1 \in DOMAIN queue /\ SaveOf(i + 1, p)
    BY <2>2, <1>1 DEF SaveOf
  <2>3. AwaitsSave(p) <=> \E i \in DOMAIN queue : SaveOf(i, p)
    BY AwaitsQueued DEF SavedInv, SavesInv
  <2>4. AwaitsSave(p)' <=> \E i \in DOMAIN queue' : SaveOf(i, p)'
    BY <1>2 DEF QueueOfTexts, AwaitsSave, SaveOf
  <2> QED BY <2>1, <2>2, <2>3, <2>4
<1>5. ASSUME NEW r \in Nat, Older(r) PROVE Older(r)'
  BY <1>1, <1>5 DEF Older
<1> QED BY <1>1, <1>2, <1>3, <1>4, <1>5

\* What the active save is, and its place among the revisions.
LEMMA ActiveSave ==
    ASSUME SavedInv, queue # <<>>
    PROVE  \E p \in Passage :
             /\ SaveOf(1, p) /\ \A q \in Passage : SaveOf(1, q) => q = p
             /\ Active = queue[1] /\ Active \in Save
             /\ Active.target = {p} /\ Active.barrier /\ ~Active.full
             /\ Active.text = OnlyUpdate(p, doc[p])
             /\ Active.revision \in Nat /\ Active.revision <= revision
             /\ Active.retry => /\ receipts[p] # None
                               /\ receipts[p].revision = Active.revision
                               /\ receipts[p].text = doc[p]
             /\ ~Active.retry /\ receipts[p] # None => receipts[p].revision <= Active.revision
             /\ \A i \in DOMAIN queue : i > 1 /\ ~queue[i].retry =>
                                           Active.revision < queue[i].revision
<1>1. Active = queue[1] /\ Active \in Save /\ 1 \in DOMAIN queue
  BY ActiveType DEF SavedInv
<1>2. PICK p \in Passage : Active.target = {p} /\ Active.text = OnlyUpdate(p, doc[p])
  BY <1>1 DEF SavedInv, SavesInv, QueueOfTexts
<1>3. Active.barrier /\ ~Active.full
  BY <1>1 DEF SavedInv, SavesInv, QueueOfTexts
<1>4. SaveOf(1, p) /\ \A q \in Passage : SaveOf(1, q) => q = p
  BY <1>1, <1>2 DEF SaveOf
<1>5. Active.revision \in Nat /\ Active.revision <= revision
  BY <1>1, QueuedRevision DEF SavedInv, SavesInv, RevisionsInOrder
<1>6. Active.retry => /\ receipts[p] # None
                      /\ receipts[p].revision = Active.revision
                      /\ receipts[p].text = doc[p]
  BY <1>1, <1>4 DEF SavedInv, SavesInv, ReceiptsOfTexts
<1>7. receipts[p] # None => receipts[p].revision \in Nat /\ Older(receipts[p].revision)
  BY ConstantsAssumption
     DEF SavedInv, SavesInv, RevisionsInOrder, TypeInv, TypeOK, Receipt, Revision
<1>8. ~Active.retry /\ receipts[p] # None => receipts[p].revision <= Active.revision
  BY <1>1, <1>5, <1>7 DEF Older
<1>9. ASSUME NEW i \in DOMAIN queue, i > 1, ~queue[i].retry
      PROVE  Active.revision < queue[i].revision
  <2>1. CASE Active.retry
    BY <1>6, <1>7, <1>9, <2>1 DEF Older
  <2>2. CASE ~Active.retry
    BY <1>1, <1>9, <2>2 DEF SavedInv, SavesInv, RevisionsInOrder
  <2> QED BY <2>1, <2>2
<1> QED BY <1>1, <1>2, <1>3, <1>4, <1>5, <1>6, <1>8, <1>9

LEMMA FailedHasReceipt ==
    ASSUME SavesInv, NEW p \in failed, ~AwaitsSave(p)
    PROVE  receipts[p] # None /\ receipts[p].text = doc[p]
BY DEF SavesInv, FailedTextRetryable

LEMMA QueueIndices ==
    ASSUME TypeInv, NEW i \in DOMAIN queue
    PROVE  i \in Nat /\ i >= 1
<1>1. queue \in Seq(Save)
  BY DEF TypeInv, TypeOK
<1> QED BY <1>1

\* No save behind the active one concerns its passage.
LEMMA LaterSave ==
    ASSUME SavedInv, NEW a \in Passage, SaveOf(1, a), NEW i \in DOMAIN queue, i # 1
    PROVE  ~SaveOf(i, a)
BY DEF SavedInv, SavesInv, QueueOfTexts, SaveOf

\* What leaves the queue is older than the edits behind it; so are the status
\* and the receipt that take its revision.
LEMMA DequeuedRevisions ==
    ASSUME SavedInv, queue # <<>>, UNCHANGED <<revision, acks>>,
           \A i \in DOMAIN queue' : i + 1 \in DOMAIN queue /\ queue'[i] = queue[i + 1],
           queue' = Dequeued(queue),
           NEW n \in Nat, n <= revision,
           \A i \in DOMAIN queue : i > 1 /\ ~queue[i].retry => n < queue[i].revision,
           status' \in {None, n},
           NEW a \in Passage, receipts'[a] = None \/ receipts'[a].revision = n,
           \A p \in Passage \ {a} : receipts'[p] = receipts[p]
    PROVE  RevisionsInOrder'
<1>1. \A i \in DOMAIN queue' : i \in Nat /\ i >= 1
  <2>1. queue' \in Seq(Save)
    BY DequeueType DEF SavedInv
  <2> QED BY <2>1
<1>2. \A i \in DOMAIN queue : queue[i].revision \in Nat
  BY QueuedRevision DEF SavedInv
<1>3. ASSUME NEW r \in Nat, Older(r) PROVE Older(r)'
  BY <1>3 DEF Older
<1>4. Older(n)'
  BY <1>1 DEF Older
<1>5. ASSUME NEW r \in acks' PROVE r <= revision' /\ Older(r)'
  BY <1>3, <1>5, ConstantsAssumption
     DEF SavedInv, SavesInv, RevisionsInOrder, TypeInv, TypeOK, Revision
<1>6. ASSUME NEW p \in Passage, receipts'[p] # None
      PROVE  receipts'[p].revision <= revision' /\ Older(receipts[p].revision)'
  <2>1. CASE p = a
    BY <1>4, <1>6, <2>1 DEF Older
  <2>2. CASE p # a
    <3>1. receipts[p] # None /\ receipts[p].revision \in Nat
      BY <1>6, <2>2, ConstantsAssumption DEF SavedInv, TypeInv, TypeOK, Receipt, Revision
    <3>2. receipts[p].revision <= revision /\ Older(receipts[p].revision)
      BY <3>1 DEF SavedInv, SavesInv, RevisionsInOrder
    <3> QED BY <1>3, <2>2, <3>1, <3>2 DEF Older
  <2> QED BY <2>1, <2>2
<1>7. status' # None => status' <= revision' /\ Older(status)'
  BY <1>4 DEF Older
<1>8. \A i, j \in DOMAIN queue' :
        i < j /\ ~queue'[i].retry /\ ~queue'[j].retry => queue'[i].revision < queue'[j].revision
  BY <1>1 DEF SavedInv, SavesInv, RevisionsInOrder
<1>9. \A i \in DOMAIN queue' : queue'[i].revision <= revision'
  BY DEF SavedInv, SavesInv, RevisionsInOrder
<1> QED BY <1>5, <1>6, <1>7, <1>8, <1>9 DEF RevisionsInOrder

\* Steps that change neither the queue nor what the invariant relates it to.
LEMMA WorkKeeps ==
    ASSUME SavedInv,
           StartSave \/ Materialize \/ RematerializeOnce \/ FallBackToFull
    PROVE  SavesInv'
<1>1. UNCHANGED <<doc, revision, disk, queue, receipts, status, acks, failed>>
  BY DEF StartSave, Materialize, RematerializeOnce, FallBackToFull, history
<1>2. /\ QueueOfTexts' /\ RevisionsInOrder' /\ ReceiptsOfTexts'
      /\ DiskOfTexts' /\ FailedTextRetryable'
  <2>1. QueueOfTexts'
    BY <1>1 DEF SavedInv, SavesInv, QueueOfTexts
  <2>2. RevisionsInOrder'
    BY <1>1 DEF SavedInv, SavesInv, RevisionsInOrder, Older
  <2>3. ReceiptsOfTexts'
    BY <1>1 DEF SavedInv, SavesInv, ReceiptsOfTexts, SaveOf, AwaitsSave
  <2>4. DiskOfTexts'
    BY <1>1 DEF SavedInv, SavesInv, DiskOfTexts, SaveOf, EditQueued
  <2>5. FailedTextRetryable'
    BY <1>1 DEF SavedInv, SavesInv, FailedTextRetryable, AwaitsSave
  <2> QED BY <2>1, <2>2, <2>3, <2>4, <2>5
<1>3. WorkOfTexts'
  <2>1. CASE StartSave
    <3>1. PICK p \in Passage :
            /\ \A q \in Passage : SaveOf(1, q) => q = p
            /\ ~Active.full /\ Active.text = OnlyUpdate(p, doc[p])
      BY <2>1, ActiveSave DEF StartSave
    <3>2. work'.text = OnlyUpdate(p, doc[p])
      BY <2>1, <3>1 DEF StartSave, Calling
    <3>3. \A q \in Passage : SaveOf(1, q)' <=> SaveOf(1, q)
      BY <1>1 DEF SaveOf
    <3> QED BY <1>1, <3>1, <3>2, <3>3 DEF WorkOfTexts, OnlyUpdate
  <2>2. CASE Materialize
    <3>1. work'.text = doc
      BY <2>2 DEF Materialize, Calling
    <3> QED BY <1>1, <3>1 DEF WorkOfTexts
  <2>3. CASE RematerializeOnce \/ FallBackToFull
    <3>1. work'.step = "materialize"
      BY <2>3 DEF RematerializeOnce, FallBackToFull, Materializing
    <3> QED BY <3>1 DEF WorkOfTexts
  <2> QED BY <2>1, <2>2, <2>3
<1> QED BY <1>2, <1>3 DEF SavesInv

LEMMA CompleteSaveKeeps == ASSUME SavedInv, CompleteSave PROVE SavesInv'
<1>1. queue # <<>> /\ work # None /\ work.step = "call"
  BY DEF CompleteSave, SavedInv, TypeInv, TypeOK
<1>2. /\ queue' = Dequeued(queue) /\ work' = None /\ receipts' = Cleared(Active)
      /\ status' = Active.revision /\ UNCHANGED <<doc, revision, acks>>
      /\ disk' = [p \in Passage |-> IF work.text[p] # None THEN work.text[p] ELSE disk[p]]
      /\ failed' = {p \in failed : work.text[p] = None}
  BY DEF CompleteSave
<1>3. PICK a \in Passage :
             /\ SaveOf(1, a) /\ \A q \in Passage : SaveOf(1, q) => q = a
             /\ Active = queue[1] /\ Active \in Save
             /\ Active.target = {a} /\ Active.barrier
             /\ Active.revision \in Nat /\ Active.revision <= revision
             /\ Active.retry => /\ receipts[a] # None
                               /\ receipts[a].revision = Active.revision
             /\ ~Active.retry /\ receipts[a] # None => receipts[a].revision <= Active.revision
             /\ \A i \in DOMAIN queue : i > 1 /\ ~queue[i].retry =>
                                           Active.revision < queue[i].revision
  BY <1>1, ActiveSave
<1>4. /\ QueueOfTexts'
      /\ \A i \in DOMAIN queue' : i + 1 \in DOMAIN queue /\ queue'[i] = queue[i + 1]
      /\ \A p \in Passage : EditBehind(p) <=> EditQueued(p)'
      /\ \A p \in Passage : ~SaveOf(1, p) => (AwaitsSave(p) <=> AwaitsSave(p)')
      /\ \A r \in Nat : Older(r) => Older(r)'
  BY <1>1, <1>2, DequeueKeeps
<1>5. receipts'[a] = None /\ \A p \in Passage \ {a} : receipts'[p] = receipts[p]
  BY <1>2, <1>3 DEF Cleared
<1>6. RevisionsInOrder'
  BY <1>1, <1>2, <1>3, <1>4, <1>5, DequeuedRevisions
<1>7. ReceiptsOfTexts'
  <2>1. ASSUME NEW p \in Passage, receipts'[p] # None, ~AwaitsSave(p)'
        PROVE  receipts'[p].text = doc'[p]
    <3>1. p # a
      BY <2>1, <1>5
    <3>2. AwaitsSave(p) <=> AwaitsSave(p)'
      BY <3>1, <1>3, <1>4
    <3>3. ~AwaitsSave(p)
      BY <2>1, <3>2
    <3> QED BY <2>1, <3>1, <3>3, <1>2, <1>5 DEF SavedInv, SavesInv, ReceiptsOfTexts
  <2>2. ASSUME NEW i \in DOMAIN queue', NEW p \in Passage, SaveOf(i, p)', queue'[i].retry
        PROVE  /\ receipts'[p] # None
               /\ receipts'[p].revision = queue'[i].revision
               /\ receipts'[p].text = doc'[p]
    <3>1. i + 1 \in DOMAIN queue /\ queue'[i] = queue[i + 1] /\ SaveOf(i + 1, p)
      BY <2>2, <1>4 DEF SaveOf
    <3>2. i + 1 # 1
      <4>1. queue' \in Seq(Save)
        BY <1>1, <1>2, DequeueType DEF SavedInv
      <4> QED BY <4>1
    <3>3. p # a
      BY <3>1, <3>2, <1>3, LaterSave
    <3> QED BY <2>2, <3>1, <3>3, <1>2, <1>5 DEF SavedInv, SavesInv, ReceiptsOfTexts
  <2> QED BY <2>1, <2>2 DEF ReceiptsOfTexts
<1>8. WorkOfTexts'
  BY <1>2 DEF WorkOfTexts
<1>9. DiskOfTexts'
  <2> SUFFICES ASSUME NEW p \in Passage, p \notin failed'
               PROVE  disk'[p] = doc[p] \/ EditQueued(p)'
    BY <1>2 DEF DiskOfTexts
  <2>1. /\ SaveOf(1, p) => work.text[p] = doc[p]
        /\ work.text[p] \in {None, doc[p]} \/ EditBehind(p)
    BY <1>1 DEF SavedInv, SavesInv, WorkOfTexts
  <2>2. CASE work.text[p] # None
    BY <1>2, <1>4, <2>1, <2>2
  <2>3. CASE work.text[p] = None
    <3>1. ~SaveOf(1, p)
      BY <2>1, <2>3, ConstantsAssumption DEF SavedInv, TypeInv, TypeOK, Documents
    <3>2. disk[p] = doc[p] \/ EditQueued(p)
      BY <1>2, <2>3 DEF SavedInv, SavesInv, DiskOfTexts
    <3>3. EditQueued(p) => EditBehind(p)
      BY <3>1, QueueIndices DEF EditQueued, EditBehind, SavedInv
    <3> QED BY <1>2, <1>4, <2>3, <3>2, <3>3
  <2> QED BY <2>2, <2>3
<1>10. FailedTextRetryable'
  <2> SUFFICES ASSUME NEW p \in failed', ~AwaitsSave(p)'
               PROVE  receipts'[p] # None /\ receipts'[p].text = doc[p]
    BY <1>2 DEF FailedTextRetryable
  <2>1. p \in failed /\ work.text[p] = None /\ p \in Passage
    BY <1>2 DEF SavedInv, TypeInv, TypeOK
  <2>2. ~SaveOf(1, p)
    BY <1>1, <2>1, ConstantsAssumption
       DEF SavedInv, SavesInv, WorkOfTexts, TypeInv, TypeOK, Documents
  <2>3. p # a /\ (AwaitsSave(p) <=> AwaitsSave(p)')
    BY <1>3, <1>4, <2>1, <2>2
  <2>4. ~AwaitsSave(p)
    BY <2>3
  <2> QED BY <1>5, <2>1, <2>3, <2>4, FailedHasReceipt DEF SavedInv
<1> QED BY <1>4, <1>6, <1>7, <1>8, <1>9, <1>10 DEF SavesInv

LEMMA FailedKeeps == ASSUME SavedInv, queue # <<>>, Failed PROVE SavesInv'
<1>2. /\ queue' = Dequeued(queue) /\ work' = None /\ receipts' = Registered(Active)
      /\ status' = None /\ UNCHANGED <<doc, revision, disk, acks>>
      /\ failed' = failed \cup Active.target
  BY DEF Failed
<1>3. PICK a \in Passage :
             /\ SaveOf(1, a) /\ \A q \in Passage : SaveOf(1, q) => q = a
             /\ Active = queue[1] /\ Active \in Save
             /\ Active.target = {a} /\ Active.barrier
             /\ Active.text = OnlyUpdate(a, doc[a])
             /\ Active.revision \in Nat /\ Active.revision <= revision
             /\ Active.retry => /\ receipts[a] # None
                               /\ receipts[a].revision = Active.revision
                               /\ receipts[a].text = doc[a]
             /\ ~Active.retry /\ receipts[a] # None => receipts[a].revision <= Active.revision
             /\ \A i \in DOMAIN queue : i > 1 /\ ~queue[i].retry =>
                                           Active.revision < queue[i].revision
  BY ActiveSave
<1>4. /\ QueueOfTexts'
      /\ \A i \in DOMAIN queue' : i + 1 \in DOMAIN queue /\ queue'[i] = queue[i + 1]
      /\ \A p \in Passage : EditBehind(p) <=> EditQueued(p)'
      /\ \A p \in Passage : ~SaveOf(1, p) => (AwaitsSave(p) <=> AwaitsSave(p)')
      /\ \A r \in Nat : Older(r) => Older(r)'
  BY <1>2, DequeueKeeps
<1>5. /\ receipts'[a] \in Receipt
      /\ receipts'[a].revision = Active.revision /\ receipts'[a].text = doc[a]
      /\ \A p \in Passage \ {a} : receipts'[p] = receipts[p]
  <2>1. Active.revision \in Revision /\ doc[a] \in Text
    BY <1>3 DEF Save, SavedInv, TypeInv, TypeOK, Documents
  <2>2. Active.text[a] = doc[a]
    BY <1>3 DEF OnlyUpdate
  <2>3. \A p \in Passage : receipts[p] \in Receipt \cup {None}
    BY DEF SavedInv, TypeInv, TypeOK
  <2> QED BY <1>2, <1>3, <2>1, <2>2, <2>3 DEF Registered, Receipt
<1>6. receipts'[a] # None
  BY <1>5, NoneAssumption
<1>7. RevisionsInOrder'
  BY <1>2, <1>3, <1>4, <1>5, DequeuedRevisions
<1>8. ReceiptsOfTexts'
  <2>1. ASSUME NEW p \in Passage, receipts'[p] # None, ~AwaitsSave(p)'
        PROVE  receipts'[p].text = doc'[p]
    <3>1. CASE p = a
      BY <3>1, <1>2, <1>5
    <3>2. CASE p # a
      <4>1. AwaitsSave(p) <=> AwaitsSave(p)'
        BY <3>2, <1>3, <1>4
      <4>2. ~AwaitsSave(p)
        BY <2>1, <4>1
      <4> QED BY <2>1, <3>2, <4>2, <1>2, <1>5 DEF SavedInv, SavesInv, ReceiptsOfTexts
    <3> QED BY <3>1, <3>2
  <2>2. ASSUME NEW i \in DOMAIN queue', NEW p \in Passage, SaveOf(i, p)', queue'[i].retry
        PROVE  /\ receipts'[p] # None
               /\ receipts'[p].revision = queue'[i].revision
               /\ receipts'[p].text = doc'[p]
    <3>1. i + 1 \in DOMAIN queue /\ queue'[i] = queue[i + 1] /\ SaveOf(i + 1, p)
      BY <2>2, <1>4 DEF SaveOf
    <3>2. i + 1 # 1
      <4>1. queue' \in Seq(Save)
        BY <1>2, DequeueType DEF SavedInv
      <4> QED BY <4>1
    <3>3. p # a
      BY <3>1, <3>2, <1>3, LaterSave
    <3> QED BY <2>2, <3>1, <3>3, <1>2, <1>5 DEF SavedInv, SavesInv, ReceiptsOfTexts
  <2> QED BY <2>1, <2>2 DEF ReceiptsOfTexts
<1>9. WorkOfTexts'
  BY <1>2 DEF WorkOfTexts
<1>10. DiskOfTexts'
  <2> SUFFICES ASSUME NEW p \in Passage, p \notin failed'
               PROVE  disk[p] = doc[p] \/ EditQueued(p)'
    BY <1>2 DEF DiskOfTexts
  <2>1. p \notin failed /\ p # a
    BY <1>2, <1>3
  <2>2. EditQueued(p) => EditBehind(p)
    BY <1>3, <2>1, QueueIndices DEF EditQueued, EditBehind, SavedInv
  <2> QED BY <1>4, <2>1, <2>2 DEF SavedInv, SavesInv, DiskOfTexts
<1>11. FailedTextRetryable'
  <2> SUFFICES ASSUME NEW p \in failed', ~AwaitsSave(p)'
               PROVE  receipts'[p] # None /\ receipts'[p].text = doc[p]
    BY <1>2 DEF FailedTextRetryable
  <2>1. CASE p = a
    BY <2>1, <1>5, <1>6
  <2>2. CASE p # a
    <3>1. p \in failed /\ p \in Passage
      BY <1>2, <1>3, <2>2 DEF SavedInv, TypeInv, TypeOK
    <3>2. AwaitsSave(p) <=> AwaitsSave(p)'
      BY <1>3, <1>4, <2>2, <3>1
    <3>3. ~AwaitsSave(p)
      BY <3>2
    <3> QED BY <1>5, <2>2, <3>1, <3>3, FailedHasReceipt DEF SavedInv
  <2> QED BY <2>1, <2>2
<1> QED BY <1>4, <1>7, <1>8, <1>9, <1>10, <1>11 DEF SavesInv

-----------------------------------------------------------------------------
(* Every step keeps the invariant, when every edit waits for its save.     *)

LEMMA PersistedEditKeeps ==
    ASSUME SavedInv, NEW p \in Passage, NEW t \in Text, PersistedEdit(p, t)
    PROVE  SavesInv'
<1> DEFINE save == [revision |-> revision + 1, target |-> {p}, full |-> FALSE,
                    text |-> OnlyUpdate(p, t), barrier |-> TRUE, retry |-> FALSE]
<1>1. /\ ~AwaitsSave(p) /\ Enqueue(save)
      /\ doc' = [doc EXCEPT ![p] = t]
      /\ revision' = revision + 1
      /\ UNCHANGED <<disk, work, receipts, status, acks, failed>>
  BY DEF PersistedEdit, Apply, history
<1>2. revision' \in Revision /\ revision \in Nat /\ revision' \in Nat
  BY ConstantsAssumption DEF PersistedEdit, Apply, SavedInv, TypeInv, TypeOK, Revision
<1>3. save \in Save
  BY <1>1, <1>2, OnlyUpdateType DEF Save
<1>4. doc'[p] = t /\ \A q \in Passage \ {p} : doc'[q] = doc[q]
  BY <1>1 DEF SavedInv, TypeInv, TypeOK, Documents
<1>5. /\ save.target = {p} /\ save.barrier /\ ~save.full /\ ~save.retry
      /\ save.text = OnlyUpdate(p, doc'[p])
      /\ revision <= revision' /\ save.revision <= revision' /\ revision < save.revision
  BY <1>1, <1>2, <1>4
<1> HIDE DEF save
<1> QED BY <1>1, <1>2, <1>3, <1>4, <1>5, EnqueueKeeps

LEMMA RetryPersistenceKeeps ==
    ASSUME SavedInv, NEW p \in Passage, RetryPersistence(p)
    PROVE  SavesInv'
<1> DEFINE save == [revision |-> receipts[p].revision, target |-> {p},
                    text |-> OnlyUpdate(p, receipts[p].text), full |-> FALSE,
                    barrier |-> TRUE, retry |-> TRUE]
<1>1. /\ receipts[p] # None /\ ~AwaitsSave(p) /\ Enqueue(save)
      /\ UNCHANGED <<doc, revision, disk, work, receipts, status, acks, failed>>
  BY DEF RetryPersistence, history
<1>2. receipts[p] \in Receipt /\ receipts[p].text = doc[p] /\ receipts[p].revision <= revision
  BY <1>1 DEF SavedInv, SavesInv, ReceiptsOfTexts, RevisionsInOrder, TypeInv, TypeOK
<1>3. receipts[p].text \in Text /\ receipts[p].revision \in Revision
  BY <1>2 DEF Receipt
<1>4. save \in Save
  BY <1>3, OnlyUpdateType DEF Save
<1>5. revision' \in Nat /\ revision \in Nat
  BY <1>1, ConstantsAssumption DEF SavedInv, TypeInv, TypeOK, Revision
<1>6. /\ save.target = {p} /\ save.barrier /\ ~save.full /\ save.retry
      /\ save.text = OnlyUpdate(p, doc'[p])
      /\ revision <= revision' /\ save.revision <= revision'
      /\ save.revision = receipts[p].revision
  BY <1>1, <1>2, <1>5
<1> HIDE DEF save
<1>7. /\ doc' = doc /\ \A q \in Passage \ {p} : doc'[q] = doc[q]
  BY <1>1
<1> QED BY <1>1, <1>2, <1>4, <1>5, <1>6, <1>7, EnqueueKeeps

\* The status becomes an acknowledgement, which leaves the queue as it is.
LEMMA AcknowledgementKeeps ==
    ASSUME SavedInv, NotifySaved \/ \E r \in acks : AcknowledgeSaved(r)
    PROVE  SavesInv'
<1>1. UNCHANGED <<doc, revision, disk, queue, work, receipts, failed>>
  BY DEF NotifySaved, AcknowledgeSaved, history
<1>2. \A r \in acks' : r \in acks \/ (status # None /\ r = status)
  BY DEF NotifySaved, AcknowledgeSaved
<1>3. status' # None => status' = status
  BY DEF NotifySaved, AcknowledgeSaved
<1>4. QueueOfTexts'
  BY <1>1 DEF SavedInv, SavesInv, QueueOfTexts
<1>5. RevisionsInOrder'
  BY <1>1, <1>2, <1>3 DEF SavedInv, SavesInv, RevisionsInOrder, Older
<1>6. ReceiptsOfTexts'
  BY <1>1 DEF SavedInv, SavesInv, ReceiptsOfTexts, SaveOf, AwaitsSave
<1>7. WorkOfTexts'
  BY <1>1 DEF SavedInv, SavesInv, WorkOfTexts, SaveOf, EditBehind
<1>8. DiskOfTexts'
  BY <1>1 DEF SavedInv, SavesInv, DiskOfTexts, SaveOf, EditQueued
<1>9. FailedTextRetryable'
  BY <1>1 DEF SavedInv, SavesInv, FailedTextRetryable, AwaitsSave
<1> QED BY <1>4, <1>5, <1>6, <1>7, <1>8, <1>9 DEF SavesInv

LEMMA InitSaves == Init => SavesInv
BY DEF Init, SavesInv, QueueOfTexts, RevisionsInOrder, Older, ReceiptsOfTexts, WorkOfTexts,
       DiskOfTexts, FailedTextRetryable, SaveOf, AwaitsSave, EditQueued

LEMMA NextKeeps ==
    ASSUME Mutations \subseteq {"persisted"}
    PROVE  SavedInv /\ [Next]_vars => SavesInv'
<1> SUFFICES ASSUME SavedInv, [Next]_vars PROVE SavesInv'
  OBVIOUS
<1>1. ASSUME NEW p \in Passage, NEW t \in Text,
             PersistedEdit(p, t) \/ PlainEdit(p, t) \/ BroadEdit(p, t)
      PROVE  SavesInv'
  BY <1>1, PersistedEditKeeps DEF PlainEdit, BroadEdit
<1>2. CASE FailSave \/ FailMaterialize
  BY <1>2, FailuresType, FailedKeeps DEF SavedInv
<1>3. CASE UNCHANGED vars
  <2>1. UNCHANGED <<doc, revision, disk, queue, work, receipts, status, acks, failed>>
    BY <1>3 DEF vars
  <2>2. QueueOfTexts' /\ RevisionsInOrder'
    BY <2>1 DEF SavedInv, SavesInv, QueueOfTexts, RevisionsInOrder, Older
  <2>3. ReceiptsOfTexts' /\ FailedTextRetryable'
    BY <2>1 DEF SavedInv, SavesInv, ReceiptsOfTexts, FailedTextRetryable, SaveOf, AwaitsSave
  <2>4. WorkOfTexts'
    BY <2>1 DEF SavedInv, SavesInv, WorkOfTexts, SaveOf, EditBehind
  <2>5. DiskOfTexts'
    BY <2>1 DEF SavedInv, SavesInv, DiskOfTexts, SaveOf, EditQueued
  <2> QED BY <2>2, <2>3, <2>4, <2>5 DEF SavesInv
<1> QED BY <1>1, <1>2, <1>3, RetryPersistenceKeeps, WorkKeeps, CompleteSaveKeeps,
        AcknowledgementKeeps DEF Next, SaveStep

LEMMA SavesInvariant ==
    ASSUME Mutations \subseteq {"persisted"}
    PROVE  Spec => []SavedInv
<1>1. Init => SavedInv
  BY InitType, InitSaves DEF SavedInv
<1>2. SavedInv /\ [Next]_vars => SavedInv'
  BY NextType, NextKeeps DEF SavedInv
<1> QED BY <1>1, <1>2, PTL DEF Spec

\* When the queue is empty, every passage whose last save did not fail is on
\* disk with the document's text: no retry, fallback or whole-story save has
\* written an older one over it.
THEOREM NewestTextOnDisk ==
    ASSUME Mutations \subseteq {"persisted"}
    PROVE  Spec => []IdleOnDisk
<1>1. SavedInv => IdleOnDisk
  <2>1. queue = <<>> => \A p \in Passage : ~EditQueued(p)
    BY DEF EditQueued, SaveOf
  <2> QED BY <2>1 DEF SavedInv, SavesInv, DiskOfTexts, IdleOnDisk
<1> QED BY <1>1, SavesInvariant, PTL

\* The text of a failed save is on its way again, or its receipt holds what the
\* document does.
THEOREM FailedTextNotLost ==
    ASSUME Mutations \subseteq {"persisted"}
    PROVE  Spec => []FailedTextRetryable
<1>1. SavedInv => FailedTextRetryable
  BY DEF SavedInv, SavesInv
<1> QED BY <1>1, SavesInvariant, PTL

\* What an acknowledgement accepts as saved is on disk, for every passage whose
\* last save did not fail.
THEOREM AcceptedTextOnDisk ==
    ASSUME Mutations \subseteq {"persisted"}
    PROVE  Spec => AcknowledgedOnDisk
<1>1. SavedInv /\ [Next]_vars
        => [saved' # saved => \A p \in Passage \ failed : disk[p] = saved'[p]]_vars
  <2> SUFFICES ASSUME SavedInv, Next, saved' # saved, NEW p \in Passage \ failed
               PROVE  disk[p] = saved'[p]
    OBVIOUS
  <2>1. PICK r \in acks : AcknowledgeSaved(r)
    BY DEF Next, SaveStep, PersistedEdit, PlainEdit, BroadEdit, Apply, RetryPersistence,
       StartSave, Materialize, RematerializeOnce, FallBackToFull, FailMaterialize, FailSave,
       Failed, CompleteSave, NotifySaved
  <2>2. saved' = doc /\ r = revision
    BY <2>1 DEF AcknowledgeSaved, Accepts
  <2>3. Older(r)
    BY DEF SavedInv, SavesInv, RevisionsInOrder
  <2>4. ASSUME NEW i \in DOMAIN queue PROVE queue[i].retry
    <3>1. queue[i].revision <= revision /\ queue[i].revision \in Nat
      BY QueuedRevision DEF SavedInv, SavesInv, RevisionsInOrder
    <3>2. r \in Nat
      BY ConstantsAssumption, <2>2 DEF SavedInv, TypeInv, TypeOK, Revision
    <3> QED BY <2>2, <2>3, <3>1, <3>2 DEF Older
  <2>5. ~EditQueued(p)
    BY <2>4 DEF EditQueued
  <2> QED BY <2>2, <2>5 DEF SavedInv, SavesInv, DiskOfTexts
<1> QED BY <1>1, SavesInvariant, PTL DEF Spec, AcknowledgedOnDisk

-----------------------------------------------------------------------------
(* Edits of every kind.  A receipt is what a failed save leaves of an edit *)
(* that waited for it, and retrying one after the passage was edited again *)
(* brings back an older text (README.md).  What follows is about sessions  *)
(* that have none: nobody waits, or no save is refused or falls back.      *)

NoReceipts == "persisted" \notin Mutations \/ (MaxFailures = 0 /\ ~FallsBack)

Concerns(i, p) == i \in DOMAIN queue /\ p \in queue[i].target
LaterConcerns(i, p) == \E j \in DOMAIN queue : j > i /\ Concerns(j, p)
Queued(p) == \E i \in DOMAIN queue : Concerns(i, p)

\* What leaves a receipt does not happen: an edit that waits is saved alone, and
\* only a whole-story save is materialized.
NothingToRetry ==
    /\ \A p \in Passage : receipts[p] = None
    /\ \A i \in DOMAIN queue :
         /\ ~queue[i].retry
         /\ queue[i].barrier => "persisted" \in Mutations /\ ~queue[i].full
    /\ work # None /\ work.step = "materialize" => FallsBack \/ Active.full

\* The last of the queued saves of a passage brings its newest text, and a save
\* brings no text of a passage it does not concern.
QueueEndsNewest ==
    \A i \in DOMAIN queue, p \in Passage :
        IF p \in queue[i].target
        THEN queue[i].full \/ queue[i].text[p] = doc[p] \/ LaterConcerns(i, p)
        ELSE queue[i].text[p] = None

\* Each text of the call in progress is the newest one, or a later save follows.
CallEndsNewest ==
    work # None /\ work.step = "call" =>
        \A p \in Passage :
            \/ work.text[p] = doc[p] \/ LaterConcerns(1, p)
            \/ work.text[p] = None /\ ~Concerns(1, p)

\* Saves are queued in the order of their revisions, after those acknowledged.
Before(r) == r <= revision /\ \A i \in DOMAIN queue : r < queue[i].revision

SavesInOrder ==
    /\ \A i, j \in DOMAIN queue : i < j => queue[i].revision < queue[j].revision
    /\ \A i \in DOMAIN queue : queue[i].revision <= revision
    /\ \A r \in acks : Before(r)
    /\ status # None => Before(status)

DiskEndsNewest == \A p \in Passage \ failed : disk[p] = doc[p] \/ Queued(p)

MixedSaves ==
    NothingToRetry /\ QueueEndsNewest /\ CallEndsNewest /\ SavesInOrder /\ DiskEndsNewest

MixedInv == TypeInv /\ MixedSaves

\* The active save, and the others by their places.
LEMMA MixedQueue ==
    ASSUME MixedInv
    PROVE  /\ \A i \in DOMAIN queue : /\ i \in Nat /\ i >= 1
                                     /\ queue[i] \in Save /\ queue[i].revision \in Nat
           /\ queue # <<>> => 1 \in DOMAIN queue /\ Active = queue[1]
           /\ revision \in Nat /\ acks \subseteq Nat /\ (status # None => status \in Nat)
           /\ None \notin Text /\ \A p \in Passage : doc[p] \in Text
<1>1. TypeInv
  BY DEF MixedInv
<1>2. \A i \in DOMAIN queue : /\ i \in Nat /\ i >= 1
                              /\ queue[i] \in Save /\ queue[i].revision \in Nat
  BY <1>1, QueueIndices, QueuedRevision
<1>3. queue # <<>> => 1 \in DOMAIN queue /\ Active = queue[1]
  BY <1>1, ActiveType
<1>4. revision \in Nat /\ acks \subseteq Nat /\ (status # None => status \in Nat)
  BY <1>1, ConstantsAssumption DEF TypeInv, TypeOK, Revision
<1>5. None \notin Text /\ \A p \in Passage : doc[p] \in Text
  BY <1>1, ConstantsAssumption DEF TypeInv, TypeOK, Documents
<1> QED BY <1>2, <1>3, <1>4, <1>5

\* An edit joins the queue: the last save of its passage is its own.
LEMMA EditKeepsMixed ==
    ASSUME MixedInv, NEW p \in Passage, NEW t \in Text, NEW full \in BOOLEAN,
           NEW barrier \in BOOLEAN, Apply(p, t, full, barrier),
           barrier => "persisted" \in Mutations /\ ~full
    PROVE  MixedSaves'
<1> DEFINE n == Len(queue) + 1
           save == [revision |-> revision + 1, target |-> {p}, full |-> full,
                    text |-> IF full THEN NoUpdates ELSE OnlyUpdate(p, t),
                    barrier |-> barrier, retry |-> FALSE]
<1>1. /\ doc' = [doc EXCEPT ![p] = t] /\ revision' = revision + 1 /\ queue' = Append(queue, save)
      /\ UNCHANGED <<disk, work, receipts, status, acks, failed>>
  BY DEF Apply, Enqueue, history
<1>2. /\ TypeInv /\ queue \in Seq(Save) /\ n \in Nat
      /\ DOMAIN queue = 1 .. Len(queue) /\ Len(queue) \in Nat /\ doc \in Documents
  BY DEF MixedInv, TypeInv, TypeOK
<1>3. /\ save.target = {p} /\ save.full = full /\ save.barrier = barrier /\ ~save.retry
      /\ save.revision = revision + 1
      /\ ~full => save.text[p] = t
      /\ \A q \in Passage \ {p} : save.text[q] = None
  BY DEF OnlyUpdate, NoUpdates
<1>4. save \in Save
  <2>1. revision + 1 \in Revision
    BY <1>2, ConstantsAssumption DEF Apply, TypeInv, TypeOK, Revision
  <2> QED BY <2>1, OnlyUpdateType, NoUpdatesType DEF Save
<1> HIDE DEF save
<1>5. /\ DOMAIN queue' = 1 .. n /\ n \in DOMAIN queue' /\ queue'[n] = save
      /\ \A i \in DOMAIN queue : i \in DOMAIN queue' /\ i < n /\ queue'[i] = queue[i]
      /\ \A i \in DOMAIN queue' : i # n => i \in DOMAIN queue
  BY <1>1, <1>2, <1>4, QueueAppend
<1> HIDE DEF n
<1>6. doc'[p] = t /\ \A q \in Passage \ {p} : doc'[q] = doc[q]
  BY <1>1, <1>2 DEF Documents
<1>7. ASSUME NEW i \in DOMAIN queue, NEW q \in Passage, LaterConcerns(i, q) \/ q = p
      PROVE  LaterConcerns(i, q)'
  BY <1>3, <1>5, <1>7 DEF LaterConcerns, Concerns
<1>8. NothingToRetry'
  <2>1. work # None => queue # <<>> /\ Active' = Active
    <3>1. ASSUME work # None PROVE queue # <<>> /\ queue'[1] = queue[1] /\ Active' = queue'[1]
      BY <1>1, <1>2, <1>4, <1>5, <3>1, MixedQueue, QueueAppend, HeadTailProperties
         DEF Active, TypeInv, TypeOK
    <3> QED BY <3>1, MixedQueue
  <2>2. \A i \in DOMAIN queue' :
           ~queue'[i].retry /\ (queue'[i].barrier => "persisted" \in Mutations /\ ~queue'[i].full)
    BY <1>3, <1>5 DEF MixedInv, MixedSaves, NothingToRetry
  <2> QED BY <1>1, <2>1, <2>2 DEF MixedInv, MixedSaves, NothingToRetry
<1>9. QueueEndsNewest'
  <2> SUFFICES ASSUME NEW i \in DOMAIN queue', NEW q \in Passage
               PROVE  IF q \in queue'[i].target
                      THEN queue'[i].full \/ queue'[i].text[q] = doc'[q] \/ LaterConcerns(i, q)'
                      ELSE queue'[i].text[q] = None
    BY DEF QueueEndsNewest, LaterConcerns, Concerns
  <2>1. CASE i = n
    BY <1>3, <1>5, <1>6, <2>1
  <2>2. CASE i # n
    <3>1. i \in DOMAIN queue /\ queue'[i] = queue[i]
      BY <1>5, <2>2
    <3> QED BY <1>6, <1>7, <3>1 DEF MixedInv, MixedSaves, QueueEndsNewest
  <2> QED BY <2>1, <2>2
<1>10. CallEndsNewest'
  <2> SUFFICES ASSUME work # None, work.step = "call", NEW q \in Passage
               PROVE  \/ work.text[q] = doc'[q] \/ LaterConcerns(1, q)'
                      \/ work.text[q] = None /\ ~Concerns(1, q)'
    BY <1>1 DEF CallEndsNewest
  <2>1. queue # <<>> /\ 1 \in DOMAIN queue /\ queue'[1] = queue[1]
    BY <1>2, <1>5, MixedQueue DEF TypeInv, TypeOK
  <2>2. Concerns(1, q)' => Concerns(1, q)
    BY <2>1 DEF Concerns
  <2> QED BY <1>6, <1>7, <2>1, <2>2 DEF MixedInv, MixedSaves, CallEndsNewest
<1>11. SavesInOrder'
  <2>1. \A i \in DOMAIN queue : queue[i].revision < save.revision /\ queue[i].revision \in Nat
    BY <1>3, MixedQueue DEF MixedInv, MixedSaves, SavesInOrder
  <2>2. \A i, j \in DOMAIN queue' : i < j => queue'[i].revision < queue'[j].revision
    <3> SUFFICES ASSUME NEW i \in DOMAIN queue', NEW j \in DOMAIN queue', i < j
                 PROVE  queue'[i].revision < queue'[j].revision
      OBVIOUS
    <3>1. i # n
      BY <1>2, <1>5
    <3>2. CASE j = n
      BY <1>5, <2>1, <3>1, <3>2
    <3>3. CASE j # n
      BY <1>5, <3>1, <3>3 DEF MixedInv, MixedSaves, SavesInOrder
    <3> QED BY <3>2, <3>3
  <2>3. \A i \in DOMAIN queue' : queue'[i].revision <= revision'
    BY <1>1, <1>3, <1>5, <2>1, MixedQueue DEF MixedInv, MixedSaves, SavesInOrder
  <2>4. ASSUME NEW r \in Nat, Before(r) PROVE Before(r)'
    BY <1>1, <1>3, <1>5, <2>4, MixedQueue DEF Before
  <2>5. \A r \in acks' : Before(r)'
    BY <1>1, <2>4, MixedQueue DEF MixedInv, MixedSaves, SavesInOrder
  <2>6. status' # None => Before(status)'
    BY <1>1, <2>4, MixedQueue DEF MixedInv, MixedSaves, SavesInOrder, Before
  <2> QED BY <2>2, <2>3, <2>5, <2>6 DEF SavesInOrder
<1>12. DiskEndsNewest'
  <2>1. ASSUME NEW q \in Passage, Queued(q) \/ q = p PROVE Queued(q)'
    BY <1>3, <1>5, <2>1 DEF Queued, Concerns
  <2> QED BY <1>1, <1>6, <2>1 DEF MixedInv, MixedSaves, DiskEndsNewest
<1> QED BY <1>8, <1>9, <1>10, <1>11, <1>12 DEF MixedSaves

\* What a save writes is settled when its call begins: the texts it was queued
\* with, or those of the document it was materialized from.
LEMMA WorkKeepsMixed ==
    ASSUME MixedInv,
           StartSave \/ Materialize \/ RematerializeOnce \/ FallBackToFull
    PROVE  MixedSaves'
<1>1. UNCHANGED <<doc, revision, disk, queue, receipts, status, acks, failed>>
  BY DEF StartSave, Materialize, RematerializeOnce, FallBackToFull, history
<1>2. Active' = Active
  BY <1>1 DEF Active
<1>3. QueueEndsNewest' /\ DiskEndsNewest'
  BY <1>1 DEF MixedInv, MixedSaves, QueueEndsNewest, DiskEndsNewest, LaterConcerns, Queued, Concerns
<1>4. SavesInOrder'
  BY <1>1 DEF MixedInv, MixedSaves, SavesInOrder, Before
<1>5. NothingToRetry'
  <2>1. work' # None /\ work'.step = "materialize" => FallsBack \/ Active.full
    BY DEF StartSave, Materialize, RematerializeOnce, FallBackToFull, Materializing, Calling,
           MixedInv, MixedSaves, NothingToRetry
  <2> QED BY <1>1, <1>2, <2>1 DEF MixedInv, MixedSaves, NothingToRetry
<1>6. CallEndsNewest'
  <2>1. CASE StartSave /\ ~Active.full
    <3>1. work' = Calling(FALSE, Active.text) /\ queue # <<>>
      BY <2>1 DEF StartSave
    <3>2. work'.text = Active.text /\ Active = queue[1] /\ 1 \in DOMAIN queue
      BY <3>1, MixedQueue DEF Calling
    <3>3. \A p \in Passage :
             \/ work'.text[p] = doc[p] \/ LaterConcerns(1, p)
             \/ work'.text[p] = None /\ ~Concerns(1, p)
      BY <2>1, <3>2 DEF MixedInv, MixedSaves, QueueEndsNewest, Concerns
    <3> QED BY <1>1, <3>3 DEF CallEndsNewest, LaterConcerns, Concerns
  <2>2. CASE Materialize
    <3>1. work'.text = doc
      BY <2>2 DEF Materialize, Calling
    <3> QED BY <1>1, <3>1 DEF CallEndsNewest
  <2>3. CASE RematerializeOnce \/ FallBackToFull \/ (StartSave /\ Active.full)
    <3>1. work' = Materializing(1) \/ work' = Materializing(2)
      BY <2>3 DEF RematerializeOnce, FallBackToFull, StartSave
    <3>2. work'.step = "materialize"
      BY <3>1 DEF Materializing
    <3> QED BY <3>2 DEF CallEndsNewest
  <2> QED BY <2>1, <2>2, <2>3
<1> QED BY <1>3, <1>4, <1>5, <1>6 DEF MixedSaves

\* The active save leaves the queue, and no receipt.
LEMMA DequeueKeepsMixed ==
    ASSUME MixedInv, queue # <<>>, queue' = Dequeued(queue), work' = None,
           receipts' = receipts, status' \in {None, Active.revision},
           UNCHANGED <<doc, revision, acks>>
    PROVE  /\ NothingToRetry' /\ QueueEndsNewest' /\ CallEndsNewest' /\ SavesInOrder'
           /\ \A p \in Passage : LaterConcerns(1, p) => Queued(p)'
<1>1. /\ \A i \in DOMAIN queue' : i \in Nat /\ i >= 1 /\ i + 1 \in DOMAIN queue
                                 /\ queue'[i] = queue[i + 1]
      /\ \A i \in DOMAIN queue : i \in Nat /\ (i > 1 => i - 1 \in DOMAIN queue'
                                                        /\ queue'[i - 1] = queue[i])
      /\ Active = queue[1] /\ 1 \in DOMAIN queue
  <2>1. queue \in Seq(Save) /\ Tail(queue) \in Seq(Save)
    BY QueueTail DEF MixedInv, TypeInv, TypeOK
  <2> QED BY <2>1, QueueTail DEF Dequeued, Active
<1>2. NothingToRetry'
  BY <1>1 DEF MixedInv, MixedSaves, NothingToRetry
<1>3. ASSUME NEW i \in DOMAIN queue', NEW p \in Passage, LaterConcerns(i + 1, p)
      PROVE  LaterConcerns(i, p)'
  <2>1. PICK j \in DOMAIN queue : j > i + 1 /\ Concerns(j, p)
    BY <1>3 DEF LaterConcerns
  <2>2. j > 1 /\ j - 1 \in DOMAIN queue' /\ j - 1 > i /\ p \in queue'[j - 1].target
    BY <1>1, <2>1 DEF Concerns
  <2> QED BY <2>2 DEF LaterConcerns, Concerns
<1>4. QueueEndsNewest'
  <2> SUFFICES ASSUME NEW i \in DOMAIN queue', NEW p \in Passage
               PROVE  IF p \in queue'[i].target
                      THEN queue'[i].full \/ queue'[i].text[p] = doc[p] \/ LaterConcerns(i, p)'
                      ELSE queue'[i].text[p] = None
    BY DEF QueueEndsNewest, LaterConcerns, Concerns
  <2> QED BY <1>1, <1>3 DEF MixedInv, MixedSaves, QueueEndsNewest
<1>5. CallEndsNewest'
  BY DEF CallEndsNewest
<1>6. SavesInOrder'
  <2>1. \A i, j \in DOMAIN queue' : i < j => queue'[i].revision < queue'[j].revision
    BY <1>1 DEF MixedInv, MixedSaves, SavesInOrder
  <2>2. \A i \in DOMAIN queue' : queue'[i].revision <= revision'
    BY <1>1 DEF MixedInv, MixedSaves, SavesInOrder
  <2>3. ASSUME NEW r \in Nat, Before(r) PROVE Before(r)'
    BY <1>1, <2>3 DEF Before
  <2>4. Active.revision \in Nat /\ Active.revision <= revision
        /\ \A i \in DOMAIN queue' : Active.revision < queue'[i].revision
    BY <1>1, MixedQueue DEF MixedInv, MixedSaves, SavesInOrder
  <2>5. \A r \in acks' : Before(r)'
    BY <2>3, MixedQueue DEF MixedInv, MixedSaves, SavesInOrder
  <2>6. status' # None => Before(status)'
    BY <2>4 DEF Before
  <2> QED BY <2>1, <2>2, <2>5, <2>6 DEF SavesInOrder
<1>7. ASSUME NEW p \in Passage, LaterConcerns(1, p) PROVE Queued(p)'
  BY <1>1, <1>7 DEF LaterConcerns, Queued, Concerns
<1> QED BY <1>2, <1>4, <1>5, <1>6, <1>7

\* A passage that waits waits for the active save or for a later one.
LEMMA QueuedNow ==
    ASSUME MixedInv, NEW p \in Passage, Queued(p)
    PROVE  Concerns(1, p) \/ LaterConcerns(1, p)
BY MixedQueue DEF Queued, LaterConcerns

LEMMA CompleteKeepsMixed ==
    ASSUME MixedInv, CompleteSave
    PROVE  MixedSaves'
<1>1. queue # <<>> /\ work # None /\ work.step = "call"
  BY DEF CompleteSave, MixedInv, TypeInv, TypeOK
<1>2. /\ queue' = Dequeued(queue) /\ work' = None /\ status' = Active.revision
      /\ UNCHANGED <<doc, revision, acks>> /\ receipts' = Cleared(Active)
      /\ disk' = [p \in Passage |-> IF work.text[p] # None THEN work.text[p] ELSE disk[p]]
      /\ failed' = {p \in failed : work.text[p] = None}
  BY DEF CompleteSave
<1>3. receipts' = receipts
  BY <1>2 DEF Cleared, MixedInv, MixedSaves, NothingToRetry, TypeInv, TypeOK
<1>4. /\ NothingToRetry' /\ QueueEndsNewest' /\ CallEndsNewest' /\ SavesInOrder'
      /\ \A p \in Passage : LaterConcerns(1, p) => Queued(p)'
  BY <1>1, <1>2, <1>3, DequeueKeepsMixed
<1>5. DiskEndsNewest'
  <2> SUFFICES ASSUME NEW p \in Passage, p \notin failed'
               PROVE  disk'[p] = doc[p] \/ Queued(p)'
    BY <1>2 DEF DiskEndsNewest
  <2>1. \/ work.text[p] = doc[p] \/ LaterConcerns(1, p)
        \/ work.text[p] = None /\ ~Concerns(1, p)
    BY <1>1 DEF MixedInv, MixedSaves, CallEndsNewest
  <2>2. CASE work.text[p] = doc[p]
    BY <1>2, <2>2, MixedQueue
  <2>3. CASE work.text[p] = None /\ ~Concerns(1, p)
    <3>1. disk[p] = doc[p] \/ Queued(p)
      BY <1>2, <2>3 DEF MixedInv, MixedSaves, DiskEndsNewest
    <3> QED BY <1>2, <1>4, <2>3, <3>1, QueuedNow
  <2> QED BY <1>4, <2>1, <2>2, <2>3
<1> QED BY <1>4, <1>5 DEF MixedSaves

LEMMA FailureKeepsMixed ==
    ASSUME NoReceipts, MixedInv, FailSave \/ FailMaterialize
    PROVE  MixedSaves'
<1>1. queue # <<>> /\ Failed
  BY FailuresType DEF MixedInv
<1>2. /\ queue' = Dequeued(queue) /\ work' = None /\ status' = None
      /\ UNCHANGED <<doc, revision, disk, acks>> /\ receipts' = Registered(Active)
      /\ failed' = failed \cup Active.target
  BY <1>1 DEF Failed
<1>3. Active = queue[1] /\ 1 \in DOMAIN queue
  BY <1>1, MixedQueue
<1>4. ~Active.barrier
  <2>1. Active.barrier => "persisted" \in Mutations /\ ~Active.full
    BY <1>3 DEF MixedInv, MixedSaves, NothingToRetry
  <2>2. FailSave => MaxFailures # 0
    BY DEF FailSave, MixedInv, TypeInv, TypeOK
  <2>3. FailMaterialize => FallsBack \/ Active.full
    BY DEF FailMaterialize, MixedInv, MixedSaves, NothingToRetry
  <2> QED BY <2>1, <2>2, <2>3 DEF NoReceipts
<1>5. receipts' = receipts
  BY <1>2, <1>4 DEF Registered, MixedInv, TypeInv, TypeOK
<1>6. /\ NothingToRetry' /\ QueueEndsNewest' /\ CallEndsNewest' /\ SavesInOrder'
      /\ \A p \in Passage : LaterConcerns(1, p) => Queued(p)'
  BY <1>1, <1>2, <1>5, DequeueKeepsMixed
<1>7. DiskEndsNewest'
  <2> SUFFICES ASSUME NEW p \in Passage, p \notin failed'
               PROVE  disk[p] = doc[p] \/ Queued(p)'
    BY <1>2 DEF DiskEndsNewest
  <2>1. p \notin failed /\ ~Concerns(1, p)
    BY <1>2, <1>3 DEF Concerns
  <2>2. disk[p] = doc[p] \/ Queued(p)
    BY <2>1 DEF MixedInv, MixedSaves, DiskEndsNewest
  <2> QED BY <1>6, <2>1, <2>2, QueuedNow
<1> QED BY <1>6, <1>7 DEF MixedSaves

LEMMA AcknowledgementKeepsMixed ==
    ASSUME MixedInv,
           UNCHANGED <<doc, revision, disk, queue, work, receipts, failed>>,
           \A r \in acks' : r \in acks \/ (status # None /\ r = status),
           status' # None => status' = status
    PROVE  MixedSaves'
<1>1. NothingToRetry'
  BY DEF MixedInv, MixedSaves, NothingToRetry, Active
<1>2. QueueEndsNewest' /\ CallEndsNewest' /\ DiskEndsNewest'
  BY DEF MixedInv, MixedSaves, QueueEndsNewest, CallEndsNewest, DiskEndsNewest, LaterConcerns,
         Queued, Concerns
<1>3. SavesInOrder'
  BY DEF MixedInv, MixedSaves, SavesInOrder, Before
<1> QED BY <1>1, <1>2, <1>3 DEF MixedSaves

LEMMA MixedInit == Init => MixedInv
<1> SUFFICES ASSUME Init PROVE MixedSaves
  BY InitType DEF MixedInv
<1>1. queue = <<>> /\ work = None /\ acks = {} /\ status = None
      /\ receipts = [p \in Passage |-> None] /\ disk = doc
  BY DEF Init
<1> QED BY <1>1 DEF MixedSaves, NothingToRetry, QueueEndsNewest, CallEndsNewest, SavesInOrder,
                    DiskEndsNewest

LEMMA MixedStep == NoReceipts /\ MixedInv /\ [Next]_vars => MixedInv'
<1> SUFFICES ASSUME NoReceipts, MixedInv, [Next]_vars PROVE MixedSaves'
  BY NextType DEF MixedInv
<1>1. ASSUME NEW p \in Passage, NEW t \in Text,
             PersistedEdit(p, t) \/ PlainEdit(p, t) \/ BroadEdit(p, t)
      PROVE  MixedSaves'
  BY <1>1, EditKeepsMixed DEF PersistedEdit, PlainEdit, BroadEdit
<1>2. ASSUME NEW p \in Passage, RetryPersistence(p) PROVE FALSE
  BY <1>2 DEF RetryPersistence, MixedInv, MixedSaves, NothingToRetry
<1>3. CASE NotifySaved \/ (\E r \in acks : AcknowledgeSaved(r)) \/ UNCHANGED vars
  <2>1. UNCHANGED <<doc, revision, disk, queue, work, receipts, failed>>
    BY <1>3 DEF NotifySaved, AcknowledgeSaved, vars, history
  <2>2. /\ \A r \in acks' : r \in acks \/ (status # None /\ r = status)
        /\ status' # None => status' = status
    BY <1>3 DEF NotifySaved, AcknowledgeSaved, vars
  <2> QED BY <2>1, <2>2, AcknowledgementKeepsMixed
<1> QED BY <1>1, <1>2, <1>3, WorkKeepsMixed, CompleteKeepsMixed, FailureKeepsMixed
        DEF Next, SaveStep

LEMMA MixedInvariant ==
    ASSUME NoReceipts
    PROVE  Spec => []MixedInv
<1>1. MixedInv /\ [Next]_vars => MixedInv'
  BY MixedStep
<1> QED BY <1>1, MixedInit, PTL DEF Spec

\* When the queue is empty, every passage whose last save did not fail is on
\* disk with the document's text, whatever mixture of edits, undos, structural
\* changes and whole-story saves came before, when no receipt is retried.
THEOREM NewestOfMixedOnDisk ==
    ASSUME NoReceipts
    PROVE  Spec => []IdleOnDisk
<1>1. MixedInv => IdleOnDisk
  <2>1. queue = <<>> => \A p \in Passage : ~Queued(p)
    BY DEF Queued
  <2> QED BY <2>1 DEF MixedInv, MixedSaves, DiskEndsNewest, IdleOnDisk
<1> QED BY <1>1, MixedInvariant, PTL

\* An acknowledgement is accepted only when no save is queued: what Rust then
\* takes for saved is on disk, for every passage whose last save did not fail.
THEOREM AcceptedOfMixedOnDisk ==
    ASSUME NoReceipts
    PROVE  Spec => AcknowledgedOnDisk
<1>1. MixedInv /\ [Next]_vars
        => [saved' # saved => \A p \in Passage \ failed : disk[p] = saved'[p]]_vars
  <2> SUFFICES ASSUME MixedInv, Next, saved' # saved, NEW p \in Passage \ failed
               PROVE  disk[p] = saved'[p]
    OBVIOUS
  <2>1. PICK r \in acks : AcknowledgeSaved(r)
    BY DEF Next, SaveStep, PersistedEdit, PlainEdit, BroadEdit, Apply, RetryPersistence,
       StartSave, Materialize, RematerializeOnce, FallBackToFull, FailMaterialize, FailSave,
       Failed, CompleteSave, NotifySaved
  <2>2. saved' = doc /\ r = revision
    BY <2>1 DEF AcknowledgeSaved, Accepts
  <2>3. Before(r)
    BY DEF MixedInv, MixedSaves, SavesInOrder
  <2>4. ASSUME NEW i \in DOMAIN queue PROVE FALSE
    <3>1. queue[i].revision <= revision /\ queue[i].revision \in Nat /\ revision \in Nat
      BY MixedQueue DEF MixedInv, MixedSaves, SavesInOrder
    <3> QED BY <2>2, <2>3, <3>1 DEF Before
  <2>5. ~Queued(p)
    BY <2>4 DEF Queued
  <2> QED BY <2>2, <2>5 DEF MixedInv, MixedSaves, DiskEndsNewest
<1> QED BY <1>1, MixedInvariant, PTL DEF Spec, AcknowledgedOnDisk

=============================================================================
