--------------------------- MODULE ProjectSession ---------------------------
(***************************************************************************)
(* The Rust document session (crates/twine_core/src/lib.rs): one project,  *)
(* its undo and redo stacks, its revision counter, and the two fingerprint *)
(* maps that decide whether the project is dirty.  The session is single   *)
(* threaded: every action below is one whole method of ProjectSession.     *)
(*                                                                         *)
(* A project is one story with its passages.  A field is a pair of the     *)
(* entity that owns it (the story or a passage) and an attribute; it is    *)
(* the unit the code fingerprints, while the entity is the unit a history  *)
(* delta replaces.  A fingerprint is the value it hashes.  A passage is     *)
(* identified with its name, so that a link names a passage.               *)
(***************************************************************************)
EXTENDS Integers, SequencesExt

CONSTANTS
  Passage,            \* passage ids
  PassageAttr,        \* fingerprinted attributes of a passage
  Content,            \* values a passage attribute or the script may have
  Empty,              \* the empty text, the empty tag list
  Links,              \* the passages each text links to
  Story,              \* the story, as the owner of the story fields
  None,               \* no start passage; an attribute of an absent passage
  DeltaId,            \* identities of external deltas
  NoId,               \* the empty delta id, which is never remembered
  MaxHistoryEntries,  \* MAX_HISTORY_ENTRIES
  MaxHistoryBytes,    \* MAX_HISTORY_BYTES
  RecordModes,        \* the record_history arguments callers use
  MaxChanges,         \* bound: fields and deletions in one delta
  MaxRevision         \* bound: the revision at which the model stops

StoryAttr == {"startPassage", "script"}
Field == ({Story} \X StoryAttr) \cup (Passage \X PassageAttr)
Value == Content \cup Passage \cup {None}
Start == <<Story, "startPassage">>
Script == <<Story, "script">>

\* The fields of a set of entities.
FieldsOf(entities) == {f \in Field : f[1] \in entities}

ASSUME ConstantsAssumption ==
  /\ Story \notin Passage
  /\ None \notin Content \cup Passage
  /\ Content \cap Passage = {}
  /\ "text" \in PassageAttr
  /\ IsFiniteSet(Passage) /\ IsFiniteSet(PassageAttr)
  /\ Empty \in Content
  /\ Links \in [Content -> SUBSET Passage]
  /\ RecordModes \subseteq BOOLEAN
  /\ MaxHistoryEntries \in Nat
  /\ MaxHistoryBytes \in Nat
  /\ MaxChanges \in Nat
  /\ MaxRevision \in Nat \ {0}
  /\ NoId \notin DeltaId

VARIABLES
  project,      \* the document
  current,      \* current_fingerprints: a cache of the document
  saved,        \* saved_fingerprints: the accepted disk baseline
  dirtyFields,  \* dirty_fields: a cache of where the two maps differ
  dirty,
  undoStack,
  redoStack,
  historyBytes,
  revision,     \* next_transaction_id
  appliedIds    \* applied_external_delta_ids, oldest first

docVars == <<project, current, saved, dirtyFields, dirty>>
historyVars == <<undoStack, redoStack, historyBytes>>
vars == <<project, current, saved, dirtyFields, dirty,
          undoStack, redoStack, historyBytes, revision, appliedIds>>

-----------------------------------------------------------------------------
(* Documents and deltas *)

Exists(doc, p) == \A a \in PassageAttr : doc[<<p, a>>] # None
PassagesOf(doc) == {p \in Passage : Exists(doc, p)}

\* passages.first(): some fixed order of the passage index.
FirstOf(passages) ==
  IF passages = {} THEN None ELSE CHOOSE p \in passages : TRUE

Without_KeepingStart(doc, ps) ==
  [f \in Field |-> IF f[1] \in ps THEN None ELSE doc[f]]
\* The document with passages ps removed; a removed start passage is
\* replaced by the first one that is left.
Without(doc, ps) ==
  [f \in Field |->
     IF f[1] \in ps THEN None
     ELSE IF f = Start /\ doc[Start] \in ps
          THEN FirstOf(PassagesOf(doc) \ ps)
     ELSE doc[f]]

\* The document with the attributes of passage p that values names set.
WithPassage(doc, p, values) ==
  [f \in Field |->
     IF f[1] = p /\ f[2] \in DOMAIN values THEN values[f[2]] ELSE doc[f]]

\* Passages that p's text links to and text does not, that no other passage
\* links to, and that the author never touched: they go with the link.
Orphaned(doc, p, text) ==
  {q \in (Links[doc[<<p, "text">>]] \ Links[text]) \ {doc[Start]} :
     /\ \A a \in PassageAttr : doc[<<q, a>>] = Empty
     /\ \A source \in PassagesOf(doc) \ {p} :
          q \notin Links[doc[<<source, "text">>]]}

\* Passages that come with a link of text that p's text does not have.
NewlyLinked(doc, p, text) ==
  {q \in Links[text] \ Links[doc[<<p, "text">>]] : ~Exists(doc, q)}

WithText(doc, p, text) ==
  [f \in Field |->
     IF f = <<p, "text">> THEN text
     ELSE IF f[1] \in Orphaned(doc, p, text) THEN None
     ELSE IF f[1] \in NewlyLinked(doc, p, text) THEN Empty
     ELSE doc[f]]

\* ProjectDelta::between: a story delta always carries the story's own
\* fields, and each passage that differs as a whole.
Touched(before, after) ==
  IF before = after THEN {}
  ELSE {Story} \cup {p \in Passage : \E a \in PassageAttr :
                                       before[<<p, a>>] # after[<<p, a>>]}

DeltaBetween(before, after) ==
  LET fields == FieldsOf(Touched(before, after))
  IN  [before |-> [f \in fields |-> before[f]],
       after  |-> [f \in fields |-> after[f]]]

\* ProjectDelta::apply, with one side of the delta.
Overlay(doc, side) ==
  [f \in Field |-> IF f \in DOMAIN side THEN side[f] ELSE doc[f]]

-----------------------------------------------------------------------------
(* Fingerprints and the dirty flag *)

\* sync_fingerprints_for_delta recomputes the touched fields only.
SyncedFingerprints(doc, fields) ==
  [f \in Field |-> IF f \in fields THEN doc[f] ELSE current[f]]

\* refresh_dirty_fields, over the touched fields only.
RefreshedDirty_NeverCleared(cur, sav, fields) ==
  dirtyFields \cup {f \in fields : cur[f] # sav[f]}
RefreshedDirty(cur, sav, fields) ==
  (dirtyFields \ fields) \cup {f \in fields : cur[f] # sav[f]}

\* The project becomes doc and the caches follow, as sync_fingerprints and
\* refresh_dirty do for a delta that touches the given fields.
ReplaceDocument(doc, fields) ==
  LET cur == SyncedFingerprints(doc, fields)
      dirt == RefreshedDirty(cur, saved, fields)
  IN  /\ project' = doc
      /\ current' = cur
      /\ dirtyFields' = dirt
      /\ dirty' = (dirt # {})
      /\ UNCHANGED saved

-----------------------------------------------------------------------------
(* History *)

StackBytes(stack) == FoldLeft(LAMBDA sum, t : sum + t.bytes, 0, stack)

\* saturating_sub
Minus(a, b) == IF b \in 0..a THEN a - b ELSE 0

\* What is left of the history bytes once push_undo has dropped the n oldest
\* entries of the stack, and whether its loop has to go on then.
BytesLeft(stack, bytes, n) == Minus(bytes, StackBytes(SubSeq(stack, 1, n)))
OverLimit(stack, bytes, n) ==
  \/ Len(stack) - n > MaxHistoryEntries
  \/ BytesLeft(stack, bytes, n) > MaxHistoryBytes

BytesWithoutRedo == Minus(historyBytes, StackBytes(redoStack))

ClearRedo_Skipped == UNCHANGED redoStack
ClearRedo == redoStack' = <<>>

\* push_undo
PushUndo(delta) ==
  LET t == [before |-> delta.before, after |-> delta.after,
            bytes |-> Cardinality(DOMAIN delta.before)]
      stack == Append(undoStack, t)
      bytes == BytesWithoutRedo + t.bytes
  IN  \E n \in 0..Len(stack) :
        /\ ~OverLimit(stack, bytes, n)
        /\ \A m \in 0..(n - 1) : OverLimit(stack, bytes, m)
        /\ undoStack' = SubSeq(stack, n + 1, Len(stack))
        /\ historyBytes' = BytesLeft(stack, bytes, n)

\* clear_redo, then push_undo of a delta if the command records history.
RecordTransaction(delta, record) ==
  /\ ClearRedo
  /\ IF record THEN PushUndo(delta)
     ELSE undoStack' = undoStack /\ historyBytes' = BytesWithoutRedo

-----------------------------------------------------------------------------
(* External deltas *)

PartialDocument == UNION {[fields -> Value] : fields \in SUBSET Field}

\* CoreExternalDelta: the fields its changes set, and the passages they
\* delete.  No two changes of a delta concern the same field, so their order
\* does not matter.
ExternalDelta ==
  {delta \in [values : PartialDocument, deleted : SUBSET Passage] :
     LET changed == DOMAIN delta.values IN
     /\ Cardinality(changed) + Cardinality(delta.deleted) \in 1..MaxChanges
     /\ \A f \in changed :
          /\ f[1] \notin delta.deleted
          /\ delta.values[f] \in IF f = Start THEN Passage \ delta.deleted
                                 ELSE Content}

\* Each change finds the passage it is about: only an upsert, which sets
\* every attribute, may name a passage the project does not have.
Resolves(delta) ==
  /\ delta.deleted \subseteq PassagesOf(project)
  /\ \A f \in DOMAIN delta.values :
       \/ f[1] \in PassagesOf(project) \cup {Story}
       \/ FieldsOf({f[1]}) \subseteq DOMAIN delta.values
  /\ Start \in DOMAIN delta.values =>
       \/ delta.values[Start] \in PassagesOf(project)
       \/ FieldsOf({delta.values[Start]}) \subseteq DOMAIN delta.values

\* apply_external_change for each of the delta's changes.
Candidate(delta) == Overlay(Without(project, delta.deleted), delta.values)

\* The fields that the delta's external_change_field_patterns match.
Patterns_ExactOnly(delta) == DOMAIN delta.values
Patterns(delta) == DOMAIN delta.values \cup FieldsOf(delta.deleted)

\* external_conflicts: dirty fields the delta names and would change.
ExternalConflicts(delta, doc) ==
  LET cur == SyncedFingerprints(doc, FieldsOf(Touched(project, doc)))
  IN  {f \in dirtyFields \cap Patterns(delta) : current[f] # cur[f]}

AlreadyApplied(id) == id # NoId /\ Contains(appliedIds, id)

\* remember_external_delta.
Remembered(id) ==
  IF id = NoId THEN appliedIds
  ELSE LET ids == Append(appliedIds, id)
       IN  IF Len(ids) > MaxHistoryEntries THEN Tail(ids) ELSE ids

-----------------------------------------------------------------------------
(* The session's methods *)

\* Any document a project may be opened with: a passage has all of its
\* attributes or none, and the start passage is one of the passages.
Documents ==
  {doc \in [Field -> Value] :
     /\ doc[Script] \in Content
     /\ \A p \in Passage :
          \/ \A a \in PassageAttr : doc[<<p, a>>] \in Content
          \/ \A a \in PassageAttr : doc[<<p, a>>] = None
     /\ doc[Start] \in PassagesOf(doc)
          \cup (IF PassagesOf(doc) = {} THEN {None} ELSE {})}

\* ProjectSession::new
Init ==
  /\ project \in Documents
  /\ current = project
  /\ saved = project
  /\ dirtyFields = {}
  /\ dirty = FALSE
  /\ undoStack = <<>>
  /\ redoStack = <<>>
  /\ historyBytes = 0
  /\ revision = 1
  /\ appliedIds = <<>>

\* The tail every command shares: apply_with_history once the command has
\* produced a document that differs from the one before.
Commit(doc, record) ==
  /\ doc # project
  /\ revision < MaxRevision
  /\ ReplaceDocument(doc, FieldsOf(Touched(project, doc)))
  /\ RecordTransaction(DeltaBetween(project, doc), record)
  /\ revision' = revision + 1
  /\ UNCHANGED appliedIds

UpdatePassageText(p, text, record) ==
  /\ Exists(project, p)
  /\ project[<<p, "text">>] # text
  /\ Commit(WithText(project, p, text), record)

UpdatePassage(p, values, record) ==
  /\ Exists(project, p)
  /\ Commit(WithPassage(project, p, values), record)

SetStartPassage(p, record) ==
  /\ Exists(project, p)
  /\ Commit([project EXCEPT ![Start] = p], record)

UpdateStoryScript(script, record) ==
  Commit([project EXCEPT ![Script] = script], record)

\* create_passage gives an empty story its start passage.
CreatePassage(p, values, record) ==
  /\ ~Exists(project, p)
  /\ LET doc == WithPassage(project, p, values)
     IN  Commit(IF doc[Start] = None THEN [doc EXCEPT ![Start] = p] ELSE doc,
                record)

DeletePassages(ps, record) ==
  /\ ps \subseteq PassagesOf(project)
  /\ Commit(Without(project, ps), record)

\* Undo and redo move a transaction between the stacks, where its bytes
\* stay accounted for, and count as a new revision.
Undo ==
  /\ undoStack # <<>>
  /\ revision < MaxRevision
  /\ LET t == Last(undoStack)
     IN  /\ ReplaceDocument(Overlay(project, t.before), DOMAIN t.before)
         /\ undoStack' = Front(undoStack)
         /\ redoStack' = Append(redoStack, t)
  /\ revision' = revision + 1
  /\ UNCHANGED <<historyBytes, appliedIds>>

Redo ==
  /\ redoStack # <<>>
  /\ revision < MaxRevision
  /\ LET t == Last(redoStack)
     IN  /\ ReplaceDocument(Overlay(project, t.after), DOMAIN t.after)
         /\ redoStack' = Front(redoStack)
         /\ undoStack' = Append(undoStack, t)
  /\ revision' = revision + 1
  /\ UNCHANGED <<historyBytes, appliedIds>>

\* acknowledge_saved accepts the fingerprints of the dirty fields only, and
\* only for the exact revision.
AcknowledgeSaved(r) ==
  /\ r = revision
  /\ saved' = [f \in Field |-> IF f \in dirtyFields THEN current[f]
                               ELSE saved[f]]
  /\ dirtyFields' = {}
  /\ dirty' = FALSE
  /\ UNCHANGED <<project, current, historyVars, revision, appliedIds>>

\* ingest_external_delta once no conflict stops it: the document follows the
\* delta, and the fields the delta names become the disk baseline.
IngestExternalDelta(id, delta, mode) ==
  LET doc == Candidate(delta)
      fields == FieldsOf(Touched(project, doc))
      cur == SyncedFingerprints(doc, fields)
      accepted == Patterns(delta)
      dirt == RefreshedDirty(cur, saved, fields) \ accepted
  IN
  /\ ~AlreadyApplied(id)
  /\ Resolves(delta)
  /\ mode = "auto" => ExternalConflicts(delta, doc) = {}
  /\ revision < MaxRevision
  /\ project' = doc
  /\ current' = cur
  /\ saved' = [f \in Field |-> IF f \in accepted THEN cur[f] ELSE saved[f]]
  /\ dirtyFields' = dirt
  /\ dirty' = (dirt # {})
  /\ appliedIds' = Remembered(id)
  /\ IF doc # project
     THEN /\ RecordTransaction(DeltaBetween(project, doc), TRUE)
          /\ revision' = revision + 1
     ELSE UNCHANGED <<historyVars, revision>>

Next ==
  \/ \E record \in RecordModes :
       \/ \E p \in Passage, v \in Content : UpdatePassageText(p, v, record)
       \/ \E p \in Passage, a \in PassageAttr, v \in Content :
            UpdatePassage(p, [x \in {a} |-> v], record)
       \/ \E p \in Passage : SetStartPassage(p, record)
       \/ \E v \in Content : UpdateStoryScript(v, record)
       \/ \E p \in Passage, values \in [PassageAttr -> Content] :
            CreatePassage(p, values, record)
       \/ \E ps \in SUBSET Passage : DeletePassages(ps, record)
  \/ Undo
  \/ Redo
  \/ \E r \in 1..MaxRevision : AcknowledgeSaved(r)
  \/ \E id \in DeltaId \cup {NoId}, delta \in ExternalDelta,
        mode \in {"auto", "force"} :
       IngestExternalDelta(id, delta, mode)

Spec == Init /\ [][Next]_vars

-----------------------------------------------------------------------------
(* Properties *)

Transaction == [before : PartialDocument, after : PartialDocument, bytes : Nat]

\* The shape of the state.
TypeOK ==
  /\ project \in [Field -> Value]
  /\ current \in [Field -> Value]
  /\ saved \in [Field -> Value]
  /\ dirtyFields \subseteq Field
  /\ dirty \in BOOLEAN
  /\ undoStack \in Seq(Transaction)
  /\ redoStack \in Seq(Transaction)
  /\ historyBytes \in Nat
  /\ revision \in 1..MaxRevision
  /\ appliedIds \in Seq(DeltaId)

\* The caches are exact although every method refreshes only the fields it
\* touched: the current fingerprints are those of the document, the dirty
\* fields are those that differ from the baseline, and the project is dirty
\* when there is one.  Hence undoing to a savepoint reports clean.
DirtyExact ==
  /\ current = project
  /\ dirtyFields = {f \in Field : project[f] # saved[f]}
  /\ dirty = (dirtyFields # {})

\* The byte counter accounts for exactly the transactions on the two stacks,
\* through eviction, clearing and moves between them, so push_undo's loop
\* always ends with a transaction left to remove; and both limits hold.
HistoryAccounted ==
  /\ historyBytes = StackBytes(undoStack) + StackBytes(redoStack)
  /\ historyBytes <= MaxHistoryBytes
  /\ Len(undoStack) + Len(redoStack) <= MaxHistoryEntries

\* The document n undo steps back, and n redo steps forward.
Rewound(n) ==
  FoldLeft(LAMBDA doc, t : Overlay(doc, t.before), project,
           SubSeq(Reverse(undoStack), 1, n))
Replayed(n) ==
  FoldLeft(LAMBDA doc, t : Overlay(doc, t.after), project,
           SubSeq(Reverse(redoStack), 1, n))

\* Every transaction on a stack finds, when its turn comes, exactly the
\* document it was recorded over: undo and redo never overwrite a change
\* that is not part of the transaction they move.
HistoryChain ==
  /\ \A n \in 1..Len(undoStack) :
       LET t == undoStack[Len(undoStack) - n + 1]
       IN  \A f \in DOMAIN t.after : Rewound(n - 1)[f] = t.after[f]
  /\ \A n \in 1..Len(redoStack) :
       LET t == redoStack[Len(redoStack) - n + 1]
       IN  \A f \in DOMAIN t.before : Replayed(n - 1)[f] = t.before[f]

\* The two stacks account for what they hold, and lead back and forth through
\* the documents they were recorded over.
HistoryConsistent == HistoryAccounted /\ HistoryChain

\* The start passage is never left naming a passage that is gone, whatever
\* the order of deletions, undo, redo and external merges.
StartPassageExists ==
  project[Start] # None => project[Start] \in PassagesOf(project)

\* A delta whose identity is still remembered is never applied again.
DeltaAppliedOnce == IsInjective(appliedIds)

\* A revision names one document: no method changes the document without
\* taking a new revision, and revisions are never reused.  This is what makes
\* acknowledging an exact revision meaningful.
RevisionNamesContent ==
  [][ /\ revision' >= revision
      /\ project' # project => revision' > revision ]_vars

\* The step merges an external delta without review.
AutoMerge ==
  \E id \in DeltaId \cup {NoId}, delta \in ExternalDelta :
    IngestExternalDelta(id, delta, "auto")

\* An automatic merge never overwrites an unsaved local edit.  The start
\* passage is the exception the code makes: deleting the passage it names
\* moves it without review.
AutoMergeKeepsLocalEdits ==
  [][ \A f \in dirtyFields :
        /\ project'[f] # project[f]
        /\ f = Start => project[Start] \in PassagesOf(project')
        => ~AutoMerge ]_vars

\* docs/architecture/persistence-and-watching.md: "Overlapping changes [...]
\* enter review."  The same without the exception.
OverlappingChangesEnterReview ==
  [][ \A f \in dirtyFields : project'[f] # project[f] => ~AutoMerge ]_vars

=============================================================================
