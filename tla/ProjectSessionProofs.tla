------------------------ MODULE ProjectSessionProofs ------------------------
(***************************************************************************)
(* Theorems about ProjectSession, for every value of its constants: the    *)
(* state keeps its shape, the incrementally maintained fingerprints and    *)
(* dirty fields are exact, a revision names one document, and the history  *)
(* accounts for its bytes and leads back through the documents it was      *)
(* recorded over.                                                          *)
(***************************************************************************)
EXTENDS ProjectSession, TLAPS, FiniteSetTheorems, SequenceTheorems, WellFoundedInduction

IInv == TypeOK /\ DirtyExact

-----------------------------------------------------------------------------
(* Documents *)

Document == [Field -> Value]

LEMMA FirstOfType ==
  ASSUME NEW ps \in SUBSET Passage
  PROVE  FirstOf(ps) \in Passage \cup {None}
BY Zenon DEF FirstOf

LEMMA WithoutType ==
  ASSUME NEW doc \in Document, NEW ps
  PROVE  Without(doc, ps) \in Document
<1>1. PassagesOf(doc) \ ps \in SUBSET Passage
  BY DEF PassagesOf
<1>2. FirstOf(PassagesOf(doc) \ ps) \in Value
  BY <1>1, FirstOfType DEF Value
<1>. QED
  BY <1>2 DEF Without, Document, Value

LEMMA WithPassageType ==
  ASSUME NEW doc \in Document, NEW p, NEW attrs, NEW values \in [attrs -> Content]
  PROVE  WithPassage(doc, p, values) \in Document
BY DEF WithPassage, Document, Value

LEMMA WithTextType ==
  ASSUME NEW doc \in Document, NEW p, NEW text \in Content
  PROVE  WithText(doc, p, text) \in Document
BY ConstantsAssumption DEF WithText, Document, Value

LEMMA OverlayType ==
  ASSUME NEW doc \in Document, NEW side \in PartialDocument
  PROVE  Overlay(doc, side) \in Document
BY DEF Overlay, PartialDocument, Document

\* A history delta covers every field in which its two documents differ.
LEMMA TouchedCovers ==
  ASSUME NEW before \in Document, NEW after \in Document,
         NEW f \in Field, before[f] # after[f]
  PROVE  f \in FieldsOf(Touched(before, after))
<1>1. CASE f \in {Story} \X StoryAttr
  BY <1>1 DEF Touched, FieldsOf
<1>2. CASE f \in Passage \X PassageAttr
  <2>1. /\ f[1] \in Passage
        /\ f[2] \in PassageAttr
        /\ f = <<f[1], f[2]>>
    BY <1>2
  <2>2. before[<<f[1], f[2]>>] # after[<<f[1], f[2]>>]
    BY <2>1
  <2>. QED
    BY <2>1, <2>2 DEF Touched, FieldsOf
<1>. QED
  BY <1>1, <1>2 DEF Field

LEMMA FieldFinite == IsFiniteSet(Field)
<1>1. IsFiniteSet({Story} \X StoryAttr)
  <2>1. IsFiniteSet({Story})
    BY FS_Singleton
  <2>2. IsFiniteSet(StoryAttr)
    <3>1. StoryAttr = {"startPassage"} \cup {"script"}
      BY DEF StoryAttr
    <3>2. IsFiniteSet({"startPassage"}) /\ IsFiniteSet({"script"})
      BY FS_Singleton
    <3>. QED
      BY <3>1, <3>2, FS_Union
  <2>. QED
    BY <2>1, <2>2, FS_Product
<1>2. IsFiniteSet(Passage \X PassageAttr)
  BY ConstantsAssumption, FS_Product
<1>. QED
  BY <1>1, <1>2, FS_Union DEF Field

LEMMA DeltaBetweenType ==
  ASSUME NEW before \in Document, NEW after \in Document
  PROVE  LET d == DeltaBetween(before, after)
         IN  /\ d.before \in PartialDocument
             /\ d.after \in PartialDocument
             /\ Cardinality(DOMAIN d.before) \in Nat
<1>. DEFINE fields == FieldsOf(Touched(before, after))
<1>1. fields \in SUBSET Field
  BY DEF FieldsOf
<1>2. Cardinality(fields) \in Nat
  <2>1. IsFiniteSet(fields)
    BY <1>1, FieldFinite, FS_Subset
  <2>. QED
    BY <2>1, FS_CardinalityType
<1>3. /\ [f \in fields |-> before[f]] \in [fields -> Value]
      /\ [f \in fields |-> after[f]] \in [fields -> Value]
  BY <1>1 DEF Document
<1>. QED
  BY <1>1, <1>2, <1>3 DEF DeltaBetween, PartialDocument

-----------------------------------------------------------------------------
(* The caches *)

DocumentType ==
  /\ project \in Document
  /\ current \in Document
  /\ saved \in Document
  /\ dirtyFields \subseteq Field
  /\ dirty \in BOOLEAN

\* Refreshing the touched fields keeps both caches exact, provided the
\* document changed in touched fields only.
LEMMA CachesFollow ==
  ASSUME DocumentType, DirtyExact,
         NEW doc \in Document, NEW fields \in SUBSET Field,
         \A f \in Field \ fields : doc[f] = project[f]
  PROVE  LET cur == SyncedFingerprints(doc, fields)
         IN  /\ cur = doc
             /\ RefreshedDirty(cur, saved, fields) =
                  {f \in Field : doc[f] # saved[f]}
<1>1. SyncedFingerprints(doc, fields) = doc
  BY DEF SyncedFingerprints, DirtyExact, Document
<1>2. RefreshedDirty(doc, saved, fields) = {f \in Field : doc[f] # saved[f]}
  BY DEF RefreshedDirty, DirtyExact
<1>. QED
  BY <1>1, <1>2

LEMMA ReplaceDocumentExact ==
  ASSUME DocumentType, DirtyExact,
         NEW doc \in Document, NEW fields \in SUBSET Field,
         \A f \in Field \ fields : doc[f] = project[f],
         ReplaceDocument(doc, fields)
  PROVE  DocumentType' /\ DirtyExact'
<1>1. /\ project' = doc /\ current' = doc /\ saved' = saved
      /\ dirtyFields' = {f \in Field : doc[f] # saved[f]}
      /\ dirty' = (dirtyFields' # {})
  BY CachesFollow DEF ReplaceDocument
<1>. QED
  BY <1>1 DEF DocumentType, DirtyExact

LEMMA CommitExact ==
  ASSUME DocumentType, DirtyExact, NEW doc \in Document, NEW record,
         Commit(doc, record)
  PROVE  DocumentType' /\ DirtyExact'
<1>1. \A f \in Field \ FieldsOf(Touched(project, doc)) : doc[f] = project[f]
  BY TouchedCovers DEF DocumentType
<1>2. FieldsOf(Touched(project, doc)) \in SUBSET Field
  BY DEF FieldsOf
<1>. QED
  BY <1>1, <1>2, ReplaceDocumentExact DEF Commit

\* Replacing the document by one side of a delta touches that side's fields.
LEMMA OverlayExact ==
  ASSUME DocumentType, DirtyExact, NEW side \in PartialDocument,
         ReplaceDocument(Overlay(project, side), DOMAIN side)
  PROVE  DocumentType' /\ DirtyExact'
<1>1. Overlay(project, side) \in Document
  BY OverlayType DEF DocumentType
<1>2. DOMAIN side \in SUBSET Field
  BY DEF PartialDocument
<1>3. \A f \in Field \ DOMAIN side : Overlay(project, side)[f] = project[f]
  BY DEF Overlay
<1>. QED
  BY <1>1, <1>2, <1>3, ReplaceDocumentExact

LEMMA AcknowledgeExact ==
  ASSUME DocumentType, DirtyExact, NEW r, AcknowledgeSaved(r)
  PROVE  DocumentType' /\ DirtyExact'
<1>1. saved' = project
  BY DEF AcknowledgeSaved, DocumentType, DirtyExact, Document
<1>. QED
  BY <1>1 DEF AcknowledgeSaved, DocumentType, DirtyExact

LEMMA ExternalDeltaType ==
  ASSUME NEW delta \in ExternalDelta
  PROVE  delta.values \in PartialDocument /\ delta.deleted \in SUBSET Passage
BY DEF ExternalDelta

LEMMA CandidateType ==
  ASSUME DocumentType, NEW delta \in ExternalDelta
  PROVE  Candidate(delta) \in Document
BY ExternalDeltaType, WithoutType, OverlayType DEF Candidate, DocumentType

LEMMA IngestExact ==
  ASSUME DocumentType, DirtyExact, NEW id, NEW delta \in ExternalDelta, NEW mode,
         IngestExternalDelta(id, delta, mode)
  PROVE  DocumentType' /\ DirtyExact'
<1>. DEFINE doc == Candidate(delta)
            fields == FieldsOf(Touched(project, doc))
            accepted == Patterns(delta)
<1>1. doc \in Document
  BY CandidateType
<1>2. \A f \in Field \ fields : doc[f] = project[f]
  BY <1>1, TouchedCovers DEF DocumentType
<1>3. fields \in SUBSET Field
  BY DEF FieldsOf
<1>4. /\ SyncedFingerprints(doc, fields) = doc
      /\ RefreshedDirty(doc, saved, fields) = {f \in Field : doc[f] # saved[f]}
  <2>. HIDE DEF doc, fields
  <2>. QED
    BY <1>1, <1>2, <1>3, CachesFollow
<1>5. /\ project' = doc
      /\ current' = doc
      /\ saved' = [f \in Field |-> IF f \in accepted THEN doc[f] ELSE saved[f]]
      /\ dirtyFields' = {f \in Field : doc[f] # saved[f]} \ accepted
      /\ dirty' = (dirtyFields' # {})
  BY <1>4 DEF IngestExternalDelta
<1>. HIDE DEF doc, fields, accepted
<1>6. saved' \in Document
  BY <1>1, <1>5 DEF DocumentType, Document
<1>7. dirtyFields' = {f \in Field : project'[f] # saved'[f]}
  BY <1>5
<1>. QED
  BY <1>1, <1>5, <1>6, <1>7 DEF DocumentType, DirtyExact

-----------------------------------------------------------------------------
(* History *)

HistoryType ==
  /\ undoStack \in Seq(Transaction)
  /\ redoStack \in Seq(Transaction)
  /\ historyBytes \in Nat

LEMMA MinusType ==
  ASSUME NEW a \in Nat, NEW b
  PROVE  Minus(a, b) \in Nat
BY DEF Minus

LEMMA RecordTransactionType ==
  ASSUME HistoryType, NEW before \in Document, NEW after \in Document,
         NEW record, RecordTransaction(DeltaBetween(before, after), record)
  PROVE  HistoryType'
<1>. DEFINE delta == DeltaBetween(before, after)
            t == [before |-> delta.before, after |-> delta.after,
                  bytes |-> Cardinality(DOMAIN delta.before)]
            stack == Append(undoStack, t)
            bytes == BytesWithoutRedo + t.bytes
<1>1. t \in Transaction
  BY DeltaBetweenType DEF Transaction
<1>2. BytesWithoutRedo \in Nat
  BY MinusType DEF HistoryType, BytesWithoutRedo
<1>3. redoStack' = <<>> /\ redoStack' \in Seq(Transaction)
  BY DEF RecordTransaction, ClearRedo
<1>4. CASE record
  <2>1. stack \in Seq(Transaction)
    BY <1>1 DEF HistoryType
  <2>2. bytes \in Nat
    BY <1>1, <1>2 DEF Transaction
  <2>3. PICK n \in 0..Len(stack) :
          /\ undoStack' = SubSeq(stack, n + 1, Len(stack))
          /\ historyBytes' = BytesLeft(stack, bytes, n)
    BY <1>4 DEF RecordTransaction, PushUndo
  <2>. HIDE DEF stack, bytes
  <2>4. undoStack' \in Seq(Transaction)
    <3>1. /\ n + 1 \in Int
          /\ Len(stack) \in Int
          /\ \A i \in (n + 1)..Len(stack) : stack[i] \in Transaction
      BY <2>1
    <3>. QED
      BY <2>3, <3>1, SubSeqProperties
  <2>5. historyBytes' \in Nat
    BY <2>2, <2>3, MinusType DEF BytesLeft
  <2>. QED
    BY <1>3, <2>4, <2>5 DEF HistoryType
<1>5. CASE ~record
  BY <1>2, <1>3, <1>5 DEF RecordTransaction, HistoryType
<1>. QED
  BY <1>4, <1>5

LEMMA StackMoveType ==
  ASSUME NEW from \in Seq(Transaction), NEW to \in Seq(Transaction), from # <<>>
  PROVE  /\ Last(from) \in Transaction
         /\ Front(from) \in Seq(Transaction)
         /\ Append(to, Last(from)) \in Seq(Transaction)
<1>1. Last(from) \in Transaction
  BY DEF Last
<1>2. Front(from) \in Seq(Transaction)
  BY SubSeqProperties DEF Front
<1>. QED
  BY <1>1, <1>2, AppendProperties

LEMMA RememberedType ==
  ASSUME NEW id \in DeltaId \cup {NoId}, appliedIds \in Seq(DeltaId)
  PROVE  Remembered(id) \in Seq(DeltaId)
<1>1. CASE id = NoId
  BY <1>1 DEF Remembered
<1>2. CASE id # NoId
  <2>1. /\ Append(appliedIds, id) \in Seq(DeltaId)
        /\ Append(appliedIds, id) # <<>>
    BY <1>2, AppendProperties
  <2>2. Tail(Append(appliedIds, id)) \in Seq(DeltaId)
    BY <2>1, HeadTailProperties
  <2>. QED
    BY <1>2, <2>1, <2>2 DEF Remembered
<1>. QED
  BY <1>1, <1>2

-----------------------------------------------------------------------------
(* The theorems *)

\* What every step keeps, in the parts the lemmas above are about.
LEMMA TypeParts ==
  TypeOK <=> /\ DocumentType
             /\ HistoryType
             /\ revision \in 1..MaxRevision
             /\ appliedIds \in Seq(DeltaId)
BY DEF TypeOK, DocumentType, HistoryType, Document

LEMMA CommitInv ==
  ASSUME IInv, NEW doc \in Document, NEW record, Commit(doc, record)
  PROVE  IInv'
<1>1. DocumentType' /\ DirtyExact'
  BY CommitExact, TypeParts DEF IInv
<1>2. HistoryType'
  BY RecordTransactionType, TypeParts DEF IInv, Commit, DocumentType
<1>3. revision' \in 1..MaxRevision /\ appliedIds' \in Seq(DeltaId)
  BY ConstantsAssumption DEF Commit, IInv, TypeOK
<1>. QED
  BY <1>1, <1>2, <1>3
     DEF IInv, TypeOK, DocumentType, HistoryType, Document

LEMMA InitInv == Init => IInv
<1>. SUFFICES ASSUME Init PROVE IInv
  OBVIOUS
<1>1. project \in Document
  BY DEF Init, Documents, Document
<1>2. DocumentType /\ HistoryType /\ appliedIds \in Seq(DeltaId)
  <2>1. DocumentType
    BY <1>1 DEF Init, DocumentType
  <2>2. undoStack = <<>> /\ redoStack = <<>> /\ appliedIds = <<>>
        /\ historyBytes = 0
    BY DEF Init
  <2>3. <<>> \in Seq(Transaction) /\ <<>> \in Seq(DeltaId)
    OBVIOUS
  <2>. QED
    BY <2>1, <2>2, <2>3 DEF HistoryType
<1>3. revision \in 1..MaxRevision
  BY ConstantsAssumption DEF Init
<1>4. DirtyExact
  BY DEF Init, DirtyExact
<1>. QED
  BY <1>2, <1>3, <1>4, TypeParts DEF IInv

LEMMA NextInv == IInv /\ [Next]_vars => IInv'
<1>. SUFFICES ASSUME IInv, [Next]_vars PROVE IInv'
  OBVIOUS
<1>. USE TypeParts DEF IInv
<1>0. project \in Document
  BY DEF DocumentType
<1>1. ASSUME NEW p \in Passage, NEW v \in Content, NEW record,
             UpdatePassageText(p, v, record)
      PROVE  IInv'
  BY <1>0, <1>1, WithTextType, CommitInv DEF UpdatePassageText
<1>2. ASSUME NEW p \in Passage, NEW a \in PassageAttr, NEW v \in Content,
             NEW record, UpdatePassage(p, [x \in {a} |-> v], record)
      PROVE  IInv'
  <2>1. [x \in {a} |-> v] \in [{a} -> Content]
    OBVIOUS
  <2>2. WithPassage(project, p, [x \in {a} |-> v]) \in Document
    BY <1>0, <2>1, WithPassageType
  <2>. QED
    BY <1>2, <2>2, CommitInv DEF UpdatePassage
<1>3. ASSUME NEW p \in Passage, NEW record, SetStartPassage(p, record)
      PROVE  IInv'
  <2>1. [project EXCEPT ![Start] = p] \in Document
    BY <1>0 DEF Document, Value
  <2>. QED
    BY <1>3, <2>1, CommitInv DEF SetStartPassage
<1>4. ASSUME NEW v \in Content, NEW record, UpdateStoryScript(v, record)
      PROVE  IInv'
  <2>1. [project EXCEPT ![Script] = v] \in Document
    BY <1>0 DEF Document, Value
  <2>. QED
    BY <1>4, <2>1, CommitInv DEF UpdateStoryScript
<1>5. ASSUME NEW p \in Passage, NEW values \in [PassageAttr -> Content],
             NEW record, CreatePassage(p, values, record)
      PROVE  IInv'
  <2>. DEFINE doc == WithPassage(project, p, values)
  <2>1. doc \in Document
    BY <1>0, WithPassageType
  <2>2. [doc EXCEPT ![Start] = p] \in Document
    BY <2>1 DEF Document, Value
  <2>. HIDE DEF doc
  <2>3. (IF doc[Start] = None THEN [doc EXCEPT ![Start] = p] ELSE doc)
          \in Document
    BY <2>1, <2>2
  <2>4. Commit(IF doc[Start] = None THEN [doc EXCEPT ![Start] = p] ELSE doc,
               record)
    BY <1>5 DEF CreatePassage, doc
  <2>. QED
    BY <2>3, <2>4, CommitInv
<1>6. ASSUME NEW ps \in SUBSET Passage, NEW record, DeletePassages(ps, record)
      PROVE  IInv'
  BY <1>0, <1>6, WithoutType, CommitInv DEF DeletePassages
<1>7. ASSUME Undo PROVE IInv'
  <2>1. /\ Last(undoStack) \in Transaction
        /\ undoStack' \in Seq(Transaction)
        /\ redoStack' \in Seq(Transaction)
    BY <1>7, StackMoveType DEF Undo, HistoryType
  <2>2. DocumentType' /\ DirtyExact'
    BY <1>7, <2>1, OverlayExact DEF Undo, Transaction
  <2>3. HistoryType' /\ appliedIds' \in Seq(DeltaId)
    BY <1>7, <2>1 DEF Undo, HistoryType
  <2>4. revision' \in 1..MaxRevision
    BY <1>7, ConstantsAssumption DEF Undo
  <2>. QED
    BY <2>2, <2>3, <2>4 DEF TypeOK, DocumentType, HistoryType, Document
<1>8. ASSUME Redo PROVE IInv'
  <2>1. /\ Last(redoStack) \in Transaction
        /\ undoStack' \in Seq(Transaction)
        /\ redoStack' \in Seq(Transaction)
    BY <1>8, StackMoveType DEF Redo, HistoryType
  <2>2. DocumentType' /\ DirtyExact'
    BY <1>8, <2>1, OverlayExact DEF Redo, Transaction
  <2>3. HistoryType' /\ appliedIds' \in Seq(DeltaId)
    BY <1>8, <2>1 DEF Redo, HistoryType
  <2>4. revision' \in 1..MaxRevision
    BY <1>8, ConstantsAssumption DEF Redo
  <2>. QED
    BY <2>2, <2>3, <2>4 DEF TypeOK, DocumentType, HistoryType, Document
<1>9. ASSUME NEW r, AcknowledgeSaved(r) PROVE IInv'
  <2>1. DocumentType' /\ DirtyExact'
    BY <1>9, AcknowledgeExact
  <2>. QED
    BY <1>9, <2>1
       DEF AcknowledgeSaved, historyVars, TypeOK, DocumentType, HistoryType, Document
<1>10. ASSUME NEW id \in DeltaId \cup {NoId}, NEW delta \in ExternalDelta,
              NEW mode, IngestExternalDelta(id, delta, mode)
       PROVE  IInv'
  <2>1. DocumentType' /\ DirtyExact'
    BY <1>10, IngestExact
  <2>2. Candidate(delta) \in Document
    BY CandidateType
  <2>3. HistoryType' /\ revision' \in 1..MaxRevision
    <3>1. CASE Candidate(delta) # project
      <4>1. RecordTransaction(DeltaBetween(project, Candidate(delta)), TRUE)
        BY <1>10, <3>1 DEF IngestExternalDelta
      <4>2. HistoryType'
        BY <1>0, <2>2, <4>1, RecordTransactionType
      <4>. QED
        BY <1>10, <3>1, <4>2, ConstantsAssumption DEF IngestExternalDelta
    <3>2. CASE Candidate(delta) = project
      BY <1>10, <3>2 DEF IngestExternalDelta, historyVars, HistoryType
    <3>. QED
      BY <3>1, <3>2
  <2>4. appliedIds' \in Seq(DeltaId)
    BY <1>10, RememberedType DEF IngestExternalDelta
  <2>. QED
    BY <2>1, <2>3, <2>4 DEF TypeOK, DocumentType, HistoryType, Document
<1>11. CASE UNCHANGED vars
  BY <1>11 DEF vars, TypeOK, DirtyExact
<1>. QED
  BY <1>1, <1>2, <1>3, <1>4, <1>5, <1>6, <1>7, <1>8, <1>9, <1>10, <1>11
     DEF Next

\* The session's state keeps its shape.
THEOREM TypeCorrect == Spec => []TypeOK
<1>1. IInv => TypeOK
  BY DEF IInv
<1>. QED
  BY InitInv, NextInv, <1>1, PTL DEF Spec

\* The dirty flag and dirty fields always tell exactly where the document
\* differs from the accepted disk baseline.
THEOREM DirtyCorrect == Spec => []DirtyExact
<1>1. IInv => DirtyExact
  BY DEF IInv
<1>. QED
  BY InitInv, NextInv, <1>1, PTL DEF Spec

\* No method changes the document without taking a revision of its own.
THEOREM RevisionsNameContent == Spec => RevisionNamesContent
<1>. DEFINE step == /\ revision' >= revision
                    /\ project' # project => revision' > revision
<1>1. IInv /\ [Next]_vars => [step]_vars
  <2>. SUFFICES ASSUME IInv, Next PROVE step
    OBVIOUS
  <2>1. revision \in Int
    BY DEF IInv, TypeOK
  <2>2. ASSUME NEW doc, NEW record, Commit(doc, record) PROVE step
    BY <2>1, <2>2 DEF Commit
  <2>3. ASSUME NEW r, AcknowledgeSaved(r) PROVE step
    BY <2>1, <2>3 DEF AcknowledgeSaved
  <2>4. ASSUME NEW id, NEW delta, NEW mode, IngestExternalDelta(id, delta, mode)
        PROVE  step
    <3>1. CASE Candidate(delta) = project
      BY <2>1, <2>4, <3>1 DEF IngestExternalDelta
    <3>2. CASE Candidate(delta) # project
      BY <2>1, <2>4, <3>2 DEF IngestExternalDelta
    <3>. QED
      BY <3>1, <3>2
  <2>5. ASSUME Undo \/ Redo PROVE step
    BY <2>1, <2>5 DEF Undo, Redo
  <2>. HIDE DEF step
  <2>. QED
    BY <2>2, <2>3, <2>4, <2>5
       DEF Next, UpdatePassageText, UpdatePassage, SetStartPassage,
           UpdateStoryScript, CreatePassage, DeletePassages
<1>. QED
  BY InitInv, NextInv, <1>1, PTL DEF Spec, RevisionNamesContent

\* A merge that no conflict stops changes a dirty field only when the field
\* is the start passage and the delta deletes the passage it names.
LEMMA MergeKeepsField ==
  ASSUME IInv, NEW id, NEW delta \in ExternalDelta,
         IngestExternalDelta(id, delta, "auto"),
         NEW f \in dirtyFields, project'[f] # project[f]
  PROVE  f = Start /\ project[Start] \notin PassagesOf(project')
<1>. DEFINE doc == Candidate(delta)
            fields == FieldsOf(Touched(project, doc))
<1>1. project \in Document /\ doc \in Document /\ f \in Field
  BY TypeParts, CandidateType DEF IInv, DocumentType
<1>2. project' = doc /\ ExternalConflicts(delta, doc) = {}
  BY DEF IngestExternalDelta
<1>3. SyncedFingerprints(doc, fields) = doc
  <2>1. \A g \in Field \ fields : doc[g] = project[g]
    BY <1>1, TouchedCovers
  <2>2. fields \in SUBSET Field
    BY DEF FieldsOf
  <2>. HIDE DEF doc, fields
  <2>. QED
    BY <1>1, <2>1, <2>2, CachesFollow, TypeParts DEF IInv
<1>4. f \notin Patterns(delta)
  <2>1. current[f] # SyncedFingerprints(doc, fields)[f]
    BY <1>2, <1>3 DEF IInv, DirtyExact
  <2>. QED
    BY <1>2, <2>1 DEF ExternalConflicts
<1>5. f = Start /\ project[Start] \in delta.deleted
  <2>1. f \notin DOMAIN delta.values /\ f[1] \notin delta.deleted
    BY <1>1, <1>4 DEF Patterns, FieldsOf
  <2>2. doc[f] = Without(project, delta.deleted)[f]
    BY <1>1, <2>1 DEF Candidate, Overlay
  <2>3. Without(project, delta.deleted)[f] # project[f]
    BY <1>2, <2>2
  <2>. QED
    BY <1>1, <2>1, <2>3 DEF Without
<1>6. project[Start] \notin PassagesOf(doc)
  <2>. DEFINE p == project[Start]
              g == <<p, "text">>
  <2>1. p \in Passage /\ g \in Field
    BY <1>5, ExternalDeltaType, ConstantsAssumption DEF Field
  <2>2. g \notin DOMAIN delta.values
    BY <1>5 DEF ExternalDelta
  <2>3. doc[g] = None
    BY <1>5, <2>1, <2>2 DEF Candidate, Overlay, Without
  <2>. QED
    BY <2>3, ConstantsAssumption DEF PassagesOf, Exists
<1>. QED
  BY <1>2, <1>5, <1>6

\* An automatic merge never overwrites an unsaved local edit, except the
\* choice of a start passage that the delta deletes.
THEOREM MergesKeepLocalEdits == Spec => AutoMergeKeepsLocalEdits
<1>. DEFINE kept == \A f \in dirtyFields :
                      /\ project'[f] # project[f]
                      /\ f = Start => project[Start] \in PassagesOf(project')
                      => ~AutoMerge
<1>1. IInv /\ [Next]_vars => [kept]_vars
  BY MergeKeepsField DEF AutoMerge
<1>. QED
  BY InitInv, NextInv, <1>1, PTL DEF Spec, AutoMergeKeepsLocalEdits

\* Remembering an identity that is not remembered keeps them distinct.
LEMMA RememberedDistinct ==
  ASSUME appliedIds \in Seq(DeltaId), DeltaAppliedOnce,
         NEW id \in DeltaId \cup {NoId}, ~AlreadyApplied(id)
  PROVE  IsInjective(Remembered(id))
<1>1. CASE id = NoId
  BY <1>1 DEF Remembered, DeltaAppliedOnce
<1>2. CASE id # NoId
  <2>. DEFINE ids == Append(appliedIds, id)
  <2>1. \A i \in 1..Len(appliedIds) : appliedIds[i] # id
    BY <1>2 DEF AlreadyApplied, Contains
  <2>2. /\ ids \in Seq(DeltaId) /\ ids # <<>>
        /\ Len(ids) = Len(appliedIds) + 1
        /\ \A i \in 1..Len(appliedIds) : ids[i] = appliedIds[i]
        /\ ids[Len(appliedIds) + 1] = id
    BY <1>2, AppendProperties
  <2>3. \A i, j \in 1..Len(ids) : ids[i] = ids[j] => i = j
    BY <2>1, <2>2 DEF DeltaAppliedOnce, IsInjective
  <2>. HIDE DEF ids
  <2>4. IsInjective(ids)
    BY <2>2, <2>3 DEF IsInjective
  <2>5. IsInjective(Tail(ids))
    <3>1. /\ Tail(ids) \in Seq(DeltaId)
          /\ Len(Tail(ids)) = Len(ids) - 1
          /\ \A i \in 1..Len(Tail(ids)) : Tail(ids)[i] = ids[i + 1]
      BY <2>2, HeadTailProperties
    <3>. QED
      BY <2>2, <2>3, <3>1 DEF IsInjective
  <2>. QED
    BY <1>2, <2>4, <2>5 DEF Remembered, ids
<1>. QED
  BY <1>1, <1>2

\* An external delta is applied once as long as its identity is remembered.
THEOREM DeltasAppliedOnce == Spec => []DeltaAppliedOnce
<1>1. Init => DeltaAppliedOnce
  BY DEF Init, DeltaAppliedOnce, IsInjective
<1>2. IInv /\ DeltaAppliedOnce /\ [Next]_vars => DeltaAppliedOnce'
  <2>. SUFFICES ASSUME IInv, DeltaAppliedOnce, [Next]_vars
                PROVE  DeltaAppliedOnce'
    OBVIOUS
  <2>1. ASSUME NEW id \in DeltaId \cup {NoId}, NEW delta, NEW mode,
               IngestExternalDelta(id, delta, mode)
        PROVE  DeltaAppliedOnce'
    <3>1. ~AlreadyApplied(id) /\ appliedIds' = Remembered(id)
      BY <2>1 DEF IngestExternalDelta
    <3>2. IsInjective(Remembered(id))
      BY <3>1, RememberedDistinct DEF IInv, TypeOK
    <3>. QED
      BY <3>1, <3>2 DEF DeltaAppliedOnce
  <2>2. CASE UNCHANGED appliedIds
    BY <2>2 DEF DeltaAppliedOnce
  <2>. QED
    BY <2>1, <2>2
       DEF Next, vars, Commit, UpdatePassageText, UpdatePassage,
           SetStartPassage, UpdateStoryScript, CreatePassage, DeletePassages,
           Undo, Redo, AcknowledgeSaved
<1>. QED
  BY InitInv, NextInv, <1>1, <1>2, PTL DEF Spec

-----------------------------------------------------------------------------
(* Induction *)

\* A set of numbers has a least one; the library states it for a relation.
LEMMA LeastNumber ==
  ASSUME NEW T \in SUBSET Nat, T # {}
  PROVE  \E n \in T : \A m \in T : n <= m
<1>. DEFINE R == {ss \in Nat \X Nat : ss[1] < ss[2]}
<1>1. OpToRel(<, Nat) = R
  BY Zenon DEF OpToRel
<1>2. IsWellFoundedOn(R, Nat)
  BY <1>1, NatLessThanWellFounded, Zenon
<1>3. \E x \in T : \A y \in T : <<y, x>> \notin R
  <2>. HIDE DEF R
  <2>. QED
    BY <1>2, WFMin, Zenon
<1>4. PICK x \in T : \A y \in T : <<y, x>> \notin R
  BY <1>3
<1>5. ASSUME NEW m \in T PROVE x <= m
  <2>1. <<m, x>> \in R <=> m < x
    OBVIOUS
  <2>2. x \in Nat /\ m \in Nat
    OBVIOUS
  <2>. QED
    BY <1>4, <2>1, <2>2
<1>. QED
  BY <1>4, <1>5

\* Induction over the numbers, with the set of those it holds for.
LEMMA Induction ==
  ASSUME NEW P, 0 \in P, \A n \in Nat : n \in P => n + 1 \in P
  PROVE  Nat \subseteq P
<1>. SUFFICES ASSUME Nat \ P # {} PROVE FALSE
  OBVIOUS
<1>1. PICK n \in Nat \ P : \A m \in Nat \ P : n <= m
  <2>1. Nat \ P \in SUBSET Nat
    OBVIOUS
  <2>. QED
    BY <2>1, LeastNumber, Zenon
<1>2. n # 0 /\ n - 1 \in Nat /\ n - 1 + 1 = n
  BY <1>1
<1>3. n - 1 \in P
  BY <1>1, <1>2
<1>. QED
  BY <1>1, <1>2, <1>3

LEMMA MaxIs ==
  ASSUME NEW n \in Nat, NEW s \in SUBSET (1..n), s # {}
  PROVE  Max(s) \in s /\ \A i \in s : Max(s) >= i
<1>. DEFINE T == {n - i : i \in s}
<1>1. T \in SUBSET Nat /\ T # {}
  <2>1. \A i \in s : i \in 1..n /\ n - i \in Nat
    OBVIOUS
  <2>. QED
    BY <2>1
<1>2. PICK k \in T : \A m \in T : k <= m
  BY <1>1, LeastNumber
<1>3. PICK j \in s : k = n - j
  BY <1>2
<1>4. \A i \in s : j >= i
  BY <1>2, <1>3
<1>. QED
  BY <1>3, <1>4, Zenon DEF Max

LEMMA MaxInterval ==
  ASSUME NEW k \in Nat \ {0}
  PROVE  Max(1..k) = k /\ 1..k # {} /\ (1..k) \ {k} = 1..(k - 1)
<1>1. k \in 1..k /\ (1..k) \ {k} = 1..(k - 1)
  OBVIOUS
<1>2. Max(1..k) \in 1..k /\ \A i \in 1..k : Max(1..k) >= i
  BY <1>1, MaxIs
<1>. QED
  BY <1>1, <1>2

-----------------------------------------------------------------------------
(* Folds from the left *)

\* The solutions of the recursion FoldLeft is defined by, over every subset
\* of the sequence's places, for an operation given as a function.
Fold(h, seq, base, F) ==
  h = [s \in SUBSET (DOMAIN seq) |->
         IF s = {} THEN base ELSE F[<<h[s \ {Max(s)}], seq[Max(s)]>>]]

\* There is one, so that the one FoldLeft chooses is one.
LEMMA FoldExists ==
  ASSUME NEW A, NEW T, NEW F \in [A \X T -> A], NEW base \in A, NEW seq \in Seq(T)
  PROVE  \E h \in [SUBSET (DOMAIN seq) -> A] : Fold(h, seq, base, F)
<1>. DEFINE Part(n, h) ==
              \A s \in SUBSET (1..n) :
                h[s] = IF s = {} THEN base ELSE F[<<h[s \ {Max(s)}], seq[Max(s)]>>]
            P == {n \in Nat : n <= Len(seq) => \E h \in [SUBSET (1..n) -> A] : Part(n, h)}
<1>1. 0 \in P
  <2>1. [s \in SUBSET (1..0) |-> base] \in [SUBSET (1..0) -> A]
    OBVIOUS
  <2>2. \A s \in SUBSET (1..0) : s = {}
    OBVIOUS
  <2>3. Part(0, [s \in SUBSET (1..0) |-> base])
    BY <2>2
  <2>. QED
    BY <2>1, <2>3
<1>2. ASSUME NEW n \in Nat, n \in P, n + 1 <= Len(seq)
      PROVE  \E h \in [SUBSET (1..(n + 1)) -> A] : Part(n + 1, h)
  <2>1. PICK g \in [SUBSET (1..n) -> A] : Part(n, g)
    <3>1. n <= Len(seq)
      BY <1>2
    <3>. HIDE DEF Part
    <3>. QED
      BY <1>2, <3>1
  <2>. DEFINE N == n + 1
              h == [s \in SUBSET (1..N) |->
                      IF N \in s THEN F[<<g[s \ {N}], seq[N]>>] ELSE g[s]]
  <2>2. /\ N \in 1..N /\ N \in 1..Len(seq) /\ seq[N] \in T
        /\ \A s \in SUBSET (1..N) : s \ {N} \in SUBSET (1..n)
    BY <1>2
  <2>3. h \in [SUBSET (1..N) -> A]
    <3>1. ASSUME NEW s \in SUBSET (1..N), N \in s PROVE F[<<g[s \ {N}], seq[N]>>] \in A
      BY <2>2
    <3>2. ASSUME NEW s \in SUBSET (1..N), N \notin s PROVE g[s] \in A
      <4>1. s = s \ {N}
        BY <3>2
      <4>. QED
        BY <2>2, <4>1
    <3>. QED
      BY <3>1, <3>2
  <2>4. ASSUME NEW s \in SUBSET (1..N)
        PROVE  h[s] = IF s = {} THEN base ELSE F[<<h[s \ {Max(s)}], seq[Max(s)]>>]
    <3>1. CASE N \in s
      <4>1. Max(s) = N
        <5>1. N \in Nat /\ s # {} /\ \A i \in s : i \in Nat /\ i <= N
          BY <3>1
        <5>. HIDE DEF N
        <5>2. Max(s) \in s /\ \A i \in s : Max(s) >= i
          BY <5>1, MaxIs
        <5>3. Max(s) \in Nat /\ Max(s) <= N /\ Max(s) >= N
          BY <3>1, <5>1, <5>2, Zenon
        <5>. QED
          BY <5>1, <5>3
      <4>2. h[s] = F[<<g[s \ {N}], seq[N]>>]
        BY <3>1
      <4>3. h[s \ {N}] = g[s \ {N}]
        BY <2>2
      <4>. HIDE DEF h, N
      <4>. QED
        BY <3>1, <4>1, <4>2, <4>3
    <3>2. CASE N \notin s
      <4>1. s \in SUBSET (1..n) /\ s \ {Max(s)} \in SUBSET (1..n)
        <5>1. s = s \ {N}
          BY <3>2
        <5>2. s \in SUBSET (1..n)
          BY <2>2, <5>1
        <5>. QED
          BY <5>2
      <4>2. h[s] = g[s] /\ h[s \ {Max(s)}] = g[s \ {Max(s)}]
        BY <3>2, <4>1
      <4>. HIDE DEF h, N
      <4>. QED
        BY <2>1, <4>1, <4>2
    <3>. QED
      BY <3>1, <3>2
  <2>. HIDE DEF h
  <2>. QED
    BY <2>3, <2>4
<1>3. ASSUME NEW n \in Nat, n \in P PROVE n + 1 \in P
  <2>1. n + 1 <= Len(seq) => \E h \in [SUBSET (1..(n + 1)) -> A] : Part(n + 1, h)
    BY <1>2, <1>3
  <2>2. n + 1 \in Nat
    OBVIOUS
  <2>. HIDE DEF Part
  <2>. QED
    BY <2>1, <2>2, Zenon
<1>4. Nat \subseteq P
  <2>. HIDE DEF P
  <2>. QED
    BY <1>1, <1>3, Induction
<1>5. Len(seq) \in Nat /\ DOMAIN seq = 1..Len(seq) /\ Len(seq) <= Len(seq)
  OBVIOUS
<1>6. PICK h \in [SUBSET (1..Len(seq)) -> A] : Part(Len(seq), h)
  <2>. HIDE DEF Part
  <2>. QED
    BY <1>4, <1>5
<1>. QED
  BY <1>5, <1>6 DEF Fold
-----------------------------------------------------------------------------
(* The bytes of a stack *)

\* The solutions of the recursion StackBytes is defined by.
BytesFold(h, seq) ==
  h = [s \in SUBSET (DOMAIN seq) |->
         IF s = {} THEN 0 ELSE h[s \ {Max(s)}] + seq[Max(s)].bytes]

LEMMA StackBytesFold ==
  ASSUME NEW stack \in Seq(Transaction)
  PROVE  \E h : BytesFold(h, stack) /\ StackBytes(stack) = h[DOMAIN stack]
<1>1. StackBytes(stack) = (CHOOSE h : BytesFold(h, stack))[DOMAIN stack]
  BY DEF StackBytes, FoldLeft, MapThenFoldSet, BytesFold
<1>2. \E h : BytesFold(h, stack)
  <2>. DEFINE F == [pair \in Nat \X Transaction |-> pair[1] + pair[2].bytes]
  <2>1. F \in [Nat \X Transaction -> Nat]
    BY DEF Transaction
  <2>2. PICK h \in [SUBSET (DOMAIN stack) -> Nat] : Fold(h, stack, 0, F)
    <3>. HIDE DEF F
    <3>. QED
      BY <2>1, FoldExists
  <2>3. ASSUME NEW s \in SUBSET (DOMAIN stack), s # {}
        PROVE  F[<<h[s \ {Max(s)}], stack[Max(s)]>>] = h[s \ {Max(s)}] + stack[Max(s)].bytes
    <3>1. Len(stack) \in Nat /\ DOMAIN stack = 1..Len(stack)
      OBVIOUS
    <3>2. Max(s) \in s
      BY <2>3, <3>1, MaxIs
    <3>3. stack[Max(s)] \in Transaction /\ h[s \ {Max(s)}] \in Nat
      BY <3>2
    <3>. QED
      BY <3>3
  <2>. HIDE DEF F
  <2>. QED
    BY <2>2, <2>3 DEF Fold, BytesFold
<1>. QED
  BY <1>1, <1>2

\* g holds the bytes of the transactions up to each place of the stack.
BytesUpTo(g, stack) ==
  /\ g[0] = 0
  /\ \A k \in 1..Len(stack) : g[k] = g[k - 1] + stack[k].bytes

\* StackBytes is the last of them.
LEMMA StackBytesUpTo ==
  ASSUME NEW stack \in Seq(Transaction)
  PROVE  \E g : BytesUpTo(g, stack) /\ StackBytes(stack) = g[Len(stack)]
<1>1. PICK h : BytesFold(h, stack) /\ StackBytes(stack) = h[DOMAIN stack]
  BY StackBytesFold
<1>2. Len(stack) \in Nat /\ DOMAIN stack = 1..Len(stack)
  OBVIOUS
<1>3. h[1..0] = 0
  <2>1. 1..0 \in SUBSET (DOMAIN stack) /\ 1..0 = {}
    OBVIOUS
  <2>. QED
    BY <1>1, <2>1 DEF BytesFold
<1>4. ASSUME NEW k \in 1..Len(stack) PROVE h[1..k] = h[1..(k - 1)] + stack[k].bytes
  <2>1. 1..k \in SUBSET (DOMAIN stack) /\ k \in Nat \ {0}
    OBVIOUS
  <2>2. Max(1..k) = k /\ 1..k # {} /\ (1..k) \ {k} = 1..(k - 1)
    BY <2>1, MaxInterval
  <2>. QED
    BY <1>1, <2>1, <2>2 DEF BytesFold
<1>. DEFINE g == [k \in 0..Len(stack) |-> h[1..k]]
<1>5. g[0] = 0 /\ g[Len(stack)] = h[DOMAIN stack]
  BY <1>2, <1>3
<1>6. ASSUME NEW k \in 1..Len(stack) PROVE g[k] = g[k - 1] + stack[k].bytes
  <2>1. k \in 0..Len(stack) /\ k - 1 \in 0..Len(stack)
    BY <1>2
  <2>. QED
    BY <1>4, <2>1
<1>. HIDE DEF g
<1>. QED
  BY <1>1, <1>5, <1>6 DEF BytesUpTo

\* The sums over two stacks that begin alike agree that far.
LEMMA BytesUpToSame ==
  ASSUME NEW s \in Seq(Transaction), NEW t \in Seq(Transaction), NEW g, NEW h,
         BytesUpTo(g, s), BytesUpTo(h, t),
         NEW n \in Nat, n <= Len(s), n <= Len(t), \A k \in 1..n : s[k] = t[k]
  PROVE  g[n] = h[n] /\ g[n] \in Nat
<1>. DEFINE P == {k \in Nat : k <= n => g[k] = h[k] /\ g[k] \in Nat}
<1>1. 0 \in P
  BY DEF BytesUpTo
<1>2. ASSUME NEW k \in Nat, k \in P PROVE k + 1 \in P
  <2>. SUFFICES ASSUME k + 1 <= n PROVE g[k + 1] = h[k + 1] /\ g[k + 1] \in Nat
    OBVIOUS
  <2>1. g[k] = h[k] /\ g[k] \in Nat
    BY <1>2
  <2>2. k + 1 \in 1..Len(s) /\ k + 1 \in 1..Len(t) /\ k + 1 \in 1..n /\ k + 1 - 1 = k
    OBVIOUS
  <2>3. s[k + 1] = t[k + 1] /\ s[k + 1].bytes \in Nat
    <3>1. s[k + 1] \in Transaction
      BY <2>2, ElementOfSeq
    <3>. QED
      BY <2>2, <3>1 DEF Transaction
  <2>4. g[k + 1] = g[k] + s[k + 1].bytes /\ h[k + 1] = h[k] + t[k + 1].bytes
    BY <2>2 DEF BytesUpTo
  <2>. QED
    BY <2>1, <2>3, <2>4
<1>3. Nat \subseteq P
  <2>. HIDE DEF P
  <2>. QED
    BY <1>1, <1>2, Induction
<1>. QED
  BY <1>3

LEMMA StackBytesType ==
  ASSUME NEW s \in Seq(Transaction)
  PROVE  StackBytes(s) \in Nat
<1>1. PICK g : BytesUpTo(g, s) /\ StackBytes(s) = g[Len(s)]
  BY StackBytesUpTo
<1>2. Len(s) \in Nat /\ Len(s) <= Len(s)
  OBVIOUS
<1>. QED
  BY <1>1, <1>2, BytesUpToSame

LEMMA StackBytesEmpty == StackBytes(<<>>) = 0
<1>1. <<>> \in Seq(Transaction) /\ Len(<<>>) = 0
  OBVIOUS
<1>2. PICK g : BytesUpTo(g, <<>>) /\ StackBytes(<<>>) = g[Len(<<>>)]
  BY <1>1, StackBytesUpTo, Zenon
<1>. QED
  BY <1>1, <1>2 DEF BytesUpTo

\* What a stack weighs is what its parts weigh together.
LEMMA StackBytesSplit ==
  ASSUME NEW s \in Seq(Transaction), NEW n \in 0..Len(s)
  PROVE  /\ SubSeq(s, 1, n) \in Seq(Transaction)
         /\ SubSeq(s, n + 1, Len(s)) \in Seq(Transaction)
         /\ StackBytes(s) = StackBytes(SubSeq(s, 1, n)) + StackBytes(SubSeq(s, n + 1, Len(s)))
<1>. DEFINE front == SubSeq(s, 1, n)
            rest == SubSeq(s, n + 1, Len(s))
<1>0. Len(s) \in Nat /\ n \in Nat /\ n <= Len(s)
  OBVIOUS
<1>1. /\ front \in Seq(Transaction) /\ Len(front) = n
      /\ \A k \in 1..n : front[k] = s[k]
  BY <1>0, SubSeqProperties
<1>2. /\ rest \in Seq(Transaction) /\ Len(rest) = Len(s) - n
      /\ \A k \in 1..(Len(s) - n) : rest[k] = s[k + n]
  BY <1>0, SubSeqProperties
<1>. HIDE DEF front, rest
<1>3. PICK f : BytesUpTo(f, front) /\ StackBytes(front) = f[Len(front)]
  BY <1>1, StackBytesUpTo
<1>4. PICK g : BytesUpTo(g, s) /\ StackBytes(s) = g[Len(s)]
  BY StackBytesUpTo
<1>5. PICK h : BytesUpTo(h, rest) /\ StackBytes(rest) = h[Len(rest)]
  BY <1>2, StackBytesUpTo
<1>6. g[n] = f[n] /\ g[n] \in Nat
  BY <1>0, <1>1, <1>3, <1>4, BytesUpToSame
<1>. DEFINE P == {k \in Nat : k <= Len(rest) => h[k] \in Nat /\ g[n + k] = g[n] + h[k]}
<1>7. 0 \in P
  BY <1>0, <1>5, <1>6 DEF BytesUpTo
<1>8. ASSUME NEW k \in Nat, k \in P PROVE k + 1 \in P
  <2>. SUFFICES ASSUME k + 1 <= Len(rest)
                PROVE  h[k + 1] \in Nat /\ g[n + (k + 1)] = g[n] + h[k + 1]
    OBVIOUS
  <2>1. h[k] \in Nat /\ g[n + k] = g[n] + h[k]
    BY <1>2, <1>8
  <2>2. /\ k + 1 \in 1..Len(rest) /\ k + 1 - 1 = k
        /\ n + (k + 1) \in 1..Len(s) /\ n + (k + 1) - 1 = n + k
        /\ k + 1 + n = n + (k + 1)
    BY <1>0, <1>2
  <2>3. rest[k + 1] = s[n + (k + 1)] /\ s[n + (k + 1)].bytes \in Nat
    <3>1. s[n + (k + 1)] \in Transaction
      BY <2>2, ElementOfSeq
    <3>2. rest[k + 1] = s[n + (k + 1)]
      BY <1>2, <2>2
    <3>. QED
      BY <3>1, <3>2 DEF Transaction
  <2>4. /\ h[k + 1] = h[k] + rest[k + 1].bytes
        /\ g[n + (k + 1)] = g[n + k] + s[n + (k + 1)].bytes
    BY <1>4, <1>5, <2>2 DEF BytesUpTo
  <2>. QED
    BY <1>6, <2>1, <2>3, <2>4
<1>9. Nat \subseteq P
  <2>. HIDE DEF P
  <2>. QED
    BY <1>7, <1>8, Induction
<1>10. g[n + Len(rest)] = g[n] + h[Len(rest)]
  <2>1. Len(rest) \in Nat /\ Len(rest) <= Len(rest)
    BY <1>2
  <2>. QED
    BY <1>9, <2>1
<1>11. n + Len(rest) = Len(s)
  BY <1>0, <1>2
<1>. QED
  BY <1>1, <1>2, <1>3, <1>4, <1>5, <1>6, <1>10, <1>11 DEF front, rest

LEMMA StackBytesAppend ==
  ASSUME NEW s \in Seq(Transaction), NEW t \in Transaction
  PROVE  StackBytes(Append(s, t)) = StackBytes(s) + t.bytes
<1>. DEFINE a == Append(s, t)
<1>1. /\ a \in Seq(Transaction) /\ Len(a) = Len(s) + 1 /\ Len(s) \in Nat
      /\ \A k \in 1..Len(s) : a[k] = s[k]
      /\ a[Len(s) + 1] = t
  BY AppendProperties
<1>. HIDE DEF a
<1>2. PICK f : BytesUpTo(f, s) /\ StackBytes(s) = f[Len(s)]
  BY StackBytesUpTo
<1>3. PICK g : BytesUpTo(g, a) /\ StackBytes(a) = g[Len(a)]
  BY <1>1, StackBytesUpTo
<1>4. f[Len(s)] = g[Len(s)]
  BY <1>1, <1>2, <1>3, BytesUpToSame
<1>5. Len(s) + 1 \in 1..Len(a) /\ Len(s) + 1 - 1 = Len(s)
  BY <1>1
<1>6. g[Len(s) + 1] = g[Len(s)] + t.bytes
  BY <1>1, <1>3, <1>5 DEF BytesUpTo
<1>. QED
  BY <1>1, <1>2, <1>3, <1>4, <1>6 DEF a

\* Taking the last transaction off a stack takes its bytes off.
LEMMA StackBytesFront ==
  ASSUME NEW s \in Seq(Transaction), s # <<>>
  PROVE  /\ Front(s) \in Seq(Transaction) /\ Last(s) \in Transaction
         /\ Len(Front(s)) = Len(s) - 1
         /\ StackBytes(s) = StackBytes(Front(s)) + Last(s).bytes
<1>1. /\ Front(s) \in Seq(Transaction) /\ Last(s) \in Transaction
      /\ Len(Front(s)) = Len(s) - 1 /\ s = Append(Front(s), Last(s))
  <2>1. Len(s) \in Nat /\ Len(s) - 1 \in 0..Len(s) /\ Len(s) \in 1..Len(s)
    OBVIOUS
  <2>2. /\ Front(s) \in Seq(Transaction) /\ Len(Front(s)) = Len(s) - 1
        /\ \A k \in 1..(Len(s) - 1) : Front(s)[k] = s[k]
    <3>1. \A i \in 1..(Len(s) - 1) : i \in 1..Len(s) /\ s[i] \in Transaction /\ i + 1 - 1 = i
      BY <2>1
    <3>. DEFINE n == Len(s) - 1
    <3>2. n \in Nat /\ \A i \in 1..n : s[i] \in Transaction
      BY <2>1, <3>1
    <3>. HIDE DEF n
    <3>3. /\ SubSeq(s, 1, n) \in Seq(Transaction) /\ Len(SubSeq(s, 1, n)) = n
          /\ \A k \in 1..n : SubSeq(s, 1, n)[k] = s[k]
      BY <3>2, SubSeqProperties
    <3>. QED
      BY <3>3 DEF Front, n
  <2>3. Last(s) \in Transaction
    BY <2>1 DEF Last
  <2>4. /\ Append(Front(s), Last(s)) \in Seq(Transaction)
        /\ Len(Append(Front(s), Last(s))) = Len(s)
        /\ \A k \in 1..Len(s) : Append(Front(s), Last(s))[k] = s[k]
    <3>1. /\ Len(Append(Front(s), Last(s))) = Len(Front(s)) + 1
          /\ Append(Front(s), Last(s)) \in Seq(Transaction)
          /\ \A k \in 1..Len(Front(s)) : Append(Front(s), Last(s))[k] = Front(s)[k]
          /\ Append(Front(s), Last(s))[Len(Front(s)) + 1] = Last(s)
      BY <2>2, <2>3, AppendProperties
    <3>2. ASSUME NEW k \in 1..Len(s) PROVE Append(Front(s), Last(s))[k] = s[k]
      <4>1. CASE k = Len(s)
        BY <2>1, <2>2, <3>1, <4>1 DEF Last
      <4>2. CASE k # Len(s)
        BY <2>1, <2>2, <3>1, <4>2
      <4>. QED
        BY <4>1, <4>2
    <3>. QED
      BY <2>1, <2>2, <3>1, <3>2
  <2>. QED
    BY <2>2, <2>3, <2>4, SeqEqual
<1>. QED
  BY <1>1, StackBytesAppend


-----------------------------------------------------------------------------
(* Rewound and Replayed *)

\* The solutions of the recursion Rewound is defined by.
BeforeFold(h, seq, doc) ==
  h = [s \in SUBSET (DOMAIN seq) |->
         IF s = {} THEN doc ELSE Overlay(h[s \ {Max(s)}], seq[Max(s)].before)]

LEMMA BeforeFoldExists ==
  ASSUME NEW seq \in Seq(Transaction), NEW doc \in Document
  PROVE  \E h : BeforeFold(h, seq, doc)
<1>. DEFINE F == [pair \in Document \X Transaction |-> Overlay(pair[1], pair[2].before)]
<1>1. F \in [Document \X Transaction -> Document]
  <2>1. \A pair \in Document \X Transaction : Overlay(pair[1], pair[2].before) \in Document
    BY OverlayType DEF Transaction
  <2>. QED
    BY <2>1
<1>2. PICK h \in [SUBSET (DOMAIN seq) -> Document] : Fold(h, seq, doc, F)
  <2>. HIDE DEF F
  <2>. QED
    BY <1>1, FoldExists
<1>3. ASSUME NEW s \in SUBSET (DOMAIN seq), s # {}
      PROVE  F[<<h[s \ {Max(s)}], seq[Max(s)]>>] = Overlay(h[s \ {Max(s)}], seq[Max(s)].before)
  <2>1. Len(seq) \in Nat /\ DOMAIN seq = 1..Len(seq)
    OBVIOUS
  <2>2. Max(s) \in s
    BY <1>3, <2>1, MaxIs
  <2>3. seq[Max(s)] \in Transaction /\ h[s \ {Max(s)}] \in Document
    BY <2>2
  <2>. QED
    BY <2>3
<1>. HIDE DEF F
<1>. QED
  BY <1>2, <1>3 DEF Fold, BeforeFold

\* Rewound is the last of the documents met on the way.
LEMMA BeforeFoldIs ==
  ASSUME NEW seq \in Seq(Transaction), NEW doc \in Document,
         NEW g, g[0] = doc,
         \A k \in 1..Len(seq) : g[k] = Overlay(g[k - 1], seq[k].before)
  PROVE  FoldLeft(LAMBDA d, t : Overlay(d, t.before), doc, seq) = g[Len(seq)]
<1>. DEFINE h == CHOOSE h : BeforeFold(h, seq, doc)
<1>1. FoldLeft(LAMBDA d, t : Overlay(d, t.before), doc, seq) = h[DOMAIN seq]
  BY DEF FoldLeft, MapThenFoldSet, BeforeFold
<1>2. BeforeFold(h, seq, doc)
  BY BeforeFoldExists
<1>. HIDE DEF h
<1>3. Len(seq) \in Nat /\ DOMAIN seq = 1..Len(seq)
  OBVIOUS
<1>. DEFINE P == {k \in Nat : k <= Len(seq) => h[1..k] = g[k]}
<1>4. 0 \in P
  <2>1. 1..0 \in SUBSET (DOMAIN seq) /\ 1..0 = {}
    OBVIOUS
  <2>2. h[1..0] = doc
    BY <1>2, <2>1 DEF BeforeFold
  <2>. QED
    BY <2>2
<1>5. ASSUME NEW k \in Nat, k \in P PROVE k + 1 \in P
  <2>. SUFFICES ASSUME k + 1 <= Len(seq) PROVE h[1..(k + 1)] = g[k + 1]
    OBVIOUS
  <2>1. /\ 1..(k + 1) \in SUBSET (DOMAIN seq) /\ k + 1 \in 1..Len(seq)
        /\ k + 1 \in Nat \ {0} /\ k + 1 - 1 = k /\ k <= Len(seq)
    BY <1>3
  <2>2. Max(1..(k + 1)) = k + 1 /\ 1..(k + 1) # {} /\ (1..(k + 1)) \ {k + 1} = 1..k
    BY <2>1, MaxInterval
  <2>3. h[1..(k + 1)] = Overlay(h[1..k], seq[k + 1].before)
    <3>1. \A s \in SUBSET (DOMAIN seq) :
            s # {} => h[s] = Overlay(h[s \ {Max(s)}], seq[Max(s)].before)
      BY <1>2 DEF BeforeFold
    <3>2. h[1..(k + 1)]
            = Overlay(h[(1..(k + 1)) \ {Max(1..(k + 1))}], seq[Max(1..(k + 1))].before)
      BY <2>1, <2>2, <3>1, Zenon
    <3>. QED
      BY <2>2, <3>2, Zenon
  <2>4. g[k + 1] = Overlay(g[k], seq[k + 1].before)
    BY <2>1
  <2>. QED
    BY <1>5, <2>1, <2>3, <2>4
<1>6. Nat \subseteq P
  <2>. HIDE DEF P
  <2>. QED
    BY <1>4, <1>5, Induction
<1>7. h[1..Len(seq)] = g[Len(seq)]
  BY <1>3, <1>6
<1>. QED
  BY <1>1, <1>3, <1>7

\* The documents an undo stack leads back through, the current one last: the
\* n-th is what is left when the n-th transaction has been undone.
LEMMA RewoundIs ==
  ASSUME undoStack \in Seq(Transaction), project \in Document,
         NEW docs, docs[Len(undoStack) + 1] = project,
         \A i \in 1..Len(undoStack) : docs[i] = Overlay(docs[i + 1], undoStack[i].before),
         NEW n \in 0..Len(undoStack)
  PROVE  Rewound(n) = docs[Len(undoStack) + 1 - n]
<1>. DEFINE len == Len(undoStack)
            seq == SubSeq(Reverse(undoStack), 1, n)
            g == [k \in 0..n |-> docs[len + 1 - k]]
<1>1. len \in Nat /\ n \in Nat /\ n <= len
  OBVIOUS
<1>2. \A k \in 1..n : /\ Reverse(undoStack)[k] = undoStack[len - k + 1]
                       /\ undoStack[len - k + 1] \in Transaction
  <2>1. \A k \in 1..n : k \in 1..len /\ len - k + 1 \in 1..len
    BY <1>1
  <2>. QED
    BY <2>1, ElementOfSeq DEF Reverse
<1>3. /\ seq \in Seq(Transaction) /\ Len(seq) = n
      /\ \A k \in 1..n : seq[k] = undoStack[len - k + 1]
  <2>1. \A k \in 1..n : Reverse(undoStack)[k] \in Transaction
    BY <1>2
  <2>2. /\ seq \in Seq(Transaction) /\ Len(seq) = n
        /\ \A k \in 1..n : seq[k] = Reverse(undoStack)[k]
    BY <1>1, <2>1, SubSeqProperties
  <2>. QED
    BY <1>2, <2>2
<1>4. g[0] = project /\ g[n] = docs[len + 1 - n]
  BY <1>1
<1>5. ASSUME NEW k \in 1..n PROVE g[k] = Overlay(g[k - 1], seq[k].before)
  <2>1. /\ len - k + 1 \in 1..len /\ len - k + 1 + 1 = len + 1 - (k - 1)
        /\ len + 1 - k = len - k + 1
        /\ k \in 0..n /\ k - 1 \in 0..n
    BY <1>1
  <2>2. g[k] = docs[len - k + 1] /\ g[k - 1] = docs[len - k + 1 + 1]
    BY <2>1
  <2>. HIDE DEF g, seq, len
  <2>3. docs[len - k + 1] = Overlay(docs[len - k + 1 + 1], undoStack[len - k + 1].before)
    BY <2>1 DEF len
  <2>. QED
    BY <1>3, <2>2, <2>3
<1>6. FoldLeft(LAMBDA d, t : Overlay(d, t.before), project, seq) = g[Len(seq)]
  <2>. HIDE DEF g, seq
  <2>. QED
    BY <1>3, <1>4, <1>5, BeforeFoldIs
<1>. QED
  BY <1>3, <1>4, <1>6 DEF Rewound

\* The solutions of the recursion Replayed is defined by.
AfterFold(h, seq, doc) ==
  h = [s \in SUBSET (DOMAIN seq) |->
         IF s = {} THEN doc ELSE Overlay(h[s \ {Max(s)}], seq[Max(s)].after)]

LEMMA AfterFoldExists ==
  ASSUME NEW seq \in Seq(Transaction), NEW doc \in Document
  PROVE  \E h : AfterFold(h, seq, doc)
<1>. DEFINE F == [pair \in Document \X Transaction |-> Overlay(pair[1], pair[2].after)]
<1>1. F \in [Document \X Transaction -> Document]
  <2>1. \A pair \in Document \X Transaction : Overlay(pair[1], pair[2].after) \in Document
    BY OverlayType DEF Transaction
  <2>. QED
    BY <2>1
<1>2. PICK h \in [SUBSET (DOMAIN seq) -> Document] : Fold(h, seq, doc, F)
  <2>. HIDE DEF F
  <2>. QED
    BY <1>1, FoldExists
<1>3. ASSUME NEW s \in SUBSET (DOMAIN seq), s # {}
      PROVE  F[<<h[s \ {Max(s)}], seq[Max(s)]>>] = Overlay(h[s \ {Max(s)}], seq[Max(s)].after)
  <2>1. Len(seq) \in Nat /\ DOMAIN seq = 1..Len(seq)
    OBVIOUS
  <2>2. Max(s) \in s
    BY <1>3, <2>1, MaxIs
  <2>3. seq[Max(s)] \in Transaction /\ h[s \ {Max(s)}] \in Document
    BY <2>2
  <2>. QED
    BY <2>3
<1>. HIDE DEF F
<1>. QED
  BY <1>2, <1>3 DEF Fold, AfterFold

\* Replayed is the last of the documents met on the way.
LEMMA AfterFoldIs ==
  ASSUME NEW seq \in Seq(Transaction), NEW doc \in Document,
         NEW g, g[0] = doc,
         \A k \in 1..Len(seq) : g[k] = Overlay(g[k - 1], seq[k].after)
  PROVE  FoldLeft(LAMBDA d, t : Overlay(d, t.after), doc, seq) = g[Len(seq)]
<1>. DEFINE h == CHOOSE h : AfterFold(h, seq, doc)
<1>1. FoldLeft(LAMBDA d, t : Overlay(d, t.after), doc, seq) = h[DOMAIN seq]
  BY DEF FoldLeft, MapThenFoldSet, AfterFold
<1>2. AfterFold(h, seq, doc)
  BY AfterFoldExists
<1>. HIDE DEF h
<1>3. Len(seq) \in Nat /\ DOMAIN seq = 1..Len(seq)
  OBVIOUS
<1>. DEFINE P == {k \in Nat : k <= Len(seq) => h[1..k] = g[k]}
<1>4. 0 \in P
  <2>1. 1..0 \in SUBSET (DOMAIN seq) /\ 1..0 = {}
    OBVIOUS
  <2>2. h[1..0] = doc
    BY <1>2, <2>1 DEF AfterFold
  <2>. QED
    BY <2>2
<1>5. ASSUME NEW k \in Nat, k \in P PROVE k + 1 \in P
  <2>. SUFFICES ASSUME k + 1 <= Len(seq) PROVE h[1..(k + 1)] = g[k + 1]
    OBVIOUS
  <2>1. /\ 1..(k + 1) \in SUBSET (DOMAIN seq) /\ k + 1 \in 1..Len(seq)
        /\ k + 1 \in Nat \ {0} /\ k + 1 - 1 = k /\ k <= Len(seq)
    BY <1>3
  <2>2. Max(1..(k + 1)) = k + 1 /\ 1..(k + 1) # {} /\ (1..(k + 1)) \ {k + 1} = 1..k
    BY <2>1, MaxInterval
  <2>3. h[1..(k + 1)] = Overlay(h[1..k], seq[k + 1].after)
    <3>1. \A s \in SUBSET (DOMAIN seq) :
            s # {} => h[s] = Overlay(h[s \ {Max(s)}], seq[Max(s)].after)
      BY <1>2 DEF AfterFold
    <3>2. h[1..(k + 1)]
            = Overlay(h[(1..(k + 1)) \ {Max(1..(k + 1))}], seq[Max(1..(k + 1))].after)
      BY <2>1, <2>2, <3>1, Zenon
    <3>. QED
      BY <2>2, <3>2, Zenon
  <2>4. g[k + 1] = Overlay(g[k], seq[k + 1].after)
    BY <2>1
  <2>. QED
    BY <1>5, <2>1, <2>3, <2>4
<1>6. Nat \subseteq P
  <2>. HIDE DEF P
  <2>. QED
    BY <1>4, <1>5, Induction
<1>7. h[1..Len(seq)] = g[Len(seq)]
  BY <1>3, <1>6
<1>. QED
  BY <1>1, <1>3, <1>7

\* The documents a redo stack leads forth through, the current one last.
LEMMA ReplayedIs ==
  ASSUME redoStack \in Seq(Transaction), project \in Document,
         NEW docs, docs[Len(redoStack) + 1] = project,
         \A i \in 1..Len(redoStack) : docs[i] = Overlay(docs[i + 1], redoStack[i].after),
         NEW n \in 0..Len(redoStack)
  PROVE  Replayed(n) = docs[Len(redoStack) + 1 - n]
<1>. DEFINE len == Len(redoStack)
            seq == SubSeq(Reverse(redoStack), 1, n)
            g == [k \in 0..n |-> docs[len + 1 - k]]
<1>1. len \in Nat /\ n \in Nat /\ n <= len
  OBVIOUS
<1>2. \A k \in 1..n : /\ Reverse(redoStack)[k] = redoStack[len - k + 1]
                       /\ redoStack[len - k + 1] \in Transaction
  <2>1. \A k \in 1..n : k \in 1..len /\ len - k + 1 \in 1..len
    BY <1>1
  <2>. QED
    BY <2>1, ElementOfSeq DEF Reverse
<1>3. /\ seq \in Seq(Transaction) /\ Len(seq) = n
      /\ \A k \in 1..n : seq[k] = redoStack[len - k + 1]
  <2>1. \A k \in 1..n : Reverse(redoStack)[k] \in Transaction
    BY <1>2
  <2>2. /\ seq \in Seq(Transaction) /\ Len(seq) = n
        /\ \A k \in 1..n : seq[k] = Reverse(redoStack)[k]
    BY <1>1, <2>1, SubSeqProperties
  <2>. QED
    BY <1>2, <2>2
<1>4. g[0] = project /\ g[n] = docs[len + 1 - n]
  BY <1>1
<1>5. ASSUME NEW k \in 1..n PROVE g[k] = Overlay(g[k - 1], seq[k].after)
  <2>1. /\ len - k + 1 \in 1..len /\ len - k + 1 + 1 = len + 1 - (k - 1)
        /\ len + 1 - k = len - k + 1
        /\ k \in 0..n /\ k - 1 \in 0..n
    BY <1>1
  <2>2. g[k] = docs[len - k + 1] /\ g[k - 1] = docs[len - k + 1 + 1]
    BY <2>1
  <2>. HIDE DEF g, seq, len
  <2>3. docs[len - k + 1] = Overlay(docs[len - k + 1 + 1], redoStack[len - k + 1].after)
    BY <2>1 DEF len
  <2>. QED
    BY <1>3, <2>2, <2>3
<1>6. FoldLeft(LAMBDA d, t : Overlay(d, t.after), project, seq) = g[Len(seq)]
  <2>. HIDE DEF g, seq
  <2>. QED
    BY <1>3, <1>4, <1>5, AfterFoldIs
<1>. QED
  BY <1>3, <1>4, <1>6 DEF Replayed
-----------------------------------------------------------------------------
(* The chain of documents *)

\* A document whose start passage, when it has one, is one of its passages.
SafeDocument == {doc \in Document : doc[Start] # None => doc[Start] \in PassagesOf(doc)}

\* docs are the documents met while the stack's transactions are moved, the
\* last one first, and doc is where that begins; "back" and "forth" are the
\* sides of a transaction that lead on and that lead back again.
Leads(docs, stack, doc, back, forth) ==
  /\ docs \in [1..(Len(stack) + 1) -> SafeDocument]
  /\ docs[Len(stack) + 1] = doc
  /\ \A i \in 1..Len(stack) :
       /\ docs[i] = Overlay(docs[i + 1], stack[i][back])
       /\ docs[i + 1] = Overlay(docs[i], stack[i][forth])

UndoChain == \E docs : Leads(docs, undoStack, project, "before", "after")
RedoChain == \E docs : Leads(docs, redoStack, project, "after", "before")

\* The two sides of a delta lead from one of its documents to the other.
LEMMA DeltaLeads ==
  ASSUME NEW before \in Document, NEW after \in Document
  PROVE  /\ Overlay(after, DeltaBetween(before, after).before) = before
         /\ Overlay(before, DeltaBetween(before, after).after) = after
<1>. DEFINE fields == FieldsOf(Touched(before, after))
<1>1. \A f \in Field \ fields : before[f] = after[f]
  BY TouchedCovers
<1>2. /\ DeltaBetween(before, after).before = [f \in fields |-> before[f]]
      /\ DeltaBetween(before, after).after = [f \in fields |-> after[f]]
  BY DEF DeltaBetween
<1>. HIDE DEF fields
<1>3. /\ Overlay(after, [f \in fields |-> before[f]]) = before
      /\ Overlay(before, [f \in fields |-> after[f]]) = after
  BY <1>1 DEF Overlay, Document
<1>. QED
  BY <1>2, <1>3

LEMMA LeadsPush ==
  ASSUME NEW stack \in Seq(Transaction), NEW t \in Transaction,
         NEW back, NEW forth, NEW doc, NEW next \in SafeDocument,
         NEW docs, Leads(docs, stack, doc, back, forth),
         doc = Overlay(next, t[back]), next = Overlay(doc, t[forth])
  PROVE  \E more : Leads(more, Append(stack, t), next, back, forth)
<1>. DEFINE len == Len(stack)
            longer == Append(stack, t)
            more == [i \in 1..(len + 2) |-> IF i = len + 2 THEN next ELSE docs[i]]
<1>1. /\ len \in Nat /\ Len(longer) = len + 1
      /\ \A i \in 1..len : longer[i] = stack[i]
      /\ longer[len + 1] = t
  BY AppendProperties
<1>2. /\ docs \in [1..(len + 1) -> SafeDocument] /\ docs[len + 1] = doc
      /\ \A i \in 1..len : /\ docs[i] = Overlay(docs[i + 1], stack[i][back])
                           /\ docs[i + 1] = Overlay(docs[i], stack[i][forth])
  BY DEF Leads
<1>3. /\ more \in [1..(len + 2) -> SafeDocument] /\ more[len + 2] = next
      /\ \A i \in 1..(len + 1) : more[i] = docs[i]
  <2>1. \A i \in 1..(len + 2) : i # len + 2 => i \in 1..(len + 1)
    BY <1>1
  <2>2. len + 2 \in 1..(len + 2) /\ \A i \in 1..(len + 1) : i \in 1..(len + 2) /\ i # len + 2
    BY <1>1
  <2>. QED
    BY <1>2, <2>1, <2>2
<1>. HIDE DEF more, longer, len
<1>4. ASSUME NEW i \in 1..(len + 1)
      PROVE  /\ more[i] = Overlay(more[i + 1], longer[i][back])
             /\ more[i + 1] = Overlay(more[i], longer[i][forth])
  <2>1. CASE i = len + 1
    <3>1. i + 1 = len + 2
      BY <1>1, <2>1
    <3>. QED
      BY <1>1, <1>2, <1>3, <2>1, <3>1
  <2>2. CASE i # len + 1
    <3>1. i \in 1..len /\ i + 1 \in 1..(len + 1)
      BY <1>1, <2>2
    <3>. QED
      BY <1>1, <1>2, <1>3, <3>1
  <2>. QED
    BY <2>1, <2>2
<1>5. Len(longer) + 1 = len + 2
  BY <1>1
<1>. QED
  BY <1>1, <1>3, <1>4, <1>5 DEF Leads, longer

LEMMA LeadsDrop ==
  ASSUME NEW stack \in Seq(Transaction), NEW n \in 0..Len(stack),
         NEW back, NEW forth, NEW doc,
         NEW docs, Leads(docs, stack, doc, back, forth)
  PROVE  \E fewer : Leads(fewer, SubSeq(stack, n + 1, Len(stack)), doc, back, forth)
<1>. DEFINE len == Len(stack)
            rest == SubSeq(stack, n + 1, Len(stack))
            fewer == [i \in 1..(len - n + 1) |-> docs[i + n]]
<1>1. len \in Nat /\ n \in Nat /\ n <= len
  OBVIOUS
<1>2. Len(rest) = len - n /\ \A i \in 1..(len - n) : rest[i] = stack[i + n]
  BY <1>1, SubSeqProperties
<1>3. /\ docs \in [1..(len + 1) -> SafeDocument] /\ docs[len + 1] = doc
      /\ \A i \in 1..len : /\ docs[i] = Overlay(docs[i + 1], stack[i][back])
                           /\ docs[i + 1] = Overlay(docs[i], stack[i][forth])
  BY DEF Leads
<1>4. /\ fewer \in [1..(len - n + 1) -> SafeDocument] /\ fewer[len - n + 1] = doc
      /\ \A i \in 1..(len - n + 1) : fewer[i] = docs[i + n]
  <2>1. /\ \A i \in 1..(len - n + 1) : i + n \in 1..(len + 1)
        /\ len - n + 1 + n = len + 1
        /\ len - n + 1 \in 1..(len - n + 1)
    BY <1>1
  <2>. QED
    BY <1>3, <2>1
<1>. HIDE DEF fewer, rest, len
<1>5. ASSUME NEW i \in 1..(len - n)
      PROVE  /\ fewer[i] = Overlay(fewer[i + 1], rest[i][back])
             /\ fewer[i + 1] = Overlay(fewer[i], rest[i][forth])
  <2>1. /\ i \in 1..(len - n + 1) /\ i + 1 \in 1..(len - n + 1)
        /\ i + n \in 1..len /\ i + 1 + n = i + n + 1
    BY <1>1
  <2>2. fewer[i] = docs[i + n] /\ fewer[i + 1] = docs[i + n + 1] /\ rest[i] = stack[i + n]
    BY <1>2, <1>4, <2>1
  <2>. QED
    BY <1>3, <2>1, <2>2
<1>. QED
  BY <1>2, <1>4, <1>5 DEF Leads, rest

\* Moving the last transaction off a stack makes the step its chain begins with.
LEMMA LeadsPop ==
  ASSUME NEW stack \in Seq(Transaction), stack # <<>>,
         NEW back, NEW forth, NEW doc,
         NEW docs, Leads(docs, stack, doc, back, forth),
         NEW next, next = Overlay(doc, Last(stack)[back])
  PROVE  /\ next \in SafeDocument
         /\ doc = Overlay(next, Last(stack)[forth])
         /\ \E fewer : Leads(fewer, Front(stack), next, back, forth)
<1>. DEFINE len == Len(stack)
            fewer == [i \in 1..len |-> docs[i]]
<1>1. /\ len \in Nat \ {0} /\ Len(Front(stack)) = len - 1
      /\ \A i \in 1..(len - 1) : Front(stack)[i] = stack[i]
  <2>1. len \in Nat \ {0}
    BY EmptySeq
  <2>2. 1 \in Int /\ len - 1 \in Int /\ \A i \in 1..(len - 1) : stack[i] \in Transaction
    BY <2>1
  <2>. HIDE DEF len
  <2>3. /\ Len(SubSeq(stack, 1, len - 1)) = IF 1 <= len - 1 THEN len - 1 - 1 + 1 ELSE 0
        /\ \A i \in 1..(len - 1 - 1 + 1) : SubSeq(stack, 1, len - 1)[i] = stack[1 + i - 1]
    BY <2>2, SubSeqProperties
  <2>4. len - 1 - 1 + 1 = len - 1 /\ (~(1 <= len - 1) => len - 1 = 0)
    BY <2>1
  <2>5. \A i \in 1..(len - 1) : SubSeq(stack, 1, len - 1)[i] = stack[i]
    <3>1. \A i \in 1..(len - 1) : 1 + i - 1 = i
      OBVIOUS
    <3>. QED
      BY <2>3, <2>4, <3>1
  <2>. QED
    BY <2>1, <2>3, <2>4, <2>5 DEF Front, len
<1>2. /\ docs \in [1..(len + 1) -> SafeDocument] /\ docs[len + 1] = doc
      /\ \A i \in 1..len : /\ docs[i] = Overlay(docs[i + 1], stack[i][back])
                           /\ docs[i + 1] = Overlay(docs[i], stack[i][forth])
  BY DEF Leads
<1>3. Last(stack) = stack[len] /\ len \in 1..len /\ len \in 1..(len + 1)
  BY <1>1 DEF Last
<1>. HIDE DEF len
<1>4. docs[len] = next
  BY <1>2, <1>3
<1>5. /\ fewer \in [1..len -> SafeDocument] /\ fewer[len] = next
      /\ \A i \in 1..len : fewer[i] = docs[i]
  <2>1. \A i \in 1..len : i \in 1..(len + 1)
    BY <1>1
  <2>. QED
    BY <1>2, <1>3, <1>4, <2>1
<1>. HIDE DEF fewer
<1>6. ASSUME NEW i \in 1..(len - 1)
      PROVE  /\ fewer[i] = Overlay(fewer[i + 1], Front(stack)[i][back])
             /\ fewer[i + 1] = Overlay(fewer[i], Front(stack)[i][forth])
  <2>1. i \in 1..len /\ i + 1 \in 1..len
    BY <1>1
  <2>. QED
    BY <1>1, <1>2, <1>5, <2>1
<1>7. Len(Front(stack)) + 1 = len
  BY <1>1
<1>8. Leads(fewer, Front(stack), next, back, forth)
  BY <1>1, <1>5, <1>6, <1>7 DEF Leads
<1>. QED
  BY <1>2, <1>3, <1>4, <1>8

LEMMA LeadsNowhere ==
  ASSUME NEW doc \in SafeDocument, NEW back, NEW forth
  PROVE  \E docs : Leads(docs, <<>>, doc, back, forth)
<1>1. Len(<<>>) = 0
  OBVIOUS
<1>2. /\ [i \in 1..1 |-> doc] \in [1..1 -> SafeDocument]
      /\ [i \in 1..1 |-> doc][1] = doc
  OBVIOUS
<1>3. Leads([i \in 1..1 |-> doc], <<>>, doc, back, forth)
  BY <1>1, <1>2 DEF Leads
<1>. QED
  BY <1>3

-----------------------------------------------------------------------------
(* Every method leaves a safe document *)

\* A passage keeps existing when only its attributes get other contents.
LEMMA SafeWhenKept ==
  ASSUME NEW doc \in SafeDocument, NEW next \in Document,
         next[Start] = doc[Start],
         \A a \in PassageAttr :
           doc[Start] \in Passage /\ doc[<<doc[Start], a>>] # None
             => next[<<doc[Start], a>>] # None
  PROVE  next \in SafeDocument
BY DEF SafeDocument, PassagesOf, Exists

LEMMA StartIsField ==
  /\ Start \in Field /\ Start[1] = Story
  /\ \A p \in Passage : Start # <<p, "text">> /\ p # Story
  /\ \A p \in Passage, a \in PassageAttr : <<p, a>> \in Field /\ <<p, a>> # Start
BY ConstantsAssumption DEF Start, Field, StoryAttr

LEMMA WithTextSafe ==
  ASSUME NEW doc \in SafeDocument, NEW p \in Passage, NEW text \in Content
  PROVE  WithText(doc, p, text) \in SafeDocument
<1>. DEFINE next == WithText(doc, p, text)
<1>1. doc \in Document /\ next \in Document
  BY WithTextType DEF SafeDocument
<1>2. Orphaned(doc, p, text) \subseteq {q : q \in Links[doc[<<p, "text">>]]} \ {doc[Start]}
  BY DEF Orphaned
<1>3. next[Start] \in {doc[Start], None}
  <2>1. \A q \in NewlyLinked(doc, p, text) : q \in Passage
    BY ConstantsAssumption DEF NewlyLinked
  <2>. QED
    BY <2>1, StartIsField, ConstantsAssumption DEF WithText
<1>4. ASSUME NEW a \in PassageAttr, doc[Start] \in Passage, doc[<<doc[Start], a>>] # None
      PROVE  next[<<doc[Start], a>>] # None
  <2>1. <<doc[Start], a>> \in Field /\ doc[Start] \notin Orphaned(doc, p, text)
    BY <1>2, <1>4, StartIsField
  <2>. QED
    BY <1>4, <2>1, ConstantsAssumption DEF WithText
<1>. HIDE DEF next
<1>5. CASE next[Start] = None
  BY <1>1, <1>5 DEF SafeDocument, next
<1>6. CASE next[Start] = doc[Start]
  BY <1>1, <1>4, <1>6, SafeWhenKept DEF next
<1>. QED
  BY <1>3, <1>5, <1>6

LEMMA WithPassageSafe ==
  ASSUME NEW doc \in SafeDocument, NEW p \in Passage, NEW attrs, NEW values \in [attrs -> Content]
  PROVE  WithPassage(doc, p, values) \in SafeDocument
<1>1. doc \in Document /\ WithPassage(doc, p, values) \in Document
  BY WithPassageType DEF SafeDocument
<1>2. WithPassage(doc, p, values)[Start] = doc[Start]
  BY StartIsField, ConstantsAssumption DEF WithPassage
<1>3. ASSUME NEW a \in PassageAttr, doc[Start] \in Passage, doc[<<doc[Start], a>>] # None
      PROVE  WithPassage(doc, p, values)[<<doc[Start], a>>] # None
  BY <1>3, StartIsField, ConstantsAssumption DEF WithPassage
<1>. QED
  BY <1>1, <1>2, <1>3, SafeWhenKept DEF SafeDocument

LEMMA WithStartSafe ==
  ASSUME NEW doc \in Document, NEW p \in Passage, Exists(doc, p)
  PROVE  [doc EXCEPT ![Start] = p] \in SafeDocument
<1>. DEFINE next == [doc EXCEPT ![Start] = p]
<1>1. next \in Document /\ next[Start] = p
  BY StartIsField DEF Document, Value
<1>2. \A a \in PassageAttr : next[<<p, a>>] = doc[<<p, a>>]
  BY StartIsField DEF Document
<1>. HIDE DEF next
<1>3. p \in PassagesOf(next)
  BY <1>2 DEF PassagesOf, Exists
<1>. QED
  BY <1>1, <1>3 DEF SafeDocument, next

LEMMA WithScriptSafe ==
  ASSUME NEW doc \in SafeDocument, NEW script \in Content
  PROVE  [doc EXCEPT ![Script] = script] \in SafeDocument
<1>. DEFINE next == [doc EXCEPT ![Script] = script]
<1>1. doc \in Document /\ next \in Document
  BY DEF SafeDocument, Document, Value
<1>2. Script # Start /\ \A p \in Passage, a \in PassageAttr : <<p, a>> # Script
  BY ConstantsAssumption DEF Script, Start
<1>3. \A f \in Field : f # Script => next[f] = doc[f]
  BY <1>1 DEF Document
<1>. HIDE DEF next
<1>4. next[Start] = doc[Start]
  BY <1>2, <1>3, StartIsField
<1>5. \A a \in PassageAttr :
        doc[Start] \in Passage /\ doc[<<doc[Start], a>>] # None => next[<<doc[Start], a>>] # None
  BY <1>2, <1>3, StartIsField
<1>. QED
  BY <1>1, <1>4, <1>5, SafeWhenKept DEF next

LEMMA CreatedSafe ==
  ASSUME NEW doc \in SafeDocument, NEW p \in Passage, NEW values \in [PassageAttr -> Content]
  PROVE  LET next == WithPassage(doc, p, values)
         IN  (IF next[Start] = None THEN [next EXCEPT ![Start] = p] ELSE next) \in SafeDocument
<1>. DEFINE next == WithPassage(doc, p, values)
<1>1. next \in SafeDocument /\ next \in Document
  BY WithPassageSafe DEF SafeDocument
<1>2. Exists(next, p)
  BY StartIsField, ConstantsAssumption DEF WithPassage, Exists
<1>. HIDE DEF next
<1>. QED
  BY <1>1, <1>2, WithStartSafe DEF next

LEMMA WithoutSafe ==
  ASSUME NEW doc \in SafeDocument, NEW ps \in SUBSET Passage
  PROVE  Without(doc, ps) \in SafeDocument
<1>. DEFINE next == Without(doc, ps)
            rest == PassagesOf(doc) \ ps
<1>1. doc \in Document /\ next \in Document
  BY WithoutType DEF SafeDocument
<1>2. next[Start] = IF doc[Start] \in ps THEN FirstOf(rest) ELSE doc[Start]
  BY StartIsField, ConstantsAssumption DEF Without
<1>3. \A p \in Passage \ ps, a \in PassageAttr : next[<<p, a>>] = doc[<<p, a>>]
  BY StartIsField DEF Without
<1>4. \A p \in rest : p \in PassagesOf(next)
  BY <1>3 DEF PassagesOf, Exists
<1>5. FirstOf(rest) \in rest \/ FirstOf(rest) = None
  BY Zenon DEF FirstOf
<1>6. doc[Start] # None => doc[Start] \in PassagesOf(doc)
  BY DEF SafeDocument
<1>. HIDE DEF next, rest
<1>7. next[Start] # None => next[Start] \in PassagesOf(next)
  <2>1. CASE doc[Start] \in ps
    BY <1>2, <1>4, <1>5, <2>1
  <2>2. CASE doc[Start] \notin ps
    BY <1>2, <1>4, <1>6, <2>2 DEF rest
  <2>. QED
    BY <2>1, <2>2
<1>. QED
  BY <1>1, <1>7 DEF SafeDocument, next

LEMMA CandidateSafe ==
  ASSUME project \in SafeDocument, NEW delta \in ExternalDelta, Resolves(delta)
  PROVE  Candidate(delta) \in SafeDocument
<1>. DEFINE kept == Without(project, delta.deleted)
            next == Candidate(delta)
            side == delta.values
<1>1. /\ side \in PartialDocument /\ delta.deleted \in SUBSET Passage
      /\ \A f \in DOMAIN side :
           /\ f[1] \notin delta.deleted
           /\ side[f] \in IF f = Start THEN Passage \ delta.deleted ELSE Content
  BY DEF ExternalDelta
<1>2. kept \in SafeDocument
  BY <1>1, WithoutSafe
<1>3. kept \in Document
  BY <1>2 DEF SafeDocument
<1>4. next \in Document
  BY <1>1, <1>3, OverlayType DEF Candidate
<1>5. \A f \in Field : next[f] = IF f \in DOMAIN side THEN side[f] ELSE kept[f]
  BY DEF Candidate, Overlay
<1>6. \A p \in Passage \ delta.deleted, a \in PassageAttr : kept[<<p, a>>] = project[<<p, a>>]
  BY StartIsField DEF Without
<1>. HIDE DEF kept, next, side
<1>7. \A p \in Passage, a \in PassageAttr : kept[<<p, a>>] # None => next[<<p, a>>] # None
  BY <1>1, <1>5, StartIsField, ConstantsAssumption
<1>8. CASE Start \notin DOMAIN side
  <2>1. next[Start] = kept[Start]
    BY <1>5, <1>8, StartIsField
  <2>. QED
    BY <1>2, <1>4, <1>7, <2>1, SafeWhenKept DEF next
<1>9. CASE Start \in DOMAIN side
  <2>. DEFINE p == side[Start]
  <2>1. next[Start] = p /\ p \in Passage \ delta.deleted
    BY <1>1, <1>5, <1>9, StartIsField
  <2>2. p \in PassagesOf(project) \/ FieldsOf({p}) \subseteq DOMAIN side
    BY <1>9 DEF Resolves, side
  <2>. HIDE DEF p
  <2>3. p \in PassagesOf(next)
    <3>1. CASE p \in PassagesOf(project)
      BY <1>6, <1>7, <2>1, <3>1 DEF PassagesOf, Exists
    <3>2. CASE FieldsOf({p}) \subseteq DOMAIN side
      <4>1. \A a \in PassageAttr : <<p, a>> \in FieldsOf({p})
        BY <2>1, StartIsField DEF FieldsOf
      <4>2. \A a \in PassageAttr : next[<<p, a>>] \in Content
        BY <1>1, <1>5, <2>1, <3>2, <4>1, StartIsField
      <4>. QED
        BY <2>1, <4>2, ConstantsAssumption DEF PassagesOf, Exists
    <3>. QED
      BY <2>2, <3>1, <3>2
  <2>. QED
    BY <1>4, <2>1, <2>3 DEF SafeDocument, next
<1>. QED
  BY <1>8, <1>9

-----------------------------------------------------------------------------
(* The history *)

\* push_undo's loop ends with the bytes of what is left on the stack.
LEMMA RecordAccounted ==
  ASSUME HistoryType, HistoryAccounted, NEW before \in Document, NEW after \in Document,
         NEW record, RecordTransaction(DeltaBetween(before, after), record)
  PROVE  HistoryAccounted'
<1>. DEFINE delta == DeltaBetween(before, after)
            t == [before |-> delta.before, after |-> delta.after,
                  bytes |-> Cardinality(DOMAIN delta.before)]
            stack == Append(undoStack, t)
<1>1. t \in Transaction
  BY DeltaBetweenType DEF Transaction
<1>2. /\ StackBytes(undoStack) \in Nat /\ StackBytes(redoStack) \in Nat
      /\ Len(undoStack) \in Nat /\ Len(redoStack) \in Nat
  BY StackBytesType DEF HistoryType
<1>3. BytesWithoutRedo = StackBytes(undoStack)
  BY <1>2 DEF BytesWithoutRedo, Minus, HistoryAccounted
<1>4. redoStack' = <<>> /\ StackBytes(redoStack') = 0 /\ Len(redoStack') = 0
  BY StackBytesEmpty DEF RecordTransaction, ClearRedo
<1>5. CASE ~record
  <2>1. undoStack' = undoStack /\ historyBytes' = StackBytes(undoStack)
    BY <1>3, <1>5 DEF RecordTransaction
  <2>2. StackBytes(undoStack') = StackBytes(undoStack)
    BY <2>1
  <2>. QED
    BY <1>2, <1>4, <2>1, <2>2, ConstantsAssumption DEF HistoryAccounted
<1>6. CASE record
  <2>1. stack \in Seq(Transaction) /\ StackBytes(stack) = StackBytes(undoStack) + t.bytes
    <3>. HIDE DEF t
    <3>. QED
      BY <1>1, AppendProperties, StackBytesAppend DEF HistoryType
  <2>2. PICK n \in 0..Len(stack) :
          /\ ~OverLimit(stack, BytesWithoutRedo + t.bytes, n)
          /\ undoStack' = SubSeq(stack, n + 1, Len(stack))
          /\ historyBytes' = BytesLeft(stack, BytesWithoutRedo + t.bytes, n)
    BY <1>6 DEF RecordTransaction, PushUndo
  <2>. HIDE DEF stack, t
  <2>3. ~OverLimit(stack, StackBytes(stack), n)
    BY <1>3, <2>1, <2>2
  <2>4. historyBytes' = BytesLeft(stack, StackBytes(stack), n)
    BY <1>3, <2>1, <2>2
  <2>5. /\ SubSeq(stack, 1, n) \in Seq(Transaction) /\ undoStack' \in Seq(Transaction)
        /\ StackBytes(stack) = StackBytes(SubSeq(stack, 1, n)) + StackBytes(undoStack')
    BY <2>1, <2>2, StackBytesSplit
  <2>6. StackBytes(SubSeq(stack, 1, n)) \in Nat /\ StackBytes(undoStack') \in Nat
    <3>. DEFINE rest == undoStack'
    <3>1. rest \in Seq(Transaction)
      BY <2>5
    <3>. HIDE DEF rest
    <3>2. StackBytes(rest) \in Nat
      BY <3>1, StackBytesType
    <3>. QED
      BY <2>5, <3>2, StackBytesType DEF rest
  <2>7. BytesLeft(stack, StackBytes(stack), n) = StackBytes(undoStack')
    BY <2>5, <2>6 DEF BytesLeft, Minus
  <2>8. Len(undoStack') = Len(stack) - n
    <3>1. Len(stack) \in Nat /\ n \in Nat /\ n <= Len(stack)
      BY <2>1
    <3>2. n + 1 \in Int /\ \A i \in (n + 1)..Len(stack) : stack[i] \in Transaction
      BY <2>1, <3>1
    <3>3. Len(SubSeq(stack, n + 1, Len(stack)))
            = IF n + 1 <= Len(stack) THEN Len(stack) - (n + 1) + 1 ELSE 0
      BY <3>1, <3>2, SubSeqProperties
    <3>. QED
      BY <2>2, <3>1, <3>3
  <2>9. Len(stack) - n <= MaxHistoryEntries /\ StackBytes(undoStack') <= MaxHistoryBytes
    <3>1. Len(stack) \in Nat /\ n \in Nat
      BY <2>1
    <3>. QED
      BY <2>3, <2>6, <2>7, <3>1, ConstantsAssumption DEF OverLimit
  <2>10. Len(stack) - n \in Int
    BY <2>1
  <2>. QED
    BY <1>4, <2>4, <2>6, <2>7, <2>8, <2>9, <2>10 DEF HistoryAccounted
<1>. QED
  BY <1>5, <1>6

\* A transaction that moves from one stack to the other keeps its bytes.
LEMMA MoveAccounted ==
  ASSUME NEW from \in Seq(Transaction), NEW to \in Seq(Transaction), from # <<>>
  PROVE  /\ StackBytes(Front(from)) + StackBytes(Append(to, Last(from)))
              = StackBytes(from) + StackBytes(to)
         /\ Len(Front(from)) + Len(Append(to, Last(from))) = Len(from) + Len(to)
<1>1. /\ Front(from) \in Seq(Transaction) /\ Last(from) \in Transaction
      /\ Len(Front(from)) = Len(from) - 1
      /\ StackBytes(from) = StackBytes(Front(from)) + Last(from).bytes
  BY StackBytesFront
<1>2. StackBytes(Append(to, Last(from))) = StackBytes(to) + Last(from).bytes
  BY <1>1, StackBytesAppend
<1>3. Len(Append(to, Last(from))) = Len(to) + 1
  BY <1>1, AppendProperties
<1>4. /\ StackBytes(Front(from)) \in Nat /\ StackBytes(to) \in Nat /\ Last(from).bytes \in Nat
      /\ Len(from) \in Nat /\ Len(to) \in Nat
  <2>1. StackBytes(Front(from)) \in Nat /\ StackBytes(to) \in Nat
    BY <1>1, StackBytesType
  <2>2. Last(from).bytes \in Nat
    BY <1>1 DEF Transaction
  <2>. QED
    BY <2>1, <2>2
<1>. QED
  BY <1>1, <1>2, <1>3, <1>4

LEMMA HistoryAccountedNext ==
  ASSUME IInv, HistoryAccounted, [Next]_vars
  PROVE  HistoryAccounted'
<1>0. HistoryType /\ project \in Document
  BY TypeParts DEF IInv, DocumentType
<1>1. ASSUME NEW doc \in Document, NEW record, Commit(doc, record) PROVE HistoryAccounted'
  BY <1>0, <1>1, RecordAccounted DEF Commit
<1>2. ASSUME NEW p \in Passage, NEW v \in Content, NEW record, UpdatePassageText(p, v, record)
      PROVE  HistoryAccounted'
  BY <1>0, <1>1, <1>2, WithTextType DEF UpdatePassageText
<1>3. ASSUME NEW p \in Passage, NEW a \in PassageAttr, NEW v \in Content,
             NEW record, UpdatePassage(p, [x \in {a} |-> v], record)
      PROVE  HistoryAccounted'
  <2>1. [x \in {a} |-> v] \in [{a} -> Content]
    OBVIOUS
  <2>2. WithPassage(project, p, [x \in {a} |-> v]) \in Document
    BY <1>0, <2>1, WithPassageType
  <2>. QED
    BY <1>1, <1>3, <2>2 DEF UpdatePassage
<1>4. ASSUME NEW p \in Passage, NEW record, SetStartPassage(p, record)
      PROVE  HistoryAccounted'
  <2>1. [project EXCEPT ![Start] = p] \in Document
    BY <1>0 DEF Document, Value
  <2>. QED
    BY <1>1, <1>4, <2>1 DEF SetStartPassage
<1>5. ASSUME NEW v \in Content, NEW record, UpdateStoryScript(v, record)
      PROVE  HistoryAccounted'
  <2>1. [project EXCEPT ![Script] = v] \in Document
    BY <1>0 DEF Document, Value
  <2>. QED
    BY <1>1, <1>5, <2>1 DEF UpdateStoryScript
<1>6. ASSUME NEW p \in Passage, NEW values \in [PassageAttr -> Content],
             NEW record, CreatePassage(p, values, record)
      PROVE  HistoryAccounted'
  <2>. DEFINE doc == WithPassage(project, p, values)
  <2>1. doc \in Document
    BY <1>0, WithPassageType
  <2>2. [doc EXCEPT ![Start] = p] \in Document
    BY <2>1 DEF Document, Value
  <2>3. Commit(IF doc[Start] = None THEN [doc EXCEPT ![Start] = p] ELSE doc, record)
    BY <1>6 DEF CreatePassage
  <2>. HIDE DEF doc
  <2>4. (IF doc[Start] = None THEN [doc EXCEPT ![Start] = p] ELSE doc) \in Document
    BY <2>1, <2>2
  <2>. QED
    BY <1>1, <2>3, <2>4
<1>7. ASSUME NEW ps \in SUBSET Passage, NEW record, DeletePassages(ps, record)
      PROVE  HistoryAccounted'
  BY <1>0, <1>1, <1>7, WithoutType DEF DeletePassages
<1>8. ASSUME Undo PROVE HistoryAccounted'
  BY <1>0, <1>8, MoveAccounted DEF Undo, HistoryType, HistoryAccounted
<1>9. ASSUME Redo PROVE HistoryAccounted'
  <2>1. /\ StackBytes(redoStack') + StackBytes(undoStack')
              = StackBytes(redoStack) + StackBytes(undoStack)
        /\ Len(redoStack') + Len(undoStack') = Len(redoStack) + Len(undoStack)
    BY <1>0, <1>9, MoveAccounted DEF Redo, HistoryType
  <2>2. /\ undoStack \in Seq(Transaction) /\ redoStack \in Seq(Transaction)
        /\ undoStack' \in Seq(Transaction) /\ redoStack' \in Seq(Transaction)
    BY <1>0, <1>9, StackMoveType DEF Redo, HistoryType
  <2>3. /\ StackBytes(undoStack) \in Nat /\ StackBytes(redoStack) \in Nat
        /\ Len(undoStack) \in Nat /\ Len(redoStack) \in Nat
        /\ Len(undoStack') \in Nat /\ Len(redoStack') \in Nat
    BY <2>2, StackBytesType
  <2>4. StackBytes(undoStack') \in Nat /\ StackBytes(redoStack') \in Nat
    <3>1. \A s \in Seq(Transaction) : StackBytes(s) \in Nat
      BY StackBytesType
    <3>. QED
      BY <2>2, <3>1
  <2>5. historyBytes' = historyBytes
    BY <1>9 DEF Redo
  <2>. QED
    BY <2>1, <2>3, <2>4, <2>5 DEF HistoryAccounted
<1>10. ASSUME NEW r, AcknowledgeSaved(r) PROVE HistoryAccounted'
  BY <1>10 DEF AcknowledgeSaved, historyVars, HistoryAccounted
<1>11. ASSUME NEW id, NEW delta \in ExternalDelta, NEW mode, IngestExternalDelta(id, delta, mode)
       PROVE  HistoryAccounted'
  <2>1. Candidate(delta) \in Document
    BY CandidateType, TypeParts DEF IInv
  <2>2. CASE Candidate(delta) # project
    BY <1>0, <1>11, <2>1, <2>2, RecordAccounted DEF IngestExternalDelta
  <2>3. CASE Candidate(delta) = project
    BY <1>11, <2>3 DEF IngestExternalDelta, historyVars, HistoryAccounted
  <2>. QED
    BY <2>2, <2>3
<1>12. CASE UNCHANGED vars
  BY <1>12 DEF vars, HistoryAccounted
<1>. QED
  BY <1>2, <1>3, <1>4, <1>5, <1>6, <1>7, <1>8, <1>9, <1>10, <1>11, <1>12 DEF Next

\* Both stacks lead through safe documents, from the current one.
ChainInv == UndoChain /\ RedoChain

LEMMA ChainSafe ==
  ASSUME UndoChain, undoStack \in Seq(Transaction)
  PROVE  project \in SafeDocument
<1>1. PICK docs : Leads(docs, undoStack, project, "before", "after")
  BY DEF UndoChain
<1>2. Len(undoStack) + 1 \in 1..(Len(undoStack) + 1)
  OBVIOUS
<1>. QED
  BY <1>1, <1>2 DEF Leads

LEMMA RecordChain ==
  ASSUME HistoryType, project \in SafeDocument, UndoChain,
         NEW doc \in SafeDocument, project' = doc,
         RecordTransaction(DeltaBetween(project, doc), TRUE)
  PROVE  ChainInv'
<1>. DEFINE delta == DeltaBetween(project, doc)
            t == [before |-> delta.before, after |-> delta.after,
                  bytes |-> Cardinality(DOMAIN delta.before)]
            stack == Append(undoStack, t)
<1>1. project \in Document /\ doc \in Document
  BY DEF SafeDocument
<1>2. t \in Transaction
  BY <1>1, DeltaBetweenType DEF Transaction
<1>3. project = Overlay(doc, t["before"]) /\ doc = Overlay(project, t["after"])
  BY <1>1, DeltaLeads
<1>4. PICK n \in 0..Len(stack) : undoStack' = SubSeq(stack, n + 1, Len(stack))
  BY DEF RecordTransaction, PushUndo
<1>5. redoStack' = <<>>
  BY DEF RecordTransaction, ClearRedo
<1>. HIDE DEF t
<1>6. stack \in Seq(Transaction)
  BY <1>2, AppendProperties DEF HistoryType
<1>7. PICK docs : Leads(docs, undoStack, project, "before", "after")
  BY DEF UndoChain
<1>8. PICK more : Leads(more, stack, doc, "before", "after")
  BY <1>2, <1>3, <1>7, LeadsPush DEF HistoryType
<1>. HIDE DEF stack
<1>9. \E fewer : Leads(fewer, SubSeq(stack, n + 1, Len(stack)), doc, "before", "after")
  BY <1>4, <1>6, <1>8, LeadsDrop
<1>10. \E docs2 : Leads(docs2, <<>>, doc, "after", "before")
  BY LeadsNowhere
<1>. QED
  BY <1>4, <1>5, <1>9, <1>10 DEF ChainInv, UndoChain, RedoChain

LEMMA CommitChain ==
  ASSUME IInv, ChainInv, NEW doc \in SafeDocument, Commit(doc, TRUE)
  PROVE  ChainInv'
<1>1. HistoryType /\ UndoChain /\ project \in SafeDocument
  BY ChainSafe, TypeParts DEF IInv, ChainInv, HistoryType
<1>2. project' = doc /\ RecordTransaction(DeltaBetween(project, doc), TRUE)
  BY DEF Commit, ReplaceDocument
<1>. QED
  BY <1>1, <1>2, RecordChain

LEMMA UndoKeepsChain ==
  ASSUME IInv, ChainInv, Undo
  PROVE  ChainInv'
<1>. DEFINE t == Last(undoStack)
            next == Overlay(project, t["before"])
<1>1. undoStack \in Seq(Transaction) /\ redoStack \in Seq(Transaction) /\ undoStack # <<>>
  BY TypeParts DEF IInv, HistoryType, Undo
<1>2. /\ project' = Overlay(project, t.before) /\ undoStack' = Front(undoStack)
      /\ redoStack' = Append(redoStack, t)
  BY DEF Undo, ReplaceDocument
<1>3. project' = next
  BY <1>2
<1>4. t \in Transaction
  BY <1>1, StackMoveType
<1>5. PICK docs : Leads(docs, undoStack, project, "before", "after")
  BY DEF ChainInv, UndoChain
<1>6. PICK others : Leads(others, redoStack, project, "after", "before")
  BY DEF ChainInv, RedoChain
<1>7. /\ next \in SafeDocument
      /\ project = Overlay(next, t["after"])
      /\ \E fewer : Leads(fewer, Front(undoStack), next, "before", "after")
  BY <1>1, <1>5, LeadsPop
<1>8. next = Overlay(project, t["before"])
  OBVIOUS
<1>. HIDE DEF next, t
<1>9. \E more : Leads(more, Append(redoStack, t), next, "after", "before")
  BY <1>1, <1>4, <1>6, <1>7, <1>8, LeadsPush
<1>. QED
  BY <1>2, <1>3, <1>7, <1>9 DEF ChainInv, UndoChain, RedoChain

LEMMA RedoKeepsChain ==
  ASSUME IInv, ChainInv, Redo
  PROVE  ChainInv'
<1>. DEFINE t == Last(redoStack)
            next == Overlay(project, t["after"])
<1>1. undoStack \in Seq(Transaction) /\ redoStack \in Seq(Transaction) /\ redoStack # <<>>
  BY TypeParts DEF IInv, HistoryType, Redo
<1>2. /\ project' = Overlay(project, t.after) /\ redoStack' = Front(redoStack)
      /\ undoStack' = Append(undoStack, t)
  BY DEF Redo, ReplaceDocument
<1>3. project' = next
  BY <1>2
<1>4. t \in Transaction
  BY <1>1, StackMoveType
<1>5. PICK docs : Leads(docs, undoStack, project, "before", "after")
  BY DEF ChainInv, UndoChain
<1>6. PICK others : Leads(others, redoStack, project, "after", "before")
  BY DEF ChainInv, RedoChain
<1>7. /\ next \in SafeDocument
      /\ project = Overlay(next, t["before"])
      /\ \E fewer : Leads(fewer, Front(redoStack), next, "after", "before")
  BY <1>1, <1>6, LeadsPop
<1>8. next = Overlay(project, t["after"])
  OBVIOUS
<1>. HIDE DEF next, t
<1>9. \E more : Leads(more, Append(undoStack, t), next, "before", "after")
  BY <1>1, <1>4, <1>5, <1>7, <1>8, LeadsPush
<1>. QED
  BY <1>2, <1>3, <1>7, <1>9 DEF ChainInv, UndoChain, RedoChain

LEMMA ChainInit == Init => ChainInv
<1>. SUFFICES ASSUME Init PROVE ChainInv
  OBVIOUS
<1>1. project \in SafeDocument
  BY DEF Init, Documents, SafeDocument, Document
<1>2. undoStack = <<>> /\ redoStack = <<>>
  BY DEF Init
<1>. QED
  BY <1>1, <1>2, LeadsNowhere DEF ChainInv, UndoChain, RedoChain

LEMMA ChainNext ==
  ASSUME RecordModes = {TRUE}, IInv, ChainInv, [Next]_vars
  PROVE  ChainInv'
<1>0. project \in SafeDocument /\ project \in Document
  BY ChainSafe, TypeParts DEF IInv, ChainInv, HistoryType, SafeDocument
<1>1. ASSUME NEW p \in Passage, NEW v \in Content, UpdatePassageText(p, v, TRUE)
      PROVE  ChainInv'
  BY <1>0, <1>1, WithTextSafe, CommitChain DEF UpdatePassageText
<1>2. ASSUME NEW p \in Passage, NEW a \in PassageAttr, NEW v \in Content,
             UpdatePassage(p, [x \in {a} |-> v], TRUE)
      PROVE  ChainInv'
  <2>1. [x \in {a} |-> v] \in [{a} -> Content]
    OBVIOUS
  <2>2. WithPassage(project, p, [x \in {a} |-> v]) \in SafeDocument
    BY <1>0, <2>1, WithPassageSafe
  <2>. QED
    BY <1>2, <2>2, CommitChain DEF UpdatePassage
<1>3. ASSUME NEW p \in Passage, SetStartPassage(p, TRUE)
      PROVE  ChainInv'
  BY <1>0, <1>3, WithStartSafe, CommitChain DEF SetStartPassage
<1>4. ASSUME NEW v \in Content, UpdateStoryScript(v, TRUE)
      PROVE  ChainInv'
  BY <1>0, <1>4, WithScriptSafe, CommitChain DEF UpdateStoryScript
<1>5. ASSUME NEW p \in Passage, NEW values \in [PassageAttr -> Content],
             CreatePassage(p, values, TRUE)
      PROVE  ChainInv'
  <2>. DEFINE doc == WithPassage(project, p, values)
  <2>1. (IF doc[Start] = None THEN [doc EXCEPT ![Start] = p] ELSE doc) \in SafeDocument
    BY <1>0, CreatedSafe
  <2>2. Commit(IF doc[Start] = None THEN [doc EXCEPT ![Start] = p] ELSE doc, TRUE)
    BY <1>5 DEF CreatePassage
  <2>. HIDE DEF doc
  <2>. QED
    BY <2>1, <2>2, CommitChain
<1>6. ASSUME NEW ps \in SUBSET Passage, DeletePassages(ps, TRUE)
      PROVE  ChainInv'
  BY <1>0, <1>6, WithoutSafe, CommitChain DEF DeletePassages
<1>7. CASE Undo
  BY <1>7, UndoKeepsChain
<1>8. CASE Redo
  BY <1>8, RedoKeepsChain
<1>9. ASSUME NEW r, AcknowledgeSaved(r) PROVE ChainInv'
  BY <1>9 DEF AcknowledgeSaved, historyVars, ChainInv, UndoChain, RedoChain
<1>10. ASSUME NEW id, NEW delta \in ExternalDelta, NEW mode, IngestExternalDelta(id, delta, mode)
       PROVE  ChainInv'
  <2>1. Candidate(delta) \in SafeDocument /\ project' = Candidate(delta)
    BY <1>0, <1>10, CandidateSafe DEF IngestExternalDelta
  <2>2. CASE Candidate(delta) # project
    <3>1. RecordTransaction(DeltaBetween(project, Candidate(delta)), TRUE)
      BY <1>10, <2>2 DEF IngestExternalDelta
    <3>. QED
      BY <1>0, <2>1, <3>1, RecordChain, TypeParts DEF IInv, ChainInv
  <2>3. CASE Candidate(delta) = project
    BY <1>10, <2>1, <2>3 DEF IngestExternalDelta, historyVars, ChainInv, UndoChain, RedoChain
  <2>. QED
    BY <2>2, <2>3
<1>11. CASE UNCHANGED vars
  BY <1>11 DEF vars, ChainInv, UndoChain, RedoChain
<1>. QED
  BY <1>1, <1>2, <1>3, <1>4, <1>5, <1>6, <1>7, <1>8, <1>9, <1>10, <1>11 DEF Next

\* The documents of the chains are those undo and redo pass through.
LEMMA ChainIsHistory ==
  ASSUME IInv, ChainInv
  PROVE  HistoryChain
<1>0. undoStack \in Seq(Transaction) /\ redoStack \in Seq(Transaction) /\ project \in Document
  BY TypeParts DEF IInv, HistoryType, DocumentType
<1>1. ASSUME NEW n \in 1..Len(undoStack),
             NEW f \in DOMAIN undoStack[Len(undoStack) - n + 1].after
      PROVE  Rewound(n - 1)[f] = undoStack[Len(undoStack) - n + 1].after[f]
  <2>. DEFINE i == Len(undoStack) - n + 1
              t == undoStack[i]
  <2>1. /\ i \in 1..Len(undoStack) /\ Len(undoStack) + 1 - (n - 1) = i + 1
        /\ n - 1 \in 0..Len(undoStack)
    BY <1>0
  <2>2. PICK docs : Leads(docs, undoStack, project, "before", "after")
    BY DEF ChainInv, UndoChain
  <2>3. /\ docs[Len(undoStack) + 1] = project
        /\ \A j \in 1..Len(undoStack) : /\ docs[j] = Overlay(docs[j + 1], undoStack[j].before)
                                        /\ docs[j + 1] = Overlay(docs[j], undoStack[j].after)
    BY <2>2 DEF Leads
  <2>4. Rewound(n - 1) = docs[i + 1]
    <3>1. Rewound(n - 1) = docs[Len(undoStack) + 1 - (n - 1)]
      BY <1>0, <2>1, <2>3, RewoundIs
    <3>. QED
      BY <2>1, <3>1
  <2>5. docs[i + 1] = Overlay(docs[i], t.after) /\ t \in Transaction
    BY <1>0, <2>1, <2>3, ElementOfSeq
  <2>6. f \in Field
    BY <2>5 DEF Transaction, PartialDocument
  <2>. QED
    BY <2>4, <2>5, <2>6 DEF Overlay
<1>2. ASSUME NEW n \in 1..Len(redoStack),
             NEW f \in DOMAIN redoStack[Len(redoStack) - n + 1].before
      PROVE  Replayed(n - 1)[f] = redoStack[Len(redoStack) - n + 1].before[f]
  <2>. DEFINE i == Len(redoStack) - n + 1
              t == redoStack[i]
  <2>1. /\ i \in 1..Len(redoStack) /\ Len(redoStack) + 1 - (n - 1) = i + 1
        /\ n - 1 \in 0..Len(redoStack)
    BY <1>0
  <2>2. PICK docs : Leads(docs, redoStack, project, "after", "before")
    BY DEF ChainInv, RedoChain
  <2>3. /\ docs[Len(redoStack) + 1] = project
        /\ \A j \in 1..Len(redoStack) : /\ docs[j] = Overlay(docs[j + 1], redoStack[j].after)
                                        /\ docs[j + 1] = Overlay(docs[j], redoStack[j].before)
    BY <2>2 DEF Leads
  <2>4. Replayed(n - 1) = docs[i + 1]
    <3>1. Replayed(n - 1) = docs[Len(redoStack) + 1 - (n - 1)]
      BY <1>0, <2>1, <2>3, ReplayedIs
    <3>. QED
      BY <2>1, <3>1
  <2>5. docs[i + 1] = Overlay(docs[i], t.before) /\ t \in Transaction
    BY <1>0, <2>1, <2>3, ElementOfSeq
  <2>6. f \in Field
    BY <2>5 DEF Transaction, PartialDocument
  <2>. QED
    BY <2>4, <2>5, <2>6 DEF Overlay
<1>. QED
  BY <1>1, <1>2 DEF HistoryChain

\* The byte counter accounts for exactly the transactions on the two stacks
\* and both limits of the history hold, whatever commands are recorded.
THEOREM HistoryBytesExact == Spec => []HistoryAccounted
<1>1. Init => HistoryAccounted
  BY StackBytesEmpty, ConstantsAssumption DEF Init, HistoryAccounted
<1>2. IInv /\ HistoryAccounted /\ [Next]_vars => HistoryAccounted'
  BY HistoryAccountedNext
<1>. QED
  BY InitInv, NextInv, <1>1, <1>2, PTL DEF Spec

\* When every command records its history, as the editor's commands do, each
\* transaction finds the document it was recorded over when its turn comes.
THEOREM HistoryLeadsBack ==
  ASSUME RecordModes = {TRUE}
  PROVE  Spec => []HistoryConsistent
<1>1. IInv /\ ChainInv /\ [Next]_vars => ChainInv'
  BY ChainNext
<1>2. IInv /\ ChainInv /\ HistoryAccounted => HistoryConsistent
  BY ChainIsHistory DEF HistoryConsistent
<1>. QED
  BY InitInv, NextInv, ChainInit, <1>1, <1>2, HistoryBytesExact, PTL DEF Spec

\* The start passage never names a passage that is gone, whatever deletions,
\* undo steps, redo steps and external merges follow each other.
THEOREM StartPassageStays ==
  ASSUME RecordModes = {TRUE}
  PROVE  Spec => []StartPassageExists
<1>1. IInv /\ ChainInv /\ [Next]_vars => ChainInv'
  BY ChainNext
<1>2. IInv /\ ChainInv => StartPassageExists
  BY ChainSafe, TypeParts DEF IInv, HistoryType, ChainInv, SafeDocument, StartPassageExists
<1>. QED
  BY InitInv, NextInv, ChainInit, <1>1, <1>2, PTL DEF Spec

=============================================================================
