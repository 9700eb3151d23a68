\* Every command recorded in history, as the editor does, and external deltas of one change.
SPECIFICATION Spec
CONSTANTS
  p1 = p1
  p2 = p2
  linked = linked
  Passage <- MCPassage
  PassageAttr = {"text"}
  Content <- MCContent
  Empty = Empty
  Links <- MCLinks
  Story = Story
  None = None
  DeltaId = {d1}
  NoId = NoId
  MaxHistoryEntries = 2
  MaxHistoryBytes = 7
  RecordModes = {TRUE}
  MaxChanges = 1
  MaxRevision = 4
INVARIANTS DirtyExact HistoryConsistent StartPassageExists
PROPERTIES AutoMergeKeepsLocalEdits
CHECK_DEADLOCK FALSE
