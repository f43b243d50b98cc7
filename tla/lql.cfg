SPECIFICATION LqlRunSpec
CONSTANTS
  r1 = r1
  r2 = r2
  None = None
  Absent = Absent
  Layers = {0, 1}
  Features = {0, 1, 2}
  BaseScore <- Score
  BaseMeta <- Meta
  KnnEntries <- AllFacts
  Readers = {r1, r2}
  Metas = {1, 3}
  Gates <- Both
  Vecs = {1, 2}
  TopK = 1
  Patches <- AllPatches
  MaxPatches = 3
  MaxEdits = 3
  Paths = {"b.vlp"}
  Disk <- OneFile
  Weighted = TRUE
  Statements <- AllStatements
INVARIANT CacheInStep
INVARIANT AnswerIndexesEntries
INVARIANT OverlayIsReplay
INVARIANT QueryFindsBest
INVARIANT RecordingReplays
PROPERTY RecordingOnlyGrows
\* A session whose bounds are used up has nothing left to run.
CHECK_DEADLOCK FALSE
