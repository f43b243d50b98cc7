SPECIFICATION CompileSpec
CONSTANTS
  p1 = p1  p2 = p2
  s = s  t = t  d1 = d1  d2 = d2  d3 = d3  d4 = d4  d5 = d5
  None = None  Linked = Linked
  Procs = {p1, p2}
  Jobs <- AllJobs
  SourceFiles <- Tied
  Dirs <- AllDirs
  SrcDir = s
  TopDir = t
  CanLink = {TRUE, FALSE}
  Faults = TRUE
  Stuck = TRUE
  Reextracts = FALSE
  MaxRuns = 3
INVARIANT StagingGone
INVARIANT ChecksumsMatch
INVARIANT SourceKept
PROPERTY PromotedIsWhole
PROPERTY BakedStands
\* Statements are bounded: after the last one nothing is left to do.
CHECK_DEADLOCK FALSE
