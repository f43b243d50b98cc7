SPECIFICATION FairSpec
CONSTANTS
  N = 3
  Widths <- NarrowAndWide
  Panics = {2}
  MaxCalls = 3
PROPERTY RunsLikeALoop
PROPERTY CallsReturn
\* A pool that has been dropped does nothing more.
CHECK_DEADLOCK FALSE
