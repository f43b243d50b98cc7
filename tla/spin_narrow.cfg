SPECIFICATION Spec
CONSTANTS
  N = 3
  Widths <- NarrowAndWide
  Panics = {}
  MaxCalls = 2
PROPERTY EachChunkOnce
CHECK_DEADLOCK FALSE
