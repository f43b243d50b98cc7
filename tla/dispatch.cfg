SPECIFICATION DispatchSpec
CONSTANTS
  a = a
  b = b
  c = c
  d = d
  e = e
  f = f
  g = g
  h = h
  j = j
  HasGrid = TRUE
  None = None
  Servers = {a, b, c, d, e, f, g, h, j}
  Members = {a, b, c, e, f, g, h, j}
  Assigned <- AssignedSlices
  Holds <- HeldSlices
  Requests <- AllRequests
  Statics <- StaticShards
  Hedging = TRUE
  Ceiling = 2
  Loads = {0, 2}
  Latencies = {1}
  Rtts = {1}
  Upsets = 2
INVARIANT AnswersAreRight
PROPERTY AnswerComes
