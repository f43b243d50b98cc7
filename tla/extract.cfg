SPECIFICATION ExtractSpec
CONSTANTS
  m1 = m1
  Jobs <- AllJobs
  NumLayers = 2
  PowerLoss = TRUE
  None = None
  Torn = Torn
  MaxRuns = 3
INVARIANT FinishedIsWhole
INVARIANT CheckpointParses
CHECK_DEADLOCK FALSE
