SPECIFICATION RebalanceSpec
CONSTANTS
  a1 = a1  a2 = a2  a3 = a3  b1 = b1  s3 = s3  s4 = s4
  Models <- OneModel  MaxLayer = 2  MaxExpert = 0
  Procs = {a1, a2, a3, b1}  ModeA = {a1, a2, a3}  Reenter = {}
  Streams = {s1, s2, s3, s4}  Cap = 1  Beats <- NoBeat
  Ram <- SameRam  Home <- Nested  Stored <- HasMiddle
  Target = 1  HotThreshold = 0  DemoteThreshold = 0
  ImbalanceFactor = 2  AdminSlices <- Middle
  Budget <- Assign1
SYMMETRY StreamSymmetry
INVARIANT StreamsInv
