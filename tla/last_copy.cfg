SPECIFICATION Spec
CONSTANTS
  a1 = a1  a2 = a2  a3 = a3  b1 = b1
  Models <- OneModel  MaxLayer = 0  MaxExpert = 0
  Procs = {a1, a2}  ModeA = {a1, a2}  Reenter = {}
  Streams = {s1, s2}  Cap = 2  Beats <- TwoLoads
  Ram <- SameRam  Home <- SameHome  Stored <- NoStore
  Target = 1  HotThreshold = 0  DemoteThreshold = 0
  ImbalanceFactor = 2  AdminSlices <- NoSlices
  Budget <- Calm
SYMMETRY StreamSymmetry
PROPERTIES LastCopyKept
