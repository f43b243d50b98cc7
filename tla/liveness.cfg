SPECIFICATION LiveSpec
CONSTANTS
  a1 = a1  a2 = a2  a3 = a3  b1 = b1
  Models <- OneModel  MaxLayer = 0  MaxExpert = 0
  Procs = {a1, b1}  ModeA = {a1}  Reenter = {}
  Streams = {s1, s2}  Cap = 1  Beats <- ThreeRates
  Ram <- SameRam  Home <- SameHome  Stored <- HasShard
  Target = 3  HotThreshold = 2  DemoteThreshold = 1
  ImbalanceFactor = 2  AdminSlices <- NoSlices
  Budget <- Fault1Lapse1
PROPERTIES DrainEnds GridReforms HotShardsFollow DepartedIsRemoved SpareIsUsed StaleIsSettled
