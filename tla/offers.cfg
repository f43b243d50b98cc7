SPECIFICATION Spec
CONSTANTS
  a1 = a1  a2 = a2  a3 = a3  b1 = b1
  Models <- OneModel  MaxLayer = 0  MaxExpert = 0
  Procs = {a1, b1}  ModeA = {a1}  Reenter = {a1}
  Streams = {s1, s2}  Cap = 1  Beats <- IdleBeat
  Ram <- SameRam  Home <- SameHome  Stored <- HasShard
  Target = 2  HotThreshold = 0  DemoteThreshold = 0
  ImbalanceFactor = 2  AdminSlices <- OnlyWhole
  Budget <- OneOfEach
SYMMETRY StreamSymmetry
INVARIANTS TypeOK IndexInStep OneClaim NoGhosts
PROPERTIES OfferSpec
