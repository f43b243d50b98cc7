SPECIFICATION GraphRunSpec
CONSTANTS
  n1 = n1
  n2 = n2
  n3 = n3
  n4 = n4
  n5 = n5
  r = r
  q = q
  NoAnswer = NoAnswer
  Torn = Torn
  Cut = Cut
  Nothing = Nothing
  NoEdge = NoEdge
  Nodes = {n1, n2, n3, n4}
  Labels = {r, q}
  From = n1
  To = n4
  Possible <- Crossing
  Weights <- FewWeights
  Heuristics <- Estimates
  Infinity = 15
  Words = {n1, n2, n3, n4, n5}
  Templates = {r, q}
  Seeds <- OneSeed
  Followed <- Four
  Knowledge <- SomeKnowledge
  MaxDepth = 2
  MaxEntities = 4
  Flaky = TRUE
  DiskFails = TRUE
  Wide = TRUE
  MaxRuns = 3
  MaxFaults = 2
  Entities = {n1, n2}
  Relations = {r, q}
  Triples <- SomeTriples
  Payloads <- SomePayloads
  Priority <- default_source_priority
  NoNodes = NoNodes
  MaxEdges = 3
  MaxOther = 2
INVARIANT GraphInStep
INVARIANT ExtractionHolds
INVARIANT PathIsShortest
PROPERTY IsTripleMap
PROPERTY SavesAll
\* A search that has answered, and a command whose runs are used up, do nothing more.
CHECK_DEADLOCK FALSE
