SPECIFICATION ServerSpec
CONSTANTS
  client = client
  apply1 = apply1
  apply2 = apply2
  applyAll = applyAll
  insert1 = insert1
  insertAll = insertAll
  remove1 = remove1
  infer1 = infer1
  generate1 = generate1
  walk1 = walk1
  walk2 = walk2
  q8k1 = q8k1
  gateAll = gateAll
  deleteAll = deleteAll
  dropAll = dropAll
  dropGate = dropGate
  describe2 = describe2
  None = None
  Requests <- AllRequests
  Kind <- Kinds
  Sid <- Sids
  Removes <- Removal
  Changes <- ChangesOf
  MinScore <- Scores
  Timeout = TRUE
  TtlPasses = TRUE
  ip1 = ip1
  ip2 = ip2
  Ips = {ip1, ip2}
  Count = 2
  Period = 3
  NoBucket = NoBucket
  MaxTime = 3
INVARIANT SessionsKept
INVARIANT LoadedOnce
INVARIANT CachedIsCurrent
INVARIANT AdmitsAtMost
INVARIANT RefusesOnlyExcess
PROPERTY RequestsEnd
\* RequestsEnd says more: a request that waits for ever does not end.
CHECK_DEADLOCK FALSE
