SPECIFICATION Spec
CONSTANTS
  TopoNodes = {1, 2, 3}
  Pinned = {1, 2, 3}
  MaxRevision = 3
  MaxFailures = 1
  Replicas = {"n1"}
  Leaders = {"n1", "n2"}
  Shards = {0, 1}
  MaxLog = 3
  MaxRestarts = 2
  LeaseNodes = {"n1", "n2"}
  LeaseTtl = 3
  SafetyMargin = 1
  MaxEpoch = 3
  Followers <- MCFollowers
  Streams = {1, 2, 3}
  Chunks <- MCChunks
  Inflight = 1
  MaxOutbound = 2
  MaxInbound = 1
  PublishFaults = 1
INVARIANT PeersConverge OwnersDerived LeaseExclusive PublishDurable
CHECK_DEADLOCK FALSE
