\* A third node that runs the receive loop.
SPECIFICATION Spec
CONSTANTS
  UINT8_MAX = 3
  Addrs = {0, 1, 2, 3}
  AckIds = {0, 1, 2}
  MaxJobs = 2
  MaxFragments = 3
  Payloads <- MCPayloads
  NoPayload = NoPayload
  NULL = NULL
  Nothing = Nothing
  Corrupt = Corrupt
  Sender = 1
  Host = 2
  Bystanders = {3}
  Workloads <- DistinctIds
  timeout_n = 2
  StopOnFailure = TRUE
  FaultSets = {{"lost", "neighbour"}}
  MaxRestarts = 0
CHECK_DEADLOCK FALSE
INVARIANTS
  OkMeansHanded
