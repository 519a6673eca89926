\* A sender that goes on with another burst after one that failed.
SPECIFICATION Spec
CONSTANTS
  UINT8_MAX = 3
  Addrs = {0, 1, 2}
  AckIds = {0, 1, 2}
  MaxJobs = 2
  MaxFragments = 2
  Payloads <- MCPayloads
  NoPayload = NoPayload
  NULL = NULL
  Nothing = Nothing
  Corrupt = Corrupt
  Sender = 1
  Host = 2
  Bystanders = {}
  Workloads <- DistinctIds
  timeout_n = 2
  StopOnFailure = FALSE
  FaultSets = {{"spi"}}
  MaxRestarts = 0
CHECK_DEADLOCK FALSE
INVARIANTS
  HandedWhole
