\* Failing radios, a host that restarts, and a sender that goes on after a failure.
SPECIFICATION FairSpec
CONSTANTS
  UINT8_MAX = 3
  Addrs = {0, 1, 2}
  AckIds = {0, 1, 2}
  MaxJobs = 2
  MaxFragments = 2
  Payloads <- MCPayloads
  NoPayload = NoPayload
  NULL = NULL
  Nothing = Nothing
  Corrupt = Corrupt
  Sender = 1
  Host = 2
  Bystanders = {}
  Workloads <- DistinctIds
  timeout_n = 2
  StopOnFailure = FALSE
  FaultSets = {{"lost", "early", "spi", "restart"}}
  MaxRestarts = 1
CHECK_DEADLOCK FALSE
INVARIANTS
  NothingMixed
  BurstHandedOnce
PROPERTIES
  AllReported
