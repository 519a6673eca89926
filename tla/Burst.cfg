\* The burst example on a lossy air, with failing radios, and next to a third node.
SPECIFICATION BurstSpec
CONSTANTS
  UINT8_MAX = 3
  Addrs = {0, 1, 2, 3}
  AckIds = {0, 1}
  MaxJobs = 1
  MaxFragments = 2
  Payloads <- MCPayloads
  NoPayload = NoPayload
  NULL = NULL
  Nothing = Nothing
  Corrupt = Corrupt
  Sender = 1
  Host = 2
  Bystanders = {3}
  Workloads <- OneBurst
  timeout_n = 3
  StopOnFailure = TRUE
  FaultSets = {{"lost", "corrupt", "early"}, {"lost", "early", "spi"}, {"lost", "early", "neighbour"}}
  MaxRestarts = 0
CHECK_DEADLOCK FALSE
INVARIANTS
  NullNeverCalled
  SentIsHanded
  NothingMixed
PROPERTIES
  AllReported
  BothEnd
