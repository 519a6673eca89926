\* A perfect air, and a lossy one with polls that time out at any moment; the sender
\* stops after a failure.
SPECIFICATION FairSpec
CONSTANTS
  UINT8_MAX = 4
  Addrs = {0, 1, 2}
  AckIds = {0, 1, 2}
  MaxJobs = 3
  MaxFragments = 3
  Payloads <- MCPayloads
  NoPayload = NoPayload
  NULL = NULL
  Nothing = Nothing
  Corrupt = Corrupt
  Sender = 1
  Host = 2
  Bystanders = {}
  Workloads <- GoodIds
  timeout_n = 4
  StopOnFailure = TRUE
  FaultSets = {{}, {"lost", "corrupt", "early"}}
  MaxRestarts = 0
CHECK_DEADLOCK FALSE
INVARIANTS
  TypeOK
  FragmentsNeverCommands
  LockStep
  HostNotLockedOut
PROPERTIES
  ImplementsTransfer
  OkIsDelivered
  EverythingArrives
