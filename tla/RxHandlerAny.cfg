\* Two senders, one of them not listened to at first, and every packet they can form.
SPECIFICATION Spec
CONSTANTS
  UINT8_MAX = 3
  Addrs = {0, 1, 2, 3}
  AckIds = {0, 1, 2}
  Payloads = {d1}
  NoPayload = NoPayload
  NULL = NULL
  host_addr = 2
  Remotes = {1, 3}
  Arrivals <- AnyArrival
INVARIANTS
  TypeOK
  CapturedInOrder
  DeliveredInOrder
PROPERTIES
  CaptureOnlyGrows
  ImplementsSession
