\* Bytes up to 5, two of them to a packet, up to 8 bytes of data: as many fragments as
\* have a number between BEGIN's and END's.
SPECIFICATION Spec
CONSTANTS
  UINT8_MAX = 5
  payload_length_max = 2
  BufferSize = 10
  MaxLength = 8
  Inputs <- ShortData
  Addresses <- TwoAddresses
  AckIds = {0, 5}
INVARIANTS
  ParsedAsSent
  DataIsReassembled
  FramesAreCapturable
CHECK_DEADLOCK FALSE
