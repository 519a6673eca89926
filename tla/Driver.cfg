\* Frames damaged, timeouts racing with the chip's answer, register accesses failing.
SPECIFICATION FairSpec
CONSTANTS
  MaxCalls = 3
  MaxFrames = 2
  SpiFaults = {TRUE, FALSE}
  CrcErrors = TRUE
INVARIANTS
  TypeOK
  SentIsAired
  ReadIsLastGoodFrame
  ReceptionEndsClean
  NothingUndefinedAired
  NoDamagedContent
PROPERTIES
  CallsReturn
