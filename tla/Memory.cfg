\* A burst of one fragment sent, then four packets received by up to two runs of the loop.
SPECIFICATION Spec
CONSTANTS
  MaxPackets = 4
  MaxFragments = 1
  timeout_n = 2
  MaxLoops = 2
  RetryBurst = FALSE
CHECK_DEADLOCK FALSE
INVARIANTS
  NoMisuse
  CapturedKeepContents
