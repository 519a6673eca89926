\* Any register access may fail, and the chip may refuse to leave LoRa mode.
SPECIFICATION Spec
CONSTANTS
  SomeBandwidths = {125000, 250000, 500000}
  Factors = {5, 7, 12, 13}
  SomeRates = {1, 4}
  SomeChannels = {0, 5, 14}
  SpiFails = TRUE
  ModeStuck = TRUE
INVARIANTS
  OnPlan
  RememberedFactorIsOnChip
  InBand
  FramesFitTimeout
