\* Initialised again after a change to a narrower bandwidth.
SPECIFICATION Spec
CONSTANTS
  SomeBandwidths = {62500, 125000}
  Factors = {5, 7, 12, 13}
  SomeRates = {1, 4}
  SomeChannels = {0, 1, 5, 14}
  SpiFails = FALSE
  ModeStuck = FALSE
INVARIANTS
  InBand
