\* Five rounds on a perfect air, and on a lossy one with and without failing radios.
SPECIFICATION Spec
CONSTANTS
  ROUNDS = 5
CHECK_DEADLOCK FALSE
INVARIANTS
  RoundsMatch
  PassedMeansAnswered
PROPERTIES
  ProgramsEnd
  PerfectPasses
