SPECIFICATION Spec
CONSTANTS
  CLOCK_PERIOD = 10
  Value <- MCValue
  MaxCycles = 3
  Header <- MCHeader
  IdOf <- MCIdOf
  Interface <- MCInterface
INVARIANTS
  SamplesAreCycles
  ChangesAreRetirements
  ComparisonVerdict
  HighRate
  StripKeepsSignals
CHECK_DEADLOCK FALSE
