SPECIFICATION Spec
CONSTANTS
  CLOCK_PERIOD = 10
  Value <- MCValue
  MaxCycles = 3
  Header <- MCHeader
  IdOf <- MCIdOf
  Interface <- MCInterface
INVARIANTS
  EqualSignalsEqualTime
CHECK_DEADLOCK FALSE
