SPECIFICATION Spec
CONSTANTS
  Irq <- MCIrq
  Cause <- MCCause
  ProgramLength = 4
CHECK_DEADLOCK FALSE
INVARIANTS
  IgnoredIrqReturns
