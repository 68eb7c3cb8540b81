SPECIFICATION BspSpec
CONSTANTS
  Irq <- MCIrq
  Cause <- MCCause
  ProgramLength = 5
  Half = 12
  MaxDelay = 2
  MaxStart = 13
  SleepTime <- MCSleepTime
CHECK_DEADLOCK FALSE
INVARIANTS
  TrapDiscipline
  ReportIsOfTheFault
  RdcycleIsAtomic
PROPERTIES
  TrapTransparent
  EndIsReached
  IgnoredIrqHangs
  SleepsLongEnough
  SleepEnds
