SPECIFICATION BusSpec
CONSTANTS
  DEADLINE = 4
  Write = {FALSE, TRUE}
  MaxOwed = 3
INVARIANTS
  NoUnaskedResponse
  AnswersInTime
  EveryCoreIsChecked
PROPERTIES
  ForgottenForGood
CHECK_DEADLOCK FALSE
