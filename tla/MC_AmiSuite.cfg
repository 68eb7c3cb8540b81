SPECIFICATION SuiteSpec
CONSTANTS
  W = 8
  COUNT_BITS = 4
  MaxPresses = 12
  Argument <- MCArgument
  Factor <- MCFactor
  Exponent <- MCExponent
  Password <- MCPassword
  Portfolio <- MCPortfolio
  Register <- MCRegister
  Vertex <- MCVertex
  EdgeLists <- MCEdgeLists
INVARIANTS
  BranchesAgree
  ArithmeticIsModular
  PinIsFirstPresses
  SpanningForest
CHECK_DEADLOCK FALSE
