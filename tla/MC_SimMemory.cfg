SPECIFICATION Spec
CONSTANTS
  MEMBUS_WORDS = 2
  WORD_BYTES = 2
  Image <- MCImage
  FILL <- MCFill
  Addresses <- MCAddresses
  Id <- MCId
  Data <- MCData
  Strobe <- MCStrobe
  MaxCycle = 4
INVARIANTS
  DumpRestores
PROPERTIES
  ImplementsLines
CHECK_DEADLOCK FALSE
