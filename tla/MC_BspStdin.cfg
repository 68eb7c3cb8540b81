SPECIFICATION Spec
CONSTANTS
  STDIN_BUF_SIZE = 3
  Byte <- MCByte
  MaxSent = 5
  MaxCount = 3
INVARIANTS
  NoNestedTrap
  NoLossNoReorder
PROPERTIES
  NoFalseEof
  StormNeverEnds
  ImplementsFifo
