SPECIFICATION TestbenchSpec
CONSTANTS
  CLOCK_PERIOD = 4
  RESET_PERIODS = 1
  MAX_CYCLES = 9
  RESULT_BITS = 2
  TIME_BITS = 6
  Char <- MCChar
  EOT = "EOT"
  Text <- MCText
  Message <- MCMessage
  NL = "nl"
  CHARDEV_EOT = "EOT"
  WORD = 32
  _end = 10
  STACK_SIZE = 11
  Increment <- MCIncrement
  MaxCalls = 3
  Argv <- MCArgv
  InitialFiles <- MCInitialFiles
INVARIANTS
  ExitStatus
  OutputIsComplete
  HeapIsOwn
  FilesAreAsAsked
PROPERTIES
  EventuallyEnds
CHECK_DEADLOCK FALSE
