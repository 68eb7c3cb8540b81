SPECIFICATION FairSpec
CONSTANTS
  STDIN_BUF_SIZE = 3
  MaxCount = 2
  BUFSIZ = 2
  EOF <- MCEof
  MaxBytes = 4
  Byte <- MCByte
PROPERTIES
  BspImplements
  EndToEnd
  InputIsRead
  LineWaits
