\* A file of four bytes through a buffer of three, on a socket that changes its mode.
CONSTANTS
  FileLen = 4
  BufferSize = 3
  Junk = 0
SPECIFICATION SystemSpec
INVARIANTS
  TypeOK
  OutputExact
  BlockingNeverRetries
PROPERTIES
  CallsReturn
