SPECIFICATION DevSpec
CONSTANTS
  Client = {"t1", "t2"}
  Block <- MCBlock
  Value = {1, 2}
  Blank = 0
  MaxRequests = 2
  MaxStray = 1
  Printer = {"p1", "p2"}
  Boot = "p1"
  TxSize = 2
  InSize = 1
  LineLength = 2
  MaxLines = 3
  MaxReceived = 1
  MaxKeys = 1
INVARIANTS
  DiskExact BytesInOrder LinesWhole
PROPERTIES
  DevicesAnswer
CHECK_DEADLOCK FALSE
