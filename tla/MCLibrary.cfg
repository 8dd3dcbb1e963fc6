SPECIFICATION LibSpec
CONSTANTS
  Elem <- MCElem
  Lists = {"A", "B"}
  Key <- MCKey
  MaxLoose = 1
  HashElem = {"a1", "a2", "b", "c", "d"}
  key <- MCHashKey
  hash <- MCHash
  MIN_BUCKETS = 1
  BEST_ELEMS_PER_BUCKET = 1
  bit_cnt = 5
  ELEM_BITS = 3
  MemSize = 5
  Byte = {0, 1, 2}
  HalvedW <- MCHalvedW
  MaxCnt = 6
  Item = {1, 2, 3}
  MaxLength = 4
  Character = {0, 1, 7, 8, 10, 11, 12, 13}
  CharBits = 8
  IntBits = 16
  BufLength = 8
  FlagSets <- MCFlags
  Ends = {"d", "o", "X", "p", "c", "s"}
  Numbers_ <- MCNumbers
  Value_ <- MCValue
  Text <- MCText
  MaxBuf = 6
  BLOCK_SECTOR_SIZE = 2
  block_size = 6
  FieldSize = 3
  ULONG_MAX = 31
  INT_MAX = 15
  NameMax = 5
  FileName <- MCFileName
  Prefix <- MCPrefix
  Contents <- MCContents
  HostFiles <- MCHost
  MaxBoots = 1
  StackSize = 20
  SizeofPointer = 2
  Letter = {1, 2}
  MaxLetters = 3
  MaxWords = 3
  WordSize = 16
  DeviceSize = 6
  TableLength = 2
  MaxDepth = 4
  RoleName <- MCRoleName
  TableEntry <- MCTableEntry
  Scancode = {30, 83, 3, 58, 42, 54, 57400, 29}
  MaxInput = 2
  COL_CNT = 4
  ROW_CNT = 3
  TabStop = 2
  Glyph = {"x", " "}
  Space = " "
  BootCursor = 5
  Sleeper = {"s1", "s2"}
  Register = 2
  TIMER_FREQ = 2
  Scale = 10
  FirstLoops = 4
  RefineTo = 8
  Capacity = 41
  MaxShift = 8
  Duration <- MCDuration
  MaxTicks = 4
INVARIANTS
  ContainersExact   TerminalExact SleepExact

  
CHECK_DEADLOCK FALSE
