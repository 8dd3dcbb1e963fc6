SPECIFICATION InodeSpec
CONSTANTS
  SectorCnt = 13
  DIRECT_BLOCKS = 1
  ENTRIES = 2
  BLOCK_SECTOR_SIZE = 2
  CACHE_SIZE = 1
  Offset = {1, 4, 10}
  MaxFiles = 2
CHECK_DEADLOCK FALSE
INVARIANTS  FilesIntact
