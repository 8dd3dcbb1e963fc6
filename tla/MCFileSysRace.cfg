SPECIFICATION FilesSpec
CONSTANTS
  Proc = {"p", "q"}
  Main = "q"
  Path <- MCPath
  Does <- MCDoes
  SectorCnt = 4
  MaxFds = 2
  MaxCalls <- MCMaxCalls
  MaxPos = 1
INVARIANTS OneInodePerSector
CHECK_DEADLOCK FALSE
