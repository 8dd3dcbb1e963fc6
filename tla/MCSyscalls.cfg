SPECIFICATION UserSpec
CONSTANTS
  Page = {m, a, b}
  main = m
  Status <- Statuses
  MaxTid = 4
  NoThread = NoThread
  User = {"u1", "u2"}
  Kernel = "kernel"
  Frame = {1, 2, 3, 4, 5, 6, 7, 8, 9}
  PageSize = 2
  PT_SIZE = 2
  PHYS_BASE = 12
  ADDR = 16
  FileLength = 6
  Program <- MCProgram
  Proc = {"p", "q"}
  Main = "q"
  Path <- MCPath
  Does <- MCDoes
  SectorCnt = 4
  MaxFds = 2
  MaxCalls <- MCMaxCalls
  MaxPos = 1
INVARIANTS
    
  ActiveDirectoryLives PagesAccounted ImageExact
    NoGridlock
SYMMETRY PageSymmetry
CHECK_DEADLOCK FALSE
