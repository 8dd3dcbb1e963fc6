SPECIFICATION ProcSpec
CONSTANTS
  Page = {m, a, b}
  main = m
  Status <- Statuses
  MaxTid = 4
  NoThread = NoThread
INVARIANTS KernelNeverFaults
CHECK_DEADLOCK FALSE
