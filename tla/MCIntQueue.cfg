SPECIFICATION IntqFairSpec
CONSTANTS
  main = main
  idle_t = idle_t
  t1 = t1
  l = l
  Thread = {main, idle_t, t1}
  initial_thread = main
  idle_thread = idle_t
  TIME_SLICE = 1
  Semaphore = {}
  Lock = {l}
  Condition = {}
  lock_of <- NoLocks
  NULL = NULL
  MaxValue = 1
  INTQ_BUFSIZE = 3
  q_lock = l
  Reader = {main, t1}
  Writer = {main}
  MaxBytes = 5
INVARIANTS FifoExact SleeperExact
PROPERTIES CallReturns
CHECK_DEADLOCK FALSE
