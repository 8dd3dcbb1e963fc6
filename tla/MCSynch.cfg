SPECIFICATION FairSpec
CONSTANTS
  Thread = {main, idle, t1, t2}
  initial_thread = main
  idle_thread = idle
  TIME_SLICE = 1
  Semaphore = {s}
  Lock = {l}
  Condition = {c}
  lock_of <- OneLock
  NULL = NULL
  MaxValue = 1
INVARIANTS NoLostWakeup LockConserved SignalsExact
PROPERTIES RefinesScheduler RefinesMutex WakeupsArrive
