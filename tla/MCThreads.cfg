SPECIFICATION ThreadsSpec
CONSTANTS
  Thread = {main, idle, t1, t2, t3}
  initial_thread = main
  idle_thread = idle
  TIME_SLICE = 2
  Client = {c1, c2}
  NULL = NULL
  bit_cnt = 3
  PGSIZE = 12
  ARENA_SIZE = 4
  MIN_BLOCK = 4
  Size = {3, 9}
  MaxLive = 3
INVARIANTS
  SchedInv PagesExact BlocksExact
PROPERTIES
  NoOvertaking NoStarvation AllocatorsFinish
