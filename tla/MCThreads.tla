------------------------------ MODULE MCThreads ------------------------------
(* The scheduler, or the allocators of pages and blocks.                    *)
EXTENDS Scheduler, Malloc

VARIABLE part
threadsVars == <<part, schedVars, memoryVars>>

ThreadsInit == SchedInit /\ MallocInit /\ part \in {"scheduler", "memory"}
ThreadsNext ==
  \/ part = "scheduler" /\ SchedNext /\ UNCHANGED <<part, memoryVars>>
  \/ part = "memory" /\ MallocNext /\ UNCHANGED <<part, schedVars>>

(* SchedFairness while the scheduler is looked at, and Malloc's.            *)
ThreadsFairness ==
  /\ SF_schedVars(part = "scheduler" /\ thread_tick)
  /\ WF_schedVars(part = "scheduler" /\ intr_enable)
  /\ \A c \in Client : WF_memoryVars(BlockStep(c))
ThreadsSpec == ThreadsInit /\ [][ThreadsNext]_threadsVars /\ ThreadsFairness
=============================================================================
