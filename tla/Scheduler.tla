----------------------------- MODULE Scheduler -----------------------------
(***************************************************************************)
(* The thread scheduler of threads/thread.c: one processor, a FIFO run     *)
(* queue, round-robin time slices and an idle thread that is never queued. *)
(*                                                                         *)
(* Code that runs with interrupts off is one step.  schedule() always      *)
(* hands the processor over with interrupts off, so `intr` is "OFF" from   *)
(* the switch until the new thread restores its interrupt level; in that   *)
(* window no interrupt handler runs.                                       *)
(***************************************************************************)
EXTENDS Naturals, Sequences

CONSTANTS
  Thread,          \* struct thread pages that may ever be in use
  initial_thread,  \* the thread that ran main(); its page is never freed
  idle_thread,     \* the thread that runs idle()
  TIME_SLICE       \* timer ticks given to each thread

ASSUME ThreadAssumption ==
  /\ initial_thread \in Thread
  /\ idle_thread \in Thread
  /\ initial_thread # idle_thread

ASSUME TimeSliceAssumption == TIME_SLICE \in Nat \ {0}

VARIABLES
  current,         \* running_thread()
  status,          \* struct thread.status; "NONE" for a page not in use
  ready_list,      \* threads in THREAD_READY state, in queue order
  thread_ticks,    \* timer ticks since the last switch
  intr             \* interrupt level of the processor

schedVars == <<current, status, ready_list, thread_ticks, intr>>

ThreadStatus == {"NONE", "BLOCKED", "READY", "RUNNING", "DYING"}

(* The state thread_start() leaves behind: the idle thread has run once,   *)
(* has set idle_thread and has blocked; nobody else exists yet.            *)
SchedInit ==
  /\ current = initial_thread
  /\ status = [t \in Thread |-> IF t = initial_thread THEN "RUNNING"
                                ELSE IF t = idle_thread THEN "BLOCKED"
                                ELSE "NONE"]
  /\ ready_list = <<>>
  /\ thread_ticks = 0
  /\ intr = "ON"

-----------------------------------------------------------------------------
(* Switching *)

next_thread_to_run(queue) ==
  IF queue = <<>> THEN idle_thread ELSE Head(queue)

(* Mutant: the new thread is not marked as running.                        *)
tail_unmarked(st, cur, next) ==
  [t \in Thread |-> IF t = cur /\ st[t] = "DYING" /\ t # initial_thread THEN "NONE" ELSE st[t]]

(* Mutant: dying threads are not destroyed.                                *)
tail_keeps_dying(st, cur, next) ==
  [t \in Thread |-> IF t = next THEN "RUNNING" ELSE st[t]]

(* `next` runs; the thread it replaced is destroyed if it is dying, unless *)
(* it is initial_thread, whose page did not come from palloc.              *)
thread_schedule_tail(st, cur, next) ==
  [t \in Thread |->
     IF t = next THEN "RUNNING"
     ELSE IF t = cur /\ st[t] = "DYING" /\ t # initial_thread THEN "NONE"
     ELSE st[t]]

schedule(st, queue) ==
  LET next == next_thread_to_run(queue)
  IN  /\ current' = next
      /\ ready_list' = IF queue = <<>> THEN queue ELSE Tail(queue)
      /\ status' = thread_schedule_tail(st, current, next)
      /\ thread_ticks' = 0
      /\ intr' = "OFF"

(* Mutant: the idle thread is queued like any other.                       *)
yield_queues_idle ==
  schedule([status EXCEPT ![current] = "READY"], Append(ready_list, current))

(* The idle thread gives up the processor without joining the run queue.   *)
yield_current ==
  schedule([status EXCEPT ![current] = "READY"],
           IF current = idle_thread THEN ready_list
                                    ELSE Append(ready_list, current))

-----------------------------------------------------------------------------
(* Operations.  Every caller of thread_block() turns interrupts off just   *)
(* before it, so that call and the switch are one step.                    *)

thread_block ==
  /\ current = idle_thread => intr = "ON"   \* idle() halts before it loops
  /\ schedule([status EXCEPT ![current] = "BLOCKED"], ready_list)

(* Mutant: an unblocked thread goes to the front of the run queue.         *)
unblock_in_front(t) ==
  /\ status[t] = "BLOCKED"
  /\ t # idle_thread
  /\ ready_list' = <<t>> \o ready_list
  /\ status' = [status EXCEPT ![t] = "READY"]
  /\ UNCHANGED <<current, thread_ticks, intr>>

(* Nobody holds a pointer through which the idle thread could be unblocked.*)
thread_unblock(t) ==
  /\ status[t] = "BLOCKED"
  /\ t # idle_thread
  /\ ready_list' = Append(ready_list, t)
  /\ status' = [status EXCEPT ![t] = "READY"]
  /\ UNCHANGED <<current, thread_ticks, intr>>

(* thread_create() up to its last statement; the call of thread_unblock()  *)
(* that ends it is a later step of the creator.                            *)
init_thread(t) ==
  /\ current # idle_thread
  /\ intr = "ON"
  /\ status[t] = "NONE"
  /\ status' = [status EXCEPT ![t] = "BLOCKED"]
  /\ UNCHANGED <<current, ready_list, thread_ticks, intr>>

thread_yield ==
  /\ current # idle_thread
  /\ intr = "ON"
  /\ yield_current

thread_exit ==
  /\ current # idle_thread
  /\ intr = "ON"
  /\ schedule([status EXCEPT ![current] = "DYING"], ready_list)

(* Mutant: the time slice is one tick too long.                            *)
tick_late ==
  /\ intr = "ON"
  /\ IF thread_ticks + 1 > TIME_SLICE
     THEN yield_current
     ELSE /\ thread_ticks' = thread_ticks + 1
          /\ UNCHANGED <<current, status, ready_list, intr>>

(* Mutant: the end of a time slice is not enforced.                        *)
tick_without_yield ==
  /\ intr = "ON"
  /\ thread_ticks' = (thread_ticks + 1) % TIME_SLICE
  /\ UNCHANGED <<current, status, ready_list, intr>>

(* The timer handler and the yield that intr_handler() does on its return. *)
thread_tick ==
  /\ intr = "ON"
  /\ IF thread_ticks + 1 >= TIME_SLICE
     THEN yield_current
     ELSE /\ thread_ticks' = thread_ticks + 1
          /\ UNCHANGED <<current, status, ready_list, intr>>

(* What a thread does when schedule() returns in it: thread_yield() and    *)
(* sema_down() restore the level, kernel_thread() and idle() enable.       *)
intr_enable ==
  /\ intr = "OFF"
  /\ intr' = "ON"
  /\ UNCHANGED <<current, status, ready_list, thread_ticks>>

-----------------------------------------------------------------------------
SchedNext ==
  \/ \E t \in Thread : init_thread(t)
  \/ \E t \in Thread : thread_unblock(t)
  \/ thread_block
  \/ thread_yield
  \/ thread_exit
  \/ thread_tick
  \/ intr_enable

SchedSpec == SchedInit /\ [][SchedNext]_schedVars

(* A timer interrupt stays latched in the interrupt controller while       *)
(* interrupts are off, so it is taken if they are on again and again; no   *)
(* code path keeps them off for ever.                                      *)
SchedFairness == SF_schedVars(thread_tick) /\ WF_schedVars(intr_enable)

SchedFairSpec == SchedSpec /\ SchedFairness

-----------------------------------------------------------------------------
(* Properties *)

Elems(q) == {q[i] : i \in DOMAIN q}

(* The queue q holds exactly the threads that st calls ready, other than   *)
(* the idle thread, each once.                                             *)
QueueMatches(st, q) ==
  /\ \A t \in Thread \ {idle_thread} : st[t] = "READY" <=> t \in Elems(q)
  /\ idle_thread \notin Elems(q)
  /\ \A i, j \in DOMAIN q : i # j => q[i] # q[j]

(* Every variable has its type; in particular the running thread never     *)
(* uses TIME_SLICE ticks without being preempted (thread.c:139).           *)
SchedTypeOK ==
  /\ current \in Thread
  /\ status \in [Thread -> ThreadStatus]
  /\ ready_list \in Seq(Thread)
  /\ thread_ticks \in 0 .. TIME_SLICE - 1
  /\ intr \in {"ON", "OFF"}

(* thread_current()'s assertion: the thread on the processor, and no other,*)
(* has status THREAD_RUNNING, whatever blocked, yielded, exited or was     *)
(* preempted before.                                                       *)
OneRunning == \A t \in Thread : status[t] = "RUNNING" <=> t = current

(* The run queue holds exactly the ready threads other than the idle one,  *)
(* each once.  thread.h:86: `only a thread in the ready state is on the    *)
(* run queue'; one list_elem serves the run queue and the wait lists, so a *)
(* thread queued twice or queued while blocked corrupts the list.          *)
RunQueueExact == QueueMatches(status, ready_list)

(* A struct thread that has been freed, or that belongs to a dying thread, *)
(* is not the running thread and is not queued; only initial_thread can be *)
(* left in THREAD_DYING, and idle never dies (thread_schedule_tail).       *)
DeadStayDead ==
  /\ \A t \in Thread : status[t] = "DYING" => t = initial_thread
  /\ status[idle_thread] \notin {"NONE", "DYING"}
  /\ \A t \in Elems(ready_list) : status[t] \notin {"NONE", "DYING"}

(* The four facts above, in every state: each operation of thread.c needs  *)
(* them all to keep any of them.                                           *)
SchedInv == SchedTypeOK /\ OneRunning /\ RunQueueExact /\ DeadStayDead

Ahead(q, t, u) == \E i, j \in DOMAIN q : i < j /\ q[i] = t /\ q[j] = u

(* Round robin: a thread that stays queued is never overtaken, neither by  *)
(* an unblocked, nor by a yielding, nor by a preempted thread.             *)
NoOvertaking ==
  [][\A t, u \in Thread :
       /\ t \in Elems(ready_list)
       /\ Ahead(ready_list', u, t)
       => Ahead(ready_list, u, t)]_schedVars

(* A ready thread eventually runs: time slices end, and no sequence of     *)
(* blocks, yields, exits and creations holds a queued thread back.         *)
NoStarvation ==
  \A t \in Thread \ {idle_thread} :
    status[t] = "READY" ~> status[t] = "RUNNING"
=============================================================================
