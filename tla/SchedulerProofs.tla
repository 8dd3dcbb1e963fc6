-------------------------- MODULE SchedulerProofs --------------------------
(***************************************************************************)
(* TLAPS proofs about Scheduler, for any set of threads and any time       *)
(* slice, with the inductive invariant SchedInv; and about IntQueue, which *)
(* runs on it, for any size of the ring, any readers and one writer: its   *)
(* sleepers are known (QueueInv) and its bytes are in order (RingExact).   *)
(***************************************************************************)
EXTENDS IntQueue, TLAPS

(* The members of a queue of threads are threads.                          *)
LEMMA ElemsType ==
  ASSUME NEW S, NEW q \in Seq(S)
  PROVE  Elems(q) \subseteq S
BY DEF Elems

(* What list_push_back() does to a queue.                                  *)
LEMMA AppendElems ==
  ASSUME NEW S, NEW q \in Seq(S), NEW x \in S
  PROVE  /\ Append(q, x) \in Seq(S)
         /\ Elems(Append(q, x)) = Elems(q) \cup {x}
         /\ \A i \in DOMAIN q : Append(q, x)[i] = q[i]
         /\ DOMAIN q = 1 .. Len(q)
         /\ DOMAIN Append(q, x) = 1 .. (Len(q) + 1)
         /\ Append(q, x)[Len(q) + 1] = x
<1>1. /\ Append(q, x) \in Seq(S)
      /\ \A i \in DOMAIN q : Append(q, x)[i] = q[i]
      /\ DOMAIN q = 1 .. Len(q)
      /\ DOMAIN Append(q, x) = 1 .. (Len(q) + 1)
      /\ Append(q, x)[Len(q) + 1] = x
  OBVIOUS
<1>2. Elems(Append(q, x)) = Elems(q) \cup {x}
  <2>1. Len(q) \in Nat
    OBVIOUS
  <2>2. ASSUME NEW y \in Elems(Append(q, x))
        PROVE  y \in Elems(q) \cup {x}
    <3>1. PICK i \in 1 .. (Len(q) + 1) : y = Append(q, x)[i]
      BY <1>1, <2>2 DEF Elems
    <3>2. CASE i = Len(q) + 1
      BY <1>1, <3>1, <3>2
    <3>3. CASE i # Len(q) + 1
      <4>1. i \in DOMAIN q
        BY <1>1, <2>1, <3>3
      <4>2. QED
        BY <1>1, <3>1, <4>1 DEF Elems
    <3>4. QED
      BY <3>2, <3>3
  <2>3. ASSUME NEW y \in Elems(q) \cup {x}
        PROVE  y \in Elems(Append(q, x))
    <3>1. CASE y = x
      <4>1. Len(q) + 1 \in DOMAIN Append(q, x)
        BY <1>1, <2>1
      <4>2. QED
        BY <1>1, <3>1, <4>1 DEF Elems
    <3>2. CASE y \in Elems(q)
      <4>1. PICK i \in DOMAIN q : y = q[i]
        BY <3>2 DEF Elems
      <4>2. i \in DOMAIN Append(q, x)
        BY <1>1, <2>1
      <4>3. QED
        BY <1>1, <4>1, <4>2 DEF Elems
    <3>3. QED
      BY <2>3, <3>1, <3>2
  <2>4. QED
    BY <2>2, <2>3
<1>3. QED
  BY <1>1, <1>2

(* What list_pop_front() does to a nonempty queue without duplicates.      *)
LEMMA TailElems ==
  ASSUME NEW S, NEW q \in Seq(S), q # <<>>,
         \A i, j \in DOMAIN q : i # j => q[i] # q[j]
  PROVE  /\ Head(q) \in S
         /\ Head(q) \in Elems(q)
         /\ Tail(q) \in Seq(S)
         /\ Elems(Tail(q)) = Elems(q) \ {Head(q)}
         /\ \A i, j \in DOMAIN Tail(q) : i # j => Tail(q)[i] # Tail(q)[j]
<1>1. /\ Head(q) \in S
      /\ Head(q) = q[1]
      /\ Tail(q) \in Seq(S)
      /\ Len(q) \in Nat \ {0}
      /\ DOMAIN q = 1 .. Len(q)
      /\ DOMAIN Tail(q) = 1 .. (Len(q) - 1)
      /\ \A i \in 1 .. (Len(q) - 1) : Tail(q)[i] = q[i + 1]
  OBVIOUS
<1>2. Head(q) \in Elems(q)
  BY <1>1 DEF Elems
<1>3. \A i, j \in DOMAIN Tail(q) : i # j => Tail(q)[i] # Tail(q)[j]
  <2>1. \A i \in DOMAIN Tail(q) : i + 1 \in DOMAIN q
    BY <1>1
  <2>2. QED
    BY <1>1, <2>1
<1>4. ASSUME NEW y \in Elems(Tail(q))
      PROVE  y \in Elems(q) \ {Head(q)}
  <2>1. PICK i \in 1 .. (Len(q) - 1) : y = q[i + 1]
    BY <1>1, <1>4 DEF Elems
  <2>2. i + 1 \in DOMAIN q /\ 1 \in DOMAIN q /\ i + 1 # 1
    BY <1>1
  <2>3. QED
    BY <1>1, <2>1, <2>2 DEF Elems
<1>5. ASSUME NEW y \in Elems(q) \ {Head(q)}
      PROVE  y \in Elems(Tail(q))
  <2>1. PICK i \in 1 .. Len(q) : y = q[i]
    BY <1>1, <1>5 DEF Elems
  <2>2. i # 1
    BY <1>1, <1>5, <2>1
  <2>3. i - 1 \in 1 .. (Len(q) - 1) /\ (i - 1) + 1 = i
    BY <1>1, <2>2
  <2>4. Tail(q)[i - 1] = y
    BY <1>1, <2>1, <2>3
  <2>5. QED
    BY Zenon, <1>1, <2>3, <2>4 DEF Elems
<1>6. QED
  BY <1>1, <1>2, <1>3, <1>4, <1>5

(* thread_unblock() and thread_yield() may queue a thread that is not yet  *)
(* queued and becomes ready.                                               *)
LEMMA EnqueueMatches ==
  ASSUME NEW st \in [Thread -> ThreadStatus], NEW q \in Seq(Thread),
         NEW x \in Thread, x # idle_thread, st[x] # "READY",
         QueueMatches(st, q)
  PROVE  QueueMatches([st EXCEPT ![x] = "READY"], Append(q, x))
<1> DEFINE nq == Append(q, x)
<1>1. /\ Elems(nq) = Elems(q) \cup {x}
      /\ \A i \in DOMAIN q : nq[i] = q[i]
      /\ DOMAIN q = 1 .. Len(q)
      /\ DOMAIN nq = 1 .. (Len(q) + 1)
      /\ nq[Len(q) + 1] = x
      /\ Len(q) \in Nat
  BY AppendElems
<1>2. x \notin Elems(q)
  BY DEF QueueMatches
<1>3. \A i \in DOMAIN q : q[i] # x
  BY <1>2 DEF Elems
<1>4. \A i, j \in DOMAIN nq : i # j => nq[i] # nq[j]
  <2> SUFFICES ASSUME NEW i \in DOMAIN nq, NEW j \in DOMAIN nq, i # j
               PROVE  nq[i] # nq[j]
    OBVIOUS
  <2> HIDE DEF nq
  <2>1. CASE i \in DOMAIN q /\ j \in DOMAIN q
    BY <1>1, <2>1 DEF QueueMatches
  <2>2. CASE i \in DOMAIN q /\ j = Len(q) + 1
    BY <1>1, <1>3, <2>2
  <2>3. CASE i = Len(q) + 1 /\ j \in DOMAIN q
    BY <1>1, <1>3, <2>3
  <2>4. QED
    BY <1>1, <2>1, <2>2, <2>3
<1>5. QED
  BY <1>1, <1>4 DEF QueueMatches

(* schedule() establishes the invariant from any state in which the thread *)
(* that calls it is no longer running and the queue matches the statuses.  *)
LEMMA SchedulePreserves ==
  ASSUME SchedTypeOK,
         NEW st \in [Thread -> ThreadStatus], NEW q \in Seq(Thread),
         QueueMatches(st, q),
         \A t \in Thread : st[t] # "RUNNING",
         \A t \in Thread : st[t] = "DYING" => t \in {initial_thread, current},
         st[idle_thread] \notin {"NONE", "DYING"},
         schedule(st, q)
  PROVE  SchedInv'
<1> DEFINE nxt == next_thread_to_run(q)
<1>1. /\ nxt \in Thread
      /\ ready_list' \in Seq(Thread)
      /\ st[nxt] # "DYING"
      /\ Elems(ready_list') = Elems(q) \ {nxt}
      /\ \A i, j \in DOMAIN ready_list' :
           i # j => ready_list'[i] # ready_list'[j]
      /\ nxt # idle_thread => nxt \in Elems(q)
  <2>1. CASE q = <<>>
    <3>1. Elems(q) = {}
      BY <2>1 DEF Elems
    <3>2. ready_list' = q /\ nxt = idle_thread
      BY <2>1 DEF schedule, next_thread_to_run
    <3>3. QED
      BY <3>1, <3>2, ThreadAssumption DEF QueueMatches
  <2>2. CASE q # <<>>
    <3>1. ready_list' = Tail(q) /\ nxt = Head(q)
      BY <2>2 DEF schedule, next_thread_to_run
    <3>2. /\ Head(q) \in Thread
          /\ Head(q) \in Elems(q)
          /\ Tail(q) \in Seq(Thread)
          /\ Elems(Tail(q)) = Elems(q) \ {Head(q)}
          /\ \A i, j \in DOMAIN Tail(q) : i # j => Tail(q)[i] # Tail(q)[j]
      BY <2>2, TailElems DEF QueueMatches
    <3>3. st[Head(q)] = "READY"
      BY <3>2 DEF QueueMatches
    <3>4. QED
      BY <3>1, <3>2, <3>3
  <2>3. QED
    BY <2>1, <2>2
<1>2. /\ current' = nxt
      /\ status' = thread_schedule_tail(st, current, nxt)
      /\ thread_ticks' = 0
      /\ intr' = "OFF"
  BY DEF schedule
<1> HIDE DEF nxt
<1>3. /\ status' \in [Thread -> ThreadStatus]
      /\ status'[nxt] = "RUNNING"
      /\ \A t \in Thread \ {nxt} :
           status'[t] = IF t = current /\ st[t] = "DYING" /\ t # initial_thread
                        THEN "NONE" ELSE st[t]
  BY <1>1, <1>2 DEF thread_schedule_tail, ThreadStatus
<1>4. SchedTypeOK'
  BY <1>1, <1>2, <1>3, TimeSliceAssumption DEF SchedTypeOK
<1>5. OneRunning'
  BY <1>1, <1>2, <1>3 DEF OneRunning
<1>6. RunQueueExact'
  <2>1. idle_thread \notin Elems(ready_list')
    BY <1>1 DEF QueueMatches
  <2>2. ASSUME NEW t \in Thread \ {idle_thread}
        PROVE  status'[t] = "READY" <=> t \in Elems(ready_list')
    BY <1>1, <1>3 DEF QueueMatches
  <2>3. QED
    BY <1>1, <2>1, <2>2 DEF RunQueueExact, QueueMatches, Elems
<1>7. DeadStayDead'
  <2>1. \A t \in Thread : status'[t] = "DYING" => t = initial_thread
    BY <1>1, <1>3
  <2>2. status'[idle_thread] \notin {"NONE", "DYING"}
    BY <1>1, <1>3, ThreadAssumption
  <2>3. ASSUME NEW t \in Elems(ready_list')
        PROVE  status'[t] \notin {"NONE", "DYING"}
    <3>1. t \in Thread /\ t # idle_thread
      <4>1. t \in Thread
        BY <1>1, <2>3, ElemsType
      <4>2. t \in Elems(q)
        BY <1>1, <2>3
      <4>3. QED
        BY <4>1, <4>2 DEF QueueMatches
    <3>2. status'[t] = "READY"
      BY <1>6, <2>3, <3>1 DEF RunQueueExact, QueueMatches, Elems
    <3>3. QED
      BY <3>2
  <2>4. QED
    BY <2>1, <2>2, <2>3 DEF DeadStayDead, Elems
<1>8. QED
  BY <1>4, <1>5, <1>6, <1>7 DEF SchedInv

(* The statuses st differ from the current ones only in that the running   *)
(* thread left the running state for `new'.                                *)
LEMMA LeaveRunning ==
  ASSUME SchedInv, NEW new \in ThreadStatus \ {"RUNNING"},
         new \in {"NONE", "DYING"} => current # idle_thread
  PROVE  LET st == [status EXCEPT ![current] = new]
         IN  /\ st \in [Thread -> ThreadStatus]
             /\ \A t \in Thread : st[t] # "RUNNING"
             /\ \A t \in Thread :
                  st[t] = "DYING" => t \in {initial_thread, current}
             /\ st[idle_thread] \notin {"NONE", "DYING"}
             /\ new # "READY" => QueueMatches(st, ready_list)
             /\ current = idle_thread => QueueMatches(st, ready_list)
BY ThreadAssumption
   DEF SchedInv, SchedTypeOK, OneRunning, RunQueueExact, QueueMatches,
       DeadStayDead

(* thread_block() and thread_exit() hand over the processor correctly.     *)
LEMMA BlockOrExitPreserves ==
  ASSUME SchedInv, NEW new \in {"BLOCKED", "DYING"},
         new = "DYING" => current # idle_thread,
         schedule([status EXCEPT ![current] = new], ready_list)
  PROVE  SchedInv'
<1> DEFINE st == [status EXCEPT ![current] = new]
<1>1. /\ st \in [Thread -> ThreadStatus]
      /\ \A t \in Thread : st[t] # "RUNNING"
      /\ \A t \in Thread : st[t] = "DYING" => t \in {initial_thread, current}
      /\ st[idle_thread] \notin {"NONE", "DYING"}
      /\ QueueMatches(st, ready_list)
  BY LeaveRunning DEF ThreadStatus
<1>2. SchedTypeOK /\ ready_list \in Seq(Thread) /\ schedule(st, ready_list)
  BY DEF SchedInv, SchedTypeOK
<1> HIDE DEF st
<1>3. QED
  BY <1>1, <1>2, SchedulePreserves

(* So do thread_yield() and the end of a time slice.                       *)
LEMMA YieldPreserves ==
  ASSUME SchedInv, yield_current
  PROVE  SchedInv'
<1> DEFINE st == [status EXCEPT ![current] = "READY"]
           q  == IF current = idle_thread THEN ready_list
                                          ELSE Append(ready_list, current)
<1>1. /\ st \in [Thread -> ThreadStatus]
      /\ \A t \in Thread : st[t] # "RUNNING"
      /\ \A t \in Thread : st[t] = "DYING" => t \in {initial_thread, current}
      /\ st[idle_thread] \notin {"NONE", "DYING"}
      /\ current = idle_thread => QueueMatches(st, ready_list)
  BY LeaveRunning DEF ThreadStatus
<1>2. /\ current \in Thread
      /\ status \in [Thread -> ThreadStatus]
      /\ ready_list \in Seq(Thread)
      /\ status[current] = "RUNNING"
      /\ QueueMatches(status, ready_list)
  BY DEF SchedInv, SchedTypeOK, OneRunning, RunQueueExact
<1>3. q \in Seq(Thread)
  BY <1>2, AppendElems
<1>4. QueueMatches(st, q)
  <2>1. CASE current = idle_thread
    BY <1>1, <2>1
  <2>2. CASE current # idle_thread
    BY Zenon, <1>2, <2>2, EnqueueMatches
  <2>3. QED
    BY <2>1, <2>2
<1>5. SchedTypeOK /\ schedule(st, q)
  BY DEF SchedInv, yield_current
<1> HIDE DEF st, q
<1>6. QED
  BY <1>1, <1>3, <1>4, <1>5, SchedulePreserves

(* thread_unblock() queues a blocked thread once and changes nothing else. *)
LEMMA UnblockPreserves ==
  ASSUME SchedInv, NEW t \in Thread, thread_unblock(t)
  PROVE  SchedInv'
<1>1. /\ status \in [Thread -> ThreadStatus]
      /\ ready_list \in Seq(Thread)
      /\ status[t] = "BLOCKED"
      /\ t # idle_thread
      /\ QueueMatches(status, ready_list)
  BY DEF SchedInv, SchedTypeOK, RunQueueExact, thread_unblock
<1>2. /\ ready_list' = Append(ready_list, t)
      /\ status' = [status EXCEPT ![t] = "READY"]
      /\ UNCHANGED <<current, thread_ticks, intr>>
  BY DEF thread_unblock
<1>3. SchedTypeOK'
  BY <1>1, <1>2, AppendElems DEF SchedInv, SchedTypeOK, ThreadStatus
<1>4. OneRunning'
  BY <1>1, <1>2 DEF SchedInv, OneRunning
<1>5. RunQueueExact'
  BY <1>1, <1>2, EnqueueMatches DEF RunQueueExact, QueueMatches, Elems
<1>6. DeadStayDead'
  <2>1. Elems(ready_list') = Elems(ready_list) \cup {t}
    BY <1>1, <1>2, AppendElems
  <2>2. QED
    BY <1>1, <1>2, <2>1 DEF SchedInv, DeadStayDead, Elems
<1>7. QED
  BY <1>3, <1>4, <1>5, <1>6 DEF SchedInv

(* thread_create() takes a page that belongs to no thread.                 *)
LEMMA InitThreadPreserves ==
  ASSUME SchedInv, NEW t \in Thread, init_thread(t)
  PROVE  SchedInv'
<1>1. t # idle_thread /\ t \notin Elems(ready_list)
  BY DEF SchedInv, DeadStayDead, init_thread
<1>2. /\ status \in [Thread -> ThreadStatus]
      /\ status' = [status EXCEPT ![t] = "BLOCKED"]
      /\ UNCHANGED <<current, ready_list, thread_ticks, intr>>
      /\ status[t] = "NONE"
  BY DEF init_thread, SchedInv, SchedTypeOK
<1>3. SchedTypeOK' /\ OneRunning'
  BY <1>2 DEF SchedInv, SchedTypeOK, OneRunning, ThreadStatus
<1>4. RunQueueExact' /\ DeadStayDead'
  BY <1>1, <1>2
     DEF SchedInv, RunQueueExact, QueueMatches, DeadStayDead, Elems
<1>5. QED
  BY <1>3, <1>4 DEF SchedInv

(* Every scheduler step preserves the invariant.                           *)
LEMMA SchedStep == SchedInv /\ [SchedNext]_schedVars => SchedInv'
<1> SUFFICES ASSUME SchedInv, [SchedNext]_schedVars
             PROVE  SchedInv'
  OBVIOUS
<1>1. ASSUME NEW t \in Thread, init_thread(t) PROVE SchedInv'
  BY <1>1, InitThreadPreserves
<1>2. ASSUME NEW t \in Thread, thread_unblock(t) PROVE SchedInv'
  BY <1>2, UnblockPreserves
<1>3. CASE thread_block
  BY <1>3, BlockOrExitPreserves DEF thread_block
<1>4. CASE thread_yield
  BY <1>4, YieldPreserves DEF thread_yield
<1>5. CASE thread_exit
  BY <1>5, BlockOrExitPreserves DEF thread_exit
<1>6. CASE thread_tick
  <2>1. CASE yield_current
    BY <2>1, YieldPreserves
  <2>2. CASE /\ ~(thread_ticks + 1 >= TIME_SLICE)
             /\ thread_ticks' = thread_ticks + 1
             /\ UNCHANGED <<current, status, ready_list, intr>>
    BY <2>2, TimeSliceAssumption
       DEF SchedInv, SchedTypeOK, OneRunning, RunQueueExact, QueueMatches,
           DeadStayDead, Elems
  <2>3. QED
    BY <1>6, <2>1, <2>2 DEF thread_tick
<1>7. CASE intr_enable
  BY <1>7 DEF intr_enable, SchedInv, SchedTypeOK, OneRunning, RunQueueExact,
              QueueMatches, DeadStayDead, Elems
<1>8. CASE UNCHANGED schedVars
  BY <1>8 DEF schedVars, SchedInv, SchedTypeOK, OneRunning, RunQueueExact,
              QueueMatches, DeadStayDead, Elems
<1>9. QED
  BY <1>1, <1>2, <1>3, <1>4, <1>5, <1>6, <1>7, <1>8 DEF SchedNext

(* thread_init() and thread_start() establish the invariant.               *)
LEMMA SchedStart == SchedInit => SchedInv
BY ThreadAssumption, TimeSliceAssumption
   DEF SchedInit, SchedInv, SchedTypeOK, OneRunning, RunQueueExact,
       QueueMatches, DeadStayDead, Elems, ThreadStatus

(* The run queue, the statuses and the running thread agree in every state *)
(* of the scheduler of thread.c.                                           *)
THEOREM SchedulerInvariant == SchedSpec => []SchedInv
BY SchedStart, SchedStep, PTL DEF SchedSpec

(* The scheduler's state is well typed, and no thread outlives its slice.  *)
THEOREM SchedulerTypeCorrect == SchedSpec => []SchedTypeOK
<1>1. SchedInv => SchedTypeOK
  BY DEF SchedInv
<1>2. QED
  BY <1>1, SchedulerInvariant, PTL

(* The assertion of thread_current() never fires.                          *)
THEOREM ExactlyOneRunning == SchedSpec => []OneRunning
<1>1. SchedInv => OneRunning
  BY DEF SchedInv
<1>2. QED
  BY <1>1, SchedulerInvariant, PTL

(* The run queue holds exactly the ready threads, each once.               *)
THEOREM RunQueueCorrect == SchedSpec => []RunQueueExact
<1>1. SchedInv => RunQueueExact
  BY DEF SchedInv
<1>2. QED
  BY <1>1, SchedulerInvariant, PTL

(* A thread whose page was freed is never queued or run.                   *)
THEOREM NoUseAfterExit == SchedSpec => []DeadStayDead
<1>1. SchedInv => DeadStayDead
  BY DEF SchedInv
<1>2. QED
  BY <1>1, SchedulerInvariant, PTL

-----------------------------------------------------------------------------
(* Round robin *)

(* list_push_back() puts nobody ahead of a queued thread.                  *)
LEMMA AppendAhead ==
  ASSUME NEW q \in Seq(Thread), NEW x \in Thread, x \notin Elems(q),
         NEW t \in Elems(q), NEW u \in Thread, Ahead(Append(q, x), u, t)
  PROVE  Ahead(q, u, t)
<1> DEFINE nq == Append(q, x)
<1>1. /\ \A i \in DOMAIN q : nq[i] = q[i]
      /\ DOMAIN q = 1 .. Len(q)
      /\ DOMAIN nq = 1 .. (Len(q) + 1)
      /\ nq[Len(q) + 1] = x
      /\ Len(q) \in Nat
  BY AppendElems
<1>2. PICK i, j \in DOMAIN nq : i < j /\ nq[i] = u /\ nq[j] = t
  BY DEF Ahead
<1> HIDE DEF nq
<1>3. j # Len(q) + 1
  BY <1>1, <1>2
<1>4. i \in DOMAIN q /\ j \in DOMAIN q
  BY <1>1, <1>2, <1>3
<1>5. QED
  BY <1>1, <1>2, <1>4 DEF Ahead

(* list_pop_front() puts nobody ahead of anybody.                          *)
LEMMA TailAhead ==
  ASSUME NEW q \in Seq(Thread), q # <<>>,
         NEW t, NEW u, Ahead(Tail(q), u, t)
  PROVE  Ahead(q, u, t)
<1>1. /\ Len(q) \in Nat \ {0}
      /\ DOMAIN q = 1 .. Len(q)
      /\ DOMAIN Tail(q) = 1 .. (Len(q) - 1)
      /\ \A i \in 1 .. (Len(q) - 1) : Tail(q)[i] = q[i + 1]
  OBVIOUS
<1>2. PICK i, j \in DOMAIN Tail(q) : i < j /\ Tail(q)[i] = u /\ Tail(q)[j] = t
  BY DEF Ahead
<1>3. i + 1 \in DOMAIN q /\ j + 1 \in DOMAIN q /\ i + 1 < j + 1
  BY <1>1, <1>2
<1>4. q[i + 1] = u /\ q[j + 1] = t
  BY <1>1, <1>2
<1>5. QED
  BY <1>3, <1>4 DEF Ahead

(* schedule() only takes the first thread off the queue it is given.       *)
LEMMA ScheduleAhead ==
  ASSUME NEW q \in Seq(Thread), NEW st, schedule(st, q),
         NEW t, NEW u, Ahead(ready_list', u, t)
  PROVE  Ahead(q, u, t)
<1>1. CASE q = <<>>
  <2>1. ready_list' = q
    BY <1>1 DEF schedule
  <2>2. QED
    BY <2>1 DEF Ahead
<1>2. CASE q # <<>>
  <2>1. ready_list' = Tail(q)
    BY <1>2 DEF schedule
  <2>2. QED
    BY <1>2, <2>1, TailAhead DEF Ahead
<1>3. QED
  BY <1>1, <1>2

(* Every scheduler step keeps the order of the threads that stay queued.   *)
LEMMA SchedStepAhead ==
  ASSUME SchedInv, [SchedNext]_schedVars,
         NEW t \in Thread, NEW u \in Thread,
         t \in Elems(ready_list), Ahead(ready_list', u, t)
  PROVE  Ahead(ready_list, u, t)
<1>1. /\ current \in Thread
      /\ ready_list \in Seq(Thread)
      /\ \A x \in Thread \ {idle_thread} : status[x] # "READY" => x \notin Elems(ready_list)
      /\ status[current] = "RUNNING"
  BY DEF SchedInv, SchedTypeOK, OneRunning, RunQueueExact, QueueMatches
<1>2. CASE UNCHANGED ready_list
  BY <1>2 DEF Ahead
<1>3. ASSUME NEW x \in Thread, thread_unblock(x)
      PROVE  Ahead(ready_list, u, t)
  <2>1. x \notin Elems(ready_list) /\ ready_list' = Append(ready_list, x)
    BY <1>1, <1>3 DEF thread_unblock
  <2>2. Ahead(Append(ready_list, x), u, t)
    BY <2>1 DEF Ahead
  <2>3. QED
    BY <1>1, <2>1, <2>2, AppendAhead
<1>4. ASSUME NEW st, schedule(st, ready_list)
      PROVE  Ahead(ready_list, u, t)
  BY <1>1, <1>4, ScheduleAhead
<1>5. CASE yield_current
  <2>1. CASE current = idle_thread
    BY <1>4, <1>5, <2>1 DEF yield_current
  <2>2. CASE current # idle_thread
    <3>1. schedule([status EXCEPT ![current] = "READY"], Append(ready_list, current))
      BY <1>5, <2>2 DEF yield_current
    <3>2. Append(ready_list, current) \in Seq(Thread)
      BY <1>1, AppendElems
    <3>3. Ahead(Append(ready_list, current), u, t)
      BY Zenon, <3>1, <3>2, ScheduleAhead
    <3>4. QED
      BY <1>1, <2>2, <3>3, AppendAhead
  <2>3. QED
    BY <2>1, <2>2
<1>6. CASE thread_block \/ thread_exit
  BY <1>4, <1>6 DEF thread_block, thread_exit
<1>7. CASE thread_yield \/ thread_tick
  BY <1>2, <1>5, <1>7 DEF thread_yield, thread_tick
<1>8. CASE UNCHANGED schedVars \/ intr_enable \/ \E x \in Thread : init_thread(x)
  BY <1>2, <1>8 DEF schedVars, intr_enable, init_thread
<1>9. QED
  BY <1>3, <1>6, <1>7, <1>8 DEF SchedNext

(* A thread that stays queued is never overtaken, neither by an unblocked, *)
(* nor by a yielding, nor by a preempted thread, however many there are.   *)
THEOREM RoundRobin == SchedSpec => NoOvertaking
<1>1. SchedInv /\ [SchedNext]_schedVars =>
        \A t, u \in Thread :
          /\ t \in Elems(ready_list)
          /\ Ahead(ready_list', u, t)
          => Ahead(ready_list, u, t)
  BY SchedStepAhead
<1>2. QED
  BY <1>1, SchedulerInvariant, PTL DEF SchedSpec, NoOvertaking
-----------------------------------------------------------------------------
(* What the scheduler does to the threads that are blocked or dead. *)

(* A thread that was created and has not exited.                           *)
Alive(t) == status[t] \notin {"NONE", "DYING"}

(* schedule() wakes nobody: the next thread was ready, or it is idle.     *)
LEMMA ScheduleStatus ==
  ASSUME SchedInv, NEW new \in {"BLOCKED", "READY", "DYING"}, NEW q \in Seq(Thread),
         q = ready_list \/ (new = "READY" /\ q = Append(ready_list, current)),
         schedule([status EXCEPT ![current] = new], q)
  PROVE  \A u \in Thread \ {idle_thread} :
           /\ status'[u] = "BLOCKED"
                <=> IF u = current THEN new = "BLOCKED" ELSE status[u] = "BLOCKED"
           /\ (Alive(u))' <=> IF u = current THEN new # "DYING" ELSE Alive(u)
<1>1. /\ current \in Thread
      /\ status \in [Thread -> ThreadStatus]
      /\ ready_list \in Seq(Thread)
      /\ status[current] = "RUNNING"
      /\ \A t \in Elems(ready_list) : status[t] = "READY"
  <2>1. ready_list \in Seq(Thread)
    BY DEF SchedInv, SchedTypeOK
  <2>2. Elems(ready_list) \subseteq Thread
    BY <2>1, ElemsType
  <2>3. QED
    BY <2>1, <2>2 DEF SchedInv, SchedTypeOK, OneRunning, RunQueueExact, QueueMatches
<1> DEFINE nxt == next_thread_to_run(q)
<1>2. nxt = idle_thread \/ status[nxt] = "READY" \/ (nxt = current /\ new = "READY")
  <2>1. CASE q = <<>>
    BY <2>1 DEF next_thread_to_run
  <2>2. CASE q # <<>>
    <3>1. nxt = Head(q)
      BY <2>2 DEF next_thread_to_run
    <3>2. Head(q) \in Elems(q)
      <4>1. Head(q) = q[1] /\ 1 \in DOMAIN q
        BY <2>2
      <4>2. QED
        BY <4>1 DEF Elems
    <3>3. new = "READY" /\ q = Append(ready_list, current)
          => Elems(q) = Elems(ready_list) \cup {current}
      BY <1>1, AppendElems
    <3>4. QED
      BY <1>1, <3>1, <3>2, <3>3
  <2>3. QED
    BY <2>1, <2>2
<1>3. status' = thread_schedule_tail([status EXCEPT ![current] = new], current, nxt)
  BY DEF schedule
<1> HIDE DEF nxt
<1>4. QED
  BY <1>1, <1>2, <1>3 DEF thread_schedule_tail, Alive

(* thread_block() blocks the running thread and changes no other blocked   *)
(* or dead thread.                                                         *)
LEMMA BlockStatus ==
  ASSUME SchedInv, thread_block
  PROVE  \A u \in Thread \ {idle_thread} :
           /\ status'[u] = "BLOCKED" <=> status[u] = "BLOCKED" \/ u = current
           /\ (Alive(u))' <=> Alive(u)
<1>1. ready_list \in Seq(Thread) /\ status[current] = "RUNNING"
  BY DEF SchedInv, SchedTypeOK, OneRunning
<1>2. QED
  BY Zenon, <1>1, ScheduleStatus DEF thread_block, Alive

(* thread_yield() and the end of a time slice block nobody and wake        *)
(* nobody.                                                                 *)
LEMMA YieldStatus ==
  ASSUME SchedInv, yield_current
  PROVE  \A u \in Thread \ {idle_thread} :
           /\ status'[u] = "BLOCKED" <=> status[u] = "BLOCKED"
           /\ (Alive(u))' <=> Alive(u)
<1>1. /\ ready_list \in Seq(Thread)
      /\ status[current] = "RUNNING"
      /\ Append(ready_list, current) \in Seq(Thread)
  BY DEF SchedInv, SchedTypeOK, OneRunning
<1>2. QED
  BY Zenon, <1>1, ScheduleStatus DEF yield_current, Alive

(* thread_exit() kills the running thread and changes no other blocked or  *)
(* dead thread.                                                            *)
LEMMA ExitStatus ==
  ASSUME SchedInv, thread_exit
  PROVE  \A u \in Thread \ {idle_thread} :
           /\ status'[u] = "BLOCKED" <=> status[u] = "BLOCKED"
           /\ (Alive(u))' <=> Alive(u) /\ u # current
<1>1. ready_list \in Seq(Thread) /\ status[current] = "RUNNING"
  BY DEF SchedInv, SchedTypeOK, OneRunning
<1>2. QED
  BY Zenon, <1>1, ScheduleStatus DEF thread_exit, Alive

-----------------------------------------------------------------------------
(* The sleepers of the interrupt queue *)

(* list_push_back() of a thread that is not in the list.                   *)
LEMMA NoDuplicatesAppend ==
  ASSUME NEW q \in Seq(Thread), NEW t \in Thread, NoDuplicates(q), t \notin Elems(q)
  PROVE  NoDuplicates(Append(q, t))
<1> DEFINE nq == Append(q, t)
<1>1. /\ \A i \in DOMAIN q : nq[i] = q[i]
      /\ DOMAIN q = 1 .. Len(q)
      /\ DOMAIN nq = 1 .. (Len(q) + 1)
      /\ nq[Len(q) + 1] = t
      /\ Len(q) \in Nat
  BY AppendElems
<1>2. \A i \in DOMAIN q : q[i] # t
  BY DEF Elems
<1> SUFFICES ASSUME NEW i \in DOMAIN nq, NEW j \in DOMAIN nq, i # j
             PROVE  nq[i] # nq[j]
  BY DEF NoDuplicates
<1> HIDE DEF nq
<1>3. \/ i \in DOMAIN q /\ j \in DOMAIN q
      \/ i \in DOMAIN q /\ j = Len(q) + 1
      \/ i = Len(q) + 1 /\ j \in DOMAIN q
  BY <1>1
<1>4. QED
  BY <1>1, <1>2, <1>3 DEF NoDuplicates

(* Where a thread can stand between two steps of the queue code.           *)
QueueLabel == {"run", "create", "intq_test", "lock_acquire", "intq_wait",
               "intq_release", "intq_return"}

(* A thread between the start of input_getc() or serial_putc() and its end.*)
InCode(t) == pc[t] \notin {"run", "create"}

(* The thread whose turn it is to wait: between the end of sema_down() and *)
(* the sema_up() of lock_release().                                        *)
InTurn(t) == pc[t] \in {"intq_wait", "intq_release"}

(* Only callers are in the queue code, they run it with interrupts off,    *)
(* and sleep only in lock_acquire() or wait(); a thread that is being      *)
(* created has done nothing yet and has one creator.                       *)
CallExact ==
  /\ side \in {"getc", "putc"}
  /\ value \in [Sem -> Nat]
  /\ waiters \in [Sem -> Seq(Thread)]
  /\ holder \in [Lock -> Thread \cup {NULL}]
  /\ pc \in [Thread -> QueueLabel]
  /\ arg = [t \in Thread |-> arg[t]]
  /\ slept \subseteq {t \in Thread : pc[t] = "lock_acquire"}
  /\ intr = "ON" => ~InCode(current)
  /\ \A t \in Thread : InCode(t) => t \in Caller
  /\ \A t \in Thread : pc[t] # "run" => Alive(t) /\ t # idle_thread
  /\ \A t \in Thread : pc[t] = "create" =>
       /\ arg[t] \in Thread \ {idle_thread}
       /\ status[arg[t]] = "BLOCKED" /\ pc[arg[t]] = "run"
       /\ \A u \in Thread : pc[u] = "create" /\ arg[u] = arg[t] => u = t

(* The queue's lock has its unit exactly when it is nobody's turn, and     *)
(* whoever is on its wait list sleeps in lock_acquire().                   *)
TurnExact ==
  /\ \A t, u \in Thread : InTurn(t) /\ InTurn(u) => t = u
  /\ IF \E t \in Thread : InTurn(t) THEN value[q_lock] = 0 ELSE value[q_lock] = 1
  /\ \A t \in Thread : pc[t] = "intq_release" => holder[q_lock] = t
  /\ NoDuplicates(waiters[q_lock])
  /\ \A t \in Elems(waiters[q_lock]) : pc[t] = "lock_acquire" /\ status[t] = "BLOCKED"

(* The queue knows its sleeper, and the sleeper has reason to sleep.       *)
WaiterExact ==
  /\ waiter \in Thread \cup {NULL}
  /\ \A t \in Thread : (pc[t] = "intq_release" /\ status[t] = "BLOCKED") <=> waiter = t
  /\ waiter # NULL => MustWait

(* A single writer goes from the test to wait() with interrupts off, so    *)
(* the room it did not find does not appear on the way.                    *)
WriterExact ==
  side = "putc" =>
    /\ ~panic
    /\ \A t \in Thread : pc[t] \in {"lock_acquire", "intq_wait"} =>
         current = t /\ intr = "OFF" /\ MustWait /\ t \notin slept

(* The inductive invariant of intq.c.                                      *)
QueueInv == SchedInv /\ CallExact /\ TurnExact /\ WaiterExact /\ WriterExact

(* The level alone does not matter to the run queue.                       *)
LEMMA LevelPreserves ==
  ASSUME SchedInv, UNCHANGED <<current, status, ready_list, thread_ticks>>,
         intr' \in {"ON", "OFF"}
  PROVE  SchedInv'
BY DEF SchedInv, SchedTypeOK, OneRunning, RunQueueExact, QueueMatches, DeadStayDead, Elems

(* sema_down() and sema_up() on the queue's lock are steps of the          *)
(* scheduler.                                                              *)
LEMMA QueueSemaSched ==
  ASSUME QueueInv, NEW t \in Thread, NEW label, NEW a,
         sema_down(t, q_lock, label, a, "OFF") \/ sema_up(q_lock)
  PROVE  SchedInv'
<1>1. q_lock \in Sem /\ waiters[q_lock] \in Seq(Thread) /\ SchedInv
  BY IntqAssumption DEF QueueInv, CallExact, Sem
<1>2. CASE thread_block
  BY <1>1, <1>2, BlockOrExitPreserves DEF thread_block
<1>3. CASE waiters[q_lock] # <<>> /\ thread_unblock(Head(waiters[q_lock]))
  <2>1. Head(waiters[q_lock]) \in Thread
    BY <1>1, <1>3
  <2>2. QED
    BY <1>1, <1>3, <2>1, UnblockPreserves
<1>4. CASE intr' = "OFF" /\ UNCHANGED <<current, status, ready_list, thread_ticks>>
  BY <1>1, <1>4, LevelPreserves
<1>5. CASE UNCHANGED schedVars
  BY <1>1, <1>5, SchedStep
<1>6. QED
  BY Zenon, <1>2, <1>3, <1>4, <1>5 DEF sema_down, sema_up

(* Whatever the queue's callers, the handler and the other threads do, the *)
(* scheduler's invariant is preserved.                                     *)
LEMMA QueueSched == QueueInv /\ [IntqNext]_intqVars => SchedInv'
<1> SUFFICES ASSUME QueueInv, [IntqNext]_intqVars
             PROVE  SchedInv'
  OBVIOUS
<1>1. SchedInv
  BY DEF QueueInv
<1>2. CASE [SchedNext]_schedVars
  BY <1>1, <1>2, SchedStep
<1>3. ASSUME NEW t \in Reader \cup Writer, call_intq(t) \/ QueueStep(t)
      PROVE  SchedInv'
  <2>1. t \in Thread
    BY IntqAssumption
  <2>2. CASE call_intq(t)
    BY <1>1, <2>2, LevelPreserves DEF call_intq
  <2>3. CASE intq_test(t)
    BY <1>2, <2>3 DEF intq_test
  <2>4. CASE intq_lock_acquire(t) \/ intq_lock_release(t)
    BY <2>1, <2>4, QueueSemaSched DEF intq_lock_acquire, intq_lock_release
  <2>5. CASE wait(t)
    <3>1. thread_block \/ UNCHANGED schedVars
      BY Zenon, <2>5 DEF wait
    <3>2. QED
      BY <1>2, <3>1 DEF SchedNext
  <2>6. CASE intq_return(t)
    BY <1>2, <2>6 DEF intq_return, SchedNext
  <2>7. QED
    BY Zenon, <1>3, <2>2, <2>3, <2>4, <2>5, <2>6 DEF QueueStep
<1>4. CASE interrupt_handler
  <2>1. CASE waiter # NULL /\ thread_unblock(waiter)
    BY <1>2, <2>1 DEF SchedNext, QueueInv, WaiterExact
  <2>2. CASE UNCHANGED schedVars
    BY <1>2, <2>2
  <2>3. QED
    BY Zenon, <1>4, <2>1, <2>2 DEF interrupt_handler, signal, schedVars
<1>5. CASE elsewhere
  <2>1. ASSUME NEW t \in Thread, NEW u \in Thread, create_thread(t, u)
        PROVE  SchedInv'
    BY <1>2, <2>1 DEF create_thread, SchedNext
  <2>2. ASSUME NEW t \in Thread, start_thread(t)
        PROVE  SchedInv'
    <3>1. arg[t] \in Thread
      BY <2>2 DEF start_thread, At, QueueInv, CallExact
    <3>2. QED
      BY <1>2, <2>2, <3>1 DEF start_thread, SchedNext
  <2>3. ASSUME NEW t \in Thread, yield(t) \/ exit(t)
        PROVE  SchedInv'
    BY <1>2, <2>3 DEF yield, exit, SchedNext
  <2>4. CASE timer_interrupt \/ restore_level \/ idle
    BY <1>2, <2>4 DEF timer_interrupt, restore_level, idle, SchedNext
  <2>5. QED
    BY Zenon, <1>5, <2>1, <2>2, <2>3, <2>4 DEF elsewhere
<1>6. CASE UNCHANGED intqVars
  BY <1>2, <1>6 DEF intqVars, vars
<1>7. QED
  BY Zenon, <1>3, <1>4, <1>5, <1>6 DEF IntqNext

(* What QueueInv says of the callers, apart from the run queue.            *)
CallersExact == CallExact /\ TurnExact /\ WaiterExact /\ WriterExact

(* Steps that move nobody through the queue code, block nobody and wake    *)
(* nobody: the timer, a yield, an exit outside the code, the idle loop.    *)
LEMMA QuietFrame ==
  ASSUME QueueInv, UNCHANGED <<synchVars, queueVars>>,
         \A u \in Thread \ {idle_thread} :
           /\ status'[u] = "BLOCKED" <=> status[u] = "BLOCKED"
           /\ pc[u] # "run" => Alive(u)',
         intr' = "ON" => ~InCode(current)',
         ~(intr = "OFF" /\ InCode(current))
  PROVE  CallersExact'
<1> USE DEF QueueInv
<1>1. UNCHANGED <<side, buf, head, tail, sent, received, waiter, panic>>
  BY DEF queueVars, ring
<1>2. UNCHANGED <<value, waiters, holder, cond_waiters, pc, arg, slept>>
  BY DEF synchVars
<1>3. CallExact'
  BY ZenonT(40), <1>1, <1>2 DEF CallExact, InCode, Caller
<1>4. TurnExact'
  <2>1. \A t \in Elems(waiters[q_lock]) : t \in Thread \ {idle_thread}
    BY IntqAssumption, ElemsType DEF CallExact, TurnExact, Sem
  <2>2. QED
    BY <1>2, <2>1 DEF TurnExact, InTurn, Elems, NoDuplicates
<1>5. MustWait' <=> MustWait
  BY <1>1 DEF MustWait, intq_empty, intq_full, next
<1>6. WaiterExact'
  BY <1>1, <1>2, <1>5 DEF WaiterExact, CallExact
<1>7. WriterExact'
  BY <1>1, <1>2, <1>5 DEF WriterExact, CallExact, InCode
<1>8. QED
  BY <1>3, <1>4, <1>6, <1>7 DEF CallersExact

(* So the other threads and the timer leave the callers alone.             *)
LEMMA ElsewhereQuiet ==
  ASSUME QueueInv, UNCHANGED queueVars,
         \/ \E t \in Thread : yield(t) \/ exit(t)
         \/ timer_interrupt
         \/ pc[current] \in {"run", "create"} /\ restore_level
         \/ idle
  PROVE  CallersExact'
<1> USE DEF QueueInv
<1>1. /\ SchedInv /\ current \in Thread /\ intr \in {"ON", "OFF"}
      /\ \A t \in Thread : pc[t] # "run" => Alive(t) /\ t # idle_thread
      /\ intr = "ON" => ~InCode(current)
      /\ slept \subseteq {t \in Thread : pc[t] = "lock_acquire"}
  BY DEF SchedInv, SchedTypeOK, CallExact
<1>2. CASE yield_current /\ intr = "ON" /\ UNCHANGED synchVars
  BY Zenon, <1>1, <1>2, YieldStatus, QuietFrame DEF yield_current, schedule
<1>3. ASSUME NEW t \in Thread, yield(t)
      PROVE  CallersExact'
  BY <1>2, <1>3 DEF yield, thread_yield
<1>4. ASSUME NEW t \in Thread, exit(t)
      PROVE  CallersExact'
  BY ZenonT(30), <1>1, <1>4, ExitStatus, QuietFrame
  DEF exit, thread_exit, schedule, At, Executes, InCode
<1>5. CASE timer_interrupt
  <2>1. CASE UNCHANGED <<current, status, intr>>
    BY <1>1, <1>5, <2>1, QuietFrame DEF timer_interrupt, thread_tick, Alive, InCode, synchVars
  <2>2. QED
    BY <1>2, <1>5, <2>1 DEF timer_interrupt, thread_tick
<1>6. CASE pc[current] \in {"run", "create"} /\ restore_level
  BY <1>1, <1>6, QuietFrame DEF restore_level, intr_enable, Alive, InCode, synchVars
<1>7. CASE idle
  <2>1. UNCHANGED synchVars /\ thread_block /\ current = idle_thread /\ intr' = "OFF"
    BY <1>7 DEF idle, thread_block, schedule
  <2>2. ~InCode(current)
    BY <1>1, <2>1, ThreadAssumption DEF InCode
  <2>3. QED
    BY <1>1, <2>1, <2>2, BlockStatus, QuietFrame
<1>8. QED
  BY <1>3, <1>4, <1>5, <1>6, <1>7

(* Thread t, which runs, goes from one label to another.                   *)
Moves(t, from, to) ==
  /\ pc \in [Thread -> QueueLabel] /\ pc' \in [Thread -> QueueLabel]
  /\ arg' = [u \in Thread |-> arg'[u]]
  /\ pc[t] = from /\ pc'[t] = to
  /\ \A u \in Thread \ {t} : pc'[u] = pc[u] /\ arg'[u] = arg[u]
  /\ current = t /\ t # idle_thread /\ status[t] = "RUNNING"

(* Goto() does that.                                                       *)
LEMMA GotoMoves ==
  ASSUME QueueInv, NEW t \in Thread, NEW to \in QueueLabel, Goto(t, to, NULL) \/ Goto(t, to, q_lock),
         current = t, pc[t] # "run" \/ t # idle_thread
  PROVE  Moves(t, pc[t], to)
<1>1. /\ pc \in [Thread -> QueueLabel] /\ arg = [u \in Thread |-> arg[u]]
      /\ status[t] = "RUNNING" /\ t # idle_thread
  BY DEF QueueInv, CallExact, SchedInv, OneRunning
<1>2. QED
  BY <1>1 DEF Goto, Moves

(* A move within the code, into it or out of it keeps what CallExact says, *)
(* as long as nobody who is being created is woken and nobody dies.        *)
LEMMA MoveCall ==
  ASSUME QueueInv, NEW t \in Thread, NEW from \in QueueLabel \ {"create"},
         NEW to \in QueueLabel \ {"create"}, Moves(t, from, to),
         UNCHANGED side, t \in Caller,
         value' \in [Sem -> Nat], waiters' \in [Sem -> Seq(Thread)],
         holder' \in [Lock -> Thread \cup {NULL}],
         \A u \in Thread \ {idle_thread} :
           /\ Alive(u)' <=> Alive(u)
           /\ pc[u] = "run" /\ status[u] = "BLOCKED" => status'[u] = "BLOCKED",
         \A u \in slept' : u \in slept \/ u = t,
         t \in slept' => to = "lock_acquire",
         intr' = "OFF" \/ (to = "run" /\ UNCHANGED current)
  PROVE  CallExact'
<1> USE DEF QueueInv, Moves
<1>1. slept' \subseteq {u \in Thread : pc'[u] = "lock_acquire"}
  <2>1. slept \subseteq {u \in Thread : pc[u] = "lock_acquire"}
    BY DEF CallExact
  <2>2. ASSUME NEW u \in slept'
        PROVE  u \in Thread /\ pc'[u] = "lock_acquire"
    BY <2>1, <2>2
  <2>3. QED
    BY <2>2
<1>2. intr' = "ON" => ~InCode(current)'
  BY DEF InCode
<1>3. \A u \in Thread : InCode(u)' => u \in Caller'
  BY ZenonT(30) DEF InCode, Caller, CallExact
<1>4. \A u \in Thread : pc'[u] # "run" => Alive(u)' /\ u # idle_thread
  BY ZenonT(30) DEF CallExact, Alive
<1>5. ASSUME NEW u \in Thread, pc'[u] = "create"
      PROVE  /\ arg'[u] \in Thread \ {idle_thread}
             /\ status'[arg'[u]] = "BLOCKED" /\ pc'[arg'[u]] = "run"
             /\ \A v \in Thread : pc'[v] = "create" /\ arg'[v] = arg'[u] => v = u
  <2>1. u # t /\ pc[u] = "create" /\ arg'[u] = arg[u]
    BY <1>5
  <2>2. /\ arg[u] \in Thread \ {idle_thread}
        /\ status[arg[u]] = "BLOCKED" /\ pc[arg[u]] = "run"
        /\ \A v \in Thread : pc[v] = "create" /\ arg[v] = arg[u] => v = u
    BY <2>1 DEF CallExact
  <2>3. arg[u] # t
    BY <2>2
  <2>4. QED
    BY Zenon, <2>1, <2>2, <2>3
<1>6. side' \in {"getc", "putc"}
  BY DEF CallExact
<1>7. QED
  BY Zenon, <1>1, <1>2, <1>3, <1>4, <1>5, <1>6 DEF CallExact

(* A move that leaves the turns, the lock and the waiter alone keeps what  *)
(* TurnExact and WaiterExact say.                                          *)
LEMMA MoveTurn ==
  ASSUME QueueInv, NEW t \in Thread, NEW from \in QueueLabel, NEW to \in QueueLabel,
         Moves(t, from, to),
         {from, to} \cap {"intq_wait", "intq_release"} = {}, from # "lock_acquire",
         UNCHANGED <<value, waiters, holder, waiter, status>>,
         waiter # NULL => MustWait'
  PROVE  TurnExact' /\ WaiterExact'
<1> USE DEF QueueInv, Moves
<1>1. \A u \in Thread : InTurn(u)' <=> InTurn(u)
  BY Zenon DEF InTurn
<1>2. TurnExact'
  <2>1. \A u \in Elems(waiters[q_lock]) : u \in Thread
    BY IntqAssumption, ElemsType DEF CallExact, Sem
  <2>2. \A u \in Elems(waiters'[q_lock]) : pc'[u] = "lock_acquire" /\ status'[u] = "BLOCKED"
    BY <2>1 DEF TurnExact, Elems
  <2>3. QED
    BY ZenonT(30), <1>1, <2>2 DEF TurnExact, NoDuplicates
<1>3. WaiterExact'
  BY DEF WaiterExact
<1>4. QED
  BY <1>2, <1>3

(* input_getc() and serial_putc() start outside the code, with interrupts  *)
(* on, and end with interrupts on outside the code.                        *)
LEMMA CallReturnStep ==
  ASSUME QueueInv, NEW t \in Thread, call_intq(t) \/ intq_return(t)
  PROVE  CallersExact'
<1> USE DEF QueueInv
<1>1. UNCHANGED <<current, status, value, waiters, holder, slept, side, waiter, panic>>
  BY DEF call_intq, intq_return, intr_enable, queueVars
<1>2. UNCHANGED <<buf, head, tail, sent, received>>
  BY DEF call_intq, intq_return, queueVars, ring
<1>3. MustWait' <=> MustWait
  BY <1>1, <1>2 DEF MustWait, intq_empty, intq_full, next
<1>4. \/ Moves(t, "run", "intq_test") /\ intr' = "OFF" /\ t \in Caller
      \/ Moves(t, "intq_return", "run") /\ t \in Caller
  <2>1. CASE call_intq(t)
    BY <2>1, GotoMoves DEF call_intq, At, Executes, QueueLabel
  <2>2. CASE intq_return(t)
    <3>1. t \in Caller
      BY <2>2 DEF intq_return, InQueue, CallExact, InCode
    <3>2. QED
      BY <2>2, <3>1, GotoMoves DEF intq_return, InQueue, QueueLabel
  <2>3. QED
    BY <2>1, <2>2
<1>5. /\ value' \in [Sem -> Nat] /\ waiters' \in [Sem -> Seq(Thread)]
      /\ holder' \in [Lock -> Thread \cup {NULL}]
      /\ \A u \in Thread : Alive(u)' <=> Alive(u)
      /\ t \notin slept
  BY Zenon, <1>1, <1>4 DEF CallExact, Alive, Moves
<1>6. CallExact'
  BY <1>1, <1>4, <1>5, MoveCall DEF QueueLabel
<1>7. TurnExact' /\ WaiterExact'
  BY <1>1, <1>3, <1>4, MoveTurn DEF QueueLabel, WaiterExact
<1>8. WriterExact'
  BY <1>1, <1>3, <1>4 DEF WriterExact, Moves
<1>9. QED
  BY <1>6, <1>7, <1>8 DEF CallersExact

(* What is true of a thread in the queue code: it runs with interrupts     *)
(* off, and nobody at lock_acquire() or wait() in serial_putc() but it.    *)
LEMMA InQueueFacts ==
  ASSUME QueueInv, NEW t \in Thread, NEW label \in QueueLabel \ {"run", "create"},
         InQueue(t, label)
  PROVE  /\ t \in Caller /\ current = t /\ intr = "OFF" /\ pc[t] = label
         /\ t # idle_thread /\ status[t] = "RUNNING"
         /\ q_lock \in Sem /\ q_lock \in Lock
         /\ t \notin Elems(waiters[q_lock])
         /\ side = "putc" => \A u \in Thread : InCode(u) => u = t
<1>1. /\ t \in Caller /\ current = t /\ intr = "OFF" /\ pc[t] = label
      /\ t # idle_thread /\ status[t] = "RUNNING"
  BY DEF InQueue, QueueInv, CallExact, InCode, SchedInv, OneRunning
<1>2. t \notin Elems(waiters[q_lock])
  BY <1>1 DEF QueueInv, TurnExact
<1>3. side = "putc" => \A u \in Thread : InCode(u) => u = t
  BY <1>1, IntqAssumption DEF QueueInv, CallExact, Caller
<1>4. QED
  BY <1>1, <1>2, <1>3, IntqAssumption DEF Sem

(* The test of the queue: a caller that has to wait goes on with           *)
(* interrupts off; one that does not finds nobody asleep.                  *)
LEMMA TestStep ==
  ASSUME QueueInv, NEW t \in Thread, intq_test(t)
  PROVE  CallersExact'
<1> USE DEF QueueInv
<1>1. /\ t \in Caller /\ current = t /\ intr = "OFF" /\ pc[t] = "intq_test"
      /\ t # idle_thread /\ status[t] = "RUNNING"
  BY InQueueFacts DEF intq_test, QueueLabel
<1>2. UNCHANGED <<schedVars, value, waiters, holder, slept, side, waiter, panic>>
  BY DEF intq_test
<1>3. UNCHANGED <<current, status, intr>>
  BY <1>2 DEF schedVars
<1>4. /\ value' \in [Sem -> Nat] /\ waiters' \in [Sem -> Seq(Thread)]
      /\ holder' \in [Lock -> Thread \cup {NULL}]
      /\ \A u \in Thread : Alive(u)' <=> Alive(u)
      /\ t \notin slept
  BY <1>1, <1>2, <1>3 DEF CallExact, Alive
<1>5. CASE MustWait /\ Goto(t, "lock_acquire", q_lock) /\ UNCHANGED ring
  <2>1. MustWait'
    BY <1>2, <1>5 DEF ring, MustWait, intq_empty, intq_full, next
  <2>2. Moves(t, "intq_test", "lock_acquire")
    BY <1>1, <1>5, GotoMoves DEF QueueLabel
  <2>3. CallExact'
    BY <1>1, <1>2, <1>3, <1>4, <2>2, MoveCall DEF QueueLabel
  <2>4. TurnExact' /\ WaiterExact'
    BY <1>2, <1>3, <2>1, <2>2, MoveTurn DEF QueueLabel
  <2>5. WriterExact'
    BY Zenon, <1>1, <1>2, <1>3, <1>4, <2>1, <2>2 DEF WriterExact, Moves
  <2>6. QED
    BY <2>3, <2>4, <2>5 DEF CallersExact
<1>6. CASE ~MustWait /\ Goto(t, "intq_return", NULL)
  <2>1. Moves(t, "intq_test", "intq_return")
    BY Zenon, <1>1, <1>6, GotoMoves DEF QueueLabel
  <2>2. CallExact'
    BY ZenonT(40), <1>1, <1>2, <1>3, <1>4, <2>1, MoveCall DEF QueueLabel
  <2>3. TurnExact' /\ WaiterExact'
    BY <1>2, <1>3, <1>6, <2>1, MoveTurn DEF QueueLabel, WaiterExact
  <2>4. WriterExact'
    BY <1>1, <1>2, <2>1 DEF WriterExact, Moves
  <2>5. QED
    BY <2>2, <2>3, <2>4 DEF CallersExact
<1>7. QED
  BY Zenon, <1>5, <1>6 DEF intq_test

(* lock_acquire(): it is nobody's turn and the caller's turn begins, or    *)
(* the caller, a reader, joins the wait list.                              *)
LEMMA AcquireStep ==
  ASSUME QueueInv, NEW t \in Thread, intq_lock_acquire(t)
  PROVE  CallersExact'
<1> USE DEF QueueInv
<1>1. /\ t \in Caller /\ current = t /\ intr = "OFF" /\ pc[t] = "lock_acquire"
      /\ t # idle_thread /\ status[t] = "RUNNING" /\ q_lock \in Sem
      /\ t \notin Elems(waiters[q_lock])
      /\ side = "putc" => \A u \in Thread : InCode(u) => u = t
  BY InQueueFacts DEF intq_lock_acquire, QueueLabel
<1>2. UNCHANGED <<holder, side, waiter, panic, ring>>
  BY DEF intq_lock_acquire, queueVars
<1>3. MustWait' <=> MustWait
  BY <1>2 DEF ring, MustWait, intq_empty, intq_full, next
<1>4. value \in [Sem -> Nat] /\ waiters \in [Sem -> Seq(Thread)]
      /\ holder' \in [Lock -> Thread \cup {NULL}]
      /\ pc \in [Thread -> QueueLabel] /\ arg = [u \in Thread |-> arg[u]]
  BY <1>2 DEF CallExact
<1>5. CASE /\ value[q_lock] = 0
           /\ waiters' = [waiters EXCEPT ![q_lock] = Append(@, t)]
           /\ slept' = slept \cup {t}
           /\ thread_block
           /\ UNCHANGED <<value, pc, arg>>
  <2>1. PICK v \in Thread : InTurn(v)
    BY <1>5 DEF TurnExact
  <2>2. side # "putc"
    BY <1>1, <2>1 DEF InTurn, InCode
  <2>3. /\ \A u \in Thread \ {idle_thread} :
             /\ status'[u] = "BLOCKED" <=> status[u] = "BLOCKED" \/ u = t
             /\ Alive(u)' <=> Alive(u)
        /\ intr' = "OFF"
    BY Zenon, <1>1, <1>5, BlockStatus DEF thread_block, schedule
  <2>4. Moves(t, "lock_acquire", "lock_acquire")
    BY <1>1, <1>4, <1>5 DEF Moves
  <2>5. /\ waiters' \in [Sem -> Seq(Thread)] /\ waiters'[q_lock] = Append(waiters[q_lock], t)
        /\ waiters[q_lock] \in Seq(Thread)
    BY <1>1, <1>4, <1>5
  <2>6. CallExact'
    BY ZenonT(30), <1>1, <1>2, <1>4, <1>5, <2>3, <2>4, <2>5, MoveCall DEF QueueLabel
  <2>7. /\ Elems(waiters'[q_lock]) = Elems(waiters[q_lock]) \cup {t}
        /\ NoDuplicates(waiters'[q_lock])
    BY <1>1, <2>5, AppendElems, NoDuplicatesAppend DEF TurnExact
  <2>8. \A u \in Elems(waiters[q_lock]) : u \in Thread \ {idle_thread}
    BY Zenon, <2>5, ElemsType DEF TurnExact, CallExact
  <2>9. TurnExact'
    <3>1. \A u \in Elems(waiters'[q_lock]) : pc'[u] = "lock_acquire" /\ status'[u] = "BLOCKED"
      BY <1>1, <1>5, <2>3, <2>7, <2>8 DEF TurnExact
    <3>2. NoDuplicates(waiters[q_lock])' /\ Elems(waiters[q_lock])' = Elems(waiters'[q_lock])
      BY <2>7 DEF NoDuplicates, Elems
    <3>3. QED
      BY ZenonT(40), <1>2, <1>5, <3>1, <3>2 DEF TurnExact, InTurn
  <2>10. WaiterExact'
    BY Zenon, <1>1, <1>2, <1>3, <1>5, <2>3 DEF WaiterExact, CallExact
  <2>11. WriterExact'
    BY <1>2, <2>2 DEF WriterExact
  <2>12. QED
    BY ZenonT(40), <2>6, <2>9, <2>10, <2>11 DEF CallersExact
<1>6. CASE /\ value[q_lock] > 0
           /\ value' = [value EXCEPT ![q_lock] = @ - 1]
           /\ slept' = slept \ {t}
           /\ intr' = "OFF"
           /\ Goto(t, "intq_wait", NULL)
           /\ UNCHANGED <<waiters, current, status, ready_list, thread_ticks>>
  <2>1. value[q_lock] = 1 /\ \A u \in Thread : ~InTurn(u)
    BY <1>6 DEF TurnExact
  <2>2. value' \in [Sem -> Nat] /\ value'[q_lock] = 0
    BY <1>1, <1>4, <1>6, <2>1
  <2>3. Moves(t, "lock_acquire", "intq_wait")
    BY <1>1, <1>6, GotoMoves DEF QueueLabel
  <2>4. \A u \in Thread : Alive(u)' <=> Alive(u)
    BY <1>6 DEF Alive
  <2>5. CallExact'
    BY ZenonT(40), <1>1, <1>2, <1>4, <1>6, <2>2, <2>3, <2>4, MoveCall DEF QueueLabel
  <2>6. TurnExact'
    <3>1. \A u \in Thread : InTurn(u)' <=> u = t
      BY <2>1, <2>3 DEF InTurn, Moves
    <3>2. \A u \in Elems(waiters[q_lock]) : u \in Thread \ {t}
      BY <1>1, <1>4, ElemsType
    <3>3. \A u \in Elems(waiters[q_lock])' : pc'[u] = "lock_acquire" /\ status'[u] = "BLOCKED"
      BY <1>6, <2>3, <3>2 DEF TurnExact, Moves, Elems
    <3>4. \A u \in Thread : pc'[u] # "intq_release"
      BY <2>1, <2>3 DEF InTurn, Moves
    <3>5. QED
      BY <1>6, <2>2, <3>1, <3>3, <3>4 DEF TurnExact, NoDuplicates
  <2>7. WaiterExact'
    BY <1>2, <1>3, <1>6, <2>3 DEF WaiterExact, Moves
  <2>8. WriterExact'
    BY <1>1, <1>2, <1>3, <1>6, <2>3 DEF WriterExact, Moves
  <2>9. QED
    BY <2>5, <2>6, <2>7, <2>8 DEF CallersExact
<1>7. QED
  BY Zenon, <1>5, <1>6 DEF intq_lock_acquire, sema_down

(* wait(): the caller whose turn it is falls asleep as the queue's waiter. *)
(* Only among readers can the condition have changed since the test.       *)
LEMMA WaitingStep ==
  ASSUME QueueInv, NEW t \in Thread, wait(t)
  PROVE  CallersExact'
<1> USE DEF QueueInv
<1>1. /\ t \in Caller /\ current = t /\ intr = "OFF" /\ pc[t] = "intq_wait"
      /\ t # idle_thread /\ status[t] = "RUNNING" /\ q_lock \in Lock
      /\ side = "putc" => \A u \in Thread : InCode(u) => u = t
  BY Zenon, InQueueFacts DEF wait, QueueLabel
<1>2. /\ UNCHANGED <<value, waiters, slept, side, ring>>
      /\ holder' = [holder EXCEPT ![q_lock] = t]
  BY DEF wait
<1>3. MustWait' <=> MustWait
  BY <1>2 DEF ring, MustWait, intq_empty, intq_full, next
<1>4. /\ value' \in [Sem -> Nat] /\ waiters' \in [Sem -> Seq(Thread)]
      /\ holder' \in [Lock -> Thread \cup {NULL}] /\ holder'[q_lock] = t
      /\ pc \in [Thread -> QueueLabel] /\ arg = [u \in Thread |-> arg[u]]
      /\ t \notin slept
  BY <1>1, <1>2 DEF CallExact
<1>5. /\ \A u \in Thread : InTurn(u) <=> u = t
      /\ \A u \in Thread : pc[u] # "intq_release"
      /\ value[q_lock] = 0
  BY <1>1 DEF TurnExact, InTurn
<1>6. waiter = NULL
  BY <1>5 DEF WaiterExact
<1>7. /\ \A u \in Elems(waiters[q_lock]) : u \in Thread \ {t, idle_thread}
      /\ NoDuplicates(waiters[q_lock])' /\ Elems(waiters[q_lock])' = Elems(waiters[q_lock])
  <2>1. waiters[q_lock] \in Seq(Thread)
    BY <1>2, <1>4, IntqAssumption DEF Sem
  <2>2. QED
    <3>1. Elems(waiters[q_lock]) \subseteq Thread
      BY <2>1, ElemsType
    <3>2. \A u \in Elems(waiters[q_lock]) : u \in Thread \ {t, idle_thread}
      BY <1>1, <3>1 DEF TurnExact, CallExact
    <3>3. NoDuplicates(waiters[q_lock])' /\ Elems(waiters[q_lock])' = Elems(waiters[q_lock])
      BY <1>2 DEF TurnExact, NoDuplicates, Elems
    <3>4. QED
      BY <3>2, <3>3
<1>8. CASE MustWait /\ waiter' = t /\ thread_block /\ Goto(t, "intq_release", NULL) /\ UNCHANGED panic
  <2>1. /\ \A u \in Thread \ {idle_thread} :
             /\ status'[u] = "BLOCKED" <=> status[u] = "BLOCKED" \/ u = t
             /\ Alive(u)' <=> Alive(u)
        /\ intr' = "OFF"
    BY Zenon, <1>1, <1>8, BlockStatus DEF thread_block, schedule
  <2>2. Moves(t, "intq_wait", "intq_release")
    BY <1>1, <1>8, GotoMoves DEF QueueLabel
  <2>3. CallExact'
    BY ZenonT(40), <1>1, <1>2, <1>4, <2>1, <2>2, MoveCall DEF QueueLabel
  <2>4. TurnExact'
    <3>1. \A u \in Thread : InTurn(u)' <=> u = t
      BY <1>5, <2>2 DEF InTurn, Moves
    <3>2. \A u \in Elems(waiters[q_lock])' : pc'[u] = "lock_acquire" /\ status'[u] = "BLOCKED"
      BY <1>7, <2>1, <2>2 DEF TurnExact, Moves
    <3>3. \A u \in Thread : pc'[u] = "intq_release" => holder'[q_lock] = u
      BY <1>4, <1>5, <2>2 DEF Moves
    <3>4. QED
      BY <1>2, <1>5, <1>7, <3>1, <3>2, <3>3 DEF TurnExact
  <2>5. WaiterExact'
    BY <1>1, <1>3, <1>5, <1>8, <2>1, <2>2 DEF WaiterExact, Moves
  <2>6. WriterExact'
    BY Zenon, <1>1, <1>2, <1>8, <2>2 DEF WriterExact, Moves, InCode
  <2>7. QED
    BY <2>3, <2>4, <2>5, <2>6 DEF CallersExact
<1>9. CASE ~MustWait /\ panic' = TRUE /\ UNCHANGED <<schedVars, waiter, pc, arg>>
  <2>1. side # "putc"
    BY Zenon, <1>1, <1>9 DEF WriterExact
  <2>2. UNCHANGED <<current, status, intr>>
    BY <1>9 DEF schedVars
  <2>3. Moves(t, "intq_wait", "intq_wait")
    BY <1>1, <1>4, <1>9 DEF Moves
  <2>4. \A u \in Thread : Alive(u)' <=> Alive(u)
    BY <2>2 DEF Alive
  <2>5. CallExact'
    BY Zenon, <1>1, <1>2, <1>4, <2>2, <2>3, <2>4, MoveCall DEF QueueLabel
  <2>6. TurnExact'
    <3>1. \A u \in Elems(waiters[q_lock])' : pc'[u] = "lock_acquire" /\ status'[u] = "BLOCKED"
      BY ZenonT(40), <1>7, <1>9, <2>2 DEF TurnExact
    <3>2. QED
      BY ZenonT(40), <1>2, <1>5, <1>7, <1>9, <3>1 DEF TurnExact, InTurn
  <2>7. WaiterExact'
    BY Zenon, <1>6, <1>9, <2>2 DEF WaiterExact
  <2>8. WriterExact'
    BY <1>2, <2>1 DEF WriterExact
  <2>9. QED
    BY <2>5, <2>6, <2>7, <2>8 DEF CallersExact
<1>10. QED
  BY Zenon, <1>8, <1>9 DEF wait

(* lock_release() after a wait: the turn ends and the first of those who   *)
(* sleep in lock_acquire() becomes ready.                                  *)
LEMMA ReleaseStep ==
  ASSUME QueueInv, NEW t \in Thread, intq_lock_release(t)
  PROVE  CallersExact'
<1> USE DEF QueueInv
<1>1. /\ t \in Caller /\ current = t /\ intr = "OFF" /\ pc[t] = "intq_release"
      /\ t # idle_thread /\ status[t] = "RUNNING" /\ q_lock \in Lock /\ q_lock \in Sem
      /\ t \notin Elems(waiters[q_lock])
      /\ side = "putc" => \A u \in Thread : InCode(u) => u = t
  BY InQueueFacts DEF intq_lock_release, QueueLabel
<1>2. /\ UNCHANGED <<slept, side, ring, waiter, panic>>
      /\ holder' = [holder EXCEPT ![q_lock] = NULL]
      /\ value' = [value EXCEPT ![q_lock] = @ + 1]
  BY DEF intq_lock_release, queueVars, sema_up
<1>3. MustWait' <=> MustWait
  BY Zenon, <1>2 DEF ring, MustWait, intq_empty, intq_full, next
<1>4. Moves(t, "intq_release", "intq_test")
  BY Zenon, <1>1, GotoMoves DEF QueueLabel, intq_lock_release
<1>5. /\ \A u \in Thread : InTurn(u) <=> u = t
      /\ value[q_lock] = 0
  BY ZenonT(40), <1>1 DEF TurnExact, InTurn
<1>6. waiter = NULL
  BY <1>1, <1>5 DEF WaiterExact, InTurn
<1>7. /\ value' \in [Sem -> Nat] /\ value'[q_lock] = 1
      /\ holder' \in [Lock -> Thread \cup {NULL}]
      /\ waiters \in [Sem -> Seq(Thread)] /\ waiters[q_lock] \in Seq(Thread)
      /\ t \notin slept
  BY <1>1, <1>2, <1>5 DEF CallExact
<1>8. /\ waiters' \in [Sem -> Seq(Thread)]
      /\ NoDuplicates(waiters'[q_lock])
      /\ \A u \in Elems(waiters'[q_lock]) :
           u \in Elems(waiters[q_lock]) /\ status'[u] = "BLOCKED"
      /\ \A u \in Thread : Alive(u)' <=> Alive(u)
      /\ \A u \in Thread : status'[u] = "BLOCKED" => status[u] = "BLOCKED"
      /\ \A u \in Thread : pc[u] # "lock_acquire" /\ status[u] = "BLOCKED" => status'[u] = "BLOCKED"
      /\ UNCHANGED intr
  <2>1. Elems(waiters[q_lock]) \subseteq Thread
    BY <1>7, ElemsType
  <2>2. status \in [Thread -> ThreadStatus]
    BY Zenon DEF SchedInv, SchedTypeOK
  <2>3. CASE waiters[q_lock] = <<>> /\ UNCHANGED <<waiters, schedVars>>
    BY ZenonT(40), <1>7, <2>1, <2>3 DEF schedVars, TurnExact, Alive, NoDuplicates, Elems
  <2>4. CASE /\ waiters[q_lock] # <<>>
             /\ thread_unblock(Head(waiters[q_lock]))
             /\ waiters' = [waiters EXCEPT ![q_lock] = Tail(@)]
    <3> DEFINE w == Head(waiters[q_lock])
    <3>1. /\ w \in Thread /\ w \in Elems(waiters[q_lock])
          /\ Tail(waiters[q_lock]) \in Seq(Thread)
          /\ Elems(Tail(waiters[q_lock])) = Elems(waiters[q_lock]) \ {w}
          /\ NoDuplicates(Tail(waiters[q_lock]))
      BY ZenonT(40), <1>7, <2>4, TailElems DEF TurnExact, NoDuplicates
    <3>2. waiters' \in [Sem -> Seq(Thread)] /\ waiters'[q_lock] = Tail(waiters[q_lock])
      BY Zenon, <1>1, <1>7, <2>4, <3>1
    <3>3. /\ status' = [status EXCEPT ![w] = "READY"] /\ UNCHANGED intr
          /\ status[w] = "BLOCKED"
      BY <2>4 DEF thread_unblock
    <3>4. pc[w] = "lock_acquire"
      BY <3>1 DEF TurnExact
    <3> HIDE DEF w
    <3>5. \A u \in Thread : status'[u] = IF u = w THEN "READY" ELSE status[u]
      BY <2>2, <3>1, <3>3
    <3>6. \A u \in Elems(waiters'[q_lock]) :
            u \in Elems(waiters[q_lock]) /\ status'[u] = "BLOCKED"
      BY <2>1, <3>1, <3>2, <3>5 DEF TurnExact
    <3>7. QED
      BY <3>1, <3>2, <3>3, <3>4, <3>5, <3>6 DEF Alive
  <2>5. QED
    BY Zenon, <2>3, <2>4 DEF intq_lock_release, sema_up
<1>9. CallExact'
  BY ZenonT(30), <1>1, <1>2, <1>4, <1>7, <1>8, MoveCall DEF QueueLabel
<1>10. TurnExact'
  <2>1. \A u \in Thread : ~InTurn(u)'
    BY <1>4, <1>5 DEF InTurn, Moves
  <2>2. \A u \in Elems(waiters[q_lock]) : u \in Thread \ {t}
    BY Zenon, <1>1, <1>7, ElemsType
  <2>3. /\ NoDuplicates(waiters[q_lock])'
        /\ \A u \in Elems(waiters[q_lock])' : pc'[u] = "lock_acquire" /\ status'[u] = "BLOCKED"
    BY <1>4, <1>8, <2>2 DEF TurnExact, Moves, NoDuplicates, Elems
  <2>4. QED
    BY Zenon, <1>7, <2>1, <2>3 DEF TurnExact, InTurn
<1>11. WaiterExact'
  BY <1>2, <1>4, <1>5, <1>6 DEF WaiterExact, Moves, InTurn
<1>12. WriterExact'
  BY <1>1, <1>2, <1>4 DEF WriterExact, Moves, InCode
<1>13. QED
  BY <1>9, <1>10, <1>11, <1>12 DEF CallersExact

(* The handler puts or takes a byte and wakes the waiter, which has no     *)
(* more reason to sleep; nobody else is touched.                           *)
LEMMA HandlerStep ==
  ASSUME QueueInv, interrupt_handler
  PROVE  CallersExact'
<1> USE DEF QueueInv
<1>1. /\ UNCHANGED <<value, waiters, holder, pc, arg, slept, side, panic>>
      /\ intr = "ON"
  BY DEF interrupt_handler, synchVars
<1>2. status \in [Thread -> ThreadStatus]
  BY DEF SchedInv, SchedTypeOK
<1>3. /\ UNCHANGED <<current, intr>> /\ waiter' = NULL
      /\ \A u \in Thread : status'[u] = IF u = waiter THEN "READY" ELSE status[u]
      /\ waiter # NULL => status[waiter] = "BLOCKED" /\ waiter \in Thread
  <2>1. CASE waiter # NULL /\ thread_unblock(waiter) /\ waiter' = NULL
    BY <1>2, <2>1 DEF thread_unblock, WaiterExact
  <2>2. CASE waiter = NULL /\ UNCHANGED <<schedVars, waiter>>
    BY <2>2, SynchAssumption DEF schedVars
  <2>3. QED
    BY Zenon, <2>1, <2>2 DEF interrupt_handler, signal
<1>4. /\ waiter # NULL => pc[waiter] = "intq_release"
      /\ \A u \in Thread : Alive(u)' <=> Alive(u)
  BY <1>3 DEF WaiterExact, Alive
<1>5. CallExact'
  <2>1. ASSUME NEW u \in Thread, pc[u] = "create"
        PROVE  status'[arg[u]] = "BLOCKED"
    <3>1. arg[u] \in Thread /\ status[arg[u]] = "BLOCKED" /\ pc[arg[u]] = "run"
      BY ZenonT(40), <2>1 DEF CallExact
    <3>2. QED
      BY <1>3, <1>4, <3>1, SynchAssumption
  <2>2. QED
    BY <1>1, <1>3, <1>4, <2>1 DEF CallExact, InCode, Caller
<1>6. TurnExact'
  <2>1. \A u \in Elems(waiters[q_lock]) : u \in Thread
    BY IntqAssumption, ElemsType DEF CallExact, Sem
  <2>2. ASSUME NEW u \in Elems(waiters[q_lock])
        PROVE  pc[u] = "lock_acquire" /\ status'[u] = "BLOCKED"
    <3>1. pc[u] = "lock_acquire" /\ status[u] = "BLOCKED"
      BY Zenon DEF TurnExact
    <3>2. QED
      BY <1>3, <1>4, <2>1, <3>1, SynchAssumption
  <2>3. QED
    BY <1>1, <2>2 DEF TurnExact, InTurn, Elems, NoDuplicates
<1>7. WaiterExact'
  <2>1. \A u \in Thread : ~(pc[u] = "intq_release" /\ status'[u] = "BLOCKED")
    BY <1>3 DEF WaiterExact
  <2>2. QED
    BY <1>1, <1>3, <2>1, SynchAssumption DEF WaiterExact
<1>8. WriterExact'
  BY <1>1 DEF WriterExact
<1>9. QED
  BY <1>5, <1>6, <1>7, <1>8 DEF CallersExact

(* thread_create(): the new thread has done nothing yet and is blocked     *)
(* until its creator starts it.                                            *)
LEMMA CreatingStep ==
  ASSUME QueueInv, NEW t \in Thread, NEW v \in Thread, create_thread(t, v), UNCHANGED queueVars
  PROVE  CallersExact'
<1> USE DEF QueueInv
<1>1. /\ UNCHANGED <<value, waiters, holder, slept, side, waiter, panic, ring, current, intr>>
      /\ current = t /\ t # idle_thread /\ pc[t] = "run"
      /\ status[v] = "NONE"
  BY DEF create_thread, init_thread, queueVars, At, Executes
<1>2. MustWait' <=> MustWait
  BY <1>1 DEF ring, MustWait, intq_empty, intq_full, next
<1>3. /\ status \in [Thread -> ThreadStatus] /\ status[t] = "RUNNING"
      /\ pc \in [Thread -> QueueLabel] /\ arg = [u \in Thread |-> arg[u]]
      /\ status[idle_thread] # "NONE"
  BY <1>1 DEF SchedInv, SchedTypeOK, OneRunning, CallExact, DeadStayDead
<1>4. pc[v] = "run" /\ v # t /\ v # idle_thread
  BY <1>1, <1>3 DEF CallExact, Alive
<1>5. /\ pc' \in [Thread -> QueueLabel] /\ arg' = [u \in Thread |-> arg'[u]]
      /\ pc'[t] = "create" /\ arg'[t] = v /\ pc'[v] = "run"
      /\ \A u \in Thread \ {t} : pc'[u] = pc[u]
      /\ \A u \in Thread \ {t, v} : arg'[u] = arg[u]
      /\ \A u \in Thread : status'[u] = IF u = v THEN "BLOCKED" ELSE status[u]
  BY Zenon, <1>3, <1>4 DEF create_thread, init_thread, QueueLabel
<1>6. \A u \in Thread : InCode(u)' <=> InCode(u)
  BY <1>1, <1>5 DEF InCode
<1>7. CallExact'
  <2>1. slept' \subseteq {u \in Thread : pc'[u] = "lock_acquire"}
    BY <1>1, <1>5 DEF CallExact
  <2>2. \A u \in Thread : pc'[u] # "run" => Alive(u)' /\ u # idle_thread
    BY SMTT(40), <1>1, <1>3, <1>4, <1>5 DEF CallExact, Alive
  <2>3. ASSUME NEW u \in Thread, pc'[u] = "create"
        PROVE  /\ arg'[u] \in Thread \ {idle_thread}
               /\ status'[arg'[u]] = "BLOCKED" /\ pc'[arg'[u]] = "run"
               /\ \A w \in Thread : pc'[w] = "create" /\ arg'[w] = arg'[u] => w = u
    <3>1. \A w \in Thread \ {t} : pc'[w] = "create" =>
            /\ w # v /\ pc[w] = "create" /\ arg'[w] = arg[w]
            /\ arg[w] \in Thread \ {idle_thread}
            /\ status[arg[w]] = "BLOCKED" /\ pc[arg[w]] = "run" /\ arg[w] # v /\ arg[w] # t
      BY <1>1, <1>3, <1>4, <1>5 DEF CallExact
    <3>2. CASE u = t
      BY <1>4, <1>5, <3>1, <3>2
    <3>3. CASE u # t
      <4>1. /\ pc[u] = "create" /\ arg'[u] = arg[u]
            /\ arg[u] \in Thread \ {idle_thread}
            /\ status[arg[u]] = "BLOCKED" /\ pc[arg[u]] = "run" /\ arg[u] # v /\ arg[u] # t
        BY <2>3, <3>1, <3>3
      <4>2. \A w \in Thread : pc[w] = "create" /\ arg[w] = arg[u] => w = u
        BY <4>1 DEF CallExact
      <4>3. QED
        BY SMTT(40), <1>5, <3>1, <4>1, <4>2
    <3>4. QED
      BY <3>2, <3>3
  <2>4. /\ intr' = "ON" => ~InCode(current)'
        /\ \A u \in Thread : InCode(u)' => u \in Caller'
    BY <1>1, <1>5, <1>6 DEF InCode, Caller, CallExact
  <2>5. /\ side' \in {"getc", "putc"} /\ value' \in [Sem -> Nat]
        /\ waiters' \in [Sem -> Seq(Thread)] /\ holder' \in [Lock -> Thread \cup {NULL}]
    BY <1>1 DEF CallExact
  <2>6. QED
    BY Zenon, <1>5, <2>1, <2>2, <2>3, <2>4, <2>5 DEF CallExact
<1>8. TurnExact'
  <2>1. \A u \in Elems(waiters[q_lock]) : u \in Thread \ {t, v}
    BY <1>1, <1>4, IntqAssumption, ElemsType DEF CallExact, TurnExact, Sem
  <2>2. \A u \in Thread : InTurn(u)' <=> InTurn(u)
    BY <1>1, <1>5 DEF InTurn
  <2>3. /\ NoDuplicates(waiters[q_lock])'
        /\ \A u \in Elems(waiters[q_lock])' : pc'[u] = "lock_acquire" /\ status'[u] = "BLOCKED"
    BY <1>1, <1>5, <2>1 DEF TurnExact, NoDuplicates, Elems
  <2>4. \A u \in Thread : pc'[u] = "intq_release" => holder'[q_lock] = u
    BY <1>1, <1>5 DEF TurnExact
  <2>5. QED
    BY Zenon, <1>1, <2>2, <2>3, <2>4 DEF TurnExact
<1>9. WaiterExact'
  BY <1>1, <1>2, <1>4, <1>5 DEF WaiterExact
<1>10. WriterExact'
  BY <1>1, <1>2, <1>5 DEF WriterExact
<1>11. QED
  BY <1>7, <1>8, <1>9, <1>10 DEF CallersExact

(* thread_unblock() at the end of thread_create(): the new thread, which   *)
(* is on no wait list and not in the queue code, becomes ready.            *)
LEMMA StartingStep ==
  ASSUME QueueInv, NEW t \in Thread, start_thread(t), UNCHANGED queueVars
  PROVE  CallersExact'
<1> USE DEF QueueInv
<1> DEFINE v == arg[t]
<1>1. /\ UNCHANGED <<value, waiters, holder, slept, side, waiter, panic, ring, current, intr>>
      /\ current = t /\ t # idle_thread /\ pc[t] = "create"
  BY DEF start_thread, thread_unblock, queueVars, At, Executes
<1>2. MustWait' <=> MustWait
  BY <1>1 DEF ring, MustWait, intq_empty, intq_full, next
<1>3. /\ status \in [Thread -> ThreadStatus] /\ status[t] = "RUNNING"
      /\ pc \in [Thread -> QueueLabel] /\ arg = [u \in Thread |-> arg[u]]
  BY <1>1 DEF SchedInv, SchedTypeOK, OneRunning, CallExact
<1>4. /\ v \in Thread \ {idle_thread} /\ status[v] = "BLOCKED" /\ pc[v] = "run"
      /\ \A u \in Thread : pc[u] = "create" /\ arg[u] = v => u = t
  BY <1>1 DEF CallExact
<1>5. /\ pc' \in [Thread -> QueueLabel] /\ arg' = [u \in Thread |-> arg'[u]]
      /\ pc'[t] = "run"
      /\ \A u \in Thread \ {t} : pc'[u] = pc[u] /\ arg'[u] = arg[u]
  BY <1>3 DEF start_thread, Goto, QueueLabel
<1>6. \A u \in Thread : status'[u] = IF u = v THEN "READY" ELSE status[u]
  BY <1>3, <1>4 DEF start_thread, thread_unblock
<1>7. \A u \in Thread : InCode(u)' <=> InCode(u)
  BY <1>1, <1>5 DEF InCode
<1> HIDE DEF v
<1>8. CallExact'
  <2>1. slept' \subseteq {u \in Thread : pc'[u] = "lock_acquire"}
    BY <1>1, <1>5 DEF CallExact
  <2>2. \A u \in Thread : pc'[u] # "run" => Alive(u)' /\ u # idle_thread
    BY Zenon, <1>5, <1>6 DEF CallExact, Alive
  <2>3. ASSUME NEW u \in Thread, pc'[u] = "create"
        PROVE  /\ arg'[u] \in Thread \ {idle_thread}
               /\ status'[arg'[u]] = "BLOCKED" /\ pc'[arg'[u]] = "run"
               /\ \A w \in Thread : pc'[w] = "create" /\ arg'[w] = arg'[u] => w = u
    <3>1. u # t /\ pc[u] = "create" /\ arg'[u] = arg[u]
      BY <1>5, <2>3
    <3>2. /\ arg[u] \in Thread \ {idle_thread} /\ arg[u] # v
          /\ status[arg[u]] = "BLOCKED" /\ pc[arg[u]] = "run" /\ arg[u] # t
          /\ \A w \in Thread : pc[w] = "create" /\ arg[w] = arg[u] => w = u
      BY <1>1, <1>4, <3>1 DEF CallExact
    <3>3. QED
      BY <1>5, <1>6, <3>1, <3>2
  <2>4. /\ intr' = "ON" => ~InCode(current)'
        /\ \A u \in Thread : InCode(u)' => u \in Caller'
    BY <1>1, <1>5, <1>7 DEF InCode, Caller, CallExact
  <2>5. /\ side' \in {"getc", "putc"} /\ value' \in [Sem -> Nat]
        /\ waiters' \in [Sem -> Seq(Thread)] /\ holder' \in [Lock -> Thread \cup {NULL}]
    BY <1>1 DEF CallExact
  <2>6. QED
    BY Zenon, <1>5, <2>1, <2>2, <2>3, <2>4, <2>5 DEF CallExact
<1>9. TurnExact'
  <2>1. \A u \in Elems(waiters[q_lock]) : u \in Thread \ {t, v}
    BY <1>1, <1>4, IntqAssumption, ElemsType DEF CallExact, TurnExact, Sem
  <2>2. \A u \in Thread : InTurn(u)' <=> InTurn(u)
    BY <1>1, <1>5 DEF InTurn
  <2>3. /\ NoDuplicates(waiters[q_lock])'
        /\ \A u \in Elems(waiters[q_lock])' : pc'[u] = "lock_acquire" /\ status'[u] = "BLOCKED"
    BY <1>1, <1>5, <1>6, <2>1 DEF TurnExact, NoDuplicates, Elems
  <2>4. \A u \in Thread : pc'[u] = "intq_release" => holder'[q_lock] = u
    BY <1>1, <1>5 DEF TurnExact
  <2>5. QED
    BY ZenonT(30), <1>1, <2>2, <2>3, <2>4 DEF TurnExact
<1>10. WaiterExact'
  BY <1>1, <1>2, <1>4, <1>5, <1>6 DEF WaiterExact
<1>11. WriterExact'
  BY <1>1, <1>2, <1>5 DEF WriterExact
<1>12. QED
  BY ZenonT(40), <1>8, <1>9, <1>10, <1>11 DEF CallersExact

(* Every step preserves what the queue needs.                              *)
LEMMA QueueStepInv == QueueInv /\ [IntqNext]_intqVars => QueueInv'
<1> SUFFICES ASSUME QueueInv, [IntqNext]_intqVars
             PROVE  QueueInv'
  OBVIOUS
<1>1. SchedInv'
  BY QueueSched
<1>2. CallersExact'
  <2>1. ASSUME NEW t \in Reader \cup Writer, call_intq(t) \/ QueueStep(t)
        PROVE  CallersExact'
    <3>1. t \in Thread
      BY IntqAssumption
    <3>2. QED
      BY Zenon, <2>1, <3>1, CallReturnStep, TestStep, AcquireStep, WaitingStep, ReleaseStep
      DEF QueueStep
  <2>2. CASE interrupt_handler
    BY <2>2, HandlerStep
  <2>3. CASE elsewhere
    BY Zenon, <2>3, CreatingStep, StartingStep, ElsewhereQuiet DEF elsewhere
  <2>4. CASE UNCHANGED intqVars
    <3>1. UNCHANGED <<synchVars, queueVars>> /\ UNCHANGED <<current, status, intr>>
      BY <2>4 DEF intqVars, vars, schedVars
    <3>2. /\ UNCHANGED <<value, waiters, holder, pc, arg, slept, side, waiter, panic>>
          /\ UNCHANGED <<buf, head, tail, sent, received>>
      BY ZenonT(40), <3>1 DEF synchVars, queueVars, ring
    <3>3. CallExact' /\ TurnExact'
      BY <3>1, <3>2
      DEF QueueInv, CallExact, TurnExact, InTurn, InCode, Caller, Alive, NoDuplicates, Elems
    <3>4. MustWait' <=> MustWait
      BY <3>2 DEF MustWait, intq_empty, intq_full, next
    <3>5. QED
      BY Zenon, <3>1, <3>2, <3>3, <3>4 DEF QueueInv, CallersExact, WaiterExact, WriterExact
  <2>5. QED
    BY Zenon, <2>1, <2>2, <2>3, <2>4 DEF IntqNext
<1>3. QED
  BY <1>1, <1>2 DEF QueueInv, CallersExact

(* Nobody is in the queue code at the start.                               *)
LEMMA QueueStart == IntqInit => QueueInv
<1> SUFFICES ASSUME IntqInit
             PROVE  QueueInv
  OBVIOUS
<1>1. /\ SchedInit /\ pc = [t \in Thread |-> "run"] /\ arg = [t \in Thread |-> NULL]
      /\ value = [s \in Sem |-> IF s \in Lock THEN 1 ELSE 0]
      /\ waiters = [s \in Sem |-> <<>>] /\ holder = [l \in Lock |-> NULL] /\ slept = {}
      /\ side \in {"getc", "putc"} /\ waiter = NULL /\ panic = FALSE
  BY DEF IntqInit, Init
<1>2. q_lock \in Lock /\ q_lock \in Sem
  BY IntqAssumption DEF Sem
<1>3. SchedInv
  BY <1>1, SchedStart
<1>4. CallExact
  <2>1. /\ value \in [Sem -> Nat] /\ waiters \in [Sem -> Seq(Thread)]
        /\ holder \in [Lock -> Thread \cup {NULL}]
    BY <1>1
  <2>2. /\ pc \in [Thread -> QueueLabel] /\ arg = [t \in Thread |-> arg[t]]
        /\ \A t \in Thread : pc[t] = "run"
    BY <1>1 DEF QueueLabel
  <2>3. current \in Thread
    BY <1>3 DEF SchedInv, SchedTypeOK
  <2>4. QED
    BY <1>1, <2>1, <2>2, <2>3 DEF CallExact, InCode
<1>5. TurnExact
  BY <1>1, <1>2 DEF TurnExact, InTurn, NoDuplicates, Elems
<1>6. WaiterExact /\ WriterExact
  BY <1>1, SynchAssumption DEF WaiterExact, WriterExact
<1>7. QED
  BY <1>3, <1>4, <1>5, <1>6 DEF QueueInv

(* A caller asleep in wait() is the queue's waiter, holds its lock and has *)
(* reason to sleep, for any number of readers; and the assertion of wait() *)
(* never fails for a single writer.                                        *)
THEOREM SleepersAreKnown == IntqSpec => []SleeperExact
<1>1. QueueInv => SleeperExact
  <2> SUFFICES ASSUME QueueInv
               PROVE  SleeperExact
    OBVIOUS
  <2>1. Caller \subseteq Thread
    BY IntqAssumption DEF Caller
  <2>2. QED
    BY <2>1, SynchAssumption
    DEF QueueInv, SleeperExact, WaiterExact, WriterExact, TurnExact
<1>2. QED
  BY <1>1, QueueStart, QueueStepInv, PTL DEF IntqSpec

-----------------------------------------------------------------------------
(* The ring of the interrupt queue *)

(* Positions stay in the ring, and the ring holds what FifoExact says.     *)
RingExact ==
  /\ head \in 0 .. INTQ_BUFSIZE - 1
  /\ tail \in 0 .. INTQ_BUFSIZE - 1
  /\ buf \in [0 .. INTQ_BUFSIZE - 1 -> Nat]
  /\ sent \in Nat /\ received \in Nat
  /\ FifoExact

(* A position that runs past the end of the ring comes out at its start.   *)
LEMMA Wraps ==
  ASSUME NEW n \in Nat \ {0}, NEW x \in 0 .. n - 1
  PROVE  x % n = x /\ (x + n) % n = x
<1>1. x % n = x
  OBVIOUS
<1>2. (x + n) % n = x
  OBVIOUS
<1>3. QED
  BY <1>1, <1>2

(* The same for any sum of two positions.                                  *)
LEMMA WrapsOnce ==
  ASSUME NEW n \in Nat \ {0}, NEW x \in 0 .. 2 * n - 1
  PROVE  x % n = IF x < n THEN x ELSE x - n
<1>1. CASE x < n
  BY <1>1, Wraps
<1>2. CASE x >= n
  <2>1. x - n \in 0 .. n - 1 /\ (x - n) + n = x
    BY <1>2
  <2>2. ((x - n) + n) % n = x - n
    BY <2>1, Wraps
  <2>3. QED
    BY <1>2, <2>1, <2>2
<1>3. QED
  BY <1>1, <1>2

(* The number of bytes between two positions, and the position of the k-th *)
(* byte, without remainders.                                               *)
RingCount(h, t) == IF h >= t THEN h - t ELSE h - t + INTQ_BUFSIZE
RingWrap(x) == IF x < INTQ_BUFSIZE THEN x ELSE x - INTQ_BUFSIZE
RingPlace(t, k) == RingWrap(t + k - 1)

(* The remainders of next() and of FifoExact are these.                    *)
LEMMA RingPositions ==
  ASSUME NEW h \in 0 .. INTQ_BUFSIZE - 1, NEW t \in 0 .. INTQ_BUFSIZE - 1
  PROVE  /\ next(h) = IF h = INTQ_BUFSIZE - 1 THEN 0 ELSE h + 1
         /\ (h + INTQ_BUFSIZE - t) % INTQ_BUFSIZE = RingCount(h, t)
         /\ \A k \in 1 .. INTQ_BUFSIZE : (t + k - 1) % INTQ_BUFSIZE = RingPlace(t, k)
<1>1. INTQ_BUFSIZE \in Nat \ {0, 1}
  BY IntqAssumption
<1>2. \A x \in 0 .. 2 * INTQ_BUFSIZE - 1 :
        x % INTQ_BUFSIZE = RingWrap(x)
  BY Zenon, <1>1, WrapsOnce DEF RingWrap
<1>3. h + 1 \in 0 .. 2 * INTQ_BUFSIZE - 1
  BY <1>1
<1>4. next(h) = IF h = INTQ_BUFSIZE - 1 THEN 0 ELSE h + 1
  BY <1>1, <1>2, <1>3 DEF next, RingWrap
<1>5. h + INTQ_BUFSIZE - t \in 0 .. 2 * INTQ_BUFSIZE - 1
  BY <1>1
<1>6. (h + INTQ_BUFSIZE - t) % INTQ_BUFSIZE = RingCount(h, t)
  BY <1>1, <1>2, <1>5 DEF RingCount, RingWrap
<1>7. ASSUME NEW k \in 1 .. INTQ_BUFSIZE
      PROVE  (t + k - 1) % INTQ_BUFSIZE = RingPlace(t, k)
  <2>1. t + k - 1 \in 0 .. 2 * INTQ_BUFSIZE - 1
    BY <1>1
  <2>2. QED
    BY <1>2, <2>1 DEF RingPlace
<1>8. QED
  BY Zenon, <1>4, <1>6, <1>7

(* FifoExact without remainders, for positions h and t of the ring b after *)
(* s bytes were put and r taken.                                           *)
Holds(b, h, t, s, r) ==
  /\ s - r = RingCount(h, t)
  /\ \A k \in 1 .. INTQ_BUFSIZE - 1 : k <= s - r => b[RingPlace(t, k)] = r + k

(* As long as the positions are in the ring, that is what FifoExact says.  *)
LEMMA FifoIs ==
  /\ head \in 0 .. INTQ_BUFSIZE - 1
  /\ tail \in 0 .. INTQ_BUFSIZE - 1
  => (FifoExact <=> Holds(buf, head, tail, sent, received))
<1> SUFFICES ASSUME head \in 0 .. INTQ_BUFSIZE - 1, tail \in 0 .. INTQ_BUFSIZE - 1
             PROVE  FifoExact <=> Holds(buf, head, tail, sent, received)
  OBVIOUS
<1>1. (head + INTQ_BUFSIZE - tail) % INTQ_BUFSIZE = RingCount(head, tail)
  BY Zenon, RingPositions
<1>2. 1 .. INTQ_BUFSIZE - 1 \subseteq 1 .. INTQ_BUFSIZE
  BY IntqAssumption
<1>3. \A k \in 1 .. INTQ_BUFSIZE - 1 : (tail + k - 1) % INTQ_BUFSIZE = RingPlace(tail, k)
  BY Zenon, <1>2, RingPositions
<1>4. QED
  BY Zenon, <1>1, <1>3 DEF FifoExact, Holds

(* intq_putc()'s part: a byte goes behind those that are in the ring, and  *)
(* overwrites none of them.                                                *)
LEMMA PutRing ==
  ASSUME RingExact, put_byte
  PROVE  RingExact'
<1> DEFINE N == INTQ_BUFSIZE
           n == sent - received
<1>1. /\ N \in Nat \ {0, 1}
      /\ head \in 0 .. N - 1 /\ tail \in 0 .. N - 1
      /\ sent \in Nat /\ received \in Nat
      /\ buf \in [0 .. N - 1 -> Nat]
  BY IntqAssumption DEF RingExact
<1>2. /\ buf' = [buf EXCEPT ![head] = sent + 1]
      /\ head' = next(head) /\ sent' = sent + 1
      /\ tail' = tail /\ received' = received
      /\ next(head) # tail
  BY DEF put_byte, intq_full
<1>3. next(head) = IF head = N - 1 THEN 0 ELSE head + 1
  BY Zenon, <1>1, RingPositions
<1>4. head' \in 0 .. N - 1
  BY <1>1, <1>2, <1>3
<1>5. Holds(buf, head, tail, sent, received)
  BY Zenon, <1>1, FifoIs DEF RingExact
<1>6. n = RingCount(head, tail) /\ n \in 0 .. N - 2 /\ sent' - received' = n + 1
  BY <1>1, <1>2, <1>3, <1>5 DEF Holds, RingCount
<1>7. sent' - received' = RingCount(head', tail')
  BY <1>1, <1>2, <1>3, <1>6 DEF RingCount
<1>8. ASSUME NEW k \in 1 .. N - 1, k <= sent' - received'
      PROVE  buf'[RingPlace(tail', k)] = received' + k
  <2>1. RingPlace(tail, k) \in 0 .. N - 1
    BY <1>1 DEF RingPlace, RingWrap
  <2>2. CASE k <= n
    <3>1. RingPlace(tail, k) # head
      BY <1>1, <1>6, <2>2 DEF RingPlace, RingWrap, RingCount
    <3>2. buf[RingPlace(tail, k)] = received + k
      BY <1>5, <2>2 DEF Holds
    <3>3. QED
      BY <1>1, <1>2, <2>1, <3>1, <3>2
  <2>3. CASE k = n + 1
    <3>1. RingPlace(tail, k) = head
      BY <1>1, <1>6, <2>3 DEF RingPlace, RingWrap, RingCount
    <3>2. QED
      BY <1>1, <1>2, <2>3, <3>1
  <2>4. QED
    BY <1>6, <1>8, <2>2, <2>3
<1>9. Holds(buf', head', tail', sent', received')
  BY <1>7, <1>8 DEF Holds
<1>10. (/\ head \in 0 .. INTQ_BUFSIZE - 1
        /\ tail \in 0 .. INTQ_BUFSIZE - 1
        => (FifoExact <=> Holds(buf, head, tail, sent, received)))'
  BY FifoIs, PTL
<1>11. FifoExact'
  BY <1>1, <1>2, <1>4, <1>9, <1>10
<1>12. buf' \in [0 .. N - 1 -> Nat] /\ sent' \in Nat
  BY <1>1, <1>2
<1>13. QED
  BY <1>1, <1>2, <1>4, <1>11, <1>12 DEF RingExact

(* intq_getc()'s part: the oldest byte leaves, the others keep their       *)
(* order.                                                                  *)
LEMMA TakeRing ==
  ASSUME RingExact, take_byte
  PROVE  RingExact'
<1> DEFINE N == INTQ_BUFSIZE
           n == sent - received
<1>1. /\ N \in Nat \ {0, 1}
      /\ head \in 0 .. N - 1 /\ tail \in 0 .. N - 1
      /\ sent \in Nat /\ received \in Nat
  BY IntqAssumption DEF RingExact
<1>2. /\ tail' = next(tail) /\ received' = received + 1
      /\ buf' = buf /\ head' = head /\ sent' = sent
      /\ head # tail
  BY DEF take_byte, intq_empty
<1>3. next(tail) = IF tail = N - 1 THEN 0 ELSE tail + 1
  BY Zenon, <1>1, RingPositions
<1>4. tail' \in 0 .. N - 1
  BY <1>1, <1>2, <1>3
<1>5. Holds(buf, head, tail, sent, received)
  BY Zenon, <1>1, FifoIs DEF RingExact
<1>6. n = RingCount(head, tail) /\ n \in 1 .. N - 1 /\ sent' - received' = n - 1
  BY <1>1, <1>2, <1>5 DEF Holds, RingCount
<1>7. sent' - received' = RingCount(head', tail')
  BY <1>1, <1>2, <1>3, <1>6 DEF RingCount
<1>8. ASSUME NEW k \in 1 .. N - 1, k <= sent' - received'
      PROVE  buf'[RingPlace(tail', k)] = received' + k
  <2>1. k + 1 \in 1 .. N - 1 /\ k + 1 <= n
    BY <1>1, <1>6, <1>8
  <2>2. RingPlace(tail', k) = RingPlace(tail, k + 1)
    BY <1>1, <1>2, <1>3, <2>1 DEF RingPlace, RingWrap
  <2>3. buf[RingPlace(tail, k + 1)] = received + (k + 1)
    BY <1>5, <2>1 DEF Holds
  <2>4. QED
    BY <1>1, <1>2, <2>2, <2>3
<1>9. Holds(buf', head', tail', sent', received')
  BY <1>7, <1>8 DEF Holds
<1>10. (/\ head \in 0 .. INTQ_BUFSIZE - 1
        /\ tail \in 0 .. INTQ_BUFSIZE - 1
        => (FifoExact <=> Holds(buf, head, tail, sent, received)))'
  BY FifoIs, PTL
<1>11. FifoExact'
  BY <1>1, <1>2, <1>4, <1>9, <1>10
<1>12. received' \in Nat
  BY <1>1, <1>2
<1>13. QED
  BY <1>1, <1>2, <1>4, <1>11, <1>12 DEF RingExact

(* The ring changes by a byte put or taken, or not at all.                 *)
LEMMA RingStep == RingExact /\ [IntqNext]_intqVars => RingExact'
<1> SUFFICES ASSUME RingExact, [IntqNext]_intqVars
             PROVE  RingExact'
  OBVIOUS
<1>1. CASE put_byte
  BY <1>1, PutRing
<1>2. CASE take_byte
  BY <1>2, TakeRing
<1>3. CASE UNCHANGED ring
  BY <1>3 DEF ring, RingExact, FifoExact
<1>4. CASE \E t \in Reader \cup Writer : call_intq(t) \/ QueueStep(t)
  BY Zenon, <1>1, <1>2, <1>3, <1>4
  DEF call_intq, QueueStep, intq_test, thread_byte, intq_lock_acquire, wait,
      intq_lock_release, intq_return, queueVars
<1>5. CASE interrupt_handler
  BY Zenon, <1>1, <1>2, <1>5 DEF interrupt_handler, handler_byte
<1>6. CASE elsewhere
  BY Zenon, <1>3, <1>6 DEF elsewhere, queueVars
<1>7. CASE UNCHANGED intqVars
  BY <1>3, <1>7 DEF intqVars, queueVars
<1>8. QED
  BY <1>4, <1>5, <1>6, <1>7 DEF IntqNext

(* intq_init() empties the ring.                                           *)
LEMMA RingStart == IntqInit => RingExact
<1> SUFFICES ASSUME IntqInit
             PROVE  RingExact
  OBVIOUS
<1>1. INTQ_BUFSIZE \in Nat \ {0, 1}
  BY IntqAssumption
<1>2. (0 + INTQ_BUFSIZE - 0) % INTQ_BUFSIZE = 0
  BY <1>1, RingPositions
<1>3. QED
  BY <1>1, <1>2 DEF IntqInit, RingExact, FifoExact

(* Every byte comes out of the queue once and in the order in which it was *)
(* put, for any size of the ring, on both sides of the handler.            *)
THEOREM BytesComeOutInOrder == IntqSpec => []FifoExact
<1>1. RingExact => FifoExact
  BY DEF RingExact
<1>2. QED
  BY <1>1, RingStart, RingStep, PTL DEF IntqSpec

=============================================================================
