------------------------------ MODULE Process ------------------------------
(***************************************************************************)
(* Parents and children: exec, wait, exit (userprog/process.c, syscall.c,  *)
(* and the child records of threads/thread.c).                             *)
(*                                                                         *)
(* A process lives in a page; the page is freed when it dies and may hold  *)
(* a new process later, so pointers to a struct thread can dangle.  A      *)
(* child_process record belongs to a tid and is never freed.  A free page  *)
(* is filled with 0xcc (palloc.c:137): a semaphore in it looks positive, a *)
(* list in it cannot be walked.  Kernel stacks and struct threads are the  *)
(* only pages modelled, every thread may be preempted between two steps.   *)
(***************************************************************************)
EXTENDS Integers, Sequences

CONSTANTS
  Page,     \* pages for struct threads
  main,     \* the page of initial_thread, which runs the kernel's tasks
  Status,   \* what processes pass to exit()
  MaxTid,   \* bound on the processes ever created
  NoThread

ASSUME ProcessAssumption ==
  /\ main \in Page
  /\ Status \subseteq Int
  /\ MaxTid \in Nat \ {0}
  /\ NoThread \notin Page

VARIABLES
  next_tid,
  tid,        \* struct thread.tid of the process in a page, 0 in a free one
  parent,     \* struct thread.parent: a page
  children,   \* struct thread.child_processes: tids of the records listed
  sema,       \* sema_proc_exec and sema_proc_wait
  record,     \* struct child_process of every tid
  at, target, \* what a process is doing, and the child it does it to
  panic,      \* the function that made the kernel fault, or "none"
  creator,    \* history: the tid that created a tid
  waits       \* history: what wait() told the creator of a tid, call by call

procVars == <<next_tid, tid, parent, children, sema, record, at, target, panic,
              creator, waits>>

Tid == 1 .. MaxTid

CHILD_NOT_EXITED == 2

(* init_thread(): both semaphores start at 0.                              *)
fresh_semas == [k \in {"exec", "wait"} |-> [value |-> 0, waiters |-> <<>>]]

create_child_process(q) ==
  [page |-> q, cur_status |-> "ALIVE", exit_status |-> CHILD_NOT_EXITED,
   is_loaded |-> FALSE, is_awaited |-> FALSE]

(* main is thread 1; its page is not from palloc and is never freed.       *)
ProcInit ==
  /\ next_tid = 2
  /\ tid = [p \in Page |-> IF p = main THEN 1 ELSE 0]
  /\ parent = [p \in Page |-> NoThread]
  /\ children = [p \in Page |-> {}]
  /\ sema = [p \in Page |-> fresh_semas]
  /\ record = [i \in Tid |-> create_child_process(NoThread)]
  /\ at = [p \in Page |-> IF p = main THEN "user" ELSE "none"]
  /\ target = [p \in Page |-> 0]
  /\ panic = "none"
  /\ creator = [i \in Tid |-> 0]
  /\ waits = [i \in Tid |-> <<>>]

-----------------------------------------------------------------------------
Go(p, label) == at' = [at EXCEPT ![p] = label]

(* A reference through NULL or into a list of a free page faults in the    *)
(* kernel, and kill() panics.                                              *)
Fault(where) ==
  /\ panic' = where
  /\ UNCHANGED <<next_tid, tid, parent, children, sema, record, at, target,
                 creator, waits>>

(* get_child(tid, &q->child_processes) # NULL.                             *)
get_child(i, q) == tid[q] # 0 /\ i \in children[q]

(* One round of sema_down() on a semaphore of page q.  A thread that slept *)
(* reads the page again when it wakes up.                                  *)
sema_down(p, q, k, asleep, done) ==
  /\ \/ tid[q] = 0 /\ Go(p, done) /\ UNCHANGED sema
     \/ /\ tid[q] # 0 /\ sema[q][k].value > 0
        /\ sema' = [sema EXCEPT ![q][k].value = @ - 1]
        /\ Go(p, done)
     \/ /\ tid[q] # 0 /\ sema[q][k].value = 0
        /\ sema' = [sema EXCEPT ![q][k].waiters = Append(@, p)]
        /\ Go(p, asleep)
  /\ UNCHANGED <<next_tid, tid, parent, children, record, target, panic,
                 creator, waits>>

(* The loop of sema_down() a woken thread returns to.                      *)
Again == [exec_asleep |-> "exec_down", wait_asleep |-> "wait_down"]

(* sema_up() on a semaphore of p itself, which then goes to `label`.       *)
sema_up(p, k, label) ==
  LET queue == sema[p][k].waiters
  IN  /\ IF queue = <<>>
         THEN /\ sema' = [sema EXCEPT ![p][k].value = @ + 1]
              /\ Go(p, label)
         ELSE /\ sema' = [sema EXCEPT ![p][k] =
                            [value |-> @.value + 1, waiters |-> Tail(queue)]]
              /\ at' = [at EXCEPT ![p] = label,
                                  ![Head(queue)] = Again[at[Head(queue)]]]
      /\ UNCHANGED <<next_tid, tid, parent, children, record, target, panic,
                     creator, waits>>

-----------------------------------------------------------------------------
(* exec.  Up to the end of thread_create() nobody sees the new process.    *)
thread_create(p, q, label) ==
  /\ tid[q] = 0
  /\ next_tid <= MaxTid
  /\ next_tid' = next_tid + 1
  /\ tid' = [tid EXCEPT ![q] = next_tid]
  /\ parent' = [parent EXCEPT ![q] = p]
  /\ children' = [children EXCEPT ![q] = {}, ![p] = @ \cup {next_tid}]
  /\ sema' = [sema EXCEPT ![q] = fresh_semas]
  /\ record' = [record EXCEPT ![next_tid] = create_child_process(q)]
  /\ at' = [at EXCEPT ![q] = "start_process", ![p] = label]
  /\ target' = [target EXCEPT ![p] = next_tid, ![q] = 0]
  /\ creator' = [creator EXCEPT ![next_tid] = tid[p]]
  /\ UNCHANGED <<panic, waits>>

(* run_task(): the kernel waits for the task, not for its load.            *)
run_task(q) == at[main] = "user" /\ thread_create(main, q, "process_wait")

exec(p, q) ==
  /\ p # main /\ at[p] = "user"
  /\ thread_create(p, q, "exec_get_child")

(* No page for the thread or for the copy of its name: exec() exits.       *)
exec_no_memory(p) ==
  /\ p # main /\ at[p] = "user"
  /\ Go(p, "exit")
  /\ target' = [target EXCEPT ![p] = -1]
  /\ UNCHANGED <<next_tid, tid, parent, children, sema, record, panic, creator, waits>>

exec_get_child(p) ==
  /\ at[p] = "exec_get_child"
  /\ IF get_child(target[p], p)
     THEN /\ Go(p, "exec_down")
          /\ UNCHANGED <<next_tid, tid, parent, children, sema, record, target,
                         panic, creator, waits>>
     ELSE Fault("exec")

(* Mutant: exec() does not wait for the load.                              *)
exec_without_wait(p) ==
  /\ at[p] = "exec_down"
  /\ Go(p, "exec_return")
  /\ UNCHANGED <<next_tid, tid, parent, children, sema, record, target, panic,
                 creator, waits>>

exec_down(p) ==
  /\ at[p] = "exec_down"
  /\ sema_down(p, record[target[p]].page, "exec", "exec_asleep", "exec_return")

exec_return(p) ==
  /\ at[p] = "exec_return"
  /\ Go(p, "user")
  /\ target' = [target EXCEPT ![p] = 0]
  /\ UNCHANGED <<next_tid, tid, parent, children, sema, record, panic, creator, waits>>

-----------------------------------------------------------------------------
(* start_process(): load, tell the record, wake the parent, run or quit.   *)
start_process(q, success) ==
  /\ at[q] = "start_process"
  /\ IF get_child(tid[q], parent[q])
     THEN /\ record' = [record EXCEPT ![tid[q]].is_loaded = success]
          /\ Go(q, IF success THEN "loaded" ELSE "load_failed")
          /\ UNCHANGED <<next_tid, tid, parent, children, sema, target, panic,
                         creator, waits>>
     ELSE Fault("start_process")

start_process_up(q) ==
  \/ at[q] = "loaded" /\ sema_up(q, "exec", "user")
  \/ at[q] = "load_failed" /\ sema_up(q, "exec", "process_exit")

-----------------------------------------------------------------------------
(* wait *)

(* What the creator of process i is told is history.                       *)
Answer(p, i, status) ==
  waits' = IF creator[i] = tid[p] THEN [waits EXCEPT ![i] = Append(@, status)] ELSE waits

call_wait(p, i) ==
  /\ p # main /\ at[p] = "user"
  /\ i < next_tid /\ Len(waits[i]) < 2
  /\ Go(p, "process_wait")
  /\ target' = [target EXCEPT ![p] = i]
  /\ UNCHANGED <<next_tid, tid, parent, children, sema, record, panic, creator, waits>>

(* `awaits` is what is_awaited is set to, `next` where to go on.           *)
wait_for(p, awaits, next) ==
  LET i == target[p]
  IN  /\ at[p] = "process_wait"
      /\ IF ~get_child(i, p) \/ record[i].is_awaited
         THEN /\ Go(p, "user")
              /\ Answer(p, i, -1)
              /\ target' = [target EXCEPT ![p] = 0]
              /\ UNCHANGED record
         ELSE /\ record' = [record EXCEPT ![i].is_awaited = awaits]
              /\ Go(p, next)
              /\ UNCHANGED <<target, waits>>
      /\ UNCHANGED <<next_tid, tid, parent, children, sema, panic, creator>>

after_lookup(p) ==
  IF record[target[p]].cur_status = "ALIVE" THEN "wait_down" ELSE "wait_return"

(* Mutant: a living child is not waited for.                               *)
wait_does_not_block(p) == wait_for(p, TRUE, "wait_return")

(* Mutant: the child is not marked as awaited.                             *)
wait_leaves_no_mark(p) == wait_for(p, FALSE, after_lookup(p))

process_wait(p) == wait_for(p, TRUE, after_lookup(p))

wait_down(p) ==
  /\ at[p] = "wait_down"
  /\ sema_down(p, record[target[p]].page, "wait", "wait_asleep", "wait_return")

wait_return(p) ==
  /\ at[p] = "wait_return"
  /\ Go(p, "user")
  /\ Answer(p, target[p], record[target[p]].exit_status)
  /\ target' = [target EXCEPT ![p] = 0]
  /\ UNCHANGED <<next_tid, tid, parent, children, sema, record, panic, creator>>

-----------------------------------------------------------------------------
(* exit *)

call_exit(p, status) ==
  /\ p # main /\ at[p] = "user"
  /\ Go(p, "exit")
  /\ target' = [target EXCEPT ![p] = status]
  /\ UNCHANGED <<next_tid, tid, parent, children, sema, record, panic, creator, waits>>

exit(p) ==
  /\ at[p] = "exit"
  /\ IF get_child(tid[p], parent[p])
     THEN /\ record' = [record EXCEPT
                 ![tid[p]].exit_status = target[p],
                 ![tid[p]].cur_status = IF target[p] = -1 THEN "KILLED" ELSE "EXITED"]
          /\ Go(p, "process_exit")
          /\ UNCHANGED <<next_tid, tid, parent, children, sema, target, panic,
                         creator, waits>>
     ELSE Fault("exit")

(* An exception in user code, or an unknown system call.                   *)
kill(p) ==
  /\ p # main /\ at[p] = "user"
  /\ Go(p, "process_exit")
  /\ UNCHANGED <<next_tid, tid, parent, children, sema, record, target, panic,
                 creator, waits>>

(* Mutant: the record of a dead process stays listed.                      *)
exit_keeps_record(p) ==
  /\ at[p] = "process_exit"
  /\ Go(p, "exit_up")
  /\ UNCHANGED <<next_tid, tid, parent, children, sema, record, target, panic,
                 creator, waits>>

process_exit(p) ==
  /\ at[p] = "process_exit"
  /\ IF get_child(tid[p], parent[p])
     THEN /\ children' = [children EXCEPT ![parent[p]] = @ \ {tid[p]}]
          /\ record' = IF record[tid[p]].cur_status = "ALIVE"
                       THEN [record EXCEPT ![tid[p]].cur_status = "KILLED",
                                           ![tid[p]].exit_status = -1]
                       ELSE record
          /\ Go(p, "exit_up")
          /\ UNCHANGED <<next_tid, tid, parent, sema, target, panic, creator, waits>>
     ELSE Fault("process_exit")

process_exit_up(p) == at[p] = "exit_up" /\ sema_up(p, "wait", "dying")

(* The end of thread_exit(): the next thread to run frees the page.        *)
thread_exit(p) ==
  /\ at[p] = "dying"
  /\ tid' = [tid EXCEPT ![p] = 0]
  /\ parent' = [parent EXCEPT ![p] = NoThread]
  /\ children' = [children EXCEPT ![p] = {}]
  /\ sema' = [sema EXCEPT ![p] = fresh_semas]
  /\ at' = [at EXCEPT ![p] = "none"]
  /\ target' = [target EXCEPT ![p] = 0]
  /\ UNCHANGED <<next_tid, record, panic, creator, waits>>

-----------------------------------------------------------------------------
(* Steps inside the kernel, which go on by themselves.                     *)
KernelStep(p) ==
  \/ exec_get_child(p) \/ exec_down(p) \/ exec_return(p)
  \/ \E success \in BOOLEAN : start_process(p, success)
  \/ start_process_up(p)
  \/ process_wait(p) \/ wait_down(p) \/ wait_return(p)
  \/ exit(p) \/ process_exit(p) \/ process_exit_up(p) \/ thread_exit(p)

UserStep(p) ==
  \/ \E q \in Page : exec(p, q)
  \/ exec_no_memory(p)
  \/ \E i \in Tid : call_wait(p, i)
  \/ \E status \in Status : call_exit(p, status)
  \/ kill(p)

ProcNext ==
  /\ panic = "none"
  /\ \/ \E p \in Page : KernelStep(p) \/ UserStep(p)
     \/ \E q \in Page : run_task(q)

ProcSpec == ProcInit /\ [][ProcNext]_procVars

-----------------------------------------------------------------------------
(* Properties *)

(* A page lists exactly its own unfinished children: a process is listed   *)
(* by its parent from thread_create() until its process_exit(), no record  *)
(* of a dead process stays behind, and a page that is used again starts    *)
(* with an empty list.                                                     *)
ChildListExact ==
  \A p \in Page : tid[p] # 0 =>
    children[p] = {tid[q] : q \in {r \in Page :
                     /\ tid[r] # 0
                     /\ creator[tid[r]] = tid[p]
                     /\ at[r] \notin {"exit_up", "dying"}}}

(* When exec() returns the child has loaded, or failed to: is_loaded is    *)
(* final, even if the page of the child has been freed and reused          *)
(* meanwhile (syscall.c:516, `wait this child until load').  A child that  *)
(* is still starting has a parent that still exists, so start_process()    *)
(* finds its record.                                                       *)
ExecAnswerFinal ==
  /\ panic # "start_process"
  /\ \A p, q \in Page :
       at[p] = "exec_return" /\ tid[q] = target[p] => at[q] # "start_process"

(* wait() never returns early: what it returns is -1 or the status that    *)
(* the child has passed to exit(), never the initial CHILD_NOT_EXITED; and *)
(* `if process_wait() has already been successfully called for the given   *)
(* TID, returns -1' (process.c:100).                                       *)
WaitTruthful ==
  \A i \in Tid : \A n \in DOMAIN waits[i] :
    waits[i][n] # -1 => /\ record[i].cur_status = "EXITED" /\ n = 1
                        /\ waits[i][n] = record[i].exit_status

(* `Kernel code shouldn't throw exceptions' (exception.c:96): exec() and   *)
(* exit() find the records they look for.                                  *)
KernelNeverFaults == panic = "none"

(* `Waits for thread TID to die and returns its exit status'               *)
(* (process.c:97): the first wait for a child gets the child's status.     *)
StatusDelivered ==
  \A i \in Tid :
    waits[i] # <<>> /\ record[i].cur_status = "EXITED"
    => waits[i][1] = record[i].exit_status
=============================================================================
