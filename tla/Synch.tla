------------------------------- MODULE Synch -------------------------------
(***************************************************************************)
(* The synchronization primitives of threads/synch.c on top of Scheduler:  *)
(* semaphores, locks, Mesa-style condition variables.  Threads are         *)
(* arbitrary clients that obey the assertions of the primitives.           *)
(*                                                                         *)
(* A step is a stretch of code that no other thread can observe half done: *)
(* the interrupts-off body of sema_down(), sema_up(), ..., or one store.   *)
(* Between steps the timer may preempt the thread.                         *)
(***************************************************************************)
EXTENDS Scheduler, FiniteSets

CONSTANTS
  Semaphore,   \* semaphores the clients use directly
  Lock,        \* locks; a lock's inner semaphore goes by the lock's name
  Condition,   \* condition variables
  lock_of,     \* the lock each condition variable is used with
  NULL,
  MaxValue     \* bound on a client semaphore's value

ASSUME SynchAssumption ==
  /\ lock_of \in [Condition -> Lock]
  /\ NULL \notin Thread
  /\ MaxValue \in Nat
  /\ Semaphore \cap Lock = {}
  /\ (Semaphore \cup Lock) \cap Thread = {}

(* cond_wait() puts a semaphore on the waiting thread's stack; it goes by  *)
(* the thread's name.                                                      *)
Sem == Semaphore \cup Lock \cup Thread

VARIABLES
  value,         \* struct semaphore.value
  waiters,       \* struct semaphore.waiters
  holder,        \* struct lock.holder
  cond_waiters,  \* struct condition.waiters
  pc,            \* the primitive a thread is in, "run" outside of any
  arg,           \* what that primitive works on
  slept          \* threads inside the thread_block() of sema_down()

synchVars == <<value, waiters, holder, cond_waiters, pc, arg, slept>>
vars == <<schedVars, synchVars>>

Init ==
  /\ SchedInit
  /\ value = [s \in Sem |-> IF s \in Lock THEN 1 ELSE 0]
  /\ waiters = [s \in Sem |-> <<>>]
  /\ holder = [l \in Lock |-> NULL]
  /\ cond_waiters = [c \in Condition |-> <<>>]
  /\ pc = [t \in Thread |-> "run"]
  /\ arg = [t \in Thread |-> NULL]
  /\ slept = {}

-----------------------------------------------------------------------------
(* A thread executes its next step when it is on the processor and, unless *)
(* it wakes up inside sema_down(), has restored its interrupt level.       *)
Executes(t) == current = t /\ t # idle_thread /\ (intr = "ON" \/ t \in slept)

At(t, label) == Executes(t) /\ pc[t] = label

Goto(t, label, a) == pc' = [pc EXCEPT ![t] = label] /\ arg' = [arg EXCEPT ![t] = a]

(* The semaphore a thread in sema_down() works on.                         *)
SemaOf(t) ==
  CASE pc[t] \in {"sema_down", "lock_acquire"} -> arg[t]
    [] pc[t] = "cond_sleep" -> t
    [] pc[t] = "cond_reacquire" -> lock_of[arg[t]]
    [] OTHER -> NULL

(* Mutant: sema_down() takes a unit without looking.                       *)
sema_down_unchecked(t, s, label, a, old_level) ==
  /\ value' = [value EXCEPT ![s] = @ - 1]
  /\ intr' = old_level
  /\ Goto(t, label, a)
  /\ UNCHANGED <<waiters, slept, current, status, ready_list, thread_ticks>>

(* One round of the loop of sema_down(): sleep, or take a unit, restore    *)
(* the caller's interrupt level and return.                                *)
sema_down(t, s, label, a, old_level) ==
  \/ /\ value[s] = 0
     /\ waiters' = [waiters EXCEPT ![s] = Append(@, t)]
     /\ slept' = slept \cup {t}
     /\ thread_block
     /\ UNCHANGED <<value, pc, arg>>
  \/ /\ value[s] > 0
     /\ value' = [value EXCEPT ![s] = @ - 1]
     /\ slept' = slept \ {t}
     /\ intr' = old_level
     /\ Goto(t, label, a)
     /\ UNCHANGED <<waiters, current, status, ready_list, thread_ticks>>

(* Mutant: the woken thread is left on the wait list.                      *)
sema_up_keeps_waiter(s) ==
  /\ \/ waiters[s] # <<>> /\ thread_unblock(Head(waiters[s]))
     \/ waiters[s] = <<>> /\ UNCHANGED schedVars
  /\ value' = [value EXCEPT ![s] = @ + 1]
  /\ UNCHANGED waiters

(* Mutant: nobody is woken.                                                *)
sema_up_silent(s) ==
  /\ value' = [value EXCEPT ![s] = @ + 1]
  /\ UNCHANGED <<waiters, schedVars>>

sema_up(s) ==
  /\ \/ /\ waiters[s] # <<>>
        /\ thread_unblock(Head(waiters[s]))
        /\ waiters' = [waiters EXCEPT ![s] = Tail(@)]
     \/ /\ waiters[s] = <<>>
        /\ UNCHANGED <<waiters, schedVars>>
  /\ value' = [value EXCEPT ![s] = @ + 1]

-----------------------------------------------------------------------------
(* Semaphores *)

call_sema_down(t, s) ==
  /\ At(t, "run")
  /\ Goto(t, "sema_down", s)
  /\ UNCHANGED <<schedVars, value, waiters, holder, cond_waiters, slept>>

do_sema_down(t) ==
  /\ At(t, "sema_down")
  /\ sema_down(t, arg[t], "run", NULL, "ON")
  /\ UNCHANGED <<holder, cond_waiters>>

sema_try_down(t, s) ==
  /\ At(t, "run")
  /\ value[s] > 0
  /\ value' = [value EXCEPT ![s] = @ - 1]
  /\ UNCHANGED <<schedVars, waiters, holder, cond_waiters, pc, arg, slept>>

(* sema_up() by the running thread, or by an interrupt handler at any      *)
(* point where interrupts are on.                                          *)
do_sema_up(s) ==
  /\ intr = "ON"
  /\ value[s] < MaxValue
  /\ sema_up(s)
  /\ UNCHANGED <<holder, cond_waiters, pc, arg, slept>>

-----------------------------------------------------------------------------
(* Locks *)

lock_acquire(t, l) ==
  /\ At(t, "run")
  /\ holder[l] # t
  /\ Goto(t, "lock_acquire", l)
  /\ UNCHANGED <<schedVars, value, waiters, holder, cond_waiters, slept>>

lock_acquire_down(t) ==
  /\ At(t, "lock_acquire")
  /\ sema_down(t, arg[t], "set_holder", arg[t], "ON")
  /\ UNCHANGED <<holder, cond_waiters>>

(* Mutant: the unit that was seen is not taken.                            *)
try_acquire_without_unit(t, l) ==
  /\ At(t, "run")
  /\ holder[l] # t
  /\ value[l] > 0
  /\ Goto(t, "set_holder", l)
  /\ UNCHANGED <<schedVars, value, waiters, holder, cond_waiters, slept>>

(* sema_try_down() succeeds or leaves everything as it is.                 *)
lock_try_acquire(t, l) ==
  /\ At(t, "run")
  /\ holder[l] # t
  /\ value[l] > 0
  /\ value' = [value EXCEPT ![l] = @ - 1]
  /\ Goto(t, "set_holder", l)
  /\ UNCHANGED <<schedVars, waiters, holder, cond_waiters, slept>>

set_holder(t) ==
  /\ At(t, "set_holder")
  /\ holder' = [holder EXCEPT ![arg[t]] = t]
  /\ Goto(t, "run", NULL)
  /\ UNCHANGED <<schedVars, value, waiters, cond_waiters, slept>>

(* Mutant: anybody may release a lock that is held.                        *)
release_by_anybody(t, l) ==
  /\ At(t, "run")
  /\ holder[l] # NULL
  /\ holder' = [holder EXCEPT ![l] = NULL]
  /\ Goto(t, "lock_release", l)
  /\ UNCHANGED <<schedVars, value, waiters, cond_waiters, slept>>

lock_release(t, l) ==
  /\ At(t, "run")
  /\ holder[l] = t
  /\ holder' = [holder EXCEPT ![l] = NULL]
  /\ Goto(t, "lock_release", l)
  /\ UNCHANGED <<schedVars, value, waiters, cond_waiters, slept>>

lock_release_up(t) ==
  /\ At(t, "lock_release")
  /\ sema_up(arg[t])
  /\ Goto(t, "run", NULL)
  /\ UNCHANGED <<holder, cond_waiters, slept>>

-----------------------------------------------------------------------------
(* Condition variables.  The lock is held, so the waiter queue has one     *)
(* writer at a time.                                                       *)

cond_wait(t, c) ==
  /\ At(t, "run")
  /\ holder[lock_of[c]] = t
  /\ value' = [value EXCEPT ![t] = 0]
  /\ cond_waiters' = [cond_waiters EXCEPT ![c] = Append(@, t)]
  /\ holder' = [holder EXCEPT ![lock_of[c]] = NULL]
  /\ Goto(t, "cond_release", c)
  /\ UNCHANGED <<schedVars, waiters, slept>>

cond_release_up(t) ==
  /\ At(t, "cond_release")
  /\ sema_up(lock_of[arg[t]])
  /\ Goto(t, "cond_sleep", arg[t])
  /\ UNCHANGED <<holder, cond_waiters, slept>>

cond_sleep(t) ==
  /\ At(t, "cond_sleep")
  /\ sema_down(t, t, "cond_reacquire", arg[t], "ON")
  /\ UNCHANGED <<holder, cond_waiters>>

cond_reacquire(t) ==
  /\ At(t, "cond_reacquire")
  /\ sema_down(t, lock_of[arg[t]], "set_holder", lock_of[arg[t]], "ON")
  /\ UNCHANGED <<holder, cond_waiters>>

(* Mutant: the signalled waiter is left in the condition's queue.          *)
peek_waiter(t, c, again) ==
  /\ cond_waiters[c] # <<>>
  /\ Goto(t, "signal", [cond |-> c, to |-> Head(cond_waiters[c]), again |-> again])
  /\ UNCHANGED <<schedVars, value, waiters, holder, cond_waiters, slept>>

(* The waiter leaves the queue first and is woken in a later step; `again' *)
(* tells the loop of cond_broadcast() from a single cond_signal().         *)
pop_waiter(t, c, again) ==
  /\ cond_waiters[c] # <<>>
  /\ cond_waiters' = [cond_waiters EXCEPT ![c] = Tail(@)]
  /\ Goto(t, "signal", [cond |-> c, to |-> Head(cond_waiters[c]), again |-> again])
  /\ UNCHANGED <<schedVars, value, waiters, holder, slept>>

cond_signal(t, c) ==
  /\ At(t, "run")
  /\ holder[lock_of[c]] = t
  /\ pop_waiter(t, c, FALSE)

cond_broadcast(t, c) ==
  /\ At(t, "run")
  /\ holder[lock_of[c]] = t
  /\ pop_waiter(t, c, TRUE)

(* Mutant: the waiter is taken off the queue but not woken.                *)
signal_dropped(t) ==
  /\ At(t, "signal")
  /\ IF arg[t].again THEN Goto(t, "broadcast", arg[t].cond) ELSE Goto(t, "run", NULL)
  /\ UNCHANGED <<schedVars, value, waiters, holder, cond_waiters, slept>>

signal_up(t) ==
  /\ At(t, "signal")
  /\ sema_up(arg[t].to)
  /\ IF arg[t].again THEN Goto(t, "broadcast", arg[t].cond) ELSE Goto(t, "run", NULL)
  /\ UNCHANGED <<holder, cond_waiters, slept>>

broadcast_loop(t) ==
  /\ At(t, "broadcast")
  /\ \/ pop_waiter(t, arg[t], TRUE)
     \/ /\ cond_waiters[arg[t]] = <<>>
        /\ Goto(t, "run", NULL)
        /\ UNCHANGED <<schedVars, value, waiters, holder, cond_waiters, slept>>

-----------------------------------------------------------------------------
(* Threads, timer, idle loop.  A thread exits only outside the primitives  *)
(* and with no lock held.                                                  *)

create_thread(t, u) ==
  /\ At(t, "run")
  /\ init_thread(u)
  /\ pc' = [pc EXCEPT ![t] = "create", ![u] = "run"]
  /\ arg' = [arg EXCEPT ![t] = u, ![u] = NULL]
  /\ UNCHANGED <<value, waiters, holder, cond_waiters, slept>>

(* Mutant: the new thread is queued but not marked as ready.               *)
start_unmarked(t) ==
  /\ At(t, "create")
  /\ ready_list' = Append(ready_list, arg[t])
  /\ Goto(t, "run", NULL)
  /\ UNCHANGED <<current, status, thread_ticks, intr>>
  /\ UNCHANGED <<value, waiters, holder, cond_waiters, slept>>

start_thread(t) ==
  /\ At(t, "create")
  /\ thread_unblock(arg[t])
  /\ Goto(t, "run", NULL)
  /\ UNCHANGED <<value, waiters, holder, cond_waiters, slept>>

exit(t) ==
  /\ At(t, "run")
  /\ \A l \in Lock : holder[l] # t
  /\ thread_exit
  /\ UNCHANGED synchVars

yield(t) == At(t, "run") /\ thread_yield /\ UNCHANGED synchVars

timer_interrupt == thread_tick /\ UNCHANGED synchVars

restore_level == current \notin slept /\ intr_enable /\ UNCHANGED synchVars

idle == current = idle_thread /\ thread_block /\ UNCHANGED synchVars

(* What a thread does by itself to finish the primitive it is in.          *)
Finish(t) ==
  \/ do_sema_down(t) \/ lock_acquire_down(t) \/ set_holder(t)
  \/ lock_release_up(t)
  \/ cond_release_up(t) \/ cond_sleep(t) \/ cond_reacquire(t)
  \/ signal_up(t) \/ broadcast_loop(t)
  \/ start_thread(t)

Call(t) ==
  \/ \E s \in Semaphore : call_sema_down(t, s) \/ sema_try_down(t, s)
  \/ \E l \in Lock : lock_acquire(t, l) \/ lock_try_acquire(t, l) \/ lock_release(t, l)
  \/ \E c \in Condition : cond_wait(t, c) \/ cond_signal(t, c) \/ cond_broadcast(t, c)
  \/ \E u \in Thread : create_thread(t, u)
  \/ exit(t)
  \/ yield(t)

Next ==
  \/ \E t \in Thread : Call(t) \/ Finish(t)
  \/ \E s \in Semaphore : do_sema_up(s)
  \/ timer_interrupt
  \/ restore_level
  \/ idle

Spec == Init /\ [][Next]_vars

(* The timer keeps firing, and a time slice is long enough for the running *)
(* thread to execute something of the primitive it is in.  Nothing is      *)
(* assumed of the clients: none has to release, signal or even run.        *)
Fairness ==
  /\ SF_vars(timer_interrupt)
  /\ WF_vars(restore_level)
  /\ \A t \in Thread : SF_vars(Finish(t))

FairSpec == Spec /\ Fairness

-----------------------------------------------------------------------------
(* Properties *)

(* Types: no semaphore goes below zero, and a thread asleep in sema_down() *)
(* is in a primitive that calls it.                                        *)
TypeOK ==
  /\ SchedTypeOK
  /\ value \in [Sem -> Nat]
  /\ \A s \in Sem : waiters[s] \in Seq(Thread)
  /\ holder \in [Lock -> Thread \cup {NULL}]
  /\ \A c \in Condition : cond_waiters[c] \in Seq(Thread)
  /\ slept \subseteq Thread
  /\ \A t \in slept : SemaOf(t) \in Sem

NoDuplicates(q) == \A i, j \in DOMAIN q : i # j => q[i] # q[j]

(* `Only a thread in the blocked state is on a semaphore wait list'        *)
(* (thread.h:87), and the other way around: a thread asleep in sema_down() *)
(* is on the wait list of that very semaphore, once, and on no other; so   *)
(* thread_unblock()'s assertion holds in sema_up() and no sleeper is       *)
(* forgotten.                                                              *)
WaitListsExact ==
  \A s \in Sem :
    /\ NoDuplicates(waiters[s])
    /\ Elems(waiters[s]) =
         {t \in slept : status[t] = "BLOCKED" /\ SemaOf(t) = s}

(* Woken threads that have not yet looked at the semaphore's value again.  *)
Woken(s) == {t \in slept : status[t] # "BLOCKED" /\ SemaOf(t) = s}

(* No lost wakeup: wait lists are exact, and as long as somebody waits on  *)
(* a semaphore, every unit it holds has a woken thread coming for it,      *)
(* although sema_up() wakes one thread only and any other thread may take  *)
(* the unit first.                                                         *)
NoLostWakeup ==
  /\ TypeOK /\ WaitListsExact
  /\ \A s \in Sem : waiters[s] # <<>> => value[s] <= Cardinality(Woken(s))

(* Threads between the end of sema_down() and the start of sema_up() on a  *)
(* lock.  holder is stored after the former and cleared before the latter, *)
(* so it is NULL for a while on both sides.                                *)
InSection(t, l) ==
  \/ holder[l] = t
  \/ pc[t] \in {"set_holder", "lock_release"} /\ arg[t] = l
  \/ pc[t] = "cond_release" /\ lock_of[arg[t]] = l

(* `A lock can be held by at most a single thread at any given time'       *)
(* (synch.c:160), through preemption between the semaphore operation and   *)
(* the store of holder; and a free lock has exactly one unit.              *)
LockConserved ==
  \A l \in Lock :
    value[l] + Cardinality({t \in Thread : InSection(t, l)}) = 1

(* A thread in cond_wait() is queued, or about to be signalled, or has     *)
(* been signalled: exactly one of these, from the moment it releases the   *)
(* lock.  So no signal falls between lock_release() and sema_down(), and   *)
(* no semaphore on the stack of a thread that left cond_wait() is upped.   *)
SignalsExact ==
  /\ \A c \in Condition : NoDuplicates(cond_waiters[c])
  /\ \A t \in Thread :
       LET queued  == \E c \in Condition : t \in Elems(cond_waiters[c])
           pending == \E u \in Thread : pc[u] = "signal" /\ arg[u].to = t
       IN  IF pc[t] \in {"cond_release", "cond_sleep"}
           THEN \/ t \in Elems(cond_waiters[arg[t]]) /\ ~pending /\ value[t] = 0
                \/ ~queued /\ pending /\ value[t] = 0
                \/ ~queued /\ ~pending /\ value[t] = 1
           ELSE ~queued /\ ~pending /\ value[t] = 0

(* The steps of the primitives are steps of the scheduler.                 *)
RefinesScheduler == SchedSpec

(* What a lock promises: Mutex, with the section above as ownership.       *)
Abstract == INSTANCE Mutex WITH
  owner <- [l \in Lock |-> IF \E t \in Thread : InSection(t, l)
                           THEN CHOOSE t \in Thread : InSection(t, l)
                           ELSE NULL]

RefinesMutex == Abstract!MutexSpec

(* A semaphore or lock with a unit and a waiter does not stay that way:    *)
(* the woken thread gets to run and takes the unit, or somebody else has.  *)
UnitsAreTaken ==
  \A s \in Semaphore \cup Lock :
    (value[s] > 0 /\ waiters[s] # <<>>) ~> (value[s] = 0 \/ waiters[s] = <<>>)

(* A thread taken off a condition's queue gets out of its wait, whatever   *)
(* the other threads do.                                                   *)
SignalArrives ==
  \A t \in Thread \ {idle_thread} :
    /\ pc[t] = "cond_sleep"
    /\ t \notin Elems(cond_waiters[arg[t]])
    ~> pc[t] = "cond_reacquire"

(* Both: a wakeup by sema_up() or cond_signal() is not merely sent.        *)
WakeupsArrive == UnitsAreTaken /\ SignalArrives
=============================================================================
