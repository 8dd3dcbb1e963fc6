---------------------------- MODULE SynchProofs ----------------------------
(***************************************************************************)
(* The first half of the TLAPS proofs about Synch, for any threads,        *)
(* semaphores, locks and condition variables: the inductive invariant      *)
(* SynchInv, that the primitives are steps of the scheduler, that every    *)
(* step preserves the types and the lives of the threads, and that         *)
(* sema_up() and sema_down() preserve the wait lists.  MonitorProofs has   *)
(* the other steps, the locks, the conditions and the theorems.            *)
(***************************************************************************)
EXTENDS Synch, SchedulerProofs, FiniteSetTheorems

(* The places from which sema_down() is called.                            *)
SleepLabel == {"sema_down", "lock_acquire", "cond_sleep", "cond_reacquire"}

(* Where a thread can stand between two steps of the primitives.           *)
Label == {"run", "sema_down", "lock_acquire", "set_holder", "lock_release",
          "cond_release", "cond_sleep", "cond_reacquire", "broadcast",
          "signal", "create"}

(* Types of the primitives' own state, and of what a thread at each label  *)
(* works on.                                                               *)
DataExact ==
  /\ value \in [Sem -> Nat]
  /\ waiters \in [Sem -> Seq(Thread)]
  /\ holder \in [Lock -> Thread \cup {NULL}]
  /\ cond_waiters \in [Condition -> Seq(Thread)]

(* What a thread at each label works on: a semaphore, a lock, a condition, *)
(* the signal it delivers, or the thread it creates.                       *)
ArgFits(label, a) ==
  /\ label = "sema_down" => a \in Semaphore
  /\ label \in {"lock_acquire", "set_holder", "lock_release"} => a \in Lock
  /\ label \in {"cond_release", "cond_sleep", "cond_reacquire", "broadcast"}
       => a \in Condition
  /\ label = "signal" => a \in [cond : Condition, to : Thread, again : BOOLEAN]
  /\ label = "create" => a \in Thread

(* The types of the primitives' state and of every thread's position.      *)
StateExact ==
  /\ DataExact
  /\ pc \in [Thread -> Label]
  /\ arg = [t \in Thread |-> arg[t]]
  /\ \A t \in Thread : ArgFits(pc[t], arg[t])

(* Whoever is inside a primitive or holds a lock is alive; whoever sleeps  *)
(* is in sema_down(); a thread that is being created is blocked, has done  *)
(* nothing yet and has one creator.                                        *)
LifeExact ==
  /\ \A t \in Thread : pc[t] # "run" => Alive(t) /\ t # idle_thread
  /\ \A l \in Lock : holder[l] # NULL => Alive(holder[l]) /\ holder[l] # idle_thread
  /\ slept \subseteq {t \in Thread : pc[t] \in SleepLabel}
  /\ IsFiniteSet(slept)
  /\ \A t, u \in Thread :
       pc[t] = "create" =>
         /\ status[arg[t]] = "BLOCKED" /\ pc[arg[t]] = "run" /\ arg[t] # idle_thread
         /\ pc[u] = "create" /\ arg[u] = arg[t] => u = t

(* Every unit of a semaphore with waiters has a woken thread.              *)
WakeupExact ==
  \A s \in Sem : waiters[s] # <<>> => value[s] <= Cardinality(Woken(s))

(* The part of a section in which holder is not set.                       *)
InWindow(t, l) ==
  \/ pc[t] \in {"set_holder", "lock_release"} /\ arg[t] = l
  \/ pc[t] = "cond_release" /\ lock_of[arg[t]] = l

(* A lock has its unit and nobody in its section, or no unit and one       *)
(* thread in its section, which holds it outside the windows.              *)
SectionExact ==
  \A l \in Lock :
    /\ \/ value[l] = 1 /\ \A t \in Thread : ~InSection(t, l)
       \/ value[l] = 0 /\ \E t \in Thread : InSection(t, l)
    /\ \A t, u \in Thread : InSection(t, l) /\ InSection(u, l) => t = u
    /\ \A t \in Thread : InWindow(t, l) => holder[l] = NULL

(* A queued waiter waits for that condition and is in no other queue; no   *)
(* waiter is being signalled twice.                                        *)
QueueExact ==
  /\ \A c \in Condition : \A t \in Elems(cond_waiters[c]) :
       pc[t] \in {"cond_release", "cond_sleep"} /\ arg[t] = c
  /\ \A t, u \in Thread :
       pc[t] = "signal" /\ pc[u] = "signal" /\ arg[t].to = arg[u].to => t = u

(* The inductive invariant of synch.c.                                     *)
SynchInv ==
  /\ SchedInv /\ StateExact /\ LifeExact
  /\ WaitListsExact /\ WakeupExact
  /\ SectionExact
  /\ QueueExact /\ SignalsExact

-----------------------------------------------------------------------------
(* Types, and steps of the scheduler. *)

(* The semaphore a thread sleeps on is the one its place in the primitives *)
(* names: its argument, its lock's, its condition's lock's or its own.     *)
LEMMA SemaOfIs ==
  ASSUME StateExact, NEW t \in Thread
  PROVE  /\ pc[t] \in {"sema_down", "lock_acquire"} => SemaOf(t) = arg[t]
         /\ pc[t] = "cond_sleep" => SemaOf(t) = t
         /\ pc[t] = "cond_reacquire" => SemaOf(t) = lock_of[arg[t]]
         /\ pc[t] \in SleepLabel => SemaOf(t) \in Sem
BY SynchAssumption DEF SemaOf, StateExact, ArgFits, SleepLabel, Sem

(* The thread that takes a step runs and is not on any queue.              *)
LEMMA ExecutesFacts ==
  ASSUME SchedInv, NEW t \in Thread, Executes(t)
  PROVE  /\ current = t
         /\ t # idle_thread
         /\ status[t] = "RUNNING"
         /\ Alive(t)
BY DEF Executes, SchedInv, OneRunning, Alive

(* A thread at a label from which sema_down() is not called is not asleep, *)
(* so it has restored its interrupt level.                                 *)
LEMMA AtFacts ==
  ASSUME LifeExact, NEW t \in Thread, NEW label, label \notin SleepLabel, At(t, label)
  PROVE  t \notin slept /\ intr = "ON"
BY DEF LifeExact, At, Executes

(* sema_up() is a thread_unblock() or leaves the scheduler alone.          *)
LEMMA SemaUpSched ==
  ASSUME SchedInv, StateExact, NEW s \in Sem, sema_up(s)
  PROVE  [SchedNext]_schedVars
<1>1. CASE waiters[s] # <<>> /\ thread_unblock(Head(waiters[s]))
  <2>1. waiters[s] \in Seq(Thread)
    BY DEF StateExact, DataExact
  <2>2. Head(waiters[s]) \in Thread
    BY <1>1, <2>1
  <2>3. QED
    BY <1>1, <2>2 DEF SchedNext
<1>2. CASE UNCHANGED schedVars
  BY <1>2
<1>3. QED
  BY <1>1, <1>2 DEF sema_up, schedVars

(* sema_down() is a thread_block() or leaves the threads alone.            *)
LEMMA SemaDownSched ==
  ASSUME SchedInv, NEW t, NEW s, NEW label, NEW a, sema_down(t, s, label, a, "ON")
  PROVE  [SchedNext]_schedVars
<1>1. CASE thread_block
  BY <1>1 DEF SchedNext
<1>2. CASE intr' = "ON" /\ UNCHANGED <<current, status, ready_list, thread_ticks>>
  BY <1>2 DEF SchedNext, schedVars, SchedInv, SchedTypeOK, intr_enable
<1>3. QED
  BY <1>1, <1>2 DEF sema_down

(* Every step of the primitives is a step of the scheduler, or leaves it   *)
(* as it is.                                                               *)
LEMMA NextSched == SchedInv /\ StateExact /\ [Next]_vars => [SchedNext]_schedVars
<1> SUFFICES ASSUME SchedInv, StateExact, [Next]_vars
             PROVE  [SchedNext]_schedVars
  OBVIOUS
<1>1. ASSUME NEW t \in Thread, Call(t)
      PROVE  [SchedNext]_schedVars
  <2>1. ASSUME NEW u \in Thread, create_thread(t, u)
        PROVE  [SchedNext]_schedVars
    BY <2>1 DEF create_thread, SchedNext
  <2>2. CASE exit(t) \/ yield(t)
    BY <2>2 DEF exit, yield, SchedNext
  <2>3. CASE UNCHANGED schedVars
    BY <2>3
  <2>4. QED
    BY Zenon, <1>1, <2>1, <2>2, <2>3
    DEF Call, call_sema_down, sema_try_down, lock_acquire, lock_try_acquire,
        lock_release, cond_wait, cond_signal, cond_broadcast, pop_waiter
<1>2. ASSUME NEW t \in Thread, Finish(t)
      PROVE  [SchedNext]_schedVars
  <2>1. ASSUME NEW s \in Sem, sema_up(s)
        PROVE  [SchedNext]_schedVars
    BY <2>1, SemaUpSched
  <2>2. ASSUME NEW s, NEW label, NEW a, sema_down(t, s, label, a, "ON")
        PROVE  [SchedNext]_schedVars
    BY <2>2, SemaDownSched
  <2>3. CASE do_sema_down(t) \/ lock_acquire_down(t) \/ cond_sleep(t) \/ cond_reacquire(t)
    BY <2>2, <2>3 DEF do_sema_down, lock_acquire_down, cond_sleep, cond_reacquire
  <2>4. CASE lock_release_up(t) \/ cond_release_up(t) \/ signal_up(t)
    <3>1. /\ pc[t] = "lock_release" => arg[t] \in Sem
          /\ pc[t] = "cond_release" => lock_of[arg[t]] \in Sem
          /\ pc[t] = "signal" => arg[t].to \in Sem
      BY SynchAssumption DEF StateExact, ArgFits, Sem
    <3>2. QED
      BY <2>1, <2>4, <3>1 DEF lock_release_up, cond_release_up, signal_up, At
  <2>5. CASE start_thread(t)
    <3>1. arg[t] \in Thread
      BY <2>5 DEF start_thread, At, StateExact, ArgFits
    <3>2. QED
      BY <2>5, <3>1 DEF start_thread, SchedNext
  <2>6. CASE set_holder(t) \/ broadcast_loop(t)
    BY <2>6 DEF set_holder, broadcast_loop, pop_waiter
  <2>7. QED
    BY <1>2, <2>3, <2>4, <2>5, <2>6 DEF Finish
<1>3. ASSUME NEW s \in Semaphore, do_sema_up(s)
      PROVE  [SchedNext]_schedVars
  BY <1>3, SemaUpSched DEF do_sema_up, Sem
<1>4. CASE timer_interrupt \/ restore_level \/ idle
  BY <1>4 DEF timer_interrupt, restore_level, idle, SchedNext
<1>5. CASE UNCHANGED vars
  BY <1>5 DEF vars
<1>6. QED
  BY <1>1, <1>2, <1>3, <1>4, <1>5 DEF Next

(* A thread moves to a label with something that fits it.                  *)
LEMMA GotoState ==
  ASSUME StateExact, NEW t \in Thread, NEW label \in Label, NEW a,
         Goto(t, label, a), ArgFits(label, a), DataExact'
  PROVE  StateExact'
BY DEF StateExact, Goto, ArgFits

(* sema_down() preserves the types, whichever way it goes.                 *)
LEMMA SemaDownState ==
  ASSUME StateExact, NEW t \in Thread, NEW s \in Sem, NEW label \in Label, NEW a,
         ArgFits(label, a), sema_down(t, s, label, a, "ON"),
         UNCHANGED <<holder, cond_waiters>>
  PROVE  StateExact'
<1>1. CASE /\ waiters' = [waiters EXCEPT ![s] = Append(@, t)]
           /\ UNCHANGED <<value, pc, arg>>
  <2>1. Append(waiters[s], t) \in Seq(Thread)
    BY DEF StateExact, DataExact
  <2>2. QED
    BY <1>1, <2>1 DEF StateExact, DataExact, ArgFits
<1>2. CASE /\ value[s] > 0
           /\ value' = [value EXCEPT ![s] = @ - 1]
           /\ Goto(t, label, a)
           /\ UNCHANGED waiters
  <2>1. DataExact'
    BY <1>2 DEF StateExact, DataExact
  <2>2. QED
    BY <1>2, <2>1, GotoState
<1>3. QED
  BY <1>1, <1>2 DEF sema_down

(* sema_up() preserves the types: it pops a waiter and adds a unit.        *)
LEMMA SemaUpData ==
  ASSUME DataExact, NEW s \in Sem, sema_up(s), UNCHANGED <<holder, cond_waiters>>
  PROVE  DataExact'
<1>1. value' \in [Sem -> Nat]
  BY DEF DataExact, sema_up
<1>2. CASE waiters[s] # <<>> /\ waiters' = [waiters EXCEPT ![s] = Tail(@)]
  <2>1. Tail(waiters[s]) \in Seq(Thread)
    BY <1>2 DEF DataExact
  <2>2. QED
    BY <1>1, <1>2, <2>1 DEF DataExact
<1>3. CASE UNCHANGED waiters
  BY <1>1, <1>3 DEF DataExact
<1>4. QED
  BY <1>2, <1>3 DEF sema_up

(* cond_signal() takes the first waiter of a condition off its list.       *)
LEMMA PopState ==
  ASSUME StateExact, NEW t \in Thread, NEW c \in Condition, NEW again \in BOOLEAN,
         pop_waiter(t, c, again)
  PROVE  StateExact'
<1>1. /\ cond_waiters[c] \in Seq(Thread)
      /\ cond_waiters[c] # <<>>
  BY DEF StateExact, DataExact, pop_waiter
<1>2. Head(cond_waiters[c]) \in Thread /\ Tail(cond_waiters[c]) \in Seq(Thread)
  BY <1>1
<1>3. DataExact'
  BY <1>2 DEF StateExact, DataExact, pop_waiter
<1>4. QED
  BY <1>2, <1>3, GotoState DEF pop_waiter, ArgFits, Label

(* Every step preserves the types.                                         *)
LEMMA StateStep ==
  ASSUME SchedInv, StateExact, [Next]_vars
  PROVE  StateExact'
<1> USE SynchAssumption
<1>1. \A t \in Thread : ArgFits(pc[t], arg[t])
  BY DEF StateExact
<1>2. ASSUME NEW t \in Thread, NEW label \in Label, NEW a, Goto(t, label, a),
             ArgFits(label, a), UNCHANGED <<value, waiters, holder, cond_waiters>>
      PROVE  StateExact'
  BY Zenon, <1>2, GotoState DEF StateExact, DataExact
<1>3. CASE UNCHANGED synchVars
  BY <1>3 DEF synchVars, StateExact, DataExact, ArgFits
<1>4. ASSUME NEW t \in Thread, Call(t)
      PROVE  StateExact'
  <2>1. ASSUME NEW s \in Semaphore, call_sema_down(t, s)
        PROVE  StateExact'
    BY <1>2, <2>1 DEF call_sema_down, ArgFits, Label
  <2>2. ASSUME NEW s \in Semaphore, sema_try_down(t, s)
        PROVE  StateExact'
    BY <2>2 DEF sema_try_down, StateExact, DataExact, ArgFits, Sem
  <2>3. ASSUME NEW l \in Lock, lock_acquire(t, l)
        PROVE  StateExact'
    BY <1>2, <2>3 DEF lock_acquire, ArgFits, Label
  <2>4. ASSUME NEW l \in Lock, lock_try_acquire(t, l)
        PROVE  StateExact'
    <3>1. DataExact'
      BY <2>4 DEF lock_try_acquire, StateExact, DataExact, Sem
    <3>2. QED
      BY <2>4, <3>1, GotoState DEF lock_try_acquire, ArgFits, Label
  <2>5. ASSUME NEW l \in Lock, lock_release(t, l)
        PROVE  StateExact'
    <3>1. DataExact'
      BY <2>5 DEF lock_release, StateExact, DataExact
    <3>2. QED
      BY <2>5, <3>1, GotoState DEF lock_release, ArgFits, Label
  <2>6. ASSUME NEW c \in Condition, cond_wait(t, c)
        PROVE  StateExact'
    <3>1. cond_waiters[c] \in Seq(Thread)
      BY DEF StateExact, DataExact
    <3>2. Append(cond_waiters[c], t) \in Seq(Thread)
      BY <3>1
    <3>3. DataExact'
      BY Zenon, <2>6, <3>2 DEF cond_wait, StateExact, DataExact
    <3>4. QED
      BY <2>6, <3>3, GotoState DEF cond_wait, ArgFits, Label
  <2>7. ASSUME NEW c \in Condition, cond_signal(t, c) \/ cond_broadcast(t, c)
        PROVE  StateExact'
    BY Zenon, <2>7, PopState DEF cond_signal, cond_broadcast
  <2>8. ASSUME NEW u \in Thread, create_thread(t, u)
        PROVE  StateExact'
    <3>1. DataExact'
      BY <2>8 DEF create_thread, StateExact, DataExact
    <3>2. /\ pc' = [pc EXCEPT ![t] = "create", ![u] = "run"]
          /\ arg' = [arg EXCEPT ![t] = u, ![u] = NULL]
      BY <2>8 DEF create_thread
    <3>3. pc' \in [Thread -> Label] /\ arg' = [v \in Thread |-> arg'[v]]
      BY Zenon, <3>2 DEF StateExact, Label
    <3>4. ASSUME NEW v \in Thread
          PROVE  ArgFits(pc'[v], arg'[v])
      <4>1. \/ pc'[v] = pc[v] /\ arg'[v] = arg[v]
            \/ pc'[v] = "run"
            \/ pc'[v] = "create" /\ arg'[v] = u
        BY <3>2 DEF StateExact
      <4>2. QED
        BY <1>1, <4>1 DEF ArgFits
    <3>5. QED
      BY <3>1, <3>3, <3>4 DEF StateExact, ArgFits
  <2>9. CASE exit(t) \/ yield(t)
    BY <1>3, <2>9 DEF exit, yield
  <2>10. QED
    BY ZenonT(40), <1>4, <2>1, <2>2, <2>3, <2>4, <2>5, <2>6, <2>7, <2>8, <2>9 DEF Call
<1>5. ASSUME NEW t \in Thread, Finish(t)
      PROVE  StateExact'
  <2>1. CASE do_sema_down(t)
    <3>1. arg[t] \in Sem
      BY <1>1, <2>1 DEF do_sema_down, At, ArgFits, Sem
    <3>2. QED
      BY <2>1, <3>1, SemaDownState DEF do_sema_down, ArgFits, Label
  <2>2. CASE lock_acquire_down(t)
    <3>1. arg[t] \in Sem /\ arg[t] \in Lock
      BY <1>1, <2>2 DEF lock_acquire_down, At, ArgFits, Sem
    <3>2. QED
      BY <2>2, <3>1, SemaDownState DEF lock_acquire_down, ArgFits, Label
  <2>3. CASE set_holder(t)
    <3>1. DataExact'
      BY Zenon, <2>3 DEF set_holder, StateExact, DataExact
    <3>2. QED
      BY <2>3, <3>1, GotoState DEF set_holder, ArgFits, Label
  <2>4. CASE lock_release_up(t)
    <3>1. arg[t] \in Sem
      BY <1>1, <2>4 DEF lock_release_up, At, ArgFits, Sem
    <3>2. DataExact'
      BY <2>4, <3>1, SemaUpData DEF lock_release_up, StateExact
    <3>3. QED
      BY <2>4, <3>2, GotoState DEF lock_release_up, ArgFits, Label
  <2>5. CASE cond_release_up(t)
    <3>1. arg[t] \in Condition /\ lock_of[arg[t]] \in Sem
      BY <1>1, <2>5 DEF cond_release_up, At, ArgFits, Sem
    <3>2. DataExact'
      BY <2>5, <3>1, SemaUpData DEF cond_release_up, StateExact
    <3>3. QED
      BY <2>5, <3>1, <3>2, GotoState DEF cond_release_up, ArgFits, Label
  <2>6. CASE cond_sleep(t)
    <3>1. t \in Sem /\ arg[t] \in Condition
      BY <1>1, <2>6 DEF cond_sleep, At, ArgFits, Sem
    <3>2. QED
      BY <2>6, <3>1, SemaDownState DEF cond_sleep, ArgFits, Label
  <2>7. CASE cond_reacquire(t)
    <3>1. arg[t] \in Condition /\ lock_of[arg[t]] \in Sem /\ lock_of[arg[t]] \in Lock
      BY <1>1, <2>7 DEF cond_reacquire, At, ArgFits, Sem
    <3>2. QED
      BY <2>7, <3>1, SemaDownState DEF cond_reacquire, ArgFits, Label
  <2>8. CASE signal_up(t)
    <3>1. arg[t].to \in Sem /\ arg[t].cond \in Condition
      BY <1>1, <2>8 DEF signal_up, At, ArgFits, Sem
    <3>2. DataExact'
      BY <2>8, <3>1, SemaUpData DEF signal_up, StateExact
    <3>3. QED
      BY <2>8, <3>1, <3>2, GotoState DEF signal_up, ArgFits, Label
  <2>9. CASE broadcast_loop(t)
    <3>1. arg[t] \in Condition
      BY <1>1, <2>9 DEF broadcast_loop, At, ArgFits
    <3>2. QED
      BY Zenon, <1>2, <2>9, <3>1, PopState DEF broadcast_loop, ArgFits, Label
  <2>10. CASE start_thread(t)
    BY <1>2, <2>10 DEF start_thread, ArgFits, Label
  <2>11. QED
    BY ZenonT(40), <1>5, <2>1, <2>2, <2>3, <2>4, <2>5, <2>6, <2>7, <2>8, <2>9, <2>10 DEF Finish
<1>6. ASSUME NEW s \in Semaphore, do_sema_up(s)
      PROVE  StateExact'
  <2>1. DataExact'
    BY <1>6, SemaUpData DEF do_sema_up, StateExact, Sem
  <2>2. QED
    BY <1>6, <2>1 DEF do_sema_up, StateExact, ArgFits
<1>7. CASE timer_interrupt \/ restore_level \/ idle
  BY <1>3, <1>7 DEF timer_interrupt, restore_level, idle
<1>8. QED
  BY <1>3, <1>4, <1>5, <1>6, <1>7 DEF Next, vars

-----------------------------------------------------------------------------
(* Who is alive. *)

(* Steps in which the running thread t, or an interrupt handler while it   *)
(* runs, wakes nobody but sleepers and kills nobody.                       *)
LEMMA LifeFrame ==
  ASSUME SchedInv, StateExact, StateExact', LifeExact,
         NEW t \in Thread, t = current,
         t = idle_thread => UNCHANGED <<pc, arg, holder>>,
         \A u \in Thread \ {idle_thread} : Alive(u) => (Alive(u))',
         \A u \in Thread \ {idle_thread} :
           u \notin slept /\ u # t /\ status[u] = "BLOCKED" => status'[u] = "BLOCKED",
         \A u \in Thread \ {t} : pc'[u] = pc[u] /\ arg'[u] = arg[u],
         pc'[t] = "create" => pc[t] = "create" /\ arg'[t] = arg[t],
         \A l \in Lock : holder'[l] \in {holder[l], NULL, t},
         slept' \subseteq slept \cup {t},
         t \in slept' => pc'[t] \in SleepLabel
  PROVE  LifeExact'
<1>1. status[t] = "RUNNING" /\ Alive(t)
  BY DEF SchedInv, OneRunning, Alive
<1>2. \A u \in Thread : pc'[u] # "run" => (Alive(u))' /\ u # idle_thread
  BY <1>1 DEF LifeExact
<1>3. \A l \in Lock : holder[l] \in Thread \cup {NULL} /\ holder'[l] \in Thread \cup {NULL}
  BY DEF StateExact, DataExact
<1>4. ASSUME NEW l \in Lock, holder'[l] # NULL
      PROVE  (Alive(holder[l]))' /\ holder'[l] # idle_thread
  <2>1. ASSUME NEW h \in Thread, h = holder'[l]
        PROVE  (Alive(h))' /\ h # idle_thread
    <3>1. CASE h = t
      <4>1. t # idle_thread
        <5>1. holder' = holder => holder[l] # idle_thread
          BY <1>4 DEF LifeExact
        <5>2. QED
          BY Zenon, <2>1, <3>1, <5>1
      <4>2. QED
        BY <1>1, <3>1, <4>1
    <3>2. CASE h = holder[l]
      BY <1>4, <2>1, <3>2 DEF LifeExact
    <3>3. QED
      BY <1>4, <2>1, <3>1, <3>2
  <2>2. QED
    BY <1>3, <1>4, <2>1 DEF Alive
<1>5. slept' \subseteq {u \in Thread : pc'[u] \in SleepLabel}
  BY DEF LifeExact
<1>6. IsFiniteSet(slept')
  <2>1. IsFiniteSet(slept \cup {t})
    BY FS_AddElement DEF LifeExact
  <2>2. QED
    BY <2>1, FS_Subset
<1>7. ASSUME NEW c \in Thread, pc'[c] = "create"
      PROVE  /\ pc[c] = "create" /\ arg'[c] = arg[c]
             /\ status'[arg'[c]] = "BLOCKED" /\ pc'[arg'[c]] = "run"
             /\ arg'[c] # idle_thread
  <2>1. pc[c] = "create" /\ arg'[c] = arg[c]
    BY <1>7
  <2>2. arg[c] \in Thread
    BY <2>1 DEF StateExact, ArgFits
  <2>3. /\ status[arg[c]] = "BLOCKED" /\ pc[arg[c]] = "run" /\ arg[c] # idle_thread
    BY <2>1 DEF LifeExact
  <2>4. arg[c] # t /\ arg[c] \notin slept
    BY <1>1, <2>3 DEF LifeExact, SleepLabel
  <2>5. QED
    BY <2>1, <2>2, <2>3, <2>4
<1>8. QED
  BY <1>2, <1>4, <1>5, <1>6, <1>7 DEF LifeExact

(* Steps that leave the scheduler alone.                                   *)
LEMMA QuietLife ==
  ASSUME SchedInv, StateExact, StateExact', LifeExact,
         NEW t \in Thread, Executes(t), UNCHANGED <<schedVars, slept>>, t \notin slept,
         NEW label, label # "create", NEW a, Goto(t, label, a),
         \A l \in Lock : holder'[l] \in {holder[l], NULL, t}
  PROVE  LifeExact'
<1>1. /\ \A u \in Thread : Alive(u) => (Alive(u))'
      /\ \A u \in Thread : status[u] = "BLOCKED" => status'[u] = "BLOCKED"
  BY DEF Alive, schedVars
<1>2. /\ \A u \in Thread \ {t} : pc'[u] = pc[u] /\ arg'[u] = arg[u]
      /\ pc'[t] = label
  BY DEF Goto, StateExact
<1>3. t = current /\ t # idle_thread
  BY ExecutesFacts
<1>4. QED
  BY <1>1, <1>2, <1>3, LifeFrame

(* Steps of the scheduler alone, other than the exit of a thread.          *)
LEMMA IdleLife ==
  ASSUME SchedInv, StateExact, StateExact', LifeExact,
         UNCHANGED <<pc, arg, holder, slept>>,
         \A u \in Thread \ {idle_thread} : Alive(u) => (Alive(u))',
         \A u \in Thread \ {idle_thread} :
           u \notin slept /\ u # current /\ status[u] = "BLOCKED" => status'[u] = "BLOCKED"
  PROVE  LifeExact'
<1>1. current \in Thread
  BY DEF SchedInv, SchedTypeOK
<1>2. QED
  BY <1>1, LifeFrame DEF LifeExact

(* sema_up() wakes one sleeper of the semaphore, and nobody who is being   *)
(* created.                                                                *)
LEMMA SemaUpStatus ==
  ASSUME SchedInv, StateExact, LifeExact, WaitListsExact, NEW s \in Sem, sema_up(s)
  PROVE  /\ \A u \in Thread : Alive(u) => (Alive(u))'
         /\ \A u \in Thread : u \notin slept /\ status[u] = "BLOCKED" => status'[u] = "BLOCKED"
<1>1. CASE waiters[s] # <<>> /\ thread_unblock(Head(waiters[s]))
  <2>1. waiters[s] \in Seq(Thread) /\ Head(waiters[s]) \in Elems(waiters[s])
    <3>1. waiters[s] \in Seq(Thread)
      BY DEF StateExact, DataExact
    <3>2. Head(waiters[s]) = waiters[s][1] /\ 1 \in DOMAIN waiters[s]
      BY <1>1, <3>1
    <3>3. QED
      BY <3>1, <3>2 DEF Elems
  <2>2. Head(waiters[s]) \in slept /\ Head(waiters[s]) \in Thread
    BY Zenon, <2>1, ElemsType DEF WaitListsExact
  <2>3. status' = [status EXCEPT ![Head(waiters[s])] = "READY"]
    BY <1>1 DEF thread_unblock
  <2>4. QED
    BY <2>2, <2>3 DEF Alive, SchedInv, SchedTypeOK
<1>2. CASE UNCHANGED schedVars
  BY ZenonT(40), <1>2 DEF schedVars, Alive
<1>3. QED
  BY <1>1, <1>2 DEF sema_up, schedVars

(* A sema_up() inside a primitive preserves LifeExact.                     *)
LEMMA SemaUpLife ==
  ASSUME SchedInv, StateExact, StateExact', LifeExact, WaitListsExact,
         NEW t \in Thread, Executes(t), t \notin slept, NEW s \in Sem, sema_up(s),
         NEW label, label # "create", NEW a, Goto(t, label, a),
         UNCHANGED <<slept, holder>>
  PROVE  LifeExact'
<1>1. /\ \A u \in Thread \ {t} : pc'[u] = pc[u] /\ arg'[u] = arg[u]
      /\ pc'[t] = label
  BY DEF Goto, StateExact
<1>2. t = current /\ t # idle_thread
  BY ExecutesFacts
<1>3. QED
  BY <1>1, <1>2, SemaUpStatus, LifeFrame

(* A sema_down() preserves LifeExact: the thread goes to sleep or returns. *)
LEMMA SemaDownLife ==
  ASSUME SchedInv, StateExact, StateExact', LifeExact,
         NEW t \in Thread, Executes(t), pc[t] \in SleepLabel, NEW s \in Sem,
         NEW label, label # "create", NEW a, sema_down(t, s, label, a, "ON"),
         UNCHANGED holder
  PROVE  LifeExact'
<1>1. t = current /\ t # idle_thread
  BY ExecutesFacts
<1>2. CASE slept' = slept \cup {t} /\ thread_block /\ UNCHANGED <<pc, arg>>
  <2>1. /\ \A u \in Thread \ {idle_thread} : Alive(u) => (Alive(u))'
        /\ \A u \in Thread \ {idle_thread} : status[u] = "BLOCKED" => status'[u] = "BLOCKED"
    BY ZenonT(40), <1>2, BlockStatus
  <2>2. QED
    BY ZenonT(40), <1>1, <1>2, <2>1, LifeFrame
<1>3. CASE slept' = slept \ {t} /\ Goto(t, label, a) /\ UNCHANGED status
  <2>1. /\ \A u \in Thread \ {t} : pc'[u] = pc[u] /\ arg'[u] = arg[u]
        /\ pc'[t] = label
    BY <1>3 DEF Goto, StateExact
  <2>2. QED
    BY <1>1, <1>3, <2>1, LifeFrame DEF Alive
<1>4. QED
  BY <1>2, <1>3 DEF sema_down

(* The semaphore of each step that calls sema_down() or sema_up().         *)
LEMMA SemaphoresOfSteps ==
  ASSUME StateExact, NEW t \in Thread
  PROVE  /\ pc[t] \in {"sema_down", "lock_acquire", "lock_release"} => arg[t] \in Sem
         /\ pc[t] \in {"lock_acquire", "lock_release", "set_holder"} => arg[t] \in Lock
         /\ pc[t] \in {"cond_release", "cond_reacquire"} =>
              lock_of[arg[t]] \in Sem /\ lock_of[arg[t]] \in Lock
         /\ pc[t] = "cond_sleep" => t \in Sem
         /\ pc[t] = "signal" => arg[t].to \in Sem /\ arg[t].to \in Thread
BY Zenon, SynchAssumption DEF StateExact, ArgFits, Sem

(* thread_create() takes a thread that does not exist, blocks it and       *)
(* becomes its only creator.                                               *)
LEMMA CreateLife ==
  ASSUME SchedInv, StateExact, StateExact', LifeExact,
         NEW t \in Thread, NEW u \in Thread, create_thread(t, u)
  PROVE  LifeExact'
<1>1. /\ t # idle_thread /\ status[t] = "RUNNING" /\ pc[t] = "run" /\ t \notin slept
      /\ status[u] = "NONE"
      /\ status' = [status EXCEPT ![u] = "BLOCKED"]
      /\ UNCHANGED <<holder, slept>>
      /\ status \in [Thread -> ThreadStatus]
  BY ExecutesFacts, AtFacts
  DEF create_thread, init_thread, At, SchedInv, SchedTypeOK, SleepLabel
<1>2. u # t /\ u # idle_thread /\ pc[u] = "run"
  BY <1>1 DEF LifeExact, Alive, SchedInv, DeadStayDead
<1>3. /\ pc'[t] = "create" /\ arg'[t] = u /\ pc'[u] = "run"
      /\ \A v \in Thread \ {t} : pc'[v] = pc[v]
      /\ \A v \in Thread \ {t, u} : arg'[v] = arg[v]
  BY <1>2 DEF create_thread, StateExact
<1>4. \A v \in Thread : Alive(v) => (Alive(v))'
  BY <1>1 DEF Alive
<1>5. \A v \in Thread : pc'[v] # "run" => (Alive(v))' /\ v # idle_thread
  BY <1>1, <1>3, <1>4 DEF LifeExact, Alive
<1>6. \A l \in Lock : holder'[l] # NULL => (Alive(holder[l]))' /\ holder'[l] # idle_thread
  BY Zenon, <1>1, <1>4 DEF LifeExact, Alive, StateExact, DataExact
<1>7. slept' \subseteq {v \in Thread : pc'[v] \in SleepLabel} /\ IsFiniteSet(slept')
  BY <1>1, <1>3 DEF LifeExact
<1>8. ASSUME NEW c \in Thread, pc'[c] = "create", c # t
      PROVE  /\ pc[c] = "create" /\ arg'[c] = arg[c] /\ arg[c] # u
             /\ status'[arg[c]] = "BLOCKED" /\ pc'[arg[c]] = "run"
             /\ arg[c] # idle_thread
  <2>1. pc[c] = "create" /\ arg'[c] = arg[c]
    BY <1>2, <1>3, <1>8
  <2>2. arg[c] \in Thread
    BY <2>1 DEF StateExact, ArgFits
  <2>3. status[arg[c]] = "BLOCKED" /\ pc[arg[c]] = "run" /\ arg[c] # idle_thread
    BY <2>1 DEF LifeExact
  <2>4. QED
    BY ZenonT(40), <1>1, <1>3, <2>1, <2>2, <2>3
<1>9. ASSUME NEW c \in Thread, NEW d \in Thread, pc'[c] = "create"
      PROVE  /\ status'[arg'[c]] = "BLOCKED" /\ pc'[arg'[c]] = "run" /\ arg'[c] # idle_thread
             /\ pc'[d] = "create" /\ arg'[d] = arg'[c] => d = c
  <2>1. status'[u] = "BLOCKED"
    BY <1>1
  <2>2. CASE c = t
    BY <1>2, <1>3, <1>8, <2>1, <2>2
  <2>3. CASE c # t
    <3>1. CASE d = t
      BY ZenonT(40), <1>3, <1>8, <1>9, <2>3, <3>1
    <3>2. CASE d # t
      BY SMTT(40), <1>8, <1>9, <2>3, <3>2 DEF LifeExact
    <3>3. QED
      BY <3>1, <3>2
  <2>4. QED
    BY <2>2, <2>3
<1>10. QED
  BY ZenonT(40), <1>5, <1>6, <1>7, <1>9 DEF LifeExact

(* The thread_unblock() at the end of thread_create() makes the new thread *)
(* ready, and nobody creates it any longer.                                *)
LEMMA StartLife ==
  ASSUME SchedInv, StateExact, StateExact', LifeExact, NEW t \in Thread, start_thread(t)
  PROVE  LifeExact'
<1>1. /\ t # idle_thread /\ status[t] = "RUNNING" /\ pc[t] = "create" /\ arg[t] \in Thread
      /\ status' = [status EXCEPT ![arg[t]] = "READY"]
      /\ UNCHANGED <<holder, slept>>
      /\ status \in [Thread -> ThreadStatus]
  BY ExecutesFacts
  DEF start_thread, thread_unblock, At, SchedInv, SchedTypeOK, StateExact, ArgFits
<1>2. /\ pc'[t] = "run"
      /\ \A v \in Thread \ {t} : pc'[v] = pc[v] /\ arg'[v] = arg[v]
  BY DEF start_thread, Goto, StateExact
<1>3. \A v \in Thread : Alive(v) => (Alive(v))'
  BY <1>1 DEF Alive
<1>4. \A v \in Thread : pc'[v] # "run" => (Alive(v))' /\ v # idle_thread
  BY <1>2, <1>3 DEF LifeExact
<1>5. \A l \in Lock : holder'[l] # NULL => (Alive(holder[l]))' /\ holder'[l] # idle_thread
  BY Zenon, <1>1, <1>3 DEF LifeExact, Alive, StateExact, DataExact
<1>6. slept' \subseteq {v \in Thread : pc'[v] \in SleepLabel} /\ IsFiniteSet(slept')
  BY ZenonT(40), <1>1, <1>2 DEF LifeExact, SleepLabel
<1>7. ASSUME NEW c \in Thread, pc'[c] = "create"
      PROVE  /\ pc[c] = "create" /\ arg'[c] = arg[c]
             /\ status'[arg[c]] = "BLOCKED" /\ pc'[arg[c]] = "run" /\ arg[c] # idle_thread
  <2>1. c # t /\ pc[c] = "create" /\ arg'[c] = arg[c]
    BY <1>2, <1>7
  <2>2. arg[c] \in Thread /\ arg[c] # arg[t]
    BY <1>1, <2>1 DEF LifeExact, StateExact, ArgFits
  <2>3. status[arg[c]] = "BLOCKED" /\ pc[arg[c]] = "run" /\ arg[c] # idle_thread
    BY <2>1 DEF LifeExact
  <2>4. QED
    BY <1>1, <1>2, <2>1, <2>2, <2>3
<1>8. QED
  BY <1>4, <1>5, <1>6, <1>7 DEF LifeExact

(* A thread that exits is in no primitive and holds no lock.               *)
LEMMA ExitLife ==
  ASSUME SchedInv, StateExact, LifeExact, NEW t \in Thread, exit(t)
  PROVE  LifeExact'
<1>1. t # idle_thread /\ t = current /\ pc[t] = "run" /\ \A l \in Lock : holder[l] # t
  BY ExecutesFacts DEF exit, At
<1>2. UNCHANGED <<pc, arg, holder, slept>>
  BY DEF exit, synchVars
<1>3. \A u \in Thread \ {idle_thread} :
        /\ status[u] = "BLOCKED" => status'[u] = "BLOCKED"
        /\ Alive(u) /\ u # t => (Alive(u))'
  BY <1>1, ExitStatus DEF exit
<1>4. \A l \in Lock : holder[l] # NULL => (Alive(holder[l]))' /\ holder'[l] # idle_thread
  BY <1>1, <1>2, <1>3 DEF LifeExact, Alive, StateExact, DataExact
<1>5. \A u \in Thread : pc[u] = "create" => arg[u] \in Thread
  BY Zenon DEF StateExact, ArgFits
<1>6. \A u \in Thread : pc[u] = "create" => status'[arg[u]] = "BLOCKED"
  BY <1>3, <1>5 DEF LifeExact
<1>7. QED
  BY <1>1, <1>2, <1>3, <1>4, <1>6 DEF LifeExact

(* Every step preserves LifeExact.                                         *)
LEMMA LifeStep ==
  ASSUME SchedInv, StateExact, StateExact', LifeExact, WaitListsExact, [Next]_vars
  PROVE  LifeExact'
<1>1. ASSUME UNCHANGED <<pc, arg, holder, slept, status>>
      PROVE  LifeExact'
  BY <1>1, IdleLife DEF Alive
<1>2. ASSUME UNCHANGED <<pc, arg, holder, slept>>, yield_current \/ thread_block
      PROVE  LifeExact'
  BY <1>2, IdleLife, YieldStatus, BlockStatus
<1>3. ASSUME NEW t \in Thread, NEW c \in Condition, NEW again, Executes(t),
             t \notin slept, pop_waiter(t, c, again)
      PROVE  LifeExact'
  BY <1>3, QuietLife DEF pop_waiter
<1>4. ASSUME NEW t \in Thread, Call(t)
      PROVE  LifeExact'
  <2>1. ASSUME NEW s \in Semaphore, call_sema_down(t, s)
        PROVE  LifeExact'
    BY <2>1, QuietLife, AtFacts DEF call_sema_down, At, SleepLabel
  <2>2. ASSUME NEW s \in Semaphore, sema_try_down(t, s)
        PROVE  LifeExact'
    BY ZenonT(40), <1>1, <2>2 DEF sema_try_down, schedVars
  <2>3. ASSUME NEW l \in Lock, lock_acquire(t, l) \/ lock_try_acquire(t, l)
        PROVE  LifeExact'
    BY <2>3, QuietLife, AtFacts DEF lock_acquire, lock_try_acquire, At, SleepLabel
  <2>4. ASSUME NEW l \in Lock, lock_release(t, l)
        PROVE  LifeExact'
    <3>1. \A k \in Lock : holder'[k] \in {holder[k], NULL, t}
      BY <2>4 DEF lock_release, StateExact, DataExact
    <3>2. QED
      BY <2>4, <3>1, QuietLife, AtFacts DEF lock_release, At, SleepLabel
  <2>5. ASSUME NEW c \in Condition, cond_wait(t, c)
        PROVE  LifeExact'
    <3>1. \A k \in Lock : holder'[k] \in {holder[k], NULL, t}
      BY <2>5 DEF cond_wait, StateExact, DataExact
    <3>2. QED
      BY <2>5, <3>1, QuietLife, AtFacts DEF cond_wait, At, SleepLabel
  <2>6. ASSUME NEW c \in Condition, cond_signal(t, c) \/ cond_broadcast(t, c)
        PROVE  LifeExact'
    BY ZenonT(30), <1>3, <2>6, AtFacts DEF cond_signal, cond_broadcast, At, SleepLabel
  <2>7. ASSUME NEW u \in Thread, create_thread(t, u)
        PROVE  LifeExact'
    BY <2>7, CreateLife
  <2>8. CASE exit(t)
    BY <2>8, ExitLife
  <2>9. CASE yield(t)
    BY <1>2, <2>9 DEF yield, thread_yield, synchVars
  <2>10. QED
    BY ZenonT(40), <1>4, <2>1, <2>2, <2>3, <2>4, <2>5, <2>6, <2>7, <2>8, <2>9 DEF Call
<1>5. ASSUME NEW t \in Thread, Finish(t)
      PROVE  LifeExact'
  <2> USE SemaphoresOfSteps
  <2>1. CASE do_sema_down(t)
    BY <2>1, SemaDownLife DEF do_sema_down, At, SleepLabel
  <2>2. CASE lock_acquire_down(t)
    BY <2>2, SemaDownLife DEF lock_acquire_down, At, SleepLabel
  <2>3. CASE set_holder(t)
    <3>1. \A k \in Lock : holder'[k] \in {holder[k], NULL, t}
      BY Zenon, <2>3 DEF set_holder, StateExact, DataExact
    <3>2. QED
      BY <2>3, <3>1, QuietLife, AtFacts DEF set_holder, At, SleepLabel
  <2>4. CASE lock_release_up(t)
    BY <2>4, SemaUpLife, AtFacts DEF lock_release_up, At, SleepLabel
  <2>5. CASE cond_release_up(t)
    BY ZenonT(40), <2>5, SemaUpLife, AtFacts DEF cond_release_up, At, SleepLabel
  <2>6. CASE cond_sleep(t)
    BY <2>6, SemaDownLife DEF cond_sleep, At, SleepLabel
  <2>7. CASE cond_reacquire(t)
    BY ZenonT(40), <2>7, SemaDownLife DEF cond_reacquire, At, SleepLabel
  <2>8. CASE signal_up(t)
    BY <2>8, SemaUpLife, AtFacts DEF signal_up, At, SleepLabel
  <2>9. CASE broadcast_loop(t)
    <3>1. arg[t] \in Condition /\ Executes(t) /\ t \notin slept
      BY <2>9, AtFacts DEF broadcast_loop, At, SleepLabel, StateExact, ArgFits
    <3>2. QED
      BY Zenon, <1>3, <2>9, <3>1, QuietLife DEF broadcast_loop
  <2>10. CASE start_thread(t)
    BY <2>10, StartLife
  <2>11. QED
    BY ZenonT(40), <1>5, <2>1, <2>2, <2>3, <2>4, <2>5, <2>6, <2>7, <2>8, <2>9, <2>10 DEF Finish
<1>6. ASSUME NEW s \in Semaphore, do_sema_up(s)
      PROVE  LifeExact'
  BY <1>6, IdleLife, SemaUpStatus DEF do_sema_up, Sem
<1>7. CASE timer_interrupt
  BY <1>1, <1>2, <1>7 DEF timer_interrupt, thread_tick, synchVars
<1>8. CASE restore_level \/ idle \/ UNCHANGED vars
  BY <1>1, <1>2, <1>8 DEF restore_level, intr_enable, idle, synchVars, vars, schedVars
<1>9. QED
  BY <1>4, <1>5, <1>6, <1>7, <1>8 DEF Next

-----------------------------------------------------------------------------
(* Wait lists and wakeups. *)

(* The number of woken threads is a number.                                *)
LEMMA WokenFinite ==
  ASSUME LifeExact, NEW s
  PROVE  IsFiniteSet(Woken(s)) /\ Cardinality(Woken(s)) \in Nat
<1>1. Woken(s) \in SUBSET slept
  BY DEF Woken
<1>2. IsFiniteSet(Woken(s))
  BY <1>1, FS_Subset DEF LifeExact
<1>3. QED
  BY <1>2, FS_CardinalityType

(* Steps that neither sleep, nor wake, nor add a unit.                     *)
LEMMA WaitFrame ==
  ASSUME StateExact, StateExact', LifeExact, WaitListsExact, WakeupExact,
         UNCHANGED <<waiters, slept>>,
         \A u \in slept :
           /\ pc'[u] = pc[u] /\ arg'[u] = arg[u]
           /\ status'[u] = "BLOCKED" <=> status[u] = "BLOCKED",
         \A s \in Sem : value'[s] <= value[s]
  PROVE  WaitListsExact' /\ WakeupExact'
<1>1. \A u \in slept : (SemaOf(u))' = SemaOf(u)
  BY DEF SemaOf
<1>2. \A s \in Sem : (Woken(s))' = Woken(s)
  BY <1>1 DEF Woken
<1>3. \A s \in Sem : value[s] \in Nat /\ value'[s] \in Nat /\ Cardinality(Woken(s)) \in Nat
  BY WokenFinite DEF StateExact, DataExact
<1>4. WakeupExact'
  <2> SUFFICES ASSUME NEW s \in Sem, waiters'[s] # <<>>
               PROVE  value'[s] <= Cardinality((Woken(s))')
    BY DEF WakeupExact, Woken
  <2>1. value[s] <= Cardinality(Woken(s))
    BY DEF WakeupExact
  <2>2. Cardinality((Woken(s))') = Cardinality(Woken(s))
    BY <1>2
  <2>3. QED
    BY <1>3, <2>1, <2>2
<1>5. WaitListsExact'
  BY <1>1 DEF WaitListsExact, NoDuplicates, Elems
<1>6. QED
  BY <1>4, <1>5

(* sema_up() takes the first waiter off the list and gives it a reason to  *)
(* look at the new unit.                                                   *)
LEMMA SemaUpWait ==
  ASSUME SchedInv, StateExact, StateExact', LifeExact, WaitListsExact, WakeupExact,
         NEW s \in Sem, sema_up(s), UNCHANGED slept,
         \A u \in slept : pc'[u] = pc[u] /\ arg'[u] = arg[u]
  PROVE  WaitListsExact' /\ WakeupExact'
<1>1. \A u \in slept : (SemaOf(u))' = SemaOf(u)
  BY DEF SemaOf
<1>2. \A r \in Sem : value[r] \in Nat /\ Cardinality(Woken(r)) \in Nat
  BY WokenFinite DEF StateExact, DataExact
<1>3. /\ value'[s] = value[s] + 1
      /\ \A r \in Sem \ {s} : value'[r] = value[r]
  BY DEF sema_up, StateExact, DataExact
<1>4. waiters \in [Sem -> Seq(Thread)] /\ slept \subseteq Thread
  BY DEF StateExact, DataExact, LifeExact
<1>5. CASE waiters[s] = <<>>
  <2>1. UNCHANGED <<waiters, status>>
    BY <1>5 DEF sema_up, schedVars
  <2>2. \A r \in Sem : (Woken(r))' = Woken(r)
    BY <1>1, <2>1 DEF Woken
  <2>3. WaitListsExact'
    BY <1>1, <2>1 DEF WaitListsExact, NoDuplicates, Elems
  <2>4. WakeupExact'
    <3> SUFFICES ASSUME NEW r \in Sem, waiters'[r] # <<>>
                 PROVE  value'[r] <= Cardinality((Woken(r))')
      BY DEF WakeupExact, Woken
    <3>1. r # s /\ Cardinality((Woken(r))') = Cardinality(Woken(r))
      BY ZenonT(40), <1>5, <2>1, <2>2
    <3>2. QED
      BY ZenonT(40), <1>3, <2>1, <3>1 DEF WakeupExact
  <2>5. QED
    BY <2>3, <2>4
<1>6. CASE waiters[s] # <<>>
  <2> DEFINE h == Head(waiters[s])
  <2>1. /\ waiters' = [waiters EXCEPT ![s] = Tail(@)]
        /\ status' = [status EXCEPT ![h] = "READY"]
    BY <1>6 DEF sema_up, thread_unblock
  <2>2. /\ h \in Thread /\ h \in Elems(waiters[s])
        /\ Tail(waiters[s]) \in Seq(Thread)
        /\ Elems(Tail(waiters[s])) = Elems(waiters[s]) \ {h}
        /\ \A i, j \in DOMAIN Tail(waiters[s]) :
             i # j => Tail(waiters[s])[i] # Tail(waiters[s])[j]
    BY ZenonT(40), <1>4, <1>6, TailElems DEF WaitListsExact, NoDuplicates
  <2>3. h \in slept /\ status[h] = "BLOCKED" /\ SemaOf(h) = s
    BY <2>2 DEF WaitListsExact
  <2> HIDE DEF h
  <2>4. /\ waiters'[s] = Tail(waiters[s])
        /\ \A r \in Sem \ {s} : waiters'[r] = waiters[r]
    BY <1>4, <2>1
  <2>5. /\ status'[h] = "READY"
        /\ \A u \in Thread \ {h} : status'[u] = status[u]
    BY ZenonT(40), <2>1, <2>2 DEF SchedInv, SchedTypeOK
  <2>6. ASSUME NEW r \in Sem
        PROVE  /\ NoDuplicates(waiters'[r])
               /\ Elems(waiters'[r]) =
                    {t \in slept' : status'[t] = "BLOCKED" /\ (SemaOf(t))' = r}
    <3>1. {t \in slept' : status'[t] = "BLOCKED" /\ (SemaOf(t))' = r}
            = {t \in slept : status[t] = "BLOCKED" /\ SemaOf(t) = r} \ {h}
      BY Zenon, <1>1, <1>4, <2>5
    <3>2. CASE r = s
      <4>1. NoDuplicates(Tail(waiters[s]))
        BY <2>2 DEF NoDuplicates
      <4>2. Elems(waiters[s]) = {t \in slept : status[t] = "BLOCKED" /\ SemaOf(t) = s}
        BY Zenon DEF WaitListsExact
      <4>3. QED
        BY ZenonT(40), <2>2, <2>4, <3>1, <3>2, <4>1, <4>2
    <3>3. CASE r # s
      <4>1. h \notin {t \in slept : status[t] = "BLOCKED" /\ SemaOf(t) = r}
        BY <2>3, <3>3
      <4>2. QED
        BY ZenonT(40), <2>4, <3>1, <3>3, <4>1 DEF WaitListsExact
    <3>4. QED
      BY <3>2, <3>3
  <2>7. WaitListsExact'
    BY ZenonT(40), <2>6 DEF WaitListsExact, NoDuplicates, Elems
  <2>8. \A r \in Sem : (Woken(r))' = IF r = s THEN Woken(r) \cup {h} ELSE Woken(r)
    BY Zenon, <1>1, <1>4, <2>3, <2>5 DEF Woken
  <2>9. WakeupExact'
    <3> SUFFICES ASSUME NEW r \in Sem, waiters'[r] # <<>>
                 PROVE  value'[r] <= Cardinality((Woken(r))')
      BY DEF WakeupExact, Woken
    <3>1. CASE r = s
      <4>1. value[s] <= Cardinality(Woken(s))
        BY <1>6 DEF WakeupExact
      <4>2. h \notin Woken(s)
        BY <2>3 DEF Woken
      <4>3. Cardinality(Woken(s) \cup {h}) = Cardinality(Woken(s)) + 1
        BY Zenon, <4>2, WokenFinite, FS_AddElement
      <4>4. Cardinality((Woken(r))') = Cardinality(Woken(s)) + 1
        BY ZenonT(30), <2>8, <3>1, <4>3
      <4>5. QED
        BY SMTT(40), <1>2, <1>3, <3>1, <4>1, <4>4
    <3>2. CASE r # s
      <4>1. value[r] <= Cardinality(Woken(r))
        BY Zenon, <2>4, <3>2 DEF WakeupExact
      <4>2. Cardinality((Woken(r))') = Cardinality(Woken(r))
        BY <2>8, <3>2
      <4>3. QED
        BY Zenon, <1>3, <3>2, <4>1, <4>2
    <3>3. QED
      BY Zenon, <3>1, <3>2
  <2>10. QED
    BY <2>7, <2>9
<1>7. QED
  BY <1>5, <1>6

(* A unit less on the semaphore, and a woken thread less at most.          *)
LEMMA OneLess == \A v, c \in Nat : v <= c => v - 1 <= c - 1 /\ v - 1 <= c
OBVIOUS

(* sema_down() sleeps only when there is no unit, and takes a unit only    *)
(* along with one of the threads that were woken for it, or from a         *)
(* semaphore nobody was woken for.                                         *)
LEMMA SemaDownWait ==
  ASSUME SchedInv, StateExact, StateExact', LifeExact, WaitListsExact, WakeupExact,
         NEW t \in Thread, Executes(t), pc[t] \in SleepLabel, NEW s \in Sem, s = SemaOf(t),
         NEW label, NEW a, sema_down(t, s, label, a, "ON")
  PROVE  WaitListsExact' /\ WakeupExact'
<1>1. /\ current = t /\ t # idle_thread /\ status[t] = "RUNNING"
      /\ waiters \in [Sem -> Seq(Thread)] /\ slept \subseteq Thread \ {idle_thread}
      /\ \A r \in Sem : value[r] \in Nat /\ Cardinality(Woken(r)) \in Nat
  BY ZenonT(30), ExecutesFacts, WokenFinite DEF StateExact, DataExact, LifeExact, SleepLabel
<1>2. CASE /\ value[s] = 0
           /\ waiters' = [waiters EXCEPT ![s] = Append(@, t)]
           /\ slept' = slept \cup {t}
           /\ thread_block
           /\ UNCHANGED <<value, pc, arg>>
  <2>1. \A u \in Thread : (SemaOf(u))' = SemaOf(u)
    BY Zenon, <1>2 DEF SemaOf
  <2>2. \A u \in Thread \ {idle_thread} :
          status'[u] = "BLOCKED" <=> status[u] = "BLOCKED" \/ u = t
    BY ZenonT(40), <1>1, <1>2, BlockStatus
  <2>3. t \notin Elems(waiters[s])
    BY Zenon, <1>1 DEF WaitListsExact
  <2>4. Elems(Append(waiters[s], t)) = Elems(waiters[s]) \cup {t}
    BY SMTT(40), <1>1, AppendElems
  <2>5. NoDuplicates(Append(waiters[s], t))
    BY Zenon, <1>1, <2>3, NoDuplicatesAppend DEF WaitListsExact
  <2>6. ASSUME NEW r \in Sem
        PROVE  /\ NoDuplicates(waiters'[r])
               /\ Elems(waiters'[r]) =
                    {u \in slept' : status'[u] = "BLOCKED" /\ (SemaOf(u))' = r}
    <3>1. {u \in slept' : status'[u] = "BLOCKED" /\ (SemaOf(u))' = r}
            = {u \in slept : status[u] = "BLOCKED" /\ SemaOf(u) = r}
              \cup (IF r = s THEN {t} ELSE {})
      BY ZenonT(40), <1>1, <1>2, <2>1, <2>2
    <3>2. /\ waiters'[s] = Append(waiters[s], t)
          /\ r # s => waiters'[r] = waiters[r]
      BY <1>1, <1>2
    <3>3. CASE r = s
      BY ZenonT(30), <2>4, <2>5, <3>1, <3>2, <3>3 DEF WaitListsExact
    <3>4. CASE r # s
      BY Zenon, <3>1, <3>2, <3>4 DEF WaitListsExact
    <3>5. QED
      BY SMTT(20), <3>3, <3>4
  <2>7. WaitListsExact'
    BY Zenon, <2>6 DEF WaitListsExact, NoDuplicates, Elems
  <2>8. \A r \in Sem \ {s} : (Woken(r))' = Woken(r)
    BY Zenon, <1>1, <1>2, <2>1, <2>2 DEF Woken
  <2>9. (Woken(s))' = Woken(s) \ {t}
    BY Zenon, <1>1, <1>2, <2>1, <2>2 DEF Woken
  <2>10. WakeupExact'
    <3> SUFFICES ASSUME NEW r \in Sem, waiters'[r] # <<>>
                 PROVE  value'[r] <= Cardinality((Woken(r))')
      BY DEF WakeupExact, Woken
    <3>1. CASE r = s
      <4>1. IsFiniteSet(Woken(s) \ {t})
        BY Zenon, WokenFinite, FS_RemoveElement
      <4>2. Cardinality((Woken(r))') \in Nat
        BY ZenonT(30), <2>9, <3>1, <4>1, FS_CardinalityType
      <4>3. QED
        BY <1>2, <3>1, <4>2
    <3>2. CASE r # s
      <4>1. waiters'[r] = waiters[r] /\ value'[r] = value[r]
        BY ZenonT(40), <1>1, <1>2, <3>2
      <4>2. Cardinality((Woken(r))') = Cardinality(Woken(r))
        BY <2>8, <3>2
      <4>3. QED
        BY Zenon, <4>1, <4>2 DEF WakeupExact
    <3>3. QED
      BY ZenonT(40), <3>1, <3>2
  <2>11. QED
    BY <2>7, <2>10
<1>3. CASE /\ value[s] > 0
           /\ value' = [value EXCEPT ![s] = @ - 1]
           /\ slept' = slept \ {t}
           /\ Goto(t, label, a)
           /\ UNCHANGED <<waiters, status>>
  <2>1. \A u \in slept \ {t} : (SemaOf(u))' = SemaOf(u)
    BY Zenon, <1>1, <1>3 DEF SemaOf, Goto, StateExact
  <2>2. \A r \in Sem : (Woken(r))' = Woken(r) \ {t}
    BY Zenon, <1>3, <2>1 DEF Woken
  <2>3. ASSUME NEW r \in Sem
        PROVE  /\ NoDuplicates(waiters'[r])
               /\ Elems(waiters'[r]) =
                    {u \in slept' : status'[u] = "BLOCKED" /\ (SemaOf(u))' = r}
    <3>1. {u \in slept' : status'[u] = "BLOCKED" /\ (SemaOf(u))' = r}
            = {u \in slept : status[u] = "BLOCKED" /\ SemaOf(u) = r}
      BY ZenonT(40), <1>1, <1>3, <2>1
    <3>2. QED
      BY Zenon, <1>3, <3>1 DEF WaitListsExact
  <2>4. WaitListsExact'
    BY <2>3 DEF WaitListsExact, NoDuplicates, Elems
  <2>5. WakeupExact'
    <3> SUFFICES ASSUME NEW r \in Sem, waiters'[r] # <<>>
                 PROVE  value'[r] <= Cardinality((Woken(r))')
      BY DEF WakeupExact, Woken
    <3>1. value[r] <= Cardinality(Woken(r))
      BY ZenonT(40), <1>3 DEF WakeupExact
    <3>2. Cardinality((Woken(r))') =
            IF t \in Woken(r) THEN Cardinality(Woken(r)) - 1 ELSE Cardinality(Woken(r))
      BY ZenonT(40), <2>2, WokenFinite, FS_RemoveElement
    <3>3. r # s => t \notin Woken(r) /\ value'[r] = value[r]
      BY <1>1, <1>3 DEF Woken, StateExact, DataExact
    <3>4. value'[s] = value[s] - 1
      BY <1>3 DEF StateExact, DataExact
    <3>5. CASE r = s
      BY ZenonT(40), <1>1, <3>1, <3>2, <3>4, <3>5, OneLess
    <3>6. CASE r # s
      BY Zenon, <3>1, <3>2, <3>3, <3>6
    <3>7. QED
      BY Zenon, <3>5, <3>6
  <2>6. QED
    BY <2>4, <2>5
<1>4. QED
  BY <1>2, <1>3 DEF sema_down
=============================================================================
