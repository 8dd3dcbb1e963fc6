---------------------------- MODULE MonitorProofs ----------------------------
(***************************************************************************)
(* The second half of the TLAPS proofs about Synch: wait lists, locks and  *)
(* condition variables, and the theorems.  SynchInv is an invariant; no    *)
(* wakeup is lost, a lock has one owner and implements Mutex, and every    *)
(* signal reaches the thread it was meant for.                             *)
(***************************************************************************)
EXTENDS SynchProofs

(* Every step keeps the wait lists exact and announces the units of the    *)
(* semaphores that have waiters.                                           *)
LEMMA WaitStep ==
  ASSUME SchedInv, StateExact, StateExact', LifeExact, WaitListsExact, WakeupExact,
         [Next]_vars
  PROVE  WaitListsExact' /\ WakeupExact'
<1> DEFINE Goal == WaitListsExact' /\ WakeupExact'
<1>1. /\ value \in [Sem -> Nat] /\ slept \subseteq Thread /\ idle_thread \notin slept
      /\ \A u \in slept : pc[u] \in SleepLabel /\ Alive(u)
  BY Zenon DEF StateExact, DataExact, LifeExact, SleepLabel
<1>2. ASSUME NEW t \in Thread, t \notin slept, NEW label, NEW a, Goto(t, label, a)
      PROVE  \A u \in slept : pc'[u] = pc[u] /\ arg'[u] = arg[u]
  BY <1>1, <1>2 DEF Goto, StateExact
<1>3. ASSUME NEW t \in Thread, t \notin slept, NEW label, NEW a, Goto(t, label, a),
             UNCHANGED <<waiters, slept, status>>,
             \A s \in Sem : value'[s] <= value[s]
      PROVE  Goal
  BY <1>2, <1>3, WaitFrame
<1>4. ASSUME NEW t \in Thread, t \notin slept, NEW label, NEW a, Goto(t, label, a),
             UNCHANGED <<waiters, slept, status, value>>
      PROVE  Goal
  BY <1>1, <1>3, <1>4
<1>5. ASSUME UNCHANGED synchVars,
             \A u \in slept : status'[u] = "BLOCKED" <=> status[u] = "BLOCKED"
      PROVE  Goal
  BY <1>1, <1>5, WaitFrame DEF synchVars
<1>6. ASSUME UNCHANGED synchVars, yield_current
      PROVE  Goal
  BY <1>1, <1>5, <1>6, YieldStatus
<1>7. ASSUME NEW t \in Thread, Call(t)
      PROVE  Goal
  <2>1. ASSUME NEW s \in Semaphore, call_sema_down(t, s)
        PROVE  Goal
    BY <1>4, <2>1, AtFacts DEF call_sema_down, schedVars, SleepLabel
  <2>2. ASSUME NEW s \in Semaphore, sema_try_down(t, s)
        PROVE  Goal
    <3>1. \A r \in Sem : value'[r] <= value[r]
      BY <1>1, <2>2 DEF sema_try_down, Sem
    <3>2. QED
      BY <2>2, <3>1, WaitFrame DEF sema_try_down, schedVars
  <2>3. ASSUME NEW l \in Lock, lock_acquire(t, l)
        PROVE  Goal
    BY <1>4, <2>3, AtFacts DEF lock_acquire, schedVars, SleepLabel
  <2>4. ASSUME NEW l \in Lock, lock_try_acquire(t, l)
        PROVE  Goal
    <3>1. \A r \in Sem : value'[r] <= value[r]
      BY <1>1, <2>4 DEF lock_try_acquire, Sem
    <3>2. QED
      BY <1>3, <2>4, <3>1, AtFacts DEF lock_try_acquire, schedVars, SleepLabel
  <2>5. ASSUME NEW l \in Lock, lock_release(t, l)
        PROVE  Goal
    BY <1>4, <2>5, AtFacts DEF lock_release, schedVars, SleepLabel
  <2>6. ASSUME NEW c \in Condition, cond_wait(t, c)
        PROVE  Goal
    <3>1. \A r \in Sem : value'[r] <= value[r]
      BY <1>1, <2>6 DEF cond_wait, Sem
    <3>2. QED
      BY <1>3, <2>6, <3>1, AtFacts DEF cond_wait, schedVars, SleepLabel
  <2>7. ASSUME NEW c \in Condition, cond_signal(t, c) \/ cond_broadcast(t, c)
        PROVE  Goal
    BY <1>4, <2>7, AtFacts DEF cond_signal, cond_broadcast, pop_waiter, schedVars, SleepLabel
  <2>8. ASSUME NEW u \in Thread, create_thread(t, u)
        PROVE  Goal
    <3>1. /\ status[u] = "NONE" /\ status' = [status EXCEPT ![u] = "BLOCKED"]
          /\ UNCHANGED <<value, waiters, slept>> /\ t \notin slept
      BY <2>8, AtFacts DEF create_thread, init_thread, SleepLabel
    <3>2. u \notin slept
      BY <1>1, <3>1 DEF Alive
    <3>3. \A v \in slept : /\ pc'[v] = pc[v] /\ arg'[v] = arg[v]
                           /\ status'[v] = status[v]
      BY SMTT(20), <1>1, <2>8, <3>1, <3>2 DEF create_thread, StateExact, SchedInv, SchedTypeOK
    <3>4. QED
      BY <1>1, <3>1, <3>3, WaitFrame
  <2>9. CASE exit(t)
    BY Zenon, <1>1, <1>5, <2>9, ExitStatus DEF exit
  <2>10. CASE yield(t)
    BY SMTT(20), <1>6, <2>10 DEF yield, thread_yield
  <2>11. QED
    BY <1>7, <2>1, <2>2, <2>3, <2>4, <2>5, <2>6, <2>7, <2>8, <2>9, <2>10 DEF Call
<1>8. ASSUME NEW t \in Thread, Finish(t)
      PROVE  Goal
  <2> USE SemaphoresOfSteps, SemaOfIs
  <2>1. CASE do_sema_down(t)
    BY ZenonT(30), <2>1, SemaDownWait DEF do_sema_down, At, SleepLabel
  <2>2. CASE lock_acquire_down(t)
    BY ZenonT(30), <2>2, SemaDownWait DEF lock_acquire_down, At, SleepLabel
  <2>3. CASE set_holder(t)
    BY <1>4, <2>3, AtFacts DEF set_holder, schedVars, SleepLabel
  <2>4. CASE lock_release_up(t)
    BY <1>2, <2>4, SemaUpWait, AtFacts DEF lock_release_up, At, SleepLabel
  <2>5. CASE cond_release_up(t)
    BY <1>2, <2>5, SemaUpWait, AtFacts DEF cond_release_up, At, SleepLabel
  <2>6. CASE cond_sleep(t)
    BY <2>6, SemaDownWait DEF cond_sleep, At, SleepLabel
  <2>7. CASE cond_reacquire(t)
    BY <2>7, SemaDownWait DEF cond_reacquire, At, SleepLabel
  <2>8. CASE signal_up(t)
    BY <1>2, <2>8, SemaUpWait, AtFacts DEF signal_up, At, SleepLabel
  <2>9. CASE broadcast_loop(t)
    BY SMTT(20), <1>4, <2>9, AtFacts DEF broadcast_loop, pop_waiter, schedVars, SleepLabel
  <2>10. CASE start_thread(t)
    <3>1. /\ pc[t] = "create" /\ arg[t] \in Thread /\ t \notin slept
          /\ status' = [status EXCEPT ![arg[t]] = "READY"]
          /\ UNCHANGED <<value, waiters, slept>>
      BY SMTT(20), <2>10, AtFacts
      DEF start_thread, thread_unblock, At, SleepLabel, StateExact, ArgFits
    <3>2. arg[t] \notin slept
      BY ZenonT(30), <1>1, <3>1 DEF LifeExact, SleepLabel
    <3>3. \A v \in slept : /\ pc'[v] = pc[v] /\ arg'[v] = arg[v]
                           /\ status'[v] = status[v]
      BY ZenonT(40), <1>1, <1>2, <2>10, <3>1, <3>2 DEF start_thread, SchedInv, SchedTypeOK
    <3>4. QED
      BY <1>1, <3>1, <3>3, WaitFrame
  <2>11. QED
    BY ZenonT(30), <1>8, <2>1, <2>2, <2>3, <2>4, <2>5, <2>6, <2>7, <2>8, <2>9, <2>10 DEF Finish
<1>9. ASSUME NEW s \in Semaphore, do_sema_up(s)
      PROVE  Goal
  BY <1>9, SemaUpWait DEF do_sema_up, Sem
<1>10. CASE timer_interrupt
  BY <1>5, <1>6, <1>10 DEF timer_interrupt, thread_tick
<1>11. CASE idle
  BY <1>1, <1>5, <1>11, BlockStatus DEF idle
<1>12. CASE restore_level \/ UNCHANGED vars
  BY <1>5, <1>12 DEF restore_level, intr_enable, vars, schedVars
<1>13. QED
  BY <1>7, <1>8, <1>9, <1>10, <1>11, <1>12 DEF Next

-----------------------------------------------------------------------------
(* Where a step leaves its thread decides which window the thread is in.   *)
LEMMA GotoWindow ==
  ASSUME StateExact, NEW t \in Thread, NEW label, NEW a, Goto(t, label, a)
  PROVE  /\ \A u \in Thread \ {t}, l \in Lock : (InWindow(u, l))' <=> InWindow(u, l)
         /\ \A l \in Lock : (InWindow(t, l))' <=>
              \/ label \in {"set_holder", "lock_release"} /\ a = l
              \/ label = "cond_release" /\ lock_of[a] = l
BY DEF Goto, StateExact, InWindow

(* What a step may do to the sections: nothing, or let one thread into a   *)
(* section that is empty, or let the thread that is in a section out.      *)
SectionMove ==
  \/ \A u \in Thread, k \in Lock : (InSection(u, k))' <=> InSection(u, k)
  \/ \E t \in Thread, l \in Lock :
       /\ \A u \in Thread : ~InSection(u, l)
       /\ \A u \in Thread, k \in Lock :
            (InSection(u, k))' <=> InSection(u, k) \/ (u = t /\ k = l)
  \/ \E t \in Thread, l \in Lock :
       /\ InSection(t, l)
       /\ \A u \in Thread, k \in Lock :
            (InSection(u, k))' <=> InSection(u, k) /\ ~(u = t /\ k = l)

(* Steps that neither enter nor leave a section, nor store a holder.       *)
LEMMA SectionFrame ==
  ASSUME SectionExact, UNCHANGED holder,
         \A l \in Lock : value'[l] = value[l],
         \A t \in Thread, l \in Lock : (InWindow(t, l))' <=> InWindow(t, l)
  PROVE  SectionExact' /\ SectionMove
<1>1. \A t \in Thread, l \in Lock : (InSection(t, l))' <=> InSection(t, l)
  BY DEF InSection, InWindow
<1>2. SectionMove
  BY <1>1 DEF SectionMove
<1>3. SectionExact'
  BY <1>1 DEF SectionExact
<1>4. QED
  BY <1>2, <1>3

(* sema_down() of a lock's semaphore succeeds: nobody was in the section.  *)
LEMMA SectionEnter ==
  ASSUME SchedInv, StateExact, StateExact', SectionExact,
         NEW t \in Thread, NEW l \in Lock, value[l] > 0,
         value' = [value EXCEPT ![l] = @ - 1],
         Goto(t, "set_holder", l), UNCHANGED holder,
         \A k \in Lock : ~InWindow(t, k)
  PROVE  SectionExact' /\ SectionMove
<1>1. l \in Sem /\ value \in [Sem -> Nat] /\ holder[l] \in Thread \cup {NULL}
  BY DEF Sem, StateExact, DataExact
<1>2. value[l] = 1 /\ \A u \in Thread : ~InSection(u, l)
  BY <1>1 DEF SectionExact
<1>3. value'[l] = 0 /\ \A k \in Lock \ {l} : value'[k] = value[k]
  BY <1>1, <1>2 DEF Sem
<1>4. holder[l] = NULL
  BY <1>1, <1>2 DEF InSection
<1>5. \A u \in Thread, k \in Lock :
        (InWindow(u, k))' <=> InWindow(u, k) \/ (u = t /\ k = l)
  BY GotoWindow
<1>6. \A u \in Thread, k \in Lock :
        (InSection(u, k))' <=> InSection(u, k) \/ (u = t /\ k = l)
  BY <1>5 DEF InSection, InWindow
<1>7. SectionMove
  BY <1>2, <1>6 DEF SectionMove
<1>8. SectionExact'
  BY <1>2, <1>3, <1>4, <1>5, <1>6 DEF SectionExact
<1>9. QED
  BY <1>7, <1>8

(* sema_up() of a lock's semaphore by the one thread in the section.       *)
LEMMA SectionLeave ==
  ASSUME SchedInv, StateExact, StateExact', SectionExact,
         NEW t \in Thread, NEW l \in Lock, InWindow(t, l),
         \A k \in Lock : InWindow(t, k) => k = l,
         value' = [value EXCEPT ![l] = @ + 1], UNCHANGED holder,
         \A u \in Thread, k \in Lock : (InWindow(u, k))' <=> InWindow(u, k) /\ u # t
  PROVE  SectionExact' /\ SectionMove
<1>1. l \in Sem /\ value \in [Sem -> Nat] /\ NULL \notin Thread
  BY SynchAssumption DEF Sem, StateExact, DataExact
<1>2. InSection(t, l) /\ holder[l] = NULL
  BY DEF InSection, InWindow, SectionExact
<1>3. value[l] = 0
  BY <1>2 DEF SectionExact
<1>4. value'[l] = 1 /\ \A k \in Lock \ {l} : value'[k] = value[k]
  BY <1>1, <1>3 DEF Sem
<1>5. \A u \in Thread, k \in Lock :
        (InSection(u, k))' <=> InSection(u, k) /\ ~(u = t /\ k = l)
  BY <1>1, <1>2 DEF InSection, InWindow
<1>6. SectionMove
  BY <1>2, <1>5 DEF SectionMove
<1>7. SectionExact'
  BY <1>2, <1>4, <1>5 DEF SectionExact
<1>8. QED
  BY <1>6, <1>7

(* holder is stored by the one thread in the section.                      *)
LEMMA SectionStore ==
  ASSUME StateExact, SectionExact,
         NEW t \in Thread, NEW l \in Lock, InWindow(t, l), UNCHANGED value,
         holder' = [holder EXCEPT ![l] = t],
         \A k \in Lock : InWindow(t, k) => k = l,
         \A u \in Thread, k \in Lock : (InWindow(u, k))' <=> InWindow(u, k) /\ u # t
  PROVE  SectionExact' /\ SectionMove
<1>1. holder'[l] = t /\ \A k \in Lock \ {l} : holder'[k] = holder[k]
  BY DEF StateExact, DataExact
<1>2. \A u \in Thread : InSection(u, l) => u = t
  BY DEF SectionExact, InSection, InWindow
<1>3. InSection(t, l)
  BY DEF InSection, InWindow
<1>4. \A u \in Thread, k \in Lock : (InSection(u, k))' <=> holder'[k] = u \/ (InWindow(u, k))'
  BY DEF InSection, InWindow
<1>5. \A u \in Thread, k \in Lock : InSection(u, k) <=> holder[k] = u \/ InWindow(u, k)
  BY DEF InSection, InWindow
<1>6. \A u \in Thread, k \in Lock : (InSection(u, k))' <=> InSection(u, k)
  BY <1>1, <1>2, <1>3, <1>4, <1>5
<1>7. \A u \in Thread : ~(InWindow(u, l))'
  BY <1>2, <1>5
<1>8. SectionMove
  BY <1>6 DEF SectionMove
<1>9. SectionExact'
  BY <1>1, <1>6, <1>7 DEF SectionExact
<1>10. QED
  BY <1>8, <1>9

(* holder is cleared by the thread it names, which stays in the section.   *)
LEMMA SectionClear ==
  ASSUME StateExact, SectionExact,
         NEW t \in Thread, NEW l \in Lock, holder[l] = t,
         \A k \in Lock : value'[k] = value[k],
         holder' = [holder EXCEPT ![l] = NULL],
         \A k \in Lock : ~InWindow(t, k),
         \A u \in Thread, k \in Lock :
           (InWindow(u, k))' <=> InWindow(u, k) \/ (u = t /\ k = l)
  PROVE  SectionExact' /\ SectionMove
<1>1. /\ holder'[l] = NULL /\ \A k \in Lock \ {l} : holder'[k] = holder[k]
      /\ NULL \notin Thread
  BY SynchAssumption DEF StateExact, DataExact
<1>2. \A u \in Thread, k \in Lock : (InSection(u, k))' <=> holder'[k] = u \/ (InWindow(u, k))'
  BY DEF InSection, InWindow
<1>3. \A u \in Thread, k \in Lock : InSection(u, k) <=> holder[k] = u \/ InWindow(u, k)
  BY DEF InSection, InWindow
<1>4. \A u \in Thread, k \in Lock : (InSection(u, k))' <=> InSection(u, k)
  BY <1>1, <1>2, <1>3
<1>5. SectionMove
  BY <1>4 DEF SectionMove
<1>6. SectionExact'
  BY <1>1, <1>4 DEF SectionExact
<1>7. QED
  BY <1>5, <1>6

(* Every step preserves SectionExact, and moves one thread at most into or *)
(* out of a section.                                                       *)
LEMMA SectionStep ==
  ASSUME SchedInv, StateExact, StateExact', LifeExact, SectionExact, [Next]_vars
  PROVE  SectionExact' /\ SectionMove
<1> DEFINE Goal == SectionExact' /\ SectionMove
<1>1. /\ Lock \subseteq Sem /\ value \in [Sem -> Nat] /\ NULL \notin Thread
      /\ \A s \in Semaphore : s \notin Lock
      /\ \A t \in Thread : t \notin Lock
  BY SynchAssumption DEF StateExact, DataExact, Sem
<1> DEFINE Outside(label) == label \notin {"set_holder", "lock_release", "cond_release"}
<1>2. \A t \in Thread, l \in Lock : Outside(pc[t]) => ~InWindow(t, l)
  BY DEF InWindow
<1>3. ASSUME NEW t \in Thread, Outside(pc[t]), NEW label, Outside(label), NEW a,
             Goto(t, label, a), UNCHANGED holder, \A l \in Lock : value'[l] = value[l]
      PROVE  Goal
  <2>1. \A u \in Thread, l \in Lock : (InWindow(u, l))' <=> InWindow(u, l)
    BY <1>2, <1>3, GotoWindow
  <2>2. QED
    BY <1>3, <2>1, SectionFrame
<1>4. ASSUME UNCHANGED <<holder, pc, arg>>, \A l \in Lock : value'[l] = value[l]
      PROVE  Goal
  BY <1>4, SectionFrame DEF InWindow
<1>5. ASSUME NEW t \in Thread, Outside(pc[t]), NEW l \in Lock, NEW s, s = l,
             sema_down(t, s, "set_holder", l, "ON"), UNCHANGED holder
      PROVE  Goal
  BY ZenonT(40), <1>2, <1>4, <1>5, SectionEnter DEF sema_down
<1>6. ASSUME NEW t \in Thread, Outside(pc[t]), NEW s \in Sem \ Lock, NEW label,
             Outside(label), NEW a, sema_down(t, s, label, a, "ON"), UNCHANGED holder
      PROVE  Goal
  <2>1. \A l \in Lock : value'[l] = value[l]
    BY <1>1, <1>6 DEF sema_down
  <2>2. QED
    BY ZenonT(40), <1>3, <1>4, <1>6, <2>1 DEF sema_down
<1>7. ASSUME NEW t \in Thread, NEW l \in Lock, InWindow(t, l),
             \A k \in Lock : InWindow(t, k) => k = l, NEW label, Outside(label), NEW a,
             Goto(t, label, a), sema_up(l), UNCHANGED holder
      PROVE  Goal
  <2>1. \A u \in Thread, k \in Lock : (InWindow(u, k))' <=> InWindow(u, k) /\ u # t
    BY <1>7, GotoWindow
  <2>2. value' = [value EXCEPT ![l] = @ + 1]
    BY <1>7 DEF sema_up
  <2>3. QED
    BY Zenon, <1>7, <2>1, <2>2, SectionLeave
<1>8. ASSUME NEW s \in Sem \ Lock, sema_up(s)
      PROVE  \A l \in Lock : value'[l] = value[l]
  BY <1>1, <1>8 DEF sema_up
<1>9. ASSUME NEW t \in Thread, Call(t)
      PROVE  Goal
  <2>1. ASSUME NEW s \in Semaphore, call_sema_down(t, s)
        PROVE  Goal
    BY <1>3, <2>1 DEF call_sema_down, At
  <2>2. ASSUME NEW s \in Semaphore, sema_try_down(t, s)
        PROVE  Goal
    BY <1>1, <1>4, <2>2 DEF sema_try_down, Sem
  <2>3. ASSUME NEW l \in Lock, lock_acquire(t, l)
        PROVE  Goal
    BY <1>3, <2>3 DEF lock_acquire, At
  <2>4. ASSUME NEW l \in Lock, lock_try_acquire(t, l)
        PROVE  Goal
    BY Zenon, <1>2, <2>4, SectionEnter DEF lock_try_acquire, At
  <2>5. ASSUME NEW l \in Lock, lock_release(t, l)
        PROVE  Goal
    <3>1. \A u \in Thread, k \in Lock :
            (InWindow(u, k))' <=> InWindow(u, k) \/ (u = t /\ k = l)
      BY <1>2, <2>5, GotoWindow DEF lock_release, At
    <3>2. QED
      BY Zenon, <1>2, <2>5, <3>1, SectionClear DEF lock_release, At
  <2>6. ASSUME NEW c \in Condition, cond_wait(t, c)
        PROVE  Goal
    <3>1. PICK l \in Lock : l = lock_of[c]
      BY SynchAssumption
    <3>2. \A u \in Thread, k \in Lock :
            (InWindow(u, k))' <=> InWindow(u, k) \/ (u = t /\ k = l)
      BY <1>2, <2>6, <3>1, GotoWindow DEF cond_wait, At
    <3>3. \A k \in Lock : value'[k] = value[k]
      BY <1>1, <2>6 DEF cond_wait
    <3>4. /\ holder[l] = t /\ holder' = [holder EXCEPT ![l] = NULL]
          /\ \A k \in Lock : ~InWindow(t, k)
      BY ZenonT(40), <1>2, <2>6, <3>1 DEF cond_wait, At
    <3>5. QED
      BY Zenon, <3>2, <3>3, <3>4, SectionClear
  <2>7. ASSUME NEW c \in Condition, cond_signal(t, c) \/ cond_broadcast(t, c)
        PROVE  Goal
    BY <1>3, <2>7 DEF cond_signal, cond_broadcast, pop_waiter, At
  <2>8. ASSUME NEW u \in Thread, create_thread(t, u)
        PROVE  Goal
    <3>1. pc[t] = "run" /\ pc[u] = "run"
      BY <2>8 DEF create_thread, init_thread, At, LifeExact, Alive
    <3>2. \A v \in Thread, l \in Lock : (InWindow(v, l))' <=> InWindow(v, l)
      BY <2>8, <3>1 DEF create_thread, InWindow, StateExact
    <3>3. QED
      BY ZenonT(40), <2>8, <3>2, SectionFrame DEF create_thread
  <2>9. CASE exit(t) \/ yield(t)
    BY <1>4, <2>9 DEF exit, yield, synchVars
  <2>10. QED
    BY ZenonT(40), <1>9, <2>1, <2>2, <2>3, <2>4, <2>5, <2>6, <2>7, <2>8, <2>9 DEF Call
<1>10. ASSUME NEW t \in Thread, Finish(t)
      PROVE  Goal
  <2>1. CASE do_sema_down(t)
    BY ZenonT(40), <1>1, <1>6, <2>1, SemaphoresOfSteps DEF do_sema_down, At, StateExact, ArgFits
  <2>2. CASE lock_acquire_down(t)
    BY <1>5, <2>2, SemaphoresOfSteps DEF lock_acquire_down, At
  <2>3. CASE set_holder(t)
    <3>1. PICK l \in Lock : l = arg[t]
      BY <2>3, SemaphoresOfSteps DEF set_holder, At
    <3>2. /\ InWindow(t, l) /\ \A k \in Lock : InWindow(t, k) => k = l
          /\ UNCHANGED value /\ holder' = [holder EXCEPT ![l] = t]
      BY <2>3, <3>1 DEF set_holder, At, InWindow
    <3>3. \A u \in Thread, k \in Lock : (InWindow(u, k))' <=> InWindow(u, k) /\ u # t
      BY <2>3, GotoWindow DEF set_holder
    <3>4. QED
      BY Zenon, <3>2, <3>3, SectionStore
  <2>4. CASE lock_release_up(t)
    <3>1. PICK l \in Lock : l = arg[t]
      BY <2>4, SemaphoresOfSteps DEF lock_release_up, At
    <3>2. InWindow(t, l) /\ \A k \in Lock : InWindow(t, k) => k = l
      BY <2>4, <3>1 DEF lock_release_up, At, InWindow
    <3>3. QED
      BY <1>7, <2>4, <3>1, <3>2 DEF lock_release_up
  <2>5. CASE cond_release_up(t)
    <3>1. PICK l \in Lock : l = lock_of[arg[t]]
      BY <2>5, SemaphoresOfSteps DEF cond_release_up, At
    <3>2. InWindow(t, l) /\ \A k \in Lock : InWindow(t, k) => k = l
      BY <2>5, <3>1 DEF cond_release_up, At, InWindow
    <3>3. QED
      BY <1>7, <2>5, <3>1, <3>2 DEF cond_release_up
  <2>6. CASE cond_sleep(t)
    BY <1>1, <1>6, <2>6, SemaphoresOfSteps DEF cond_sleep, At
  <2>7. CASE cond_reacquire(t)
    BY <1>5, <2>7, SemaphoresOfSteps DEF cond_reacquire, At
  <2>8. CASE signal_up(t)
    <3>1. /\ arg[t].to \in Sem \ Lock /\ sema_up(arg[t].to) /\ Outside(pc[t])
          /\ UNCHANGED holder
      BY ZenonT(40), <1>1, <2>8, SemaphoresOfSteps DEF signal_up, At
    <3>2. QED
      BY Zenon, <1>3, <1>8, <2>8, <3>1 DEF signal_up
  <2>9. CASE broadcast_loop(t)
    BY <1>3, <2>9 DEF broadcast_loop, pop_waiter, At
  <2>10. CASE start_thread(t)
    BY <1>3, <2>10 DEF start_thread, At
  <2>11. QED
    BY ZenonT(40), <1>10, <2>1, <2>2, <2>3, <2>4, <2>5, <2>6, <2>7, <2>8, <2>9, <2>10 DEF Finish
<1>11. ASSUME NEW s \in Semaphore, do_sema_up(s)
      PROVE  Goal
  BY <1>1, <1>4, <1>8, <1>11 DEF do_sema_up, Sem
<1>12. CASE timer_interrupt \/ restore_level \/ idle \/ UNCHANGED vars
  BY ZenonT(40), <1>4, <1>12 DEF timer_interrupt, restore_level, idle, vars, synchVars
<1>13. QED
  BY <1>9, <1>10, <1>11, <1>12 DEF Next

-----------------------------------------------------------------------------
(* Condition variables *)

(* The thread is in cond_wait(), between joining the list and being awake. *)
Waiting(t) == pc[t] \in {"cond_release", "cond_sleep"}

(* The thread's waiter is on the list of a condition.                      *)
Queued(t) == \E c \in Condition : t \in Elems(cond_waiters[c])

(* Thread u has popped the waiter of t and has yet to call sema_up().      *)
Signals(u, t) == pc[u] = "signal" /\ arg[u].to = t

(* Somebody is about to signal the thread.                                 *)
Pending(t) == \E u \in Thread : Signals(u, t)

(* SignalsExact, by the number of places at which a signal is.             *)
OnePlace ==
  \A t \in Thread :
    IF Waiting(t)
    THEN \/ Queued(t) /\ ~Pending(t) /\ value[t] = 0
         \/ ~Queued(t) /\ Pending(t) /\ value[t] = 0
         \/ ~Queued(t) /\ ~Pending(t) /\ value[t] = 1
    ELSE ~Queued(t) /\ ~Pending(t) /\ value[t] = 0

(* No waiter is twice on the list of a condition.                          *)
NoneTwice == \A c \in Condition : NoDuplicates(cond_waiters[c])

(* The invariant SignalsExact of synch.c, put as the proofs use it.        *)
LEMMA OnePlaceIs == StateExact /\ QueueExact => (SignalsExact <=> NoneTwice /\ OnePlace)
<1> SUFFICES ASSUME StateExact, QueueExact
             PROVE  SignalsExact <=> NoneTwice /\ OnePlace
  OBVIOUS
<1>1. ASSUME NEW t \in Thread, Waiting(t)
      PROVE  Queued(t) <=> t \in Elems(cond_waiters[arg[t]])
  BY <1>1 DEF QueueExact, StateExact, ArgFits, Waiting, Queued
<1>2. QED
  BY <1>1 DEF SignalsExact, NoneTwice, OnePlace, Waiting, Queued, Pending, Signals

(* Steps that move no signal.                                              *)
LEMMA SignalFrame ==
  ASSUME StateExact, QueueExact, NoneTwice, OnePlace,
         UNCHANGED cond_waiters, \A t \in Thread : value'[t] = value[t],
         \A t \in Thread : /\ (Waiting(t))' <=> Waiting(t)
                           /\ Waiting(t) => arg'[t] = arg[t],
         \A u, t \in Thread : (Signals(u, t))' <=> Signals(u, t),
         \A u \in Thread : pc'[u] = "signal" => pc[u] = "signal" /\ arg'[u] = arg[u]
  PROVE  QueueExact' /\ NoneTwice' /\ OnePlace'
<1>1. \A t \in Thread : /\ (Queued(t))' <=> Queued(t)
                        /\ (Pending(t))' <=> Pending(t)
  BY Zenon DEF Queued, Pending, Elems
<1>2. OnePlace'
  BY Zenon, <1>1 DEF OnePlace
<1>3. NoneTwice'
  BY DEF NoneTwice, NoDuplicates
<1>4. \A c \in Condition : Elems(cond_waiters[c]) \subseteq Thread
  BY ElemsType DEF StateExact, DataExact
<1>5. QueueExact'
  BY <1>4 DEF QueueExact, Waiting, Signals, Elems
<1>6. QED
  BY <1>2, <1>3, <1>5

(* cond_wait() queues a thread that is queued nowhere.                     *)
LEMMA CondWaitSignals ==
  ASSUME StateExact, StateExact', QueueExact, NoneTwice, OnePlace,
         NEW t \in Thread, NEW c \in Condition, cond_wait(t, c)
  PROVE  QueueExact' /\ NoneTwice' /\ OnePlace'
<1>1. /\ cond_waiters \in [Condition -> Seq(Thread)] /\ cond_waiters[c] \in Seq(Thread)
      /\ value \in [Sem -> Nat] /\ Thread \subseteq Sem /\ pc[t] = "run"
      /\ ~Queued(t) /\ ~Pending(t)
  BY Zenon DEF StateExact, DataExact, Sem, cond_wait, At, OnePlace, Waiting
<1>2. /\ pc'[t] = "cond_release" /\ arg'[t] = c
      /\ \A u \in Thread \ {t} : pc'[u] = pc[u] /\ arg'[u] = arg[u]
      /\ value'[t] = 0 /\ \A u \in Thread \ {t} : value'[u] = value[u]
  BY <1>1 DEF cond_wait, Goto, StateExact
<1>3. /\ cond_waiters'[c] = Append(cond_waiters[c], t)
      /\ \A d \in Condition \ {c} : cond_waiters'[d] = cond_waiters[d]
  BY <1>1 DEF cond_wait
<1>4. Elems(Append(cond_waiters[c], t)) = Elems(cond_waiters[c]) \cup {t}
  BY <1>1, AppendElems
<1>5. \A d \in Condition : Elems(cond_waiters'[d]) =
        Elems(cond_waiters[d]) \cup (IF d = c THEN {t} ELSE {})
  BY ZenonT(40), <1>3, <1>4
<1>6. QueueExact'
  <2>1. \A d \in Condition : Elems(cond_waiters[d]) \subseteq Thread \ {t}
    BY <1>1, ElemsType DEF Queued
  <2>2. ASSUME NEW d \in Condition, NEW u \in Elems(cond_waiters'[d])
        PROVE  pc'[u] \in {"cond_release", "cond_sleep"} /\ arg'[u] = d
    <3>1. CASE u = t
      <4>1. d = c
        BY <1>5, <2>1, <2>2, <3>1
      <4>2. QED
        BY Zenon, <1>2, <3>1, <4>1
    <3>2. CASE u # t
      BY ZenonT(40), <1>2, <1>5, <2>1, <2>2, <3>2 DEF QueueExact
    <3>3. QED
      BY <3>1, <3>2
  <2>3. \A u \in Thread : pc'[u] = "signal" => u # t
    BY <1>2
  <2>4. QED
    BY SMTT(40), <1>2, <2>2, <2>3 DEF QueueExact, Elems
<1>7. \A u \in Thread : (Queued(u))' <=> Queued(u) \/ u = t
  BY Zenon, <1>5 DEF Queued, Elems
<1>8. \A u \in Thread : (Pending(u))' <=> Pending(u)
  BY ZenonT(40), <1>1, <1>2 DEF Pending, Signals
<1>9. OnePlace'
  BY <1>1, <1>2, <1>7, <1>8 DEF OnePlace, Waiting
<1>10. NoDuplicates(Append(cond_waiters[c], t))
  BY <1>1, NoDuplicatesAppend DEF NoneTwice, Queued
<1>11. NoneTwice'
  <2>1. \A d \in Condition : NoDuplicates(cond_waiters'[d])
    BY Zenon, <1>3, <1>10 DEF NoneTwice
  <2>2. QED
    BY Zenon, <2>1 DEF NoneTwice, NoDuplicates
<1>12. QED
  BY <1>6, <1>9, <1>11

(* cond_signal() and cond_broadcast() take the first waiter off the queue. *)
LEMMA PopSignals ==
  ASSUME StateExact, StateExact', QueueExact, NoneTwice, OnePlace,
         NEW t \in Thread, ~Waiting(t), pc[t] # "signal",
         NEW c \in Condition, NEW again, pop_waiter(t, c, again)
  PROVE  QueueExact' /\ NoneTwice' /\ OnePlace'
<1> DEFINE h == Head(cond_waiters[c])
<1>1. /\ cond_waiters \in [Condition -> Seq(Thread)] /\ cond_waiters[c] \in Seq(Thread)
      /\ cond_waiters[c] # <<>>
  BY Zenon DEF StateExact, DataExact, pop_waiter
<1>2. /\ h \in Thread /\ h \in Elems(cond_waiters[c])
      /\ Elems(Tail(cond_waiters[c])) = Elems(cond_waiters[c]) \ {h}
      /\ NoDuplicates(Tail(cond_waiters[c]))
  BY ZenonT(40), <1>1, TailElems DEF NoneTwice, NoDuplicates
<1>3. /\ pc'[t] = "signal" /\ arg'[t].to = h
      /\ \A u \in Thread \ {t} : pc'[u] = pc[u] /\ arg'[u] = arg[u]
      /\ UNCHANGED value
  BY DEF pop_waiter, Goto, StateExact
<1>4. /\ cond_waiters'[c] = Tail(cond_waiters[c])
      /\ \A d \in Condition \ {c} : cond_waiters'[d] = cond_waiters[d]
  BY Zenon, <1>1 DEF pop_waiter
<1> HIDE DEF h
<1>5. Waiting(h) /\ arg[h] = c /\ Queued(h) /\ ~Pending(h) /\ value[h] = 0
  <2>1. Waiting(h) /\ arg[h] = c /\ Queued(h)
    BY <1>2 DEF QueueExact, Waiting, Queued
  <2>2. QED
    BY ZenonT(40), <1>2, <2>1 DEF OnePlace
<1>6. h # t
  BY Zenon, <1>5
<1>7. \A d \in Condition : Elems(cond_waiters'[d]) = Elems(cond_waiters[d]) \ {h}
  <2>1. \A d \in Condition \ {c} : h \notin Elems(cond_waiters[d])
    BY <1>5 DEF QueueExact
  <2>2. QED
    BY ZenonT(40), <1>2, <1>4, <2>1
<1>8. \A d \in Condition : Elems(cond_waiters[d]) \subseteq Thread \ {t}
  BY ZenonT(40), <1>1, ElemsType DEF QueueExact, Waiting
<1>9. QueueExact'
  <2>1. ASSUME NEW d \in Condition, NEW u \in Elems(cond_waiters'[d])
        PROVE  pc'[u] \in {"cond_release", "cond_sleep"} /\ arg'[u] = d
    BY ZenonT(40), <1>3, <1>7, <1>8, <2>1 DEF QueueExact
  <2>2. \A u \in Thread : pc[u] = "signal" => arg[u].to # h
    BY Zenon, <1>5 DEF Pending, Signals
  <2>3. \A u, v \in Thread :
          pc'[u] = "signal" /\ pc'[v] = "signal" /\ arg'[u].to = arg'[v].to => u = v
    BY SMTT(40), <1>3, <2>2 DEF QueueExact
  <2>4. QED
    BY Zenon, <2>1, <2>3 DEF QueueExact, Elems
<1>10. \A u \in Thread : (Queued(u))' <=> Queued(u) /\ u # h
  BY <1>7 DEF Queued, Elems
<1>11. \A u \in Thread : (Pending(u))' <=> Pending(u) \/ u = h
  BY Zenon, <1>3, <1>6 DEF Pending, Signals
<1>12. OnePlace'
  <2>1. \A u \in Thread : (Waiting(u))' <=> Waiting(u)
    BY Zenon, <1>3 DEF Waiting
  <2>2. QED
    BY ZenonT(40), <1>3, <1>5, <1>10, <1>11, <2>1 DEF OnePlace
<1>13. NoneTwice'
  <2>1. \A d \in Condition : NoDuplicates(cond_waiters'[d])
    BY <1>2, <1>4 DEF NoneTwice
  <2>2. QED
    BY <2>1 DEF NoneTwice, NoDuplicates
<1>14. QED
  BY Zenon, <1>9, <1>12, <1>13

(* The waiter's semaphore is upped by the one thread that signals it.      *)
LEMMA UpSignals ==
  ASSUME StateExact, StateExact', QueueExact, NoneTwice, OnePlace,
         NEW t \in Thread, signal_up(t)
  PROVE  QueueExact' /\ NoneTwice' /\ OnePlace'
<1>1. PICK h \in Thread : h = arg[t].to
  BY SemaphoresOfSteps DEF signal_up, At
<1>2. /\ pc[t] = "signal" /\ pc'[t] \in {"broadcast", "run"}
      /\ \A u \in Thread \ {t} : pc'[u] = pc[u] /\ arg'[u] = arg[u]
      /\ UNCHANGED cond_waiters
  BY Zenon DEF signal_up, At, Goto, StateExact
<1>3. value'[h] = value[h] + 1 /\ \A u \in Thread \ {h} : value'[u] = value[u]
  BY <1>1 DEF signal_up, sema_up, StateExact, DataExact, Sem
<1>4. Signals(t, h) /\ Pending(h)
  BY <1>1, <1>2 DEF Signals, Pending
<1>5. Waiting(h) /\ ~Queued(h) /\ value[h] = 0
  BY <1>4 DEF OnePlace
<1>6. \A u \in Thread : (Queued(u))' <=> Queued(u)
  BY <1>2 DEF Queued, Elems
<1>7. \A u, v \in Thread : (Signals(u, v))' <=> Signals(u, v) /\ u # t
  BY <1>2 DEF Signals
<1>8. \A u \in Thread : (Pending(u))' <=> Pending(u) /\ u # h
  <2>1. \A u, v \in Thread : Signals(u, v) /\ u # t => v # h
    BY <1>1, <1>2 DEF Signals, QueueExact
  <2>2. \A v \in Thread : Signals(t, v) => v = h
    BY ZenonT(40), <1>1 DEF Signals
  <2>3. QED
    BY ZenonT(40), <1>7, <2>1, <2>2 DEF Pending
<1>9. OnePlace'
  <2>1. \A u \in Thread : (Waiting(u))' <=> Waiting(u)
    BY <1>2 DEF Waiting
  <2>2. QED
    BY SMTT(40), <1>3, <1>5, <1>6, <1>8, <2>1 DEF OnePlace
<1>10. \A d \in Condition : Elems(cond_waiters[d]) \subseteq Thread \ {t}
  BY ZenonT(40), <1>2, ElemsType DEF QueueExact, StateExact, DataExact
<1>11. QueueExact' /\ NoneTwice'
  BY <1>2, <1>10 DEF QueueExact, Elems, NoneTwice, NoDuplicates
<1>12. QED
  BY <1>9, <1>11

(* A waiter leaves with the one unit of its semaphore.                     *)
LEMMA SleepSignals ==
  ASSUME StateExact, StateExact', QueueExact, NoneTwice, OnePlace,
         NEW t \in Thread, cond_sleep(t)
  PROVE  QueueExact' /\ NoneTwice' /\ OnePlace'
<1>1. CASE UNCHANGED <<value, pc, arg>>
  BY <1>1, SignalFrame DEF cond_sleep, Waiting, Signals
<1>2. CASE /\ value[t] > 0
           /\ value' = [value EXCEPT ![t] = @ - 1]
           /\ Goto(t, "cond_reacquire", arg[t])
  <2>1. /\ value \in [Sem -> Nat] /\ Thread \subseteq Sem
        /\ UNCHANGED cond_waiters /\ pc[t] = "cond_sleep"
    BY DEF StateExact, DataExact, Sem, cond_sleep, At
  <2>2. /\ pc'[t] = "cond_reacquire"
        /\ \A u \in Thread \ {t} : pc'[u] = pc[u] /\ arg'[u] = arg[u]
    BY <1>2 DEF Goto, StateExact
  <2>3. value[t] = 1 /\ ~Queued(t) /\ ~Pending(t)
    BY <1>2, <2>1 DEF OnePlace
  <2>4. value'[t] = 0 /\ \A u \in Thread \ {t} : value'[u] = value[u]
    <3>1. value'[t] = value[t] - 1 /\ \A u \in Thread \ {t} : value'[u] = value[u]
      BY Zenon, <1>2, <2>1
    <3>2. QED
      BY <2>3, <3>1
  <2>5. \A u \in Thread : /\ (Queued(u))' <=> Queued(u)
                          /\ (Pending(u))' <=> Pending(u)
    BY Zenon, <2>1, <2>2 DEF Queued, Elems, Pending, Signals
  <2>6. OnePlace'
    BY Zenon, <2>1, <2>2, <2>3, <2>4, <2>5 DEF OnePlace, Waiting
  <2>7. \A d \in Condition : Elems(cond_waiters[d]) \subseteq Thread \ {t}
    <3>1. \A d \in Condition : Elems(cond_waiters[d]) \subseteq Thread
      BY ZenonT(40), ElemsType DEF StateExact, DataExact
    <3>2. QED
      BY Zenon, <2>3, <3>1 DEF Queued
  <2>8. QueueExact'
    <3>1. \A d \in Condition : \A u \in Elems(cond_waiters[d]) :
            pc'[u] \in {"cond_release", "cond_sleep"} /\ arg'[u] = d
      BY Zenon, <2>2, <2>7 DEF QueueExact
    <3>2. \A u \in Thread : pc'[u] = "signal" => u # t
      BY Zenon, <2>2
    <3>3. \A u, v \in Thread :
            pc'[u] = "signal" /\ pc'[v] = "signal" /\ arg'[u].to = arg'[v].to => u = v
      <4> SUFFICES ASSUME NEW u \in Thread, NEW v \in Thread, pc'[u] = "signal",
                          pc'[v] = "signal", arg'[u].to = arg'[v].to
                   PROVE  u = v
        BY Zenon
      <4>1. /\ pc[u] = "signal" /\ arg'[u] = arg[u]
            /\ pc[v] = "signal" /\ arg'[v] = arg[v]
        BY Zenon, <2>2, <3>2
      <4>2. arg[u].to = arg[v].to
        BY Zenon, <4>1
      <4>3. QED
        BY Zenon, <4>1, <4>2 DEF QueueExact
    <3>4. QED
      BY <2>1, <3>1, <3>3 DEF QueueExact, Elems
  <2>9. NoneTwice'
    <3>1. cond_waiters' = cond_waiters
      BY Zenon, <2>1
    <3>2. QED
      BY <3>1 DEF NoneTwice, NoDuplicates
  <2>10. QED
    BY Zenon, <2>6, <2>8, <2>9
<1>3. QED
  BY ZenonT(40), <1>1, <1>2 DEF cond_sleep, sema_down

(* Every step keeps every signal in one place.                             *)
LEMMA SignalStep ==
  ASSUME SchedInv, StateExact, StateExact', LifeExact, QueueExact, NoneTwice, OnePlace,
         [Next]_vars
  PROVE  QueueExact' /\ NoneTwice' /\ OnePlace'
<1> DEFINE Goal == QueueExact' /\ NoneTwice' /\ OnePlace'
           Quiet(label) == label \notin {"cond_release", "cond_sleep", "signal"}
<1>1. /\ value \in [Sem -> Nat] /\ Thread \subseteq Sem
      /\ \A t \in Thread : t \notin Semaphore /\ t \notin Lock
  BY ZenonT(40), SynchAssumption DEF StateExact, DataExact, Sem
<1>2. ASSUME NEW t \in Thread, Quiet(pc[t]), NEW label, Quiet(label), NEW a,
             Goto(t, label, a), UNCHANGED cond_waiters,
             \A u \in Thread : value'[u] = value[u]
      PROVE  Goal
  <2>1. /\ pc'[t] = label
        /\ \A u \in Thread \ {t} : pc'[u] = pc[u] /\ arg'[u] = arg[u]
    BY <1>2 DEF Goto, StateExact
  <2>2. QED
    BY ZenonT(40), <1>2, <2>1, SignalFrame DEF Waiting, Signals
<1>3. ASSUME UNCHANGED <<cond_waiters, pc, arg>>, \A u \in Thread : value'[u] = value[u]
      PROVE  Goal
  BY Zenon, <1>3, SignalFrame DEF Waiting, Signals
<1>4. ASSUME NEW t \in Thread, Quiet(pc[t]), NEW s \in Semaphore \cup Lock, NEW label,
             Quiet(label), NEW a, sema_down(t, s, label, a, "ON"), UNCHANGED cond_waiters
      PROVE  Goal
  <2>1. \A u \in Thread : value'[u] = value[u]
    BY <1>1, <1>4 DEF sema_down
  <2>2. QED
    BY ZenonT(40), <1>2, <1>3, <1>4, <2>1 DEF sema_down
<1>5. ASSUME NEW s \in Semaphore \cup Lock, sema_up(s)
      PROVE  \A u \in Thread : value'[u] = value[u]
  BY Zenon, <1>1, <1>5 DEF sema_up
<1>6. ASSUME NEW t \in Thread, Call(t)
      PROVE  Goal
  <2>1. ASSUME NEW s \in Semaphore, call_sema_down(t, s)
        PROVE  Goal
    BY <1>2, <2>1 DEF call_sema_down, At
  <2>2. ASSUME NEW s \in Semaphore, sema_try_down(t, s)
        PROVE  Goal
    BY Zenon, <1>1, <1>3, <2>2 DEF sema_try_down
  <2>3. ASSUME NEW l \in Lock, lock_acquire(t, l)
        PROVE  Goal
    BY Zenon, <1>2, <2>3 DEF lock_acquire, At
  <2>4. ASSUME NEW l \in Lock, lock_try_acquire(t, l)
        PROVE  Goal
    <3>1. \A u \in Thread : value'[u] = value[u]
      BY ZenonT(40), <1>1, <2>4 DEF lock_try_acquire
    <3>2. QED
      BY Zenon, <1>2, <2>4, <3>1 DEF lock_try_acquire, At
  <2>5. ASSUME NEW l \in Lock, lock_release(t, l)
        PROVE  Goal
    BY <1>2, <2>5 DEF lock_release, At
  <2>6. ASSUME NEW c \in Condition, cond_wait(t, c)
        PROVE  Goal
    BY <2>6, CondWaitSignals
  <2>7. ASSUME NEW c \in Condition, cond_signal(t, c) \/ cond_broadcast(t, c)
        PROVE  Goal
    BY Zenon, <2>7, PopSignals DEF cond_signal, cond_broadcast, At, Waiting
  <2>8. ASSUME NEW u \in Thread, create_thread(t, u)
        PROVE  Goal
    <3>1. pc[t] = "run" /\ pc[u] = "run"
      BY <2>8 DEF create_thread, init_thread, At, LifeExact, Alive
    <3>2. /\ \A v \in Thread \ {t} : pc'[v] = pc[v]
          /\ \A v \in Thread \ {t, u} : arg'[v] = arg[v]
          /\ pc'[t] \in {"create", "run"}
          /\ UNCHANGED <<value, cond_waiters>>
      BY <2>8, <3>1 DEF create_thread, StateExact
    <3>3. QED
      BY ZenonT(40), <3>1, <3>2, SignalFrame DEF Waiting, Signals
  <2>9. CASE exit(t) \/ yield(t)
    BY Zenon, <1>3, <2>9 DEF exit, yield, synchVars
  <2>10. QED
    BY ZenonT(40), <1>6, <2>1, <2>2, <2>3, <2>4, <2>5, <2>6, <2>7, <2>8, <2>9 DEF Call
<1>7. ASSUME NEW t \in Thread, Finish(t)
      PROVE  Goal
  <2> USE SemaphoresOfSteps
  <2>1. CASE do_sema_down(t)
    BY ZenonT(40), <1>4, <2>1 DEF do_sema_down, At, StateExact, ArgFits
  <2>2. CASE lock_acquire_down(t)
    BY Zenon, <1>4, <2>2 DEF lock_acquire_down, At
  <2>3. CASE set_holder(t)
    BY Zenon, <1>2, <2>3 DEF set_holder, At
  <2>4. CASE lock_release_up(t)
    BY Zenon, <1>2, <1>5, <2>4 DEF lock_release_up, At
  <2>5. CASE cond_release_up(t)
    <3>1. /\ pc[t] = "cond_release" /\ pc'[t] = "cond_sleep" /\ arg'[t] = arg[t]
          /\ \A u \in Thread \ {t} : pc'[u] = pc[u] /\ arg'[u] = arg[u]
          /\ UNCHANGED cond_waiters
      BY <2>5 DEF cond_release_up, At, Goto, StateExact
    <3>2. \A u \in Thread : value'[u] = value[u]
      BY Zenon, <1>5, <2>5 DEF cond_release_up, At
    <3>3. QED
      BY ZenonT(40), <3>1, <3>2, SignalFrame DEF Waiting, Signals
  <2>6. CASE cond_sleep(t)
    BY ZenonT(40), <2>6, SleepSignals
  <2>7. CASE cond_reacquire(t)
    BY ZenonT(40), <1>4, <2>7 DEF cond_reacquire, At
  <2>8. CASE signal_up(t)
    BY <2>8, UpSignals
  <2>9. CASE broadcast_loop(t)
    <3>1. pc[t] = "broadcast" /\ arg[t] \in Condition
      BY Zenon, <2>9 DEF broadcast_loop, At, StateExact, ArgFits
    <3>2. QED
      BY ZenonT(40), <1>2, <2>9, <3>1, PopSignals DEF broadcast_loop, Waiting
  <2>10. CASE start_thread(t)
    BY Zenon, <1>2, <2>10 DEF start_thread, At
  <2>11. QED
    BY ZenonT(40), <1>7, <2>1, <2>2, <2>3, <2>4, <2>5, <2>6, <2>7, <2>8, <2>9, <2>10 DEF Finish
<1>8. ASSUME NEW s \in Semaphore, do_sema_up(s)
      PROVE  Goal
  BY ZenonT(40), <1>3, <1>5, <1>8 DEF do_sema_up
<1>9. CASE timer_interrupt \/ restore_level \/ idle \/ UNCHANGED vars
  BY <1>3, <1>9 DEF timer_interrupt, restore_level, idle, vars, synchVars
<1>10. QED
  BY Zenon, <1>6, <1>7, <1>8, <1>9 DEF Next

-----------------------------------------------------------------------------
(* The invariant *)

(* The primitives start with no waiters, free locks and no signals.        *)
LEMMA SynchStart == Init => SynchInv
<1> SUFFICES ASSUME Init PROVE SynchInv
  OBVIOUS
<1>1. SchedInv
  BY Zenon, SchedStart DEF Init
<1>2. StateExact
  BY SynchAssumption DEF Init, StateExact, DataExact, ArgFits, Label, Sem
<1>3. LifeExact
  BY FS_EmptySet DEF Init, LifeExact
<1>4. WaitListsExact /\ WakeupExact
  BY DEF Init, WaitListsExact, WakeupExact, NoDuplicates, Elems
<1>5. SectionExact
  BY SynchAssumption DEF Init, SectionExact, InSection, InWindow, Sem
<1>6. QueueExact
  BY DEF Init, QueueExact, Elems
<1>7. SignalsExact
  BY SynchAssumption DEF Init, SignalsExact, NoDuplicates, Elems, Sem
<1>8. QED
  BY ZenonT(40), <1>1, <1>2, <1>3, <1>4, <1>5, <1>6, <1>7 DEF SynchInv

(* Every step of every primitive preserves the invariant.                  *)
LEMMA SynchStep == SynchInv /\ [Next]_vars => SynchInv'
<1> SUFFICES ASSUME SynchInv, [Next]_vars PROVE SynchInv'
  OBVIOUS
<1> USE DEF SynchInv
<1>1. SchedInv'
  BY NextSched, SchedStep
<1>2. StateExact'
  BY StateStep
<1>3. LifeExact'
  BY <1>2, LifeStep
<1>4. WaitListsExact' /\ WakeupExact'
  BY <1>2, WaitStep
<1>5. SectionExact'
  BY <1>2, SectionStep
<1>6. NoneTwice /\ OnePlace
  BY OnePlaceIs
<1>7. QueueExact' /\ NoneTwice' /\ OnePlace'
  BY <1>2, <1>6, SignalStep
<1>8. StateExact' /\ QueueExact' => (SignalsExact' <=> NoneTwice' /\ OnePlace')
  BY OnePlaceIs, PTL
<1>9. QED
  BY ZenonT(40), <1>1, <1>2, <1>3, <1>4, <1>5, <1>7, <1>8

(* The inductive invariant of synch.c.                                     *)
THEOREM SynchInvariant == Spec => []SynchInv
BY SynchStart, SynchStep, PTL DEF Spec

(* thread.c's invariants hold with synch.c on top, and every step of a     *)
(* primitive is a step of the scheduler.                                   *)
THEOREM PrimitivesAreSchedulerSteps == Spec => RefinesScheduler
<1>1. Init => SchedInit
  BY DEF Init
<1>2. SynchInv /\ [Next]_vars => [SchedNext]_schedVars
  BY NextSched DEF SynchInv
<1>3. QED
  BY <1>1, <1>2, SynchInvariant, PTL DEF Spec, RefinesScheduler, SchedSpec

(* Wait lists hold exactly the sleepers, and as long as somebody sleeps on *)
(* a semaphore every unit it has was announced to a thread that is awake.  *)
THEOREM WakeupsAreNotLost == Spec => []NoLostWakeup
<1>1. SynchInv => NoLostWakeup
  <2> SUFFICES ASSUME SynchInv PROVE NoLostWakeup
    OBVIOUS
  <2>1. \A t \in slept : t \in Thread /\ SemaOf(t) \in Sem
    BY SemaOfIs DEF SynchInv, LifeExact
  <2>2. TypeOK
    BY ZenonT(40), <2>1 DEF SynchInv, TypeOK, SchedInv, StateExact, DataExact
  <2>3. QED
    BY <2>2 DEF SynchInv, NoLostWakeup, WakeupExact
<1>2. QED
  BY <1>1, SynchInvariant, PTL

(* A lock is in one section at most, and a free lock has one unit.         *)
THEOREM OneOwner == Spec => []LockConserved
<1>1. SynchInv => LockConserved
  <2> SUFFICES ASSUME SynchInv, NEW l \in Lock
               PROVE  value[l] + Cardinality({t \in Thread : InSection(t, l)}) = 1
    BY DEF LockConserved
  <2>1. CASE value[l] = 1 /\ \A t \in Thread : ~InSection(t, l)
    <3>1. {t \in Thread : InSection(t, l)} = {}
      BY <2>1
    <3>2. QED
      BY <2>1, <3>1, FS_EmptySet
  <2>2. ASSUME value[l] = 0, NEW t \in Thread, InSection(t, l)
        PROVE  value[l] + Cardinality({u \in Thread : InSection(u, l)}) = 1
    <3>1. {u \in Thread : InSection(u, l)} = {t}
      BY <2>2 DEF SynchInv, SectionExact
    <3>2. Cardinality({t}) = 1
      BY FS_Singleton
    <3>3. QED
      BY SMTT(40), <2>2, <3>1, <3>2
  <2>3. QED
    BY <2>1, <2>2 DEF SynchInv, SectionExact
<1>2. QED
  BY <1>1, SynchInvariant, PTL

(* A waiter is queued, or being signalled, or signalled: one of the three. *)
THEOREM SignalsAreExact == Spec => []SignalsExact
<1>1. SynchInv => SignalsExact
  BY DEF SynchInv
<1>2. QED
  BY <1>1, SynchInvariant, PTL

-----------------------------------------------------------------------------
(* Locks implement Mutex. *)

(* The owner of a lock, as the refinement mapping of RefinesMutex has it.  *)
Owner(l) == IF \E t \in Thread : InSection(t, l)
            THEN CHOOSE t \in Thread : InSection(t, l)
            ELSE NULL

(* The owner of a lock is the thread in its section.                       *)
OwnerFacts ==
  \A l \in Lock :
    /\ \A t \in Thread : InSection(t, l) <=> Owner(l) = t
    /\ (\A t \in Thread : ~InSection(t, l)) <=> Owner(l) = NULL

(* SectionExact makes Owner well defined.                                  *)
LEMMA OwnerIs == SynchInv => OwnerFacts
<1> SUFFICES ASSUME SynchInv, NEW l \in Lock
             PROVE  /\ \A t \in Thread : InSection(t, l) <=> Owner(l) = t
                    /\ (\A t \in Thread : ~InSection(t, l)) <=> Owner(l) = NULL
  BY DEF OwnerFacts
<1>1. CASE \A t \in Thread : ~InSection(t, l)
  <2>1. Owner(l) = NULL
    BY ZenonT(40), <1>1 DEF Owner
  <2>2. QED
    BY <1>1, <2>1, SynchAssumption
<1>2. ASSUME NEW t \in Thread, InSection(t, l)
      PROVE  Owner(l) = t /\ \A u \in Thread : InSection(u, l) => u = t
  BY <1>2 DEF Owner, SynchInv, SectionExact
<1>3. QED
  BY ZenonT(40), <1>1, <1>2, SynchAssumption

(* Entering a section is Acquire, leaving it is Release.                   *)
LEMMA MutexStep ==
  SynchInv /\ SynchInv' /\ [Next]_vars
  => [Abstract!MutexNext]_([l \in Lock |-> Owner(l)])
<1> SUFFICES ASSUME SynchInv, SynchInv', [Next]_vars
             PROVE  [Abstract!MutexNext]_([l \in Lock |-> Owner(l)])
  OBVIOUS
<1>1. OwnerFacts /\ OwnerFacts'
  <2>1. SynchInv' => OwnerFacts'
    BY OwnerIs, PTL
  <2>2. QED
    BY <2>1, OwnerIs
<1>2. SectionMove
  BY SectionStep DEF SynchInv
<1>3. \A l \in Lock : (\A u \in Thread : (InSection(u, l))' <=> InSection(u, l))
        => (Owner(l))' = Owner(l)
  BY <1>1 DEF OwnerFacts
<1>4. CASE \A u \in Thread, k \in Lock : (InSection(u, k))' <=> InSection(u, k)
  BY <1>3, <1>4
<1>5. ASSUME NEW t \in Thread, NEW l \in Lock,
             \A u \in Thread : ~InSection(u, l),
             \A u \in Thread, k \in Lock :
               (InSection(u, k))' <=> InSection(u, k) \/ (u = t /\ k = l)
      PROVE  Abstract!MutexNext
  <2>1. Owner(l) = NULL /\ (Owner(l))' = t /\ \A k \in Lock \ {l} : (Owner(k))' = Owner(k)
    BY <1>1, <1>3, <1>5 DEF OwnerFacts
  <2>2. Abstract!Acquire(t, l)
    BY Zenon, <2>1 DEF Abstract!Acquire, Owner
  <2>3. QED
    BY <2>2 DEF Abstract!MutexNext
<1>6. ASSUME NEW t \in Thread, NEW l \in Lock, InSection(t, l),
             \A u \in Thread, k \in Lock :
               (InSection(u, k))' <=> InSection(u, k) /\ ~(u = t /\ k = l)
      PROVE  Abstract!MutexNext
  <2>1. \A u \in Thread : ~(InSection(u, l))'
    BY ZenonT(40), <1>1, <1>6 DEF OwnerFacts
  <2>2. Owner(l) = t /\ (Owner(l))' = NULL /\ \A k \in Lock \ {l} : (Owner(k))' = Owner(k)
    BY ZenonT(40), <1>1, <1>3, <1>6, <2>1 DEF OwnerFacts
  <2>3. Abstract!Release(t, l)
    BY Zenon, <2>2 DEF Abstract!Release, Owner
  <2>4. QED
    BY <2>3 DEF Abstract!MutexNext
<1>7. QED
  BY SMTT(40), <1>2, <1>4, <1>5, <1>6 DEF SectionMove

(* `A lock can be held by at most a single thread at any given time': lock *)
(* acquisition and release, cond_wait() included, implement Mutex.         *)
THEOREM LocksImplementMutex == Spec => RefinesMutex
<1>1. Init => Abstract!MutexInit
  <2> SUFFICES ASSUME Init PROVE Abstract!MutexInit
    OBVIOUS
  <2>1. \A t \in Thread, l \in Lock : ~InSection(t, l)
    BY SynchAssumption DEF Init, InSection
  <2>2. QED
    BY <2>1 DEF Abstract!MutexInit
<1>2. SynchInv /\ SynchInv' /\ [Next]_vars
      => [Abstract!MutexNext]_([l \in Lock |-> IF \E t \in Thread : InSection(t, l)
                                               THEN CHOOSE t \in Thread : InSection(t, l)
                                               ELSE NULL])
  BY MutexStep DEF Owner
<1>3. QED
  BY <1>1, <1>2, SynchStep, SynchInvariant, PTL
  DEF Spec, RefinesMutex, Abstract!MutexSpec
=============================================================================
