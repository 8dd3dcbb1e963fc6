------------------------------- MODULE Mutex -------------------------------
(***************************************************************************)
(* What struct lock promises: every lock is free or owned by one thread,   *)
(* is taken only when free and is given up only by its owner.              *)
(***************************************************************************)
CONSTANTS Thread, Lock, NULL

VARIABLE owner

MutexInit == owner = [l \in Lock |-> NULL]

Acquire(t, l) == owner[l] = NULL /\ owner' = [owner EXCEPT ![l] = t]

Release(t, l) == owner[l] = t /\ owner' = [owner EXCEPT ![l] = NULL]

MutexNext == \E t \in Thread, l \in Lock : Acquire(t, l) \/ Release(t, l)

MutexSpec == MutexInit /\ [][MutexNext]_owner
=============================================================================
