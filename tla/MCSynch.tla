------------------------------ MODULE MCSynch ------------------------------
(* Model-checking instances of Synch. *)
EXTENDS Synch

(* Every condition variable is used with the one lock of the instance. *)
OneLock == [c \in Condition |-> CHOOSE l \in Lock : TRUE]
=============================================================================
