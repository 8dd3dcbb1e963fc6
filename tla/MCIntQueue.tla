----------------------------- MODULE MCIntQueue -----------------------------
EXTENDS IntQueue

NoLocks == [c \in Condition |-> q_lock]
=============================================================================
