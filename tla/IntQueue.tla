------------------------------ MODULE IntQueue ------------------------------
(***************************************************************************)
(* The interrupt queue of devices/intq.c: a ring of bytes with threads on  *)
(* one side and an interrupt handler on the other.  The keyboard buffer    *)
(* (input.c) is read by threads and filled by the keyboard and serial      *)
(* handlers; the transmit queue (serial.c) is filled by threads and        *)
(* drained by the serial handler.                                          *)
(*                                                                         *)
(* Threads run the queue code with interrupts off; other threads and       *)
(* handlers run only while they sleep in lock_acquire() or in wait().      *)
(***************************************************************************)
EXTENDS Synch

CONSTANTS
  INTQ_BUFSIZE,
  q_lock,       \* the lock of the queue
  Reader,       \* threads that call input_getc()
  Writer,       \* threads that call serial_putc()
  MaxBytes      \* bound on the bytes that pass through the queue

ASSUME IntqAssumption ==
  /\ INTQ_BUFSIZE \in Nat \ {0, 1}
  /\ q_lock \in Lock
  /\ Reader \cup Writer \subseteq Thread \ {idle_thread}
  /\ \A t, u \in Writer : t = u     \* console.c:184: under the console lock
  /\ MaxBytes \in Nat

VARIABLES
  side,              \* what threads call, the handler does the other: "getc" on
                     \* the keyboard buffer, "putc" on the transmit queue
  buf, head, tail,   \* struct intq; the i-th byte ever put is written i
  waiter,            \* not_empty if threads read, not_full if they write
  sent, received,    \* bytes put into and taken from the queue so far
  panic              \* an ASSERT has failed; the machine has stopped

ring == <<buf, head, tail, sent, received>>
queueVars == <<side, ring, waiter, panic>>
intqVars == <<vars, queueVars>>

IntqInit ==
  /\ Init
  /\ side \in {"getc", "putc"}
  /\ buf = [i \in 0 .. INTQ_BUFSIZE - 1 |-> 0]
  /\ head = 0
  /\ tail = 0
  /\ waiter = NULL
  /\ sent = 0
  /\ received = 0
  /\ panic = FALSE

Caller == IF side = "getc" THEN Reader ELSE Writer

-----------------------------------------------------------------------------
next(pos) == (pos + 1) % INTQ_BUFSIZE

intq_empty == head = tail

(* Mutant: the wraparound is forgotten in the test for a full ring.        *)
full_without_wrap == head + 1 = tail

intq_full == next(head) = tail

(* The condition under which the calling threads have to sleep.            *)
MustWait == IF side = "getc" THEN intq_empty ELSE intq_full

take_byte ==
  /\ ~intq_empty
  /\ tail' = next(tail)
  /\ received' = received + 1
  /\ UNCHANGED <<buf, head, sent>>

put_byte ==
  /\ ~intq_full
  /\ buf' = [buf EXCEPT ![head] = sent + 1]
  /\ head' = next(head)
  /\ sent' = sent + 1
  /\ UNCHANGED <<tail, received>>

(* The side the threads are on, and the other side, which alone signals a  *)
(* waiting thread: nobody ever waits for the condition the threads signal. *)
thread_byte == IF side = "getc" THEN take_byte ELSE put_byte

handler_byte == IF side = "getc" THEN put_byte ELSE take_byte

(* Mutant: the waiter is woken but not forgotten.                          *)
signal_keeps_waiter ==
  /\ IF waiter # NULL THEN thread_unblock(waiter) ELSE UNCHANGED schedVars
  /\ UNCHANGED waiter

(* Mutant: nobody is woken.                                                *)
signal_nobody == UNCHANGED <<schedVars, waiter>>

signal ==
  \/ waiter # NULL /\ thread_unblock(waiter) /\ waiter' = NULL
  \/ waiter = NULL /\ UNCHANGED <<schedVars, waiter>>

-----------------------------------------------------------------------------
(* A thread inside the queue code.                                         *)
InQueue(t, label) == current = t /\ intr = "OFF" /\ pc[t] = label

Busy == {t \in Caller : pc[t] \notin {"run", "create"}}

(* input_getc() or serial_putc(): interrupts off, then the queue.          *)
call_intq(t) ==
  /\ At(t, "run")
  /\ t \in Caller
  /\ side = "putc" => sent + Cardinality(Busy) < MaxBytes
  /\ intr' = "OFF"
  /\ Goto(t, "intq_test", NULL)
  /\ UNCHANGED <<current, status, ready_list, thread_ticks>>
  /\ UNCHANGED <<value, waiters, holder, cond_waiters, slept, queueVars>>

(* Mutant: the caller always waits once before it looks.                   *)
test_waits_first(t) ==
  /\ InQueue(t, "intq_test")
  /\ Goto(t, "lock_acquire", q_lock)
  /\ UNCHANGED <<schedVars, value, waiters, holder, cond_waiters, slept, queueVars>>

(* The loop: wait in turn while there is nothing to do, else do it and     *)
(* leave the queue.                                                        *)
intq_test(t) ==
  /\ InQueue(t, "intq_test")
  /\ \/ MustWait /\ Goto(t, "lock_acquire", q_lock) /\ UNCHANGED ring
     \/ ~MustWait /\ thread_byte /\ Goto(t, "intq_return", NULL)
  /\ UNCHANGED <<schedVars, value, waiters, holder, cond_waiters, slept>>
  /\ UNCHANGED <<side, waiter, panic>>

intq_lock_acquire(t) ==
  /\ InQueue(t, "lock_acquire")
  /\ sema_down(t, q_lock, "intq_wait", NULL, "OFF")
  /\ UNCHANGED <<holder, cond_waiters, queueVars>>

(* wait() asserts that the condition still holds, which was tested before  *)
(* lock_acquire().                                                         *)
wait(t) ==
  /\ InQueue(t, "intq_wait")
  /\ holder' = [holder EXCEPT ![q_lock] = t]
  /\ \/ /\ MustWait
        /\ waiter' = t
        /\ thread_block
        /\ Goto(t, "intq_release", NULL)
        /\ UNCHANGED panic
     \/ /\ ~MustWait
        /\ panic' = TRUE
        /\ UNCHANGED <<schedVars, waiter, pc, arg>>
  /\ UNCHANGED <<value, waiters, cond_waiters, slept, side, ring>>

intq_lock_release(t) ==
  /\ InQueue(t, "intq_release")
  /\ holder' = [holder EXCEPT ![q_lock] = NULL]
  /\ sema_up(q_lock)
  /\ Goto(t, "intq_test", NULL)
  /\ UNCHANGED <<cond_waiters, slept, queueVars>>

(* intr_set_level() at the end of input_getc() or serial_putc().           *)
intq_return(t) ==
  /\ InQueue(t, "intq_return")
  /\ intr_enable
  /\ Goto(t, "run", NULL)
  /\ UNCHANGED <<value, waiters, holder, cond_waiters, slept, queueVars>>

(* The handlers look before they call: input_putc() only if the buffer is  *)
(* not full, intq_getc() only if the transmit queue is not empty.          *)
interrupt_handler ==
  /\ intr = "ON"
  /\ side = "getc" => sent < MaxBytes
  /\ handler_byte
  /\ signal
  /\ UNCHANGED <<synchVars, side, panic>>

(* Everything else threads and the timer do.                               *)
elsewhere ==
  /\ \/ \E t \in Thread :
          \/ \E u \in Thread : create_thread(t, u)
          \/ start_thread(t)
          \/ yield(t)
          \/ exit(t)
     \/ timer_interrupt
     \/ pc[current] \in {"run", "create"} /\ restore_level
     \/ idle
  /\ UNCHANGED queueVars

QueueStep(t) ==
  \/ intq_test(t) \/ intq_lock_acquire(t) \/ wait(t)
  \/ intq_lock_release(t) \/ intq_return(t)

IntqNext ==
  /\ ~panic
  /\ \/ \E t \in Reader \cup Writer : call_intq(t) \/ QueueStep(t)
     \/ interrupt_handler
     \/ elsewhere

IntqSpec == IntqInit /\ [][IntqNext]_intqVars

(* Code with interrupts off runs on, the timer ticks, and the device takes *)
(* bytes or has some, as long as there is one.                             *)
IntqFairness ==
  /\ \A t \in Reader \cup Writer : WF_intqVars(~panic /\ QueueStep(t))
  /\ SF_intqVars(~panic /\ timer_interrupt /\ UNCHANGED queueVars)
  /\ WF_intqVars(~panic /\ pc[current] \in {"run", "create"} /\ restore_level
                 /\ UNCHANGED queueVars)
  /\ SF_intqVars(~panic /\ interrupt_handler)

IntqFairSpec == IntqSpec /\ IntqFairness

-----------------------------------------------------------------------------
(* Properties *)

(* Every byte comes out once and in order: between tail and head the ring  *)
(* holds, in order, exactly the bytes put and not yet taken, across        *)
(* wraparound and any interleaving of readers and handlers.                *)
FifoExact ==
  /\ sent - received = (head + INTQ_BUFSIZE - tail) % INTQ_BUFSIZE
  /\ \A k \in 1 .. INTQ_BUFSIZE - 1 :
       k <= sent - received =>
         buf[(tail + k - 1) % INTQ_BUFSIZE] = received + k

(* A thread asleep in wait() is the one the queue knows of, it holds the   *)
(* queue's lock, and it still has reason to sleep: the handler never       *)
(* leaves a byte (or room) behind without waking it (intq.h:27-29).  The   *)
(* assertion of wait() (intq.c:91) holds for the transmit queue, which has *)
(* one writer at a time because console.c:184 writes under the console     *)
(* lock; two readers of the keyboard buffer can make it fail.              *)
SleeperExact ==
  /\ \A t \in Caller :
       /\ (pc[t] = "intq_release" /\ status[t] = "BLOCKED") <=> waiter = t
       /\ waiter = t => MustWait /\ holder[q_lock] = t
  /\ side = "putc" => ~panic

(* Whoever called the queue comes back from it, provided the device keeps  *)
(* working and bytes are still to come.                                    *)
CallReturns ==
  \A t \in Reader \cup Writer :
    pc[t] = "intq_test" ~> (pc[t] = "run" \/ sent = MaxBytes \/ panic)
=============================================================================
