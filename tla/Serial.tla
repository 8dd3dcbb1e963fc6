------------------------------- MODULE Serial --------------------------------
(***************************************************************************)
(* The console (lib/kernel/console.c) over the serial port                 *)
(* (devices/serial.c), with the input buffer (input.c): threads that print *)
(* lines under the console lock, handlers and a panic that print with      *)
(* interrupts off, the transmit queue, polling, and the interrupt-enable   *)
(* register that has to follow both queues.  The rings of intq.c are       *)
(* sequences here; module IntQueue looks inside them.                      *)
(***************************************************************************)
EXTENDS Integers, Sequences, Functions

CONSTANTS
  Printer, Boot,        \* threads that print; the one that boots
  TxSize, InSize,       \* capacity of the two queues
  LineLength,
  MaxLines,             \* bound: lines of the threads
  MaxReceived, MaxKeys  \* bound: bytes from the line, keys pressed

ASSUME SerialAssumption ==
  /\ Boot \in Printer /\ {"nobody", "handler", "panic"} \cap Printer = {}
  /\ TxSize \in Nat \ {0} /\ InSize \in Nat \ {0} /\ {LineLength, MaxLines} \subseteq Nat

VARIABLES
  mode,                 \* UNINIT, POLL or QUEUE
  txq, input,           \* the transmit queue and the input buffer
  ier, thr, rbr,        \* the port: interrupts enabled, byte to send, byte received
  console_lock, console_lock_depth, use_console_lock,
  left,                 \* what each thread has still to print of its line
  lines,                \* lines begun
  off,                  \* what is being printed with interrupts off
  interrupts,           \* handlers that have printed
  faulted,              \* the thread that met a page fault while printing
  arrived, keys,        \* bytes from the line, keys pressed
  out, wire, heard      \* history: bytes printed, sent, received and read

portVars == <<ier, thr, rbr>>
lockVars == <<console_lock, console_lock_depth, use_console_lock>>
inVars == <<input, rbr, arrived, keys, heard>>
lineVars == <<left, lines, off, interrupts, faulted>>
serialVars == <<mode, txq, portVars, lockVars, lineVars, inVars, out, wire>>

Nobody == "nobody"
Line(who, n) == [i \in 1 .. LineLength |-> <<who, n, i>>]

SerialInit ==
  /\ mode = "UNINIT" /\ txq = <<>> /\ input = <<>> /\ ier = {} /\ thr = <<>> /\ rbr = <<>>
  /\ console_lock = Nobody /\ console_lock_depth = 0 /\ use_console_lock = TRUE
  /\ left = [p \in Printer |-> <<>>] /\ lines = 0
  /\ off = <<>> /\ interrupts = 0 /\ faulted = Nobody /\ arrived = 0 /\ keys = 0
  /\ out = <<>> /\ wire = <<>> /\ heard = 0

(* Interrupts are on; threads run.                                         *)
IntrOn == off = <<>> /\ use_console_lock
(* Before serial_init_queue() there is only the thread that boots.         *)
MayPrint(p) == IntrOn /\ (mode = "QUEUE" \/ p = Boot)

-----------------------------------------------------------------------------
(* The port *)

(* Mutant: transmission is enabled only once the queue is full.            *)
ier_when_full(q, in) ==
  (IF Len(q) = TxSize THEN {"XMIT"} ELSE {}) \cup (IF Len(in) < InSize THEN {"RECV"} ELSE {})
write_ier(q, in) ==
  (IF q # <<>> THEN {"XMIT"} ELSE {}) \cup (IF Len(in) < InSize THEN {"RECV"} ELSE {})

(* Mutant: the new byte is the one that is polled out.                     *)
poll_new_byte(b) == thr = <<>> /\ thr' = <<b>> /\ txq' = txq
(* The queue is full and nobody may wait: its first byte makes room.       *)
poll_first_byte(b) == thr = <<>> /\ thr' = <<Head(txq)>> /\ txq' = Append(Tail(txq), b)

(* serial_putc(); intq_putc() waits for room if the caller had interrupts  *)
(* on.  putc_poll() waits for the holding register.                        *)
serial_putc(b, old_level) ==
  /\ \/ /\ mode # "QUEUE" /\ mode' = "POLL"
        /\ thr = <<>> /\ thr' = <<b>> /\ UNCHANGED <<txq, ier>>
     \/ /\ mode = "QUEUE" /\ UNCHANGED mode
        /\ \/ Len(txq) < TxSize /\ txq' = Append(txq, b) /\ UNCHANGED thr
           \/ Len(txq) = TxSize /\ old_level = "OFF" /\ poll_first_byte(b)
        /\ ier' = write_ier(txq', input)
  /\ out' = Append(out, b)
  /\ UNCHANGED <<wire, inVars>>

serial_init_queue ==
  /\ IntrOn /\ mode # "QUEUE" /\ left[Boot] = <<>>
  /\ mode' = "QUEUE" /\ ier' = write_ier(txq, input)
  /\ UNCHANGED <<txq, thr, lockVars, lineVars, inVars, out, wire>>

serial_interrupt ==
  /\ IntrOn /\ mode = "QUEUE"
  /\ ("XMIT" \in ier /\ thr = <<>>) \/ ("RECV" \in ier /\ rbr # <<>>)
  /\ LET receive == Len(input) < InSize /\ rbr # <<>>
         send == txq # <<>> /\ thr = <<>>
     IN /\ input' = IF receive THEN input \o rbr ELSE input
        /\ rbr' = IF receive THEN <<>> ELSE rbr
        /\ thr' = IF send THEN <<Head(txq)>> ELSE thr
        /\ txq' = IF send THEN Tail(txq) ELSE txq
  /\ ier' = write_ier(txq', input')
  /\ UNCHANGED <<mode, lockVars, lineVars, arrived, keys, heard, out, wire>>

(* The hardware sends the byte it holds, and receives one.                 *)
transmit ==
  /\ thr # <<>>
  /\ wire' = wire \o thr /\ thr' = <<>>
  /\ UNCHANGED <<mode, txq, ier, lockVars, lineVars, inVars, out>>

receive_byte ==
  /\ rbr = <<>> /\ arrived < MaxReceived
  /\ arrived' = arrived + 1 /\ rbr' = <<arrived + 1>>
  /\ UNCHANGED <<mode, txq, ier, thr, lockVars, lineVars, input, keys, heard, out, wire>>

serial_notify(in) == ier' = IF mode = "QUEUE" THEN write_ier(txq, in) ELSE ier

(* keyboard_interrupt() drops a key that finds the buffer full.            *)
keyboard_interrupt ==
  /\ IntrOn /\ keys < MaxKeys
  /\ keys' = keys + 1
  /\ input' = IF Len(input) < InSize THEN Append(input, 0) ELSE input
  /\ IF Len(input) < InSize THEN serial_notify(input') ELSE UNCHANGED ier
  /\ UNCHANGED <<mode, txq, thr, rbr, lockVars, lineVars, arrived, heard, out, wire>>

input_getc ==
  /\ IntrOn /\ input # <<>>
  /\ heard' = heard + (IF Head(input) > 0 THEN 1 ELSE 0) /\ input' = Tail(input)
  /\ serial_notify(input')
  /\ UNCHANGED <<mode, txq, thr, rbr, lockVars, lineVars, arrived, keys, out, wire>>

-----------------------------------------------------------------------------
(* The console *)

(* vprintf(), puts(), putbuf(): acquire_console().                         *)
acquire_console(p) ==
  /\ MayPrint(p) /\ left[p] = <<>> /\ console_lock # p /\ lines < MaxLines
  /\ console_lock = Nobody /\ console_lock' = p
  /\ left' = [left EXCEPT ![p] = Line(p, lines)]
  /\ lines' = lines + 1
  /\ UNCHANGED <<mode, txq, portVars, console_lock_depth, use_console_lock, off, interrupts,
                 faulted, inVars, out, wire>>

putchar_have_lock(p) ==
  /\ MayPrint(p) /\ left[p] # <<>>
  /\ serial_putc(Head(left[p]), "ON")
  /\ left' = [left EXCEPT ![p] = Tail(@)]
  /\ UNCHANGED <<lockVars, lines, off, interrupts, faulted>>

(* Mutant: a nested release gives the lock away.                           *)
release_at_once == console_lock' = Nobody /\ console_lock_depth' = 0
release_lock ==
  IF console_lock_depth > 0
  THEN console_lock_depth' = console_lock_depth - 1 /\ UNCHANGED console_lock
  ELSE console_lock' = Nobody /\ UNCHANGED console_lock_depth

release_console(p) ==
  /\ MayPrint(p) /\ left[p] = <<>> /\ console_lock = p
  /\ faulted = p => console_lock_depth > 0
  /\ release_lock
  /\ UNCHANGED <<mode, txq, portVars, use_console_lock, lineVars, inVars, out, wire>>

(* putbuf() and "%s" read user memory under the lock: page_fault() prints  *)
(* its own line in the middle, one level deeper, and kill() panics.        *)
page_fault(p) ==
  /\ MayPrint(p) /\ left[p] # <<>> /\ console_lock = p /\ faulted = Nobody
  /\ faulted' = p /\ console_lock_depth' = console_lock_depth + 1
  /\ left' = [left EXCEPT ![p] = Line(p, MaxLines)]
  /\ UNCHANGED <<mode, txq, portVars, console_lock, use_console_lock, lines, off, interrupts,
                 inVars, out, wire>>

(* A handler prints: no lock, interrupts off.                              *)
handler_prints ==
  /\ IntrOn /\ mode = "QUEUE" /\ interrupts = 0
  /\ interrupts' = 1 /\ off' = Line("handler", 0)
  /\ UNCHANGED <<mode, txq, portVars, lockVars, left, lines, faulted, inVars, out, wire>>

(* debug_panic(): after a page fault, or a failed assertion.               *)
debug_panic ==
  /\ IntrOn /\ mode = "QUEUE"
  /\ use_console_lock' = FALSE /\ off' = Line("panic", 0)
  /\ UNCHANGED <<mode, txq, portVars, console_lock, console_lock_depth, left, lines,
                 interrupts, faulted, inVars, out, wire>>

putchar_intr_off ==
  /\ off # <<>>
  /\ serial_putc(Head(off), "OFF")
  /\ off' = Tail(off)
  /\ UNCHANGED <<lockVars, left, lines, interrupts, faulted>>

serial_flush ==
  /\ ~use_console_lock /\ off = <<>> /\ txq # <<>> /\ thr = <<>>
  /\ thr' = <<Head(txq)>> /\ txq' = Tail(txq)
  /\ UNCHANGED <<mode, ier, lockVars, lineVars, inVars, out, wire>>

-----------------------------------------------------------------------------
Console(p) ==
  \/ acquire_console(p) \/ putchar_have_lock(p) \/ release_console(p) \/ page_fault(p)
Sending == serial_interrupt \/ transmit \/ putchar_intr_off \/ serial_flush

SerialNext ==
  \/ \E p \in Printer : Console(p)
  \/ serial_init_queue \/ Sending \/ receive_byte \/ keyboard_interrupt \/ input_getc
  \/ handler_prints \/ debug_panic

(* The port sends, its interrupt is taken once interrupts are on, and code *)
(* with interrupts off runs on.                                            *)
SerialFairness ==
  /\ WF_serialVars(serial_interrupt) /\ WF_serialVars(transmit)
  /\ WF_serialVars(putchar_intr_off) /\ WF_serialVars(serial_flush)
SerialSpec == SerialInit /\ [][SerialNext]_serialVars /\ SerialFairness

-----------------------------------------------------------------------------
(* Properties *)

(* serial_putc() and serial_interrupt(): through polling, the queue, a     *)
(* full queue with interrupts off and a panic, what was printed leaves the *)
(* port once and in order, and what the port received is read in order.    *)
(* Whenever interrupts are on, the interrupts enabled are those for which  *)
(* there is a byte to send, or room for one.                               *)
BytesInOrder ==
  /\ wire \o thr \o txq = out
  /\ LET received == input \o rbr
         byte == {i \in 1 .. Len(received) : received[i] > 0}
     IN /\ \A i, j \in byte : i < j => received[i] < received[j]
        /\ {received[i] : i \in byte} = heard + 1 .. arrived
  /\ mode = "QUEUE" /\ IntrOn => /\ "XMIT" \in ier <=> txq # <<>>
                                 /\ "RECV" \in ier <=> Len(input) < InSize

(* The byte c may be the next one after b that is printed under the lock.  *)
Continues(b, c) ==
  b[3] < LineLength => c = <<b[1], b[2], b[3] + 1>> \/ c = <<b[1], MaxLines, 1>>

(* console.c: a line of a thread is only ever cut by what is printed       *)
(* without the lock, or by its own page fault; and the lock's depth is     *)
(* that of its holder.                                                     *)
LinesWhole ==
  /\ LET locked == {i \in 1 .. Len(out) : out[i][1] \in Printer}
     IN \A i, j \in locked :
          i < j /\ (\A k \in locked : k <= i \/ k >= j) => Continues(out[i], out[j])
  /\ console_lock_depth > 0 => faulted # Nobody
  /\ faulted # Nobody => console_lock = faulted
  /\ \A p \in Printer : left[p] # <<>> => console_lock = p

(* write_ier() and serial_flush(): what is queued gets sent although       *)
(* nobody prints any more, and also after a panic.                         *)
QueueDrains ==
  /\ txq # <<>> ~> txq = <<>> \/ \E p \in Printer : left[p] # <<>>
  /\ \A b \in {"handler", "panic"} : <<b, 0, 1>> \in Range(out) ~> <<b, 0, 1>> \in Range(wire)
=============================================================================
