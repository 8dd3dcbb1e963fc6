--------------------------------- MODULE Ide ---------------------------------
(***************************************************************************)
(* The disk driver (devices/ide.c) under the block layer (block.c) and the *)
(* partitions (partition.c): one channel with its two disks, threads that  *)
(* read and write sectors, the completion interrupt, and the controller as *)
(* the driver sees it.  A step ends where the controller, the handler or   *)
(* another thread can come in.                                             *)
(***************************************************************************)
EXTENDS Integers, Sequences, FiniteSets

CONSTANTS
  Client,
  Block,         \* block devices: [disk, start, size], raw disks and partitions
  Value,         \* contents of a sector
  Blank,         \* ... at first
  MaxRequests,   \* bound: requests of a thread
  MaxStray       \* bound: interrupts nobody asked for

Disk == {0, 1}                                   \* dev_no
NoClient == "nobody"

ASSUME IdeAssumption ==
  /\ NoClient \notin Client
  /\ Block \subseteq [disk : Disk, start : Nat, size : Nat]
  /\ MaxRequests \in Nat /\ MaxStray \in Nat

SectorOf(b) == 0 .. b.size - 1
Place == UNION {{<<b.disk, b.start + s>> : s \in SectorOf(b)} : b \in Block}

VARIABLES
  lock,                \* channel.lock, or NoClient
  expecting_interrupt,
  completion_wait,     \* the semaphore's value
  at, access, buffer,  \* of each thread: place in the driver, request, data
  made,                \* requests made, for the bound
  drive,               \* the controller: status, command, selected place, data
  irq,                 \* an interrupt is pending
  media,               \* what the disks hold
  latest,              \* what the last write that returned put there
  stray,               \* unexpected interrupts so far
  ide_panic

ideVars == <<lock, expecting_interrupt, completion_wait, at, access, buffer, made,
             drive, irq, media, latest, stray, ide_panic>>
thread_vars == <<at, access, buffer, made>>

NoAccess == [op |-> "none"]
Ready == [status |-> "idle", op |-> "none", place |-> <<0, 0>>, data |-> Blank]

(* ide_init(), after the disks have been identified.                       *)
IdeInit ==
  /\ lock = NoClient /\ expecting_interrupt = FALSE /\ completion_wait = 0
  /\ at = [t \in Client |-> "out"] /\ access = [t \in Client |-> NoAccess]
  /\ buffer = [t \in Client |-> Blank] /\ made = [t \in Client |-> 0]
  /\ drive = Ready /\ irq = FALSE
  /\ media = [p \in Place |-> Blank] /\ latest = [p \in Place |-> Blank]
  /\ stray = 0 /\ ide_panic = FALSE

goto(t, place) == at' = [at EXCEPT ![t] = place]
On(t, place) == at[t] = place /\ ~ide_panic

-----------------------------------------------------------------------------
(* The driver *)

(* block_read() and block_write(), after check_sector(); a partition adds  *)
(* its start.                                                              *)
block_request(t, op, b, s, v) ==
  /\ On(t, "out") /\ made[t] < MaxRequests
  /\ access' = [access EXCEPT ![t] = [op |-> op, place |-> <<b.disk, b.start + s>>, value |-> v]]
  /\ made' = [made EXCEPT ![t] = @ + 1]
  /\ goto(t, "acquire")
  /\ UNCHANGED <<lock, expecting_interrupt, completion_wait, buffer, drive, irq, media,
                 latest, stray, ide_panic>>

(* Mutant: the channel is used without its lock.                           *)
acquire_nothing(t) == TRUE
acquirable(t) == lock = NoClient

acquire(t) ==
  /\ On(t, "acquire") /\ acquirable(t)
  /\ lock' = t /\ goto(t, "select")
  /\ UNCHANGED <<expecting_interrupt, completion_wait, access, buffer, made, drive, irq, media,
                 latest, stray, ide_panic>>

(* wait_until_idle(): neither BSY nor DRQ.                                 *)
drive_idle(d) == d.status = "idle"

(* Mutant: a read does not expect an interrupt.                            *)
expect_write(op) == expecting_interrupt \/ op = "write"
expect(op) == TRUE

(* select_sector() and issue_pio_command().  Reading the status register   *)
(* clears a pending interrupt.                                             *)
select(t) ==
  /\ On(t, "select") /\ drive_idle(drive)
  /\ expecting_interrupt' = expect(access[t].op)
  /\ drive' = [status |-> "busy", op |-> access[t].op, place |-> access[t].place, data |-> Blank]
  /\ irq' = FALSE
  /\ goto(t, IF access[t].op = "read" THEN "down" ELSE "poll")
  /\ UNCHANGED <<lock, completion_wait, access, buffer, made, media, latest, stray, ide_panic>>

(* Mutant: the wait for the completion is left out.                        *)
no_completion == TRUE
completed == completion_wait > 0

(* sema_down (&c->completion_wait)                                         *)
down(t) ==
  /\ On(t, "down") /\ completed
  /\ completion_wait' = IF completion_wait > 0 THEN completion_wait - 1 ELSE 0
  /\ goto(t, IF access[t].op = "read" THEN "poll" ELSE "release")
  /\ UNCHANGED <<lock, expecting_interrupt, access, buffer, made, drive, irq, media, latest,
                 stray, ide_panic>>

(* wait_while_busy(), which fails if the drive has no data for us, or does *)
(* not want ours; then input_sector() or output_sector().                  *)
transfer(t) ==
  /\ On(t, "poll") /\ drive.status # "busy"
  /\ IF drive.status = "idle" THEN ide_panic' = TRUE /\ UNCHANGED <<at, buffer, drive>>
     ELSE /\ IF access[t].op = "read"
             THEN /\ buffer' = [buffer EXCEPT ![t] = drive.data]
                  /\ drive' = [drive EXCEPT !.status = "idle"]
                  /\ goto(t, "release")
             ELSE /\ drive' = [drive EXCEPT !.status = "busy", !.op = "store",
                                            !.data = access[t].value]
                  /\ goto(t, "down") /\ UNCHANGED buffer
          /\ UNCHANGED ide_panic
  /\ UNCHANGED <<lock, expecting_interrupt, completion_wait, access, made, irq, media, latest,
                 stray>>

release(t) ==
  /\ On(t, "release")
  /\ lock' = NoClient
  /\ latest' = IF access[t].op = "write" THEN [latest EXCEPT ![access[t].place] = access[t].value]
               ELSE latest
  /\ goto(t, "out")
  /\ access' = [access EXCEPT ![t] = NoAccess] /\ buffer' = [buffer EXCEPT ![t] = Blank]
  /\ UNCHANGED <<expecting_interrupt, completion_wait, made, drive, irq, media, stray, ide_panic>>

(* interrupt_handler().  Once a command was issued every interrupt counts  *)
(* as expected.                                                            *)
ide_interrupt ==
  /\ irq /\ ~ide_panic
  /\ irq' = FALSE
  /\ completion_wait' = IF expecting_interrupt THEN completion_wait + 1 ELSE completion_wait
  /\ UNCHANGED <<lock, expecting_interrupt, thread_vars, drive, media, latest, stray, ide_panic>>

-----------------------------------------------------------------------------
(* The controller and the disks *)

Controller(d, i, m) ==
  /\ drive' = d /\ irq' = i /\ media' = m
  /\ UNCHANGED <<lock, expecting_interrupt, completion_wait, thread_vars, latest, stray, ide_panic>>

fetch ==
  /\ drive.status = "busy" /\ drive.op = "read"
  /\ Controller([drive EXCEPT !.status = "drq", !.data = media[drive.place]], TRUE, media)

request_data ==
  /\ drive.status = "busy" /\ drive.op = "write"
  /\ Controller([drive EXCEPT !.status = "drq"], irq, media)

store ==
  /\ drive.status = "busy" /\ drive.op = "store"
  /\ Controller([drive EXCEPT !.status = "idle"], TRUE,
                [media EXCEPT ![drive.place] = drive.data])

(* A bad sector: no data, but an interrupt.                                *)
fail ==
  /\ drive.status = "busy" /\ drive.op = "read"
  /\ Controller([drive EXCEPT !.status = "idle"], TRUE, media)

stray_interrupt ==
  /\ stray < MaxStray /\ ~irq
  /\ irq' = TRUE /\ stray' = stray + 1
  /\ UNCHANGED <<lock, expecting_interrupt, completion_wait, thread_vars, drive, media,
                 latest, ide_panic>>

Driver(t) == acquire(t) \/ select(t) \/ down(t) \/ transfer(t) \/ release(t)
Answer == fetch \/ request_data \/ store

IdeNext ==
  \/ \E t \in Client : \/ Driver(t)
                       \/ \E b \in Block : \E s \in SectorOf(b), v \in Value :
                            \/ block_request(t, "read", b, s, Blank)
                            \/ block_request(t, "write", b, s, v)
  \/ ide_interrupt \/ Answer \/ fail \/ stray_interrupt

(* The drive answers, its interrupt is taken, and threads run.             *)
IdeFairness ==
  /\ \A t \in Client : WF_ideVars(Driver(t))
  /\ WF_ideVars(ide_interrupt) /\ WF_ideVars(Answer)
IdeSpec == IdeInit /\ [][IdeNext]_ideVars /\ IdeFairness

-----------------------------------------------------------------------------
(* Properties *)

(* ide_read(): a read returns what the last completed write to that sector *)
(* of that disk put there, whoever wrote it, also after interrupts that    *)
(* nobody asked for.                                                       *)
ReadsExact ==
  \A t \in Client : at[t] = "release" /\ access[t].op = "read" =>
    buffer[t] = latest[access[t].place]

(* ide_write() returns after the disk has acknowledged the data, and       *)
(* leaves neither an interrupt nor a unit of completion_wait behind for    *)
(* the next request: both as long as every interrupt had a cause.          *)
CompletionsExact ==
  stray = 0 =>
    /\ \A t \in Client : at[t] = "release" /\ access[t].op = "write" =>
         media[access[t].place] = access[t].value
    /\ lock = NoClient => completion_wait = 0 /\ ~irq /\ drive.status = "idle"

(* Both: the disk is a store of sectors, one request at a time.            *)
DiskExact == ReadsExact /\ CompletionsExact

(* The wait for a completion that may come before, during or after         *)
(* sema_down(), and the wait for the channel: every request returns,       *)
(* unless the drive fails.                                                 *)
RequestsReturn == \A t \in Client : at[t] # "out" ~> at[t] = "out" \/ ide_panic

=============================================================================
