---------------------------- MODULE StorageProofs ----------------------------
(***************************************************************************)
(* TLAPS proofs about the two layers under the file system.  BufferCache,  *)
(* for any number of slots, sectors, parts and byte values: the table is   *)
(* exact at every point of every operation, the cache implements           *)
(* SectorStore, and a write-back leaves nothing behind.  Ide, for any      *)
(* threads, block devices and contents: a read returns what the last write *)
(* put there, and as long as every interrupt had a cause a write returns   *)
(* after the disk has the data and leaves nothing behind for the next      *)
(* request; the inductive invariant is IdeInv.                             *)
(***************************************************************************)
EXTENDS BufferCache, Ide, WellFoundedInduction, TLAPS

-----------------------------------------------------------------------------
(* The disk driver.                                                        *)

(* What a sector can hold, and a request to read or write one.             *)
SectorData == Value \cup {Blank}
Access == [op : {"read", "write"}, place : Place, value : SectorData]

(* Where the thread is that holds the channel's lock.                      *)
Channel == {"select", "down", "poll", "release"}

(* The types, and the lock: whoever is between lock_acquire() and          *)
(* lock_release() holds it.                                                *)
IdeTypeOK ==
  /\ expecting_interrupt \in BOOLEAN /\ irq \in BOOLEAN
  /\ completion_wait \in Nat /\ stray \in Nat
  /\ at \in [Client -> Channel \cup {"out", "acquire"}]
  /\ access \in [Client -> Access \cup {NoAccess}]
  /\ buffer \in [Client -> SectorData]
  /\ drive \in [status : {"idle", "busy", "drq"}, op : {"none", "read", "write", "store"},
                place : Place \cup {<<0, 0>>}, data : SectorData]
  /\ media \in [Place -> SectorData] /\ latest \in [Place -> SectorData]
  /\ \A t \in Client : at[t] # "out" => access[t] \in Access
  /\ \A t \in Client : at[t] \in Channel <=> lock = t

(* Requests from ide_read() and from ide_write().                          *)
Reads(t) == access[t].op = "read"
Writes(t) == access[t].op = "write"

(* The drive has the data of a write that has yet to return.               *)
Posted(t) == at[t] \in {"down", "release"} /\ Writes(t)

(* What a sector will hold once the drive has done what it was told.       *)
Settled(p) ==
  IF drive.status = "busy" /\ drive.op = "store" /\ drive.place = p
  THEN drive.data ELSE media[p]

(* What the drive is doing, by where the owner of the channel is.          *)
DriveExact ==
  /\ \/ drive.status = "drq" /\ drive.op \in {"read", "write"}
     \/ drive.status = "busy" /\ drive.op # "none"
     \/ drive.status = "idle"
  /\ drive.status # "idle" /\ drive.op # "store" =>
       \E t \in Client : at[t] \in {"down", "poll"} /\ ~Posted(t)
  /\ \A t \in Client :
       /\ at[t] \in {"down", "poll"} /\ Reads(t) =>
            /\ drive.op = "read" /\ drive.place = access[t].place
            /\ drive.status = "drq" => drive.data = latest[access[t].place]
       /\ at[t] = "poll" /\ Writes(t) =>
            drive.op = "write" /\ drive.place = access[t].place
       /\ Posted(t) =>
            /\ drive.op = "store" /\ drive.status # "drq"
            /\ drive.place = access[t].place /\ drive.data = access[t].value
       /\ at[t] = "release" /\ Reads(t) =>
            drive.status = "idle" /\ buffer[t] = latest[access[t].place]

(* A sector holds, or is about to, what the last write that returned put   *)
(* there, or the write under way.                                          *)
StoreExact ==
  \A p \in Place :
    /\ (\A t \in Client : Posted(t) => access[t].place # p) => Settled(p) = latest[p]
    /\ \A t \in Client : Posted(t) /\ access[t].place = p => Settled(p) = access[t].value

(* A thread waits for the interrupt of its request.                        *)
Awaited == \E t \in Client : at[t] = "down"

(* A request under way has one completion, in the drive, on the wire or in *)
(* the semaphore; nobody else has any.                                     *)
TokenExact ==
  stray = 0 =>
    /\ irq => completion_wait = 0
    /\ completion_wait \in {0, 1}
    /\ irq \/ completion_wait = 1 => Awaited /\ drive.status # "busy"
    /\ Awaited => drive.status = "busy" \/ irq \/ completion_wait = 1
    /\ \A t \in Client : at[t] \in {"down", "poll"} => expecting_interrupt
    /\ (\A t \in Client : at[t] \notin {"down", "poll"}) => drive.status = "idle"
    /\ \A t \in Client : at[t] = "poll" /\ Reads(t) => drive.status # "busy"

(* The inductive invariant of the driver and its drive.                    *)
IdeInv == IdeTypeOK /\ DriveExact /\ StoreExact /\ TokenExact

-----------------------------------------------------------------------------
(* ide_init() leaves the channel free and the drive idle.                  *)
LEMMA IdeStart == IdeInit => IdeInv
<1> SUFFICES ASSUME IdeInit PROVE IdeInv
  OBVIOUS
<1> USE DEF IdeInit, Channel, SectorData, Ready, NoAccess
<1>1. IdeTypeOK
  BY Zenon, IdeAssumption DEF IdeTypeOK
<1>2. DriveExact
  BY DEF DriveExact, Posted
<1>3. StoreExact
  BY DEF StoreExact, Posted, Settled
<1>4. TokenExact
  BY DEF TokenExact, Awaited
<1>5. QED
  BY <1>1, <1>2, <1>3, <1>4 DEF IdeInv

(* The owner of the channel is alone in it.                                *)
LEMMA Alone ==
  ASSUME IdeTypeOK, NEW t \in Client, at[t] \in Channel
  PROVE  \A u \in Client \ {t} : at[u] \in {"out", "acquire"}
BY DEF IdeTypeOK, Channel

(* block_read() and block_write(): a request is noted, and nothing else.   *)
LEMMA RequestStep ==
  ASSUME IdeInv, NEW t \in Client, NEW op \in {"read", "write"}, NEW b \in Block,
         NEW s \in SectorOf(b), NEW v \in SectorData, block_request(t, op, b, s, v)
  PROVE  IdeInv'
<1> DEFINE r == [op |-> op, place |-> <<b.disk, b.start + s>>, value |-> v]
<1>1. r \in Access
  BY DEF Access, Place
<1>2. /\ at[t] = "out" /\ at' = [at EXCEPT ![t] = "acquire"]
      /\ access' = [access EXCEPT ![t] = r]
      /\ UNCHANGED <<lock, expecting_interrupt, completion_wait, buffer, drive, irq,
                     media, latest, stray>>
  BY DEF block_request, On, goto
<1>3. IdeTypeOK'
  BY <1>1, <1>2 DEF IdeInv, IdeTypeOK, Channel
<1>4. \A u \in Client : /\ at'[u] = at[u] \/ (at[u] = "out" /\ at'[u] = "acquire")
                        /\ at[u] # "out" => access'[u] = access[u]
  BY SMTT(40), <1>2 DEF IdeInv, IdeTypeOK
<1>5. \A u \in Client : (Posted(u))' <=> Posted(u)
  BY SMTT(40), <1>4 DEF Posted, Writes
<1>6. DriveExact'
  BY SMTT(40), <1>2, <1>4, <1>5 DEF IdeInv, DriveExact, Reads, Writes, Posted
<1>7. StoreExact'
  BY <1>2, <1>4, <1>5 DEF IdeInv, StoreExact, Settled, Posted
<1>8. TokenExact'
  BY <1>2, <1>4 DEF IdeInv, TokenExact, Awaited, Reads
<1>9. QED
  BY <1>3, <1>6, <1>7, <1>8 DEF IdeInv

(* lock_acquire(): the channel is free, so the drive is idle or still      *)
(* stores what the last write gave it.                                     *)
LEMMA AcquireStep ==
  ASSUME IdeInv, NEW t \in Client, acquire(t) PROVE IdeInv'
<1>2. /\ at[t] = "acquire" /\ at' = [at EXCEPT ![t] = "select"]
      /\ lock = NoClient /\ lock' = t
      /\ UNCHANGED <<expecting_interrupt, completion_wait, access, buffer, drive, irq,
                     media, latest, stray>>
  BY DEF acquire, acquirable, On, goto
<1>3. IdeTypeOK'
  BY <1>2, IdeAssumption DEF IdeInv, IdeTypeOK, Channel
<1>4. \A u \in Client : at'[u] = at[u] \/ (at[u] = "acquire" /\ at'[u] = "select")
  BY <1>2 DEF IdeInv, IdeTypeOK
<1>5. \A u \in Client : (Posted(u))' <=> Posted(u)
  BY ZenonT(40), <1>2, <1>4 DEF Posted, Writes
<1>6. DriveExact'
  BY SMTT(40), <1>2, <1>4, <1>5 DEF IdeInv, DriveExact, Reads, Writes, Posted
<1>7. StoreExact'
  BY ZenonT(40), <1>2, <1>4, <1>5 DEF IdeInv, StoreExact, Settled, Posted
<1>8. TokenExact'
  BY Zenon, <1>2, <1>4 DEF IdeInv, TokenExact, Awaited, Reads
<1>9. QED
  BY <1>3, <1>6, <1>7, <1>8 DEF IdeInv

(* select_sector() and issue_pio_command(): the drive has settled, and     *)
(* starts on the request of the owner.                                     *)
LEMMA SelectStep ==
  ASSUME IdeInv, NEW t \in Client, select(t) PROVE IdeInv'
<1>1. /\ at[t] = "select" /\ drive.status = "idle" /\ expecting_interrupt' = TRUE
      /\ drive' = [status |-> "busy", op |-> access[t].op, place |-> access[t].place, data |-> Blank]
      /\ irq' = FALSE
      /\ at' = [at EXCEPT ![t] = IF Reads(t) THEN "down" ELSE "poll"]
      /\ UNCHANGED <<lock, completion_wait, access, buffer, media, latest, stray>>
  BY DEF select, On, goto, drive_idle, expect, Reads
<1>2. access[t] \in Access /\ \A u \in Client \ {t} : at[u] \in {"out", "acquire"}
  BY <1>1, Alone DEF IdeInv, IdeTypeOK, Channel
<1>3. IdeTypeOK'
  BY Zenon, <1>1, <1>2 DEF IdeInv, IdeTypeOK, Channel, Access, SectorData
<1>4. /\ \A u \in Client \ {t} : at'[u] \in {"out", "acquire"}
      /\ (Reads(t) /\ at'[t] = "down") \/ (Writes(t) /\ at'[t] = "poll")
  BY <1>1, <1>2 DEF IdeInv, IdeTypeOK, Access, Reads, Writes
<1>5. \A u \in Client : ~Posted(u) /\ ~(Posted(u))'
  BY SMTT(40), <1>1, <1>2, <1>4 DEF Posted, Reads, Writes
<1>6. DriveExact'
  BY SMTT(40), <1>1, <1>2, <1>4, <1>5 DEF IdeInv, DriveExact, Reads, Writes, Access
<1>7. \A p \in Place : Settled(p) = media[p] /\ (Settled(p))' = media[p]
  BY SMTT(40), <1>1, <1>2 DEF Settled, Access
<1>8. StoreExact'
  BY ZenonT(40), <1>1, <1>5, <1>7 DEF IdeInv, StoreExact
<1>9. TokenExact'
  BY SMTT(40), <1>1, <1>2, <1>4 DEF IdeInv, IdeTypeOK, TokenExact, Awaited, Reads, Writes
<1>10. QED
  BY <1>3, <1>6, <1>8, <1>9 DEF IdeInv

(* sema_down (&c->completion_wait): with no stray interrupts the drive has *)
(* finished, else it may still be busy.                                    *)
LEMMA DownStep ==
  ASSUME IdeInv, NEW t \in Client, down(t) PROVE IdeInv'
<1>1. /\ at[t] = "down" /\ completion_wait > 0
      /\ completion_wait' = completion_wait - 1
      /\ at' = [at EXCEPT ![t] = IF Reads(t) THEN "poll" ELSE "release"]
      /\ UNCHANGED <<lock, expecting_interrupt, access, buffer, drive, irq, media, latest, stray>>
  BY Zenon DEF down, On, goto, completed, Reads
<1>2. access[t] \in Access /\ \A u \in Client \ {t} : at[u] \in {"out", "acquire"}
  BY <1>1, Alone DEF IdeInv, IdeTypeOK, Channel
<1>3. IdeTypeOK'
  BY <1>1, <1>2 DEF IdeInv, IdeTypeOK, Channel
<1>4. /\ \A u \in Client \ {t} : at'[u] \in {"out", "acquire"}
      /\ \/ Reads(t) /\ ~Writes(t) /\ at'[t] = "poll"
         \/ Writes(t) /\ ~Reads(t) /\ at'[t] = "release"
  BY <1>1, <1>2 DEF IdeInv, IdeTypeOK, Access, Reads, Writes
<1>5. \A u \in Client : (Posted(u))' <=> Posted(u)
  BY SMTT(40), <1>1, <1>2, <1>4 DEF Posted, Reads, Writes
<1>6. DriveExact'
  BY SMTT(40), <1>1, <1>2, <1>4, <1>5 DEF IdeInv, DriveExact, Reads, Writes, Posted
<1>7. StoreExact'
  BY SMTT(40), <1>1, <1>5 DEF IdeInv, StoreExact, Settled
<1>8. TokenExact'
  <2> SUFFICES ASSUME stray = 0 PROVE TokenExact'
    BY <1>1 DEF TokenExact
  <2>1. completion_wait = 1 /\ completion_wait' = 0 /\ ~irq /\ drive.status # "busy"
    BY SMTT(40), <1>1, <1>3 DEF IdeInv, IdeTypeOK, TokenExact
  <2>2. Writes(t) => drive.status = "idle"
    BY <1>1, <2>1 DEF IdeInv, IdeTypeOK, DriveExact, Posted
  <2>3. QED
    BY <1>1, <1>2, <1>4, <2>1, <2>2 DEF IdeInv, TokenExact, Awaited, Reads, Writes
<1>9. QED
  BY <1>3, <1>6, <1>7, <1>8 DEF IdeInv

(* wait_while_busy() and the transfer of a sector: a read takes what the   *)
(* drive has fetched, a write hands its data to the drive, and a drive     *)
(* with nothing to transfer stops the kernel.                              *)
LEMMA TransferStep ==
  ASSUME IdeInv, NEW t \in Client, transfer(t) PROVE IdeInv'
<1>1. /\ at[t] = "poll"
      /\ UNCHANGED <<lock, expecting_interrupt, completion_wait, access, irq, media, latest, stray>>
  BY DEF transfer, On
<1>2. access[t] \in Access /\ \A u \in Client \ {t} : at[u] \in {"out", "acquire"}
  BY SMTT(40), <1>1, Alone DEF IdeInv, IdeTypeOK, Channel
<1>3. CASE UNCHANGED <<at, buffer, drive>>
  BY ZenonT(40), <1>1, <1>3 DEF IdeInv, IdeTypeOK, DriveExact, StoreExact, TokenExact, Posted, Reads,
                    Writes, Settled, Awaited
<1>4. CASE /\ drive.status = "drq" /\ Reads(t)
           /\ buffer' = [buffer EXCEPT ![t] = drive.data]
           /\ drive' = [drive EXCEPT !.status = "idle"]
           /\ at' = [at EXCEPT ![t] = "release"]
  <2>1. IdeTypeOK'
    BY <1>1, <1>2, <1>4 DEF IdeInv, IdeTypeOK, Channel
  <2>2. at'[t] = "release" /\ \A u \in Client \ {t} : at'[u] \in {"out", "acquire"}
    BY <1>1, <1>2, <1>4 DEF IdeInv, IdeTypeOK
  <2>3. \A u \in Client : ~Posted(u) /\ ~(Posted(u))'
    BY <1>1, <1>2, <1>4, <2>2 DEF Posted, Reads, Writes
  <2>4. drive.op = "read" /\ drive.data = latest[access[t].place]
    BY <1>1, <1>4 DEF IdeInv, DriveExact
  <2>5. buffer'[t] = latest[access[t].place] /\ drive'.status = "idle" /\ drive'.op = "read"
    BY <1>4, <2>4 DEF IdeInv, IdeTypeOK
  <2>6. DriveExact'
    BY <1>1, <1>4, <2>2, <2>3, <2>5 DEF DriveExact, Reads, Writes
  <2>7. \A p \in Place : Settled(p) = media[p] /\ (Settled(p))' = media[p]
    BY <1>1, <1>4, <2>5 DEF Settled
  <2>8. StoreExact'
    BY Zenon, <1>1, <2>3, <2>7 DEF IdeInv, StoreExact
  <2>9. TokenExact'
    BY Zenon, <1>1, <1>2, <2>2, <2>5 DEF IdeInv, TokenExact, Awaited
  <2>10. QED
    BY <2>1, <2>6, <2>8, <2>9 DEF IdeInv
<1>5. CASE /\ drive.status = "drq" /\ ~Reads(t)
           /\ drive' = [drive EXCEPT !.status = "busy", !.op = "store", !.data = access[t].value]
           /\ at' = [at EXCEPT ![t] = "down"]
           /\ UNCHANGED buffer
  <2>1. Writes(t) /\ access[t].value \in SectorData /\ access[t].place \in Place
    BY <1>2, <1>5 DEF Access, Reads, Writes
  <2>2. at'[t] = "down" /\ \A u \in Client \ {t} : at'[u] \in {"out", "acquire"}
    BY <1>1, <1>2, <1>5 DEF IdeInv, IdeTypeOK
  <2>3. /\ drive'.status = "busy" /\ drive'.op = "store" /\ drive'.place = access[t].place
        /\ drive'.data = access[t].value
    BY <1>1, <1>5, <2>1 DEF IdeInv, IdeTypeOK, DriveExact
  <2>4. IdeTypeOK'
    BY ZenonT(40), <1>1, <1>2, <1>5, <2>1 DEF IdeInv, IdeTypeOK, Channel
  <2>5. \A u \in Client : ~Posted(u) /\ ((Posted(u))' <=> u = t)
    BY Zenon, <1>1, <1>2, <2>1, <2>2 DEF Posted, Writes
  <2>6. DriveExact'
    BY <1>1, <1>5, <2>1, <2>2, <2>3, <2>5 DEF DriveExact, Reads, Writes
  <2>7. \A p \in Place : /\ Settled(p) = media[p]
                         /\ (Settled(p))' = IF p = access[t].place THEN access[t].value ELSE media[p]
    BY SMTT(40), <1>1, <1>5, <2>3 DEF Settled
  <2>8. StoreExact'
    BY SMTT(40), <1>1, <2>5, <2>7 DEF IdeInv, StoreExact
  <2>9. TokenExact'
    BY <1>1, <1>2, <2>2, <2>3 DEF IdeInv, TokenExact, Awaited
  <2>10. QED
    BY <2>4, <2>6, <2>8, <2>9 DEF IdeInv
<1>6. QED
  BY <1>3, <1>4, <1>5 DEF transfer, goto, Reads, IdeInv, IdeTypeOK

(* lock_release(): what was written is now what the last write left.       *)
LEMMA ReleaseStep ==
  ASSUME IdeInv, NEW t \in Client, release(t) PROVE IdeInv'
<1>1. /\ at[t] = "release" /\ lock' = NoClient
      /\ latest' = IF Writes(t) THEN [latest EXCEPT ![access[t].place] = access[t].value] ELSE latest
      /\ at' = [at EXCEPT ![t] = "out"]
      /\ access' = [access EXCEPT ![t] = NoAccess] /\ buffer' = [buffer EXCEPT ![t] = Blank]
      /\ UNCHANGED <<expecting_interrupt, completion_wait, drive, irq, media, stray>>
  BY SMTT(40) DEF release, On, goto, Writes
<1>2. /\ access[t] \in Access /\ lock = t
      /\ \A u \in Client \ {t} : at[u] \in {"out", "acquire"}
  BY <1>1, Alone DEF IdeInv, IdeTypeOK, Channel
<1>3. IdeTypeOK'
  BY SMTT(40), <1>1, <1>2, IdeAssumption DEF IdeInv, IdeTypeOK, Channel, Access, SectorData
<1>4. \A u \in Client : /\ at'[u] \in {"out", "acquire"}
                        /\ u # t => access'[u] = access[u]
  BY <1>1, <1>2 DEF IdeInv, IdeTypeOK
<1>5. \A u \in Client : ~(Posted(u))' /\ (Posted(u) <=> u = t /\ Writes(t))
  BY SMTT(40), <1>1, <1>2, <1>4 DEF Posted, Writes
<1>6. drive.status = "idle" \/ drive.op = "store"
  BY SMTT(40), <1>1, <1>2 DEF IdeInv, DriveExact
<1>7. DriveExact'
  BY Zenon, <1>1, <1>4, <1>5, <1>6 DEF IdeInv, IdeTypeOK, DriveExact
<1>8. StoreExact'
  <2> SUFFICES ASSUME NEW p \in Place PROVE Settled(p) = latest'[p]
    BY SMTT(40), <1>1, <1>5 DEF StoreExact, Settled
  <2>1. CASE Writes(t) /\ p = access[t].place
    BY SMTT(40), <1>1, <1>5, <2>1 DEF IdeInv, IdeTypeOK, StoreExact
  <2>2. CASE ~(Writes(t) /\ p = access[t].place)
    BY <1>1, <1>5, <2>2 DEF IdeInv, IdeTypeOK, StoreExact
  <2>3. QED
    BY SMTT(40), <2>1, <2>2
<1>9. TokenExact'
  BY <1>1, <1>2, <1>4 DEF IdeInv, TokenExact, Awaited
<1>10. QED
  BY <1>3, <1>7, <1>8, <1>9 DEF IdeInv

(* interrupt_handler(): the completion moves from the wire to the          *)
(* semaphore.                                                              *)
LEMMA InterruptStep ==
  ASSUME IdeInv, ide_interrupt PROVE IdeInv'
<1>1. /\ irq /\ irq' = FALSE
      /\ completion_wait' = IF expecting_interrupt THEN completion_wait + 1 ELSE completion_wait
      /\ UNCHANGED <<lock, expecting_interrupt, at, access, buffer, drive, media, latest, stray>>
  BY DEF ide_interrupt, thread_vars
<1>2. IdeTypeOK'
  <2>1. completion_wait' \in Nat
    BY <1>1 DEF IdeInv, IdeTypeOK
  <2>2. irq' \in BOOLEAN
    BY ZenonT(40), <1>1
  <2>3. QED
    BY Zenon, <1>1, <2>1, <2>2 DEF IdeInv, IdeTypeOK
<1>3. DriveExact' /\ StoreExact'
  BY SMTT(40), <1>1 DEF IdeInv, DriveExact, StoreExact, Posted, Reads, Writes, Settled
<1>4. TokenExact'
  BY <1>1, <1>2 DEF IdeInv, IdeTypeOK, TokenExact, Awaited, Reads
<1>5. QED
  BY <1>2, <1>3, <1>4 DEF IdeInv

(* The drive has the sector of a read, or has failed to read it.           *)
LEMMA FetchStep ==
  ASSUME IdeInv, fetch \/ fail PROVE IdeInv'
<1>1. /\ drive.status = "busy" /\ drive.op = "read" /\ irq' = TRUE
      /\ drive'.op = "read" /\ drive'.place = drive.place
      /\ \/ drive'.status = "drq" /\ drive'.data = media[drive.place]
         \/ drive'.status = "idle"
      /\ UNCHANGED <<lock, expecting_interrupt, completion_wait, at, access, buffer, media,
                     latest, stray>>
  BY ZenonT(40) DEF fetch, fail, Controller, thread_vars, IdeInv, IdeTypeOK
<1>2. PICK t \in Client : at[t] \in {"down", "poll"} /\ ~Posted(t)
  BY Zenon, <1>1 DEF IdeInv, DriveExact
<1>3. /\ access[t] \in Access /\ \A u \in Client \ {t} : at[u] \in {"out", "acquire"}
  BY SMTT(40), <1>2, Alone DEF IdeInv, IdeTypeOK, Channel
<1>4. Reads(t) /\ ~Writes(t) /\ drive.place = access[t].place /\ access[t].place \in Place
  BY SMTT(40), <1>1, <1>2, <1>3 DEF IdeInv, DriveExact, Posted, Access, Reads, Writes
<1>5. \A u \in Client : ~Posted(u) /\ ~(Posted(u))'
  BY SMTT(40), <1>1, <1>3, <1>4 DEF Posted, Writes
<1>6. \A p \in Place : Settled(p) = media[p] /\ (Settled(p))' = media[p] /\ media[p] = latest[p]
  BY Zenon, <1>1, <1>5 DEF IdeInv, StoreExact, Settled
<1>7. IdeTypeOK'
  BY Zenon, <1>1, <1>4 DEF fetch, fail, Controller, IdeInv, IdeTypeOK
<1>8. DriveExact'
  BY SMTT(40), <1>1, <1>2, <1>3, <1>4, <1>5, <1>6 DEF DriveExact, Reads, Writes
<1>9. StoreExact'
  BY SMTT(40), <1>1, <1>5, <1>6 DEF StoreExact
<1>10. TokenExact'
  BY <1>1, <1>2, <1>3, <1>4 DEF IdeInv, IdeTypeOK, TokenExact, Awaited, Reads
<1>11. QED
  BY <1>7, <1>8, <1>9, <1>10 DEF IdeInv

(* The drive asks for the data of a write.                                 *)
LEMMA RequestDataStep ==
  ASSUME IdeInv, request_data PROVE IdeInv'
<1>1. /\ drive.status = "busy" /\ drive.op = "write"
      /\ drive' = [drive EXCEPT !.status = "drq"]
      /\ UNCHANGED <<lock, expecting_interrupt, completion_wait, at, access, buffer, irq, media,
                     latest, stray>>
  BY DEF request_data, Controller, thread_vars
<1>2. /\ drive'.status = "drq" /\ drive'.op = "write" /\ drive'.place = drive.place
  BY <1>1 DEF IdeInv, IdeTypeOK
<1>3. IdeTypeOK'
  BY <1>1 DEF IdeInv, IdeTypeOK
<1>4. DriveExact'
  BY <1>1, <1>2 DEF IdeInv, DriveExact, Posted, Reads, Writes
<1>5. StoreExact'
  BY <1>1, <1>2 DEF IdeInv, StoreExact, Posted, Writes, Settled
<1>6. TokenExact'
  <2>1. PICK t \in Client : at[t] \in {"down", "poll"} /\ ~Posted(t)
    BY <1>1 DEF IdeInv, DriveExact
  <2>2. access[t] \in Access /\ \A u \in Client \ {t} : at[u] \in {"out", "acquire"}
    BY <2>1, Alone DEF IdeInv, IdeTypeOK, Channel
  <2>3. at[t] = "poll" /\ ~Awaited
    BY <1>1, <2>1, <2>2 DEF IdeInv, DriveExact, Posted, Access, Reads, Writes, Awaited
  <2>4. QED
    BY <1>1, <1>2, <2>1, <2>3 DEF IdeInv, TokenExact, Awaited, Reads
<1>7. QED
  BY <1>3, <1>4, <1>5, <1>6 DEF IdeInv

(* The drive has written what a write handed to it.                        *)
LEMMA StoreDataStep ==
  ASSUME IdeInv, store PROVE IdeInv'
<1>1. /\ drive.status = "busy" /\ drive.op = "store" /\ irq' = TRUE
      /\ drive' = [drive EXCEPT !.status = "idle"]
      /\ media' = [media EXCEPT ![drive.place] = drive.data]
      /\ UNCHANGED <<lock, expecting_interrupt, completion_wait, at, access, buffer, latest, stray>>
  BY DEF store, Controller, thread_vars
<1>2. /\ drive'.status = "idle" /\ drive'.op = "store" /\ drive'.place = drive.place
      /\ drive'.data = drive.data
  BY <1>1 DEF IdeInv, IdeTypeOK
<1>3. IdeTypeOK'
  BY Zenon, <1>1 DEF IdeInv, IdeTypeOK
<1>4. DriveExact'
  BY <1>1, <1>2 DEF IdeInv, DriveExact, Posted, Reads, Writes
<1>5. \A p \in Place : (Settled(p))' = Settled(p)
  BY <1>1, <1>2 DEF IdeInv, IdeTypeOK, Settled
<1>6. StoreExact'
  BY <1>1, <1>5 DEF IdeInv, StoreExact, Posted, Writes
<1>7. TokenExact'
  <2> SUFFICES ASSUME stray = 0 PROVE TokenExact'
    BY <1>1 DEF TokenExact
  <2>1. PICK t \in Client : at[t] \in {"down", "poll"}
    BY <1>1 DEF IdeInv, TokenExact
  <2>2. access[t] \in Access
    BY <2>1 DEF IdeInv, IdeTypeOK
  <2>3. at[t] = "down"
    BY <1>1, <2>1, <2>2 DEF IdeInv, DriveExact, Access, Reads, Writes
  <2>4. Awaited /\ Awaited'
    BY <1>1, <2>3 DEF Awaited
  <2>5. QED
    BY <1>1, <1>2, <2>4 DEF IdeInv, IdeTypeOK, TokenExact, Reads
<1>8. QED
  BY <1>3, <1>4, <1>6, <1>7 DEF IdeInv

(* An interrupt nobody asked for: from then on only reads are exact.       *)
LEMMA StrayStep ==
  ASSUME IdeInv, stray_interrupt PROVE IdeInv'
<1>1. /\ irq' = TRUE /\ stray' = stray + 1
      /\ UNCHANGED <<lock, expecting_interrupt, completion_wait, at, access, buffer, drive,
                     media, latest>>
  BY DEF stray_interrupt, thread_vars
<1>2. stray \in Nat /\ stray' \in Nat /\ stray' # 0
  BY <1>1 DEF IdeInv, IdeTypeOK
<1>3. IdeTypeOK'
  BY ZenonT(40), <1>1, <1>2 DEF IdeInv, IdeTypeOK
<1>4. DriveExact' /\ StoreExact'
  BY <1>1 DEF IdeInv, DriveExact, StoreExact, Posted, Reads, Writes, Settled
<1>5. TokenExact'
  BY <1>2 DEF TokenExact
<1>6. QED
  BY <1>3, <1>4, <1>5 DEF IdeInv

(* Every step of the driver, the handler and the drive.                    *)
LEMMA IdeStep == IdeInv /\ [IdeNext]_ideVars => IdeInv'
<1> SUFFICES ASSUME IdeInv, [IdeNext]_ideVars PROVE IdeInv'
  OBVIOUS
<1>1. ASSUME NEW t \in Client, Driver(t) PROVE IdeInv'
  BY <1>1, AcquireStep, SelectStep, DownStep, TransferStep, ReleaseStep DEF Driver
<1>2. ASSUME NEW t \in Client, NEW b \in Block, NEW s \in SectorOf(b), NEW v \in Value,
             \/ block_request(t, "read", b, s, Blank)
             \/ block_request(t, "write", b, s, v)
      PROVE  IdeInv'
  <2>1. Blank \in SectorData /\ v \in SectorData
    BY DEF SectorData
  <2>2. QED
    BY <1>2, <2>1, RequestStep
<1>3. CASE ide_interrupt \/ Answer \/ fail \/ stray_interrupt
  BY SMTT(40), <1>3, InterruptStep, FetchStep, RequestDataStep, StoreDataStep, StrayStep DEF Answer
<1>4. CASE UNCHANGED ideVars
  BY ZenonT(40), <1>4 DEF ideVars, IdeInv, IdeTypeOK, DriveExact, StoreExact, TokenExact, Posted,
              Reads, Writes, Settled, Awaited
<1>5. QED
  BY <1>1, <1>2, <1>3, <1>4 DEF IdeNext

(* The inductive invariant of ide.c.                                       *)
THEOREM IdeInvariant == IdeSpec => []IdeInv
BY IdeStart, IdeStep, PTL DEF IdeSpec

(* The disk is a store of sectors: ide_read() returns what the last write  *)
(* that returned put there, also after interrupts nobody asked for, and    *)
(* without those ide_write() returns after the disk has the data and       *)
(* leaves no completion behind.                                            *)
THEOREM DiskIsExact == IdeSpec => []DiskExact
<1>1. IdeInv => DiskExact
  <2> SUFFICES ASSUME IdeInv PROVE DiskExact
    OBVIOUS
  <2>1. ReadsExact
    BY DEF IdeInv, DriveExact, ReadsExact, Reads
  <2>2. ASSUME stray = 0, NEW t \in Client, at[t] = "release", Writes(t)
        PROVE  media[access[t].place] = access[t].value
    <3>1. /\ access[t] \in Access /\ Posted(t)
          /\ \A u \in Client \ {t} : at[u] \in {"out", "acquire"}
      BY <2>2, Alone DEF IdeInv, IdeTypeOK, Channel, Posted
    <3>2. drive.status = "idle"
      BY <2>2, <3>1 DEF IdeInv, TokenExact
    <3>3. QED
      BY <3>1, <3>2 DEF IdeInv, StoreExact, Settled, Access
  <2>3. ASSUME stray = 0, lock = NoClient
        PROVE  completion_wait = 0 /\ ~irq /\ drive.status = "idle"
    <3>1. \A t \in Client : at[t] \notin Channel
      BY <2>3, IdeAssumption DEF IdeInv, IdeTypeOK
    <3>2. QED
      BY <2>3, <3>1 DEF IdeInv, TokenExact, Awaited, Channel
  <2>4. QED
    BY <2>1, <2>2, <2>3 DEF DiskExact, CompletionsExact, Writes
<1>2. QED
  BY <1>1, IdeInvariant, PTL

-----------------------------------------------------------------------------
(* The buffer cache.                                                       *)

(* Slot i caches sector s.                                                 *)
Holds(i, s) == Valid(i) /\ cache_table[i].disk_sector = s

(* What the operation that holds cache_lock knows at each of its disk      *)
(* accesses: the sector it asked for is in no slot until it is filled in,  *)
(* and is then in the slot it copies from or to; the slots the write-back  *)
(* has passed are clean, or empty if it is the last one.                   *)
StageExact ==
  /\ stage \in {"flush", "fill", "copy"} => req.op \in {"read", "write"}
  /\ stage = "flush" => Valid(slot)
  /\ stage \in {"flush", "fill"} => \A i \in Slot : ~Holds(i, req.sector)
  /\ stage = "copy" => Holds(slot, req.sector)
  /\ stage = "scan" =>
       /\ req.op \in {"writeback", "last_writeback"}
       /\ \A i \in Slot : i < slot =>
            /\ ~cache_table[i].dirty
            /\ req.op = "last_writeback" => ~cache_table[i].occupied

(* The inductive invariant.                                                *)
CacheInv == CacheExact /\ StageExact

-----------------------------------------------------------------------------
(* Types *)

(* The ends of cache_table are slots of it.                                *)
LEMMA SlotFacts == 0 \in Slot /\ CACHE_SIZE - 1 \in Slot /\ Slot \subseteq Nat
BY CacheAssumption DEF Slot

(* The arguments of no operation are well typed.                           *)
LEMMA NoRequestType == NoRequest \in Request
BY CacheAssumption DEF NoRequest, Request, Operation

(* round_robin_idx is taken modulo CACHE_SIZE by cache_evict().            *)
LEMMA VictimType ==
  ASSUME NEW r \in Slot
  PROVE  (r + 1) % CACHE_SIZE \in Slot
BY CacheAssumption DEF Slot

(* First() takes a member of a nonempty set of slots, so cache_lookup()    *)
(* and cache_get_free_entry() return an index of the table.                *)
LEMMA FirstMember ==
  ASSUME NEW S \in SUBSET Slot, S # {}
  PROVE  First(S) \in S
<1>1. S \subseteq Nat
  BY SlotFacts
<1>2. PICK i \in S : \A j \in S : ~(<<j, i>> \in OpToRel(<, Nat))
  BY <1>1, NatLessThanWellFounded, WFMin
<1>3. \A j \in Nat : j < i => <<j, i>> \in OpToRel(<, Nat)
  BY <1>1 DEF OpToRel
<1>4. \A j \in S : ~(j < i)
  BY <1>1, <1>2, <1>3, Zenon
<1>5. \A j \in S : i <= j
  BY <1>1, <1>4
<1>6. QED
  BY <1>5 DEF First

-----------------------------------------------------------------------------
(* The invariant holds at start and through every step. *)

(* cache_init() leaves an empty table.                                     *)
LEMMA CacheStart == CacheInit => CacheInv
BY SlotFacts, NoRequestType, CacheAssumption
DEF CacheInit, CacheInv, CacheExact, CacheTypeOK, OneCopy, CleanIsCopy,
    StageExact, Valid, Data, Entry, zeros

(* cache_read() and cache_write() up to their first disk access.           *)
LEMMA LookupPreserves ==
  ASSUME CacheInv, stage = "free",
         NEW s \in Sector, lookup(s), UNCHANGED <<disk, returned>>,
         req' \in Request, req'.op \in {"read", "write"}, req'.sector = s
  PROVE  CacheInv'
<1> USE DEF CacheInv, CacheExact, CacheTypeOK
<1>1. CASE Cached(s) # {} /\ slot' = First(Cached(s)) /\ stage' = "copy"
           /\ UNCHANGED <<cache_table, round_robin_idx>>
  <2>1. slot' \in Slot /\ cache_table[slot'].occupied
                       /\ cache_table[slot'].disk_sector = s
    BY <1>1, FirstMember DEF Cached
  <2>2. QED
    BY <1>1, <2>1 DEF OneCopy, CleanIsCopy, StageExact, Valid, Holds
<1>2. CASE /\ Cached(s) = {}
           /\ FreeSlots # {}
           /\ slot' = First(FreeSlots)
           /\ cache_table' = [cache_table EXCEPT ![First(FreeSlots)].occupied = TRUE]
           /\ stage' = "fill"
           /\ UNCHANGED round_robin_idx
  <2>1. slot' \in Slot /\ ~cache_table[slot'].occupied
    BY SMTT(40), <1>2, FirstMember DEF FreeSlots
  <2>2. /\ cache_table' \in [Slot -> Entry]
        /\ \A i \in Slot : i # slot' => cache_table'[i] = cache_table[i]
        /\ cache_table'[slot'].dirty = cache_table[slot'].dirty
    BY Zenon, <1>2, <2>1 DEF Entry
  <2>3. CacheTypeOK'
    BY <1>2, <2>1, <2>2
  <2>4. \A i \in Slot : (Valid(i))' => Valid(i) /\ i # slot'
    BY <1>2, <2>2 DEF Valid
  <2>5. OneCopy' /\ CleanIsCopy'
    BY <1>2, <2>1, <2>2, <2>4 DEF OneCopy, CleanIsCopy, Valid
  <2>6. StageExact'
    BY <1>2, <2>2, <2>4 DEF StageExact, Holds, Cached, Valid
  <2>7. QED
    BY <2>3, <2>5, <2>6
<1>3. CASE /\ Cached(s) = {}
           /\ round_robin_idx' = (round_robin_idx + 1) % CACHE_SIZE
           /\ slot' = round_robin_idx'
           /\ cache_table[slot'].dirty
           /\ stage' = "flush"
           /\ UNCHANGED cache_table
  <2>1. slot' \in Slot
    BY <1>3, VictimType
  <2>2. QED
    BY <1>3, <2>1 DEF OneCopy, CleanIsCopy, StageExact, Valid, Holds, Cached
<1>4. CASE /\ Cached(s) = {}
           /\ round_robin_idx' = (round_robin_idx + 1) % CACHE_SIZE
           /\ slot' = round_robin_idx'
           /\ stage' = "fill"
           /\ cache_table' = [cache_table EXCEPT ![slot'] = cleared(@)]
  <2>1. slot' \in Slot
    BY <1>4, VictimType
  <2>2. /\ cache_table' \in [Slot -> Entry]
        /\ \A i \in Slot : i # slot' => cache_table'[i] = cache_table[i]
        /\ ~cache_table'[slot'].dirty
    BY ZenonT(30), <1>4, <2>1 DEF Entry, cleared
  <2>3. CacheTypeOK'
    BY <1>4, <2>1, <2>2
  <2>4. \A i \in Slot : (Valid(i))' => Valid(i) /\ i # slot'
    BY <1>4, <2>2 DEF Valid
  <2>5. OneCopy' /\ CleanIsCopy'
    BY <1>4, <2>1, <2>2, <2>4 DEF OneCopy, CleanIsCopy, Valid
  <2>6. StageExact'
    BY <1>4, <2>2, <2>4 DEF StageExact, Holds, Cached, Valid
  <2>7. QED
    BY <2>3, <2>5, <2>6
<1>5. QED
  BY <1>1, <1>2, <1>3, <1>4 DEF lookup

(* cache_evict() of a dirty slot: no other slot has the sector written.    *)
LEMMA EvictFlushPreserves == CacheInv /\ evict_flush => CacheInv'
<1> SUFFICES ASSUME CacheInv, evict_flush PROVE CacheInv'
  OBVIOUS
<1> USE DEF CacheInv, CacheExact, CacheTypeOK, evict_flush
<1>1. /\ cache_table' \in [Slot -> Entry]
      /\ \A i \in Slot : i # slot => cache_table'[i] = cache_table[i]
      /\ ~cache_table'[slot].dirty
  BY Zenon DEF Entry, cleared
<1>2. /\ disk' \in [Sector -> Data]
      /\ \A s \in Sector : s # cache_table[slot].disk_sector => disk'[s] = disk[s]
  BY DEF Entry
<1>3. CacheTypeOK'
  BY <1>1, <1>2
<1>4. \A i \in Slot : (Valid(i))' => Valid(i) /\ i # slot
  BY <1>1 DEF Valid
<1>5. OneCopy'
  BY <1>1, <1>4 DEF OneCopy
<1>6. \A i \in Slot : (Valid(i))' => cache_table[i].disk_sector # cache_table[slot].disk_sector
  BY <1>4 DEF OneCopy, StageExact
<1>7. CleanIsCopy'
  BY <1>1, <1>2, <1>4, <1>6 DEF CleanIsCopy, Valid, Entry
<1>8. StageExact'
  BY <1>1, <1>4 DEF StageExact, Holds
<1>9. QED
  BY <1>3, <1>5, <1>7, <1>8

(* A miss: the sector read in was in no slot, and the slot is clean.       *)
LEMMA FillPreserves == CacheInv /\ fill => CacheInv'
<1> SUFFICES ASSUME CacheInv, fill PROVE CacheInv'
  OBVIOUS
<1> USE DEF CacheInv, CacheExact, CacheTypeOK, fill
<1>1. ~cache_table[slot].dirty
  BY DEF CleanIsCopy, Valid
<1>2. /\ cache_table' \in [Slot -> Entry]
      /\ \A i \in Slot : i # slot => cache_table'[i] = cache_table[i]
      /\ cache_table'[slot].occupied
      /\ ~cache_table'[slot].dirty
      /\ cache_table'[slot].disk_sector = req.sector
      /\ cache_table'[slot].block = disk[req.sector]
  BY Zenon, <1>1 DEF Entry, Request
<1>3. CacheTypeOK'
  BY <1>2
<1>4. \A i \in Slot : (Valid(i))' <=> Valid(i) \/ i = slot
  BY <1>2 DEF Valid
<1>5. \A i \in Slot : Valid(i) => cache_table[i].disk_sector # req.sector
  BY DEF StageExact, Holds
<1>6. \A i \in Slot : Valid(i) => i # slot
  BY DEF Valid
<1>7. OneCopy'
  BY SMTT(40), <1>2, <1>4, <1>5, <1>6 DEF OneCopy
<1>8. CleanIsCopy'
  BY SMTT(40), <1>2, <1>4, <1>6 DEF CleanIsCopy
<1>9. StageExact'
  BY SMTT(40), <1>2, <1>4 DEF StageExact, Holds
<1>10. QED
  BY <1>3, <1>7, <1>8, <1>9

(* The end of cache_read().                                                *)
LEMMA CopyOutPreserves == CacheInv /\ copy_out => CacheInv'
<1> SUFFICES ASSUME CacheInv, copy_out PROVE CacheInv'
  OBVIOUS
<1>1. returned' \in Byte
  BY DEF CacheInv, CacheExact, CacheTypeOK, copy_out, Entry, Data, Request
<1>2. QED
  BY <1>1, SlotFacts, NoRequestType
  DEF CacheInv, CacheExact, CacheTypeOK, OneCopy, CleanIsCopy, StageExact,
      Valid, copy_out, lock_release

(* The end of cache_write(), which dirties its slot.                       *)
LEMMA CopyInPreserves == CacheInv /\ copy_in => CacheInv'
<1> SUFFICES ASSUME CacheInv, copy_in PROVE CacheInv'
  OBVIOUS
<1> USE DEF CacheInv, CacheExact, CacheTypeOK, copy_in, lock_release
<1>1. /\ cache_table' \in [Slot -> Entry]
      /\ \A i \in Slot : i # slot => cache_table'[i] = cache_table[i]
      /\ cache_table'[slot].occupied = cache_table[slot].occupied
      /\ cache_table'[slot].dirty
      /\ cache_table'[slot].disk_sector = cache_table[slot].disk_sector
  BY ZenonT(30) DEF Entry, Request, Data
<1>2. CacheTypeOK'
  BY <1>1, SlotFacts, NoRequestType
<1>3. \A i \in Slot : /\ (Valid(i))' <=> Valid(i)
                      /\ cache_table'[i].disk_sector = cache_table[i].disk_sector
  BY <1>1 DEF Valid
<1>4. OneCopy'
  BY <1>3 DEF OneCopy
<1>5. Valid(slot)
  BY DEF StageExact, Holds
<1>6. CleanIsCopy'
  BY <1>1, <1>3, <1>5 DEF CleanIsCopy
<1>7. StageExact'
  BY DEF StageExact
<1>8. QED
  BY <1>2, <1>4, <1>6, <1>7

(* cache_writeback() starts with no slot passed.                           *)
LEMMA WritebackPreserves ==
  ASSUME CacheInv, NEW last \in BOOLEAN, cache_writeback(last)
  PROVE  CacheInv'
<1>1. req' \in Request /\ req'.op \in {"writeback", "last_writeback"}
  BY NoRequestType DEF cache_writeback, Request, Operation
<1>2. \A i \in Slot : ~(i < 0)
  BY SlotFacts
<1>3. QED
  BY <1>1, <1>2, SlotFacts
  DEF CacheInv, CacheExact, CacheTypeOK, OneCopy, CleanIsCopy, StageExact,
      Valid, cache_writeback

(* What one round of the loop of cache_writeback() does to its slot, to    *)
(* the other slots and to the disk.                                        *)
LEMMA WritebackEntryFacts ==
  ASSUME CacheInv, writeback_entry
  PROVE  /\ cache_table' \in [Slot -> Entry]
         /\ \A i \in Slot : i # slot => cache_table'[i] = cache_table[i]
         /\ ~cache_table'[slot].dirty
         /\ cache_table'[slot].disk_sector = cache_table[slot].disk_sector
         /\ cache_table'[slot].block = cache_table[slot].block
         /\ cache_table'[slot].occupied =>
              cache_table[slot].occupied /\ req.op # "last_writeback"
         /\ disk' \in [Sector -> Data]
         /\ \A s \in Sector : disk'[s] # disk[s] =>
              Holds(slot, s)
         /\ Valid(slot) =>
              disk'[cache_table[slot].disk_sector] = cache_table[slot].block
<1> USE DEF CacheInv, CacheExact, CacheTypeOK, writeback_entry, writeback_round
<1>1. cache_table[slot] \in Entry
  OBVIOUS
<1>2. cache_table[slot].dirty => Valid(slot) /\ cache_table[slot].occupied
  BY DEF CleanIsCopy, Valid
<1>3. Valid(slot) <=> cache_table[slot].occupied
  BY DEF Valid
<1>4. CASE cache_table[slot].dirty
  <2>1. disk' = [disk EXCEPT ![cache_table[slot].disk_sector] = cache_table[slot].block]
    BY <1>2, <1>4
  <2>2. /\ disk' \in [Sector -> Data]
        /\ (\A s \in Sector : disk'[s] # disk[s] => Holds(slot, s))
        /\ disk'[cache_table[slot].disk_sector] = cache_table[slot].block
    BY <2>1, <1>1, <1>2, <1>4 DEF Entry, Holds
  <2>3. QED
    BY Zenon, <2>2, <1>1, <1>2, <1>4 DEF cleared, Entry
<1>5. CASE ~cache_table[slot].dirty
  <2>1. disk' = disk
    BY <1>5
  <2>2. Valid(slot) => disk'[cache_table[slot].disk_sector] = cache_table[slot].block
    BY <2>1, <1>5 DEF CleanIsCopy
  <2>3. QED
    BY Zenon, <2>1, <2>2, <1>1, <1>5 DEF cleared, Entry
<1>6. QED
  BY <1>4, <1>5

(* A round of cache_writeback() writes no sector that another slot holds.  *)
LEMMA WritebackEntryPreserves == CacheInv /\ writeback_entry => CacheInv'
<1> SUFFICES ASSUME CacheInv, writeback_entry PROVE CacheInv'
  OBVIOUS
<1> USE DEF CacheInv, CacheExact, CacheTypeOK
<1>1. stage = "scan" /\ UNCHANGED <<round_robin_idx, returned>>
  BY DEF writeback_entry, writeback_round
<1>2. \/ slot = CACHE_SIZE - 1 /\ lock_release
      \/ slot # CACHE_SIZE - 1 /\ slot' = slot + 1 /\ UNCHANGED <<stage, req>>
  BY DEF writeback_entry, writeback_round
<1>3. CacheTypeOK'
  BY SMTT(40), <1>1, <1>2, WritebackEntryFacts, NoRequestType, CacheAssumption
  DEF lock_release, Slot
<1>4. \A i \in Slot : (Valid(i))' => Valid(i)
  BY <1>1, WritebackEntryFacts DEF Valid
<1>5. \A i \in Slot : cache_table'[i].disk_sector = cache_table[i].disk_sector
  BY WritebackEntryFacts
<1>6. OneCopy'
  BY <1>4, <1>5 DEF OneCopy
<1>7. \A i \in Slot : i # slot /\ Valid(i)
        => disk'[cache_table[i].disk_sector] = disk[cache_table[i].disk_sector]
  BY WritebackEntryFacts DEF OneCopy, Holds, Entry
<1>8. \A i \in Slot : i # slot => ((Valid(i))' <=> Valid(i))
  BY <1>1, <1>2, WritebackEntryFacts DEF Valid, lock_release
<1>9. CleanIsCopy'
  BY <1>4, <1>7, <1>8, WritebackEntryFacts DEF CleanIsCopy
<1>10. StageExact'
  <2>1. CASE lock_release
    BY SMTT(40), <2>1 DEF StageExact, lock_release
  <2>2. CASE slot' = slot + 1 /\ UNCHANGED <<stage, req>>
    <3>1. \A i \in Slot : i < slot' => i < slot \/ i = slot
      BY <2>2, SlotFacts
    <3>2. QED
      BY <1>1, <2>2, <3>1, WritebackEntryFacts DEF StageExact
  <2>3. QED
    BY <1>2, <2>1, <2>2
<1>11. QED
  BY <1>3, <1>6, <1>9, <1>10

(* One step per action.                                                    *)
LEMMA CacheStep == CacheInv /\ [CacheNext]_cacheVars => CacheInv'
<1> SUFFICES ASSUME CacheInv, [CacheNext]_cacheVars PROVE CacheInv'
  OBVIOUS
<1>1. ASSUME NEW s \in Sector, NEW p \in Part, cache_read(s, p)
      PROVE  CacheInv'
  <2>1. req' \in Request /\ req'.op = "read" /\ req'.sector = s
    BY <1>1, CacheAssumption DEF cache_read, Request, Operation
  <2>2. QED
    BY <1>1, <2>1, LookupPreserves DEF cache_read
<1>2. ASSUME NEW s \in Sector, NEW p \in Part, NEW b \in Byte, cache_write(s, p, b)
      PROVE  CacheInv'
  <2>1. req' \in Request /\ req'.op = "write" /\ req'.sector = s
    BY <1>2 DEF cache_write, Request, Operation
  <2>2. QED
    BY <1>2, <2>1, LookupPreserves DEF cache_write
<1>3. CASE Progress
  BY SMTT(40), <1>3, EvictFlushPreserves, FillPreserves, CopyOutPreserves,
     CopyInPreserves, WritebackEntryPreserves DEF Progress
<1>4. CASE UNCHANGED cacheVars
  BY <1>4
  DEF cacheVars, CacheInv, CacheExact, CacheTypeOK, OneCopy, CleanIsCopy,
      StageExact, Valid, Holds
<1>5. QED
  BY <1>1, <1>2, <1>3, <1>4, WritebackPreserves DEF CacheNext

(* The table is exact at every point of every operation.                   *)
THEOREM CacheInvariant == CacheSpec => []CacheInv
BY CacheStart, CacheStep, PTL DEF CacheSpec

(* No sector is cached twice, a clean slot is a perfect copy of the disk,  *)
(* a free or reserved slot is not dirty and every index stays in the       *)
(* table, for any number of slots and sectors.                             *)
THEOREM CacheTableCorrect == CacheSpec => []CacheExact
<1>1. CacheInv => CacheExact
  BY DEF CacheInv
<1>2. QED
  BY CacheInvariant, <1>1, PTL

-----------------------------------------------------------------------------
(* The cache implements SectorStore. *)

(* The content of a sector is that of the slot that holds it, or else that *)
(* of the disk.                                                            *)
ContentFacts ==
  \A s \in Sector :
    /\ \A i \in Slot : Holds(i, s) => Content(s) = cache_table[i].block
    /\ (\A i \in Slot : ~Holds(i, s)) => Content(s) = disk[s]

(* Content(s) is the cached copy of the sector, or else the one on disk.   *)
LEMMA ContentIs == CacheInv => ContentFacts
<1> SUFFICES ASSUME CacheInv, NEW s \in Sector
             PROVE  /\ \A i \in Slot : Holds(i, s) => Content(s) = cache_table[i].block
                    /\ (\A i \in Slot : ~Holds(i, s)) => Content(s) = disk[s]
  BY DEF ContentFacts
<1>1. ASSUME NEW i \in Slot, Holds(i, s)
      PROVE  Content(s) = cache_table[i].block
  <2>1. (CHOOSE j \in Slot : Valid(j) /\ cache_table[j].disk_sector = s) = i
    BY <1>1 DEF Holds, CacheInv, CacheExact, OneCopy
  <2>2. QED
    BY Zenon, <1>1, <2>1 DEF Holds, Content
<1>2. ASSUME \A i \in Slot : ~Holds(i, s)
      PROVE  Content(s) = disk[s]
  BY <1>2 DEF Holds, Content
<1>3. QED
  BY <1>1, <1>2

(* A step after which the same slots hold the same sectors and data, but   *)
(* for slots taken out of use with the disk up to date or filled in from   *)
(* the disk, changes the content of no sector.                             *)
LEMMA SameContent ==
  ASSUME CacheInv, CacheInv',
         \A i \in Slot, s \in Sector :
           Holds(i, s)' /\ ~Holds(i, s) =>
             /\ \A j \in Slot : ~Holds(j, s)
             /\ cache_table'[i].block = disk[s],
         \A i \in Slot, s \in Sector :
           Holds(i, s)' /\ Holds(i, s) => cache_table'[i].block = cache_table[i].block,
         \A i \in Slot, s \in Sector :
           Holds(i, s) /\ ~Holds(i, s)' => disk'[s] = cache_table[i].block,
         \A s \in Sector : (\A i \in Slot : ~Holds(i, s)) => disk'[s] = disk[s]
  PROVE  \A s \in Sector : Content(s)' = Content(s)
<1> SUFFICES ASSUME NEW s \in Sector PROVE Content(s)' = Content(s)
  OBVIOUS
<1>1. ContentFacts /\ ContentFacts'
  <2>1. CacheInv' => ContentFacts'
    BY ContentIs, PTL
  <2>2. QED
    BY <2>1, ContentIs
<1>2. CASE \E i \in Slot : Holds(i, s)'
  BY <1>1, <1>2 DEF ContentFacts
<1>3. CASE \A i \in Slot : ~Holds(i, s)'
  BY SMTT(40), <1>1, <1>3 DEF ContentFacts
<1>4. QED
  BY SMTT(40), <1>2, <1>3

(* Only a clean slot is given up without a write to the disk.              *)
LEMMA LookupContent ==
  ASSUME CacheInv, CacheInv', stage = "free",
         NEW s \in Sector, lookup(s), UNCHANGED disk
  PROVE  \A t \in Sector : Content(t)' = Content(t)
<1> USE DEF CacheInv, CacheExact, CacheTypeOK
<1>1. \A i \in Slot : /\ cache_table'[i].block = cache_table[i].block
                      /\ cache_table'[i].disk_sector = cache_table[i].disk_sector
  <2>1. FreeSlots # {} => First(FreeSlots) \in Slot
    BY ZenonT(30), FirstMember DEF FreeSlots
  <2>2. (round_robin_idx + 1) % CACHE_SIZE \in Slot
    BY VictimType
  <2>3. \/ cache_table' = cache_table
        \/ \E k \in Slot : cache_table' = [cache_table EXCEPT ![k].occupied = TRUE]
        \/ \E k \in Slot : cache_table' = [cache_table EXCEPT ![k] = cleared(@)]
    BY <2>1, <2>2 DEF lookup
  <2>4. ASSUME NEW k \in Slot, cache_table' = [cache_table EXCEPT ![k].occupied = TRUE]
        PROVE  \A i \in Slot : /\ cache_table'[i].block = cache_table[i].block
                               /\ cache_table'[i].disk_sector = cache_table[i].disk_sector
    BY <2>4 DEF Entry
  <2>5. ASSUME NEW k \in Slot, cache_table' = [cache_table EXCEPT ![k] = cleared(@)]
        PROVE  \A i \in Slot : /\ cache_table'[i].block = cache_table[i].block
                               /\ cache_table'[i].disk_sector = cache_table[i].disk_sector
    BY <2>5 DEF Entry, cleared
  <2>6. QED
    BY <2>3, <2>4, <2>5
<1>2. \A i \in Slot : (Valid(i))' => Valid(i)
  BY VictimType, FirstMember DEF lookup, cleared, Entry, Valid
<1>3. \A i \in Slot : Valid(i) /\ ~(Valid(i))' => ~cache_table[i].dirty
  BY SMTT(40), VictimType, FirstMember DEF lookup, cleared, Entry, Valid, FreeSlots
<1>4. \A i \in Slot : Valid(i) /\ ~(Valid(i))'
        => disk[cache_table[i].disk_sector] = cache_table[i].block
  BY SMTT(40), <1>3 DEF CleanIsCopy
<1>5. QED
  BY <1>1, <1>2, <1>4, SameContent DEF Holds

(* A dirty victim reaches the disk before its slot is given up.            *)
LEMMA EvictFlushContent ==
  ASSUME CacheInv, CacheInv', evict_flush
  PROVE  \A t \in Sector : Content(t)' = Content(t)
<1> USE DEF CacheInv, CacheExact, CacheTypeOK, evict_flush
<1>1. /\ \A i \in Slot : i # slot => cache_table'[i] = cache_table[i]
      /\ ~cache_table'[slot].occupied
  BY DEF Entry, cleared
<1>2. \A i \in Slot, t \in Sector : Holds(i, t)' => Holds(i, t) /\ i # slot
  BY <1>1 DEF Holds, Valid
<1>3. \A i \in Slot, t \in Sector : Holds(i, t) /\ ~Holds(i, t)' => i = slot
  BY <1>1 DEF Holds, Valid
<1>4. \A t \in Sector : Holds(slot, t) => disk'[t] = cache_table[slot].block
  BY DEF Holds
<1>5. \A t \in Sector : ~Holds(slot, t) => disk'[t] = disk[t]
  BY SMTT(40) DEF Holds, StageExact, Entry
<1>6. QED
  BY ZenonT(40), <1>1, <1>2, <1>3, <1>4, <1>5, SameContent

(* A sector read in from the disk was not in the cache.                    *)
LEMMA FillContent ==
  ASSUME CacheInv, CacheInv', fill
  PROVE  \A t \in Sector : Content(t)' = Content(t)
<1> USE DEF CacheInv, CacheExact, CacheTypeOK, fill
<1>1. /\ \A i \in Slot : i # slot => cache_table'[i] = cache_table[i]
      /\ cache_table'[slot].disk_sector = req.sector
      /\ cache_table'[slot].block = disk[req.sector]
  BY DEF Entry
<1>2. \A i \in Slot, t \in Sector : Holds(i, t)' => \/ Holds(i, t) /\ i # slot
                                                    \/ i = slot /\ t = req.sector
  BY <1>1 DEF Holds, Valid
<1>3. \A i \in Slot, t \in Sector : Holds(i, t) => Holds(i, t)' /\ i # slot
  BY <1>1 DEF Holds, Valid
<1>4. \A i \in Slot : ~Holds(i, req.sector)
  BY DEF StageExact
<1>5. QED
  BY ZenonT(40), <1>1, <1>2, <1>3, <1>4, SameContent

(* A round of cache_writeback() only copies to the disk.                   *)
LEMMA WritebackEntryContent ==
  ASSUME CacheInv, CacheInv', writeback_entry
  PROVE  \A t \in Sector : Content(t)' = Content(t)
<1> USE DEF CacheInv, CacheExact, CacheTypeOK
<1>1. stage = "scan" /\ stage' \in {"scan", "free"}
  BY DEF writeback_entry, writeback_round, lock_release
<1>2. \A i \in Slot, t \in Sector : Holds(i, t)' => Holds(i, t)
  BY <1>1, WritebackEntryFacts DEF Holds, Valid
<1>3. \A i \in Slot, t \in Sector : Holds(i, t) /\ ~Holds(i, t)' => i = slot
  BY <1>1, WritebackEntryFacts DEF Holds, Valid
<1>4. \A i \in Slot : cache_table'[i].block = cache_table[i].block
  BY WritebackEntryFacts
<1>5. \A t \in Sector : Holds(slot, t) => disk'[t] = cache_table[slot].block
  BY WritebackEntryFacts DEF Holds
<1>6. \A t \in Sector : ~Holds(slot, t) => disk'[t] = disk[t]
  BY SMTT(40), WritebackEntryFacts
<1>7. QED
  BY <1>2, <1>3, <1>4, <1>5, <1>6, SameContent

(* cache_read() returns the content of the sector at that moment, and      *)
(* changes none.                                                           *)
LEMMA CopyOutReads ==
  ASSUME CacheInv, CacheInv', copy_out
  PROVE  /\ returned' = Content(req.sector)[req.part]
         /\ \A t \in Sector : Content(t)' = Content(t)
<1> USE DEF CacheInv, CacheExact, CacheTypeOK, copy_out, lock_release
<1>1. Content(req.sector) = cache_table[slot].block
  BY ContentIs DEF ContentFacts, StageExact, Request
<1>2. \A i \in Slot, t \in Sector : Holds(i, t)' <=> Holds(i, t)
  BY DEF Holds, Valid
<1>3. QED
  BY <1>1, <1>2, SameContent

(* cache_write() changes one part of one sector.                           *)
LEMMA CopyInWrites ==
  ASSUME CacheInv, CacheInv', copy_in
  PROVE  \A t \in Sector :
           Content(t)' = IF t = req.sector
                         THEN [Content(t) EXCEPT ![req.part] = req.byte]
                         ELSE Content(t)
<1> USE DEF CacheInv, CacheExact, CacheTypeOK, copy_in, lock_release
<1>1. /\ \A i \in Slot : i # slot => cache_table'[i] = cache_table[i]
      /\ cache_table'[slot].occupied = cache_table[slot].occupied
      /\ cache_table'[slot].disk_sector = cache_table[slot].disk_sector
      /\ cache_table'[slot].block = [cache_table[slot].block EXCEPT ![req.part] = req.byte]
  BY DEF Entry
<1>2. \A i \in Slot, t \in Sector : Holds(i, t)' <=> Holds(i, t)
  BY <1>1 DEF Holds, Valid
<1>3. ContentFacts /\ ContentFacts'
  <2>1. CacheInv' => ContentFacts'
    BY ContentIs, PTL
  <2>2. QED
    BY <2>1, ContentIs
<1>4. Holds(slot, req.sector) /\ req.sector \in Sector
  BY DEF StageExact, Request
<1>5. ASSUME NEW t \in Sector, t # req.sector
      PROVE  Content(t)' = Content(t)
  <2>1. ~Holds(slot, t)
    BY <1>4, <1>5 DEF Holds
  <2>2. CASE \E i \in Slot : Holds(i, t)
    BY <1>1, <1>2, <1>3, <2>1, <2>2 DEF ContentFacts
  <2>3. CASE \A i \in Slot : ~Holds(i, t)
    BY <1>2, <1>3, <2>3 DEF ContentFacts
  <2>4. QED
    BY <2>2, <2>3
<1>6. ASSUME NEW t \in Sector, t = req.sector
      PROVE  Content(t)' = [Content(t) EXCEPT ![req.part] = req.byte]
  BY <1>1, <1>2, <1>3, <1>4, <1>6 DEF ContentFacts
<1>7. QED
  BY <1>5, <1>6

(* The zeroed disk under an empty cache is the initial store.              *)
LEMMA StoreStart == CacheInit => Store!StoreInit
<1> SUFFICES ASSUME CacheInit PROVE Store!StoreInit
  OBVIOUS
<1>1. \A s \in Sector : Content(s) = zeros
  BY DEF CacheInit, Content, Valid
<1>2. QED
  BY <1>1 DEF CacheInit, Store!StoreInit, zeros

(* Every step is a read, a write or a stutter of the store.                *)
LEMMA StoreStep ==
  CacheInv /\ CacheInv' /\ [CacheNext]_cacheVars
  => [Store!StoreNext]_<<[s \in Sector |-> Content(s)], returned>>
<1> SUFFICES ASSUME CacheInv, CacheInv', [CacheNext]_cacheVars
             PROVE  [Store!StoreNext]_<<[s \in Sector |-> Content(s)], returned>>
  OBVIOUS
<1>1. ASSUME \A t \in Sector : Content(t)' = Content(t), UNCHANGED returned
      PROVE  UNCHANGED <<[s \in Sector |-> Content(s)], returned>>
  BY <1>1
<1>2. ASSUME NEW s \in Sector, NEW p \in Part, cache_read(s, p)
      PROVE  UNCHANGED <<[t \in Sector |-> Content(t)], returned>>
  BY <1>1, <1>2, LookupContent DEF cache_read
<1>3. ASSUME NEW s \in Sector, NEW p \in Part, NEW b \in Byte, cache_write(s, p, b)
      PROVE  UNCHANGED <<[t \in Sector |-> Content(t)], returned>>
  BY <1>1, <1>3, LookupContent DEF cache_write
<1>4. ASSUME NEW last \in BOOLEAN, cache_writeback(last)
      PROVE  UNCHANGED <<[s \in Sector |-> Content(s)], returned>>
  <2>1. \A s \in Sector : Content(s)' = Content(s)
    BY <1>4 DEF cache_writeback, Content, Valid
  <2>2. QED
    BY <1>1, <1>4, <2>1 DEF cache_writeback
<1>5. CASE evict_flush \/ fill \/ writeback_entry
  <2>1. UNCHANGED returned
    BY Zenon, <1>5 DEF evict_flush, fill, writeback_entry, writeback_round
  <2>2. QED
    BY <1>1, <1>5, <2>1, EvictFlushContent, FillContent, WritebackEntryContent
<1>6. CASE copy_out
  <2>1. req.sector \in Sector /\ req.part \in Part
    BY DEF CacheInv, CacheExact, CacheTypeOK, Request
  <2>2. Store!Read(req.sector, req.part)
    BY <1>6, <2>1, CopyOutReads DEF Store!Read
  <2>3. QED
    BY <2>1, <2>2 DEF Store!StoreNext
<1>7. CASE copy_in
  <2>1. req.sector \in Sector /\ req.part \in Part /\ req.byte \in Byte
    BY DEF CacheInv, CacheExact, CacheTypeOK, Request
  <2>2. UNCHANGED returned
    BY <1>7 DEF copy_in
  <2>3. [s \in Sector |-> Content(s)]'
          = [[s \in Sector |-> Content(s)] EXCEPT ![req.sector][req.part] = req.byte]
    BY <1>7, <2>1, CopyInWrites
  <2>4. Store!Write(req.sector, req.part, req.byte)
    BY <2>2, <2>3 DEF Store!Write
  <2>5. QED
    BY <2>1, <2>4 DEF Store!StoreNext
<1>8. CASE UNCHANGED cacheVars
  <2>1. \A s \in Sector : Content(s)' = Content(s)
    BY <1>8 DEF cacheVars, Content, Valid
  <2>2. QED
    BY SMTT(40), <1>1, <1>8, <2>1 DEF cacheVars
<1>9. QED
  BY <1>2, <1>3, <1>4, <1>5, <1>6, <1>7, <1>8 DEF CacheNext, Progress

(* No write is lost and no read is stale, through evictions, refills and   *)
(* write-backs: the cache implements the store.                            *)
THEOREM CacheImplementsStore == CacheSpec => RefinesStore
<1>1. CacheInv /\ [CacheNext]_cacheVars
      => [Store!StoreNext]_<<[s \in Sector |-> Content(s)], returned>>
  BY CacheStep, StoreStep
<1>2. QED
  BY <1>1, StoreStart, CacheInvariant, PTL
  DEF CacheSpec, RefinesStore, Store!StoreSpec

-----------------------------------------------------------------------------
(* When cache_writeback() ends no slot is dirty, so the disk holds the     *)
(* content of every sector.                                                *)
LEMMA WritebackEnds ==
  CacheInv /\ CacheInv' /\ [CacheNext]_cacheVars
  => (/\ stage = "scan"
      /\ stage' = "free"
      => /\ \A s \in Sector : disk'[s] = Content(s)
         /\ req.op = "last_writeback" => \A i \in Slot : ~cache_table'[i].occupied)
<1> SUFFICES ASSUME CacheInv, CacheInv', [CacheNext]_cacheVars,
                    stage = "scan", stage' = "free"
             PROVE  /\ \A s \in Sector : disk'[s] = Content(s)
                    /\ req.op = "last_writeback" => \A i \in Slot : ~cache_table'[i].occupied
  OBVIOUS
<1>1. writeback_entry
  BY DEF CacheNext, Progress, cacheVars, cache_read, cache_write,
         cache_writeback, evict_flush, fill, copy_out, copy_in
<1>2. slot = CACHE_SIZE - 1
  BY <1>1 DEF writeback_entry, writeback_round
<1>3. \A i \in Slot : i < slot \/ i = slot
  BY SMTT(40), <1>2, CacheAssumption DEF Slot
<1>4. \A i \in Slot : /\ ~cache_table'[i].dirty
                      /\ req.op = "last_writeback" => ~cache_table'[i].occupied
  BY SMTT(40), <1>1, <1>3, WritebackEntryFacts DEF CacheInv, StageExact
<1>5. \A s \in Sector : Content(s)' = disk'[s]
  <2>1. CacheInv' => ContentFacts'
    BY ContentIs, PTL
  <2>2. \A i \in Slot, s \in Sector : Holds(i, s)' => cache_table'[i].block = disk'[s]
    BY <1>4 DEF CacheInv, CacheExact, CleanIsCopy, Holds
  <2>3. QED
    BY <2>1, <2>2 DEF ContentFacts
<1>6. QED
  BY <1>1, <1>4, <1>5, WritebackEntryContent

(* When cache_writeback() ends, the disk holds everything ever written,    *)
(* and filesys_done()'s write-back has emptied the table as well.          *)
THEOREM WritebackIsComplete == CacheSpec => WritebackComplete
BY CacheInvariant, CacheStep, WritebackEnds, PTL DEF CacheSpec, WritebackComplete
=============================================================================
