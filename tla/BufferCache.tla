---------------------------- MODULE BufferCache ----------------------------
(***************************************************************************)
(* The sector cache of filesys/buffer-cache.c over the disk it caches.     *)
(*                                                                         *)
(* Every operation runs under cache_lock from its first to its last line,  *)
(* so one operation at a time is in progress; `stage` says where.  A step  *)
(* ends at every block_read() and block_write(), during which the caller   *)
(* sleeps with the lock held and disk and table are half updated.          *)
(***************************************************************************)
EXTENDS Naturals

CONSTANTS
  CACHE_SIZE,   \* slots of cache_table
  Sector,       \* sectors of fs_device
  Part,         \* the byte ranges of a sector that are read and written
  Byte,         \* what a part holds
  Zero,         \* initial content, of the disk and of static memory
  Sector0       \* sector number 0, in the slots of the zeroed cache_table

ASSUME CacheAssumption ==
  /\ CACHE_SIZE \in Nat \ {0}
  /\ Zero \in Byte
  /\ Sector0 \in Sector
  /\ Part # {}

Slot == 0 .. CACHE_SIZE - 1
Data == [Part -> Byte]

VARIABLES
  disk,             \* content of fs_device
  cache_table,      \* occupied, dirty, disk_sector and block of every slot
  round_robin_idx,  \* modulo CACHE_SIZE, which is all that is used of it
  stage,            \* progress of the operation that holds cache_lock
  req,              \* its arguments
  slot,             \* its idx, or the i of cache_writeback()'s loop
  returned          \* what the last cache_read() copied out

cacheVars == <<disk, cache_table, round_robin_idx, stage, req, slot, returned>>

Entry == [occupied : BOOLEAN, dirty : BOOLEAN, disk_sector : Sector, block : Data]

Operation == {"none", "read", "write", "writeback", "last_writeback"}

Request == [op : Operation, sector : Sector, part : Part, byte : Byte]

zeros == [p \in Part |-> Zero]

(* The arguments of no operation: they are forgotten when one returns.     *)
NoRequest == [op |-> "none", sector |-> Sector0,
              part |-> CHOOSE p \in Part : TRUE, byte |-> Zero]

(* cache_init(); the lock is free.                                         *)
CacheInit ==
  /\ disk = [s \in Sector |-> zeros]
  /\ cache_table = [i \in Slot |-> [occupied |-> FALSE, dirty |-> FALSE,
                                    disk_sector |-> Sector0, block |-> zeros]]
  /\ round_robin_idx = 0
  /\ stage = "free"
  /\ req = NoRequest
  /\ slot = 0
  /\ returned = Zero

-----------------------------------------------------------------------------
(* lock_release(&cache_lock) and return.                                   *)
lock_release == stage' = "free" /\ req' = NoRequest /\ slot' = 0

(* cache_lookup() and cache_get_free_entry() take the first slot that fits.*)

First(S) == CHOOSE i \in S : \A j \in S : i <= j

(* Mutant: cache_lookup() starts at slot 1.                                *)
CachedFromOne(s) ==
  {i \in Slot : i > 0 /\ cache_table[i].occupied /\ cache_table[i].disk_sector = s}

Cached(s) ==
  {i \in Slot : cache_table[i].occupied /\ cache_table[i].disk_sector = s}

FreeSlots == {i \in Slot : ~cache_table[i].occupied}

cleared(e) == [e EXCEPT !.occupied = FALSE, !.dirty = FALSE]

(* cache_read() and cache_write() up to their first disk access: a hit, or *)
(* a free slot, or the next slot in turn, which is written back if dirty.  *)
lookup(s) ==
  LET victim == (round_robin_idx + 1) % CACHE_SIZE
  IN  \/ /\ Cached(s) # {}
         /\ slot' = First(Cached(s))
         /\ stage' = "copy"
         /\ UNCHANGED <<cache_table, round_robin_idx>>
      \/ /\ Cached(s) = {}
         /\ FreeSlots # {}
         /\ slot' = First(FreeSlots)
         /\ cache_table' = [cache_table EXCEPT ![First(FreeSlots)].occupied = TRUE]
         /\ stage' = "fill"
         /\ UNCHANGED round_robin_idx
      \/ /\ Cached(s) = {}
         /\ FreeSlots = {}
         /\ round_robin_idx' = victim
         /\ slot' = victim
         /\ IF cache_table[victim].dirty
            THEN stage' = "flush" /\ UNCHANGED cache_table
            ELSE /\ stage' = "fill"
                 /\ cache_table' = [cache_table EXCEPT ![victim] = cleared(@)]

cache_read(s, p) ==
  /\ stage = "free"
  /\ req' = [op |-> "read", sector |-> s, part |-> p, byte |-> Zero]
  /\ lookup(s)
  /\ UNCHANGED <<disk, returned>>

cache_write(s, p, b) ==
  /\ stage = "free"
  /\ req' = [op |-> "write", sector |-> s, part |-> p, byte |-> b]
  /\ lookup(s)
  /\ UNCHANGED <<disk, returned>>

(* Mutant: a dirty victim is dropped.                                      *)
evict_dropped ==
  /\ stage = "flush"
  /\ cache_table' = [cache_table EXCEPT ![slot] = cleared(@)]
  /\ stage' = "fill"
  /\ UNCHANGED <<disk, round_robin_idx, req, slot, returned>>

(* The rest of cache_evict() for a dirty slot.                             *)
evict_flush ==
  /\ stage = "flush"
  /\ disk' = [disk EXCEPT ![cache_table[slot].disk_sector] = cache_table[slot].block]
  /\ cache_table' = [cache_table EXCEPT ![slot] = cleared(@)]
  /\ stage' = "fill"
  /\ UNCHANGED <<round_robin_idx, req, slot, returned>>

(* A miss: the slot takes over the sector and its data.  Only cache_read() *)
(* resets dirty here.                                                      *)
fill ==
  /\ stage = "fill"
  /\ cache_table' = [cache_table EXCEPT
       ![slot] = [occupied |-> TRUE,
                  dirty |-> IF req.op = "read" THEN FALSE ELSE @.dirty,
                  disk_sector |-> req.sector,
                  block |-> disk[req.sector]]]
  /\ stage' = "copy"
  /\ UNCHANGED <<disk, round_robin_idx, req, slot, returned>>

copy_out ==
  /\ stage = "copy"
  /\ req.op = "read"
  /\ returned' = cache_table[slot].block[req.part]
  /\ lock_release
  /\ UNCHANGED <<disk, cache_table, round_robin_idx>>

(* Mutant: the written slot is not marked dirty.                           *)
copy_in_clean ==
  /\ stage = "copy"
  /\ req.op = "write"
  /\ cache_table' = [cache_table EXCEPT ![slot].block[req.part] = req.byte]
  /\ lock_release
  /\ UNCHANGED <<disk, round_robin_idx, returned>>

copy_in ==
  /\ stage = "copy"
  /\ req.op = "write"
  /\ cache_table' = [cache_table EXCEPT ![slot].dirty = TRUE,
                                        ![slot].block[req.part] = req.byte]
  /\ lock_release
  /\ UNCHANGED <<disk, round_robin_idx, returned>>

(* periodic_write() calls it with FALSE, filesys_done() with TRUE.         *)
cache_writeback(last_write_back) ==
  /\ stage = "free"
  /\ req' = [NoRequest EXCEPT !.op = IF last_write_back THEN "last_writeback"
                                                        ELSE "writeback"]
  /\ slot' = 0
  /\ stage' = "scan"
  /\ UNCHANGED <<disk, cache_table, round_robin_idx, returned>>

(* One round of the loop of cache_writeback(), which ends with slot `last`.*)
writeback_round(last) ==
  LET e       == cache_table[slot]
      flushed == e.occupied /\ e.dirty
  IN  /\ stage = "scan"
      /\ disk' = IF flushed THEN [disk EXCEPT ![e.disk_sector] = e.block] ELSE disk
      /\ cache_table' = [cache_table EXCEPT
           ![slot] = IF req.op = "last_writeback" THEN cleared(e)
                     ELSE IF flushed THEN [e EXCEPT !.dirty = FALSE]
                     ELSE e]
      /\ IF slot = last
         THEN lock_release
         ELSE slot' = slot + 1 /\ UNCHANGED <<stage, req>>
      /\ UNCHANGED <<round_robin_idx, returned>>

(* Mutant: the loop runs one slot too far.                                 *)
writeback_too_far == writeback_round(CACHE_SIZE)

(* Mutant: the loop stops one slot early.                                  *)
writeback_too_short == writeback_round(CACHE_SIZE - 2)

writeback_entry == writeback_round(CACHE_SIZE - 1)

-----------------------------------------------------------------------------
Progress == evict_flush \/ fill \/ copy_out \/ copy_in \/ writeback_entry

CacheNext ==
  \/ \E s \in Sector, p \in Part :
       cache_read(s, p) \/ \E b \in Byte : cache_write(s, p, b)
  \/ \E last \in BOOLEAN : cache_writeback(last)
  \/ Progress

CacheSpec == CacheInit /\ [][CacheNext]_cacheVars

(* The disk answers, so an operation that holds the lock goes on, and the  *)
(* thread of periodic_write() gets its turn when nobody else is using the  *)
(* cache.                                                                  *)
CacheFairness == WF_cacheVars(Progress) /\ WF_cacheVars(cache_writeback(FALSE))

CacheFairSpec == CacheSpec /\ CacheFairness

-----------------------------------------------------------------------------
(* Properties *)

(* Types; every index stays inside the table.                              *)
CacheTypeOK ==
  /\ disk \in [Sector -> Data]
  /\ cache_table \in [Slot -> Entry]
  /\ round_robin_idx \in Slot
  /\ stage \in {"free", "flush", "fill", "copy", "scan"}
  /\ req \in Request
  /\ slot \in Slot
  /\ returned \in Byte

(* Slots whose data counts: occupied, and not merely reserved for a sector *)
(* that is still to be read in.                                            *)
Valid(i) == cache_table[i].occupied /\ ~(stage = "fill" /\ slot = i)

(* No sector is cached twice: otherwise cache_lookup() would keep finding  *)
(* one copy and write-back could overwrite the newer one with the older.   *)
OneCopy ==
  \A i, j \in Slot :
    /\ Valid(i)
    /\ Valid(j)
    /\ cache_table[i].disk_sector = cache_table[j].disk_sector
    => i = j

(* `Every block in the cache must be a perfect copy of the disk'           *)
(* (buffer-cache.h:19): true of every valid slot that is not dirty, at     *)
(* every point of every operation.  A slot that is not occupied, or is     *)
(* reserved, is never dirty: cache_write() does not reset dirty on a miss. *)
CleanIsCopy ==
  \A i \in Slot :
    /\ Valid(i) /\ ~cache_table[i].dirty
       => cache_table[i].block = disk[cache_table[i].disk_sector]
    /\ cache_table[i].dirty => Valid(i)

(* The table as a whole, at every point of every operation.                *)
CacheExact == CacheTypeOK /\ OneCopy /\ CleanIsCopy

(* What a reader of sector s gets: the cached copy if there is one.        *)
Content(s) ==
  IF \E i \in Slot : Valid(i) /\ cache_table[i].disk_sector = s
  THEN cache_table[CHOOSE i \in Slot :
                     Valid(i) /\ cache_table[i].disk_sector = s].block
  ELSE disk[s]

(* No write is lost and no read is stale, through evictions, refills and   *)
(* write-backs: the cache implements SectorStore.                          *)
Store == INSTANCE SectorStore WITH content <- [s \in Sector |-> Content(s)]

RefinesStore == Store!StoreSpec

(* When cache_writeback() ends, the disk holds everything ever written,    *)
(* whether or not it also emptied the cache (filesys_done()).              *)
WritebackComplete ==
  [][/\ stage = "scan"
     /\ stage' = "free"
     => /\ \A s \in Sector : disk'[s] = Content(s)
        /\ req.op = "last_writeback" =>
             \A i \in Slot : ~cache_table'[i].occupied]_cacheVars

(* Once the readers and writers stop, the periodic write-back alone brings *)
(* the disk up to date for good.                                           *)
EventuallyDurable ==
  <>[](stage = "free" \/ req.op \in {"writeback", "last_writeback"})
  => <>[](\A s \in Sector : disk[s] = Content(s))
=============================================================================
