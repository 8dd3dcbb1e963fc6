------------------------------- MODULE Palloc -------------------------------
(***************************************************************************)
(* The page allocator of threads/palloc.c and the bitmap operations it     *)
(* uses (lib/kernel/bitmap.c).  One pool; the two pools share nothing.     *)
(*                                                                         *)
(* palloc_get_multiple() scans and marks under the pool's lock, one bit at *)
(* a time; palloc_free_multiple() clears bits without the lock.  A step is *)
(* one access to one bit.                                                  *)
(***************************************************************************)
EXTENDS Integers

CONSTANTS
  Client,     \* threads that allocate and free
  bit_cnt,    \* pages of the pool
  NULL

ASSUME PallocAssumption ==
  /\ bit_cnt \in Nat
  /\ NULL \notin Client

Bit == 0 .. bit_cnt - 1

VARIABLES
  used_map,    \* struct bitmap
  pool_lock,   \* holder of the pool's lock
  pc,          \* where a client is, "out" outside the allocators
  scan,        \* locals of palloc_get_multiple() and palloc_free_multiple()
  groups       \* page groups that have been handed out, by start and length

pallocVars == <<used_map, pool_lock, pc, scan, groups>>

(* idx: start of the group looked at; pos: bits of it done; cnt: its size. *)
NoScan == [idx |-> 0, pos |-> 0, cnt |-> 0, ret |-> "out", free_before |-> {}]

PallocInit ==
  /\ used_map = [b \in Bit |-> FALSE]
  /\ pool_lock = NULL
  /\ pc = [c \in Client |-> "out"]
  /\ scan = [c \in Client |-> NoScan]
  /\ groups = {}

-----------------------------------------------------------------------------
Goto(c, label) == pc' = [pc EXCEPT ![c] = label]

(* Groups of cnt free pages; a scan notes those there are when it starts.  *)
FreeGroups(cnt) ==
  {i \in Bit : i + cnt <= bit_cnt /\ \A b \in i .. i + cnt - 1 : ~used_map[b]}

(* Call palloc_get_multiple(cnt), to go on at `ret`.                       *)
get_multiple(c, cnt, ret) ==
  /\ Goto(c, "palloc_lock")
  /\ scan' = [scan EXCEPT ![c] = [NoScan EXCEPT !.cnt = cnt, !.ret = ret]]
  /\ UNCHANGED <<used_map, pool_lock, groups>>

(* Mutant: the scan does not wait for the lock.                            *)
scan_unlocked(c) ==
  /\ pc[c] = "palloc_lock"
  /\ pool_lock' = c
  /\ Goto(c, "bitmap_scan")
  /\ scan' = [scan EXCEPT ![c].free_before = FreeGroups(scan[c].cnt)]
  /\ UNCHANGED <<used_map, groups>>

palloc_lock(c) ==
  /\ pc[c] = "palloc_lock"
  /\ pool_lock = NULL
  /\ pool_lock' = c
  /\ Goto(c, "bitmap_scan")
  /\ scan' = [scan EXCEPT ![c].free_before = FreeGroups(scan[c].cnt)]
  /\ UNCHANGED <<used_map, groups>>

(* Mutant: the last group that would fit is not looked at.                 *)
scan_stops_early(c) ==
  LET s == scan[c]
  IN  /\ pc[c] = "bitmap_scan"
      /\ IF s.idx + s.cnt >= bit_cnt
         THEN Goto(c, "palloc_failed") /\ UNCHANGED scan
         ELSE IF s.pos = s.cnt
         THEN /\ Goto(c, "bitmap_flip")
              /\ scan' = [scan EXCEPT ![c].pos = 0]
         ELSE /\ scan' = [scan EXCEPT ![c] =
                   IF used_map[s.idx + s.pos]
                   THEN [s EXCEPT !.idx = @ + 1, !.pos = 0]
                   ELSE [s EXCEPT !.pos = @ + 1]]
              /\ UNCHANGED pc
      /\ UNCHANGED <<used_map, pool_lock, groups>>

(* Mutant: a used bit makes the scan look at the same group again.         *)
scan_stays(c) ==
  LET s == scan[c]
  IN  /\ pc[c] = "bitmap_scan"
      /\ IF s.idx + s.cnt > bit_cnt
         THEN Goto(c, "palloc_failed") /\ UNCHANGED scan
         ELSE IF s.pos = s.cnt
         THEN /\ Goto(c, "bitmap_flip")
              /\ scan' = [scan EXCEPT ![c].pos = 0]
         ELSE /\ scan' = [scan EXCEPT ![c].pos = IF used_map[s.idx + s.pos] THEN 0 ELSE s.pos + 1]
              /\ UNCHANGED pc
      /\ UNCHANGED <<used_map, pool_lock, groups>>

(* bitmap_scan(): test a bit of the group at idx; go on to the next group  *)
(* when it is used, stop when the whole group is free or none is left.     *)
bitmap_scan(c) ==
  LET s == scan[c]
  IN  /\ pc[c] = "bitmap_scan"
      /\ IF s.idx + s.cnt > bit_cnt
         THEN Goto(c, "palloc_failed") /\ UNCHANGED scan
         ELSE IF s.pos = s.cnt
         THEN /\ Goto(c, "bitmap_flip")
              /\ scan' = [scan EXCEPT ![c].pos = 0]
         ELSE /\ scan' = [scan EXCEPT ![c] =
                   IF used_map[s.idx + s.pos]
                   THEN [s EXCEPT !.idx = @ + 1, !.pos = 0]
                   ELSE [s EXCEPT !.pos = @ + 1]]
              /\ UNCHANGED pc
      /\ UNCHANGED <<used_map, pool_lock, groups>>

(* bitmap_set_multiple(): mark the bits of the group, one by one.          *)
bitmap_flip(c) ==
  LET s == scan[c]
  IN  /\ pc[c] = "bitmap_flip"
      /\ used_map' = [used_map EXCEPT ![s.idx + s.pos] = TRUE]
      /\ scan' = [scan EXCEPT ![c].pos = @ + 1]
      /\ Goto(c, IF s.pos + 1 = s.cnt THEN "palloc_unlock" ELSE "bitmap_flip")
      /\ UNCHANGED <<pool_lock, groups>>

palloc_unlock(c) ==
  /\ pc[c] = "palloc_unlock"
  /\ pool_lock' = NULL
  /\ groups' = groups \cup {[start |-> scan[c].idx, cnt |-> scan[c].cnt]}
  /\ Goto(c, scan[c].ret)
  /\ UNCHANGED <<used_map, scan>>

(* BITMAP_ERROR: the caller gets a null pointer.                           *)
palloc_failed(c) ==
  /\ pc[c] = "palloc_failed"
  /\ pool_lock' = NULL
  /\ Goto(c, scan[c].ret)
  /\ scan' = [scan EXCEPT ![c].idx = -1]
  /\ UNCHANGED <<used_map, groups>>

(* Call palloc_free_multiple() for a group, to go on at `ret`.             *)
free_multiple(c, g, ret) ==
  /\ g \in groups
  /\ groups' = groups \ {g}
  /\ scan' = [scan EXCEPT ![c] = [NoScan EXCEPT !.idx = g.start, !.cnt = g.cnt, !.ret = ret]]
  /\ Goto(c, "bitmap_reset")
  /\ UNCHANGED <<used_map, pool_lock>>

bitmap_reset(c) ==
  LET s == scan[c]
  IN  /\ pc[c] = "bitmap_reset"
      /\ used_map' = [used_map EXCEPT ![s.idx + s.pos] = FALSE]
      /\ scan' = [scan EXCEPT ![c] = IF s.pos + 1 = s.cnt THEN [NoScan EXCEPT !.ret = s.ret]
                                     ELSE [s EXCEPT !.pos = @ + 1]]
      /\ Goto(c, IF s.pos + 1 = s.cnt THEN s.ret ELSE "bitmap_reset")
      /\ UNCHANGED <<pool_lock, groups>>

PallocStep(c) ==
  \/ palloc_lock(c) \/ bitmap_scan(c) \/ bitmap_flip(c)
  \/ palloc_unlock(c) \/ palloc_failed(c) \/ bitmap_reset(c)

-----------------------------------------------------------------------------
(* Properties *)

PagesOf(g) == g.start .. g.start + g.cnt - 1

(* Bits that a client has marked and not yet returned, or was handed and   *)
(* has not yet cleared.                                                    *)
InFlight(c) ==
  LET s == scan[c]
  IN  CASE pc[c] = "bitmap_flip"   -> s.idx .. s.idx + s.pos - 1
        [] pc[c] = "palloc_unlock" -> s.idx .. s.idx + s.cnt - 1
        [] pc[c] = "bitmap_reset"  -> s.idx + s.pos .. s.idx + s.cnt - 1
        [] OTHER                   -> {}

(* No page belongs to two groups, or to a group and to a client that is    *)
(* still marking or still clearing it, although palloc_free_multiple()     *)
(* clears bits while another thread scans (palloc.c:141); and the bitmap   *)
(* has exactly the pages that belong to somebody, so that none leaks and   *)
(* the assertion that a freed group is fully marked (palloc.c:140) holds.  *)
PagesExclusive ==
  /\ \A g, h \in groups : g # h => PagesOf(g) \cap PagesOf(h) = {}
  /\ \A c \in Client, g \in groups : InFlight(c) \cap PagesOf(g) = {}
  /\ \A c, d \in Client : c # d => InFlight(c) \cap InFlight(d) = {}
  /\ {b \in Bit : used_map[b]} =
       (UNION {PagesOf(g) : g \in groups}) \cup (UNION {InFlight(c) : c \in Client})

(* A request fails only if no group was free when its scan began, and else *)
(* gets the first one or one before it.                                    *)
FirstFit ==
  \A c \in Client :
    /\ pc[c] = "palloc_failed" => scan[c].free_before = {}
    /\ pc[c] \in {"bitmap_scan", "bitmap_flip", "palloc_unlock"} =>
         \A i \in scan[c].free_before : scan[c].idx <= i

(* Both: what palloc_get_multiple() hands out is the caller's alone, and   *)
(* is refused only when it has to be.                                      *)
PagesExact == PagesExclusive /\ FirstFit
=============================================================================
