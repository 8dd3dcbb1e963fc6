-------------------------- MODULE PallocSerialProofs --------------------------
(***************************************************************************)
(* TLAPS proofs about the page allocator and about the console.            *)
(*                                                                         *)
(* Palloc under Malloc, for any threads, any number of pages and any       *)
(* sizes: no page is handed out twice or leaks, although                   *)
(* palloc_free_multiple() clears bits without the lock while another       *)
(* thread scans, and a request is refused only when it has to be.  The     *)
(* inductive invariant is PallocInv.                                       *)
(*                                                                         *)
(* Serial, for any threads that print, any queues and any length of line:  *)
(* every byte leaves and enters the port once and in order, and the lines  *)
(* of the threads are whole.  The inductive invariant is SerialInv.        *)
(***************************************************************************)
EXTENDS Malloc, Serial, TLAPS

(* Where a thread is when it is not in palloc.c.                           *)
Outside ==
  {"out", "big_block", "desc_lock", "new_arena", "take_block", "free", "desc_unlock"}

(* Between lock_acquire() and lock_release() of palloc_get_multiple().     *)
Locked == {"bitmap_scan", "bitmap_flip", "palloc_unlock", "palloc_failed"}

(* The types, and who holds the pool's lock.                               *)
PallocTypeOK ==
  /\ used_map \in [Bit -> BOOLEAN]
  /\ pc \in [Client -> Outside \cup Locked \cup {"palloc_lock", "bitmap_reset"}]
  /\ scan \in [Client -> [idx : Int, pos : Nat, cnt : Nat, ret : Outside,
                          free_before : SUBSET Bit]]
  /\ groups \subseteq [start : Bit, cnt : Nat]
  /\ \A g \in groups : g.cnt > 0 /\ g.start + g.cnt <= bit_cnt
  /\ \A c \in Client : pc[c] \in Locked <=> pool_lock = c

(* Every group that was free when the scan began still is.                 *)
StillFree(c) ==
  \A i \in scan[c].free_before :
    /\ i + scan[c].cnt <= bit_cnt
    /\ \A b \in i .. i + scan[c].cnt - 1 : ~used_map[b]

(* The locals of palloc_get_multiple() and palloc_free_multiple(): what    *)
(* the scan has seen to be free is free until it is marked, for only the   *)
(* holder of the lock marks bits.                                          *)
ScanFits(c) ==
  LET s == scan[c]
  IN  /\ pc[c] \notin Outside => s.cnt > 0 /\ s.idx >= 0
      /\ pc[c] = "palloc_lock" => s.idx = 0 /\ s.pos = 0
      /\ pc[c] = "bitmap_scan" =>
           /\ s.pos <= s.cnt /\ (s.pos > 0 => s.idx + s.cnt <= bit_cnt)
           /\ \A b \in s.idx .. s.idx + s.pos - 1 : ~used_map[b]
           /\ StillFree(c)
      /\ pc[c] \in {"bitmap_flip", "palloc_unlock", "bitmap_reset"} =>
           s.idx + s.cnt <= bit_cnt
      /\ pc[c] \in {"bitmap_flip", "bitmap_reset"} => s.pos < s.cnt
      /\ pc[c] = "bitmap_flip" =>
           \A b \in s.idx + s.pos .. s.idx + s.cnt - 1 : ~used_map[b]

(* Every thread in palloc_get_multiple() is inside its pool.               *)
ScanExact == \A c \in Client : ScanFits(c)

(* The inductive invariant of the allocator.                               *)
PallocInv == PallocTypeOK /\ ScanExact /\ PagesExclusive /\ FirstFit

-----------------------------------------------------------------------------
(* What the pages belong to. *)

(* InFlight, by where the thread is.                                       *)
LEMMA FlightIs ==
  ASSUME NEW c \in Client
  PROVE  /\ pc[c] = "bitmap_flip" =>
              InFlight(c) = scan[c].idx .. scan[c].idx + scan[c].pos - 1
         /\ pc[c] = "palloc_unlock" =>
              InFlight(c) = scan[c].idx .. scan[c].idx + scan[c].cnt - 1
         /\ pc[c] = "bitmap_reset" =>
              InFlight(c) = scan[c].idx + scan[c].pos .. scan[c].idx + scan[c].cnt - 1
         /\ pc[c] \notin {"bitmap_flip", "palloc_unlock", "bitmap_reset"} =>
              InFlight(c) = {}
BY DEF InFlight

(* PagesExclusive, page by page.                                           *)
PageByPage ==
  /\ \A g, h \in groups, b \in Bit : b \in PagesOf(g) /\ b \in PagesOf(h) => g = h
  /\ \A c \in Client, g \in groups, b \in Bit : ~(b \in InFlight(c) /\ b \in PagesOf(g))
  /\ \A c, d \in Client, b \in Bit : b \in InFlight(c) /\ b \in InFlight(d) => c = d
  /\ \A b \in Bit : used_map[b] <=> \/ \E g \in groups : b \in PagesOf(g)
                                    \/ \E c \in Client : b \in InFlight(c)

(* All pages that belong to somebody are pages of the pool.                *)
LEMMA PagesAreBits ==
  ASSUME PallocTypeOK, ScanExact
  PROVE  /\ \A g \in groups : PagesOf(g) \subseteq Bit
         /\ \A c \in Client : InFlight(c) \subseteq Bit
<1>1. ASSUME NEW g \in groups PROVE PagesOf(g) \subseteq Bit
  <2>1. g.start \in Nat /\ g.cnt \in Nat /\ g.start + g.cnt <= bit_cnt /\ bit_cnt \in Nat
    BY PallocAssumption DEF PallocTypeOK, Bit
  <2>2. QED
    BY <2>1 DEF PagesOf, Bit
<1>2. ASSUME NEW c \in Client PROVE InFlight(c) \subseteq Bit
  <2>1. /\ scan[c].idx \in Int /\ scan[c].pos \in Nat /\ scan[c].cnt \in Nat /\ bit_cnt \in Nat
        /\ pc[c] \in {"bitmap_flip", "palloc_unlock", "bitmap_reset"} =>
             scan[c].idx >= 0 /\ scan[c].idx + scan[c].cnt <= bit_cnt
        /\ pc[c] = "bitmap_flip" => scan[c].pos < scan[c].cnt
    BY PallocAssumption DEF PallocTypeOK, ScanExact, ScanFits, Outside
  <2>2. CASE pc[c] \notin {"bitmap_flip", "palloc_unlock", "bitmap_reset"}
    BY <2>2, FlightIs
  <2>3. CASE pc[c] = "bitmap_flip"
    <3>1. InFlight(c) = scan[c].idx .. scan[c].idx + scan[c].pos - 1
      BY <2>3, FlightIs
    <3>2. QED
      BY SMTT(40), <2>1, <2>3, <3>1 DEF Bit
  <2>4. CASE pc[c] = "palloc_unlock"
    <3>1. InFlight(c) = scan[c].idx .. scan[c].idx + scan[c].cnt - 1
      BY <2>4, FlightIs
    <3>2. QED
      BY <2>1, <2>4, <3>1 DEF Bit
  <2>5. CASE pc[c] = "bitmap_reset"
    <3>1. InFlight(c) = scan[c].idx + scan[c].pos .. scan[c].idx + scan[c].cnt - 1
      BY <2>5, FlightIs
    <3>2. QED
      BY <2>1, <2>5, <3>1 DEF Bit
  <2>6. QED
    BY <2>2, <2>3, <2>4, <2>5
<1>3. QED
  BY <1>1, <1>2

(* The invariant of palloc.c, put as the proofs use it.                    *)
LEMMA PagesAre == PallocTypeOK /\ ScanExact => (PagesExclusive <=> PageByPage)
<1> SUFFICES ASSUME PallocTypeOK, ScanExact PROVE PagesExclusive <=> PageByPage
  OBVIOUS
<1>1. /\ \A g \in groups : PagesOf(g) \subseteq Bit
      /\ \A c \in Client : InFlight(c) \subseteq Bit
  BY PagesAreBits
<1>2. /\ (\A g, h \in groups : g # h => PagesOf(g) \cap PagesOf(h) = {})
         <=> \A g, h \in groups, b \in Bit : b \in PagesOf(g) /\ b \in PagesOf(h) => g = h
  BY <1>1
<1>3. (\A c \in Client, g \in groups : InFlight(c) \cap PagesOf(g) = {})
      <=> \A c \in Client, g \in groups, b \in Bit : ~(b \in InFlight(c) /\ b \in PagesOf(g))
  BY <1>1
<1>4. (\A c, d \in Client : c # d => InFlight(c) \cap InFlight(d) = {})
      <=> \A c, d \in Client, b \in Bit : b \in InFlight(c) /\ b \in InFlight(d) => c = d
  BY <1>1
<1>5. ({b \in Bit : used_map[b]} =
         (UNION {PagesOf(g) : g \in groups}) \cup (UNION {InFlight(c) : c \in Client}))
      <=> \A b \in Bit : used_map[b] <=> \/ \E g \in groups : b \in PagesOf(g)
                                         \/ \E c \in Client : b \in InFlight(c)
  BY <1>1
<1>6. QED
  BY <1>2, <1>3, <1>4, <1>5 DEF PagesExclusive, PageByPage

(* Nothing changes hands.                                                  *)
LEMMA PagesFrame ==
  ASSUME PageByPage, UNCHANGED <<used_map, groups>>,
         \A c \in Client : (InFlight(c))' = InFlight(c)
  PROVE  PageByPage'
BY DEF PageByPage, PagesOf

(* bitmap_mark(): a free page becomes the thread's.                        *)
LEMMA PageMarked ==
  ASSUME PallocTypeOK, PageByPage, UNCHANGED groups,
         NEW c \in Client, NEW b \in Bit, ~used_map[b],
         used_map' = [used_map EXCEPT ![b] = TRUE],
         (InFlight(c))' = InFlight(c) \cup {b},
         \A d \in Client \ {c} : (InFlight(d))' = InFlight(d)
  PROVE  PageByPage'
<1>1. /\ \A g \in groups : b \notin PagesOf(g)
      /\ \A d \in Client : b \notin InFlight(d)
  BY DEF PageByPage
<1>2. \A d \in Client, a \in Bit : a \in (InFlight(d))' <=> a \in InFlight(d) \/ (d = c /\ a = b)
  OBVIOUS
<1>3. \A a \in Bit : used_map'[a] <=> used_map[a] \/ a = b
  BY DEF PallocTypeOK
<1>4. QED
  BY <1>1, <1>2, <1>3 DEF PageByPage, PagesOf

(* bitmap_reset(): a page of the thread becomes free.                      *)
LEMMA PageCleared ==
  ASSUME PallocTypeOK, PageByPage, UNCHANGED groups,
         NEW c \in Client, NEW b \in Bit, b \in InFlight(c),
         used_map' = [used_map EXCEPT ![b] = FALSE],
         (InFlight(c))' = InFlight(c) \ {b},
         \A d \in Client \ {c} : (InFlight(d))' = InFlight(d)
  PROVE  PageByPage'
<1>1. /\ \A g \in groups : b \notin PagesOf(g)
      /\ \A d \in Client \ {c} : b \notin InFlight(d)
  BY DEF PageByPage
<1>2. \A d \in Client, a \in Bit : a \in (InFlight(d))' <=> a \in InFlight(d) /\ ~(d = c /\ a = b)
  OBVIOUS
<1>3. \A a \in Bit : used_map'[a] <=> used_map[a] /\ a # b
  BY DEF PallocTypeOK
<1>4. QED
  BY <1>1, <1>2, <1>3 DEF PageByPage, PagesOf

(* palloc_get_multiple() returns: what it marked is a group.               *)
LEMMA GroupGiven ==
  ASSUME PageByPage, UNCHANGED used_map,
         NEW c \in Client, NEW g, groups' = groups \cup {g},
         PagesOf(g) = InFlight(c), (InFlight(c))' = {},
         \A d \in Client \ {c} : (InFlight(d))' = InFlight(d)
  PROVE  PageByPage'
<1>1. \A d \in Client, a \in Bit : a \in (InFlight(d))' <=> a \in InFlight(d) /\ d # c
  OBVIOUS
<1>2. \A a \in Bit : (\E h \in groups' : a \in PagesOf(h)) <=>
        (\E h \in groups : a \in PagesOf(h)) \/ a \in InFlight(c)
  OBVIOUS
<1>3. \A h, k \in groups', a \in Bit : a \in PagesOf(h) /\ a \in PagesOf(k) => h = k
  BY DEF PageByPage
<1>4. \A d \in Client, h \in groups', a \in Bit : ~(a \in (InFlight(d))' /\ a \in PagesOf(h))
  BY <1>1 DEF PageByPage
<1>5. \A d, e \in Client, a \in Bit : a \in (InFlight(d))' /\ a \in (InFlight(e))' => d = e
  BY <1>1 DEF PageByPage
<1>6. \A a \in Bit : used_map[a] <=> \/ \E h \in groups' : a \in PagesOf(h)
                                     \/ \E d \in Client : a \in (InFlight(d))'
  BY <1>1, <1>2 DEF PageByPage
<1>7. QED
  BY <1>3, <1>4, <1>5, <1>6 DEF PageByPage, PagesOf

(* palloc_free_multiple() is called: the group is the thread's to clear.   *)
LEMMA GroupTaken ==
  ASSUME PageByPage, UNCHANGED used_map,
         NEW c \in Client, NEW g \in groups, groups' = groups \ {g},
         InFlight(c) = {}, (InFlight(c))' = PagesOf(g),
         \A d \in Client \ {c} : (InFlight(d))' = InFlight(d)
  PROVE  PageByPage'
<1>1. \A d \in Client, a \in Bit :
        a \in (InFlight(d))' <=> a \in InFlight(d) \/ (d = c /\ a \in PagesOf(g))
  OBVIOUS
<1>2. \A a \in Bit : a \in PagesOf(g) => /\ \A h \in groups : a \in PagesOf(h) => h = g
                                         /\ \A d \in Client : a \notin InFlight(d)
  BY DEF PageByPage
<1>3. QED
  BY <1>1, <1>2 DEF PageByPage, PagesOf

-----------------------------------------------------------------------------
(* The steps of palloc.c. *)

(* What the proofs of the steps have in common: the step is of thread c.   *)
Alters(c) ==
  \A d \in Client \ {c} : pc'[d] = pc[d] /\ scan'[d] = scan[d]

(* The other threads keep what they know: bits are only cleared, or marked *)
(* by the one who has the lock.                                            *)
LEMMA OthersKeep ==
  ASSUME PallocTypeOK, ScanExact, FirstFit, NEW c \in Client, Alters(c),
         (\A b \in Bit : used_map'[b] => used_map[b]) \/ pool_lock = c,
         ScanFits(c)',
         pc'[c] = "palloc_failed" => scan'[c].free_before = {},
         pc'[c] \in {"bitmap_scan", "bitmap_flip", "palloc_unlock"} =>
           \A i \in scan'[c].free_before : scan'[c].idx <= i
  PROVE  /\ ScanExact' /\ FirstFit'
         /\ \A d \in Client \ {c} : (InFlight(d))' = InFlight(d)
<1>1. ASSUME NEW d \in Client \ {c} PROVE ScanFits(d)'
  <2>1. pc'[d] = pc[d] /\ scan'[d] = scan[d] /\ ScanFits(d)
    BY DEF Alters, ScanExact
  <2>2. CASE pc[d] \in {"bitmap_scan", "bitmap_flip"}
    <3>1. \A b \in Bit : used_map'[b] => used_map[b]
      BY <2>2 DEF PallocTypeOK, Locked
    <3>2. /\ scan[d].idx \in Nat /\ scan[d].pos \in Nat /\ scan[d].cnt \in Nat
          /\ scan[d].free_before \subseteq Bit /\ bit_cnt \in Nat
      BY SMTT(40), <2>1, <2>2, PallocAssumption DEF PallocTypeOK, ScanFits, Outside
    <3>3. CASE pc[d] = "bitmap_scan"
      <4>1. /\ scan[d].pos <= scan[d].cnt
            /\ scan[d].pos > 0 => scan[d].idx + scan[d].cnt <= bit_cnt
            /\ \A b \in scan[d].idx .. scan[d].idx + scan[d].pos - 1 : ~used_map[b]
            /\ StillFree(d)
        BY <2>1, <3>3 DEF ScanFits
      <4>2. \A b \in scan[d].idx .. scan[d].idx + scan[d].pos - 1 : ~used_map'[b]
        BY <3>1, <3>2, <4>1 DEF Bit
      <4>3. (StillFree(d))'
        BY SMTT(40), <2>1, <3>1, <3>2, <4>1 DEF StillFree, Bit
      <4>4. QED
        BY Zenon, <2>1, <3>3, <4>2, <4>3 DEF ScanFits
    <3>4. CASE pc[d] = "bitmap_flip"
      <4>1. /\ scan[d].idx + scan[d].cnt <= bit_cnt
            /\ \A b \in scan[d].idx + scan[d].pos .. scan[d].idx + scan[d].cnt - 1 : ~used_map[b]
        BY <2>1, <3>4 DEF ScanFits
      <4>2. \A b \in scan[d].idx + scan[d].pos .. scan[d].idx + scan[d].cnt - 1 : ~used_map'[b]
        BY SMTT(40), <3>1, <3>2, <4>1 DEF Bit
      <4>3. QED
        BY Zenon, <2>1, <3>4, <4>2 DEF ScanFits
    <3>5. QED
      BY <2>2, <3>3, <3>4
  <2>3. CASE pc[d] \notin {"bitmap_scan", "bitmap_flip"}
    BY <2>1, <2>3 DEF ScanFits
  <2>4. QED
    BY <2>2, <2>3
<1>2. ScanExact'
  BY <1>1 DEF ScanExact
<1>3. FirstFit'
  BY DEF FirstFit, Alters
<1>4. \A d \in Client \ {c} : (InFlight(d))' = InFlight(d)
  BY DEF Alters, InFlight
<1>5. QED
  BY <1>2, <1>3, <1>4

(* A step of malloc.c that is not in palloc.c.                             *)
LEMMA ElsewherePages ==
  ASSUME PallocInv, NEW c \in Client, pc[c] \in Outside, NEW label \in Outside,
         Goto(c, label), UNCHANGED <<used_map, pool_lock, scan, groups>>
  PROVE  PallocInv'
<1>1. pc'[c] = label /\ Alters(c)
  BY DEF Goto, Alters, PallocInv, PallocTypeOK
<1>2. PallocTypeOK'
  BY DEF Goto, PallocInv, PallocTypeOK, Outside, Locked
<1>3. ScanFits(c)'
  BY <1>1 DEF ScanFits, Outside
<1>4. /\ ScanExact' /\ FirstFit'
      /\ \A d \in Client \ {c} : (InFlight(d))' = InFlight(d)
  BY <1>1, <1>3, OthersKeep DEF PallocInv, Outside
<1>5. InFlight(c) = {} /\ (InFlight(c))' = {}
  BY <1>1 DEF InFlight, Outside
<1>6. PageByPage'
  BY <1>4, <1>5, PagesFrame, PagesAre DEF PallocInv
<1>7. PallocTypeOK' /\ ScanExact' => (PagesExclusive' <=> PageByPage')
  BY PagesAre, PTL
<1>8. QED
  BY <1>2, <1>4, <1>6, <1>7 DEF PallocInv

(* palloc_get_multiple() is called.                                        *)
LEMMA GetPages ==
  ASSUME PallocInv, NEW c \in Client, pc[c] \in Outside,
         NEW cnt \in Nat \ {0}, NEW ret \in Outside, get_multiple(c, cnt, ret)
  PROVE  PallocInv'
<1>1. /\ pc'[c] = "palloc_lock" /\ Alters(c)
      /\ scan'[c] = [idx |-> 0, pos |-> 0, cnt |-> cnt, ret |-> ret, free_before |-> {}]
      /\ UNCHANGED <<used_map, pool_lock, groups>>
  BY Zenon DEF get_multiple, Goto, Alters, NoScan, PallocInv, PallocTypeOK
<1>2. PallocTypeOK'
  <2>1. scan'[c] \in [idx : Int, pos : Nat, cnt : Nat, ret : Outside, free_before : SUBSET Bit]
    BY <1>1
  <2>2. QED
    BY <1>1, <2>1 DEF get_multiple, Goto, PallocInv, PallocTypeOK, Outside, Locked
<1>3. ScanFits(c)'
  BY <1>1 DEF ScanFits, Outside
<1>4. /\ ScanExact' /\ FirstFit'
      /\ \A d \in Client \ {c} : (InFlight(d))' = InFlight(d)
  BY <1>1, <1>3, OthersKeep DEF PallocInv
<1>5. InFlight(c) = {} /\ (InFlight(c))' = {}
  BY <1>1 DEF InFlight, Outside
<1>6. PageByPage'
  BY Zenon, <1>1, <1>4, <1>5, PagesFrame, PagesAre DEF PallocInv
<1>7. PallocTypeOK' /\ ScanExact' => (PagesExclusive' <=> PageByPage')
  BY PagesAre, PTL
<1>8. QED
  BY <1>2, <1>4, <1>6, <1>7 DEF PallocInv

(* lock_acquire(): the scan starts, and notes the groups that are free.    *)
LEMMA LockPages ==
  ASSUME PallocInv, NEW c \in Client, palloc_lock(c) PROVE PallocInv'
<1>1. /\ pc[c] = "palloc_lock" /\ pool_lock = NULL /\ pool_lock' = c
      /\ pc'[c] = "bitmap_scan" /\ Alters(c)
      /\ scan'[c] = [scan[c] EXCEPT !.free_before = FreeGroups(scan[c].cnt)]
      /\ UNCHANGED <<used_map, groups>>
  BY DEF palloc_lock, Goto, Alters, PallocInv, PallocTypeOK
<1>2. /\ scan'[c].idx = 0 /\ scan'[c].pos = 0 /\ scan'[c].cnt = scan[c].cnt
      /\ scan'[c].cnt \in Nat /\ scan'[c].cnt > 0
      /\ scan'[c].free_before = FreeGroups(scan[c].cnt)
      /\ scan'[c] \in [idx : Int, pos : Nat, cnt : Nat, ret : Outside, free_before : SUBSET Bit]
  BY <1>1 DEF PallocInv, PallocTypeOK, ScanExact, ScanFits, Outside, FreeGroups
<1>3. PallocTypeOK'
  <2>1. \A d \in Client : pc'[d] \in Locked <=> pool_lock' = d
    BY <1>1, PallocAssumption DEF PallocInv, PallocTypeOK, Locked, Alters
  <2>2. pc' \in [Client -> Outside \cup Locked \cup {"palloc_lock", "bitmap_reset"}]
    BY DEF palloc_lock, Goto, PallocInv, PallocTypeOK, Locked
  <2>3. QED
    BY Zenon, <1>1, <1>2, <2>1, <2>2 DEF palloc_lock, PallocInv, PallocTypeOK
<1>4. ScanFits(c)'
  BY <1>1, <1>2 DEF ScanFits, StillFree, FreeGroups, Outside
<1>5. \A i \in scan'[c].free_before : scan'[c].idx <= i
  BY <1>2, PallocAssumption DEF FreeGroups, Bit
<1>6. /\ ScanExact' /\ FirstFit'
      /\ \A d \in Client \ {c} : (InFlight(d))' = InFlight(d)
  BY ZenonT(30), <1>1, <1>4, <1>5, OthersKeep DEF PallocInv
<1>7. InFlight(c) = {} /\ (InFlight(c))' = {}
  BY <1>1 DEF InFlight
<1>8. PageByPage'
  BY <1>1, <1>6, <1>7, PagesFrame, PagesAre DEF PallocInv
<1>9. PallocTypeOK' /\ ScanExact' => (PagesExclusive' <=> PageByPage')
  BY PagesAre, PTL
<1>10. QED
  BY <1>3, <1>6, <1>8, <1>9 DEF PallocInv

(* bitmap_scan(): a used bit at idx + pos means that the group at idx was  *)
(* not free when the scan began.                                           *)
LEMMA ScanPages ==
  ASSUME PallocInv, NEW c \in Client, bitmap_scan(c) PROVE PallocInv'
<1> DEFINE s == scan[c]
<1>1. /\ pc[c] = "bitmap_scan" /\ Alters(c)
      /\ UNCHANGED <<used_map, pool_lock, groups>>
  BY DEF bitmap_scan, Goto, Alters, PallocInv, PallocTypeOK
<1>2. /\ s.idx \in Nat /\ s.pos \in Nat /\ s.cnt \in Nat /\ s.cnt > 0 /\ s.pos <= s.cnt
      /\ s \in [idx : Int, pos : Nat, cnt : Nat, ret : Outside, free_before : SUBSET Bit]
      /\ s.free_before \subseteq Bit /\ bit_cnt \in Nat
      /\ s.pos > 0 => s.idx + s.cnt <= bit_cnt
      /\ \A b \in s.idx .. s.idx + s.pos - 1 : ~used_map[b]
      /\ StillFree(c) /\ \A i \in s.free_before : s.idx <= i
  BY <1>1, PallocAssumption
  DEF PallocInv, PallocTypeOK, ScanExact, ScanFits, Outside, FirstFit
<1> DEFINE Goal == /\ pc'[c] \in Locked /\ ScanFits(c)'
                   /\ scan'[c] \in [idx : Int, pos : Nat, cnt : Nat, ret : Outside,
                                    free_before : SUBSET Bit]
                   /\ pc'[c] = "palloc_failed" => scan'[c].free_before = {}
                   /\ pc'[c] \in {"bitmap_scan", "bitmap_flip", "palloc_unlock"} =>
                        \A i \in scan'[c].free_before : scan'[c].idx <= i
                   /\ pc'[c] = "bitmap_flip" => scan'[c].pos = 0
                   /\ pc'[c] # "palloc_unlock"
<1>3. ASSUME s.idx + s.cnt > bit_cnt PROVE Goal
  <2>1. pc'[c] = "palloc_failed" /\ scan'[c] = s
    BY <1>3 DEF bitmap_scan, Goto, PallocInv, PallocTypeOK
  <2>2. s.free_before = {}
    BY <1>2, <1>3 DEF StillFree, Bit
  <2>3. QED
    BY <1>2, <2>1, <2>2 DEF ScanFits, Locked
<1>4. ASSUME s.idx + s.cnt <= bit_cnt /\ s.pos = s.cnt PROVE Goal
  <2>1. pc'[c] = "bitmap_flip" /\ scan'[c] = [s EXCEPT !.pos = 0]
    BY <1>2, <1>4 DEF bitmap_scan, Goto, PallocInv, PallocTypeOK
  <2>2. /\ scan'[c].idx = s.idx /\ scan'[c].pos = 0 /\ scan'[c].cnt = s.cnt
        /\ scan'[c].free_before = s.free_before
        /\ scan'[c] \in [idx : Int, pos : Nat, cnt : Nat, ret : Outside, free_before : SUBSET Bit]
    BY <1>2, <2>1
  <2>3. QED
    BY SMTT(40), <1>1, <1>2, <1>4, <2>1, <2>2 DEF ScanFits, Locked
<1>5. ASSUME s.idx + s.cnt <= bit_cnt /\ s.pos # s.cnt /\ used_map[s.idx + s.pos] PROVE Goal
  <2>1. pc'[c] = "bitmap_scan" /\ scan'[c] = [s EXCEPT !.idx = @ + 1, !.pos = 0]
    BY SMTT(40), <1>1, <1>2, <1>5 DEF bitmap_scan, PallocInv, PallocTypeOK
  <2>2. /\ scan'[c].idx = s.idx + 1 /\ scan'[c].pos = 0 /\ scan'[c].cnt = s.cnt
        /\ scan'[c].free_before = s.free_before
        /\ scan'[c] \in [idx : Int, pos : Nat, cnt : Nat, ret : Outside, free_before : SUBSET Bit]
    <3>1. s.idx + 1 \in Int /\ s.ret \in Outside
      BY <1>2
    <3>2. scan'[c] = [idx |-> s.idx + 1, pos |-> 0, cnt |-> s.cnt, ret |-> s.ret,
                      free_before |-> s.free_before]
      BY ZenonT(30), <1>2, <2>1
    <3>3. QED
      BY <1>2, <3>1, <3>2
  <2>3. s.idx \notin s.free_before
    BY <1>2, <1>5 DEF StillFree
  <2>4. \A i \in s.free_before : s.idx + 1 <= i
    BY <1>2, <2>3 DEF Bit
  <2>5. (StillFree(c))'
    BY <1>1, <1>2, <2>2 DEF StillFree
  <2>6. QED
    BY SMTT(40), <1>1, <1>2, <2>1, <2>2, <2>4, <2>5 DEF ScanFits, Locked
<1>6. ASSUME s.idx + s.cnt <= bit_cnt /\ s.pos # s.cnt /\ ~used_map[s.idx + s.pos] PROVE Goal
  <2>1. pc'[c] = "bitmap_scan" /\ scan'[c] = [s EXCEPT !.pos = @ + 1]
    BY <1>1, <1>2, <1>6 DEF bitmap_scan, PallocInv, PallocTypeOK
  <2>2. /\ scan'[c].idx = s.idx /\ scan'[c].pos = s.pos + 1 /\ scan'[c].cnt = s.cnt
        /\ scan'[c].free_before = s.free_before
        /\ scan'[c] \in [idx : Int, pos : Nat, cnt : Nat, ret : Outside, free_before : SUBSET Bit]
    BY <1>2, <2>1
  <2>3. (StillFree(c))'
    BY <1>1, <1>2, <2>2 DEF StillFree
  <2>4. \A b \in s.idx .. s.idx + s.pos : ~used_map[b]
    BY SMTT(40), <1>2, <1>6
  <2>5. QED
    BY SMTT(40), <1>1, <1>2, <1>6, <2>1, <2>2, <2>3, <2>4 DEF ScanFits, Locked
<1>7. Goal
  BY <1>2, <1>3, <1>4, <1>5, <1>6
<1>8. PallocTypeOK'
  <2>1. \A d \in Client : pc'[d] \in Locked <=> pool_lock' = d
    BY <1>1, <1>7 DEF PallocInv, PallocTypeOK, Locked, Alters
  <2>2. pc' = [d \in Client |-> pc'[d]] /\ scan' = [d \in Client |-> scan'[d]]
    BY DEF bitmap_scan, Goto, PallocInv, PallocTypeOK
  <2>3. QED
    BY <1>1, <1>7, <2>1, <2>2 DEF PallocInv, PallocTypeOK, Alters
<1>9. /\ ScanExact' /\ FirstFit'
      /\ \A d \in Client \ {c} : (InFlight(d))' = InFlight(d)
  BY <1>1, <1>7, OthersKeep DEF PallocInv
<1>10. InFlight(c) = {} /\ (InFlight(c))' = {}
  BY <1>1, <1>7 DEF InFlight, Locked
<1>11. PageByPage'
  BY ZenonT(40), <1>1, <1>9, <1>10, PagesFrame, PagesAre DEF PallocInv
<1>12. PallocTypeOK' /\ ScanExact' => (PagesExclusive' <=> PageByPage')
  BY PagesAre, PTL
<1>13. QED
  BY <1>8, <1>9, <1>11, <1>12 DEF PallocInv

(* bitmap_set_multiple(): the next bit of the group is still free.         *)
LEMMA FlipPages ==
  ASSUME PallocInv, NEW c \in Client, bitmap_flip(c) PROVE PallocInv'
<1> DEFINE s == scan[c]
<1> DEFINE b == s.idx + s.pos
<1>1. /\ pc[c] = "bitmap_flip" /\ Alters(c) /\ pool_lock = c
      /\ scan'[c] = [s EXCEPT !.pos = @ + 1]
      /\ pc'[c] = IF s.pos + 1 = s.cnt THEN "palloc_unlock" ELSE "bitmap_flip"
      /\ used_map' = [used_map EXCEPT ![b] = TRUE]
      /\ UNCHANGED <<pool_lock, groups>>
  BY DEF bitmap_flip, Goto, Alters, PallocInv, PallocTypeOK, Locked
<1>2. /\ s.idx \in Nat /\ s.pos \in Nat /\ s.cnt \in Nat /\ s.pos < s.cnt
      /\ s \in [idx : Int, pos : Nat, cnt : Nat, ret : Outside, free_before : SUBSET Bit]
      /\ bit_cnt \in Nat /\ s.idx + s.cnt <= bit_cnt
      /\ \A a \in s.idx + s.pos .. s.idx + s.cnt - 1 : ~used_map[a]
      /\ \A i \in s.free_before : s.idx <= i
  BY <1>1, PallocAssumption
  DEF PallocInv, PallocTypeOK, ScanExact, ScanFits, Outside, FirstFit
<1>3. b \in Bit /\ ~used_map[b]
  BY <1>2 DEF Bit
<1>4. /\ scan'[c].idx = s.idx /\ scan'[c].pos = s.pos + 1 /\ scan'[c].cnt = s.cnt
      /\ scan'[c].free_before = s.free_before
      /\ scan'[c] \in [idx : Int, pos : Nat, cnt : Nat, ret : Outside, free_before : SUBSET Bit]
  BY <1>1, <1>2
<1>5. \A a \in s.idx + s.pos + 1 .. s.idx + s.cnt - 1 : ~used_map'[a]
  BY <1>1, <1>2, <1>3 DEF PallocInv, PallocTypeOK, Bit
<1>6. ScanFits(c)'
  BY <1>1, <1>2, <1>4, <1>5 DEF ScanFits
<1>7. PallocTypeOK'
  <2>1. \A d \in Client : pc'[d] \in Locked <=> pool_lock' = d
    BY <1>1 DEF PallocInv, PallocTypeOK, Locked, Alters
  <2>2. pc' = [d \in Client |-> pc'[d]] /\ scan' = [d \in Client |-> scan'[d]]
    BY Zenon DEF bitmap_flip, Goto, PallocInv, PallocTypeOK
  <2>3. used_map' \in [Bit -> BOOLEAN]
    BY <1>1, <1>3 DEF PallocInv, PallocTypeOK
  <2>4. pc'[c] \in Locked
    BY <1>1 DEF Locked
  <2>5. QED
    BY <1>1, <1>4, <2>1, <2>2, <2>3, <2>4 DEF PallocInv, PallocTypeOK, Alters
<1>8. /\ ScanExact' /\ FirstFit'
      /\ \A d \in Client \ {c} : (InFlight(d))' = InFlight(d)
  BY <1>1, <1>2, <1>4, <1>6, OthersKeep DEF PallocInv
<1>9. (InFlight(c))' = InFlight(c) \cup {b}
  <2>1. InFlight(c) = s.idx .. s.idx + s.pos - 1
    BY <1>1 DEF InFlight
  <2>2. (InFlight(c))' = s.idx .. s.idx + s.pos
    BY <1>1, <1>2, <1>4 DEF InFlight
  <2>3. QED
    BY <1>2, <2>1, <2>2
<1>10. PageByPage'
  <2> HIDE DEF b
  <2>1. QED
    BY ZenonT(40), <1>1, <1>3, <1>8, <1>9, PageMarked, PagesAre DEF PallocInv
<1>11. PallocTypeOK' /\ ScanExact' => (PagesExclusive' <=> PageByPage')
  BY PagesAre, PTL
<1>12. QED
  BY <1>7, <1>8, <1>10, <1>11 DEF PallocInv

(* lock_release() after a group was found, or after none was.              *)
LEMMA UnlockPages ==
  ASSUME PallocInv, NEW c \in Client, palloc_unlock(c) \/ palloc_failed(c)
  PROVE  PallocInv'
<1> DEFINE s == scan[c]
<1> DEFINE g == [start |-> s.idx, cnt |-> s.cnt]
<1>1. /\ pc[c] \in {"palloc_unlock", "palloc_failed"} /\ Alters(c)
      /\ pool_lock = c /\ pool_lock' = NULL /\ pc'[c] = s.ret /\ s.ret \in Outside
      /\ scan'[c] = s \/ scan'[c] = [s EXCEPT !.idx = -1]
      /\ UNCHANGED used_map
  BY DEF palloc_unlock, palloc_failed, Goto, Alters, PallocInv, PallocTypeOK, Locked
<1>2. /\ s.cnt \in Nat /\ s.cnt > 0 /\ s.idx \in Nat
      /\ s \in [idx : Int, pos : Nat, cnt : Nat, ret : Outside, free_before : SUBSET Bit]
      /\ scan'[c] \in [idx : Int, pos : Nat, cnt : Nat, ret : Outside, free_before : SUBSET Bit]
      /\ pc[c] = "palloc_unlock" => s.idx + s.cnt <= bit_cnt
  BY <1>1 DEF PallocInv, PallocTypeOK, ScanExact, ScanFits, Outside
<1>3. ScanFits(c)'
  BY <1>1 DEF ScanFits, Outside
<1>4. /\ ScanExact' /\ FirstFit'
      /\ \A d \in Client \ {c} : (InFlight(d))' = InFlight(d)
  BY <1>1, <1>3, OthersKeep DEF PallocInv, Outside
<1>5. (InFlight(c))' = {}
  BY <1>1 DEF InFlight, Outside
<1>6. ASSUME palloc_unlock(c)
      PROVE  /\ PageByPage' /\ groups' \subseteq [start : Bit, cnt : Nat]
             /\ \A h \in groups' : h.cnt > 0 /\ h.start + h.cnt <= bit_cnt
  <2>1. pc[c] = "palloc_unlock" /\ groups' = groups \cup {g}
    BY <1>6 DEF palloc_unlock
  <2>2. g \in [start : Bit, cnt : Nat] /\ g.cnt > 0 /\ g.start + g.cnt <= bit_cnt
    BY <1>2, <2>1, PallocAssumption DEF Bit
  <2>3. PagesOf(g) = InFlight(c)
    BY <2>1 DEF PagesOf, InFlight
  <2> HIDE DEF g
  <2>4. PageByPage'
    BY ZenonT(40), <1>1, <1>4, <1>5, <2>1, <2>3, GroupGiven, PagesAre DEF PallocInv
  <2>5. /\ groups' \subseteq [start : Bit, cnt : Nat]
        /\ \A h \in groups' : h.cnt > 0 /\ h.start + h.cnt <= bit_cnt
    BY <2>1, <2>2 DEF PallocInv, PallocTypeOK
  <2>6. QED
    BY <2>4, <2>5
<1>7. ASSUME palloc_failed(c)
      PROVE  /\ PageByPage' /\ groups' \subseteq [start : Bit, cnt : Nat]
             /\ \A h \in groups' : h.cnt > 0 /\ h.start + h.cnt <= bit_cnt
  <2>1. pc[c] = "palloc_failed" /\ groups' = groups
    BY <1>7 DEF palloc_failed
  <2>2. InFlight(c) = {}
    BY <2>1 DEF InFlight
  <2>3. PageByPage'
    BY ZenonT(40), <1>1, <1>4, <1>5, <2>1, <2>2, PagesFrame, PagesAre DEF PallocInv
  <2>4. QED
    BY <2>1, <2>3 DEF PallocInv, PallocTypeOK
<1>8. PallocTypeOK'
  <2>1. \A d \in Client : pc'[d] \in Locked <=> pool_lock' = d
    BY <1>1, PallocAssumption DEF PallocInv, PallocTypeOK, Locked, Outside, Alters
  <2>2. pc' = [d \in Client |-> pc'[d]] /\ scan' = [d \in Client |-> scan'[d]]
    BY DEF palloc_unlock, palloc_failed, Goto, PallocInv, PallocTypeOK
  <2>3. QED
    BY <1>1, <1>2, <1>6, <1>7, <2>1, <2>2 DEF PallocInv, PallocTypeOK, Alters
<1>9. PallocTypeOK' /\ ScanExact' => (PagesExclusive' <=> PageByPage')
  BY PagesAre, PTL
<1>10. QED
  BY <1>4, <1>6, <1>7, <1>8, <1>9 DEF PallocInv

(* palloc_free_multiple() is called for a group.                           *)
LEMMA FreePages ==
  ASSUME PallocInv, NEW c \in Client, pc[c] \in Outside, NEW g, NEW ret \in Outside,
         free_multiple(c, g, ret)
  PROVE  PallocInv'
<1>1. /\ g \in groups /\ groups' = groups \ {g} /\ pc'[c] = "bitmap_reset" /\ Alters(c)
      /\ scan'[c] = [idx |-> g.start, pos |-> 0, cnt |-> g.cnt, ret |-> ret,
                     free_before |-> {}]
      /\ UNCHANGED <<used_map, pool_lock>>
  BY ZenonT(30) DEF free_multiple, Goto, Alters, NoScan, PallocInv, PallocTypeOK
<1>2. /\ g.start \in Nat /\ g.cnt \in Nat /\ g.cnt > 0 /\ g.start + g.cnt <= bit_cnt
  BY <1>1, PallocAssumption DEF PallocInv, PallocTypeOK, Bit
<1>3. PallocTypeOK'
  <2>1. scan'[c] \in [idx : Int, pos : Nat, cnt : Nat, ret : Outside, free_before : SUBSET Bit]
    BY <1>1, <1>2
  <2>2. QED
    BY <1>1, <2>1 DEF free_multiple, Goto, PallocInv, PallocTypeOK, Outside, Locked
<1>4. ScanFits(c)'
  BY SMTT(40), <1>1, <1>2 DEF ScanFits
<1>5. /\ ScanExact' /\ FirstFit'
      /\ \A d \in Client \ {c} : (InFlight(d))' = InFlight(d)
  BY <1>1, <1>4, OthersKeep DEF PallocInv
<1>6. InFlight(c) = {} /\ (InFlight(c))' = PagesOf(g)
  BY SMTT(40), <1>1, <1>2 DEF InFlight, PagesOf, Outside
<1>7. PageByPage'
  BY <1>1, <1>5, <1>6, GroupTaken, PagesAre DEF PallocInv
<1>8. PallocTypeOK' /\ ScanExact' => (PagesExclusive' <=> PageByPage')
  BY PagesAre, PTL
<1>9. QED
  BY <1>3, <1>5, <1>7, <1>8 DEF PallocInv

(* bitmap_set_multiple() in palloc_free_multiple() clears a bit of the     *)
(* group, without the lock.                                                *)
LEMMA ResetPages ==
  ASSUME PallocInv, NEW c \in Client, bitmap_reset(c) PROVE PallocInv'
<1> DEFINE s == scan[c]
<1> DEFINE b == s.idx + s.pos
<1>1. /\ pc[c] = "bitmap_reset" /\ Alters(c)
      /\ scan'[c] = IF s.pos + 1 = s.cnt THEN [NoScan EXCEPT !.ret = s.ret]
                    ELSE [s EXCEPT !.pos = @ + 1]
      /\ pc'[c] = IF s.pos + 1 = s.cnt THEN s.ret ELSE "bitmap_reset"
      /\ used_map' = [used_map EXCEPT ![b] = FALSE]
      /\ UNCHANGED <<pool_lock, groups>>
  BY DEF bitmap_reset, Goto, Alters, PallocInv, PallocTypeOK
<1>2. /\ s.idx \in Nat /\ s.pos \in Nat /\ s.cnt \in Nat /\ s.pos < s.cnt /\ s.ret \in Outside
      /\ s \in [idx : Int, pos : Nat, cnt : Nat, ret : Outside, free_before : SUBSET Bit]
      /\ bit_cnt \in Nat /\ s.idx + s.cnt <= bit_cnt
  BY <1>1, PallocAssumption DEF PallocInv, PallocTypeOK, ScanExact, ScanFits, Outside
<1>3. b \in Bit
  BY <1>2 DEF Bit
<1>4. scan'[c] \in [idx : Int, pos : Nat, cnt : Nat, ret : Outside, free_before : SUBSET Bit]
  <2>1. [NoScan EXCEPT !.ret = s.ret] =
          [idx |-> 0, pos |-> 0, cnt |-> 0, ret |-> s.ret, free_before |-> {}]
    BY DEF NoScan
  <2>2. CASE s.pos + 1 = s.cnt
    BY <1>1, <1>2, <2>1, <2>2
  <2>3. CASE s.pos + 1 # s.cnt
    BY <1>1, <1>2, <2>3
  <2>4. QED
    BY <2>2, <2>3
<1>5. s.pos + 1 # s.cnt =>
        scan'[c].idx = s.idx /\ scan'[c].pos = s.pos + 1 /\ scan'[c].cnt = s.cnt
  BY <1>1, <1>2
<1>6. ScanFits(c)'
  <2>1. CASE s.pos + 1 = s.cnt
    BY <1>1, <1>2, <2>1 DEF ScanFits, Outside
  <2>2. CASE s.pos + 1 # s.cnt
    BY <1>1, <1>2, <1>5, <2>2 DEF ScanFits
  <2>3. QED
    BY <2>1, <2>2
<1>7. \A a \in Bit : used_map'[a] => used_map[a]
  BY <1>1, <1>3 DEF PallocInv, PallocTypeOK
<1>8. PallocTypeOK'
  <2>1. pc'[c] \in Outside \cup {"bitmap_reset"}
    BY <1>1, <1>2
  <2>2. \A d \in Client : pc'[d] \in Locked <=> pool_lock' = d
    BY <1>1, <2>1 DEF PallocInv, PallocTypeOK, Locked, Outside, Alters
  <2>3. pc' = [d \in Client |-> pc'[d]] /\ scan' = [d \in Client |-> scan'[d]]
    BY Zenon DEF bitmap_reset, Goto, PallocInv, PallocTypeOK
  <2>4. used_map' \in [Bit -> BOOLEAN]
    BY <1>1, <1>3 DEF PallocInv, PallocTypeOK
  <2>5. QED
    BY ZenonT(40), <1>1, <1>4, <2>1, <2>2, <2>3, <2>4 DEF PallocInv, PallocTypeOK, Alters
<1>9. /\ ScanExact' /\ FirstFit'
      /\ \A d \in Client \ {c} : (InFlight(d))' = InFlight(d)
  <2>1. pc'[c] \notin {"palloc_failed", "bitmap_scan", "bitmap_flip", "palloc_unlock"}
    BY <1>1, <1>2 DEF Outside
  <2>2. QED
    BY Zenon, <1>1, <1>6, <1>7, <2>1, OthersKeep DEF PallocInv
<1>10. b \in InFlight(c) /\ (InFlight(c))' = InFlight(c) \ {b}
  <2>1. InFlight(c) = s.idx + s.pos .. s.idx + s.cnt - 1
    BY <1>1 DEF InFlight
  <2>2. CASE s.pos + 1 = s.cnt
    <3>1. (InFlight(c))' = {}
      BY Zenon, <1>1, <1>2, <2>2 DEF InFlight, Outside
    <3>2. InFlight(c) = {b}
      BY SMTT(40), <1>2, <2>1, <2>2
    <3>3. QED
      BY <3>1, <3>2
  <2>3. CASE s.pos + 1 # s.cnt
    <3>1. (InFlight(c))' = s.idx + s.pos + 1 .. s.idx + s.cnt - 1
      BY SMTT(40), <1>1, <1>2, <1>5, <2>3 DEF InFlight
    <3>2. QED
      BY <1>2, <2>1, <3>1
  <2>4. QED
    BY <2>2, <2>3
<1>11. PageByPage'
  <2> HIDE DEF b
  <2>1. QED
    BY ZenonT(40), <1>1, <1>3, <1>9, <1>10, PageCleared, PagesAre DEF PallocInv
<1>12. PallocTypeOK' /\ ScanExact' => (PagesExclusive' <=> PageByPage')
  BY PagesAre, PTL
<1>13. QED
  BY <1>8, <1>9, <1>11, <1>12 DEF PallocInv

-----------------------------------------------------------------------------
(* palloc_init(): every page is free.                                      *)
LEMMA PallocStart == MallocInit => PallocInv
<1> SUFFICES ASSUME MallocInit PROVE PallocInv
  OBVIOUS
<1> USE DEF MallocInit, PallocInit
<1>1. PallocTypeOK
  BY PallocAssumption DEF PallocTypeOK, NoScan, Outside, Locked
<1>2. ScanExact
  BY DEF ScanExact, ScanFits, Outside
<1>3. FirstFit
  BY DEF FirstFit
<1>4. \A c \in Client : InFlight(c) = {}
  BY DEF InFlight
<1>5. PageByPage
  BY <1>4 DEF PageByPage
<1>6. QED
  BY Zenon, <1>1, <1>2, <1>3, <1>5, PagesAre DEF PallocInv

(* A request for a big block is for one page at least.                     *)
LEMMA SomePages ==
  ASSUME NEW size \in Size \ {0} PROVE page_cnt(size) \in Nat \ {0}
<1>1. size \in Nat \ {0} /\ PGSIZE \in Nat /\ PGSIZE > 0 /\ ARENA_SIZE \in Nat
  BY MallocAssumption
<1> DEFINE n == size + ARENA_SIZE + PGSIZE - 1
<1>2. n \in Nat /\ n >= PGSIZE
  BY <1>1
<1>3. n \div PGSIZE \in Nat /\ n \div PGSIZE >= 1
  <2> HIDE DEF n
  <2>1. QED
    BY <1>1, <1>2
<1>4. QED
  BY <1>3 DEF page_cnt

(* Every step of malloc.c and palloc.c.                                    *)
LEMMA PallocStepInv == PallocInv /\ [MallocNext]_memoryVars => PallocInv'
<1> SUFFICES ASSUME PallocInv, [MallocNext]_memoryVars PROVE PallocInv'
  OBVIOUS
<1>1. ASSUME NEW c \in Client, NEW size \in Size \ {0}, NEW old, start_malloc(c, size, old)
      PROVE  PallocInv'
  <2>1. CASE get_multiple(c, page_cnt(size), "big_block")
    BY <1>1, <2>1, SomePages, GetPages DEF start_malloc, Outside
  <2>2. CASE Goto(c, "desc_lock") /\ UNCHANGED <<used_map, pool_lock, scan, groups>>
    BY <1>1, <2>2, ElsewherePages DEF start_malloc, Outside
  <2>3. QED
    BY <1>1, <2>1, <2>2 DEF start_malloc
<1>2. ASSUME NEW c \in Client, free(c) PROVE PallocInv'
  BY <1>2, ElsewherePages DEF free, Outside
<1>3. ASSUME NEW c \in Client, big_block(c) \/ take_block(c) \/ release_desc(c)
      PROVE  PallocInv'
  <2>1. pc[c] \in Outside /\ UNCHANGED <<used_map, pool_lock, scan, groups>>
    BY <1>3 DEF big_block, take_block, release_desc, Outside
  <2>2. Goto(c, "out") \/ Goto(c, "free")
    BY Zenon, <1>3 DEF big_block, take_block, release_desc, return_block, return_null
  <2>3. QED
    BY ZenonT(40), <2>1, <2>2, ElsewherePages DEF Outside
<1>4. ASSUME NEW c \in Client, acquire_desc(c) PROVE PallocInv'
  <2>1. CASE get_multiple(c, 1, "new_arena")
    BY <1>4, <2>1, GetPages DEF acquire_desc, Outside
  <2>2. CASE Goto(c, "take_block") /\ UNCHANGED <<used_map, pool_lock, scan, groups>>
    BY <1>4, <2>2, ElsewherePages DEF acquire_desc, Outside
  <2>3. QED
    BY <1>4, <2>1, <2>2 DEF acquire_desc
<1>5. ASSUME NEW c \in Client, new_arena(c) PROVE PallocInv'
  <2>1. /\ pc[c] \in Outside /\ UNCHANGED <<used_map, pool_lock, scan, groups>>
        /\ Goto(c, "out") \/ Goto(c, "take_block")
    BY ZenonT(30), <1>5 DEF new_arena, return_null, Outside
  <2>2. QED
    BY <2>1, ElsewherePages DEF Outside
<1>6. ASSUME NEW c \in Client, free_big(c) PROVE PallocInv'
  <2>1. PICK g : free_multiple(c, g, "out")
    BY <1>6 DEF free_big
  <2>2. QED
    BY ZenonT(40), <1>6, <2>1, FreePages DEF free_big, Outside
<1>7. ASSUME NEW c \in Client, free_block(c) PROVE PallocInv'
  <2>1. \/ \E g : free_multiple(c, g, "desc_unlock")
        \/ Goto(c, "out") /\ UNCHANGED <<used_map, pool_lock, scan, groups>>
    BY ZenonT(30), <1>7 DEF free_block
  <2>2. pc[c] \in Outside
    BY Zenon, <1>7 DEF free_block, Outside
  <2>3. QED
    BY <2>1, <2>2, FreePages, ElsewherePages DEF Outside
<1>8. ASSUME NEW c \in Client, PallocStep(c) PROVE PallocInv'
  BY ZenonT(40), <1>8, LockPages, ScanPages, FlipPages, UnlockPages, ResetPages DEF PallocStep
<1>9. CASE UNCHANGED memoryVars
  BY <1>9 DEF memoryVars, pallocVars, PallocInv, PallocTypeOK, ScanExact, ScanFits,
              StillFree, PagesExclusive, FirstFit, InFlight, PagesOf
<1>10. QED
  BY ZenonT(40), <1>1, <1>2, <1>3, <1>4, <1>5, <1>6, <1>7, <1>8, <1>9
  DEF MallocNext, BlockStep, malloc, realloc, page_allocator

(* The inductive invariant of palloc.c.                                    *)
THEOREM PallocInvariant == MallocSpec => []PallocInv
BY PallocStart, PallocStepInv, PTL DEF MallocSpec

(* Pages belong to one group or one thread, the bitmap knows exactly       *)
(* those, and a request gets the first free group or is refused because    *)
(* none was free when its scan began.                                      *)
THEOREM PagesAreExact == MallocSpec => []PagesExact
<1>1. PallocInv => PagesExact
  BY DEF PallocInv, PagesExact
<1>2. QED
  BY <1>1, PallocInvariant, PTL

-----------------------------------------------------------------------------
(* The serial line and the console.                                        *)

(* A byte of the console: who printed it, in which line, and where in it.  *)
Char == (Printer \cup {"handler", "panic"}) \X Nat \X Nat

(* What was printed is on the wire, in the holding register or queued, in  *)
(* this order, and the port's interrupts follow the two queues.            *)
PortInv ==
  /\ mode \in {"UNINIT", "POLL", "QUEUE"}
  /\ txq \in Seq(Char) /\ thr \in Seq(Char) /\ wire \in Seq(Char) /\ out \in Seq(Char)
  /\ mode # "QUEUE" => txq = <<>>
  /\ wire \o thr \o txq = out
  /\ mode = "QUEUE" /\ use_console_lock => ier = write_ier(txq, input)

(* The bytes of s that came from the line are those from lo + 1 to hi, in  *)
(* order; the others are keys.                                             *)
OldAndNew(s, lo, hi) == \A i \in 1 .. Len(s) : s[i] = 0 \/ (lo < s[i] /\ s[i] <= hi)
InOrder(s) == \A i, j \in 1 .. Len(s) : i < j /\ s[i] > 0 /\ s[j] > 0 => s[i] < s[j]
AllThere(s, lo, hi) == \A n \in Nat : lo < n /\ n <= hi => \E i \in 1 .. Len(s) : s[i] = n
HoldsBytes(s, lo, hi) ==
  s \in Seq(Nat) /\ lo <= hi /\ OldAndNew(s, lo, hi) /\ InOrder(s) /\ AllThere(s, lo, hi)

(* What the line delivered and nobody has read is in the input buffer, in  *)
(* order, the last byte perhaps still in the port.                         *)
Last == IF rbr = <<>> THEN arrived ELSE arrived - 1
InputInv ==
  /\ arrived \in Nat /\ heard \in Nat
  /\ rbr = <<>> \/ rbr = <<arrived>>
  /\ HoldsBytes(input, heard, Last)

(* Position i holds the last byte of o that was printed under the lock.    *)
LastLocked(o, i) ==
  /\ i \in 1 .. Len(o) /\ o[i][1] \in Printer
  /\ \A k \in i + 1 .. Len(o) : o[k][1] \notin Printer
(* The bytes of o printed under the lock follow each other as they should. *)
Whole(o) ==
  \A i, j \in {k \in 1 .. Len(o) : o[k][1] \in Printer} :
    i < j /\ (\A k \in {l \in 1 .. Len(o) : o[l][1] \in Printer} : k <= i \/ k >= j)
      => Continues(o[i], o[j])
(* Whoever printed b holds the lock until the line is printed, and has the *)
(* rest of it still to print.                                              *)
Unfinished(b) ==
  b[3] < LineLength => /\ console_lock = b[1] /\ left[b[1]] # <<>>
                       /\ Continues(b, Head(left[b[1]]))
(* The sequence s is the end of line n of p.                               *)
EndOfLine(s, p, n) ==
  \A i \in 1 .. Len(s) : s[i] = <<p, n, (LineLength - Len(s)) + i>>

LineType ==
  /\ lines \in Nat /\ left \in [Printer -> Seq(Char)] /\ off \in Seq(Char)
LockInv ==
  /\ console_lock_depth \in Nat
  /\ console_lock \in Printer \cup {Nobody} /\ faulted \in Printer \cup {Nobody}
  /\ console_lock_depth > 0 => faulted # Nobody
  /\ faulted # Nobody => console_lock = faulted
  /\ \A p \in Printer : left[p] # <<>> => console_lock = p
LeftInv ==
  /\ \A p \in Printer : Len(left[p]) <= LineLength /\ \E n \in Nat : EndOfLine(left[p], p, n)
  /\ \A i \in 1 .. Len(off) : off[i][1] \notin Printer
LineInv ==
  LockInv /\ LeftInv /\ Whole(out) /\ \A i : LastLocked(out, i) => Unfinished(out[i])

SerialInv == PortInv /\ InputInv /\ LineType /\ LineInv

-----------------------------------------------------------------------------
(* Sequences the port moves bytes between *)

(* intq_putc(): a byte put at the end of the queue is put at the end of    *)
(* everything.                                                             *)
LEMMA PutLast ==
  ASSUME NEW S, NEW s \in Seq(S), NEW t \in Seq(S), NEW b \in S
  PROVE  s \o Append(t, b) = Append(s \o t, b)
<1>1. s \o Append(t, b) \in Seq(S) /\ Append(s \o t, b) \in Seq(S)
  OBVIOUS
<1>2. Len(s \o Append(t, b)) = Len(Append(s \o t, b))
  OBVIOUS
<1>3. \A i \in 1 .. Len(s \o Append(t, b)) : (s \o Append(t, b))[i] = Append(s \o t, b)[i]
  OBVIOUS
<1> QED
  BY <1>1, <1>2, <1>3

(* intq_getc(): the first byte of the queue follows what was sent before.  *)
LEMMA TakeFirst ==
  ASSUME NEW S, NEW s \in Seq(S), NEW t \in Seq(S), t # <<>>
  PROVE  /\ Head(t) \in S /\ Tail(t) \in Seq(S)
         /\ s \o <<Head(t)>> \o Tail(t) = s \o t
<1>1. Head(t) \in S /\ Tail(t) \in Seq(S) /\ Len(t) > 0 /\ Len(Tail(t)) = Len(t) - 1
  OBVIOUS
<1>2. Len(s \o <<Head(t)>> \o Tail(t)) = Len(s \o t)
  BY <1>1
<1>3. \A i \in 1 .. Len(s \o t) : (s \o <<Head(t)>> \o Tail(t))[i] = (s \o t)[i]
  BY <1>1
<1>4. s \o <<Head(t)>> \o Tail(t) \in Seq(S) /\ s \o t \in Seq(S)
  BY <1>1
<1> QED
  BY <1>1, <1>2, <1>3, <1>4

(* An empty holding register or queue adds nothing.                        *)
LEMMA NothingAdded ==
  ASSUME NEW S, NEW s \in Seq(S)
  PROVE  s \o <<>> = s /\ <<>> \o s = s
<1>1. Len(s \o <<>>) = Len(s) /\ Len(<<>> \o s) = Len(s)
  OBVIOUS
<1>2. s \o <<>> \in Seq(S) /\ <<>> \o s \in Seq(S)
  OBVIOUS
<1>3. \A i \in 1 .. Len(s) : (s \o <<>>)[i] = s[i] /\ (<<>> \o s)[i] = s[i]
  OBVIOUS
<1> QED
  BY <1>1, <1>2, <1>3

-----------------------------------------------------------------------------
(* The port *)

(* serial_putc(): polled, queued or polled to make room, the byte comes    *)
(* after what was printed before.                                          *)
LEMMA PutcPort ==
  ASSUME PortInv, NEW b \in Char, NEW level, serial_putc(b, level),
         use_console_lock' = use_console_lock
  PROVE  PortInv' /\ out' = Append(out, b)
<1> USE DEF PortInv
<1>1. /\ out' = Append(out, b) /\ wire' = wire /\ input' = input
  BY DEF serial_putc, inVars
<1>2. out' \in Seq(Char) /\ wire' \in Seq(Char)
  BY <1>1
<1>3. CASE mode # "QUEUE"
  <2>1. /\ mode' = "POLL" /\ thr = <<>> /\ thr' = <<b>> /\ txq = <<>> /\ txq' = <<>>
    BY <1>3 DEF serial_putc
  <2>2. wire \o <<>> = wire /\ wire \o <<b>> = Append(wire, b)
    <3>1. wire \o <<>> = wire
      BY NothingAdded
    <3>2. wire \o Append(<<>>, b) = Append(wire \o <<>>, b)
      BY PutLast
    <3> QED
      BY <3>1, <3>2
  <2>3. (wire \o <<b>>) \o <<>> = wire \o <<b>>
    BY NothingAdded
  <2>4. out = wire
    BY <2>1, <2>2
  <2>5. (wire \o thr \o txq)' = out'
    BY <1>1, <2>1, <2>2, <2>3, <2>4
  <2> QED
    BY <1>1, <1>2, <2>1, <2>5
<1>4. CASE mode = "QUEUE" /\ Len(txq) < TxSize /\ txq' = Append(txq, b) /\ UNCHANGED <<mode, thr>>
           /\ ier' = write_ier(txq', input)
  <2>1. (wire \o thr) \o Append(txq, b) = Append((wire \o thr) \o txq, b)
    <3> DEFINE sent == wire \o thr
    <3> HIDE DEF sent
    <3>1. sent \in Seq(Char)
      BY DEF sent
    <3>2. sent \o Append(txq, b) = Append(sent \o txq, b)
      BY <3>1, PutLast
    <3> QED
      BY <3>2 DEF sent
  <2>2. txq' \in Seq(Char) /\ thr' \in Seq(Char)
    BY <1>4
  <2>3. ier' = write_ier(txq, input)'
    BY <1>1, <1>4 DEF write_ier
  <2>4. (wire \o thr \o txq)' = out'
    BY <1>1, <1>4, <2>1
  <2> QED
    BY <1>1, <1>2, <1>4, <2>2, <2>3, <2>4
<1>5. CASE mode = "QUEUE" /\ Len(txq) = TxSize /\ poll_first_byte(b) /\ UNCHANGED mode
           /\ ier' = write_ier(txq', input)
  <2>1. thr = <<>> /\ thr' = <<Head(txq)>> /\ txq' = Append(Tail(txq), b) /\ txq # <<>>
    BY <1>5, SerialAssumption DEF poll_first_byte
  <2>2. /\ Head(txq) \in Char /\ Tail(txq) \in Seq(Char)
        /\ wire \o <<Head(txq)>> \o Tail(txq) = wire \o txq
    BY <2>1, TakeFirst
  <2>3. (wire \o <<Head(txq)>>) \o Append(Tail(txq), b)
          = Append((wire \o <<Head(txq)>>) \o Tail(txq), b)
    <3> DEFINE h == Head(txq)
               t == Tail(txq)
    <3> HIDE DEF h, t
    <3>1. h \in Char /\ t \in Seq(Char) /\ wire \o <<h>> \in Seq(Char)
      BY <2>2 DEF h, t
    <3>2. (wire \o <<h>>) \o Append(t, b) = Append((wire \o <<h>>) \o t, b)
      BY <3>1, PutLast
    <3> QED
      BY Zenon, <3>2 DEF h, t
  <2>4. wire \o <<>> = wire
    BY NothingAdded
  <2>5. txq' \in Seq(Char) /\ thr' \in Seq(Char)
    BY <2>1, <2>2
  <2>6. ier' = write_ier(txq, input)'
    BY <1>1, <1>5 DEF write_ier
  <2>7. (wire \o thr \o txq)' = out'
    BY Zenon, <1>1, <2>1, <2>2, <2>3, <2>4
  <2> QED
    BY <1>1, <1>2, <1>5, <2>5, <2>6, <2>7
<1> QED
  BY Zenon, <1>3, <1>4, <1>5, <1>1 DEF serial_putc

(* serial_interrupt() and serial_flush(): the byte moves from the queue to *)
(* the holding register, or nothing moves.                                 *)
LEMMA SendPort ==
  ASSUME PortInv,
         \/ UNCHANGED <<thr, txq>>
         \/ thr = <<>> /\ txq # <<>> /\ thr' = <<Head(txq)>> /\ txq' = Tail(txq),
         UNCHANGED <<mode, use_console_lock, wire, out>>,
         mode = "QUEUE" /\ use_console_lock => ier' = write_ier(txq', input')
  PROVE  PortInv'
<1> USE DEF PortInv
<1>1. mode = "QUEUE" /\ use_console_lock => ier' = write_ier(txq, input)'
  BY DEF write_ier
<1>2. CASE UNCHANGED <<thr, txq>>
  BY <1>1, <1>2
<1>3. CASE thr = <<>> /\ txq # <<>> /\ thr' = <<Head(txq)>> /\ txq' = Tail(txq)
  <2>1. /\ Head(txq) \in Char /\ Tail(txq) \in Seq(Char)
        /\ wire \o <<Head(txq)>> \o Tail(txq) = wire \o txq
    BY <1>3, TakeFirst
  <2>2. wire \o <<>> = wire
    BY NothingAdded
  <2>3. (wire \o thr \o txq)' = out'
    BY Zenon, <1>3, <2>1, <2>2
  <2>4. thr' \in Seq(Char) /\ txq' \in Seq(Char)
    BY <1>3, <2>1
  <2> QED
    BY <1>1, <1>3, <2>3, <2>4
<1> QED
  BY Zenon, <1>2, <1>3

(* The hardware sends what it holds.                                       *)
LEMMA TransmitPort ==
  ASSUME PortInv, transmit
  PROVE  PortInv'
<1> USE DEF PortInv
<1>1. /\ wire' = wire \o thr /\ thr' = <<>> /\ txq' = txq /\ out' = out
      /\ mode' = mode /\ ier' = ier /\ input' = input /\ use_console_lock' = use_console_lock
  BY DEF transmit, lockVars, inVars
<1>2. wire' \in Seq(Char) /\ thr' \in Seq(Char)
  BY <1>1
<1>3. (wire \o thr) \o <<>> = wire \o thr
  <2> DEFINE sent == wire \o thr
  <2> HIDE DEF sent
  <2>1. sent \in Seq(Char)
    BY DEF sent
  <2>2. sent \o <<>> = sent
    BY <2>1, NothingAdded
  <2> QED
    BY <2>2 DEF sent
<1>4. (wire \o thr \o txq)' = out'
  BY <1>1, <1>3
<1>5. write_ier(txq, input)' = write_ier(txq, input)
  BY <1>1 DEF write_ier
<1> QED
  BY <1>1, <1>2, <1>4, <1>5

(* Whatever else happens leaves the queue, the port and the wire alone and *)
(* writes the interrupts that are enabled after a change of the input.     *)
LEMMA QuietPort ==
  ASSUME PortInv, UNCHANGED <<txq, thr, wire, out>>,
         mode' = mode \/ mode' = "QUEUE",
         mode' = "QUEUE" /\ use_console_lock'
           => \/ ier' = write_ier(txq, input')
              \/ mode = "QUEUE" /\ use_console_lock /\ UNCHANGED <<ier, input>>
  PROVE  PortInv'
<1> USE DEF PortInv
<1>1. mode' = "QUEUE" /\ use_console_lock' => ier' = write_ier(txq, input)'
  BY DEF write_ier
<1> QED
  BY <1>1

(* A line is a sequence of bytes.                                          *)
LEMMA LineBytes ==
  ASSUME NEW who \in Printer \cup {"handler", "panic"}, NEW n \in Nat
  PROVE  /\ Line(who, n) \in Seq(Char) /\ Len(Line(who, n)) = LineLength
         /\ \A i \in 1 .. LineLength : Line(who, n)[i] = <<who, n, i>>
BY SerialAssumption DEF Line, Char

(* Every step keeps what threads and handlers have to print well formed.   *)
LEMMA LineTypeStep ==
  ASSUME LineType, SerialNext
  PROVE  LineType'
<1> USE DEF LineType
<1>1. ASSUME NEW p \in Printer, acquire_console(p)
      PROVE  LineType'
  BY <1>1, LineBytes DEF acquire_console
<1>2. ASSUME NEW p \in Printer, putchar_have_lock(p)
      PROVE  LineType'
  <2>1. left[p] \in Seq(Char) /\ left[p] # <<>>
    BY <1>2 DEF putchar_have_lock
  <2>2. Tail(left[p]) \in Seq(Char)
    BY <2>1
  <2> QED
    BY <1>2, <2>2 DEF putchar_have_lock
<1>3. ASSUME NEW p \in Printer, release_console(p)
      PROVE  LineType'
  BY <1>3 DEF release_console, lineVars
<1>4. ASSUME NEW p \in Printer, page_fault(p)
      PROVE  LineType'
  BY <1>4, LineBytes, SerialAssumption DEF page_fault
<1>5. CASE putchar_intr_off
  <2>1. Tail(off) \in Seq(Char)
    BY <1>5 DEF putchar_intr_off
  <2> QED
    BY <1>5, <2>1 DEF putchar_intr_off
<1>6. CASE handler_prints
  BY Zenon, <1>6, LineBytes DEF handler_prints
<1>7. CASE debug_panic
  BY Zenon, <1>7, LineBytes DEF debug_panic
<1>8. CASE serial_init_queue \/ serial_interrupt \/ transmit \/ serial_flush \/ receive_byte
           \/ keyboard_interrupt \/ input_getc
  <2>1. UNCHANGED lineVars
    BY <1>8 DEF serial_init_queue, serial_interrupt, transmit, serial_flush, receive_byte,
                keyboard_interrupt, input_getc
  <2> QED
    BY <2>1 DEF lineVars
<1> QED
  BY <1>1, <1>2, <1>3, <1>4, <1>5, <1>6, <1>7, <1>8 DEF SerialNext, Console, Sending

(* Every step keeps the port in order.                                     *)
LEMMA PortStep ==
  ASSUME PortInv, LineType, SerialNext
  PROVE  PortInv'
<1>1. ASSUME NEW p \in Printer, acquire_console(p) \/ release_console(p) \/ page_fault(p)
      PROVE  PortInv'
  <2>1. UNCHANGED <<txq, thr, wire, out, mode, ier, input, use_console_lock>>
    BY <1>1 DEF acquire_console, release_console, page_fault, portVars, inVars, lockVars
  <2>2. PortInv' <=> PortInv
    BY Zenon, <2>1 DEF PortInv, write_ier
  <2> QED
    BY <2>2
<1>2. ASSUME NEW p \in Printer, putchar_have_lock(p)
      PROVE  PortInv'
  <2>1. left[p] \in Seq(Char) /\ left[p] # <<>> /\ serial_putc(Head(left[p]), "ON")
        /\ use_console_lock' = use_console_lock
    BY <1>2 DEF putchar_have_lock, LineType, lockVars
  <2> DEFINE b == Head(left[p])
  <2>2. b \in Char
    BY <2>1
  <2> HIDE DEF b
  <2> QED
    BY <2>1, <2>2, PutcPort DEF b
<1>3. CASE putchar_intr_off
  <2>1. off \in Seq(Char) /\ off # <<>> /\ serial_putc(Head(off), "OFF")
        /\ use_console_lock' = use_console_lock
    BY <1>3 DEF putchar_intr_off, LineType, lockVars
  <2> DEFINE b == Head(off)
  <2>2. b \in Char
    BY <2>1
  <2> HIDE DEF b
  <2> QED
    BY <2>1, <2>2, PutcPort DEF b
<1>4. CASE serial_interrupt
  <2>1. /\ UNCHANGED <<mode, use_console_lock, wire, out>> /\ ier' = write_ier(txq', input')
        /\ \/ UNCHANGED <<thr, txq>>
           \/ thr = <<>> /\ txq # <<>> /\ thr' = <<Head(txq)>> /\ txq' = Tail(txq)
    BY <1>4 DEF serial_interrupt, lockVars
  <2> QED
    BY <2>1, SendPort
<1>5. CASE serial_flush
  <2>1. /\ UNCHANGED <<mode, use_console_lock, wire, out>> /\ ~use_console_lock
        /\ thr = <<>> /\ txq # <<>> /\ thr' = <<Head(txq)>> /\ txq' = Tail(txq)
    BY <1>5 DEF serial_flush, lockVars
  <2> QED
    BY <2>1, SendPort
<1>6. CASE transmit
  BY <1>6, TransmitPort
<1>7. CASE serial_init_queue
  <2>1. /\ UNCHANGED <<txq, thr, wire, out, input>> /\ mode' = "QUEUE"
        /\ ier' = write_ier(txq, input)
    BY <1>7 DEF serial_init_queue, inVars
  <2> QED
    BY <2>1, QuietPort DEF write_ier
<1>8. CASE receive_byte \/ handler_prints \/ debug_panic
  <2>1. /\ UNCHANGED <<txq, thr, wire, out, mode, ier, input>>
        /\ use_console_lock' => use_console_lock
    BY <1>8 DEF receive_byte, handler_prints, debug_panic, inVars, lockVars, portVars
  <2> QED
    BY <2>1, QuietPort
<1>9. CASE keyboard_interrupt \/ input_getc
  <2>1. /\ UNCHANGED <<txq, thr, wire, out, mode, use_console_lock>> /\ use_console_lock
        /\ \/ mode = "QUEUE" => ier' = write_ier(txq, input')
           \/ UNCHANGED <<ier, input>>
    BY <1>9 DEF keyboard_interrupt, input_getc, lockVars, IntrOn, serial_notify
  <2> QED
    BY <2>1, QuietPort
<1> QED
  BY <1>1, <1>2, <1>3, <1>4, <1>5, <1>6, <1>7, <1>8, <1>9 DEF SerialNext, Console, Sending

-----------------------------------------------------------------------------
(* The input *)

(* input_putc() of a byte from the line, with or without a byte of the     *)
(* line waiting in the port: the positions of the buffer stay, one more    *)
(* comes.                                                                  *)
LEMMA InputAppended ==
  ASSUME NEW s \in Seq(Nat), NEW b \in Nat
  PROVE  /\ Append(s, b) \in Seq(Nat) /\ Len(Append(s, b)) = Len(s) + 1
         /\ \A i \in 1 .. Len(s) : Append(s, b)[i] = s[i]
         /\ Append(s, b)[Len(s) + 1] = b
         /\ s \o <<b>> = Append(s, b)
<1>1. s \o <<b>> = Append(s \o <<>>, b)
  <2>1. s \o Append(<<>>, b) = Append(s \o <<>>, b)
    BY PutLast
  <2> QED
    BY <2>1
<1>2. s \o <<>> = s
  BY ZenonT(40), NothingAdded
<1> QED
  BY <1>1, <1>2

(* The next byte of the line, put at the end, keeps the order.             *)
LEMMA HoldsByte ==
  ASSUME NEW s, NEW lo \in Nat, NEW hi \in Nat, HoldsBytes(s, lo, hi)
  PROVE  HoldsBytes(Append(s, hi + 1), lo, hi + 1)
<1> DEFINE t == Append(s, hi + 1)
<1>1. s \in Seq(Nat) /\ Len(s) \in Nat
  BY DEF HoldsBytes
<1>2. /\ t \in Seq(Nat) /\ Len(t) = Len(s) + 1
      /\ \A i \in 1 .. Len(s) : t[i] = s[i]
      /\ t[Len(s) + 1] = hi + 1
  BY <1>1, InputAppended
<1>3. \A i \in 1 .. Len(s) : s[i] \in Nat
  BY <1>1
<1> HIDE DEF t
<1>4. OldAndNew(t, lo, hi + 1)
  <2> SUFFICES ASSUME NEW i \in 1 .. Len(t), t[i] # 0
               PROVE  lo < t[i] /\ t[i] <= hi + 1
    BY DEF OldAndNew
  <2>1. CASE i = Len(s) + 1
    BY <1>2, <2>1 DEF HoldsBytes
  <2>2. CASE i \in 1 .. Len(s)
    <3>1. t[i] = s[i] /\ lo < s[i] /\ s[i] <= hi
      BY <1>2, <2>2 DEF HoldsBytes, OldAndNew
    <3> QED
      BY <1>3, <2>2, <3>1
  <2> QED
    BY <1>1, <1>2, <2>1, <2>2
<1>5. InOrder(t)
  <2> SUFFICES ASSUME NEW i \in 1 .. Len(t), NEW j \in 1 .. Len(t), i < j, t[i] > 0, t[j] > 0
               PROVE  t[i] < t[j]
    BY DEF InOrder
  <2>1. i \in 1 .. Len(s) /\ t[i] = s[i] /\ s[i] \in Nat
    BY SMTT(40), <1>1, <1>2, <1>3
  <2>2. CASE j = Len(s) + 1
    <3>1. s[i] <= hi
      BY <2>1 DEF HoldsBytes, OldAndNew
    <3> QED
      BY <1>2, <2>1, <2>2, <3>1
  <2>3. CASE j \in 1 .. Len(s)
    <3>1. t[j] = s[j]
      BY <1>2, <2>3
    <3> QED
      BY <2>1, <2>3, <3>1 DEF HoldsBytes, InOrder
  <2>4. Len(t) = Len(s) + 1
    BY <1>2
  <2>5. j = Len(s) + 1 \/ j \in 1 .. Len(s)
    BY <1>1, <2>4
  <2> QED
    BY <2>2, <2>3, <2>5
<1>6. AllThere(t, lo, hi + 1)
  <2> SUFFICES ASSUME NEW n \in Nat, lo < n, n <= hi + 1
               PROVE  \E i \in 1 .. Len(t) : t[i] = n
    BY DEF AllThere
  <2>1. CASE n = hi + 1
    BY <1>1, <1>2, <2>1
  <2>2. CASE n <= hi
    <3>1. PICK i \in 1 .. Len(s) : s[i] = n
      BY <2>2 DEF HoldsBytes, AllThere
    <3> QED
      BY <1>1, <1>2, <3>1
  <2> QED
    BY <2>1, <2>2
<1> QED
  BY <1>2, <1>4, <1>5, <1>6 DEF HoldsBytes, t

(* A key, put at the end, keeps the order.                                 *)
LEMMA HoldsKey ==
  ASSUME NEW s, NEW lo \in Nat, NEW hi \in Int, HoldsBytes(s, lo, hi)
  PROVE  HoldsBytes(Append(s, 0), lo, hi)
<1> DEFINE t == Append(s, 0)
<1>1. s \in Seq(Nat) /\ Len(s) \in Nat
  BY DEF HoldsBytes
<1>2. /\ t \in Seq(Nat) /\ Len(t) = Len(s) + 1
      /\ \A i \in 1 .. Len(s) : t[i] = s[i]
      /\ t[Len(s) + 1] = 0
  BY <1>1, InputAppended
<1> HIDE DEF t
<1>3. OldAndNew(t, lo, hi)
  <2> SUFFICES ASSUME NEW i \in 1 .. Len(t), t[i] # 0
               PROVE  lo < t[i] /\ t[i] <= hi
    BY DEF OldAndNew
  <2>1. i \in 1 .. Len(s)
    <3>1. i # Len(s) + 1
      BY <1>2
    <3> QED
      BY <1>1, <1>2, <3>1
  <2>2. t[i] = s[i]
    BY <1>2, <2>1
  <2> QED
    BY <2>1, <2>2 DEF HoldsBytes, OldAndNew
<1>4. InOrder(t)
  <2> SUFFICES ASSUME NEW i \in 1 .. Len(t), NEW j \in 1 .. Len(t), i < j, t[i] > 0, t[j] > 0
               PROVE  t[i] < t[j]
    BY DEF InOrder
  <2>1. i \in 1 .. Len(s) /\ j \in 1 .. Len(s)
    <3>1. j # Len(s) + 1
      BY <1>2
    <3>2. Len(t) = Len(s) + 1
      BY <1>2
    <3> QED
      BY <1>1, <3>1, <3>2
  <2>2. t[i] = s[i] /\ t[j] = s[j]
    BY <1>2, <2>1
  <2> QED
    BY <2>1, <2>2 DEF HoldsBytes, InOrder
<1>5. AllThere(t, lo, hi)
  <2> SUFFICES ASSUME NEW n \in Nat, lo < n, n <= hi
               PROVE  \E i \in 1 .. Len(t) : t[i] = n
    BY DEF AllThere
  <2>1. PICK i \in 1 .. Len(s) : s[i] = n
    BY DEF HoldsBytes, AllThere
  <2> QED
    BY <1>1, <1>2, <2>1
<1> QED
  BY <1>2, <1>3, <1>4, <1>5 DEF HoldsBytes, t

(* What is taken first is a key, or the oldest byte of the line.           *)
LEMMA HoldsRest ==
  ASSUME NEW s, NEW lo \in Nat, NEW hi \in Int, HoldsBytes(s, lo, hi), s # <<>>
  PROVE  HoldsBytes(Tail(s), lo + (IF Head(s) > 0 THEN 1 ELSE 0), hi)
<1> DEFINE t == Tail(s)
<1>1. s \in Seq(Nat) /\ Len(s) \in Nat /\ lo <= hi
  BY DEF HoldsBytes
<1>2. /\ t \in Seq(Nat) /\ Len(t) = Len(s) - 1 /\ Len(s) > 0
      /\ \A i \in 1 .. Len(t) : t[i] = s[i + 1]
      /\ Head(s) = s[1] /\ s[1] \in Nat
  BY <1>1
<1> HIDE DEF t
<1>3. \A i \in 1 .. Len(t) : i + 1 \in 1 .. Len(s) /\ s[i + 1] \in Nat /\ t[i] = s[i + 1]
  <2>1. \A i \in 1 .. Len(t) : i + 1 \in 1 .. Len(s)
    BY <1>1, <1>2
  <2> QED
    BY SMTT(40), <1>1, <1>2, <2>1
<1>4. InOrder(t)
  <2> SUFFICES ASSUME NEW i \in 1 .. Len(t), NEW j \in 1 .. Len(t), i < j, t[i] > 0, t[j] > 0
               PROVE  t[i] < t[j]
    BY DEF InOrder
  <2>1. /\ i + 1 \in 1 .. Len(s) /\ j + 1 \in 1 .. Len(s) /\ i + 1 < j + 1
        /\ t[i] = s[i + 1] /\ t[j] = s[j + 1]
    BY SMTT(40), <1>2, <1>3
  <2> QED
    BY Zenon, <2>1 DEF HoldsBytes, InOrder
<1>5. \A n \in Nat : lo < n /\ n <= hi /\ n # s[1] => \E i \in 1 .. Len(t) : t[i] = n
  <2> SUFFICES ASSUME NEW n \in Nat, lo < n, n <= hi, n # s[1]
               PROVE  \E i \in 1 .. Len(t) : t[i] = n
    OBVIOUS
  <2>1. PICK i \in 1 .. Len(s) : s[i] = n
    BY DEF HoldsBytes, AllThere
  <2> DEFINE k == i - 1
  <2>2. k \in 1 .. Len(t) /\ k + 1 = i
    BY <1>1, <1>2, <2>1
  <2> HIDE DEF k
  <2>3. t[k] = n
    BY <1>3, <2>1, <2>2
  <2> QED
    BY <2>2, <2>3
<1>6. CASE s[1] = 0
  <2>1. OldAndNew(t, lo, hi)
    BY <1>3 DEF HoldsBytes, OldAndNew
  <2>2. AllThere(t, lo, hi)
    BY <1>5, <1>6 DEF AllThere
  <2> QED
    BY <1>1, <1>2, <1>4, <1>6, <2>1, <2>2 DEF HoldsBytes, t
<1>7. CASE s[1] > 0
  <2>1. lo < s[1] /\ s[1] <= hi
    BY <1>1, <1>2, <1>7 DEF HoldsBytes, OldAndNew
  <2>2. s[1] = lo + 1
    <3>1. lo + 1 \in Nat /\ lo < lo + 1 /\ lo + 1 <= hi
      BY <1>2, <2>1
    <3>2. PICK i \in 1 .. Len(s) : s[i] = lo + 1
      BY Zenon, <3>1 DEF HoldsBytes, AllThere
    <3>3. CASE i = 1
      BY <3>2, <3>3
    <3>4. CASE 1 < i
      <4>1. 1 \in 1 .. Len(s) /\ s[i] > 0
        BY <1>1, <1>2, <3>2
      <4>2. s[1] < s[i]
        BY <1>7, <3>4, <4>1 DEF HoldsBytes, InOrder
      <4> QED
        BY <1>2, <2>1, <3>2, <4>2
    <3> QED
      BY <3>3, <3>4
  <2>3. OldAndNew(t, lo + 1, hi)
    <3> SUFFICES ASSUME NEW i \in 1 .. Len(t), t[i] # 0
                 PROVE  lo + 1 < t[i] /\ t[i] <= hi
      BY DEF OldAndNew
    <3>1. i + 1 \in 1 .. Len(s) /\ t[i] = s[i + 1] /\ s[i + 1] \in Nat /\ s[i + 1] > 0
      BY <1>3
    <3>2. 1 \in 1 .. Len(s) /\ 1 < i + 1
      BY <1>1, <1>2
    <3>3. s[1] < s[i + 1]
      BY <1>7, <3>1, <3>2 DEF HoldsBytes, InOrder
    <3>4. s[i + 1] <= hi
      BY <3>1 DEF HoldsBytes, OldAndNew
    <3> QED
      BY <2>2, <3>1, <3>3, <3>4
  <2>4. AllThere(t, lo + 1, hi)
    BY <1>5, <2>2 DEF AllThere
  <2> QED
    BY <1>2, <1>4, <1>7, <2>1, <2>2, <2>3, <2>4 DEF HoldsBytes, t
<1> QED
  BY <1>2, <1>6, <1>7

(* serial_interrupt(): the byte in the port goes to the input buffer.      *)
LEMMA ReceiveInput ==
  ASSUME InputInv, rbr # <<>>, input' = input \o rbr, rbr' = <<>>, UNCHANGED <<arrived, heard>>
  PROVE  InputInv'
<1> DEFINE hi == arrived - 1
<1>1. /\ rbr = <<hi + 1>> /\ Last = hi /\ Last' = hi + 1 /\ arrived \in Nat /\ hi \in Int
      /\ heard \in Nat /\ HoldsBytes(input, heard, hi)
  BY DEF Last, InputInv
<1> HIDE DEF hi
<1>2. hi \in Nat /\ input \in Seq(Nat)
  BY <1>1 DEF HoldsBytes
<1>3. input' = Append(input, hi + 1)
  BY <1>1, <1>2, InputAppended
<1>4. HoldsBytes(Append(input, hi + 1), heard, hi + 1)
  BY Zenon, <1>1, <1>2, HoldsByte
<1> QED
  BY Zenon, <1>1, <1>3, <1>4 DEF InputInv

(* keyboard_interrupt(): a key in the buffer leaves the line's bytes.      *)
LEMMA KeyInput ==
  ASSUME InputInv, input' = Append(input, 0), UNCHANGED <<rbr, arrived, heard>>
  PROVE  InputInv'
<1>1. Last' = Last /\ Last \in Int /\ heard \in Nat /\ HoldsBytes(input, heard, Last)
  BY DEF Last, InputInv
<1>2. HoldsBytes(Append(input, 0), heard, Last)
  BY <1>1, HoldsKey
<1> QED
  BY <1>1, <1>2 DEF InputInv

(* The line delivers a byte to the port.                                   *)
LEMMA ArriveInput ==
  ASSUME InputInv, receive_byte
  PROVE  InputInv'
<1>1. Last' = Last
  BY DEF InputInv, Last, receive_byte
<1> QED
  BY <1>1 DEF InputInv, receive_byte

(* input_getc(): what is read is a key, or the oldest byte of the line.    *)
LEMMA GetcInput ==
  ASSUME InputInv, input_getc
  PROVE  InputInv'
<1>1. /\ input # <<>> /\ input' = Tail(input) /\ UNCHANGED <<rbr, arrived>>
      /\ heard' = heard + (IF Head(input) > 0 THEN 1 ELSE 0)
  BY DEF input_getc
<1>2. Last' = Last /\ Last \in Int /\ heard \in Nat /\ HoldsBytes(input, heard, Last)
  BY <1>1 DEF Last, InputInv
<1>3. HoldsBytes(Tail(input), heard + (IF Head(input) > 0 THEN 1 ELSE 0), Last)
  BY <1>1, <1>2, HoldsRest
<1>4. heard' \in Nat
  BY <1>1, <1>2
<1> QED
  BY <1>1, <1>2, <1>3, <1>4 DEF InputInv

(* Every step keeps the input in order.                                    *)
LEMMA InputStep ==
  ASSUME InputInv, SerialNext
  PROVE  InputInv'
<1>1. CASE UNCHANGED <<input, rbr, arrived, heard>>
  BY <1>1 DEF InputInv, Last
<1>2. CASE serial_interrupt /\ ~UNCHANGED <<input, rbr>>
  <2>1. rbr # <<>> /\ input' = input \o rbr /\ rbr' = <<>> /\ UNCHANGED <<arrived, heard>>
    BY <1>2 DEF serial_interrupt
  <2> QED
    BY <2>1, ReceiveInput
<1>3. CASE keyboard_interrupt /\ ~UNCHANGED input
  <2>1. input' = Append(input, 0) /\ UNCHANGED <<rbr, arrived, heard>>
    BY <1>3 DEF keyboard_interrupt
  <2> QED
    BY <2>1, KeyInput
<1>4. serial_interrupt => UNCHANGED <<arrived, heard>>
  BY DEF serial_interrupt
<1>5. keyboard_interrupt => UNCHANGED <<rbr, arrived, heard>>
  BY DEF keyboard_interrupt
<1>6. ASSUME NEW p \in Printer, Console(p)
      PROVE  UNCHANGED <<input, rbr, arrived, heard>>
  BY ZenonT(40), <1>6 DEF Console, acquire_console, putchar_have_lock, release_console, page_fault,
              serial_putc, inVars
<1>7. serial_init_queue \/ transmit \/ putchar_intr_off \/ serial_flush \/ handler_prints
        \/ debug_panic => UNCHANGED <<input, rbr, arrived, heard>>
  BY DEF serial_init_queue, transmit, putchar_intr_off, serial_flush, handler_prints,
         debug_panic, serial_putc, inVars
<1> QED
  BY <1>1, <1>2, <1>3, <1>4, <1>5, <1>6, <1>7, ArriveInput, GetcInput DEF SerialNext, Sending

-----------------------------------------------------------------------------
(* The lines *)

(* One more byte printed: the positions of the others stay.                *)
LEMMA OutAppended ==
  ASSUME NEW o \in Seq(Char), NEW b \in Char
  PROVE  /\ Len(o) \in Nat /\ Len(Append(o, b)) = Len(o) + 1
         /\ \A i \in 1 .. Len(o) : Append(o, b)[i] = o[i]
         /\ Append(o, b)[Len(o) + 1] = b
BY SMTT(40)

(* A byte printed without the lock leaves the last one printed under it.   *)
LEMMA LastUnlocked ==
  ASSUME NEW o \in Seq(Char), NEW b \in Char, b[1] \notin Printer,
         NEW i, LastLocked(Append(o, b), i)
  PROVE  LastLocked(o, i) /\ Append(o, b)[i] = o[i]
<1> DEFINE t == Append(o, b)
<1>1. /\ Len(o) \in Nat /\ Len(t) = Len(o) + 1
      /\ \A k \in 1 .. Len(o) : t[k] = o[k]
      /\ t[Len(o) + 1] = b
  BY OutAppended
<1> HIDE DEF t
<1>2. /\ i \in 1 .. Len(t) /\ t[i][1] \in Printer
      /\ \A k \in i + 1 .. Len(t) : t[k][1] \notin Printer
  BY DEF LastLocked, t
<1>3. i # Len(o) + 1
  BY <1>1, <1>2
<1>4. Len(t) = Len(o) + 1 /\ Len(o) \in Nat
  BY <1>1
<1>5. i \in 1 .. Len(o)
  BY <1>2, <1>3, <1>4
<1>6. \A k \in i + 1 .. Len(o) : o[k][1] \notin Printer
  <2> SUFFICES ASSUME NEW k \in i + 1 .. Len(o)
               PROVE  o[k][1] \notin Printer
    OBVIOUS
  <2>1. k \in i + 1 .. Len(t) /\ k \in 1 .. Len(o)
    BY <1>4, <1>5
  <2> QED
    BY <1>1, <1>2, <2>1
<1> QED
  BY Zenon, <1>1, <1>2, <1>5, <1>6 DEF LastLocked, t

(* A byte printed under the lock is the last one printed under it.         *)
LEMMA LastIsNew ==
  ASSUME NEW o \in Seq(Char), NEW b \in Char, b[1] \in Printer,
         NEW i, LastLocked(Append(o, b), i)
  PROVE  Append(o, b)[i] = b
<1> DEFINE t == Append(o, b)
<1>1. Len(o) \in Nat /\ Len(t) = Len(o) + 1 /\ t[Len(o) + 1] = b
  BY OutAppended
<1> HIDE DEF t
<1>2. /\ i \in 1 .. Len(t) /\ \A k \in i + 1 .. Len(t) : t[k][1] \notin Printer
  BY DEF LastLocked, t
<1>3. CASE i = Len(o) + 1
  BY <1>1, <1>3 DEF t
<1>4. CASE i # Len(o) + 1
  <2>1. Len(o) + 1 \in i + 1 .. Len(t)
    BY <1>1, <1>2, <1>4
  <2> QED
    BY <1>1, <1>2, <2>1
<1> QED
  BY Zenon, <1>3, <1>4

(* The bytes printed under the lock follow each other if the new one       *)
(* follows the last one.                                                   *)
LEMMA WholeAppended ==
  ASSUME NEW o \in Seq(Char), NEW b \in Char, Whole(o),
         b[1] \in Printer => \A i : LastLocked(o, i) => Continues(o[i], b)
  PROVE  Whole(Append(o, b))
<1> DEFINE t == Append(o, b)
<1>1. /\ Len(o) \in Nat /\ Len(t) = Len(o) + 1
      /\ \A k \in 1 .. Len(o) : t[k] = o[k]
      /\ t[Len(o) + 1] = b
  BY OutAppended
<1>2. Len(t) = Len(o) + 1 /\ Len(o) \in Nat
  BY Zenon, <1>1
<1> HIDE DEF t
<1> SUFFICES ASSUME NEW i \in 1 .. Len(t), NEW j \in 1 .. Len(t), i < j,
                    t[i][1] \in Printer, t[j][1] \in Printer,
                    \A k \in 1 .. Len(t) : t[k][1] \in Printer => k <= i \/ k >= j
             PROVE  Continues(t[i], t[j])
  BY Zenon DEF Whole, t
<1>3. i \in 1 .. Len(o) /\ t[i] = o[i]
  <2>1. i \in 1 .. Len(o)
    BY <1>2
  <2> QED
    BY <1>1, <2>1
<1>4. \A k \in 1 .. Len(o) : k \in 1 .. Len(t) /\ t[k] = o[k]
  <2>1. \A k \in 1 .. Len(o) : k \in 1 .. Len(t)
    BY <1>2
  <2> QED
    BY <1>1, <2>1
<1>5. CASE j = Len(o) + 1
  <2>1. \A k \in i + 1 .. Len(o) : o[k][1] \notin Printer
    <3> SUFFICES ASSUME NEW k \in i + 1 .. Len(o)
                 PROVE  o[k][1] \notin Printer
      OBVIOUS
    <3>1. k \in 1 .. Len(o) /\ ~(k <= i) /\ ~(k >= j)
      BY SMTT(40), <1>2, <1>3, <1>5
    <3> QED
      BY <1>4, <3>1
  <2>2. LastLocked(o, i)
    BY <1>3, <2>1 DEF LastLocked
  <2> QED
    BY <1>1, <1>3, <1>5, <2>2
<1>6. CASE j \in 1 .. Len(o)
  <2>1. t[j] = o[j]
    BY Zenon, <1>1, <1>6
  <2> QED
    BY Zenon, <1>3, <1>4, <1>6, <2>1 DEF Whole
<1>7. j = Len(o) + 1 \/ j \in 1 .. Len(o)
  BY <1>2
<1> QED
  BY <1>5, <1>6, <1>7

(* A whole line is the end of one, and begins with its first byte.         *)
LEMMA LineIsWhole ==
  ASSUME NEW p \in Printer, NEW n \in Nat
  PROVE  Len(Line(p, n)) <= LineLength /\ EndOfLine(Line(p, n), p, n)
<1> DEFINE s == Line(p, n)
<1>1. Len(s) = LineLength /\ \A i \in 1 .. LineLength : s[i] = <<p, n, i>>
  BY LineBytes
<1> HIDE DEF s
<1>2. Len(s) <= LineLength
  BY <1>1, SerialAssumption
<1>3. \A i \in 1 .. Len(s) : (LineLength - Len(s)) + i = i
  BY <1>1, SerialAssumption
<1>4. EndOfLine(s, p, n)
  BY <1>1, <1>3 DEF EndOfLine
<1> QED
  BY <1>2, <1>4 DEF s

(* What is left after a byte of a line is the end of the line, and unless  *)
(* the line is finished its next byte.                                     *)
LEMMA RestOfLine ==
  ASSUME NEW p \in Printer, NEW s \in Seq(Char), s # <<>>, Len(s) <= LineLength,
         NEW n \in Nat, EndOfLine(s, p, n)
  PROVE  /\ Head(s) \in Char /\ Head(s)[1] = p
         /\ Len(Tail(s)) <= LineLength /\ EndOfLine(Tail(s), p, n)
         /\ Head(s)[3] < LineLength => Tail(s) # <<>> /\ Continues(Head(s), Head(Tail(s)))
<1> DEFINE t == Tail(s)
<1>1. /\ t \in Seq(Char) /\ Len(s) \in Nat /\ Len(s) > 0 /\ Len(t) = Len(s) - 1
      /\ Head(s) = s[1] /\ Head(s) \in Char
      /\ \A i \in 1 .. Len(t) : t[i] = s[i + 1]
  OBVIOUS
<1> HIDE DEF t
<1>2. Len(t) = Len(s) - 1 /\ Len(s) \in Nat /\ Len(s) > 0 /\ LineLength \in Nat
  BY <1>1, SerialAssumption
<1>3. Head(s) = <<p, n, (LineLength - Len(s)) + 1>>
  <2>1. 1 \in 1 .. Len(s)
    BY <1>2
  <2> QED
    BY <1>1, <2>1 DEF EndOfLine
<1>4. \A i \in 1 .. Len(t) : t[i] = <<p, n, (LineLength - Len(t)) + i>>
  <2> SUFFICES ASSUME NEW i \in 1 .. Len(t)
               PROVE  t[i] = <<p, n, (LineLength - Len(t)) + i>>
    OBVIOUS
  <2>1. i + 1 \in 1 .. Len(s) /\ (LineLength - Len(s)) + (i + 1) = (LineLength - Len(t)) + i
    BY <1>2
  <2>2. t[i] = <<p, n, (LineLength - Len(s)) + (i + 1)>>
    BY <1>1, <2>1 DEF EndOfLine
  <2> QED
    BY <2>1, <2>2
<1>5. Len(t) <= LineLength
  BY <1>2
<1>6. ASSUME Head(s)[3] < LineLength
      PROVE  t # <<>> /\ Continues(Head(s), Head(t))
  <2>1. (LineLength - Len(s)) + 1 < LineLength
    BY <1>3, <1>6
  <2>2. Len(t) > 0 /\ 1 \in 1 .. Len(t) /\ (LineLength - Len(t)) + 1 = ((LineLength - Len(s)) + 1) + 1
    BY <1>2, <2>1
  <2>3. t # <<>> /\ Head(t) = t[1]
    BY <1>1, <2>2
  <2>4. Head(t) = <<p, n, ((LineLength - Len(s)) + 1) + 1>>
    BY ZenonT(40), <1>4, <2>2, <2>3
  <2> QED
    BY <1>3, <2>3, <2>4 DEF Continues
<1> QED
  BY <1>1, <1>3, <1>4, <1>5, <1>6 DEF EndOfLine, t

(* acquire_console(): nobody's line is unfinished when a new one begins.   *)
LEMMA AcquireLine ==
  ASSUME LineType, LineInv, NEW p \in Printer, acquire_console(p)
  PROVE  LineInv'
<1>1. /\ console_lock = Nobody /\ console_lock' = p /\ left[p] = <<>>
      /\ left' = [left EXCEPT ![p] = Line(p, lines)]
      /\ UNCHANGED <<console_lock_depth, faulted, off, out>>
  BY DEF acquire_console
<1>2. Nobody \notin Printer
  BY SerialAssumption DEF Nobody
<1>3. LockInv'
  BY ZenonT(40), <1>1, <1>2 DEF LineInv, LockInv, LineType
<1>4. LeftInv'
  <2>1. ASSUME NEW q \in Printer
        PROVE  Len(left'[q]) <= LineLength /\ \E n \in Nat : EndOfLine(left'[q], q, n)
    <3>1. CASE q = p
      BY Zenon, <1>1, <3>1, LineIsWhole DEF LineType
    <3>2. CASE q # p
      BY ZenonT(40), <1>1, <3>2 DEF LineType, LineInv, LeftInv
    <3> QED
      BY <3>1, <3>2
  <2> QED
    BY <1>1, <2>1 DEF LineInv, LeftInv
<1>5. ASSUME NEW i, LastLocked(out, i)
      PROVE  ~(out[i][3] < LineLength)
  BY <1>1, <1>2, <1>5 DEF LineInv, Unfinished, LastLocked
<1> QED
  BY <1>1, <1>3, <1>4, <1>5 DEF LineInv, Unfinished

(* putchar_have_lock(): the byte continues its line, and the rest of the   *)
(* line is still to come.                                                  *)
LEMMA PutcharLine ==
  ASSUME PortInv, LineType, LineInv, NEW p \in Printer, putchar_have_lock(p),
         out' = Append(out, Head(left[p]))
  PROVE  LineInv'
<1> DEFINE b == Head(left[p])
           t == Tail(left[p])
<1>1. /\ left[p] # <<>> /\ left' = [left EXCEPT ![p] = t] /\ left[p] \in Seq(Char)
      /\ UNCHANGED <<console_lock, console_lock_depth, faulted, off>> /\ out' = Append(out, b)
  BY DEF putchar_have_lock, lockVars, LineType
<1>2. PICK n \in Nat : EndOfLine(left[p], p, n)
  BY DEF LineInv, LeftInv
<1>3. /\ b \in Char /\ b[1] = p /\ Len(t) <= LineLength /\ EndOfLine(t, p, n)
      /\ b[3] < LineLength => t # <<>> /\ Continues(b, Head(t))
  <2> DEFINE s == left[p]
  <2>1. s \in Seq(Char) /\ s # <<>> /\ Len(s) <= LineLength /\ EndOfLine(s, p, n)
    BY Zenon, <1>1, <1>2 DEF LineInv, LeftInv
  <2> HIDE DEF s
  <2>2. /\ Head(s) \in Char /\ Head(s)[1] = p
        /\ Len(Tail(s)) <= LineLength /\ EndOfLine(Tail(s), p, n)
        /\ Head(s)[3] < LineLength => Tail(s) # <<>> /\ Continues(Head(s), Head(Tail(s)))
    BY <2>1, RestOfLine
  <2> QED
    BY Zenon, <2>2 DEF s
<1>4. console_lock = p /\ out \in Seq(Char)
  BY <1>1 DEF LineInv, LockInv, PortInv
<1>5. left'[p] = t /\ \A q \in Printer : q # p => left'[q] = left[q]
  BY Zenon, <1>1 DEF LineType
<1>6. \A i : LastLocked(out, i) => Continues(out[i], b)
  BY ZenonT(40), <1>4 DEF LineInv, Unfinished, LastLocked, Continues
<1> HIDE DEF b, t
<1>7. Whole(out')
  BY Zenon, <1>1, <1>3, <1>4, <1>6, WholeAppended DEF LineInv
<1>8. ASSUME NEW i, LastLocked(out', i)
      PROVE  Unfinished(out[i])'
  <2>1. out'[i] = b
    BY ZenonT(40), <1>1, <1>3, <1>4, <1>8, LastIsNew
  <2> QED
    BY ZenonT(40), <1>1, <1>3, <1>4, <1>5, <2>1 DEF Unfinished, Continues
<1>9. LockInv'
  BY Zenon, <1>1, <1>4, <1>5 DEF LineInv, LockInv
<1>10. LeftInv'
  BY Zenon, <1>1, <1>3, <1>5 DEF LineInv, LeftInv
<1> QED
  BY Zenon, <1>7, <1>8, <1>9, <1>10 DEF LineInv

(* release_console(): the lock is given up with the line printed, and not  *)
(* while the lock is held one level deeper.                                *)
LEMMA ReleaseLine ==
  ASSUME LineType, LineInv, NEW p \in Printer, release_console(p)
  PROVE  LineInv'
<1>1. /\ console_lock = p /\ left[p] = <<>> /\ (faulted = p => console_lock_depth > 0)
      /\ release_lock /\ UNCHANGED <<left, faulted, off, out>>
  BY Zenon DEF release_console, lineVars
<1>2. Nobody \notin Printer
  BY SerialAssumption DEF Nobody
<1>3. LockInv'
  BY SMTT(40), <1>1, <1>2 DEF LineInv, LockInv, release_lock
<1>4. LeftInv'
  BY ZenonT(40), <1>1 DEF LineInv, LeftInv
<1>5. ASSUME NEW i, LastLocked(out, i)
      PROVE  ~(out[i][3] < LineLength)
  BY <1>1, <1>5 DEF LineInv, Unfinished
<1> QED
  BY Zenon, <1>1, <1>3, <1>4, <1>5 DEF LineInv, Unfinished

(* page_fault(): the line of the fault follows what the thread was         *)
(* printing, under the same lock.                                          *)
LEMMA FaultLine ==
  ASSUME LineType, LineInv, NEW p \in Printer, page_fault(p)
  PROVE  LineInv'
<1>1. /\ console_lock = p /\ left[p] # <<>> /\ faulted = Nobody /\ faulted' = p
      /\ console_lock_depth' = console_lock_depth + 1
      /\ left' = [left EXCEPT ![p] = Line(p, MaxLines)]
      /\ UNCHANGED <<console_lock, off, out>>
  BY DEF page_fault
<1>2. Nobody \notin Printer /\ MaxLines \in Nat /\ LineLength \in Nat
  BY SerialAssumption DEF Nobody
<1>3. LineLength > 0
  <2>1. left[p] \in Seq(Char) /\ Len(left[p]) <= LineLength
    BY Zenon DEF LineType, LineInv, LeftInv
  <2>2. Len(left[p]) > 0 /\ Len(left[p]) \in Nat
    BY <1>1, <2>1
  <2> QED
    BY SMTT(40), <1>2, <2>1, <2>2
<1>4. left'[p] = Line(p, MaxLines) /\ \A q \in Printer : q # p => left'[q] = left[q]
  BY Zenon, <1>1 DEF LineType
<1>5. LockInv'
  BY SMTT(40), <1>1, <1>2, <1>4 DEF LineInv, LockInv
<1>6. LeftInv'
  BY Zenon, <1>1, <1>2, <1>4, LineIsWhole DEF LineInv, LeftInv
<1>7. left'[p] # <<>> /\ Head(left'[p]) = <<p, MaxLines, 1>>
  <2> DEFINE s == Line(p, MaxLines)
  <2>1. /\ s \in Seq(Char) /\ Len(s) = LineLength
        /\ \A i \in 1 .. LineLength : s[i] = <<p, MaxLines, i>>
    BY <1>2, LineBytes
  <2> HIDE DEF s
  <2>2. Len(s) > 0 /\ 1 \in 1 .. LineLength
    BY <1>2, <1>3, <2>1
  <2>3. s # <<>> /\ Head(s) = s[1]
    BY SMTT(40), <2>1, <2>2
  <2> QED
    BY <1>4, <2>1, <2>2, <2>3 DEF s
<1>8. ASSUME NEW i, LastLocked(out, i)
      PROVE  Unfinished(out[i])'
  <2>1. out[i][3] < LineLength => out[i][1] = p
    BY <1>1, <1>8 DEF LineInv, Unfinished
  <2> QED
    BY Zenon, <1>1, <1>7, <2>1 DEF Unfinished, Continues
<1> QED
  BY <1>1, <1>5, <1>6, <1>8 DEF LineInv

(* putchar() with interrupts off: what a handler or a panic prints is not  *)
(* part of a thread's line.                                                *)
LEMMA IntrOffLine ==
  ASSUME PortInv, LineType, LineInv, putchar_intr_off, out' = Append(out, Head(off))
  PROVE  LineInv'
<1> DEFINE b == Head(off)
<1>1. /\ off # <<>> /\ off' = Tail(off) /\ off \in Seq(Char) /\ out' = Append(out, b)
      /\ UNCHANGED <<console_lock, console_lock_depth, faulted, left>>
  BY DEF putchar_intr_off, lockVars, LineType
<1>2. /\ b = off[1] /\ b \in Char /\ Len(off) \in Nat /\ Len(off) > 0
      /\ Len(off') = Len(off) - 1 /\ \A i \in 1 .. Len(off') : off'[i] = off[i + 1]
  BY <1>1
<1> HIDE DEF b
<1>3. \A i \in 1 .. Len(off) : off[i][1] \notin Printer
  BY DEF LineInv, LeftInv
<1>4. b[1] \notin Printer /\ out \in Seq(Char)
  BY <1>2, <1>3 DEF PortInv
<1>5. \A i \in 1 .. Len(off') : off'[i][1] \notin Printer
  <2> SUFFICES ASSUME NEW i \in 1 .. Len(off')
               PROVE  off'[i][1] \notin Printer
    OBVIOUS
  <2>1. Len(off') = Len(off) - 1 /\ Len(off) \in Nat
    BY <1>2
  <2>2. i + 1 \in 1 .. Len(off)
    BY <2>1
  <2> QED
    BY <1>2, <1>3, <2>2
<1>6. LockInv'
  BY Zenon, <1>1 DEF LineInv, LockInv
<1>7. LeftInv'
  BY Zenon, <1>1, <1>5 DEF LineInv, LeftInv
<1>8. Whole(out')
  BY <1>1, <1>2, <1>4, WholeAppended DEF LineInv
<1>9. ASSUME NEW i, LastLocked(out', i)
      PROVE  Unfinished(out[i])'
  <2>1. LastLocked(out, i) /\ out'[i] = out[i]
    <3>1. LastLocked(Append(out, b), i) /\ b \in Char
      BY <1>1, <1>2, <1>9
    <3>2. LastLocked(out, i) /\ Append(out, b)[i] = out[i]
      BY Zenon, <1>4, <3>1, LastUnlocked
    <3> QED
      BY Zenon, <1>1, <3>2
  <2>2. Unfinished(out[i])
    BY <2>1 DEF LineInv
  <2> QED
    BY Zenon, <1>1, <2>1, <2>2 DEF Unfinished
<1> QED
  BY Zenon, <1>6, <1>7, <1>8, <1>9 DEF LineInv

(* A handler or a panic begins to print.                                   *)
LEMMA OffLine ==
  ASSUME LineInv, NEW who \in {"handler", "panic"}, off' = Line(who, 0),
         UNCHANGED <<console_lock, console_lock_depth, faulted, left, out>>
  PROVE  LineInv'
<1>1. who \notin Printer
  BY Zenon, SerialAssumption
<1>2. Len(off') = LineLength /\ \A i \in 1 .. LineLength : off'[i] = <<who, 0, i>>
  BY Zenon, LineBytes
<1>3. \A i \in 1 .. Len(off') : off'[i][1] \notin Printer
  <2> SUFFICES ASSUME NEW i \in 1 .. Len(off')
               PROVE  off'[i][1] \notin Printer
    OBVIOUS
  <2>1. off'[i] = <<who, 0, i>>
    BY Zenon, <1>2
  <2>2. <<who, 0, i>>[1] = who
    OBVIOUS
  <2> QED
    BY Zenon, <1>1, <2>1, <2>2
<1> QED
  BY <1>3 DEF LineInv, LockInv, LeftInv, Unfinished

(* Every step keeps the lines whole.                                       *)
LEMMA LineStep ==
  ASSUME PortInv, LineType, LineInv, SerialNext
  PROVE  LineInv'
<1>1. ASSUME NEW p \in Printer, putchar_have_lock(p)
      PROVE  LineInv'
  <2>1. out' = Append(out, Head(left[p]))
    BY <1>1 DEF putchar_have_lock, serial_putc
  <2> QED
    BY <1>1, <2>1, PutcharLine
<1>2. CASE putchar_intr_off
  <2>1. out' = Append(out, Head(off))
    BY <1>2 DEF putchar_intr_off, serial_putc
  <2> QED
    BY <1>2, <2>1, IntrOffLine
<1>3. CASE handler_prints
  BY <1>3, OffLine DEF handler_prints, lockVars
<1>4. CASE debug_panic
  BY <1>4, OffLine DEF debug_panic
<1>5. CASE serial_init_queue \/ serial_interrupt \/ transmit \/ serial_flush \/ receive_byte
           \/ keyboard_interrupt \/ input_getc
  <2>1. UNCHANGED <<lockVars, lineVars, out>>
    BY <1>5 DEF serial_init_queue, serial_interrupt, transmit, serial_flush, receive_byte,
                keyboard_interrupt, input_getc
  <2> QED
    BY ZenonT(40), <2>1 DEF lockVars, lineVars, LineInv, LockInv, LeftInv, Unfinished
<1> QED
  BY <1>1, <1>2, <1>3, <1>4, <1>5, AcquireLine, ReleaseLine, FaultLine
  DEF SerialNext, Console, Sending

-----------------------------------------------------------------------------
(* The invariant *)

(* The console starts with nothing printed, sent or received.              *)
LEMMA SerialStart ==
  ASSUME SerialInit
  PROVE  SerialInv
<1> USE DEF SerialInit
<1>1. PortInv
  <2>1. <<>> \o <<>> = <<>> /\ <<>> \in Seq(Char)
    BY NothingAdded
  <2> QED
    BY <2>1 DEF PortInv
<1>2. InputInv
  BY DEF InputInv, Last, HoldsBytes, OldAndNew, InOrder, AllThere
<1>3. LineType
  BY DEF LineType
<1>4. LockInv
  BY DEF LockInv
<1>5. LeftInv
  BY SerialAssumption DEF LeftInv, EndOfLine
<1>6. Whole(out) /\ \A i : LastLocked(out, i) => Unfinished(out[i])
  BY DEF Whole, LastLocked
<1> QED
  BY <1>1, <1>2, <1>3, <1>4, <1>5, <1>6 DEF SerialInv, LineInv

(* serial.c, input.c and console.c together keep the port, the input and   *)
(* the lines in order.                                                     *)
THEOREM SerialInvariant == SerialSpec => []SerialInv
<1>1. SerialInit => SerialInv
  BY SerialStart
<1>2. SerialInv /\ [SerialNext]_serialVars => SerialInv'
  <2> SUFFICES ASSUME SerialInv, [SerialNext]_serialVars
               PROVE  SerialInv'
    OBVIOUS
  <2>1. CASE SerialNext
    BY <2>1, PortStep, InputStep, LineTypeStep, LineStep DEF SerialInv
  <2>2. CASE UNCHANGED serialVars
    <3>1. /\ UNCHANGED <<mode, txq, ier, thr, rbr, input, arrived, heard, out, wire>>
          /\ UNCHANGED <<console_lock, console_lock_depth, use_console_lock>>
          /\ UNCHANGED <<left, lines, off, faulted>>
      BY <2>2 DEF serialVars, portVars, lockVars, lineVars, inVars
    <3>2. PortInv'
      BY <3>1 DEF SerialInv, PortInv, write_ier
    <3>3. InputInv' /\ LineType'
      BY Zenon, <3>1 DEF SerialInv, InputInv, Last, LineType
    <3>4. LineInv'
      BY ZenonT(40), <3>1 DEF SerialInv, LineInv, LockInv, LeftInv, Unfinished
    <3> QED
      BY <3>2, <3>3, <3>4 DEF SerialInv
  <2> QED
    BY <2>1, <2>2
<1> QED
  BY <1>1, <1>2, PTL DEF SerialSpec

(* What the buffer and the port hold of the line, taken together.          *)
LEMMA ReceivedInOrder ==
  ASSUME InputInv
  PROVE  LET received == input \o rbr
             byte == {i \in 1 .. Len(received) : received[i] > 0}
         IN /\ \A i, j \in byte : i < j => received[i] < received[j]
            /\ {received[i] : i \in byte} = heard + 1 .. arrived
<1>1. PICK s \in Seq(Nat) : s = input \o rbr /\ HoldsBytes(s, heard, arrived)
  <2>1. CASE rbr = <<>>
    <3>1. input \in Seq(Nat) /\ HoldsBytes(input, heard, arrived)
      BY <2>1 DEF InputInv, Last, HoldsBytes
    <3>2. input \o rbr = input
      BY <2>1, <3>1, NothingAdded
    <3> QED
      BY <3>1, <3>2
  <2>2. CASE rbr # <<>>
    <3> DEFINE hi == arrived - 1
    <3>1. /\ rbr = <<hi + 1>> /\ arrived = hi + 1 /\ hi \in Int /\ heard \in Nat
          /\ HoldsBytes(input, heard, hi)
      BY <2>2 DEF InputInv, Last
    <3> HIDE DEF hi
    <3>2. hi \in Nat /\ input \in Seq(Nat)
      BY <3>1 DEF HoldsBytes
    <3>3. HoldsBytes(Append(input, hi + 1), heard, hi + 1)
      BY Zenon, <3>1, <3>2, HoldsByte
    <3>4. input \o rbr = Append(input, hi + 1) /\ Append(input, hi + 1) \in Seq(Nat)
      BY <3>1, <3>2, InputAppended
    <3> QED
      BY Zenon, <3>1, <3>3, <3>4
  <2> QED
    BY <2>1, <2>2
<1>2. arrived \in Nat /\ heard \in Nat
  BY DEF InputInv
<1>3. \A i \in 1 .. Len(s) : s[i] \in Nat
  BY <1>1
<1> DEFINE byte == {i \in 1 .. Len(s) : s[i] > 0}
<1>4. \A i, j \in byte : i < j => s[i] < s[j]
  BY <1>1 DEF HoldsBytes, InOrder
<1>5. {s[i] : i \in byte} = heard + 1 .. arrived
  <2>1. ASSUME NEW i \in byte
        PROVE  s[i] \in heard + 1 .. arrived
    <3>1. s[i] \in Nat /\ s[i] > 0
      BY <1>3
    <3>2. heard < s[i] /\ s[i] <= arrived
      BY <1>1, <3>1 DEF HoldsBytes, OldAndNew
    <3> QED
      BY <1>2, <3>1, <3>2
  <2>2. ASSUME NEW n \in heard + 1 .. arrived
        PROVE  \E i \in byte : s[i] = n
    <3>1. n \in Nat /\ heard < n /\ n <= arrived /\ n > 0
      BY <1>2
    <3>2. PICK i \in 1 .. Len(s) : s[i] = n
      BY <1>1, <3>1 DEF HoldsBytes, AllThere
    <3> QED
      BY <3>1, <3>2
  <2> QED
    BY <2>1, <2>2
<1> QED
  BY Zenon, <1>1, <1>4, <1>5

(* serial_putc(), serial_interrupt(), input_getc(): bytes leave and enter  *)
(* the port once and in order, and its interrupts follow the queues.       *)
THEOREM SerialBytesInOrder == SerialSpec => []BytesInOrder
<1>1. SerialInv => BytesInOrder
  <2> SUFFICES ASSUME SerialInv
               PROVE  BytesInOrder
    OBVIOUS
  <2>1. wire \o thr \o txq = out
    BY DEF SerialInv, PortInv
  <2>2. mode = "QUEUE" /\ IntrOn => /\ "XMIT" \in ier <=> txq # <<>>
                                    /\ "RECV" \in ier <=> Len(input) < InSize
    BY SMTT(40) DEF SerialInv, PortInv, IntrOn, write_ier
  <2> QED
    BY <2>1, <2>2, ReceivedInOrder DEF SerialInv, BytesInOrder
<1> QED
  BY <1>1, SerialInvariant, PTL

(* console.c: what threads print under the lock comes out line by line,    *)
(* page faults included, and the lock's depth is its holder's.             *)
THEOREM ConsoleLinesWhole == SerialSpec => []LinesWhole
<1>1. SerialInv => LinesWhole
  BY DEF SerialInv, LineInv, LockInv, Whole, LinesWhole
<1> QED
  BY <1>1, SerialInvariant, PTL
=============================================================================
