------------------------------- MODULE Malloc -------------------------------
(***************************************************************************)
(* The block allocator of threads/malloc.c on top of the page allocator.   *)
(* A descriptor is named by its block size; a block is its address, page   *)
(* number times PGSIZE plus offset.  What happens under a descriptor's     *)
(* lock is one step, except for the calls of the page allocator.           *)
(***************************************************************************)
EXTENDS Palloc, Sequences, Functions, FiniteSets

CONSTANTS
  PGSIZE,         \* bytes of a page
  ARENA_SIZE,     \* sizeof (struct arena)
  MIN_BLOCK,      \* the smallest descriptor's block size
  Size,           \* sizes that are asked for
  MaxLive         \* bound: blocks live or being allocated at a time

ASSUME MallocAssumption ==
  /\ PGSIZE \in Nat /\ ARENA_SIZE \in 1 .. PGSIZE - 1 /\ MIN_BLOCK \in 1 .. PGSIZE
  /\ Size \subseteq Nat
  /\ MaxLive \in Nat

VARIABLES
  arena,       \* struct arena at the start of a page, or NoArena
  free_list,   \* of each descriptor
  desc_lock,   \* holder of each descriptor's lock
  call,        \* arguments and locals of malloc(), realloc() and free()
  live         \* blocks the clients have, with the size they asked for

mallocVars == <<arena, free_list, desc_lock, call, live>>
memoryVars == <<pallocVars, mallocVars>>

NoArena == [desc |-> 0, free_cnt |-> 0]
NoCall == [size |-> 0, old |-> NULL, block |-> 0]

(* malloc_init(): block sizes double while they are below half a page.     *)
descs == {n \in MIN_BLOCK .. PGSIZE \div 2 - 1 : \E k \in 0 .. 10 : n = MIN_BLOCK * 2^k}
blocks_per_arena(d) == (PGSIZE - ARENA_SIZE) \div d

MallocInit ==
  /\ PallocInit
  /\ arena = [p \in Bit |-> NoArena]
  /\ free_list = [d \in descs |-> <<>>]
  /\ desc_lock = [d \in descs |-> NULL]
  /\ call = [c \in Client |-> NoCall]
  /\ live = {}

-----------------------------------------------------------------------------
pg_no(addr) == addr \div PGSIZE
pg_ofs(addr) == addr % PGSIZE
arena_to_block(p, d, idx) == p * PGSIZE + ARENA_SIZE + idx * d
ArenaBlocks(p, d) == [i \in 1 .. blocks_per_arena(d) |-> arena_to_block(p, d, i - 1)]

(* The smallest descriptor that is large enough.                           *)
find_desc(size) == CHOOSE d \in descs : d >= size /\ \A e \in descs : e >= size => d <= e
is_big(size) == \A d \in descs : d < size
(* Mutant: the arena header is not counted.                                *)
pages_without_header(size) == (size + PGSIZE - 1) \div PGSIZE
page_cnt(size) == (size + ARENA_SIZE + PGSIZE - 1) \div PGSIZE

(* block_size(): what a block can hold.                                    *)
block_size(addr) ==
  LET a == arena[pg_no(addr)]
  IN  IF a.desc # 0 THEN a.desc ELSE PGSIZE * a.free_cnt - pg_ofs(addr)

(* Live blocks that no call is about to free.                              *)
Available == live \ {call[c].old : c \in Client}
Allocating == {c \in Client : call[c].size # 0}

(* malloc(size), called by itself or by realloc() of the block `old`.      *)
start_malloc(c, size, old) ==
  /\ pc[c] = "out"
  /\ Cardinality(live) + Cardinality(Allocating) < MaxLive
  /\ call' = [call EXCEPT ![c] = [NoCall EXCEPT !.size = size, !.old = old]]
  /\ IF is_big(size)
     THEN get_multiple(c, page_cnt(size), "big_block")
     ELSE Goto(c, "desc_lock") /\ UNCHANGED <<used_map, pool_lock, scan, groups>>
  /\ UNCHANGED <<arena, free_list, desc_lock, live>>

malloc(c) == \E size \in Size \ {0} : start_malloc(c, size, NULL)
realloc(c) == \E size \in Size \ {0}, b \in Available : start_malloc(c, size, b)

(* Hand out a block of `addr`; realloc() goes on to free the old one.      *)
return_block(c, addr) ==
  /\ live' = live \cup {[addr |-> addr, size |-> call[c].size]}
  /\ call' = [call EXCEPT ![c].size = 0]
  /\ Goto(c, IF call[c].old = NULL THEN "out" ELSE "free")

(* A failed realloc() leaves the old block to its owner.                   *)
return_null(c) ==
  /\ call' = [call EXCEPT ![c] = NoCall]
  /\ Goto(c, "out")
  /\ UNCHANGED live

big_block(c) ==
  LET p == scan[c].idx
  IN  /\ pc[c] = "big_block"
      /\ \/ /\ p = -1
            /\ return_null(c)
            /\ UNCHANGED arena
         \/ /\ p # -1
            /\ arena' = [arena EXCEPT ![p] = [desc |-> 0, free_cnt |-> scan[c].cnt]]
            /\ return_block(c, p * PGSIZE + ARENA_SIZE)
      /\ UNCHANGED <<used_map, pool_lock, scan, groups, free_list, desc_lock>>

(* The lock is held while the page for a new arena is looked for.          *)
acquire_desc(c) ==
  LET d == find_desc(call[c].size)
  IN  /\ pc[c] = "desc_lock"
      /\ desc_lock[d] = NULL
      /\ desc_lock' = [desc_lock EXCEPT ![d] = c]
      /\ IF free_list[d] = <<>>
         THEN get_multiple(c, 1, "new_arena")
         ELSE Goto(c, "take_block") /\ UNCHANGED <<used_map, pool_lock, scan, groups>>
      /\ UNCHANGED <<arena, free_list, call, live>>

new_arena(c) ==
  LET d == find_desc(call[c].size)
      p == scan[c].idx
  IN  /\ pc[c] = "new_arena"
      /\ \/ /\ p = -1
            /\ desc_lock' = [desc_lock EXCEPT ![d] = NULL]
            /\ return_null(c)
            /\ UNCHANGED <<arena, free_list>>
         \/ /\ p # -1
            /\ arena' = [arena EXCEPT ![p] = [desc |-> d, free_cnt |-> blocks_per_arena(d)]]
            /\ free_list' = [free_list EXCEPT ![d] = @ \o ArenaBlocks(p, d)]
            /\ Goto(c, "take_block")
            /\ UNCHANGED <<desc_lock, call, live>>
      /\ UNCHANGED <<used_map, pool_lock, scan, groups>>

take_block(c) ==
  LET d == find_desc(call[c].size)
      b == Head(free_list[d])
  IN  /\ pc[c] = "take_block"
      /\ free_list' = [free_list EXCEPT ![d] = Tail(@)]
      /\ arena' = [arena EXCEPT ![pg_no(b)].free_cnt = @ - 1]
      /\ desc_lock' = [desc_lock EXCEPT ![d] = NULL]
      /\ return_block(c, b)
      /\ UNCHANGED <<used_map, pool_lock, scan, groups>>

(* free(p), called by itself ...                                           *)
free(c) ==
  \E b \in Available :
    /\ pc[c] = "out"
    /\ call' = [call EXCEPT ![c].old = b]
    /\ Goto(c, "free")
    /\ UNCHANGED <<used_map, pool_lock, scan, groups, arena, free_list, desc_lock, live>>

(* ... or by realloc(): a big block's pages go back without a lock.        *)
free_big(c) ==
  LET p == pg_no(call[c].old.addr)
  IN  /\ pc[c] = "free"
      /\ arena[p].desc = 0
      /\ free_multiple(c, [start |-> p, cnt |-> arena[p].free_cnt], "out")
      /\ arena' = [arena EXCEPT ![p] = NoArena]
      /\ live' = live \ {call[c].old}
      /\ call' = [call EXCEPT ![c] = NoCall]
      /\ UNCHANGED <<free_list, desc_lock>>

(* Mutant: the page goes back while its other blocks stay on the list.     *)
remove_first_only(list, p) == Tail(list)
(* list_remove() of every block of the arena at page p.                    *)
remove_blocks(list, p) == SelectSeq(list, LAMBDA b : pg_no(b) # p)
(* Mutant: an unused arena is never recognised.                            *)
never_unused(p, d) == arena[p].free_cnt >= blocks_per_arena(d)
entirely_unused(p, d) == arena[p].free_cnt + 1 >= blocks_per_arena(d)

free_block(c) ==
  LET b == call[c].old.addr
      p == pg_no(b)
      d == arena[p].desc
      list == <<b>> \o free_list[d]
  IN  /\ pc[c] = "free"
      /\ d # 0
      /\ desc_lock[d] = NULL
      /\ live' = live \ {call[c].old}
      /\ IF entirely_unused(p, d)
         THEN /\ desc_lock' = [desc_lock EXCEPT ![d] = c]
              /\ free_list' = [free_list EXCEPT ![d] = remove_blocks(list, p)]
              /\ arena' = [arena EXCEPT ![p] = NoArena]
              /\ call' = [call EXCEPT ![c] = [NoCall EXCEPT !.block = d]]
              /\ free_multiple(c, [start |-> p, cnt |-> 1], "desc_unlock")
         ELSE /\ free_list' = [free_list EXCEPT ![d] = list]
              /\ arena' = [arena EXCEPT ![p].free_cnt = @ + 1]
              /\ call' = [call EXCEPT ![c] = NoCall]
              /\ Goto(c, "out")
              /\ UNCHANGED <<desc_lock, used_map, pool_lock, scan, groups>>

release_desc(c) ==
  /\ pc[c] = "desc_unlock"
  /\ desc_lock' = [desc_lock EXCEPT ![call[c].block] = NULL]
  /\ call' = [call EXCEPT ![c] = NoCall]
  /\ Goto(c, "out")
  /\ UNCHANGED <<used_map, pool_lock, scan, groups, arena, free_list, live>>

page_allocator(c) == PallocStep(c) /\ UNCHANGED mallocVars

BlockStep(c) ==
  \/ big_block(c) \/ acquire_desc(c) \/ new_arena(c) \/ take_block(c)
  \/ free_big(c) \/ free_block(c) \/ release_desc(c) \/ page_allocator(c)

MallocNext == \E c \in Client : malloc(c) \/ realloc(c) \/ free(c) \/ BlockStep(c)

MallocSpec == MallocInit /\ [][MallocNext]_memoryVars
(* The timer lets every thread run, so one inside an allocator goes on as  *)
(* long as the lock it needs is free; that it gets a contended lock before *)
(* a newcomer is not assumed.                                              *)
MallocFairSpec == MallocSpec /\ \A c \in Client : WF_memoryVars(BlockStep(c))

-----------------------------------------------------------------------------
(* Properties *)

Arenas == {p \in Bit : arena[p].desc # 0}
Bytes(addr, n) == addr .. addr + n - 1
FreeBlocks == UNION {Range(free_list[d]) : d \in descs}

(* The blocks of the clients do not overlap each other, a block on a free  *)
(* list or an arena header, each holds the size that was asked for (the    *)
(* promise of malloc.c:87), and lies in pages that were handed out.        *)
BlocksDisjoint ==
  /\ \A a, b \in live : a # b => Bytes(a.addr, a.size) \cap Bytes(b.addr, b.size) = {}
  /\ \A a \in live, f \in FreeBlocks : f \notin Bytes(a.addr, block_size(a.addr))
  /\ \A a \in live : a.size <= block_size(a.addr)
  /\ \A a \in live, p \in Bit :
       arena[p] # NoArena =>
         Bytes(a.addr, a.size) \cap Bytes(p * PGSIZE, ARENA_SIZE) = {}
  /\ \A a \in live : \E g \in groups : {pg_no(x) : x \in Bytes(a.addr, a.size)} \subseteq PagesOf(g)

(* A descriptor's free list has each free block of its arenas once, as     *)
(* many of an arena as its free_cnt says: list_remove() of a whole arena   *)
(* (malloc.c:248) touches only blocks that are on the list.                *)
FreeListExact ==
  \A d \in descs :
    /\ IsInjective(free_list[d])
    /\ \A b \in Range(free_list[d]) : arena[pg_no(b)].desc = d
    /\ \A p \in Arenas : arena[p].desc = d =>
         Cardinality({b \in Range(free_list[d]) : pg_no(b) = p}) = arena[p].free_cnt

(* Pages do not leak: once nobody is in an allocator, each page handed out *)
(* has a live block.                                                       *)
NoPageLeaks ==
  (\A c \in Client : pc[c] = "out") =>
     \A g \in groups : \E a \in live : pg_no(a.addr) = g.start

(* The heap as a whole: what malloc(), realloc() and free() keep between   *)
(* them, whoever calls them.                                               *)
BlocksExact == BlocksDisjoint /\ FreeListExact /\ NoPageLeaks

(* Nobody waits for a lock for ever although a descriptor's lock is held   *)
(* while the pool's is taken: when no more calls are made, those under way *)
(* return.                                                                 *)
AllocatorsFinish ==
  \/ []<><<\E c \in Client : malloc(c) \/ realloc(c) \/ free(c)>>_memoryVars
  \/ []<>(\A c \in Client : pc[c] = "out")
=============================================================================
