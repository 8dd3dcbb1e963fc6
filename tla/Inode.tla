-------------------------------- MODULE Inode --------------------------------
(***************************************************************************)
(* Files on the disk: inodes and their index blocks (filesys/inode.c), the *)
(* free map (free-map.c) and the buffer cache as inode.c uses it.  File    *)
(* data goes through the cache; inodes, index blocks and the zeros of new  *)
(* sectors are written to the disk directly.                               *)
(*                                                                         *)
(* The calls that create, remove, open, read, write and close files hold   *)
(* file_lock, so an operation is one step; the write-back thread comes in  *)
(* between.  load(), chdir and readdir take no lock and are left out.  The *)
(* cache evicts an arbitrary entry here: BufferCache has the real order.   *)
(*                                                                         *)
(* Four things that the code does not guard against are noted in `broken`, *)
(* and end the behaviour: see the README.                                  *)
(***************************************************************************)
EXTENDS Integers, Sequences, SequencesExt, FiniteSets, FiniteSetsExt

CONSTANTS
  SectorCnt,           \* sectors of the device, sector 0 is the free map's
  DIRECT_BLOCKS,
  ENTRIES,             \* INDIRECT_BLOCK_ENTRIES
  BLOCK_SECTOR_SIZE,
  CACHE_SIZE,
  Offset,              \* offsets that are written to
  MaxFiles             \* bound: files that are created

ASSUME InodeAssumption ==
  /\ SectorCnt \in Nat \ {0} /\ DIRECT_BLOCKS \in Nat /\ ENTRIES \in Nat \ {0}
  /\ BLOCK_SECTOR_SIZE \in Nat \ {0} /\ CACHE_SIZE \in Nat \ {0}
  /\ Offset \subseteq Nat /\ MaxFiles \in Nat

Sector == 0 .. SectorCnt - 1
FREE_MAP_SECTOR == 0
Reserved == {FREE_MAP_SECTOR}
INDIRECT == DIRECT_BLOCKS + 1            \* places in inode_disk.blocks
DOUBLE == DIRECT_BLOCKS + 2

VARIABLES
  free_map,   \* sectors that are marked as used
  disk,       \* what each sector holds
  cache,      \* cached sectors, with their content and dirty flag
  inode,      \* struct inode of each open inode, by sector
  file,       \* for each file, by its inode's sector: the bytes it should have
  broken,     \* which unguarded case happened
  created     \* files created so far, for the bound

vars == <<free_map, disk, cache, inode, file, broken, created>>

Closed == [open_cnt |-> 0]
Data(bytes) == [kind |-> "data", v |-> bytes]
Table(sectors) == [kind |-> "table", v |-> sectors]
zeros == Data([i \in 1 .. BLOCK_SECTOR_SIZE |-> 0])
NoEntries == Table([i \in 1 .. ENTRIES |-> 0])

EmptyInode ==
  [length |-> 0, blocks |-> [i \in 1 .. DOUBLE |-> 0],
   direct_count |-> 0, indirect_count |-> 0, double_indirect_count |-> 0]

InodeInit ==
  /\ free_map = Reserved
  /\ disk = [s \in Sector |-> zeros]
  /\ cache = <<>>
  /\ inode = [s \in Sector |-> Closed]
  /\ file = <<>>
  /\ broken = {}
  /\ created = 0

-----------------------------------------------------------------------------
(* Index blocks *)

bytes_to_sectors(size) == (size + BLOCK_SECTOR_SIZE - 1) \div BLOCK_SECTOR_SIZE

(* byte_to_sector(): the sector of the k-th block of a file.               *)
block_to_sector(n, k, d) ==
  IF k < DIRECT_BLOCKS THEN n.blocks[k + 1]
  ELSE IF k < DIRECT_BLOCKS + ENTRIES
  THEN d[n.blocks[INDIRECT]].v[k - DIRECT_BLOCKS + 1]
  ELSE LET i == k - DIRECT_BLOCKS - ENTRIES
       IN  d[d[n.blocks[DOUBLE]].v[(i \div ENTRIES) + 1]].v[(i % ENTRIES) + 1]

(* Growth works on g: the free map, the disk, the inode and the sector     *)
(* that was allocated last.                                                *)
free_map_allocate(g) ==
  IF Sector \subseteq g.free_map
  THEN [g EXCEPT !.broken = @ \cup {"full"}, !.last = FREE_MAP_SECTOR]
  ELSE LET s == Min(Sector \ g.free_map)
       IN  [g EXCEPT !.free_map = @ \cup {s}, !.last = s,
                     !.broken = IF s \in DOMAIN cache THEN @ \cup {"reuse"} ELSE @]

(* A data sector, which is filled with zeros.                              *)
allocate_zeros(g) ==
  LET a == free_map_allocate(g) IN [a EXCEPT !.disk[a.last] = zeros]

(* An index block, at a place of inode_disk.blocks.                        *)
allocate_index(g, place) ==
  LET a == free_map_allocate(g)
  IN  [a EXCEPT !.disk[a.last] = NoEntries, !.inode.blocks[place] = a.last]

grow_direct(g) ==
  LET a == allocate_zeros(g)
  IN  [a EXCEPT !.inode.blocks[a.inode.direct_count + 1] = a.last,
                !.inode.direct_count = @ + 1]

grow_indirect(g) ==
  LET t == IF g.inode.indirect_count = 0 THEN allocate_index(g, INDIRECT) ELSE g
      a == allocate_zeros(t)
  IN  [a EXCEPT !.disk[a.inode.blocks[INDIRECT]].v[a.inode.indirect_count + 1] = a.last,
                !.inode.indirect_count = @ + 1]

(* level_two_idx starts at 0 in every call, also when the last block of    *)
(* the second level is partly filled already.                              *)
grow_double(g) ==
  LET cnt == g.inode.double_indirect_count
      one == ((cnt - g.level_two_idx) \div ENTRIES) + 1    \* level_one_idx
      new_two == g.level_two_idx = 0 /\ cnt % ENTRIES = 0
      t == IF cnt = 0 THEN allocate_index(g, DOUBLE) ELSE g
      b == IF new_two THEN free_map_allocate(t) ELSE t
      top == b.inode.blocks[DOUBLE]
      c == IF new_two
           THEN [b EXCEPT !.disk[b.last] = NoEntries, !.disk[top].v[one] = b.last]
           ELSE b
      a == allocate_zeros(c)
  IN  [a EXCEPT !.disk[a.disk[top].v[one]].v[g.level_two_idx + 1] = a.last,
                !.inode.double_indirect_count = @ + 1,
                !.level_two_idx = (@ + 1) % ENTRIES,
                !.broken = IF g.level_two_idx = 0 /\ ~new_two THEN @ \cup {"restart"} ELSE @]

grow_one(g) ==
  IF "full" \in g.broken THEN g
  ELSE IF g.inode.direct_count < DIRECT_BLOCKS THEN grow_direct(g)
  ELSE IF g.inode.indirect_count < ENTRIES THEN grow_indirect(g)
  ELSE IF g.inode.double_indirect_count < ENTRIES * ENTRIES THEN grow_double(g)
  ELSE g

inode_grow(n, length, map, blocks, cases) ==
  LET g == [free_map |-> map, disk |-> blocks, inode |-> [n EXCEPT !.length = length],
            last |-> 0, level_two_idx |-> 0, broken |-> cases]
      cnt == bytes_to_sectors(length) - bytes_to_sectors(n.length)
  IN  FoldLeft(LAMBDA h, i : grow_one(h), g, [i \in 1 .. cnt |-> i])

(* Mutant: the index block itself is forgotten.                            *)
free_entries_only(n) == SubSeq(disk[n.blocks[INDIRECT]].v, 1, n.indirect_count)
free_indirect(n) == SubSeq(disk[n.blocks[INDIRECT]].v, 1, n.indirect_count) \o <<n.blocks[INDIRECT]>>

(* Mutant: the last block counts as complete.                              *)
rounded_up(n) == (n.double_indirect_count + ENTRIES - 1) \div ENTRIES
complete_blocks(n) == n.double_indirect_count \div ENTRIES

(* The complete blocks of the second level, the incomplete one, the first. *)
free_double(n) ==
  LET level_one == disk[n.blocks[DOUBLE]].v
      left == n.double_indirect_count % ENTRIES
      Level(i, k) == SubSeq(disk[level_one[i]].v, 1, k) \o <<level_one[i]>>
  IN  FlattenSeq([i \in 1 .. complete_blocks(n) |-> Level(i, ENTRIES)])
      \o (IF left = 0 THEN <<>> ELSE Level((n.double_indirect_count \div ENTRIES) + 1, left))
      \o <<n.blocks[DOUBLE]>>

(* The sectors free_inode() releases, in its order.                        *)
free_inode(n) ==
  LET cnt == bytes_to_sectors(n.length)
  IN  SubSeq(n.blocks, 1, Min({cnt, DIRECT_BLOCKS}))
      \o (IF cnt > DIRECT_BLOCKS THEN free_indirect(n) ELSE <<>>)
      \o (IF cnt > DIRECT_BLOCKS + n.indirect_count THEN free_double(n) ELSE <<>>)

-----------------------------------------------------------------------------
(* Operations *)

Open == {s \in DOMAIN file : inode[s].open_cnt > 0}
Linked(s) == s \in DOMAIN file /\ (s \in Open => ~inode[s].removed)
Byte(s, pos) == 1 + s + SectorCnt * pos     \* what a write puts at pos
Content(x) == IF x \in DOMAIN cache THEN cache[x].block ELSE disk[x]
Flushed(d, S) == [x \in Sector |-> IF x \in S /\ cache[x].dirty THEN cache[x].block ELSE d[x]]

(* cache_read() or cache_write() leaves `block` in the cache for sector x. *)
cache_store(x, block, dirty, d) ==
  LET entry == [block |-> block, dirty |-> dirty]
  IN  \/ /\ x \in DOMAIN cache \/ Cardinality(DOMAIN cache) < CACHE_SIZE
         /\ cache' = [y \in DOMAIN cache \cup {x} |-> IF y = x THEN entry ELSE cache[y]]
         /\ disk' = d
      \/ /\ x \notin DOMAIN cache /\ Cardinality(DOMAIN cache) = CACHE_SIZE
         /\ \E v \in DOMAIN cache :
              /\ cache' = [y \in (DOMAIN cache \ {v}) \cup {x} |-> IF y = x THEN entry ELSE cache[y]]
              /\ disk' = Flushed(d, {v})

(* filesys_create() with an initial size; the directory is left out.       *)
inode_create ==
  \E length \in {0} \cup {o + 1 : o \in Offset} :
    LET a == free_map_allocate([free_map |-> free_map, broken |-> {}, last |-> 0])
        g == inode_grow(EmptyInode, length, a.free_map, disk, a.broken)
    IN  /\ created < MaxFiles
        /\ created' = created + 1
        /\ "full" \notin a.broken
        /\ free_map' = g.free_map
        /\ disk' = [g.disk EXCEPT ![a.last] = [kind |-> "inode", v |-> g.inode]]
        /\ file' = [s \in DOMAIN file \cup {a.last} |->
                      IF s = a.last THEN [i \in 1 .. length |-> 0] ELSE file[s]]
        /\ broken' = g.broken
        /\ UNCHANGED <<cache, inode>>

(* One struct inode per sector: a second open shares the first one's.      *)
inode_open(s) ==
  /\ Linked(s)
  /\ inode[s].open_cnt < 2
  /\ inode' = [inode EXCEPT ![s] =
       IF s \in Open THEN [@ EXCEPT !.open_cnt = @ + 1]
       ELSE [open_cnt |-> 1, removed |-> FALSE, data |-> disk[s].v]]
  /\ UNCHANGED <<free_map, disk, cache, file, broken>>

(* free_map_release() of each sector, with its assertion.                  *)
release_all(s, n) ==
  LET released == <<s>> \o free_inode(n)
  IN  /\ free_map' = free_map \ ToSet(released)
      /\ broken' = IF IsInjective(released) /\ ToSet(released) \subseteq free_map
                   THEN broken ELSE broken \cup {"assert"}
      /\ file' = [f \in DOMAIN file \ {s} |-> file[f]]
      /\ UNCHANGED <<disk, cache>>

(* Mutant: a closed inode is not written back.                             *)
close_without_write(s) ==
  /\ s \in Open
  /\ IF inode[s].open_cnt > 1
     THEN inode' = [inode EXCEPT ![s].open_cnt = @ - 1]
     ELSE inode' = [inode EXCEPT ![s] = Closed]
  /\ IF inode[s].open_cnt = 1 /\ inode[s].removed
     THEN release_all(s, inode[s].data)
     ELSE UNCHANGED <<free_map, disk, cache, file, broken>>

inode_close(s) ==
  /\ s \in Open
  /\ \/ /\ inode[s].open_cnt > 1
        /\ inode' = [inode EXCEPT ![s].open_cnt = @ - 1]
        /\ UNCHANGED <<free_map, disk, cache, file, broken>>
     \/ /\ inode[s].open_cnt = 1
        /\ inode' = [inode EXCEPT ![s] = Closed]
        /\ IF inode[s].removed
           THEN release_all(s, inode[s].data)
           ELSE /\ disk' = [disk EXCEPT ![s] = [kind |-> "inode", v |-> inode[s].data]]
                /\ UNCHANGED <<free_map, cache, file, broken>>

(* filesys_remove(): open, mark, close; the last close frees the blocks.   *)
inode_remove(s) ==
  /\ Linked(s)
  /\ IF s \in Open
     THEN /\ inode' = [inode EXCEPT ![s].removed = TRUE]
          /\ UNCHANGED <<free_map, disk, cache, file, broken>>
     ELSE release_all(s, disk[s].v) /\ UNCHANGED inode

(* A write of one byte: it grows the file first when it ends beyond it.    *)
inode_write_at(s) ==
  \E ofs \in Offset :
    LET n == inode[s].data
        g == IF ofs + 1 > n.length
             THEN inode_grow(n, ofs + 1, free_map, disk, broken)
             ELSE [free_map |-> free_map, disk |-> disk, inode |-> n, broken |-> broken]
        x == block_to_sector(g.inode, ofs \div BLOCK_SECTOR_SIZE, g.disk)
        old == IF x \in DOMAIN cache THEN cache[x].block ELSE g.disk[x]
        new == [old EXCEPT !.v[(ofs % BLOCK_SECTOR_SIZE) + 1] = Byte(s, ofs)]
        bytes == [i \in 1 .. g.inode.length |-> IF i = ofs + 1 THEN Byte(s, ofs)
                                               ELSE IF i <= Len(file[s]) THEN file[s][i] ELSE 0]
    IN  /\ s \in Open
        /\ inode' = [inode EXCEPT ![s].data = g.inode]
        /\ free_map' = g.free_map
        /\ broken' = g.broken
        /\ IF g.broken = {}
           THEN cache_store(x, new, TRUE, g.disk) /\ file' = [file EXCEPT ![s] = bytes]
           ELSE disk' = g.disk /\ UNCHANGED <<cache, file>>

(* A read brings the sector of a byte into the cache.                      *)
inode_read_at(s) ==
  \E k \in 0 .. bytes_to_sectors(inode[s].data.length) - 1 :
    LET x == block_to_sector(inode[s].data, k, disk)
    IN  /\ x \notin DOMAIN cache
        /\ cache_store(x, disk[x], FALSE, disk)
        /\ UNCHANGED <<free_map, inode, file, broken>>

(* cache_writeback(): every dirty entry, by the periodic thread.           *)
cache_writeback ==
  /\ disk' = Flushed(disk, DOMAIN cache)
  /\ cache' = [x \in DOMAIN cache |-> [cache[x] EXCEPT !.dirty = FALSE]]
  /\ UNCHANGED <<free_map, inode, file, broken>>

(* filesys_done() and the next boot: the cache is written back, inodes     *)
(* that are still open are not.                                            *)
restart ==
  LET lost == \E s \in Open : inode[s].removed \/ inode[s].data # disk[s].v
  IN  /\ disk' = Flushed(disk, DOMAIN cache)
      /\ cache' = <<>>
      /\ inode' = [s \in Sector |-> Closed]
      /\ broken' = IF lost THEN broken \cup {"open_at_shutdown"} ELSE broken
      /\ UNCHANGED <<free_map, file>>

InodeNext ==
  /\ broken = {}
  /\ \/ inode_create
     \/ /\ \/ \E s \in DOMAIN file : inode_open(s) \/ inode_close(s) \/ inode_remove(s)
           \/ \E s \in Open : inode_write_at(s) \/ inode_read_at(s)
           \/ cache_writeback
           \/ restart
        /\ UNCHANGED created

InodeSpec == InodeInit /\ [][InodeNext]_vars

-----------------------------------------------------------------------------
(* Properties *)

InodeOf(s) == IF s \in Open THEN inode[s].data ELSE disk[s].v
SectorsOf(s) == <<s>> \o free_inode(InodeOf(s))

(* Every sector in use belongs to one file, in one place: none leaks, none *)
(* is shared, and each file can be freed as free_inode() walks it.  The    *)
(* assertion of free_map_release() (free-map.c:47) holds in every step: no *)
(* sector is freed that is not in use, and none twice.                     *)
FreeMapExact ==
  /\ "assert" \notin broken
  /\ broken = {} =>
       /\ free_map = Reserved \cup UNION {ToSet(SectorsOf(s)) : s \in DOMAIN file}
       /\ \A s \in DOMAIN file :
            /\ IsInjective(SectorsOf(s))
            /\ \A t \in DOMAIN file : s # t => ToSet(SectorsOf(s)) \cap ToSet(SectorsOf(t)) = {}

ReadsBack(s) ==
  \A pos \in 0 .. Len(file[s]) - 1 :
    LET c == Content(block_to_sector(InodeOf(s), pos \div BLOCK_SECTOR_SIZE, disk))
    IN  c.kind = "data" /\ c.v[(pos % BLOCK_SECTOR_SIZE) + 1] = file[s][pos + 1]

(* Every file has the bytes that were last written to it and zeros in      *)
(* between, through growth, gaps, evictions, removal of other files while  *)
(* they are open, close and clean restart.                                 *)
FilesIntact ==
  broken = {} => \A s \in DOMAIN file : InodeOf(s).length = Len(file[s]) /\ ReadsBack(s)

(* A file keeps its bytes when it is expanded (inode.c:168): as inode.c:54 *)
(* says, byte_to_sector() finds the sector that contains a given byte.     *)
GrowKeepsData == broken \subseteq {"restart"} => \A s \in DOMAIN file : ReadsBack(s)
=============================================================================
