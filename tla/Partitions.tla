----------------------------- MODULE Partitions ------------------------------
(***************************************************************************)
(* devices/partition.c, the registry of devices/block.c and the choice of  *)
(* devices in threads/init.c: a disk is registered, its partition table is *)
(* scanned, and devices are given the roles of the file system and the     *)
(* scratch disk.                                                           *)
(*                                                                         *)
(* A table for an extended partition is read from sector 0 again, whatever *)
(* sector it is in; the recursion may then not end, and the model stops at *)
(* MaxDepth ("stack").  Sector numbers are words modulo WordSize.          *)
(***************************************************************************)
EXTENDS Integers, Sequences, SequencesExt

CONSTANTS
  WordSize,        \* 2^32
  DeviceSize,      \* sectors of the disk
  TableEntry,      \* the entries a table may have, as [type, offset, size]
  TableLength,     \* 4 in the code
  RoleName,        \* the numbers that the options -filesys and -scratch may give, or NoName
  MaxDepth         \* tables on the kernel stack

VARIABLES
  mbr,             \* the table in sector 0, <<>> without a signature
  frames,          \* read_partition_table() calls in progress, the last one running
  part_nr,
  all_blocks,      \* registered devices in probe order
  block_by_role,
  boot             \* "start", "scan", "roles", "done", "panic" or "stack"
partitionVars == <<mbr, frames, part_nr, all_blocks, block_by_role, boot>>

NoBlock == [nr |-> -1]
NoName == -2
Empty == 0
Extended == {5, 15, 133, 197}                              \* 0x05 0x0f 0x85 0xc5

PartitionsInit ==
  /\ mbr = <<>> /\ frames = <<>> /\ part_nr = 0 /\ all_blocks = <<>>
  /\ block_by_role = [r \in {"FILESYS", "SCRATCH"} |-> NoBlock]
  /\ boot = "start"

block_register(nr, type, first, size) ==
  Append(all_blocks, [nr |-> nr, type |-> type, start |-> first, size |-> size])

(* The disk itself has number 0; the scan begins with its first table.     *)
partition_scan ==
  /\ boot = "start" /\ boot' = "scan"
  /\ mbr' \in [1 .. TableLength -> TableEntry] \cup {<<>>}
  /\ all_blocks' = block_register(0, "RAW", 0, DeviceSize)
  /\ frames' = <<[sector |-> 0, primary |-> 0, i |-> 1]>>
  /\ UNCHANGED <<part_nr, block_by_role>>

block_type(type) ==
  CASE type = 32 -> "KERNEL" [] type = 33 -> "FILESYS" [] type = 34 -> "SCRATCH"
    [] type = 35 -> "SWAP" [] OTHER -> "FOREIGN"

(* Mutant: a partition whose end wraps around is accepted.                 *)
found_wrapping(nr, type, first, size) ==
  IF first >= DeviceSize \/ (first + size) % WordSize > DeviceSize THEN all_blocks
  ELSE block_register(nr, block_type(type), first, size)
found_partition(nr, type, first, size) ==
  LET end == (first + size) % WordSize
  IN IF first >= DeviceSize \/ end < first \/ end > DeviceSize THEN all_blocks
     ELSE block_register(nr, block_type(type), first, size)

Top == frames[Len(frames)]
Below == SubSeq(frames, 1, Len(frames) - 1)
NextEntry == Append(Below, [Top EXCEPT !.i = @ + 1])

(* The end of the table, one without signature or past the end of the disk.*)
leave_table ==
  /\ boot = "scan" /\ frames # <<>>
  /\ Top.sector >= DeviceSize \/ Top.i > Len(mbr)
  /\ frames' = Below
  /\ UNCHANGED <<mbr, part_nr, all_blocks, block_by_role, boot>>

read_partition_table ==
  /\ boot = "scan" /\ frames # <<>> /\ Top.sector < DeviceSize /\ Top.i <= Len(mbr)
  /\ LET e == mbr[Top.i]
     IN \/ /\ e.size = 0 \/ e.type = Empty
           /\ frames' = NextEntry
           /\ UNCHANGED <<part_nr, all_blocks, boot>>
        \/ /\ e.size # 0 /\ e.type \in Extended
           /\ LET primary == IF Top.sector = 0 THEN e.offset ELSE Top.primary
                  sector == IF Top.sector = 0 THEN e.offset
                            ELSE (e.offset + Top.primary) % WordSize
              IN frames' = Append(NextEntry, [sector |-> sector, primary |-> primary, i |-> 1])
           /\ boot' = IF Len(frames) = MaxDepth THEN "stack" ELSE boot
           /\ UNCHANGED <<part_nr, all_blocks>>
        \/ /\ e.size # 0 /\ e.type \notin Extended \cup {Empty}
           /\ part_nr' = part_nr + 1
           /\ all_blocks' = found_partition(part_nr', e.type, (e.offset + Top.sector) % WordSize, e.size)
           /\ frames' = NextEntry
           /\ UNCHANGED boot
  /\ UNCHANGED <<mbr, block_by_role>>

(* The first of the registered devices that is among bs.                   *)
First(bs) ==
  LET s == {i \in DOMAIN all_blocks : all_blocks[i] \in bs}
  IN IF s = {} THEN NoBlock ELSE all_blocks[CHOOSE i \in s : \A j \in s : i <= j]

block_get_by_name(nr) == First({b \in Range(all_blocks) : b.nr = nr})

locate_block_device(role, name) ==
  IF name # NoName THEN block_get_by_name(name)
  ELSE First({b \in Range(all_blocks) : b.type = role})

(* A name that no device has is a panic.                                   *)
locate_block_devices ==
  /\ boot = "scan" /\ frames = <<>>
  /\ \E names \in [{"FILESYS", "SCRATCH"} -> RoleName] :
       LET found == [r \in DOMAIN names |-> locate_block_device(r, names[r])]
           lost(r) == names[r] # NoName /\ found[r] = NoBlock
       IN /\ boot' = IF \E r \in DOMAIN names : lost(r) THEN "panic" ELSE "done"
          /\ block_by_role' =
               [r \in DOMAIN names |-> IF lost("FILESYS") \/ lost(r) THEN NoBlock ELSE found[r]]
  /\ UNCHANGED <<mbr, frames, part_nr, all_blocks>>

PartitionsNext == partition_scan \/ leave_table \/ read_partition_table \/ locate_block_devices
PartitionsSpec == PartitionsInit /\ [][PartitionsNext]_partitionVars

(* partition_scan(): every registered partition lies inside its disk, even *)
(* when a start or an end wraps around; names are distinct; and with       *)
(* primary partitions only, they are those of the table that fit, in order.*)
PartitionsExact ==
  /\ \A i \in DOMAIN all_blocks :
       LET b == all_blocks[i]
       IN /\ b.start >= 0 /\ b.start + b.size <= DeviceSize
          /\ \A j \in 1 .. i - 1 : all_blocks[j].nr < b.nr
  /\ (boot = "done" /\ \A i \in DOMAIN mbr : mbr[i].type \notin Extended) =>
       LET fits(e) == e.type # Empty /\ e.size > 0 /\ e.offset + e.size <= DeviceSize
           good == SelectSeq(mbr, fits)
       IN /\ Len(all_blocks) = Len(good) + 1
          /\ \A i \in DOMAIN good : all_blocks[i + 1].start = good[i].offset
  /\ boot = "done" => \A r \in DOMAIN block_by_role :
       block_by_role[r] = NoBlock => \A i \in DOMAIN all_blocks : all_blocks[i].type # r
=============================================================================
