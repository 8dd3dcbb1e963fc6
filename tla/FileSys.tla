------------------------------- MODULE FileSys -------------------------------
(***************************************************************************)
(* Directories (filesys/directory.c), paths and names (filesys.c), open    *)
(* files (file.c), the table of open inodes (inode.c) and the system calls *)
(* and load() above them (userprog/syscall.c, process.c).                  *)
(*                                                                         *)
(* Most calls hold file_lock.  chdir, readdir and load() do not, so a call *)
(* is a sequence of steps, todo, that ends a step wherever another process *)
(* can see the difference: at the search of the table of open inodes, at   *)
(* its insertion, at each disk access, and between the parts of a path.    *)
(* What a directory lock protects is one step if it needs no disk access.  *)
(*                                                                         *)
(* File contents and lengths are left to Inode; a directory has its slots. *)
(* Cases the code does not guard against are noted in `broken` and end the *)
(* behaviour: see the README.                                              *)
(***************************************************************************)
EXTENDS Integers, Sequences, SequencesExt, FiniteSets, FiniteSetsExt, Functions

CONSTANTS
  Proc, Main,          \* processes, the first one
  Does,                \* the calls with a path that each process makes
  Path,                \* paths that are used: [abs : BOOLEAN, parts : Seq(Name)]
  SectorCnt,           \* sectors that can hold an inode; 1 is the root's
  MaxFds,              \* bound: descriptors of a process
  MaxCalls,            \* bound: calls with a path that each process makes
  MaxPos               \* bound: position in a file

ROOT_DIR_SECTOR == 1
Sector == 1 .. SectorCnt
Id == 1 .. 2 * SectorCnt      \* struct inodes: two for a sector at most
NULL == 0
Unused == [sector |-> NULL]
NoEntry == [name |-> "", sector |-> NULL]     \* a slot that is not in_use

VARIABLES
  fs,         \* used: free map; disk: inode of each sector; entries: slots of
              \* each directory; inodes: struct inodes; leaks: lost references
  fds,        \* file_struct_list of each process
  cwd,        \* current_dir of each process, as an inode
  file_lock,  \* its holder, or NoProc
  th,         \* the call each process is in: todo, and its local variables
  broken,
  calls       \* calls each process made so far, for the bound

vars == <<fs, fds, cwd, file_lock, th, broken, calls>>

NoProc == "none"
Idle == [todo |-> <<>>, born |-> TRUE, dir |-> NULL, inode |-> NULL, sector |-> NULL,
         abs |-> FALSE, parts |-> <<>>, new |-> NULL, out |-> NULL,
         locks |-> FALSE]
Unborn == [Idle EXCEPT !.born = FALSE]
DirInode == [is_dir |-> TRUE, parent |-> ROOT_DIR_SECTOR]
FileInode == [is_dir |-> FALSE, parent |-> ROOT_DIR_SECTOR]
Unread == [is_dir |-> FALSE, parent |-> NULL]

NewInode(s) ==
  [sector |-> s, open_cnt |-> 1, deny_write_cnt |-> 0, removed |-> FALSE,
   listed |-> TRUE, holder |-> NoProc, data |-> Unread]

(* A file system with a directory "a" and a file "b", which is also the    *)
(* program of the processes; the first process works in "a".               *)
FilesInit ==
  /\ fs = [used |-> {ROOT_DIR_SECTOR, 2, 3},
           disk |-> [s \in Sector |-> IF s = 3 THEN FileInode ELSE DirInode],
           entries |-> [s \in Sector |-> IF s = ROOT_DIR_SECTOR
                          THEN <<[name |-> "a", sector |-> 2], [name |-> "b", sector |-> 3]>>
                          ELSE <<>>],
           inodes |-> [i \in Id |-> IF i = 2 THEN [NewInode(2) EXCEPT !.data = DirInode]
                                    ELSE Unused],
           leaks |-> [i \in Id |-> 0]]
  /\ fds = [p \in Proc |-> <<>>]
  /\ cwd = [p \in Proc |-> IF p = Main THEN 2 ELSE NULL]
  /\ file_lock = NoProc
  /\ th = [p \in Proc |-> Idle]
  /\ broken = {}
  /\ calls = [p \in Proc |-> 0]

-----------------------------------------------------------------------------
(* The table of open inodes *)

(* open_inodes: a struct inode leaves the list before it is freed.         *)
Listed(f, s) == {i \in Id : f.inodes[i].sector = s /\ f.inodes[i].listed}
FreeId(f, s) == IF f.inodes[s] = Unused THEN s ELSE s + SectorCnt

(* Mutant: the reference is not counted.                                    *)
reopen_uncounted(f, i) == f
reopen(f, i) == [f EXCEPT !.inodes[i].open_cnt = @ + 1]
leak(f, i) == IF i = NULL THEN f ELSE [f EXCEPT !.leaks[i] = @ + 1]
forget(f, i) == [f EXCEPT !.inodes[i] = Unused]

(* inode_open(), search: the struct inode of the sector, if there is one.  *)
(* t is the state of the calling process, k what it does next.             *)
inode_open(f, t, s, k) ==
  IF Listed(f, s) # {}
  THEN LET i == CHOOSE i \in Listed(f, s) : TRUE
       IN  [fs |-> reopen(f, i), th |-> [t EXCEPT !.inode = i, !.todo = k]]
  ELSE [fs |-> f, th |-> [t EXCEPT !.sector = s, !.todo = <<"insert", "read">> \o k]]

(* What a free sector holds does not matter: inode_create() overwrites it. *)
free_map_release(f, s) ==
  [f EXCEPT !.used = @ \ {s}, !.disk[s] = DirInode, !.entries[s] = <<>>]

(* inode_close(), first part: the last opener takes it off the list; its   *)
(* sector is freed if the file was removed, written back otherwise.        *)
inode_close(f, i) ==
  IF i = NULL THEN f
  ELSE LET n == f.inodes[i]
       IN  IF n.open_cnt > 1 THEN [f EXCEPT !.inodes[i].open_cnt = @ - 1]
           ELSE IF n.removed THEN free_map_release(forget(f, i), n.sector)
           ELSE [f EXCEPT !.inodes[i].open_cnt = 0, !.inodes[i].listed = FALSE]

(* inode_close(), second part: the struct inodes that are to be written.   *)
writeback(f, i) == [forget(f, i) EXCEPT !.disk[f.inodes[i].sector] = f.inodes[i].data]

(* A struct inode is in the list before its data has been read.            *)
unread(f, i) == i # NULL /\ f.inodes[i].data = Unread

-----------------------------------------------------------------------------
(* Directories *)

slots(f, dir) == f.entries[f.inodes[dir].sector]
lookup(f, dir, name) == {k \in DOMAIN slots(f, dir) : slots(f, dir)[k].name = name
                                                      /\ slots(f, dir)[k] # NoEntry}
dir_is_empty(f, i) == \A k \in DOMAIN slots(f, i) : slots(f, i)[k] = NoEntry

(* dir_add(): the first free slot, or the end of the directory.            *)
free_slot(f, dir) ==
  LET free == {k \in DOMAIN slots(f, dir) : slots(f, dir)[k] = NoEntry}
  IN  IF free = {} THEN Len(slots(f, dir)) + 1 ELSE Min(free)

write_slot(f, dir, k, e) ==
  [f EXCEPT !.entries[f.inodes[dir].sector] =
     [j \in 1 .. Max({k, Len(@)}) |-> IF j = k THEN e ELSE @[j]]]

(* Mutant: a directory is removed although it is in use.                   *)
removable_empty(f, i) == f.inodes[i].data.is_dir => dir_is_empty(f, i)
(* dir_remove(): the inode was opened for the removal itself.              *)
removable(f, i) ==
  f.inodes[i].data.is_dir => f.inodes[i].open_cnt <= 1 /\ dir_is_empty(f, i)

-----------------------------------------------------------------------------
(* Steps.  A step of process p replaces the file system by f and p's own   *)
(* state by t; k is what p has to do after the step.                       *)

(* The last step of a call releases file_lock, if the call holds it.       *)
unlock_file(p, t) == IF t.todo = <<>> /\ file_lock = p THEN NoProc ELSE file_lock
step(p, f, t) ==
  /\ fs' = f /\ th' = [th EXCEPT ![p] = IF t.todo = <<>> THEN Idle ELSE t]
  /\ file_lock' = unlock_file(p, t)
At(p, op) == th[p].todo # <<>> /\ Head(th[p].todo) = op /\ broken = {}
k(p) == Tail(th[p].todo)
Note(cases) == broken' = broken \cup cases
Case(cond, name) == IF cond THEN {name} ELSE {}
Keep == UNCHANGED <<fds, cwd, calls>>

(* inode_lock of a directory, when it is held over a disk access.          *)
Unlocked(dir) == fs.inodes[dir].holder = NoProc
lock(f, dir, p) == [f EXCEPT !.inodes[dir].holder = p]
(* Mutant: the lock is kept.                                               *)
unlock_nothing(f, dir) == f
unlock(f, dir) == [f EXCEPT !.inodes[dir].holder = NoProc]

(* inode_close(i) by a process that goes on with k.                        *)
closing(f, t, i, rest) ==
  LET g == inode_close(f, i)
      pending == i # NULL /\ g.inodes[i] # Unused /\ g.inodes[i].open_cnt = 0
  IN  [fs |-> g, th |-> [t EXCEPT !.todo = (IF pending THEN <<"writeback">> ELSE <<>>) \o rest,
                                  !.out = IF pending THEN i ELSE @]]

(* dir_close()                                                             *)
close(f, t, rest) ==
  closing(f, [t EXCEPT !.dir = NULL, !.new = NULL, !.parts = <<>>], t.dir, rest)
goto(p, r) == step(p, r.fs, r.th)

(* dir_lookup(): the directory's lock is held until the inode is open.     *)
dir_lookup(p, f, t, name, rest) ==
  IF lookup(f, t.dir, name) = {}
  THEN [fs |-> f, th |-> [t EXCEPT !.inode = NULL, !.todo = rest]]
  ELSE LET s == slots(f, t.dir)[Min(lookup(f, t.dir, name))].sector
       IN  IF Listed(f, s) # {} THEN inode_open(f, t, s, rest)
           ELSE inode_open(lock(f, t.dir, p), [t EXCEPT !.locks = TRUE], s, rest)

get_dir_parent_inode(f, t, rest) == inode_open(f, t, f.inodes[t.dir].data.parent, rest)

(* file_name_from_path()                                                   *)
file_name(t) == IF t.parts = <<>> THEN "" ELSE Last(t.parts)
dir_is_root(f, dir) == f.inodes[dir].sector = ROOT_DIR_SECTOR

(* inode_open(), when the search found nothing.                            *)
insert(p) ==
  LET t == th[p]
      i == FreeId(fs, t.sector)
  IN  /\ At(p, "insert")
      /\ step(p, [fs EXCEPT !.inodes[i] = NewInode(t.sector)],
                 [t EXCEPT !.inode = i, !.todo = k(p)])
      /\ Note(Case(Listed(fs, t.sector) # {}, "twice"))
      /\ Keep

(* dir_lookup() releases the directory's lock then.                        *)
read(p) ==
  LET t == th[p]
      f == [fs EXCEPT !.inodes[t.inode].data = fs.disk[t.sector]]
      others == {i \in Id \ {t.inode} : fs.inodes[i].sector = t.sector}
  IN  /\ At(p, "read")
      /\ step(p, IF t.locks THEN unlock(f, t.dir) ELSE f,
                 [t EXCEPT !.sector = NULL, !.locks = FALSE, !.todo = k(p)])
      /\ Note(Case(others # {}, "stale"))
      /\ Keep

write_inode(p) ==
  /\ At(p, "writeback")
  /\ step(p, writeback(fs, th[p].out), [th[p] EXCEPT !.todo = k(p), !.out = NULL])
  /\ UNCHANGED broken /\ Keep

-----------------------------------------------------------------------------
(* dir_from_path(): all parts of the path but the last one *)

walk_on(parts, rest) == IF Len(parts) <= 1 THEN rest ELSE <<"walk">> \o rest

dir_start(p, t) ==
  LET rest == walk_on(t.parts, t.todo)
  IN  IF t.abs \/ cwd[p] = NULL
      THEN inode_open(fs, [t EXCEPT !.abs = FALSE], ROOT_DIR_SECTOR, <<"enter">> \o rest)
      ELSE [fs |-> reopen(fs, cwd[p]), th |-> [t EXCEPT !.dir = cwd[p], !.todo = rest]]

start(p) ==
  /\ At(p, "start")
  /\ goto(p, dir_start(p, [th[p] EXCEPT !.todo = k(p)]))
  /\ UNCHANGED broken /\ Keep

walk(p) ==
  LET t == [th[p] EXCEPT !.parts = Tail(@)]
      prev == Head(th[p].parts)
      rest == walk_on(t.parts, k(p))
  IN  /\ At(p, "walk")
      /\ \/ /\ prev = "."
            /\ step(p, fs, [t EXCEPT !.todo = rest])
         \/ /\ prev = ".."
            /\ goto(p, get_dir_parent_inode(fs, t, <<"enter">> \o rest))
         \/ /\ prev \notin {".", ".."} /\ Unlocked(t.dir)
            /\ goto(p, dir_lookup(p, fs, t, prev, <<"enter">> \o rest))
      /\ Note(Case(unread(fs, t.dir), "unread"))
      /\ Keep

(* The directory changes to the inode that was found.  A part that does    *)
(* not exist ends the walk, and the reference to the directory is lost; a  *)
(* part that is not a directory is passed over.                            *)
enter(p) ==
  LET t == th[p]
      found == t.inode
  IN  /\ At(p, "enter")
      /\ IF t.dir = NULL THEN step(p, fs, [t EXCEPT !.dir = found, !.inode = NULL, !.todo = k(p)])
         ELSE IF found = NULL
         THEN step(p, leak(fs, t.dir),
                   [t EXCEPT !.dir = NULL, !.parts = <<Last(@)>>,
                             !.todo = SelectSeq(k(p), LAMBDA op : op # "walk")])
         ELSE IF fs.inodes[found].data.is_dir
         THEN goto(p, closing(fs, [t EXCEPT !.dir = found, !.inode = NULL], t.dir, k(p)))
         ELSE goto(p, closing(fs, [t EXCEPT !.inode = NULL], found, k(p)))
      /\ Note(Case(unread(fs, found), "unread"))
      /\ Keep

-----------------------------------------------------------------------------
(* filesys_create() *)

(* A sector for the inode; inode_create() writes it to the disk.           *)
create(p) ==
  LET t == th[p]
      s == Min(Sector \ fs.used)
      data == IF At(p, "mkdir") THEN DirInode ELSE FileInode
  IN  /\ \E op \in {"create", "mkdir"} : At(p, op)
      /\ IF t.dir = NULL \/ file_name(t) \in {".", ".."} \/ fs.used = Sector
         THEN goto(p, close(fs, t, k(p)))
         ELSE step(p, [fs EXCEPT !.used = @ \cup {s}, !.disk[s] = data],
                   [t EXCEPT !.new = s, !.todo = <<"add">> \o k(p)])
      /\ UNCHANGED broken /\ Keep

(* free_map_release() of the sector, when filesys_create() fails later.    *)
release(f, t) == free_map_release(f, t.new)

(* dir_add(), the name; inode_set_dir_parent() opens the new inode.        *)
add(p) ==
  LET t == th[p]
      name == file_name(t)
  IN  /\ At(p, "add") /\ Unlocked(t.dir)
      /\ IF name = "" \/ lookup(fs, t.dir, name) # {}
         THEN goto(p, close(release(fs, t), t, k(p)))
         ELSE goto(p, inode_open(lock(fs, t.dir, p), t, t.new, <<"parent", "entry">> \o k(p)))
      /\ Note(Case(unread(fs, t.dir), "unread")) /\ Keep

set_parent(p) ==
  LET t == th[p]
      f == [fs EXCEPT !.inodes[t.inode].data.parent = fs.inodes[t.dir].sector]
  IN  /\ At(p, "parent")
      /\ goto(p, closing(f, [t EXCEPT !.inode = NULL], t.inode, k(p)))
      /\ UNCHANGED broken /\ Keep

add_entry(p) ==
  LET t == th[p]
      slot == free_slot(fs, t.dir)
      f == IF fs.inodes[t.dir].deny_write_cnt # 0 THEN release(fs, t)
           ELSE write_slot(fs, t.dir, slot, [name |-> file_name(t), sector |-> t.new])
  IN  /\ At(p, "entry")
      /\ goto(p, close(unlock(f, t.dir), t, k(p)))
      /\ UNCHANGED broken /\ Keep

-----------------------------------------------------------------------------
(* filesys_remove() *)

remove(p) ==
  LET t == th[p]
      found == lookup(fs, t.dir, file_name(t))
  IN  /\ At(p, "remove")
      /\ IF t.dir = NULL THEN step(p, fs, [t EXCEPT !.todo = k(p)]) /\ UNCHANGED broken
         ELSE /\ Unlocked(t.dir)
              /\ IF found = {} THEN goto(p, close(fs, t, k(p)))
                 ELSE goto(p, inode_open(lock(fs, t.dir, p), t,
                                         slots(fs, t.dir)[Min(found)].sector,
                                         <<"erase", "finish">> \o k(p)))
              /\ Note(Case(unread(fs, t.dir), "unread"))
      /\ Keep

erase(p) ==
  LET t == th[p]
      slot == Min(lookup(fs, t.dir, file_name(t)))
      allowed == removable(fs, t.inode) /\ fs.inodes[t.dir].deny_write_cnt = 0
      f == IF allowed
           THEN [write_slot(fs, t.dir, slot, NoEntry) EXCEPT !.inodes[t.inode].removed = TRUE]
           ELSE fs
  IN  /\ At(p, "erase")
      /\ goto(p, closing(f, [t EXCEPT !.inode = NULL], t.inode, k(p)))
      /\ Note(Case(unread(fs, t.inode), "unread")) /\ Keep

finish(p) ==
  LET t == th[p]
  IN  /\ At(p, "finish")
      /\ goto(p, close(unlock(fs, t.dir), t, k(p)))
      /\ UNCHANGED broken /\ Keep

-----------------------------------------------------------------------------
(* filesys_open(), k_open() and load() *)

(* "/" and "." are the directory itself, which stays open.                 *)
names_dir(t) == file_name(t) = "." \/ (file_name(t) = "" /\ dir_is_root(fs, t.dir))

open(p) ==
  LET t == th[p]
  IN  /\ At(p, "open")
      /\ IF t.dir = NULL THEN step(p, fs, [t EXCEPT !.inode = NULL, !.todo = k(p)])
         ELSE IF names_dir(t)
         THEN step(p, fs, [t EXCEPT !.inode = t.dir, !.dir = NULL, !.todo = k(p)])
         ELSE IF file_name(t) = ".."
         THEN goto(p, get_dir_parent_inode(fs, t, <<"close_dir">> \o k(p)))
         ELSE /\ Unlocked(t.dir)
              /\ goto(p, dir_lookup(p, fs, t, file_name(t), <<"close_dir">> \o k(p)))
      /\ Note(Case(unread(fs, t.dir), "unread")) /\ Keep

close_dir(p) ==
  LET t == th[p]
  IN  /\ At(p, "close_dir")
      /\ goto(p, close(fs, t, k(p)))
      /\ UNCHANGED broken /\ Keep

(* Mutant: descriptors are numbered by the length of the list.             *)
fd_by_length(list) == Len(list) + 2
allocate_fd(list) == IF list = <<>> THEN 2 ELSE Last(list).fd + 1

(* k_open(): a directory is a struct dir behind the same descriptor type.  *)
new_fd(p) ==
  LET t == th[p]
  IN  /\ At(p, "new_fd")
      /\ step(p, fs, [t EXCEPT !.todo = k(p), !.inode = NULL])
      /\ fds' = IF t.inode = NULL THEN fds
                ELSE [fds EXCEPT ![p] = Append(@, [fd |-> allocate_fd(@), inode |-> t.inode,
                        pos |-> 0, dir |-> fs.inodes[t.inode].data.is_dir])]
      /\ Note(Case(unread(fs, t.inode), "unread"))
      /\ UNCHANGED <<cwd, calls>>

(* load(): what is in the file decides; writes are denied at the end.      *)
load(p) ==
  LET t == th[p]
  IN  /\ At(p, "load")
      /\ \/ /\ t.inode = NULL
            /\ step(p, fs, [t EXCEPT !.todo = <<"exit">>])
         \/ /\ t.inode # NULL
            /\ goto(p, closing(fs, [t EXCEPT !.inode = NULL], t.inode, <<"exit">>))
         \/ /\ t.inode # NULL /\ ~fs.inodes[t.inode].data.is_dir
            /\ step(p, [fs EXCEPT !.inodes[t.inode].deny_write_cnt = @ + 1],
                       [t EXCEPT !.todo = <<"loaded">>])
      /\ Note(Case(unread(fs, t.inode), "unread")) /\ Keep

(* file_close() at the end of load() allows writes again.                  *)
loaded(p) ==
  LET t == th[p]
      f == [fs EXCEPT !.inodes[t.inode].deny_write_cnt = @ - 1]
  IN  /\ At(p, "loaded")
      /\ goto(p, closing(f, [t EXCEPT !.inode = NULL], t.inode, <<>>))
      /\ UNCHANGED broken /\ Keep

-----------------------------------------------------------------------------
(* filesys_chdir() *)

(* The old directory is not closed when the new one is "." or "/".         *)
chdir(p) ==
  LET t == th[p]
  IN  /\ At(p, "chdir")
      /\ IF t.dir # NULL /\ names_dir(t)
         THEN /\ step(p, leak(fs, cwd[p]), [t EXCEPT !.dir = NULL, !.todo = k(p)])
              /\ cwd' = [cwd EXCEPT ![p] = t.dir]
         ELSE /\ IF t.dir = NULL THEN step(p, fs, [t EXCEPT !.todo = k(p)])
                 ELSE IF file_name(t) = ".."
                 THEN goto(p, get_dir_parent_inode(fs, t, <<"close_dir", "new_cwd">> \o k(p)))
                 ELSE /\ Unlocked(t.dir)
                      /\ goto(p, dir_lookup(p, fs, t, file_name(t),
                                            <<"close_dir", "new_cwd">> \o k(p)))
              /\ UNCHANGED cwd
      /\ Note(Case(unread(fs, t.dir), "unread")) /\ UNCHANGED <<fds, calls>>

(* dir_open() takes any inode.                                             *)
new_cwd(p) ==
  LET t == th[p]
  IN  /\ At(p, "new_cwd")
      /\ IF t.inode = NULL THEN step(p, fs, [t EXCEPT !.todo = k(p)]) /\ UNCHANGED cwd
         ELSE /\ goto(p, closing(fs, [t EXCEPT !.inode = NULL], cwd[p], k(p)))
              /\ cwd' = [cwd EXCEPT ![p] = t.inode]
      /\ Note(Case(unread(fs, t.inode), "unread")
              \cup Case(t.inode # NULL /\ ~fs.inodes[t.inode].data.is_dir, "file_as_dir"))
      /\ UNCHANGED <<fds, calls>>

-----------------------------------------------------------------------------
(* System calls *)

Ready(p) == th[p] = Idle /\ broken = {}
Count(p) == calls[p] < MaxCalls[p] /\ calls' = [calls EXCEPT ![p] = @ + 1]
Locked == {"create", "mkdir", "remove", "open"}

program(call) ==
  (CASE call = "open" -> <<"open", "new_fd">>
     [] call = "load" -> <<"start", "open", "load">>
     [] OTHER -> <<call>>)
begin(call, path) ==
  [Idle EXCEPT !.todo = program(call), !.abs = path.abs, !.parts = path.parts]

(* k_create(), k_mkdir(), k_remove() and k_open() hold file_lock,          *)
(* k_chdir() does not.                                                     *)
path_call(p, call, path) ==
  /\ Ready(p) /\ Count(p)
  /\ call = "open" => Len(fds[p]) < MaxFds
  /\ call \in Locked => file_lock = NoProc
  /\ LET r == dir_start(p, begin(call, path))
     IN  fs' = r.fs /\ th' = [th EXCEPT ![p] = r.th]
  /\ file_lock' = IF call \in Locked THEN p ELSE file_lock
  /\ UNCHANGED <<fds, cwd, broken>>

(* k_close().  file_close() reads deny_write, which a struct dir does not  *)
(* have: the byte is whatever the block held before.                       *)
k_close(p, i) ==
  LET file == fds[p][i]
      r == closing(fs, Idle, file.inode, <<>>)
  IN  /\ Ready(p) /\ file_lock = NoProc
      /\ fs' = r.fs /\ th' = [th EXCEPT ![p] = r.th]
      /\ file_lock' = IF r.th = Idle THEN NoProc ELSE p
      /\ fds' = [fds EXCEPT ![p] = RemoveAt(@, i)]
      /\ \E deny_write \in IF file.dir THEN BOOLEAN ELSE {FALSE} :
           Note(Case(deny_write, "garbage"))
      /\ UNCHANGED <<cwd, calls>>

Pos(p, i, pos) == fds' = [fds EXCEPT ![p][i].pos = pos]

(* k_read() and k_write() move the position by what they transfer.         *)
(* k_write() fails for directories and when writes are denied.  (k_read()  *)
(* and k_seek() of a directory are left out.)                              *)
k_read(p, i) ==
  /\ Ready(p) /\ file_lock = NoProc /\ ~fds[p][i].dir
  /\ \E n \in 0 .. MaxPos : fds[p][i].pos + n <= MaxPos /\ Pos(p, i, fds[p][i].pos + n)
  /\ UNCHANGED <<fs, cwd, file_lock, th, broken, calls>>

k_write(p, i) ==
  LET n == fs.inodes[fds[p][i].inode]
  IN  ~n.data.is_dir /\ n.deny_write_cnt = 0 /\ k_read(p, i)

k_seek(p, i, pos) ==
  /\ Ready(p) /\ file_lock = NoProc /\ ~fds[p][i].dir
  /\ Pos(p, i, pos)
  /\ UNCHANGED <<fs, cwd, file_lock, th, broken, calls>>

(* k_readdir() without file_lock: the slots after the position up to the   *)
(* next one that is in use.                                                *)
k_readdir(p, i) ==
  LET file == fds[p][i]
      next == {j \in DOMAIN slots(fs, file.inode) :
                 j > file.pos /\ slots(fs, file.inode)[j] # NoEntry}
  IN  /\ Ready(p) /\ file.dir /\ Unlocked(file.inode)
      /\ Pos(p, i, IF next = {} THEN Max({file.pos, Len(slots(fs, file.inode))}) ELSE Min(next))
      /\ UNCHANGED <<fs, cwd, file_lock, th, broken, calls>>

(* thread_create() gives the child a current directory of its own; the     *)
(* child loads its program without file_lock.                              *)
exec_program(p, q, path) ==
  /\ Ready(p) /\ th[q] = Unborn /\ Count(p)
  /\ th' = [th EXCEPT ![q] = begin("load", path)]
  /\ cwd' = [cwd EXCEPT ![q] = cwd[p]]
  /\ fs' = IF cwd[p] = NULL THEN fs ELSE reopen(fs, cwd[p])
  /\ UNCHANGED <<fds, file_lock, broken>>

(* process_exit() closes neither the files nor the current directory.      *)
end_process(p) ==
  /\ fs' = FoldLeft(leak, fs, [i \in DOMAIN fds[p] |-> fds[p][i].inode] \o <<cwd[p]>>)
  /\ fds' = [fds EXCEPT ![p] = <<>>]
  /\ cwd' = [cwd EXCEPT ![p] = NULL]
  /\ th' = [th EXCEPT ![p] = Unborn]
  /\ UNCHANGED <<file_lock, broken, calls>>

load_failed(p) == At(p, "exit") /\ end_process(p)
call_of_exit(p) == p # Main /\ Ready(p) /\ end_process(p)

Work(p) ==
  \/ insert(p) \/ read(p) \/ write_inode(p)
  \/ start(p) \/ walk(p) \/ enter(p)
  \/ create(p) \/ add(p) \/ set_parent(p) \/ add_entry(p)
  \/ remove(p) \/ erase(p) \/ finish(p)
  \/ open(p) \/ close_dir(p) \/ new_fd(p) \/ load(p) \/ loaded(p) \/ load_failed(p)
  \/ chdir(p) \/ new_cwd(p)

Call(p) ==
  \/ \E path \in Path : \/ \E call \in Does[p] \ {"exec"} : path_call(p, call, path)
                        \/ \E q \in Proc : "exec" \in Does[p] /\ exec_program(p, q, path)
  \/ \E i \in DOMAIN fds[p] : \/ k_close(p, i) \/ k_read(p, i) \/ k_write(p, i)
                              \/ \E pos \in 0 .. MaxPos : k_seek(p, i, pos)
                              \/ k_readdir(p, i)
  \/ call_of_exit(p)

FilesNext == \E p \in Proc : Work(p) \/ Call(p)
FilesSpec == FilesInit /\ [][FilesNext]_vars

-----------------------------------------------------------------------------
(* Properties *)

Open == {i \in Id : fs.inodes[i] # Unused}
Busy(p) == th[p].todo # <<>>
Users(i) ==
    Cardinality({<<p, j>> \in Proc \X (1 .. MaxFds) : j \in DOMAIN fds[p] /\ fds[p][j].inode = i})
  + Cardinality({p \in Proc : cwd[p] = i}) + fs.leaks[i]
  + Cardinality({p \in Proc : th[p].dir = i}) + Cardinality({p \in Proc : th[p].inode = i})

(* inode_open(), inode_reopen() and inode_close() keep the count right     *)
(* over all calls: a struct inode is on the list exactly as long as some   *)
(* descriptor, current directory, call or lost reference uses it, and      *)
(* writes are denied exactly while load() has the file open.  Nobody keeps *)
(* a lock after a call.  No two open files of a process have the same      *)
(* descriptor.                                                             *)
RefsExact ==
  broken = {} =>
    /\ \A p \in Proc : \A i, j \in DOMAIN fds[p] : fds[p][i].fd = fds[p][j].fd => i = j
    /\ \A i \in Id : IF i \in Open
         THEN LET n == fs.inodes[i]
              IN  /\ n.open_cnt = Users(i) /\ (n.listed <=> n.open_cnt > 0)
                  /\ n.deny_write_cnt = Cardinality({p \in Proc : th[p].inode = i /\ At(p, "loaded")})
                  /\ n.holder # NoProc => Busy(n.holder) /\ th[n.holder].dir = i
         ELSE Users(i) = 0
    /\ file_lock # NoProc => Busy(file_lock)

(* The inode of a sector: in memory if it is open.                         *)
Data(s) == LET i == {j \in Open : fs.inodes[j].sector = s}
           IN  IF \E j \in i : ~unread(fs, j)
               THEN fs.inodes[CHOOSE j \in i : ~unread(fs, j)].data ELSE fs.disk[s]
Entries(s) == {<<d, j>> \in fs.used \X (1 .. SectorCnt) :
                 j \in DOMAIN fs.entries[d] /\ fs.entries[d][j].sector = s}
Removed(s) == \E i \in Open : fs.inodes[i].sector = s /\ fs.inodes[i].removed
InCreation(s) == \E p \in Proc : th[p].new = s /\ \E op \in {"add", "entry"} :
                    op \in Range(th[p].todo)

(* dir_add() and dir_remove() keep a tree: a used sector other than the    *)
(* root has one entry, in the directory it names as its parent, or none    *)
(* when it is being created or has been removed and is still open.  Names  *)
(* in a directory are distinct.  A directory that a process uses stays in  *)
(* the tree.                                                               *)
TreeExact ==
  broken = {} =>
    /\ \A s \in fs.used \ {ROOT_DIR_SECTOR} :
         IF Removed(s) \/ InCreation(s) THEN Entries(s) = {}
         ELSE \E d \in fs.used, j \in 1 .. SectorCnt :
                Entries(s) = {<<d, j>>} /\ Data(s).parent = d
    /\ \A d \in fs.used : \A i, j \in DOMAIN fs.entries[d] :
         /\ fs.entries[d][i] # NoEntry => fs.entries[d][i].sector \in fs.used
         /\ fs.entries[d][i].name = fs.entries[d][j].name
              => i = j \/ fs.entries[d][i] = NoEntry
    /\ \A i \in Open : /\ fs.inodes[i].sector \in fs.used
                       /\ fs.inodes[i].data.is_dir => ~fs.inodes[i].removed

(* file_lock, directory locks and the unlocked callers wait for each other *)
(* in no circle: while a process is in a call, one of those that are can   *)
(* go on.                                                                  *)
NoGridlock ==
  broken = {} /\ (\E p \in Proc : Busy(p)) => \E p \in Proc : ENABLED Work(p)

(* inode.c:186: opening a single inode twice returns the same struct.      *)
OneInodePerSector == \A s \in Sector : Cardinality(Listed(fs, s)) <= 1

=============================================================================
