---------------------------- MODULE AddressSpace -----------------------------
(***************************************************************************)
(* User address spaces: load() and its helpers and process_exit() in       *)
(* userprog/process.c over the page tables of userprog/pagedir.c.  Two     *)
(* levels of tables map pages filled from an executable; the processor's   *)
(* page directory register follows every thread switch; page allocation    *)
(* can fail at every step, because the rest of the kernel uses the pools   *)
(* too.  A step ends wherever the timer can switch.                        *)
(***************************************************************************)
EXTENDS Integers, Sequences

CONSTANTS
  User, Kernel,     \* threads that load programs; one that does not
  Frame,            \* pages of the pool: positive numbers
  PageSize,
  PT_SIZE,          \* entries of a page table
  PHYS_BASE,        \* addresses below are user addresses
  ADDR,             \* number of addresses: arithmetic is modulo ADDR
  FileLength,       \* of the executables
  Program           \* executables of each thread: sequences of program headers

Word == 0 .. ADDR - 1
Header == [type : {"other", "bad"}] \cup
          [type : {"load"}, vaddr : Word, offset : Word, filesz : Word, memsz : Word,
           writable : BOOLEAN]

ASSUME AddressAssumption ==
  /\ PageSize \in Nat \ {0} /\ PT_SIZE \in Nat \ {0} /\ FileLength \in Nat
  /\ PHYS_BASE \in Nat \ {0} /\ PHYS_BASE % PageSize = 0
  /\ ADDR \in Nat /\ PHYS_BASE < ADDR
  /\ Frame \subseteq Nat \ {0} /\ Kernel \notin User
  /\ Program \in [User -> SUBSET Seq(Header)]

NULL_PAGE == 0     \* NULL, and the kernel's own page directory in cr3
UserPage == 0 .. PHYS_BASE \div PageSize - 1
StackPage == PHYS_BASE \div PageSize - 1

VARIABLES
  running,     \* the thread on the processor
  cr3,         \* the active page directory
  pagedir,     \* of each thread
  dir,         \* page directories: [pts: tables, map: mappings]
  data,        \* contents of pages
  unused,      \* pages of the pool that are free
  place,       \* place of each thread in load() or process_exit()
  prog, phnum, \* executable, headers read
  seg,         \* arguments of load_segment(), as they advance
  kpage,       \* page in the thread's hands
  dying        \* page directory that process_exit() is destroying

spaceVars == <<running, cr3, pagedir, dir, data, unused, place, prog, phnum, seg, kpage, dying>>

Filled(b) == [i \in 0 .. PageSize - 1 |-> b]
Junk == Filled(-1)     \* palloc_free_multiple() fills pages with 0xcc
EmptyDir == [pts |-> [n \in {p \div PT_SIZE : p \in UserPage} |-> NULL_PAGE],
             map |-> [p \in UserPage |-> [frame |-> NULL_PAGE, writable |-> FALSE]]]
NoSegment == [upage |-> 0, ofs |-> 0, read_bytes |-> 0, zero_bytes |-> 0, writable |-> FALSE]

SpaceInit ==
  /\ running = Kernel /\ cr3 = NULL_PAGE
  /\ pagedir = [t \in User \cup {Kernel} |-> NULL_PAGE]
  /\ dir = [f \in Frame |-> EmptyDir] /\ data = [f \in Frame |-> Junk] /\ unused = Frame
  /\ place = [t \in User |-> "start"] /\ prog = [t \in User |-> <<>>]
  /\ phnum = [t \in User |-> 0] /\ seg = [t \in User |-> NoSegment]
  /\ kpage = [t \in User |-> NULL_PAGE] /\ dying = [t \in User |-> NULL_PAGE]

In(t, s) == running = t /\ place[t] = s
proceed(t, s) == place' = [place EXCEPT ![t] = s]
(* The page palloc_get_page() takes, if there is one.                      *)
first_free == {f \in unused : \A g \in unused : f <= g}

-----------------------------------------------------------------------------
(* pagedir.c *)

pd_no(p) == p \div PT_SIZE
pagedir_get_page(pd, p) == dir[pd].map[p].frame

(* pagedir_set_page(): lookup_page() makes a page table if there is none.  *)
needs_table(pd, p) == dir[pd].pts[pd_no(p)] = NULL_PAGE
with_table(d, p, f) == [d EXCEPT !.pts[pd_no(p)] = f]
with_page(d, p, f, w) == [d EXCEPT !.map[p] = [frame |-> f, writable |-> w]]

pages_of(pd) ==
  ({pd} \cup {dir[pd].pts[n] : n \in DOMAIN dir[pd].pts}
        \cup {dir[pd].map[p].frame : p \in UserPage}) \ {NULL_PAGE}

palloc_free(fs) ==
  /\ unused' = unused \cup fs
  /\ data' = [f \in Frame |-> IF f \in fs THEN Junk ELSE data[f]]
  /\ dir' = [f \in Frame |-> IF f \in fs THEN EmptyDir ELSE dir[f]]

(* install_page() with the page in the thread's hands, and what load()     *)
(* does next.  A page that cannot be installed is freed.                   *)
install_page(t, p, w, next) ==
  LET pd == pagedir[t] f == kpage[t]
      table == needs_table(pd, p)
  IN \/ /\ pagedir_get_page(pd, p) = NULL_PAGE
        /\ \/ /\ ~table /\ UNCHANGED unused
              /\ dir' = [dir EXCEPT ![pd] = with_page(@, p, f, w)]
           \/ \E n \in first_free :
                /\ table /\ unused' = unused \ {n}
                /\ dir' = [dir EXCEPT ![pd] = with_page(with_table(@, p, n), p, f, w)]
        /\ proceed(t, next) /\ UNCHANGED data
     \/ /\ pagedir_get_page(pd, p) # NULL_PAGE \/ table
        /\ palloc_free({f}) /\ proceed(t, "exit")

-----------------------------------------------------------------------------
(* load() *)

(* pagedir_create()                                                        *)
create_pagedir(t) ==
  /\ In(t, "start")
  /\ \E e \in Program[t] : prog' = [prog EXCEPT ![t] = e]
  /\ \/ proceed(t, "exit") /\ UNCHANGED <<pagedir, unused>>
     \/ \E f \in first_free :
          /\ pagedir' = [pagedir EXCEPT ![t] = f]
          /\ unused' = unused \ {f} /\ proceed(t, "activate")
  /\ UNCHANGED <<running, cr3, dir, data, phnum, seg, kpage, dying>>

process_activate(t) ==
  /\ In(t, "activate")
  /\ cr3' = pagedir[t] /\ proceed(t, "headers")
  /\ UNCHANGED <<running, pagedir, dir, data, unused, prog, phnum, seg, kpage, dying>>

is_user_vaddr(a) == a < PHYS_BASE
plus(a, b) == (a + b) % ADDR

validate_segment(ph) ==
  /\ ph.offset % PageSize = ph.vaddr % PageSize /\ ph.offset <= FileLength
  /\ ph.memsz >= ph.filesz /\ ph.memsz # 0
  /\ is_user_vaddr(ph.vaddr) /\ is_user_vaddr(plus(ph.vaddr, ph.memsz))
  /\ plus(ph.vaddr, ph.memsz) >= ph.vaddr /\ ph.vaddr >= PageSize

round_up(n) == ((n + PageSize - 1) \div PageSize) * PageSize

(* Mutant: the segment's offset in its first page is forgotten.            *)
segment_from_start(ph) ==
  [upage |-> ph.vaddr \div PageSize, ofs |-> (ph.offset \div PageSize) * PageSize,
   read_bytes |-> ph.filesz, zero_bytes |-> round_up(ph.memsz) - ph.filesz,
   writable |-> ph.writable]

(* The arguments load() computes for load_segment().                       *)
segment(ph) ==
  LET page_offset == ph.vaddr % PageSize
      read == IF ph.filesz > 0 THEN page_offset + ph.filesz ELSE 0
  IN [upage |-> ph.vaddr \div PageSize, ofs |-> (ph.offset \div PageSize) * PageSize,
      read_bytes |-> read, zero_bytes |-> round_up(page_offset + ph.memsz) - read,
      writable |-> ph.writable]

(* One program header, or the stack after the last.  An executable that    *)
(* cannot be opened, or whose header is bad, is one with a "bad" header.   *)
next_header(t) ==
  /\ In(t, "headers")
  /\ IF phnum[t] = Len(prog[t]) THEN proceed(t, "stack") /\ UNCHANGED <<phnum, seg>>
     ELSE LET ph == prog[t][phnum[t] + 1]
          IN /\ phnum' = [phnum EXCEPT ![t] = @ + 1]
             /\ \/ ph.type = "other" /\ UNCHANGED <<place, seg>>
                \/ ph.type = "bad" /\ proceed(t, "exit") /\ UNCHANGED seg
                \/ /\ ph.type = "load" /\ validate_segment(ph)
                   /\ seg' = [seg EXCEPT ![t] = segment(ph)] /\ proceed(t, "segment")
                \/ /\ ph.type = "load" /\ ~validate_segment(ph)
                   /\ proceed(t, "exit") /\ UNCHANGED seg
  /\ UNCHANGED <<running, cr3, pagedir, dir, data, unused, prog, kpage, dying>>

page_read_bytes(s) == IF s.read_bytes < PageSize THEN s.read_bytes ELSE PageSize
page_zero_bytes(s) == PageSize - page_read_bytes(s)
(* The bytes of the file are numbered from 1.                              *)
page_contents(s) == [i \in 0 .. PageSize - 1 |-> IF i < page_read_bytes(s) THEN s.ofs + i + 1 ELSE 0]

(* load_segment(): a page is taken and filled from the file and with       *)
(* zeros.  Without a page, or after a short read, which gives the page     *)
(* back, load() fails.                                                     *)
fill_page(t) ==
  LET s == seg[t] IN
  /\ In(t, "segment")
  /\ \/ /\ s.read_bytes = 0 /\ s.zero_bytes = 0
        /\ proceed(t, "headers") /\ UNCHANGED <<unused, data, kpage>>
     \/ /\ s.read_bytes > 0 \/ s.zero_bytes > 0
        /\ \/ proceed(t, "exit") /\ UNCHANGED <<unused, data, kpage>>
           \/ \E f \in first_free :
                /\ page_read_bytes(s) > 0 => s.ofs + page_read_bytes(s) <= FileLength
                /\ unused' = unused \ {f} /\ data' = [data EXCEPT ![f] = page_contents(s)]
                /\ kpage' = [kpage EXCEPT ![t] = f] /\ proceed(t, "install")
  /\ UNCHANGED <<running, cr3, pagedir, dir, prog, phnum, seg, dying>>

install_segment(t) ==
  LET s == seg[t] IN
  /\ In(t, "install")
  /\ install_page(t, s.upage, s.writable, "segment")
  /\ seg' = [seg EXCEPT ![t] =
               [s EXCEPT !.read_bytes = @ - page_read_bytes(s), !.upage = @ + 1,
                         !.zero_bytes = @ - page_zero_bytes(s), !.ofs = @ + page_read_bytes(s)]]
  /\ kpage' = [kpage EXCEPT ![t] = NULL_PAGE]
  /\ UNCHANGED <<running, cr3, pagedir, prog, phnum, dying>>

(* setup_stack(): PAL_ZERO                                                 *)
stack_page(t) ==
  /\ In(t, "stack")
  /\ \/ proceed(t, "exit") /\ UNCHANGED <<unused, data, kpage>>
     \/ \E f \in first_free :
          /\ unused' = unused \ {f} /\ data' = [data EXCEPT ![f] = Filled(0)]
          /\ kpage' = [kpage EXCEPT ![t] = f] /\ proceed(t, "install_stack")
  /\ UNCHANGED <<running, cr3, pagedir, dir, prog, phnum, seg, dying>>

install_stack(t) ==
  /\ In(t, "install_stack")
  /\ install_page(t, StackPage, TRUE, "user")
  /\ kpage' = [kpage EXCEPT ![t] = NULL_PAGE]
  /\ UNCHANGED <<running, cr3, pagedir, prog, phnum, seg, dying>>

-----------------------------------------------------------------------------
(* process_exit() and switches *)

(* Mutant: cur->pagedir keeps its value.                                   *)
keep_pagedir(t) == pagedir' = pagedir
forget_pagedir(t) == pagedir' = [pagedir EXCEPT ![t] = NULL_PAGE]

(* From user code, or after a failed load().                               *)
exit_space(t) ==
  /\ In(t, "user") \/ In(t, "exit")
  /\ dying' = [dying EXCEPT ![t] = pagedir[t]]
  /\ forget_pagedir(t)
  /\ proceed(t, IF pagedir[t] = NULL_PAGE THEN "dead" ELSE "deactivate")
  /\ UNCHANGED <<running, cr3, dir, data, unused, prog, phnum, seg, kpage>>

pagedir_activate(t) ==
  /\ In(t, "deactivate")
  /\ cr3' = NULL_PAGE /\ proceed(t, "destroy")
  /\ UNCHANGED <<running, pagedir, dir, data, unused, prog, phnum, seg, kpage, dying>>

(* Mutant: the page tables themselves are kept.                            *)
frames_of(pd) == ({pd} \cup {dir[pd].map[p].frame : p \in UserPage}) \ {NULL_PAGE}
freed_with(pd) == pages_of(pd)

pagedir_destroy(t) ==
  /\ In(t, "destroy")
  /\ palloc_free(freed_with(dying[t]))
  /\ dying' = [dying EXCEPT ![t] = NULL_PAGE] /\ seg' = [seg EXCEPT ![t] = NoSegment]
  /\ phnum' = [phnum EXCEPT ![t] = 0] /\ prog' = [prog EXCEPT ![t] = <<>>]
  /\ proceed(t, "dead")
  /\ UNCHANGED <<running, cr3, pagedir, kpage>>

(* thread_schedule_tail() calls process_activate() for the new thread.     *)
switch_to(t) ==
  /\ t # running /\ (t \in User => place[t] # "dead")
  /\ running' = t /\ cr3' = pagedir[t]
  /\ UNCHANGED <<pagedir, dir, data, unused, place, prog, phnum, seg, kpage, dying>>

SpaceNext ==
  \/ \E t \in User :
       \/ create_pagedir(t) \/ process_activate(t) \/ next_header(t) \/ fill_page(t)
       \/ install_segment(t) \/ stack_page(t) \/ install_stack(t)
       \/ exit_space(t) \/ pagedir_activate(t) \/ pagedir_destroy(t)
  \/ \E t \in User \cup {Kernel} : switch_to(t)

SpaceSpec == SpaceInit /\ [][SpaceNext]_spaceVars

-----------------------------------------------------------------------------
(* Properties *)

(* The ordering that process_exit() calls crucial (process.c:167-173): the *)
(* active page directory is never one that has been freed, wherever the    *)
(* timer strikes; user code always runs on its own, and other threads on   *)
(* the kernel's.                                                           *)
ActiveDirectoryLives ==
  /\ cr3 \in {NULL_PAGE, pagedir[running]} \cup
             (IF running \in User /\ place[running] = "deactivate" THEN {dying[running]} ELSE {})
  /\ cr3 \notin unused
  /\ running \in User /\ place[running] = "user" => cr3 = pagedir[running]

(* The page directory of a thread, or what process_exit() still has of it. *)
space(t) == IF pagedir[t] # NULL_PAGE THEN pagedir[t] ELSE dying[t]
held(t) == ({kpage[t]} \ {NULL_PAGE}) \cup
           (IF space(t) = NULL_PAGE THEN {} ELSE pages_of(space(t)))

(* A page is the directory pd, or one page table of it, or mapped by one   *)
(* entry, or in the hands of the thread.                                   *)
one_role(pd, hand) ==
  LET d == dir[pd] IN
  /\ hand # pd
  /\ \A n \in DOMAIN d.pts : d.pts[n] # NULL_PAGE =>
       /\ d.pts[n] \notin {pd, hand} /\ \A p \in UserPage : d.map[p].frame # d.pts[n]
       /\ \A m \in DOMAIN d.pts : d.pts[m] = d.pts[n] => m = n
  /\ \A p \in UserPage : d.map[p].frame # NULL_PAGE =>
       /\ d.map[p].frame \notin {pd, hand}
       /\ \A q \in UserPage : d.map[q].frame = d.map[p].frame => q = p

(* pagedir_destroy(), and the error paths of load_segment(), setup_stack() *)
(* and install_page(): a page is free, or belongs to one address space in  *)
(* one role, or is in the hands of one thread; nothing is lost when        *)
(* processes are gone, however far they had come.                          *)
PagesAccounted ==
  /\ \A f \in Frame : f \in unused \/ \E t \in User : f \in held(t)
  /\ \A t \in User :
       /\ held(t) \subseteq Frame \ unused
       /\ pagedir[t] = NULL_PAGE \/ dying[t] = NULL_PAGE
       /\ space(t) # NULL_PAGE => one_role(space(t), kpage[t])
  /\ \A t, u \in User : t # u => held(t) \cap held(u) = {}

(* A loaded program has the image its headers describe: bytes of the file, *)
(* then zeros, at the addresses asked for, writable as asked for; an empty *)
(* stack; and nothing else, neither in page 0 nor in the kernel.           *)
ImageExact ==
  \A t \in User : place[t] = "user" =>
    LET d == dir[pagedir[t]]
        loads == {i \in 1 .. Len(prog[t]) : prog[t][i].type = "load"}
        covered(ph) == ph.vaddr \div PageSize .. (ph.vaddr + ph.memsz - 1) \div PageSize
    IN /\ \A i \in loads : LET ph == prog[t][i] IN
            /\ covered(ph) \subseteq UserPage \ {0, StackPage}
            /\ \A k \in 0 .. ph.memsz - 1 :
                 LET a == ph.vaddr + k m == d.map[a \div PageSize]
                 IN /\ m.frame # NULL_PAGE /\ m.writable = ph.writable
                    /\ data[m.frame][a % PageSize] = IF k < ph.filesz THEN ph.offset + k + 1 ELSE 0
       /\ d.map[StackPage].writable /\ data[d.map[StackPage].frame] = Filled(0)
       /\ \A p \in UserPage : d.map[p].frame # NULL_PAGE =>
            p = StackPage \/ \E i \in loads : p \in covered(prog[t][i])
=============================================================================
