----------------------------- MODULE SpaceProofs -----------------------------
(***************************************************************************)
(* Address spaces, for any number of threads, pages and programs: the      *)
(* active page directory is alive, every page is accounted for (SpaceInv), *)
(* and a loaded program has the image its headers describe (LoadInv).      *)
(***************************************************************************)
EXTENDS AddressSpace, TLAPS

(* A page or NULL, the numbers of page tables, and the places of a thread: *)
(* in load() with a page directory, and in process_exit() with one to      *)
(* destroy.                                                                *)
Page0 == Frame \cup {NULL_PAGE}
Tables == {pd_no(p) : p \in UserPage}
Loading == {"activate", "headers", "segment", "install", "stack", "install_stack", "user"}
Ending == {"deactivate", "destroy"}
Place == Loading \cup Ending \cup {"start", "exit", "dead"}

(* A page directory as pagedir.c builds it.                                *)
IsDir(d) ==
  /\ d = [pts |-> d.pts, map |-> d.map]
  /\ d.pts \in [Tables -> Page0]
  /\ d.map = [p \in UserPage |-> d.map[p]]
  /\ \A p \in UserPage : d.map[p].frame \in Page0

(* Types, as far as the theorems need them.                                *)
SpaceType ==
  /\ running \in User \cup {Kernel} /\ cr3 \in Page0
  /\ pagedir \in [User \cup {Kernel} -> Page0] /\ pagedir[Kernel] = NULL_PAGE
  /\ dying \in [User -> Page0] /\ kpage \in [User -> Page0]
  /\ dir = [f \in Frame |-> dir[f]] /\ \A f \in Frame : IsDir(dir[f])
  /\ unused \subseteq Frame
  /\ place \in [User -> Place]
  /\ seg = [t \in User |-> seg[t]]
  /\ prog = [t \in User |-> prog[t]] /\ phnum = [t \in User |-> phnum[t]]

(* What load_segment() has still to load ends below PHYS_BASE: it never    *)
(* asks pagedir_set_page() for a page outside the user's.                  *)
SegmentFits(s) ==
  /\ s = [upage |-> s.upage, ofs |-> s.ofs, read_bytes |-> s.read_bytes,
          zero_bytes |-> s.zero_bytes, writable |-> s.writable]
  /\ s.upage \in Nat /\ s.read_bytes \in Nat /\ s.zero_bytes \in Nat
  /\ \E k \in 0 .. StackPage + 1 :
       s.read_bytes + s.zero_bytes = k * PageSize /\ s.upage + k <= StackPage + 1

(* Which pages a thread has at each place.                                 *)
PlaceExact(t) ==
  /\ place[t] \in Loading => pagedir[t] # NULL_PAGE
  /\ place[t] \in Ending \cup {"start", "dead"} => pagedir[t] = NULL_PAGE
  /\ dying[t] # NULL_PAGE <=> place[t] \in Ending
  /\ kpage[t] # NULL_PAGE <=> place[t] \in {"install", "install_stack"}
  /\ place[t] = "start" => phnum[t] = 0
  /\ place[t] \in {"activate", "headers", "segment", "install"} =>
       prog[t] \in Program[t] /\ phnum[t] \in 0 .. Len(prog[t])
  /\ place[t] \in {"segment", "install"} => SegmentFits(seg[t])
  /\ place[t] = "install" => seg[t].read_bytes + seg[t].zero_bytes > 0

(* cr3 follows the running thread, except between the two assignments of   *)
(* load(), and of process_exit().                                          *)
RegisterExact ==
  /\ running = Kernel => cr3 = NULL_PAGE
  /\ running \in User =>
       \/ cr3 = pagedir[running]
       \/ place[running] = "activate" /\ cr3 = NULL_PAGE
       \/ place[running] = "deactivate" /\ cr3 = dying[running]

(* A free page holds no mappings.                                          *)
FreeIsEmpty == \A f \in unused : dir[f] = EmptyDir

(* The inductive invariant of load(), process_exit() and the page tables.  *)
SpaceInv ==
  /\ SpaceType /\ (\A t \in User : PlaceExact(t)) /\ RegisterExact
  /\ FreeIsEmpty /\ PagesAccounted

-----------------------------------------------------------------------------
(* Numbers: pages and addresses.                                           *)

(* Dividing by the page size, as pg_no() and pg_ofs() do.                  *)
LEMMA Divided ==
  ASSUME NEW a \in Nat, NEW n \in Nat \ {0}
  PROVE  /\ a \div n \in Nat /\ a % n \in 0 .. n - 1
         /\ a = n * (a \div n) + (a % n)
  BY SMT

(* Multiples of the page size are ordered as the page numbers are.         *)
LEMMA Ordered ==
  ASSUME NEW a \in Int, NEW b \in Int, NEW n \in Nat \ {0}, n * a < n * b
  PROVE  a < b
<1>1. ASSUME b <= a PROVE FALSE
  <2>1. PICK c \in Nat : a = b + c
    BY <1>1, a - b \in Nat
  <2>2. n * c \in Nat
    BY SMT
  <2>3. n * a = n * b + n * c
    BY <2>1, SMT
  <2> QED BY <2>2, <2>3, n * a \in Int, n * b \in Int
<1> QED BY <1>1

(* Addresses wrap around once at most.                                     *)
LEMMA Wrapped ==
  ASSUME NEW a \in Word, NEW b \in Word, ADDR \in Nat
  PROVE  plus(a, b) = IF a + b < ADDR THEN a + b ELSE a + b - ADDR
<1>1. a \in Nat /\ b \in Nat /\ a < ADDR /\ b < ADDR
  BY DEF Word
<1>2. ADDR \in Nat \ {0} /\ a + b \in Nat
  BY <1>1
<1>3. /\ (a + b) \div ADDR \in Nat /\ (a + b) % ADDR \in 0 .. ADDR - 1
      /\ a + b = ADDR * ((a + b) \div ADDR) + ((a + b) % ADDR)
  BY Zenon, <1>2, Divided
<1>4. ADDR * ((a + b) \div ADDR) < ADDR * 2
  BY <1>1, <1>3, SMT
<1>5. (a + b) \div ADDR < 2
  BY <1>2, <1>3, <1>4, Ordered
<1>6. CASE (a + b) \div ADDR = 0
  <2>1. a + b = ((a + b) % ADDR)
    BY <1>3, <1>6, SMT
  <2> QED BY <2>1, <1>1, <1>3 DEF plus
<1>7. CASE (a + b) \div ADDR = 1
  <2>1. a + b = ADDR + ((a + b) % ADDR)
    BY <1>3, <1>7, SMT
  <2> QED BY <2>1, <1>1, <1>3 DEF plus
<1> QED BY <1>3, <1>5, <1>6, <1>7

(* User pages are those below the one PHYS_BASE starts.                    *)
LEMMA UserPages ==
  /\ StackPage \in Nat /\ StackPage \in UserPage
  /\ PHYS_BASE = PageSize * (StackPage + 1)
  /\ UserPage = 0 .. StackPage
<1>1. /\ PHYS_BASE \div PageSize \in Nat
      /\ PHYS_BASE = PageSize * (PHYS_BASE \div PageSize) + (PHYS_BASE % PageSize)
  BY AddressAssumption, Divided
<1>2. PHYS_BASE = PageSize * (PHYS_BASE \div PageSize)
  BY <1>1, AddressAssumption, PageSize * (PHYS_BASE \div PageSize) \in Int
<1>3. PHYS_BASE \div PageSize # 0
  BY <1>2, AddressAssumption, SMT
<1>4. PHYS_BASE \div PageSize = StackPage + 1 /\ StackPage \in Nat
  BY <1>1, <1>3 DEF StackPage
<1> QED BY <1>2, <1>4 DEF UserPage, StackPage

(* validate_segment() and the rounding of load(): a segment it accepts     *)
(* ends below PHYS_BASE, in whole pages.                                   *)
LEMMA SegmentStarts ==
  ASSUME NEW ph \in Header, ph.type = "load", validate_segment(ph)
  PROVE  SegmentFits(segment(ph))
<1> DEFINE v == ph.vaddr  m == ph.memsz  r == ph.filesz
           u == v \div PageSize  o == v % PageSize
           n == o + m + PageSize - 1
           k == n \div PageSize
           read == IF r > 0 THEN o + r ELSE 0
<1>1. v \in Word /\ m \in Word /\ r \in Word
  BY DEF Header
<1>2. v \in Nat /\ m \in Nat /\ r \in Nat /\ PageSize \in Nat \ {0}
  BY <1>1, AddressAssumption DEF Word
<1>3. u \in Nat /\ o \in 0 .. PageSize - 1 /\ v = PageSize * u + o
  BY Zenon, <1>2, Divided
<1>4. n \in Nat
  BY <1>2, <1>3
<1>5. k \in Nat /\ n % PageSize \in 0 .. PageSize - 1 /\ n = PageSize * k + (n % PageSize)
  BY Zenon, <1>2, <1>4, Divided
<1>6. r <= m /\ m # 0 /\ v < PHYS_BASE /\ plus(v, m) < PHYS_BASE /\ v <= plus(v, m)
  <2>1. plus(v, m) \in Int
    BY <1>1, <1>2, Wrapped, AddressAssumption
  <2> QED BY <1>2, <2>1, AddressAssumption DEF validate_segment, is_user_vaddr
<1>7. v + m < PHYS_BASE
  BY <1>1, <1>2, <1>6, Wrapped, AddressAssumption DEF Word
<1>8. PHYS_BASE = PageSize * (StackPage + 1) /\ StackPage \in Nat
  BY UserPages
<1> HIDE DEF v, m, r, u, o, k
<1>9. PageSize * (u + k) < PageSize * (StackPage + 2)
  <2>1. PageSize * (u + k) = PageSize * u + PageSize * k
    BY <1>2, <1>3, <1>5, SMT
  <2>2. PageSize * (StackPage + 2) = PHYS_BASE + PageSize
    BY <1>2, <1>8, SMT
  <2>3. PageSize * u \in Int /\ PageSize * k \in Int
    BY <1>2, <1>3, <1>5
  <2> QED BY <1>2, <1>3, <1>5, <1>7, <2>1, <2>2, <2>3, AddressAssumption
<1>10. u + k < StackPage + 2
  BY <1>2, <1>3, <1>5, <1>8, <1>9, Ordered
<1>11. round_up(o + m) = k * PageSize
  BY <1>2, <1>3 DEF round_up, k
<1>12. k * PageSize \in Nat /\ read \in Nat /\ read <= k * PageSize
  <2>1. k * PageSize = PageSize * k /\ PageSize * k \in Nat
    BY <1>2, <1>5, SMT
  <2>2. o + m <= PageSize * k
    BY <1>2, <1>3, <1>5, <2>1
  <2> QED BY <1>2, <1>3, <1>6, <2>1, <2>2
<1>13. segment(ph) = [upage |-> u, ofs |-> (ph.offset \div PageSize) * PageSize,
                      read_bytes |-> read, zero_bytes |-> k * PageSize - read,
                      writable |-> ph.writable]
  BY <1>11 DEF segment, v, m, r, u, o
<1>14. read + (k * PageSize - read) = k * PageSize
  BY <1>12
<1>15. k \in 0 .. StackPage + 1 /\ u + k <= StackPage + 1
  BY <1>3, <1>5, <1>8, <1>10
<1> HIDE DEF read
<1> QED BY <1>3, <1>12, <1>13, <1>14, <1>15 DEF SegmentFits

(* load_segment() asks for a page only while one is left.                  *)
LEMMA SegmentPage ==
  ASSUME NEW s, SegmentFits(s), s.read_bytes + s.zero_bytes > 0
  PROVE  /\ s.upage \in UserPage
         /\ SegmentFits([s EXCEPT !.read_bytes = @ - page_read_bytes(s), !.upage = @ + 1,
                                  !.zero_bytes = @ - page_zero_bytes(s),
                                  !.ofs = @ + page_read_bytes(s)])
<1>1. PICK k \in 0 .. StackPage + 1 :
        s.read_bytes + s.zero_bytes = k * PageSize /\ s.upage + k <= StackPage + 1
  BY DEF SegmentFits
<1>2. s.upage \in Nat /\ s.read_bytes \in Nat /\ s.zero_bytes \in Nat
  BY DEF SegmentFits
<1>3. StackPage \in Nat /\ PageSize \in Nat \ {0} /\ UserPage = 0 .. StackPage
  BY UserPages, AddressAssumption
<1>4. k # 0 /\ k \in Nat
  BY <1>1, <1>2, <1>3, SMT
<1>5. k * PageSize = (k - 1) * PageSize + PageSize /\ (k - 1) * PageSize \in Nat
  <2>1. k - 1 \in Nat
    BY <1>4
  <2> QED BY <1>3, <1>4, <2>1, SMT
<1> DEFINE r == page_read_bytes(s)
           z == page_zero_bytes(s)
<1>6. /\ r \in Nat /\ z \in Nat /\ r + z = PageSize
      /\ s.read_bytes - r \in Nat /\ s.zero_bytes - z \in Nat
  <2>1. s.read_bytes + s.zero_bytes >= PageSize
    BY <1>1, <1>2, <1>3, <1>5
  <2>2. z = PageSize - r /\ r = (IF s.read_bytes < PageSize THEN s.read_bytes ELSE PageSize)
    BY DEF page_read_bytes, page_zero_bytes
  <2> HIDE DEF r, z
  <2>3. CASE s.read_bytes < PageSize
    BY <1>2, <1>3, <2>1, <2>2, <2>3
  <2>4. CASE ~(s.read_bytes < PageSize)
    BY <1>2, <1>3, <2>1, <2>2, <2>4
  <2> QED BY <2>3, <2>4
<1> DEFINE s2 == [s EXCEPT !.read_bytes = @ - r, !.upage = @ + 1, !.zero_bytes = @ - z, !.ofs = @ + r]
<1> HIDE DEF r, z
<1>7. s2.read_bytes = s.read_bytes - r /\ s2.zero_bytes = s.zero_bytes - z /\ s2.upage = s.upage + 1
  BY DEF SegmentFits
<1>8. s2.read_bytes + s2.zero_bytes = (k - 1) * PageSize
  <2>1. (s.read_bytes - r) + (s.zero_bytes - z) = (s.read_bytes + s.zero_bytes) - (r + z)
    BY <1>2, <1>6
  <2>2. @ = (k - 1) * PageSize
    BY <1>1, <1>5, <1>6, <1>3
  <2> QED BY <1>7, <2>1, <2>2
<1>9. k - 1 \in 0 .. StackPage + 1 /\ s2.upage + (k - 1) <= StackPage + 1
  BY <1>1, <1>2, <1>3, <1>4, <1>7
<1>10. SegmentFits(s2)
  <2>1. s2 = [upage |-> s2.upage, ofs |-> s2.ofs, read_bytes |-> s2.read_bytes,
              zero_bytes |-> s2.zero_bytes, writable |-> s2.writable]
    <3> DEFINE Fields == {"upage", "ofs", "read_bytes", "zero_bytes", "writable"}
    <3>1. s = [upage |-> s.upage, ofs |-> s.ofs, read_bytes |-> s.read_bytes,
               zero_bytes |-> s.zero_bytes, writable |-> s.writable]
      BY DEF SegmentFits
    <3>2. DOMAIN s = Fields
      BY <3>1, Zenon
    <3>3. s2 = [x \in Fields |-> s2[x]]
      BY <3>2, Zenon
    <3> HIDE DEF s2
    <3> QED BY <3>3, SMT
  <2> HIDE DEF s2
  <2> QED BY <1>2, <1>6, <1>7, <1>8, <1>9, <2>1 DEF SegmentFits
<1>11. s.upage \in UserPage
  BY <1>1, <1>2, <1>3, <1>4
<1> QED BY <1>10, <1>11 DEF s2, r, z

-----------------------------------------------------------------------------
(* Page directories and the pages they hold.                               *)

(* The pages a directory d at pd holds, by value.                          *)
InPages(f, pd, d) ==
  f # NULL_PAGE /\ (f = pd \/ (\E n \in Tables : f = d.pts[n])
                    \/ (\E p \in UserPage : f = d.map[p].frame))
(* A page has one role in the directory d at pd, or is in the hand.        *)
Roles(d, pd, hand) ==
  /\ hand # pd
  /\ \A n \in Tables : d.pts[n] # NULL_PAGE =>
       /\ d.pts[n] # pd /\ d.pts[n] # hand /\ \A p \in UserPage : d.map[p].frame # d.pts[n]
       /\ \A m \in Tables : d.pts[m] = d.pts[n] => m = n
  /\ \A p \in UserPage : d.map[p].frame # NULL_PAGE =>
       /\ d.map[p].frame # pd /\ d.map[p].frame # hand
       /\ \A q \in UserPage : d.map[q].frame = d.map[p].frame => q = p

(* The operators of the model, in terms of InPages and Roles.              *)
DirFacts ==
  \A pd : IsDir(dir[pd]) =>
    /\ \A f : f \in pages_of(pd) <=> InPages(f, pd, dir[pd])
    /\ \A hand : one_role(pd, hand) <=> Roles(dir[pd], pd, hand)

(* What pagedir_destroy() walks, and one_role(), depend on the directory.  *)
LEMMA DirsAre == DirFacts
<1> SUFFICES ASSUME NEW pd, IsDir(dir[pd])
             PROVE  /\ \A f : f \in pages_of(pd) <=> InPages(f, pd, dir[pd])
                    /\ \A hand : one_role(pd, hand) <=> Roles(dir[pd], pd, hand)
  BY DEF DirFacts
<1>1. DOMAIN dir[pd].pts = Tables
  BY DEF IsDir
<1>2. \A f : f \in pages_of(pd) <=> InPages(f, pd, dir[pd])
  BY <1>1 DEF pages_of, InPages
<1>3. \A hand : one_role(pd, hand) <=> Roles(dir[pd], pd, hand)
  BY <1>1 DEF one_role, Roles
<1> QED BY <1>2, <1>3

(* pagedir_create(): a directory with no mappings.                         *)
LEMMA EmptyIsDir ==
  /\ IsDir(EmptyDir)
  /\ \A pd : pd # NULL_PAGE => Roles(EmptyDir, pd, NULL_PAGE)
  /\ \A f, pd : InPages(f, pd, EmptyDir) <=> f # NULL_PAGE /\ f = pd
<1>1. /\ EmptyDir.pts = [n \in Tables |-> NULL_PAGE]
      /\ EmptyDir.map = [p \in UserPage |-> [frame |-> NULL_PAGE, writable |-> FALSE]]
      /\ EmptyDir = [pts |-> EmptyDir.pts, map |-> EmptyDir.map]
  BY DEF EmptyDir, Tables, pd_no
<1>2. /\ \A n \in Tables : EmptyDir.pts[n] = NULL_PAGE
      /\ \A p \in UserPage : EmptyDir.map[p].frame = NULL_PAGE
  BY <1>1
<1>3. IsDir(EmptyDir)
  <2>1. EmptyDir.map = [p \in UserPage |-> EmptyDir.map[p]]
    BY <1>1, Zenon
  <2>2. EmptyDir.pts \in [Tables -> Page0]
    BY <1>1 DEF Page0
  <2> QED BY <1>1, <1>2, <2>1, <2>2, Zenon DEF IsDir, Page0
<1>4. ASSUME NEW pd, pd # NULL_PAGE PROVE Roles(EmptyDir, pd, NULL_PAGE)
  BY <1>2, <1>4 DEF Roles
<1>5. ASSUME NEW pd, NEW f PROVE InPages(f, pd, EmptyDir) <=> f # NULL_PAGE /\ f = pd
  BY <1>2 DEF InPages
<1> QED BY <1>3, <1>4, <1>5

(* lookup_page() adds an empty page table.                                 *)
LEMMA DirWithTable ==
  ASSUME NEW d, IsDir(d), NEW p \in UserPage, NEW f \in Page0
  PROVE  LET d2 == with_table(d, p, f) IN
         /\ IsDir(d2) /\ d2.map = d.map /\ pd_no(p) \in Tables
         /\ \A n \in Tables : d2.pts[n] = IF n = pd_no(p) THEN f ELSE d.pts[n]
<1> DEFINE d2 == with_table(d, p, f)
<1>1. pd_no(p) \in Tables
  BY DEF Tables
<1>2. /\ d = [pts |-> d.pts, map |-> d.map] /\ d.pts \in [Tables -> Page0]
  BY DEF IsDir
<1>3. d2 = [pts |-> [d.pts EXCEPT ![pd_no(p)] = f], map |-> d.map]
  BY <1>2 DEF with_table
<1> HIDE DEF d2
<1>4. d2.pts = [d.pts EXCEPT ![pd_no(p)] = f] /\ d2.map = d.map
  BY <1>3
<1>5. d2.pts \in [Tables -> Page0] /\ d2 = [pts |-> d2.pts, map |-> d2.map]
  BY Zenon, <1>2, <1>3, <1>4
<1>6. \A n \in Tables : d2.pts[n] = IF n = pd_no(p) THEN f ELSE d.pts[n]
  BY <1>2, <1>4
<1>7. IsDir(d2)
  BY <1>4, <1>5 DEF IsDir
<1> QED BY <1>1, <1>4, <1>6, <1>7 DEF d2

(* pagedir_set_page() fills an entry.                                      *)
LEMMA DirWithPage ==
  ASSUME NEW d, IsDir(d), NEW p \in UserPage, NEW f \in Page0, NEW w
  PROVE  LET d2 == with_page(d, p, f, w) IN
         /\ IsDir(d2) /\ d2.pts = d.pts
         /\ \A q \in UserPage : d2.map[q].frame = IF q = p THEN f ELSE d.map[q].frame
<1> DEFINE d2 == with_page(d, p, f, w)
           e == [frame |-> f, writable |-> w]
<1>2. d = [pts |-> d.pts, map |-> d.map] /\ d.map = [q \in UserPage |-> d.map[q]]
  BY DEF IsDir
<1>3. d2 = [pts |-> d.pts, map |-> [d.map EXCEPT ![p] = e]]
  BY <1>2 DEF with_page
<1>4. d2.map = [d.map EXCEPT ![p] = e] /\ d2.pts = d.pts /\ e.frame = f
  BY <1>3
<1> HIDE DEF d2, e
<1>5. d2 = [pts |-> d2.pts, map |-> d2.map]
  BY <1>3, <1>4
<1>6. \A q \in UserPage : d2.map[q] = IF q = p THEN e ELSE d.map[q]
  BY <1>2, <1>4, Zenon
<1>7. d2.map = [q \in UserPage |-> d2.map[q]]
  BY <1>2, <1>4, Zenon
<1>8. \A q \in UserPage : d2.map[q].frame = IF q = p THEN f ELSE d.map[q].frame
  BY <1>4, <1>6
<1>9. IsDir(d2)
  BY <1>4, <1>5, <1>7, <1>8 DEF IsDir
<1> QED BY <1>4, <1>8, <1>9 DEF d2

(* The directory d2 maps p to the page k, and other pages as d does.       *)
EntrySet(d2, d, p, k, w) ==
  /\ d2.map[p].frame = k /\ d2.map[p].writable = w
  /\ \A q \in UserPage : q # p => d2.map[q] = d.map[q]
(* pagedir_set_page() does so, with a new page table or not.               *)
LEMMA MapWithPage ==
  ASSUME NEW d, IsDir(d), NEW p \in UserPage, NEW k, NEW w
  PROVE  /\ EntrySet(with_page(d, p, k, w), d, p, k, w)
         /\ \A f : EntrySet(with_page(with_table(d, p, f), p, k, w), d, p, k, w)
<1> DEFINE e == [frame |-> k, writable |-> w]
<1>1. d = [pts |-> d.pts, map |-> d.map] /\ d.map = [q \in UserPage |-> d.map[q]]
  BY DEF IsDir
<1>2. with_page(d, p, k, w).map = [d.map EXCEPT ![p] = e]
  BY <1>1 DEF with_page
<1>3. \A f : with_page(with_table(d, p, f), p, k, w).map = [d.map EXCEPT ![p] = e]
  BY <1>1 DEF with_page, with_table
<1>4. e.frame = k /\ e.writable = w
  OBVIOUS
<1> HIDE DEF e
<1>5. ASSUME NEW d2, d2.map = [d.map EXCEPT ![p] = e] PROVE EntrySet(d2, d, p, k, w)
  <2>1. d2.map[p] = e /\ \A q \in UserPage : q # p => d2.map[q] = d.map[q]
    BY Zenon, <1>1, <1>5
  <2> QED BY Zenon, <1>4, <2>1 DEF EntrySet
<1> QED BY Zenon, <1>2, <1>3, <1>5

(* A new page table has a role of its own.                                 *)
LEMMA RolesWithTable ==
  ASSUME NEW d, IsDir(d), NEW pd, NEW hand, Roles(d, pd, hand), NEW p \in UserPage,
         NEW f \in Frame, ~InPages(f, pd, d), f # hand, d.pts[pd_no(p)] = NULL_PAGE
  PROVE  LET d2 == with_table(d, p, f) IN
         /\ Roles(d2, pd, hand)
         /\ \A x : InPages(x, pd, d2) <=> InPages(x, pd, d) \/ x = f
<1> DEFINE d2 == with_table(d, p, f)
<1>1. f # NULL_PAGE /\ f \in Page0
  BY AddressAssumption DEF NULL_PAGE, Page0
<1>2. /\ d2.map = d.map /\ pd_no(p) \in Tables
      /\ \A n \in Tables : d2.pts[n] = IF n = pd_no(p) THEN f ELSE d.pts[n]
  BY <1>1, DirWithTable
<1> HIDE DEF d2
<1>3. Roles(d2, pd, hand)
  BY <1>1, <1>2 DEF Roles, InPages
<1>4. ASSUME NEW x PROVE InPages(x, pd, d2) <=> InPages(x, pd, d) \/ x = f
  <2>1. InPages(x, pd, d2) => InPages(x, pd, d) \/ x = f
    BY <1>2 DEF InPages
  <2>2. x = f => InPages(x, pd, d2)
    BY <1>1, <1>2 DEF InPages
  <2>3. InPages(x, pd, d) => InPages(x, pd, d2)
    BY <1>2 DEF InPages
  <2> QED BY <2>1, <2>2, <2>3
<1> QED BY <1>3, <1>4 DEF d2

(* install_page() gives the page in hand a role.                           *)
LEMMA RolesWithPage ==
  ASSUME NEW d, IsDir(d), NEW pd, pd # NULL_PAGE, NEW p \in UserPage, NEW f \in Frame,
         Roles(d, pd, f), d.map[p].frame = NULL_PAGE, NEW w
  PROVE  LET d2 == with_page(d, p, f, w) IN
         /\ Roles(d2, pd, NULL_PAGE)
         /\ \A x : InPages(x, pd, d2) <=> InPages(x, pd, d) \/ x = f
<1> DEFINE d2 == with_page(d, p, f, w)
<1>1. f # NULL_PAGE /\ f \in Page0
  BY AddressAssumption DEF NULL_PAGE, Page0
<1>2. /\ d2.pts = d.pts
      /\ \A q \in UserPage : d2.map[q].frame = IF q = p THEN f ELSE d.map[q].frame
  BY <1>1, DirWithPage
<1> HIDE DEF d2
<1>3. Roles(d2, pd, NULL_PAGE)
  BY <1>1, <1>2 DEF Roles
<1>4. ASSUME NEW x PROVE InPages(x, pd, d2) <=> InPages(x, pd, d) \/ x = f
  <2>1. InPages(x, pd, d2) => InPages(x, pd, d) \/ x = f
    BY <1>2 DEF InPages
  <2>2. x = f => InPages(x, pd, d2)
    BY <1>1, <1>2 DEF InPages
  <2>3. InPages(x, pd, d) => InPages(x, pd, d2)
    BY <1>2 DEF InPages
  <2> QED BY <2>1, <2>2, <2>3
<1> QED BY <1>3, <1>4 DEF d2

-----------------------------------------------------------------------------
(* Pages change hands.                                                     *)

(* The pages are divided between the threads, h, and the free ones, un.    *)
Partition(h, un) ==
  /\ \A f \in Frame : f \in un \/ \E t \in User : f \in h[t]
  /\ \A t \in User : h[t] \subseteq Frame \ un
  /\ \A t, u \in User : t # u => h[t] \cap h[u] = {}
Held == [t \in User |-> held(t)]
(* Each thread has one directory at most, whose pages have one role.       *)
SpacesExact ==
  \A t \in User : /\ pagedir[t] = NULL_PAGE \/ dying[t] = NULL_PAGE
                  /\ space(t) # NULL_PAGE => one_role(space(t), kpage[t])

(* PagesAccounted: the pages are divided, and each address space is sound. *)
LEMMA AccountedIs == PagesAccounted <=> Partition(Held, unused) /\ SpacesExact
<1>1. \A t \in User : Held[t] = held(t)
  BY DEF Held
<1> QED BY <1>1 DEF PagesAccounted, Partition, SpacesExact

(* palloc_get_page(): free pages become a thread's.                        *)
LEMMA Taken ==
  ASSUME NEW h, NEW un, Partition(h, un), NEW h2, NEW A \in SUBSET un, NEW t \in User,
         h2[t] = h[t] \cup A, \A u \in User \ {t} : h2[u] = h[u], un \subseteq Frame
  PROVE  Partition(h2, un \ A)
<1>1. \A f \in Frame : f \in un \ A \/ \E u \in User : f \in h2[u]
  BY DEF Partition
<1>2. \A u \in User : h2[u] \subseteq Frame \ (un \ A)
  BY DEF Partition
<1>3. \A u, v \in User : u # v => h2[u] \cap h2[v] = {}
  BY DEF Partition
<1> QED BY <1>1, <1>2, <1>3 DEF Partition

(* palloc_free_page(): a thread's pages become free.                       *)
LEMMA Given ==
  ASSUME NEW h, NEW un, Partition(h, un), NEW h2, NEW t \in User, NEW B \in SUBSET h[t],
         h2[t] = h[t] \ B, \A u \in User \ {t} : h2[u] = h[u]
  PROVE  Partition(h2, un \cup B)
<1>1. \A f \in Frame : f \in un \cup B \/ \E u \in User : f \in h2[u]
  BY DEF Partition
<1>2. \A u \in User : h2[u] \subseteq Frame \ (un \cup B)
  BY DEF Partition
<1>3. \A u, v \in User : u # v => h2[u] \cap h2[v] = {}
  BY DEF Partition
<1> QED BY <1>1, <1>2, <1>3 DEF Partition

(* What another thread has does not change when its directory does not.    *)
LEMMA OthersKept ==
  ASSUME NEW u \in User, space(u)' = space(u), kpage'[u] = kpage[u],
         space(u) # NULL_PAGE => dir'[space(u)] = dir[space(u)]
  PROVE  /\ held(u)' = held(u)
         /\ space(u) # NULL_PAGE => (one_role(space(u), kpage[u])' <=> one_role(space(u), kpage[u]))
<1>1. held(u)' = held(u)
  <2>1. space(u) # NULL_PAGE => pages_of(space(u))' = pages_of(space(u))
    BY DEF pages_of
  <2> QED BY <2>1 DEF held
<1>2. space(u) # NULL_PAGE => (one_role(space(u), kpage[u])' <=> one_role(space(u), kpage[u]))
  BY DEF one_role
<1> QED BY <1>1, <1>2

(* The part of the invariant that is about pages.                          *)
MemoryType ==
  /\ pagedir \in [User \cup {Kernel} -> Page0]
  /\ dying \in [User -> Page0] /\ kpage \in [User -> Page0]
  /\ dir = [f \in Frame |-> dir[f]] /\ \A f \in Frame : IsDir(dir[f])
  /\ unused \subseteq Frame
Memory == MemoryType /\ FreeIsEmpty /\ PagesAccounted

(* The directory of a thread is one of its pages, and has been allocated.  *)
LEMMA SpaceIsHeld ==
  ASSUME Memory, NEW t \in User, space(t) # NULL_PAGE
  PROVE  /\ space(t) \in Frame /\ space(t) \in held(t) /\ IsDir(dir[space(t)])
         /\ \A f : f \in held(t) <=> InPages(f, space(t), dir[space(t)])
                                     \/ (f = kpage[t] /\ f # NULL_PAGE)
         /\ Roles(dir[space(t)], space(t), kpage[t])
<1>1. space(t) \in Frame
  BY DEF Memory, MemoryType, space, Page0
<1>2. IsDir(dir[space(t)])
  BY <1>1 DEF Memory, MemoryType
<1>3. \A f : f \in held(t) <=> InPages(f, space(t), dir[space(t)])
                               \/ (f = kpage[t] /\ f # NULL_PAGE)
  BY <1>2, DirsAre DEF DirFacts, held
<1>4. one_role(space(t), kpage[t])
  BY DEF Memory, PagesAccounted
<1>5. Roles(dir[space(t)], space(t), kpage[t])
  BY <1>2, <1>4, DirsAre, Zenon DEF DirFacts
<1>6. space(t) \in held(t)
  BY <1>3 DEF InPages
<1> QED BY <1>1, <1>2, <1>3, <1>5, <1>6

(* Steps that leave the pages with the threads that have them.             *)
LEMMA MemoryKept ==
  ASSUME Memory, UNCHANGED <<dir, unused, kpage>>, MemoryType',
         \A t \in User : /\ space(t)' = space(t)
                         /\ pagedir'[t] = NULL_PAGE \/ dying'[t] = NULL_PAGE
  PROVE  Memory'
<1>1. \A t \in User :
        /\ held(t)' = held(t)
        /\ space(t) # NULL_PAGE => (one_role(space(t), kpage[t])' <=> one_role(space(t), kpage[t]))
  BY OthersKept
<1>2. PagesAccounted'
  BY <1>1 DEF Memory, PagesAccounted
<1> QED BY <1>2 DEF Memory, FreeIsEmpty

(* A step of t over the other threads' pages.                              *)
Elsewhere(t) ==
  \A u \in User \ {t} : /\ pagedir'[u] = pagedir[u] /\ dying'[u] = dying[u] /\ kpage'[u] = kpage[u]
                        /\ space(u) # NULL_PAGE => dir'[space(u)] = dir[space(u)]

(* When the pages t has taken or given are settled, so are all pages.      *)
LEMMA MemoryMoved ==
  ASSUME Memory, NEW t \in User, Elsewhere(t), MemoryType', FreeIsEmpty',
         pagedir'[t] = NULL_PAGE \/ dying'[t] = NULL_PAGE,
         space(t)' # NULL_PAGE => one_role(space(t), kpage[t])',
         \/ \E A \in SUBSET unused : held(t)' = held(t) \cup A /\ unused' = unused \ A
         \/ \E B \in SUBSET held(t) : held(t)' = held(t) \ B /\ unused' = unused \cup B
  PROVE  Memory'
<1>1. ASSUME NEW u \in User \ {t}
      PROVE  /\ space(u)' = space(u) /\ held(u)' = held(u)
             /\ space(u) # NULL_PAGE => (one_role(space(u), kpage[u])' <=> one_role(space(u), kpage[u]))
  <2>1. space(u)' = space(u)
    BY DEF Elsewhere, space
  <2> QED BY <2>1, OthersKept DEF Elsewhere
<1>2. SpacesExact'
  BY <1>1 DEF Memory, PagesAccounted, SpacesExact, Elsewhere
<1>3. (\A u \in User : Held[u] = held(u)) /\ (\A u \in User : Held'[u] = held(u)')
  BY DEF Held
<1>4. Partition(Held, unused)
  BY AccountedIs DEF Memory
<1>5. Partition(Held', unused')
  <2>1. \A u \in User \ {t} : Held'[u] = Held[u]
    BY <1>1, <1>3
  <2>2. CASE \E A \in SUBSET unused : held(t)' = held(t) \cup A /\ unused' = unused \ A
    <3>1. PICK A \in SUBSET unused : Held'[t] = Held[t] \cup A /\ unused' = unused \ A
      BY <1>3, <2>2
    <3>2. Partition(Held', unused \ A)
      BY Zenon, <1>4, <2>1, <3>1, Taken DEF Memory, MemoryType
    <3> QED BY <3>1, <3>2
  <2>3. CASE \E B \in SUBSET held(t) : held(t)' = held(t) \ B /\ unused' = unused \cup B
    <3>1. PICK B \in SUBSET Held[t] : Held'[t] = Held[t] \ B /\ unused' = unused \cup B
      BY <1>3, <2>3
    <3>2. Partition(Held', unused \cup B)
      BY Zenon, <1>4, <2>1, <3>1, Given
    <3> QED BY <3>1, <3>2
  <2> QED BY <2>2, <2>3
<1>6. PagesAccounted'
  <2>1. (PagesAccounted <=> Partition(Held, unused) /\ SpacesExact)'
    BY AccountedIs, PTL
  <2> QED BY <1>2, <1>5, <2>1 DEF Partition
<1> QED BY <1>6 DEF Memory

(* palloc_get_page() in load_segment() and setup_stack().                  *)
LEMMA HandTaken ==
  ASSUME Memory, NEW t \in User, NEW f \in unused, kpage[t] = NULL_PAGE, space(t) # NULL_PAGE,
         kpage' = [kpage EXCEPT ![t] = f], unused' = unused \ {f},
         UNCHANGED <<dir, pagedir, dying>>
  PROVE  Memory' /\ f # NULL_PAGE
<1>1. f \in unused /\ f \in Frame /\ f # NULL_PAGE
  BY AddressAssumption DEF Memory, MemoryType, NULL_PAGE
<1>2. kpage' = [kpage EXCEPT ![t] = f] /\ unused' = unused \ {f}
  OBVIOUS
<1>3. MemoryType'
  BY <1>1, <1>2 DEF Memory, MemoryType, Page0
<1>4. Elsewhere(t) /\ FreeIsEmpty' /\ kpage'[t] = f
  BY Zenon, <1>2 DEF Elsewhere, Memory, MemoryType, FreeIsEmpty
<1>5. space(t)' = space(t)
  BY DEF space
<1>6. /\ space(t) \in Frame /\ IsDir(dir[space(t)]) /\ Roles(dir[space(t)], space(t), NULL_PAGE)
      /\ \A x : x \in held(t) <=> InPages(x, space(t), dir[space(t)])
  BY SpaceIsHeld
<1>7. ~InPages(f, space(t), dir[space(t)])
  BY Zenon, <1>1, <1>6 DEF Memory, PagesAccounted
<1>8. Roles(dir[space(t)], space(t), f)
  BY <1>1, <1>6, <1>7 DEF Roles, InPages
<1>9. DirFacts'
  BY DirsAre, PTL
<1>10. one_role(space(t), kpage[t])'
  BY <1>4, <1>5, <1>6, <1>8, <1>9, Zenon DEF DirFacts
<1>11. \A x : (x \in held(t))' <=> InPages(x, space(t), dir[space(t)]) \/ x = f
  BY <1>1, <1>4, <1>5, <1>6, <1>9 DEF DirFacts, held
<1>12. held(t)' = held(t) \cup {f}
  BY <1>6, <1>11
<1>13. pagedir'[t] = NULL_PAGE \/ dying'[t] = NULL_PAGE
  BY DEF Memory, PagesAccounted
<1>14. \E A \in SUBSET unused : held(t)' = held(t) \cup A /\ unused' = unused \ A
  BY Zenon, <1>1, <1>2, <1>12
<1> QED BY <1>1, <1>3, <1>4, <1>5, <1>10, <1>13, <1>14, MemoryMoved

(* pagedir_create()                                                        *)
LEMMA DirTaken ==
  ASSUME Memory, NEW t \in User, NEW f \in unused, kpage[t] = NULL_PAGE,
         pagedir[t] = NULL_PAGE, dying[t] = NULL_PAGE,
         pagedir' = [pagedir EXCEPT ![t] = f], unused' = unused \ {f},
         UNCHANGED <<dir, kpage, dying>>
  PROVE  Memory' /\ pagedir'[t] # NULL_PAGE
<1>1. f \in unused /\ f \in Frame /\ f # NULL_PAGE /\ dir[f] = EmptyDir
  BY Zenon, AddressAssumption DEF Memory, MemoryType, NULL_PAGE, FreeIsEmpty
<1>2. pagedir' = [pagedir EXCEPT ![t] = f] /\ unused' = unused \ {f}
  OBVIOUS
<1>3. MemoryType'
  BY <1>1, <1>2 DEF Memory, MemoryType, Page0
<1>4. Elsewhere(t) /\ FreeIsEmpty' /\ pagedir'[t] = f
  BY Zenon, <1>2 DEF Elsewhere, Memory, MemoryType, FreeIsEmpty
<1>5. space(t)' = f /\ space(t) = NULL_PAGE
  BY <1>1, <1>4 DEF space
<1>6. DirFacts' /\ IsDir(dir'[f])
  <2>1. DirFacts'
    BY DirsAre, PTL
  <2>2. dir'[f] = EmptyDir
    BY <1>1
  <2> QED BY <2>1, <2>2, EmptyIsDir
<1>7. one_role(space(t), kpage[t])'
  BY <1>1, <1>5, <1>6, EmptyIsDir, Zenon DEF DirFacts
<1>8. \A x : (x \in held(t))' <=> x = f
  BY <1>1, <1>5, <1>6, EmptyIsDir DEF DirFacts, held
<1>9. held(t) = {}
  BY <1>5 DEF held
<1>10. held(t)' = held(t) \cup {f}
  BY <1>8, <1>9
<1>11. \E A \in SUBSET unused : held(t)' = held(t) \cup A /\ unused' = unused \ A
  BY Zenon, <1>1, <1>2, <1>10
<1> QED BY <1>1, <1>3, <1>4, <1>5, <1>7, <1>11, MemoryMoved

(* palloc_free_page() of pages of one thread leaves the others' alone.     *)
LEMMA FreedElsewhere ==
  ASSUME Memory, NEW t \in User, NEW fs \in SUBSET held(t), palloc_free(fs),
         \A u \in User \ {t} :
           pagedir'[u] = pagedir[u] /\ dying'[u] = dying[u] /\ kpage'[u] = kpage[u]
  PROVE  /\ Elsewhere(t) /\ FreeIsEmpty' /\ unused' = unused \cup fs /\ unused' \subseteq Frame
         /\ dir' = [f \in Frame |-> dir'[f]]
         /\ \A f \in Frame : IsDir(dir'[f])
         /\ \A f \in Frame : dir'[f] = IF f \in fs THEN EmptyDir ELSE dir[f]
<1>1. /\ unused' = unused \cup fs
      /\ dir' = [f \in Frame |-> IF f \in fs THEN EmptyDir ELSE dir[f]]
  BY DEF palloc_free
<1>2. fs \subseteq Frame
  BY DEF Memory, PagesAccounted
<1>3. \A f \in Frame : dir'[f] = IF f \in fs THEN EmptyDir ELSE dir[f]
  BY <1>1
<1>4. FreeIsEmpty'
  BY <1>1, <1>2, <1>3 DEF Memory, MemoryType, FreeIsEmpty
<1>5. ASSUME NEW u \in User \ {t}, space(u) # NULL_PAGE
      PROVE  dir'[space(u)] = dir[space(u)]
  <2>1. space(u) \in held(u) /\ space(u) \in Frame
    BY <1>5, SpaceIsHeld
  <2>2. space(u) \notin fs
    BY <2>1 DEF Memory, PagesAccounted
  <2> QED BY <1>3, <2>1, <2>2
<1>6. \A f \in Frame : IsDir(dir'[f])
  BY <1>3, EmptyIsDir DEF Memory, MemoryType
<1>7. dir' = [f \in Frame |-> dir'[f]]
  BY <1>1, Zenon
<1> QED BY <1>1, <1>2, <1>3, <1>4, <1>5, <1>6, <1>7 DEF Elsewhere, Memory, MemoryType

(* install_page() gives the page back when it cannot install it.           *)
LEMMA HandGiven ==
  ASSUME Memory, NEW t \in User, kpage[t] # NULL_PAGE, space(t) # NULL_PAGE,
         palloc_free({kpage[t]}), kpage' = [kpage EXCEPT ![t] = NULL_PAGE],
         UNCHANGED <<pagedir, dying>>
  PROVE  Memory'
<1> DEFINE k == kpage[t]
<1>1. /\ space(t) \in Frame /\ IsDir(dir[space(t)]) /\ Roles(dir[space(t)], space(t), k)
      /\ \A x : x \in held(t) <=> InPages(x, space(t), dir[space(t)]) \/ x = k
  BY SpaceIsHeld
<1>2. {k} \in SUBSET held(t) /\ k \in Frame
  BY <1>1 DEF Memory, MemoryType, Page0
<1>3. /\ Elsewhere(t) /\ FreeIsEmpty' /\ unused' = unused \cup {k} /\ unused' \subseteq Frame
      /\ dir' = [f \in Frame |-> dir'[f]]
      /\ \A f \in Frame : IsDir(dir'[f])
      /\ \A f \in Frame : dir'[f] = IF f \in {k} THEN EmptyDir ELSE dir[f]
  <2>1. \A u \in User \ {t} :
          pagedir'[u] = pagedir[u] /\ dying'[u] = dying[u] /\ kpage'[u] = kpage[u]
    BY DEF Memory, MemoryType
  <2> HIDE DEF k
  <2>2. palloc_free({k})
    BY DEF k
  <2> QED BY <1>2, <2>1, <2>2, FreedElsewhere
<1>4. MemoryType' /\ kpage'[t] = NULL_PAGE
  BY <1>3 DEF Memory, MemoryType, Page0
<1> HIDE DEF k
<1>5. space(t)' = space(t)
  BY DEF space
<1>6. space(t) # k /\ dir'[space(t)] = dir[space(t)]
  BY <1>1, <1>3 DEF Roles
<1>7. DirFacts'
  BY DirsAre, PTL
<1>8. Roles(dir[space(t)], space(t), NULL_PAGE)
  BY <1>1 DEF Roles
<1>9. one_role(space(t), kpage[t])'
  BY <1>1, <1>4, <1>5, <1>6, <1>7, <1>8, Zenon DEF DirFacts
<1>10. \A x : (x \in held(t))' <=> InPages(x, space(t), dir[space(t)])
  BY <1>1, <1>4, <1>5, <1>6, <1>7 DEF DirFacts, held
<1>11. ~InPages(k, space(t), dir[space(t)])
  BY <1>1 DEF Roles, InPages
<1>12. held(t)' = held(t) \ {k}
  BY <1>1, <1>10, <1>11
<1>13. pagedir'[t] = NULL_PAGE \/ dying'[t] = NULL_PAGE
  BY DEF Memory, PagesAccounted
<1>14. \E B \in SUBSET held(t) : held(t)' = held(t) \ B /\ unused' = unused \cup B
  BY Zenon, <1>2, <1>3, <1>12
<1> QED BY <1>3, <1>4, <1>5, <1>9, <1>13, <1>14, MemoryMoved

(* pagedir_destroy()                                                       *)
LEMMA SpaceGiven ==
  ASSUME Memory, NEW t \in User, kpage[t] = NULL_PAGE, pagedir[t] = NULL_PAGE,
         dying[t] # NULL_PAGE, palloc_free(pages_of(dying[t])),
         dying' = [dying EXCEPT ![t] = NULL_PAGE], UNCHANGED <<pagedir, kpage>>
  PROVE  Memory'
<1> DEFINE fs == pages_of(dying[t])
<1>1. space(t) = dying[t] /\ held(t) = fs
  BY DEF space, held
<1>2. palloc_free(fs)
  OBVIOUS
<1> HIDE DEF fs
<1>3. /\ Elsewhere(t) /\ FreeIsEmpty' /\ unused' = unused \cup fs /\ unused' \subseteq Frame
      /\ dir' = [f \in Frame |-> dir'[f]]
      /\ \A f \in Frame : IsDir(dir'[f])
  <2>1. \A u \in User \ {t} :
          pagedir'[u] = pagedir[u] /\ dying'[u] = dying[u] /\ kpage'[u] = kpage[u]
    BY DEF Memory, MemoryType
  <2> QED BY <1>1, <1>2, <2>1, FreedElsewhere
<1>4. MemoryType' /\ dying'[t] = NULL_PAGE
  BY <1>3 DEF Memory, MemoryType, Page0
<1>5. space(t)' = NULL_PAGE /\ held(t)' = {}
  BY <1>4 DEF space, held
<1>6. \E B \in SUBSET held(t) : held(t)' = held(t) \ B /\ unused' = unused \cup B
  BY Zenon, <1>1, <1>3, <1>5
<1> QED BY <1>3, <1>4, <1>5, <1>6, MemoryMoved

(* install_page() and pagedir_set_page()                                   *)
LEMMA HandInstalled ==
  ASSUME Memory, NEW t \in User, pagedir[t] # NULL_PAGE, kpage[t] # NULL_PAGE,
         NEW p \in UserPage, NEW w, pagedir_get_page(pagedir[t], p) = NULL_PAGE,
         NEW f, needs_table(pagedir[t], p) => f \in unused,
         dir' = [dir EXCEPT ![pagedir[t]] =
                   with_page(IF needs_table(pagedir[t], p) THEN with_table(@, p, f) ELSE @,
                             p, kpage[t], w)],
         unused' = IF needs_table(pagedir[t], p) THEN unused \ {f} ELSE unused,
         kpage' = [kpage EXCEPT ![t] = NULL_PAGE], UNCHANGED <<pagedir, dying>>
  PROVE  Memory'
<1> DEFINE pd == pagedir[t]  k == kpage[t]  d == dir[pd]
           table == needs_table(pd, p)
           A == IF table THEN {f} ELSE {}
           d1 == IF table THEN with_table(d, p, f) ELSE d
           d2 == with_page(d1, p, k, w)
<1>1. space(t) = pd /\ space(t)' = pd
  BY DEF space
<1>2. /\ pd \in Frame /\ pd \in held(t) /\ IsDir(d) /\ Roles(d, pd, k)
      /\ \A x : x \in held(t) <=> InPages(x, pd, d) \/ x = k
  BY <1>1, SpaceIsHeld
<1>3. A \subseteq unused /\ unused' = unused \ A
  BY DEF Memory, MemoryType
<1>4. k \in Frame /\ k \in held(t) /\ d.map[p].frame = NULL_PAGE /\ pd # NULL_PAGE
  BY Zenon, <1>2 DEF Memory, MemoryType, Page0, pagedir_get_page
<1>5. /\ IsDir(d1) /\ Roles(d1, pd, k) /\ d1.map[p].frame = NULL_PAGE
      /\ \A x : InPages(x, pd, d1) <=> InPages(x, pd, d) \/ x \in A
  <2>1. CASE table
    <3>1. f \in unused /\ f \in Frame
      BY ZenonT(40), <1>3, <2>1 DEF Memory, MemoryType
    <3>2. f # k /\ ~InPages(f, pd, d)
      BY <1>2, <1>4, <3>1 DEF Memory, PagesAccounted
    <3>3. d.pts[pd_no(p)] = NULL_PAGE /\ f \in Page0
      BY Zenon, <2>1, <3>1 DEF needs_table, Page0
    <3> HIDE DEF d, pd, k
    <3>4. IsDir(with_table(d, p, f)) /\ with_table(d, p, f).map = d.map
      BY Zenon, <1>2, <3>3, DirWithTable
    <3>5. /\ Roles(with_table(d, p, f), pd, k)
          /\ \A x : InPages(x, pd, with_table(d, p, f)) <=> InPages(x, pd, d) \/ x = f
      BY ZenonT(40), <1>2, <3>1, <3>2, <3>3, RolesWithTable
    <3> QED BY Zenon, <1>4, <2>1, <3>4, <3>5
  <2>2. CASE ~table
    BY <1>2, <1>4, <2>2
  <2> QED BY ZenonT(40), <2>1, <2>2
<1>6. dir' = [dir EXCEPT ![pd] = d2]
  OBVIOUS
<1>7. kpage' = [kpage EXCEPT ![t] = NULL_PAGE] /\ pagedir' = pagedir /\ dying' = dying
  BY ZenonT(40)
<1> HIDE DEF d1, d, k, pd, A, table
<1>8. IsDir(d2) /\ Roles(d2, pd, NULL_PAGE) /\ \A x : InPages(x, pd, d2) <=> InPages(x, pd, d1) \/ x = k
  <2>1. k \in Page0
    BY ZenonT(40), <1>4 DEF Page0
  <2>2. IsDir(d2)
    BY <1>5, <2>1, DirWithPage
  <2> QED BY <1>4, <1>5, <2>2, RolesWithPage
<1> HIDE DEF d2
<1>9. dir'[pd] = d2 /\ \A g \in Frame \ {pd} : dir'[g] = dir[g]
  BY <1>2, <1>6 DEF Memory, MemoryType
<1>10. MemoryType' /\ kpage'[t] = NULL_PAGE
  <2>1. dir' = [g \in Frame |-> dir'[g]]
    BY <1>6, Zenon DEF Memory, MemoryType
  <2>2. \A g \in Frame : IsDir(dir'[g])
    BY <1>8, <1>9 DEF Memory, MemoryType
  <2>3. kpage' \in [User -> Page0] /\ kpage'[t] = NULL_PAGE
    BY <1>7 DEF Memory, MemoryType, Page0
  <2> QED BY <1>3, <1>7, <2>1, <2>2, <2>3 DEF Memory, MemoryType
<1>11. FreeIsEmpty'
  <2>1. pd \notin unused
    BY <1>2 DEF Memory, PagesAccounted
  <2> QED BY ZenonT(40), <1>3, <1>9, <2>1 DEF Memory, MemoryType, FreeIsEmpty
<1>12. Elsewhere(t)
  <2>1. ASSUME NEW u \in User \ {t}, space(u) # NULL_PAGE PROVE dir'[space(u)] = dir[space(u)]
    <3>1. space(u) \in held(u) /\ space(u) \in Frame
      BY ZenonT(40), <2>1, SpaceIsHeld
    <3>2. space(u) # pd
      BY <1>2, <3>1 DEF Memory, PagesAccounted
    <3> QED BY <1>9, <3>1, <3>2
  <2> QED BY <1>7, <2>1 DEF Elsewhere, Memory, MemoryType
<1>13. DirFacts'
  BY DirsAre, PTL
<1>14. one_role(space(t), kpage[t])'
  BY <1>1, <1>8, <1>9, <1>10, <1>13, ZenonT(40) DEF DirFacts
<1>15. \A x : (x \in held(t))' <=> InPages(x, pd, d2)
  BY Zenon, <1>1, <1>4, <1>8, <1>9, <1>10, <1>13 DEF DirFacts, held
<1>16. held(t)' = held(t) \cup A
  BY ZenonT(40), <1>2, <1>5, <1>8, <1>15
<1>17. pagedir'[t] = NULL_PAGE \/ dying'[t] = NULL_PAGE
  BY <1>7 DEF Memory, PagesAccounted
<1>18. \E B \in SUBSET unused : held(t)' = held(t) \cup B /\ unused' = unused \ B
  BY <1>3, <1>16
<1> QED BY Zenon, <1>10, <1>11, <1>12, <1>14, <1>17, <1>18, MemoryMoved

-----------------------------------------------------------------------------
(* Steps of load() and process_exit().                                     *)

(* A step of the running thread t, which leaves the others where they are. *)
StepOf(t) ==
  /\ running = t /\ running' = t /\ cr3' \in Page0 /\ place' \in [User -> Place]
  /\ pagedir'[Kernel] = pagedir[Kernel]
  /\ seg' = [u \in User |-> seg'[u]]
  /\ prog' = [u \in User |-> prog'[u]] /\ phnum' = [u \in User |-> phnum'[u]]
  /\ \A u \in User \ {t} :
       /\ place'[u] = place[u] /\ pagedir'[u] = pagedir[u] /\ dying'[u] = dying[u]
       /\ kpage'[u] = kpage[u] /\ phnum'[u] = phnum[u] /\ prog'[u] = prog[u] /\ seg'[u] = seg[u]

(* SpaceInv: its parts about pages.                                        *)
LEMMA InvMemory == SpaceInv => Memory
BY DEF SpaceInv, SpaceType, Memory, MemoryType

(* What is left to show of a step of one thread.                           *)
LEMMA Stepped ==
  ASSUME SpaceInv, NEW t \in User, StepOf(t), Memory', PlaceExact(t)',
         \/ cr3' = pagedir'[t]
         \/ place'[t] = "activate" /\ cr3' = NULL_PAGE
         \/ place'[t] = "deactivate" /\ cr3' = dying'[t]
  PROVE  SpaceInv'
<1>1. SpaceType'
  BY DEF SpaceInv, SpaceType, StepOf, Memory, MemoryType
<1>2. ASSUME NEW u \in User PROVE PlaceExact(u)'
  <2>1. CASE u = t
    BY <2>1
  <2>2. CASE u # t
    <3>1. PlaceExact(u)
      BY DEF SpaceInv
    <3>2. /\ place'[u] = place[u] /\ pagedir'[u] = pagedir[u] /\ dying'[u] = dying[u]
          /\ kpage'[u] = kpage[u] /\ phnum'[u] = phnum[u] /\ prog'[u] = prog[u] /\ seg'[u] = seg[u]
      BY <2>2 DEF StepOf
    <3> QED BY <3>1, <3>2, Zenon DEF PlaceExact
  <2> QED BY <2>1, <2>2
<1>3. RegisterExact'
  <2>1. running' = t /\ t # Kernel
    BY AddressAssumption DEF StepOf
  <2> QED BY <2>1 DEF RegisterExact
<1> QED BY <1>1, <1>2, <1>3 DEF SpaceInv, Memory

(* Where the running thread is, in terms of its pages.                     *)
LEMMA Here ==
  ASSUME SpaceInv, NEW t \in User, running = t
  PROVE  /\ PlaceExact(t) /\ place[t] \in Place /\ t # Kernel
         /\ \/ cr3 = pagedir[t]
            \/ place[t] = "activate" /\ cr3 = NULL_PAGE
            \/ place[t] = "deactivate" /\ cr3 = dying[t]
         /\ place[t] \in Loading => space(t) = pagedir[t] /\ space(t) # NULL_PAGE
BY AddressAssumption DEF SpaceInv, SpaceType, RegisterExact, PlaceExact, space

(* pagedir_create() in load()                                              *)
LEMMA CreateStep ==
  ASSUME SpaceInv, NEW t \in User, create_pagedir(t)
  PROVE  SpaceInv'
<1>1. running = t /\ place[t] = "start"
  BY DEF create_pagedir, In
<1>2. /\ pagedir[t] = NULL_PAGE /\ dying[t] = NULL_PAGE /\ kpage[t] = NULL_PAGE
      /\ phnum[t] = 0 /\ cr3 = NULL_PAGE
  BY <1>1, Here DEF PlaceExact, Ending
<1>3. PICK e \in Program[t] : prog' = [prog EXCEPT ![t] = e]
  BY ZenonT(40) DEF create_pagedir
<1>4. prog'[t] = e /\ Len(e) \in Nat /\ phnum[t] \in 0 .. Len(e)
  BY <1>2, <1>3, AddressAssumption DEF SpaceInv, SpaceType
<1>5. /\ UNCHANGED <<running, cr3, dir, data, phnum, seg, kpage, dying>>
      /\ place' \in [User -> Place] /\ (\A u \in User \ {t} : place'[u] = place[u])
      /\ \/ place'[t] = "exit" /\ UNCHANGED <<pagedir, unused>>
         \/ \E f \in unused : /\ place'[t] = "activate" /\ unused' = unused \ {f}
                              /\ pagedir' = [pagedir EXCEPT ![t] = f]
  BY DEF create_pagedir, first_free, proceed, SpaceInv, SpaceType, Place, Loading
<1>6. Memory' /\ (place'[t] = "activate" => pagedir'[t] # NULL_PAGE)
  <2>1. CASE place'[t] = "exit" /\ UNCHANGED <<pagedir, unused>>
    <3>1. MemoryType' /\ \A u \in User : space(u)' = space(u)
      BY Zenon, <1>5, <2>1, InvMemory DEF Memory, MemoryType, space
    <3>2. \A u \in User : pagedir'[u] = NULL_PAGE \/ dying'[u] = NULL_PAGE
      BY Zenon, <1>5, <2>1 DEF SpaceInv, PagesAccounted
    <3> QED BY Zenon, <1>5, <2>1, <3>1, <3>2, InvMemory, MemoryKept
  <2>2. CASE \E f \in unused : /\ place'[t] = "activate" /\ unused' = unused \ {f}
                               /\ pagedir' = [pagedir EXCEPT ![t] = f]
    BY Zenon, <1>2, <1>5, <2>2, InvMemory, DirTaken
  <2> QED BY Zenon, <1>5, <2>1, <2>2
<1>7. StepOf(t)
  <2>1. /\ \A u \in User \ {t} : pagedir'[u] = pagedir[u] /\ prog'[u] = prog[u]
        /\ pagedir'[Kernel] = pagedir[Kernel]
    BY <1>3, <1>5, AddressAssumption DEF SpaceInv, SpaceType
  <2>2. prog' = [u \in User |-> prog'[u]]
    BY <1>3, Zenon DEF SpaceInv, SpaceType
  <2> QED BY <1>1, <1>5, <2>1, <2>2 DEF StepOf, SpaceInv, SpaceType
<1>8. PlaceExact(t)'
  BY ZenonT(40), <1>2, <1>4, <1>5, <1>6 DEF PlaceExact, Loading, Ending
<1> QED BY ZenonT(40), <1>2, <1>5, <1>6, <1>7, <1>8, Stepped

(* Steps that touch no page.                                               *)
LEMMA PagesStay ==
  ASSUME Memory, UNCHANGED <<pagedir, dir, unused, kpage, dying>>
  PROVE  Memory'
<1>1. MemoryType' /\ \A u \in User : space(u)' = space(u)
  BY DEF Memory, MemoryType, space
<1>2. \A u \in User : pagedir'[u] = NULL_PAGE \/ dying'[u] = NULL_PAGE
  BY DEF Memory, PagesAccounted
<1> QED BY <1>1, <1>2, MemoryKept

(* process_activate() in load()                                            *)
LEMMA ActivateStep ==
  ASSUME SpaceInv, NEW t \in User, process_activate(t)
  PROVE  SpaceInv'
<1>1. running = t /\ place[t] = "activate"
  BY DEF process_activate, In
<1>2. /\ UNCHANGED <<running, pagedir, dir, data, unused, prog, phnum, seg, kpage, dying>>
      /\ cr3' = pagedir[t] /\ place' \in [User -> Place] /\ place'[t] = "headers"
      /\ \A u \in User \ {t} : place'[u] = place[u]
  BY DEF process_activate, proceed, SpaceInv, SpaceType, Place, Loading
<1>3. Memory'
  BY <1>2, InvMemory, PagesStay
<1>4. StepOf(t)
  BY Zenon, <1>1, <1>2 DEF StepOf, SpaceInv, SpaceType
<1>5. PlaceExact(t)'
  BY Zenon, <1>1, <1>2, Here DEF PlaceExact, Loading, Ending
<1> QED BY <1>2, <1>3, <1>4, <1>5, Stepped

(* The loop of load() over the program headers.                            *)
LEMMA HeaderStep ==
  ASSUME SpaceInv, NEW t \in User, next_header(t)
  PROVE  SpaceInv'
<1>1. running = t /\ place[t] = "headers"
  BY Zenon DEF next_header, In
<1>2. /\ pagedir[t] # NULL_PAGE /\ dying[t] = NULL_PAGE /\ kpage[t] = NULL_PAGE
      /\ cr3 = pagedir[t] /\ prog[t] \in Program[t] /\ phnum[t] \in 0 .. Len(prog[t])
  BY Zenon, <1>1, Here DEF PlaceExact, Loading, Ending
<1>3. UNCHANGED <<running, cr3, pagedir, dir, data, unused, prog, kpage, dying>>
  BY DEF next_header
<1>4. prog[t] \in Seq(Header) /\ Len(prog[t]) \in Nat
  BY <1>2, AddressAssumption
<1> DEFINE ph == prog[t][phnum[t] + 1]
<1>5. CASE phnum[t] = Len(prog[t])
  <2>1. /\ UNCHANGED <<phnum, seg>> /\ place' \in [User -> Place] /\ place'[t] = "stack"
        /\ \A u \in User \ {t} : place'[u] = place[u]
    BY ZenonT(40), <1>5 DEF next_header, proceed, SpaceInv, SpaceType, Place, Loading
  <2>2. Memory'
    BY <1>3, InvMemory, PagesStay
  <2>3. StepOf(t)
    BY Zenon, <1>1, <1>3, <2>1 DEF StepOf, SpaceInv, SpaceType
  <2>4. PlaceExact(t)'
    BY Zenon, <1>2, <1>3, <2>1 DEF PlaceExact, Loading, Ending
  <2> QED BY Zenon, <1>2, <1>3, <2>2, <2>3, <2>4, Stepped
<1>6. CASE phnum[t] # Len(prog[t])
  <2>1. /\ phnum' = [phnum EXCEPT ![t] = @ + 1]
        /\ \/ UNCHANGED <<place, seg>>
           \/ proceed(t, "exit") /\ UNCHANGED seg
           \/ /\ ph.type = "load" /\ validate_segment(ph)
              /\ seg' = [seg EXCEPT ![t] = segment(ph)] /\ proceed(t, "segment")
    BY <1>6 DEF next_header
  <2>2. ph \in Header /\ phnum[t] + 1 \in 0 .. Len(prog[t])
    BY <1>2, <1>4, <1>6
  <2> HIDE DEF ph
  <2>3. /\ phnum' = [u \in User |-> phnum'[u]] /\ phnum'[t] = phnum[t] + 1
        /\ \A u \in User \ {t} : phnum'[u] = phnum[u]
    BY Zenon, <2>1 DEF SpaceInv, SpaceType
  <2>4. /\ place' \in [User -> Place] /\ place'[t] \in {"headers", "exit", "segment"}
        /\ \A u \in User \ {t} : place'[u] = place[u]
    BY <1>1, <2>1 DEF proceed, SpaceInv, SpaceType, Place, Loading
  <2>5. /\ seg' = [u \in User |-> seg'[u]] /\ \A u \in User \ {t} : seg'[u] = seg[u]
    BY <2>1, Zenon DEF SpaceInv, SpaceType
  <2>6. place'[t] = "segment" => SegmentFits(seg'[t])
    <3>1. CASE place'[t] # "segment"
      BY <3>1
    <3>2. CASE place'[t] = "segment"
      <4>1. /\ ph.type = "load" /\ validate_segment(ph) /\ seg'[t] = segment(ph)
        BY Zenon, <1>1, <2>1, <3>2 DEF proceed, SpaceInv, SpaceType
      <4> QED BY <2>2, <4>1, SegmentStarts
    <3> QED BY <3>1, <3>2
  <2>7. Memory'
    BY <1>3, InvMemory, PagesStay
  <2>8. StepOf(t)
    BY Zenon, <1>1, <1>3, <2>3, <2>4, <2>5 DEF StepOf, SpaceInv, SpaceType
  <2>9. PlaceExact(t)'
    BY Zenon, <1>2, <1>3, <2>2, <2>3, <2>4, <2>6 DEF PlaceExact, Loading, Ending
  <2> QED BY SMTT(40), <1>2, <1>3, <2>7, <2>8, <2>9, Stepped
<1> QED BY Zenon, <1>5, <1>6

(* load_segment() takes a page for the next part of the file.              *)
LEMMA FillStep ==
  ASSUME SpaceInv, NEW t \in User, fill_page(t)
  PROVE  SpaceInv'
<1>1. running = t /\ place[t] = "segment"
  BY Zenon DEF fill_page, In
<1>2. /\ pagedir[t] # NULL_PAGE /\ dying[t] = NULL_PAGE /\ kpage[t] = NULL_PAGE
      /\ space(t) # NULL_PAGE /\ SegmentFits(seg[t])
      /\ cr3 = pagedir[t] /\ prog[t] \in Program[t] /\ phnum[t] \in 0 .. Len(prog[t])
  BY Zenon, <1>1, Here DEF PlaceExact, Loading, Ending
<1>3. UNCHANGED <<running, cr3, pagedir, dir, prog, phnum, seg, dying>>
  BY DEF fill_page
<1>4. /\ place' \in [User -> Place] /\ \A u \in User \ {t} : place'[u] = place[u]
      /\ \/ place'[t] \in {"headers", "exit"} /\ UNCHANGED <<unused, kpage>>
         \/ /\ place'[t] = "install" /\ (seg[t].read_bytes > 0 \/ seg[t].zero_bytes > 0)
            /\ \E f \in unused : unused' = unused \ {f} /\ kpage' = [kpage EXCEPT ![t] = f]
  BY Zenon DEF fill_page, first_free, proceed, SpaceInv, SpaceType, Place, Loading
<1>5. CASE place'[t] \in {"headers", "exit"} /\ UNCHANGED <<unused, kpage>>
  <2>1. Memory'
    BY Zenon, <1>3, <1>5, InvMemory, PagesStay
  <2>2. StepOf(t)
    BY Zenon, <1>1, <1>3, <1>4, <1>5 DEF StepOf, SpaceInv, SpaceType
  <2>3. PlaceExact(t)'
    BY Zenon, <1>2, <1>3, <1>5 DEF PlaceExact, Loading, Ending
  <2> QED BY Zenon, <1>2, <1>3, <2>1, <2>2, <2>3, Stepped
<1>6. CASE /\ place'[t] = "install" /\ (seg[t].read_bytes > 0 \/ seg[t].zero_bytes > 0)
           /\ \E f \in unused : unused' = unused \ {f} /\ kpage' = [kpage EXCEPT ![t] = f]
  <2>0. PICK f \in unused : unused' = unused \ {f} /\ kpage' = [kpage EXCEPT ![t] = f]
    BY Zenon, <1>6
  <2>1. Memory' /\ f # NULL_PAGE
    BY ZenonT(40), <1>2, <1>3, <2>0, InvMemory, HandTaken
  <2>2. kpage'[t] = f /\ \A u \in User \ {t} : kpage'[u] = kpage[u]
    BY ZenonT(40), <2>0 DEF SpaceInv, SpaceType
  <2>3. seg[t].read_bytes + seg[t].zero_bytes > 0
    BY <1>2, <1>6 DEF SegmentFits
  <2>4. StepOf(t)
    BY <1>1, <1>3, <1>4, <2>2 DEF StepOf, SpaceInv, SpaceType
  <2>5. PlaceExact(t)'
    BY Zenon, <1>2, <1>3, <1>6, <2>1, <2>2, <2>3 DEF PlaceExact, Loading, Ending
  <2> QED BY Zenon, <1>2, <1>3, <2>1, <2>4, <2>5, Stepped
<1> QED BY Zenon, <1>4, <1>5, <1>6

(* setup_stack() takes a page of zeros.                                    *)
LEMMA StackStep ==
  ASSUME SpaceInv, NEW t \in User, stack_page(t)
  PROVE  SpaceInv'
<1>1. running = t /\ place[t] = "stack"
  BY DEF stack_page, In
<1>2. /\ pagedir[t] # NULL_PAGE /\ dying[t] = NULL_PAGE /\ kpage[t] = NULL_PAGE
      /\ space(t) # NULL_PAGE /\ cr3 = pagedir[t]
  BY <1>1, Here DEF PlaceExact, Loading, Ending
<1>3. UNCHANGED <<running, cr3, pagedir, dir, prog, phnum, seg, dying>>
  BY DEF stack_page
<1>4. /\ place' \in [User -> Place] /\ \A u \in User \ {t} : place'[u] = place[u]
      /\ \/ place'[t] = "exit" /\ UNCHANGED <<unused, kpage>>
         \/ /\ place'[t] = "install_stack"
            /\ \E f \in unused : unused' = unused \ {f} /\ kpage' = [kpage EXCEPT ![t] = f]
  BY Zenon DEF stack_page, first_free, proceed, SpaceInv, SpaceType, Place, Loading
<1>5. CASE place'[t] = "exit" /\ UNCHANGED <<unused, kpage>>
  <2>1. Memory'
    BY <1>3, <1>5, InvMemory, PagesStay
  <2>2. StepOf(t)
    BY Zenon, <1>1, <1>3, <1>4, <1>5 DEF StepOf, SpaceInv, SpaceType
  <2>3. PlaceExact(t)'
    BY Zenon, <1>2, <1>3, <1>5 DEF PlaceExact, Loading, Ending
  <2> QED BY Zenon, <1>2, <1>3, <2>1, <2>2, <2>3, Stepped
<1>6. CASE /\ place'[t] = "install_stack"
           /\ \E f \in unused : unused' = unused \ {f} /\ kpage' = [kpage EXCEPT ![t] = f]
  <2>0. PICK f \in unused : unused' = unused \ {f} /\ kpage' = [kpage EXCEPT ![t] = f]
    BY Zenon, <1>6
  <2>1. Memory' /\ f # NULL_PAGE
    BY Zenon, <1>2, <1>3, <2>0, InvMemory, HandTaken
  <2>2. kpage'[t] = f /\ \A u \in User \ {t} : kpage'[u] = kpage[u]
    BY <2>0 DEF SpaceInv, SpaceType
  <2>3. StepOf(t)
    BY <1>1, <1>3, <1>4, <2>2 DEF StepOf, SpaceInv, SpaceType
  <2>4. PlaceExact(t)'
    BY Zenon, <1>2, <1>3, <1>6, <2>1, <2>2 DEF PlaceExact, Loading, Ending
  <2> QED BY <1>2, <1>3, <2>1, <2>3, <2>4, Stepped
<1> QED BY <1>4, <1>5, <1>6

(* install_page(): the page in hand is mapped, or given back.              *)
LEMMA InstallStep ==
  ASSUME SpaceInv, NEW t \in User, pagedir[t] # NULL_PAGE, kpage[t] # NULL_PAGE,
         NEW p \in UserPage, NEW w, NEW next, install_page(t, p, w, next),
         kpage' = [kpage EXCEPT ![t] = NULL_PAGE], UNCHANGED <<pagedir, dying>>
  PROVE  Memory' /\ (proceed(t, next) \/ proceed(t, "exit"))
<1>1. space(t) = pagedir[t] /\ Memory
  BY InvMemory DEF space
<1>2. CASE palloc_free({kpage[t]}) /\ proceed(t, "exit")
  BY Zenon, <1>1, <1>2, HandGiven
<1>3. CASE /\ pagedir_get_page(pagedir[t], p) = NULL_PAGE /\ proceed(t, next)
           /\ ~needs_table(pagedir[t], p) /\ UNCHANGED unused
           /\ dir' = [dir EXCEPT ![pagedir[t]] = with_page(@, p, kpage[t], w)]
  BY Zenon, <1>1, <1>3, HandInstalled
<1>4. CASE /\ pagedir_get_page(pagedir[t], p) = NULL_PAGE /\ proceed(t, next)
           /\ \E f \in unused : /\ needs_table(pagedir[t], p) /\ unused' = unused \ {f}
                               /\ dir' = [dir EXCEPT ![pagedir[t]] =
                                            with_page(with_table(@, p, f), p, kpage[t], w)]
  BY Zenon, <1>1, <1>4, HandInstalled
<1> QED BY ZenonT(40), <1>2, <1>3, <1>4 DEF install_page, first_free

(* load_segment() installs a page and advances.                            *)
LEMMA InstallSegmentStep ==
  ASSUME SpaceInv, NEW t \in User, install_segment(t)
  PROVE  SpaceInv'
<1> DEFINE s == seg[t]
           s2 == [s EXCEPT !.read_bytes = @ - page_read_bytes(s), !.upage = @ + 1,
                           !.zero_bytes = @ - page_zero_bytes(s), !.ofs = @ + page_read_bytes(s)]
<1>1. running = t /\ place[t] = "install"
  BY Zenon DEF install_segment, In
<1>2. /\ pagedir[t] # NULL_PAGE /\ dying[t] = NULL_PAGE /\ kpage[t] # NULL_PAGE
      /\ SegmentFits(s) /\ s.read_bytes + s.zero_bytes > 0
      /\ cr3 = pagedir[t] /\ prog[t] \in Program[t] /\ phnum[t] \in 0 .. Len(prog[t])
  BY <1>1, Here DEF PlaceExact, Loading, Ending
<1>3. /\ UNCHANGED <<running, cr3, pagedir, prog, phnum, dying>>
      /\ kpage' = [kpage EXCEPT ![t] = NULL_PAGE] /\ seg' = [seg EXCEPT ![t] = s2]
      /\ install_page(t, s.upage, s.writable, "segment")
  BY Zenon DEF install_segment
<1> HIDE DEF s
<1>4. s.upage \in UserPage /\ SegmentFits(s2)
  BY ZenonT(40), <1>2, SegmentPage
<1> HIDE DEF s2
<1>5. Memory' /\ (proceed(t, "segment") \/ proceed(t, "exit"))
  BY Zenon, <1>2, <1>3, <1>4, InstallStep
<1>6. /\ place' \in [User -> Place] /\ place'[t] \in {"segment", "exit"}
      /\ \A u \in User \ {t} : place'[u] = place[u]
  BY <1>5 DEF proceed, SpaceInv, SpaceType, Place, Loading
<1>7. seg' = [u \in User |-> seg'[u]] /\ seg'[t] = s2 /\ \A u \in User \ {t} : seg'[u] = seg[u]
  BY <1>3, Zenon DEF SpaceInv, SpaceType
<1>8. kpage'[t] = NULL_PAGE /\ \A u \in User \ {t} : kpage'[u] = kpage[u]
  BY <1>3 DEF SpaceInv, SpaceType
<1>9. StepOf(t)
  BY Zenon, <1>1, <1>3, <1>6, <1>7, <1>8 DEF StepOf, SpaceInv, SpaceType
<1>10. PlaceExact(t)'
  BY <1>2, <1>3, <1>4, <1>6, <1>7, <1>8 DEF PlaceExact, Loading, Ending
<1> QED BY Zenon, <1>2, <1>3, <1>5, <1>9, <1>10, Stepped

(* setup_stack() installs its page.                                        *)
LEMMA InstallStackStep ==
  ASSUME SpaceInv, NEW t \in User, install_stack(t)
  PROVE  SpaceInv'
<1>1. running = t /\ place[t] = "install_stack"
  BY DEF install_stack, In
<1>2. /\ pagedir[t] # NULL_PAGE /\ dying[t] = NULL_PAGE /\ kpage[t] # NULL_PAGE
      /\ cr3 = pagedir[t]
  BY <1>1, Here DEF PlaceExact, Loading, Ending
<1>3. /\ UNCHANGED <<running, cr3, pagedir, prog, phnum, seg, dying>>
      /\ kpage' = [kpage EXCEPT ![t] = NULL_PAGE]
      /\ install_page(t, StackPage, TRUE, "user")
  BY Zenon DEF install_stack
<1>4. Memory' /\ (proceed(t, "user") \/ proceed(t, "exit"))
  BY Zenon, <1>2, <1>3, UserPages, InstallStep
<1>5. /\ place' \in [User -> Place] /\ place'[t] \in {"user", "exit"}
      /\ \A u \in User \ {t} : place'[u] = place[u]
  BY <1>4 DEF proceed, SpaceInv, SpaceType, Place, Loading
<1>6. kpage'[t] = NULL_PAGE /\ \A u \in User \ {t} : kpage'[u] = kpage[u]
  BY Zenon, <1>3 DEF SpaceInv, SpaceType
<1>7. StepOf(t)
  BY ZenonT(40), <1>1, <1>3, <1>5, <1>6 DEF StepOf, SpaceInv, SpaceType
<1>8. PlaceExact(t)'
  BY Zenon, <1>2, <1>3, <1>5, <1>6 DEF PlaceExact, Loading, Ending
<1> QED BY Zenon, <1>2, <1>3, <1>4, <1>7, <1>8, Stepped

(* process_exit() forgets the directory before it destroys it.             *)
LEMMA ExitSpaceStep ==
  ASSUME SpaceInv, NEW t \in User, exit_space(t)
  PROVE  SpaceInv'
<1>1. running = t /\ place[t] \in {"user", "exit"}
  BY Zenon DEF exit_space, In
<1>2. dying[t] = NULL_PAGE /\ kpage[t] = NULL_PAGE /\ cr3 = pagedir[t] /\ t # Kernel
  BY Zenon, <1>1, Here DEF PlaceExact, Loading, Ending
<1>3. /\ UNCHANGED <<running, cr3, dir, data, unused, prog, phnum, seg, kpage>>
      /\ dying' = [dying EXCEPT ![t] = pagedir[t]] /\ pagedir' = [pagedir EXCEPT ![t] = NULL_PAGE]
      /\ proceed(t, IF pagedir[t] = NULL_PAGE THEN "dead" ELSE "deactivate")
  BY DEF exit_space, forget_pagedir
<1>4. /\ place' \in [User -> Place] /\ \A u \in User \ {t} : place'[u] = place[u]
      /\ place'[t] = IF pagedir[t] = NULL_PAGE THEN "dead" ELSE "deactivate"
  BY <1>3 DEF proceed, SpaceInv, SpaceType, Place, Ending
<1>5. /\ dying'[t] = pagedir[t] /\ pagedir'[t] = NULL_PAGE /\ pagedir'[Kernel] = pagedir[Kernel]
      /\ \A u \in User \ {t} : dying'[u] = dying[u] /\ pagedir'[u] = pagedir[u]
  BY <1>2, <1>3 DEF SpaceInv, SpaceType
<1>6. Memory'
  <2>1. MemoryType'
    BY <1>3, InvMemory DEF Memory, MemoryType, Page0
  <2>2. \A u \in User : /\ space(u)' = space(u)
                        /\ pagedir'[u] = NULL_PAGE \/ dying'[u] = NULL_PAGE
    BY Zenon, <1>2, <1>5, InvMemory DEF Memory, PagesAccounted, space
  <2> QED BY <1>3, <2>1, <2>2, InvMemory, MemoryKept
<1>7. StepOf(t)
  BY ZenonT(40), <1>1, <1>3, <1>4, <1>5 DEF StepOf, SpaceInv, SpaceType
<1>8. PlaceExact(t)'
  BY Zenon, <1>2, <1>3, <1>4, <1>5 DEF PlaceExact, Loading, Ending
<1> QED BY Zenon, <1>2, <1>3, <1>4, <1>5, <1>6, <1>7, <1>8, Stepped

(* pagedir_activate(NULL) in process_exit()                                *)
LEMMA DeactivateStep ==
  ASSUME SpaceInv, NEW t \in User, pagedir_activate(t)
  PROVE  SpaceInv'
<1>1. running = t /\ place[t] = "deactivate"
  BY Zenon DEF pagedir_activate, In
<1>2. pagedir[t] = NULL_PAGE /\ dying[t] # NULL_PAGE /\ kpage[t] = NULL_PAGE
  BY Zenon, <1>1, Here DEF PlaceExact, Ending
<1>3. /\ UNCHANGED <<running, pagedir, dir, data, unused, prog, phnum, seg, kpage, dying>>
      /\ cr3' = NULL_PAGE /\ place' \in [User -> Place] /\ place'[t] = "destroy"
      /\ \A u \in User \ {t} : place'[u] = place[u]
  BY DEF pagedir_activate, proceed, SpaceInv, SpaceType, Place, Ending
<1>4. Memory'
  BY <1>3, InvMemory, PagesStay
<1>5. StepOf(t)
  BY Zenon, <1>1, <1>3 DEF StepOf, SpaceInv, SpaceType, Page0
<1>6. PlaceExact(t)'
  BY ZenonT(40), <1>2, <1>3 DEF PlaceExact, Loading, Ending
<1> QED BY Zenon, <1>2, <1>3, <1>4, <1>5, <1>6, Stepped

(* pagedir_destroy() in process_exit()                                     *)
LEMMA DestroyStep ==
  ASSUME SpaceInv, NEW t \in User, pagedir_destroy(t)
  PROVE  SpaceInv'
<1>1. running = t /\ place[t] = "destroy"
  BY Zenon DEF pagedir_destroy, In
<1>2. pagedir[t] = NULL_PAGE /\ dying[t] # NULL_PAGE /\ kpage[t] = NULL_PAGE /\ cr3 = pagedir[t]
  BY Zenon, <1>1, Here DEF PlaceExact, Ending
<1>3. /\ UNCHANGED <<running, cr3, pagedir, kpage>>
      /\ palloc_free(pages_of(dying[t])) /\ dying' = [dying EXCEPT ![t] = NULL_PAGE]
      /\ seg' = [seg EXCEPT ![t] = NoSegment] /\ phnum' = [phnum EXCEPT ![t] = 0]
      /\ prog' = [prog EXCEPT ![t] = <<>>] /\ proceed(t, "dead")
  BY DEF pagedir_destroy, freed_with
<1>4. Memory'
  BY Zenon, <1>2, <1>3, InvMemory, SpaceGiven
<1>5. /\ place' \in [User -> Place] /\ place'[t] = "dead"
      /\ \A u \in User \ {t} : place'[u] = place[u]
  BY <1>3 DEF proceed, SpaceInv, SpaceType, Place
<1>6. dying'[t] = NULL_PAGE /\ \A u \in User \ {t} : dying'[u] = dying[u]
  BY <1>3 DEF SpaceInv, SpaceType
<1>7. /\ seg' = [u \in User |-> seg'[u]] /\ phnum' = [u \in User |-> phnum'[u]]
      /\ prog' = [u \in User |-> prog'[u]]
      /\ \A u \in User \ {t} : seg'[u] = seg[u] /\ phnum'[u] = phnum[u] /\ prog'[u] = prog[u]
  BY <1>3, Zenon DEF SpaceInv, SpaceType
<1>8. StepOf(t)
  BY Zenon, <1>1, <1>3, <1>5, <1>6, <1>7 DEF StepOf, SpaceInv, SpaceType
<1>9. PlaceExact(t)'
  BY Zenon, <1>2, <1>3, <1>5, <1>6 DEF PlaceExact, Loading, Ending
<1> QED BY ZenonT(40), <1>2, <1>3, <1>4, <1>8, <1>9, Stepped

(* thread_schedule_tail()                                                  *)
LEMMA SwitchStep ==
  ASSUME SpaceInv, NEW t \in User \cup {Kernel}, switch_to(t)
  PROVE  SpaceInv'
<1>1. /\ UNCHANGED <<pagedir, dir, data, unused, place, prog, phnum, seg, kpage, dying>>
      /\ running' = t /\ cr3' = pagedir[t]
  BY DEF switch_to
<1>2. Memory'
  BY <1>1, InvMemory, PagesStay
<1>3. SpaceType'
  BY <1>1 DEF SpaceInv, SpaceType
<1>4. RegisterExact'
  BY Zenon, <1>1 DEF RegisterExact, SpaceInv, SpaceType
<1>5. \A u \in User : PlaceExact(u)'
  BY Zenon, <1>1 DEF SpaceInv, PlaceExact
<1> QED BY <1>2, <1>3, <1>4, <1>5 DEF SpaceInv, Memory

(* Every step of load(), process_exit() and the scheduler.                 *)
LEMMA SpaceStep == SpaceInv /\ [SpaceNext]_spaceVars => SpaceInv'
<1> SUFFICES ASSUME SpaceInv, [SpaceNext]_spaceVars PROVE SpaceInv'
  OBVIOUS
<1>1. CASE UNCHANGED spaceVars
  <2>1. /\ UNCHANGED <<pagedir, dir, unused, place, prog, phnum, seg, kpage, dying>>
        /\ UNCHANGED <<running, cr3>>
    BY <1>1 DEF spaceVars
  <2>2. Memory'
    BY <2>1, InvMemory, PagesStay
  <2>3. SpaceType' /\ RegisterExact'
    BY ZenonT(40), <2>1 DEF SpaceInv, SpaceType, RegisterExact
  <2>4. \A u \in User : PlaceExact(u)'
    BY <2>1 DEF SpaceInv, PlaceExact
  <2> QED BY <2>2, <2>3, <2>4 DEF SpaceInv, Memory
<1>2. CASE \E t \in User :
             \/ create_pagedir(t) \/ process_activate(t) \/ next_header(t) \/ fill_page(t)
             \/ install_segment(t) \/ stack_page(t) \/ install_stack(t)
             \/ exit_space(t) \/ pagedir_activate(t) \/ pagedir_destroy(t)
  BY <1>2, CreateStep, ActivateStep, HeaderStep, FillStep, InstallSegmentStep, StackStep,
     InstallStackStep, ExitSpaceStep, DeactivateStep, DestroyStep
<1>3. CASE \E t \in User \cup {Kernel} : switch_to(t)
  BY <1>3, SwitchStep
<1> QED BY <1>1, <1>2, <1>3 DEF SpaceNext

(* At the start every page is free and the kernel's directory is active.   *)
LEMMA SpaceStart == SpaceInit => SpaceInv
<1> SUFFICES ASSUME SpaceInit PROVE SpaceInv
  OBVIOUS
<1>1. SpaceType
  BY EmptyIsDir DEF SpaceInit, SpaceType, Page0, Place
<1>2. RegisterExact /\ FreeIsEmpty
  BY AddressAssumption DEF SpaceInit, RegisterExact, FreeIsEmpty
<1>3. \A t \in User : PlaceExact(t)
  BY DEF SpaceInit, PlaceExact, Loading, Ending
<1>4. \A t \in User : space(t) = NULL_PAGE /\ held(t) = {}
  BY DEF SpaceInit, space, held
<1>5. PagesAccounted
  BY <1>4 DEF PagesAccounted, SpaceInit
<1> QED BY <1>1, <1>2, <1>3, <1>5 DEF SpaceInv

-----------------------------------------------------------------------------
(* SpaceInv holds wherever the timer strikes in load() and process_exit(), *)
(* and wherever they fail.                                                 *)
THEOREM SpaceInvariant == SpaceSpec => []SpaceInv
BY SpaceStart, SpaceStep, PTL DEF SpaceSpec

(* The active page directory is the running thread's or the kernel's, and  *)
(* has not been freed: the order of process_exit() and of load() is right. *)
THEOREM ActiveDirectoryIsAlive == SpaceSpec => []ActiveDirectoryLives
<1>1. SpaceInv => ActiveDirectoryLives
  <2> SUFFICES ASSUME SpaceInv PROVE ActiveDirectoryLives
    OBVIOUS
  <2>1. CASE running = Kernel
    BY Zenon, <2>1, AddressAssumption DEF SpaceInv, SpaceType, RegisterExact, ActiveDirectoryLives, NULL_PAGE
  <2>2. CASE running \in User
    <3>1. \/ cr3 = pagedir[running]
          \/ place[running] = "activate" /\ cr3 = NULL_PAGE
          \/ place[running] = "deactivate" /\ cr3 = dying[running]
      BY <2>2, Here
    <3>2. cr3 # NULL_PAGE => cr3 = space(running)
      BY <2>2, <3>1, Here DEF space, PlaceExact, Ending
    <3>3. NULL_PAGE \notin unused
      BY Zenon, AddressAssumption DEF SpaceInv, SpaceType, NULL_PAGE
    <3>4. cr3 # NULL_PAGE => cr3 \notin unused
      <4>1. Memory /\ held(running) \subseteq Frame \ unused
        BY ZenonT(40), <2>2, InvMemory DEF SpaceInv, PagesAccounted
      <4>2. cr3 # NULL_PAGE => cr3 \in held(running)
        BY <2>2, <3>2, <4>1, SpaceIsHeld
      <4> QED BY Zenon, <4>1, <4>2
    <3> QED BY ZenonT(40), <2>2, <3>1, <3>3, <3>4 DEF ActiveDirectoryLives
  <2> QED BY <2>1, <2>2 DEF SpaceInv, SpaceType
<1> QED BY <1>1, SpaceInvariant, PTL

(* Every page is free or has one owner and one role, and none is lost: the *)
(* error paths of load_segment(), setup_stack() and install_page(), and    *)
(* pagedir_destroy(), free what was taken, once.                           *)
THEOREM PagesAreAccounted == SpaceSpec => []PagesAccounted
BY SpaceInvariant, PTL DEF SpaceInv

-----------------------------------------------------------------------------
(* The image load() builds.                                                *)

(* The pages of a segment, what the byte at address a of it is, and what   *)
(* its page p holds: the page's other bytes come from the file too, below  *)
(* the segment, and are zero above.                                        *)
FirstPage(ph) == ph.vaddr \div PageSize
LastPage(ph) == (ph.vaddr + ph.memsz - 1) \div PageSize
ByteAt(ph, a) == IF 0 < ph.filesz /\ a < ph.vaddr + ph.filesz THEN ph.offset + (a - ph.vaddr) + 1 ELSE 0
PageImage(ph, p) == [i \in 0 .. PageSize - 1 |-> ByteAt(ph, PageSize * p + i)]

(* What the program of a thread finds at page p: nothing, or its bytes and *)
(* whether it may write them.                                              *)
View(t) ==
  LET map == dir[pagedir[t]].map
  IN [p \in UserPage |-> IF map[p].frame = NULL_PAGE THEN {}
                         ELSE {<<data[map[p].frame], map[p].writable>>}]

(* load_segment() on its way through the segment ph, at s.                 *)
SegmentAt(ph, s) ==
  /\ s.upage \in FirstPage(ph) .. LastPage(ph) + 1 /\ s.writable = ph.writable
  /\ s.read_bytes = IF 0 < ph.filesz /\ PageSize * s.upage < ph.vaddr + ph.filesz
                    THEN (ph.vaddr + ph.filesz) - PageSize * s.upage ELSE 0
  /\ 0 < s.read_bytes => s.ofs = ph.offset + (PageSize * s.upage - ph.vaddr)
  /\ s.read_bytes + s.zero_bytes = PageSize * (LastPage(ph) + 1 - s.upage)

(* The headers load() has come to, and how far it is with the i-th: all of *)
(* it, unless it is in load_segment() for it.                              *)
Seen(pr, n) == {i \in 1 .. n : pr[i].type = "load"}
Inside(pl) == pl \in {"segment", "install"}
DonePages(pl, pr, n, s, i) ==
  FirstPage(pr[i]) .. (IF Inside(pl) /\ i = n THEN s.upage - 1 ELSE LastPage(pr[i]))

(* The executable pr after n of its headers, at the place pl of load(),    *)
(* with load_segment() at s: v holds the pages that are done, as the       *)
(* headers have them, and no others.                                       *)
HeadersExact(pl, pr, n, s) ==
  /\ pr \in Seq(Header) /\ n \in 0 .. Len(pr)
  /\ pl \in {"stack", "install_stack", "user"} => n = Len(pr)
  /\ \A i \in Seen(pr, n) : validate_segment(pr[i])
  /\ Inside(pl) => n \in Seen(pr, n) /\ SegmentAt(pr[n], s)
PagesLoaded(v, pl, pr, n, s) ==
  \A i \in Seen(pr, n) : \A p \in DonePages(pl, pr, n, s, i) :
    p \in UserPage /\ v[p] = {<<PageImage(pr[i], p), pr[i].writable>>}
NothingElse(v, pl, pr, n, s) ==
  \A p \in UserPage : v[p] # {} =>
    (pl = "user" /\ p = StackPage) \/ \E i \in Seen(pr, n) : p \in DonePages(pl, pr, n, s, i)
StackLoaded(v, pl, pr, n) ==
  pl = "user" => /\ v[StackPage] = {<<Filled(0), TRUE>>}
                 /\ \A i \in Seen(pr, n) : StackPage \notin FirstPage(pr[i]) .. LastPage(pr[i])
Loaded(v, pl, pr, n, s) ==
  /\ HeadersExact(pl, pr, n, s) /\ PagesLoaded(v, pl, pr, n, s)
  /\ NothingElse(v, pl, pr, n, s) /\ StackLoaded(v, pl, pr, n)

(* What the page in the thread's hands holds.                              *)
HandFilled(t) ==
  /\ place[t] = "install" => data[kpage[t]] = page_contents(seg[t])
  /\ place[t] = "install_stack" => data[kpage[t]] = Filled(0)
LoadExact(t) ==
  place[t] \in Loading =>
    Loaded(View(t), place[t], prog[t], phnum[t], seg[t]) /\ HandFilled(t)
(* The inductive invariant of the images, beside SpaceInv.                 *)
LoadInv ==
  /\ data = [f \in Frame |-> data[f]]
  /\ \A t \in User : LoadExact(t)

(* A number of pages and an offset in a page are known from their sum.     *)
LEMMA SamePage ==
  ASSUME NEW a \in Int, NEW b \in Int, NEW n \in Nat \ {0}, NEW x \in 0 .. n - 1, NEW y \in 0 .. n - 1,
         n * a + x = n * b + y
  PROVE  a = b
<1>1. n * (a + 1) = n * a + n /\ n * (b + 1) = n * b + n /\ n * a \in Int /\ n * b \in Int
  BY SMT
<1>2. n * a < n * (b + 1) /\ n * b < n * (a + 1)
  BY <1>1
<1>3. a < b + 1 /\ b < a + 1
  BY <1>2, Ordered
<1> QED BY <1>3

(* validate_segment(): where the segments it accepts are.                  *)
LEMMA Accepted ==
  ASSUME NEW ph \in Header, ph.type = "load", validate_segment(ph)
  PROVE  /\ ph.vaddr \in Nat /\ ph.memsz \in Nat \ {0} /\ ph.filesz \in Nat /\ ph.offset \in Nat
         /\ ph.filesz <= ph.memsz
         /\ FirstPage(ph) \in Nat /\ LastPage(ph) \in Nat
         /\ 0 < FirstPage(ph) /\ FirstPage(ph) <= LastPage(ph) /\ LastPage(ph) <= StackPage
         /\ \E o, e \in 0 .. PageSize - 1 :
              /\ ph.vaddr = PageSize * FirstPage(ph) + o
              /\ ph.vaddr + ph.memsz - 1 = PageSize * LastPage(ph) + e
              /\ o = ph.vaddr % PageSize /\ ph.offset = PageSize * (ph.offset \div PageSize) + o
              /\ ph.offset \div PageSize \in Nat
<1> DEFINE v == ph.vaddr  m == ph.memsz  f == FirstPage(ph)  l == LastPage(ph)
           o == v % PageSize  e == (v + m - 1) % PageSize
<1>1. v \in Word /\ m \in Word /\ ph.filesz \in Word /\ ph.offset \in Word
  BY DEF Header
<1>2. v \in Nat /\ m \in Nat /\ ph.filesz \in Nat /\ ph.offset \in Nat /\ PageSize \in Nat \ {0}
  BY <1>1, AddressAssumption DEF Word
<1>3. /\ ph.filesz <= m /\ m # 0 /\ v < PHYS_BASE /\ plus(v, m) < PHYS_BASE /\ v <= plus(v, m)
      /\ PageSize <= v
  <2>1. plus(v, m) \in Int
    BY SMTT(40), <1>1, <1>2, Wrapped, AddressAssumption
  <2> QED BY <1>2, <2>1, AddressAssumption DEF validate_segment, is_user_vaddr
<1>4. v + m < PHYS_BASE
  <2>1. plus(v, m) = (IF v + m < ADDR THEN v + m ELSE v + m - ADDR) /\ m < ADDR /\ ADDR \in Nat
    BY <1>1, <1>2, Wrapped, AddressAssumption DEF Word
  <2> HIDE DEF v, m
  <2> QED BY <1>2, <1>3, <2>1, AddressAssumption
<1>5. f \in Nat /\ o \in 0 .. PageSize - 1 /\ v = PageSize * f + o
  BY Zenon, <1>2, Divided DEF FirstPage
<1>6. v + m - 1 \in Nat
  BY <1>2, <1>3
<1>7. l \in Nat /\ e \in 0 .. PageSize - 1 /\ v + m - 1 = PageSize * l + e
  BY Zenon, <1>2, <1>6, Divided DEF LastPage
<1>8. ph.offset \div PageSize \in Nat /\ ph.offset = PageSize * (ph.offset \div PageSize) + o
  <2>1. ph.offset % PageSize = o
    BY Zenon DEF validate_segment
  <2> QED BY Zenon, <1>2, <2>1, Divided
<1>9. PHYS_BASE = PageSize * (StackPage + 1) /\ StackPage \in Nat
  BY UserPages
<1> HIDE DEF v, m, f, l, o, e
<1>10. /\ PageSize * f \in Int /\ PageSize * l \in Int /\ PageSize * (l + 1) = PageSize * l + PageSize
       /\ PageSize * 1 = PageSize /\ PageSize * (f + 1) = PageSize * f + PageSize
  BY <1>2, <1>5, <1>7, SMT
<1>11. PageSize * 1 < PageSize * (f + 1) /\ PageSize * f < PageSize * (l + 1)
       /\ PageSize * l < PageSize * (StackPage + 1)
  BY <1>2, <1>3, <1>4, <1>5, <1>7, <1>9, <1>10
<1>12. 1 < f + 1 /\ f < l + 1 /\ l < StackPage + 1
  BY <1>2, <1>5, <1>7, <1>9, <1>11, Ordered
<1>13. 0 < f /\ f <= l /\ l <= StackPage
  BY <1>5, <1>7, <1>9, <1>12
<1> QED BY <1>2, <1>3, <1>5, <1>7, <1>8, <1>13 DEF v, m, f, l, o, e

(* load() hands load_segment() the pages of the segment.                   *)
LEMMA SegmentAtStart ==
  ASSUME NEW ph \in Header, ph.type = "load", validate_segment(ph)
  PROVE  SegmentAt(ph, segment(ph))
<1> DEFINE v == ph.vaddr  m == ph.memsz  r == ph.filesz  f == FirstPage(ph)  l == LastPage(ph)
           k(o) == (o + m + PageSize - 1) \div PageSize  q == ph.offset \div PageSize
<1>1. /\ v \in Nat /\ m \in Nat \ {0} /\ r \in Nat /\ ph.offset \in Nat /\ f \in Nat /\ l \in Nat
      /\ f <= l /\ r <= m
  BY Accepted
<1>2. PICK o, e \in 0 .. PageSize - 1 :
              /\ v = PageSize * f + o /\ v + m - 1 = PageSize * l + e
              /\ o = v % PageSize /\ ph.offset = PageSize * q + o /\ q \in Nat
  BY Accepted
<1>3. PageSize \in Nat \ {0} /\ o + m + PageSize - 1 \in Nat /\ o \in Nat
  BY <1>1, AddressAssumption
<1>4. PICK x \in 0 .. PageSize - 1 : k(o) \in Nat /\ o + m + PageSize - 1 = PageSize * k(o) + x
  BY Zenon, <1>3, Divided
<1> DEFINE read == IF r > 0 THEN o + r ELSE 0
<1>5. segment(ph) = [upage |-> f, ofs |-> q * PageSize,
                     read_bytes |-> read, zero_bytes |-> k(o) * PageSize - read,
                     writable |-> ph.writable]
  BY <1>2 DEF segment, round_up, FirstPage
<1> HIDE DEF v, m, r, f, l, k, q
<1>61. v = PageSize * f + o /\ v + m - 1 = PageSize * l + e /\ ph.offset = PageSize * q + o /\ q \in Nat
  BY Zenon, <1>2
<1>6. PageSize * f \in Int /\ PageSize * l \in Int /\ PageSize * k(o) \in Int
      /\ k(o) * PageSize = PageSize * k(o)
      /\ PageSize * (f + k(o)) = PageSize * f + PageSize * k(o)
      /\ PageSize * (l + 1) = PageSize * l + PageSize
  BY <1>1, <1>3, <1>4, SMT
<1>7. PageSize * (f + k(o)) + x = PageSize * (l + 1) + e
  BY <1>1, <1>3, <1>4, <1>6, <1>61
<1>8. f + k(o) = l + 1
  BY <1>1, <1>3, <1>4, <1>7, SamePage
<1>9. l + 1 - f = k(o)
  BY <1>1, <1>4, <1>8
<1>10. q * PageSize = ph.offset - o
  <2>1. q * PageSize = PageSize * q /\ PageSize * q \in Int
    BY <1>3, <1>61, SMT
  <2> QED BY <1>1, <1>3, <1>61, <2>1
<1>11. PageSize * f - v = 0 - o /\ (v + r) - PageSize * f = o + r /\ (0 < r => PageSize * f < v + r)
  BY <1>1, <1>3, <1>6, <1>61
<1>12. read + (k(o) * PageSize - read) = PageSize * k(o) /\ f \in f .. l + 1
  BY <1>1, <1>3, <1>6
<1>13. read = IF 0 < r /\ PageSize * f < v + r THEN (v + r) - PageSize * f ELSE 0
  BY <1>1, <1>11
<1>14. ph.offset - o = ph.offset + (PageSize * f - v)
  BY <1>1, <1>3, <1>11
<1> HIDE DEF read
<1> QED BY <1>5, <1>9, <1>10, <1>12, <1>13, <1>14 DEF SegmentAt, v, m, r, f, l

(* load_segment() leaves its loop when the segment is done.                *)
LEMMA SegmentEnds ==
  ASSUME NEW ph \in Header, ph.type = "load", validate_segment(ph), NEW s, SegmentAt(ph, s),
         s.read_bytes = 0, s.zero_bytes = 0
  PROVE  s.upage = LastPage(ph) + 1
<1>1. FirstPage(ph) \in Nat /\ LastPage(ph) \in Nat
  BY Accepted
<1>2. s.upage \in FirstPage(ph) .. LastPage(ph) + 1 /\ 0 = PageSize * (LastPage(ph) + 1 - s.upage)
  BY DEF SegmentAt
<1> DEFINE d == LastPage(ph) + 1 - s.upage
<1>3. d \in Nat /\ 0 = PageSize * d
  BY <1>1, <1>2
<1> HIDE DEF d
<1>4. d = 0
  BY <1>3, AddressAssumption, SMT
<1> QED BY <1>1, <1>2, <1>4 DEF d

(* While there is some of it left, load_segment() fills the next page as   *)
(* the header says, and goes on to the one after it.                       *)
LEMMA SegmentAdvances ==
  ASSUME NEW ph \in Header, ph.type = "load", validate_segment(ph), NEW s, SegmentAt(ph, s),
         SegmentFits(s), s.read_bytes + s.zero_bytes > 0
  PROVE  /\ s.upage \in FirstPage(ph) .. LastPage(ph)
         /\ page_contents(s) = PageImage(ph, s.upage)
         /\ SegmentAt(ph, [s EXCEPT !.read_bytes = @ - page_read_bytes(s), !.upage = @ + 1,
                                    !.zero_bytes = @ - page_zero_bytes(s),
                                    !.ofs = @ + page_read_bytes(s)])
<1> DEFINE f == FirstPage(ph)  l == LastPage(ph)  u == s.upage  end == ph.vaddr + ph.filesz
           r == s.read_bytes  z == s.zero_bytes  x == page_read_bytes(s)  a == PageSize * u
           delta == ph.offset - ph.vaddr
<1>1. f \in Nat /\ l \in Nat /\ PageSize \in Nat \ {0} /\ end \in Nat /\ delta \in Int
  <2>1. ph.vaddr \in Nat /\ ph.filesz \in Nat /\ ph.offset \in Nat /\ f \in Nat /\ l \in Nat
    BY Zenon, Accepted
  <2> QED BY <2>1, AddressAssumption
<1>2. /\ u \in f .. l + 1 /\ s.writable = ph.writable
      /\ r = IF 0 < ph.filesz /\ a < end THEN end - a ELSE 0
      /\ r + z = PageSize * (l + 1 - u)
      /\ 0 < r => s.ofs = ph.offset + (a - ph.vaddr)
  BY Zenon DEF SegmentAt
<1>3. 0 < r => s.ofs = delta + a
  <2>1. ph.offset \in Int /\ ph.vaddr \in Int /\ u \in Int
    BY <1>1, <1>2, Accepted
  <2>2. a \in Int
    BY <1>1, <2>1
  <2> HIDE DEF a
  <2> QED BY SMTT(40), <1>2, <2>1, <2>2
<1>4. x = IF r < PageSize THEN r ELSE PageSize
  BY DEF page_read_bytes
<1>5. r \in Nat /\ z \in Nat
  BY Zenon DEF SegmentFits
<1>6. u \in f .. l /\ l - u \in Nat
  <2>1. l + 1 - u # 0
    BY <1>1, <1>2, SMT
  <2> QED BY <1>1, <1>2, <2>1
<1>7. /\ a \in Int /\ PageSize * (u + 1) = a + PageSize
      /\ PageSize * (l + 1 - u) = PageSize * (l + 1 - (u + 1)) + PageSize
      /\ PageSize * (l + 1 - (u + 1)) \in Int
  BY <1>1, <1>6, SMTT(40)
<1>8. page_contents(s) = PageImage(ph, u)
  <2> SUFFICES ASSUME NEW i \in 0 .. PageSize - 1
               PROVE  (IF i < x THEN s.ofs + i + 1 ELSE 0) = ByteAt(ph, a + i)
    BY Zenon DEF page_contents, PageImage
  <2>1. ByteAt(ph, a + i) = IF 0 < ph.filesz /\ a + i < end THEN delta + (a + i) + 1 ELSE 0
    <3>1. ph.offset \in Int /\ ph.vaddr \in Int
      BY Accepted
    <3>2. ph.offset + ((a + i) - ph.vaddr) = delta + (a + i)
      BY <1>1, <1>7, <3>1
    <3> QED BY Zenon, <3>2 DEF ByteAt
  <2> HIDE DEF a, x, r, end, delta, u
  <2> QED BY <1>1, <1>2, <1>3, <1>4, <1>5, <1>7, <2>1
<1> DEFINE s2 == [s EXCEPT !.read_bytes = @ - x, !.upage = @ + 1,
                           !.zero_bytes = @ - page_zero_bytes(s), !.ofs = @ + x]
<1>9. /\ s2.upage = u + 1 /\ s2.writable = s.writable /\ s2.read_bytes = r - x /\ s2.ofs = s.ofs + x
      /\ s2.zero_bytes = z - (PageSize - x)
  BY DEF SegmentFits, page_zero_bytes
<1> HIDE DEF f, l, u, end, r, z, x, a, delta
<1>10. r - x = IF 0 < ph.filesz /\ a + PageSize < end THEN end - (a + PageSize) ELSE 0
  BY <1>1, <1>2, <1>4, <1>5, <1>7
<1>11. 0 < r - x => s.ofs + x = delta + (a + PageSize)
  BY <1>1, <1>3, <1>4, <1>5, <1>7
<1>12. (r - x) + (z - (PageSize - x)) = PageSize * (l + 1 - (u + 1))
  BY <1>1, <1>2, <1>4, <1>5, <1>7
<1>13. delta + (a + PageSize) = ph.offset + (PageSize * (u + 1) - ph.vaddr)
  BY <1>1, <1>7, Accepted DEF delta
<1>14. u + 1 \in f .. l + 1
  BY <1>1, <1>6
<1> HIDE DEF s2
<1>15. SegmentAt(ph, s2)
  <2>1. s2.read_bytes = IF 0 < ph.filesz /\ PageSize * s2.upage < end
                        THEN end - PageSize * s2.upage ELSE 0
    BY Zenon, <1>7, <1>9, <1>10
  <2>2. 0 < s2.read_bytes => s2.ofs = ph.offset + (PageSize * s2.upage - ph.vaddr)
    BY Zenon, <1>9, <1>11, <1>13
  <2>3. s2.read_bytes + s2.zero_bytes = PageSize * (l + 1 - s2.upage)
    BY ZenonT(40), <1>9, <1>12
  <2> QED BY Zenon, <1>2, <1>9, <1>14, <2>1, <2>2, <2>3 DEF SegmentAt, f, l, end
<1> QED BY Zenon, <1>6, <1>8, <1>15 DEF s2, f, l, u, x

-----------------------------------------------------------------------------
(* The image, from one place of load() to the next.                        *)

(* A new page directory, before the first header.                          *)
LEMMA ImageStarts ==
  ASSUME NEW v, NEW pr \in Seq(Header), NEW s, \A p \in UserPage : v[p] = {}
  PROVE  Loaded(v, "activate", pr, 0, s)
<1>1. Seen(pr, 0) = {} /\ Len(pr) \in Nat
  BY DEF Seen
<1> QED BY <1>1 DEF Loaded, HeadersExact, PagesLoaded, NothingElse, StackLoaded, Inside

(* Places between which no page and no header is done.                     *)
LEMMA ImageMoves ==
  ASSUME NEW v, NEW pl, NEW pr, NEW n, NEW s, Loaded(v, pl, pr, n, s), pl # "user",
         NEW next, next # "user", Inside(next) <=> Inside(pl),
         next \in {"stack", "install_stack"} => n = Len(pr)
  PROVE  Loaded(v, next, pr, n, s)
<1>1. \A i : DonePages(next, pr, n, s, i) = DonePages(pl, pr, n, s, i)
  BY Zenon DEF DonePages
<1> QED BY <1>1, Zenon DEF Loaded, HeadersExact, PagesLoaded, NothingElse, StackLoaded

(* The next header, when it is no segment, or one load() accepts.          *)
LEMMA ImageHeader ==
  ASSUME NEW v, NEW pr, NEW n, NEW s, Loaded(v, "headers", pr, n, s), n # Len(pr),
         NEW next, NEW s2,
         \/ next = "headers" /\ pr[n + 1].type # "load"
         \/ /\ next = "segment" /\ pr[n + 1].type = "load" /\ validate_segment(pr[n + 1])
            /\ s2 = segment(pr[n + 1])
  PROVE  Loaded(v, next, pr, n + 1, s2)
<1>1. /\ pr \in Seq(Header) /\ n \in 0 .. Len(pr) /\ n + 1 \in 0 .. Len(pr) /\ pr[n + 1] \in Header
      /\ n \in Nat
  <2>1. pr \in Seq(Header) /\ n \in 0 .. Len(pr)
    BY Zenon DEF Loaded, HeadersExact
  <2> QED BY <2>1
<1>2. Seen(pr, n + 1) = Seen(pr, n) \cup (IF next = "segment" THEN {n + 1} ELSE {})
  BY <1>1 DEF Seen
<1>3. \A i \in Seen(pr, n) : DonePages(next, pr, n + 1, s2, i) = DonePages("headers", pr, n, s, i)
  <2>1. \A i \in Seen(pr, n) : i # n + 1
    BY <1>1 DEF Seen
  <2> QED BY <2>1 DEF DonePages, Inside
<1>4. CASE next = "headers"
  <2>1. HeadersExact(next, pr, n + 1, s2) /\ Seen(pr, n + 1) = Seen(pr, n)
    BY ZenonT(40), <1>1, <1>2, <1>4 DEF Loaded, HeadersExact, Inside
  <2> QED BY ZenonT(40), <1>3, <1>4, <2>1 DEF Loaded, PagesLoaded, NothingElse, StackLoaded
<1>5. CASE next = "segment"
  <2>1. pr[n + 1].type = "load" /\ validate_segment(pr[n + 1]) /\ s2 = segment(pr[n + 1])
    BY <1>5
  <2>2. SegmentAt(pr[n + 1], s2) /\ FirstPage(pr[n + 1]) \in Nat
    BY ZenonT(40), <1>1, <2>1, SegmentAtStart, Accepted
  <2>3. HeadersExact(next, pr, n + 1, s2)
    BY Zenon, <1>1, <1>2, <1>5, <2>1, <2>2 DEF Loaded, HeadersExact, Inside
  <2>4. DonePages(next, pr, n + 1, s2, n + 1) = {}
    <3>1. s2.upage = FirstPage(pr[n + 1])
      BY <2>1 DEF segment, FirstPage
    <3> QED BY SMTT(40), <1>5, <2>2, <3>1 DEF DonePages, Inside
  <2>5. \A i \in Seen(pr, n + 1) : i \in Seen(pr, n) \/ i = n + 1
    BY <1>2
  <2>6. \A i \in Seen(pr, n) : i \in Seen(pr, n + 1)
    BY <1>2
  <2>7. PagesLoaded(v, next, pr, n + 1, s2)
    BY Zenon, <1>3, <2>4, <2>5 DEF Loaded, PagesLoaded
  <2>8. NothingElse(v, next, pr, n + 1, s2)
    BY Zenon, <1>3, <2>6 DEF Loaded, NothingElse
  <2> QED BY <1>5, <2>3, <2>7, <2>8 DEF Loaded, StackLoaded
<1> QED BY ZenonT(40), <1>4, <1>5

(* The segment in load_segment().                                          *)
LEMMA ImageInside ==
  ASSUME NEW v, NEW pl, NEW pr, NEW n, NEW s, Loaded(v, pl, pr, n, s), Inside(pl)
  PROVE  /\ pr[n] \in Header /\ pr[n].type = "load" /\ validate_segment(pr[n]) /\ n \in Seen(pr, n)
         /\ SegmentAt(pr[n], s) /\ n \in Nat
<1>1. pr \in Seq(Header) /\ n \in 0 .. Len(pr) /\ n \in Seen(pr, n) /\ SegmentAt(pr[n], s)
      /\ validate_segment(pr[n])
  BY DEF Loaded, HeadersExact
<1>2. n \in 1 .. n /\ pr[n].type = "load" /\ n \in 1 .. Len(pr)
  BY <1>1 DEF Seen
<1> QED BY <1>1, <1>2

(* load_segment() is done.                                                 *)
LEMMA ImageSegmentDone ==
  ASSUME NEW v, NEW pr, NEW n, NEW s, Loaded(v, "segment", pr, n, s),
         s.read_bytes = 0, s.zero_bytes = 0
  PROVE  Loaded(v, "headers", pr, n, s)
<1>1. Inside("segment") /\ ~Inside("headers")
  BY DEF Inside
<1>2. s.upage = LastPage(pr[n]) + 1 /\ LastPage(pr[n]) \in Nat
  <2>1. /\ pr[n] \in Header /\ pr[n].type = "load" /\ validate_segment(pr[n])
        /\ SegmentAt(pr[n], s)
    BY Zenon, <1>1, ImageInside
  <2>2. s.upage = LastPage(pr[n]) + 1
    BY Zenon, <2>1, SegmentEnds
  <2> QED BY Zenon, <2>1, <2>2, Accepted
<1>3. s.upage - 1 = LastPage(pr[n])
  BY <1>2
<1>4. \A i : DonePages("headers", pr, n, s, i) = DonePages("segment", pr, n, s, i)
  BY Zenon, <1>1, <1>3 DEF DonePages
<1>5. HeadersExact("headers", pr, n, s) /\ StackLoaded(v, "headers", pr, n)
  BY <1>1 DEF Loaded, HeadersExact, StackLoaded
<1>6. PagesLoaded(v, "headers", pr, n, s)
  BY ZenonT(40), <1>4 DEF Loaded, PagesLoaded
<1>7. NothingElse(v, "headers", pr, n, s)
  BY <1>4 DEF Loaded, NothingElse
<1> QED BY <1>5, <1>6, <1>7 DEF Loaded

(* install_page() in load_segment(): the page is the next of the segment,  *)
(* and nothing was there.                                                  *)
LEMMA ImagePage ==
  ASSUME NEW v, NEW pr, NEW n, NEW s, Loaded(v, "install", pr, n, s), SegmentFits(s),
         s.read_bytes + s.zero_bytes > 0, s.upage \in UserPage, v[s.upage] = {},
         v = [p \in UserPage |-> v[p]],
         NEW s2, s2 = [s EXCEPT !.read_bytes = @ - page_read_bytes(s), !.upage = @ + 1,
                                !.zero_bytes = @ - page_zero_bytes(s),
                                !.ofs = @ + page_read_bytes(s)],
         NEW v2, v2 = [v EXCEPT ![s.upage] = {<<page_contents(s), s.writable>>}]
  PROVE  Loaded(v2, "segment", pr, n, s2)
<1> DEFINE ph == pr[n]
<1>1. Inside("install") /\ Inside("segment")
  BY DEF Inside
<1>2. /\ ph \in Header /\ ph.type = "load" /\ validate_segment(ph) /\ n \in Seen(pr, n)
      /\ SegmentAt(ph, s)
  BY <1>1, ImageInside
<1>3. /\ s.upage \in FirstPage(ph) .. LastPage(ph) /\ page_contents(s) = PageImage(ph, s.upage)
      /\ SegmentAt(ph, s2)
  <2> HIDE DEF ph
  <2> QED BY Zenon, <1>2, SegmentAdvances
<1>4. s.writable = ph.writable /\ FirstPage(ph) \in Nat /\ LastPage(ph) \in Nat
  BY Zenon, <1>2, Accepted DEF SegmentAt
<1>5. s2.upage = s.upage + 1
  BY DEF SegmentFits
<1>6. HeadersExact("segment", pr, n, s2)
  BY <1>1, <1>2, <1>3 DEF Loaded, HeadersExact
<1>7. /\ \A i \in Seen(pr, n) : i # n =>
           DonePages("segment", pr, n, s2, i) = DonePages("install", pr, n, s, i)
      /\ DonePages("segment", pr, n, s2, n) = DonePages("install", pr, n, s, n) \cup {s.upage}
  <2>1. \A i \in Seen(pr, n) : i # n =>
           DonePages("segment", pr, n, s2, i) = DonePages("install", pr, n, s, i)
    BY Zenon DEF DonePages
  <2>2. /\ DonePages("segment", pr, n, s2, n) = FirstPage(ph) .. s2.upage - 1
        /\ DonePages("install", pr, n, s, n) = FirstPage(ph) .. s.upage - 1
    BY Zenon, <1>1 DEF DonePages
  <2> HIDE DEF ph
  <2> QED BY <1>3, <1>4, <1>5, <2>1, <2>2
<1>8. /\ v2[s.upage] = {<<PageImage(ph, s.upage), ph.writable>>}
      /\ \A p \in UserPage : p # s.upage => v2[p] = v[p]
  BY Zenon, <1>3, <1>4
<1> HIDE DEF ph
<1>9. PagesLoaded(v2, "segment", pr, n, s2)
  <2> SUFFICES ASSUME NEW i \in Seen(pr, n), NEW p \in DonePages("segment", pr, n, s2, i)
               PROVE  p \in UserPage /\ v2[p] = {<<PageImage(pr[i], p), pr[i].writable>>}
    BY Zenon DEF PagesLoaded
  <2>1. CASE p \in DonePages("install", pr, n, s, i)
    <3>1. p \in UserPage /\ v[p] = {<<PageImage(pr[i], p), pr[i].writable>>}
      BY Zenon, <2>1 DEF Loaded, PagesLoaded
    <3>2. p # s.upage
      BY Zenon, <3>1
    <3> QED BY Zenon, <1>8, <3>1, <3>2
  <2>2. CASE i = n /\ p = s.upage
    BY Zenon, <1>8, <2>2 DEF ph
  <2> QED BY <1>7, <2>1, <2>2
<1>10. NothingElse(v2, "segment", pr, n, s2)
  <2> SUFFICES ASSUME NEW p \in UserPage, v2[p] # {}
               PROVE  \E i \in Seen(pr, n) : p \in DonePages("segment", pr, n, s2, i)
    BY Zenon DEF NothingElse
  <2>1. CASE p = s.upage
    BY <1>2, <1>7, <2>1
  <2>2. CASE p # s.upage
    <3>1. v[p] # {}
      BY Zenon, <1>8, <2>2
    <3>2. PICK i \in Seen(pr, n) : p \in DonePages("install", pr, n, s, i)
      BY <3>1 DEF Loaded, NothingElse
    <3> QED BY <1>7, <3>2
  <2> QED BY <2>1, <2>2
<1> QED BY <1>6, <1>9, <1>10 DEF Loaded, StackLoaded

(* install_page() in setup_stack(): nothing was there.                     *)
LEMMA ImageStack ==
  ASSUME NEW v, NEW pr, NEW n, NEW s, Loaded(v, "install_stack", pr, n, s),
         v[StackPage] = {}, v = [p \in UserPage |-> v[p]],
         NEW v2, v2 = [v EXCEPT ![StackPage] = {<<Filled(0), TRUE>>}]
  PROVE  Loaded(v2, "user", pr, n, s)
<1>1. StackPage \in UserPage
  BY UserPages
<1>2. ~Inside("install_stack") /\ ~Inside("user")
  BY DEF Inside
<1>3. HeadersExact("user", pr, n, s)
  BY <1>2 DEF Loaded, HeadersExact
<1>4. \A i : /\ DonePages("user", pr, n, s, i) = DonePages("install_stack", pr, n, s, i)
             /\ DonePages("user", pr, n, s, i) = FirstPage(pr[i]) .. LastPage(pr[i])
  BY Zenon, <1>2 DEF DonePages
<1>5. v2[StackPage] = {<<Filled(0), TRUE>>} /\ \A p \in UserPage : p # StackPage => v2[p] = v[p]
  BY Zenon, <1>1
<1>6. \A i \in Seen(pr, n) : \A p \in DonePages("user", pr, n, s, i) :
        /\ p \in UserPage /\ v[p] = {<<PageImage(pr[i], p), pr[i].writable>>} /\ p # StackPage
  <2>1. \A i \in Seen(pr, n) : \A p \in DonePages("user", pr, n, s, i) :
          /\ p \in UserPage /\ v[p] = {<<PageImage(pr[i], p), pr[i].writable>>}
    BY Zenon, <1>4 DEF Loaded, PagesLoaded
  <2> QED BY ZenonT(40), <2>1
<1>7. PagesLoaded(v2, "user", pr, n, s)
  BY Zenon, <1>5, <1>6 DEF PagesLoaded
<1>8. NothingElse(v2, "user", pr, n, s)
  <2> SUFFICES ASSUME NEW p \in UserPage, v2[p] # {}, p # StackPage
               PROVE  \E i \in Seen(pr, n) : p \in DonePages("user", pr, n, s, i)
    BY Zenon DEF NothingElse
  <2>1. v[p] # {}
    BY Zenon, <1>5
  <2>2. PICK i \in Seen(pr, n) : p \in DonePages("install_stack", pr, n, s, i)
    BY <2>1 DEF Loaded, NothingElse
  <2> QED BY Zenon, <1>4, <2>2
<1>9. StackLoaded(v2, "user", pr, n)
  BY Zenon, <1>4, <1>5, <1>6 DEF StackLoaded
<1> QED BY <1>3, <1>7, <1>8, <1>9 DEF Loaded

-----------------------------------------------------------------------------
(* Images and the steps of threads.                                        *)

(* A step of t writes to no page but its own and free ones.                *)
Touches(t) ==
  /\ data' = [f \in Frame |-> data'[f]]
  /\ \A f \in Frame : f \notin held(t) /\ f \notin unused => dir'[f] = dir[f] /\ data'[f] = data[f]
  /\ \A u \in User \ {t} :
       /\ place'[u] = place[u] /\ pagedir'[u] = pagedir[u] /\ kpage'[u] = kpage[u]
       /\ phnum'[u] = phnum[u] /\ prog'[u] = prog[u] /\ seg'[u] = seg[u]

(* The pages a program sees are its own.                                   *)
LEMMA ViewIsHeld ==
  ASSUME SpaceInv, NEW t \in User, place[t] \in Loading
  PROVE  /\ space(t) = pagedir[t] /\ pagedir[t] \in held(t) /\ pagedir[t] \in Frame
         /\ \A p \in UserPage : LET f == dir[pagedir[t]].map[p].frame IN f # NULL_PAGE => f \in held(t)
         /\ kpage[t] # NULL_PAGE => kpage[t] \in held(t)
         /\ held(t) \subseteq Frame \ unused
<1>1. space(t) = pagedir[t] /\ pagedir[t] # NULL_PAGE
  BY DEF SpaceInv, PlaceExact, space
<1>2. /\ pagedir[t] \in Frame /\ pagedir[t] \in held(t)
      /\ \A f : f \in held(t) <=> InPages(f, pagedir[t], dir[pagedir[t]])
                                     \/ (f = kpage[t] /\ f # NULL_PAGE)
  BY Zenon, <1>1, InvMemory, SpaceIsHeld
<1>3. held(t) \subseteq Frame \ unused
  BY DEF SpaceInv, PagesAccounted
<1> QED BY <1>1, <1>2, <1>3, ZenonT(40) DEF InPages

(* It sees the same while nobody writes to them.                           *)
LEMMA ViewKept ==
  ASSUME SpaceInv, NEW t \in User, place[t] \in Loading, pagedir'[t] = pagedir[t],
         \A f \in held(t) : dir'[f] = dir[f] /\ data'[f] = data[f]
  PROVE  View(t)' = View(t) /\ (kpage[t] # NULL_PAGE => data'[kpage[t]] = data[kpage[t]])
<1>1. dir'[pagedir[t]] = dir[pagedir[t]]
  BY Zenon, ViewIsHeld
<1>2. \A p \in UserPage : dir[pagedir[t]].map[p].frame # NULL_PAGE =>
        data'[dir[pagedir[t]].map[p].frame] = data[dir[pagedir[t]].map[p].frame]
  BY ZenonT(40), ViewIsHeld
<1>3. View(t)' = View(t)
  BY Zenon, <1>1, <1>2 DEF View
<1> QED BY Zenon, <1>3, ViewIsHeld

(* What is left to show of a step of one thread.                           *)
LEMMA LoadStepped ==
  ASSUME SpaceInv, LoadInv, NEW t \in User, Touches(t), LoadExact(t)'
  PROVE  LoadInv'
<1>1. ASSUME NEW u \in User \ {t} PROVE LoadExact(u)'
  <2>1. /\ place'[u] = place[u] /\ pagedir'[u] = pagedir[u] /\ kpage'[u] = kpage[u]
        /\ phnum'[u] = phnum[u] /\ prog'[u] = prog[u] /\ seg'[u] = seg[u]
    BY Zenon DEF Touches
  <2>2. CASE place[u] \notin Loading
    BY Zenon, <2>1, <2>2 DEF LoadExact
  <2>3. CASE place[u] \in Loading
    <3>1. \A f \in held(u) : f \in Frame /\ f \notin unused /\ f \notin held(t)
      BY DEF SpaceInv, PagesAccounted
    <3>2. View(u)' = View(u) /\ (kpage[u] # NULL_PAGE => data'[kpage[u]] = data[kpage[u]])
      BY Zenon, <2>1, <2>3, <3>1, ViewKept DEF Touches
    <3>3. LoadExact(u) /\ PlaceExact(u)
      BY Zenon DEF LoadInv, SpaceInv
    <3>4. HandFilled(u)'
      BY Zenon, <2>1, <2>3, <3>2, <3>3 DEF LoadExact, HandFilled, PlaceExact
    <3>5. Loaded(View(u)', place'[u], prog'[u], phnum'[u], seg'[u])
      BY Zenon, <2>1, <2>3, <3>2, <3>3 DEF LoadExact
    <3> QED BY <3>4, <3>5 DEF LoadExact
  <2> QED BY <2>2, <2>3
<1>2. \A u \in User : LoadExact(u)'
  BY <1>1
<1>3. data' = [f \in Frame |-> data'[f]]
  BY DEF Touches
<1> QED BY <1>2, <1>3 DEF LoadInv

(* A step of t that writes to no page.                                     *)
LEMMA TouchesNone ==
  ASSUME LoadInv, NEW t \in User, UNCHANGED <<dir, data>>,
         \A u \in User \ {t} :
           /\ place'[u] = place[u] /\ pagedir'[u] = pagedir[u] /\ kpage'[u] = kpage[u]
           /\ phnum'[u] = phnum[u] /\ prog'[u] = prog[u] /\ seg'[u] = seg[u]
  PROVE  Touches(t)
BY DEF Touches, LoadInv

(* palloc_free_page() of pages of one thread.                              *)
LEMMA TouchesFreed ==
  ASSUME SpaceInv, NEW t \in User, NEW fs \in SUBSET held(t), palloc_free(fs),
         \A u \in User \ {t} :
           /\ place'[u] = place[u] /\ pagedir'[u] = pagedir[u] /\ kpage'[u] = kpage[u]
           /\ phnum'[u] = phnum[u] /\ prog'[u] = prog[u] /\ seg'[u] = seg[u]
  PROVE  Touches(t)
<1>1. /\ data' = [f \in Frame |-> IF f \in fs THEN Junk ELSE data[f]]
      /\ dir' = [f \in Frame |-> IF f \in fs THEN EmptyDir ELSE dir[f]]
  BY DEF palloc_free
<1>2. data' = [f \in Frame |-> data'[f]]
  BY Zenon, <1>1
<1> QED BY Zenon, <1>1, <1>2 DEF Touches

(* A step of t after which it is not in load() or its program.             *)
LEMMA LoadLeft ==
  ASSUME SpaceInv, LoadInv, NEW t \in User, Touches(t), place'[t] \notin Loading
  PROVE  LoadInv'
BY LoadStepped DEF LoadExact

(* pagedir_create() in load(): the page directory is empty.                *)
LEMMA CreateLoad ==
  ASSUME SpaceInv, LoadInv, NEW t \in User, create_pagedir(t)
  PROVE  LoadInv'
<1>1. /\ UNCHANGED <<dir, data, phnum, seg, kpage>> /\ place[t] = "start"
      /\ \E e \in Program[t] : prog' = [prog EXCEPT ![t] = e]
      /\ \/ proceed(t, "exit") /\ UNCHANGED pagedir
         \/ \E f \in unused : pagedir' = [pagedir EXCEPT ![t] = f] /\ proceed(t, "activate")
  BY Zenon DEF create_pagedir, In, first_free
<1>2. \A u \in User \ {t} : place'[u] = place[u] /\ pagedir'[u] = pagedir[u] /\ prog'[u] = prog[u]
  BY <1>1 DEF proceed, SpaceInv, SpaceType
<1>3. Touches(t)
  BY Zenon, <1>1, <1>2, TouchesNone
<1>4. prog'[t] \in Seq(Header) /\ phnum'[t] = 0
  <2>1. prog'[t] \in Program[t] /\ phnum'[t] = 0
    BY <1>1 DEF SpaceInv, SpaceType, PlaceExact
  <2> QED BY <2>1, AddressAssumption
<1>5. CASE proceed(t, "exit")
  <2>1. place'[t] \notin Loading
    BY <1>5 DEF proceed, SpaceInv, SpaceType, Loading
  <2> QED BY <1>3, <2>1, LoadLeft
<1>6. CASE \E f \in unused : pagedir' = [pagedir EXCEPT ![t] = f] /\ proceed(t, "activate")
  <2>1. PICK f \in unused : pagedir' = [pagedir EXCEPT ![t] = f] /\ proceed(t, "activate")
    BY Zenon, <1>6
  <2>2. pagedir'[t] = f /\ dir'[f] = EmptyDir /\ place'[t] = "activate"
    BY Zenon, <1>1, <2>1 DEF SpaceInv, SpaceType, FreeIsEmpty, proceed
  <2>3. \A p \in UserPage : View(t)'[p] = {}
    <3>1. \A p \in UserPage : dir'[pagedir'[t]].map[p].frame = NULL_PAGE
      BY <2>2 DEF EmptyDir
    <3> QED BY Zenon, <3>1 DEF View
  <2>4. Loaded(View(t)', "activate", prog'[t], 0, seg'[t])
    BY Zenon, <1>4, <2>3, ImageStarts
  <2>5. LoadExact(t)'
    BY Zenon, <1>4, <2>2, <2>4 DEF LoadExact, HandFilled
  <2> QED BY <1>3, <2>5, LoadStepped
<1> QED BY <1>1, <1>5, <1>6

(* process_activate() in load()                                            *)
LEMMA ActivateLoad ==
  ASSUME SpaceInv, LoadInv, NEW t \in User, process_activate(t)
  PROVE  LoadInv'
<1>1. /\ UNCHANGED <<pagedir, dir, data, prog, phnum, seg, kpage>> /\ place[t] = "activate"
      /\ place'[t] = "headers" /\ \A u \in User \ {t} : place'[u] = place[u]
  BY DEF process_activate, In, proceed, SpaceInv, SpaceType
<1>2. Touches(t)
  BY Zenon, <1>1, TouchesNone
<1>3. Loaded(View(t), "activate", prog[t], phnum[t], seg[t])
  BY Zenon, <1>1 DEF LoadInv, LoadExact, Loading
<1>4. Loaded(View(t), "headers", prog[t], phnum[t], seg[t])
  BY <1>3, ImageMoves DEF Inside
<1>5. View(t)' = View(t)
  BY ZenonT(40), <1>1 DEF View
<1>6. LoadExact(t)'
  BY <1>1, <1>4, <1>5 DEF LoadExact, HandFilled
<1> QED BY <1>2, <1>6, LoadStepped

(* The loop of load() over the program headers.                            *)
LEMMA HeaderLoad ==
  ASSUME SpaceInv, LoadInv, NEW t \in User, next_header(t)
  PROVE  LoadInv'
<1> DEFINE v == View(t)  pr == prog[t]  n == phnum[t]  s == seg[t]
<1>1. UNCHANGED <<pagedir, dir, data, prog, kpage>> /\ place[t] = "headers"
  BY ZenonT(40) DEF next_header, In
<1>2. View(t)' = v /\ prog'[t] = pr
  BY <1>1 DEF View
<1>3. Loaded(v, "headers", pr, n, s)
  BY <1>1 DEF LoadInv, LoadExact, Loading
<1>4. \/ n = Len(pr) /\ proceed(t, "stack") /\ UNCHANGED <<phnum, seg>>
      \/ /\ n # Len(pr) /\ phnum' = [phnum EXCEPT ![t] = @ + 1]
         /\ \/ pr[n + 1].type = "other" /\ UNCHANGED <<place, seg>>
            \/ proceed(t, "exit") /\ UNCHANGED seg
            \/ /\ pr[n + 1].type = "load" /\ validate_segment(pr[n + 1])
               /\ seg' = [seg EXCEPT ![t] = segment(pr[n + 1])] /\ proceed(t, "segment")
  BY Zenon DEF next_header
<1> HIDE DEF v
<1>5. \A u \in User \ {t} : place'[u] = place[u] /\ phnum'[u] = phnum[u] /\ seg'[u] = seg[u]
  BY <1>4 DEF proceed, SpaceInv, SpaceType
<1>6. Touches(t)
  BY ZenonT(40), <1>1, <1>5, TouchesNone
<1>7. CASE n = Len(pr) /\ proceed(t, "stack") /\ UNCHANGED <<phnum, seg>>
  <2>1. Loaded(v, "stack", pr, n, s)
    BY <1>3, <1>7, ImageMoves DEF Inside
  <2>2. place'[t] = "stack"
    BY <1>7 DEF proceed, SpaceInv, SpaceType
  <2> HIDE DEF pr, n, s
  <2>3. Loaded(View(t)', place'[t], prog'[t], phnum'[t], seg'[t])
    BY ZenonT(40), <1>2, <1>7, <2>1, <2>2 DEF n, s
  <2>4. LoadExact(t)'
    BY ZenonT(40), <2>2, <2>3 DEF LoadExact, HandFilled
  <2> QED BY <1>6, <2>4, LoadStepped
<1>8. CASE proceed(t, "exit")
  <2>1. place'[t] \notin Loading
    BY <1>8 DEF proceed, SpaceInv, SpaceType, Loading
  <2> QED BY <1>6, <2>1, LoadLeft
<1>9. CASE /\ n # Len(pr) /\ phnum' = [phnum EXCEPT ![t] = @ + 1]
           /\ \/ pr[n + 1].type = "other" /\ UNCHANGED <<place, seg>>
              \/ /\ pr[n + 1].type = "load" /\ validate_segment(pr[n + 1])
                 /\ seg' = [seg EXCEPT ![t] = segment(pr[n + 1])] /\ proceed(t, "segment")
  <2>1. /\ phnum'[t] = n + 1
        /\ \/ place'[t] = "headers" /\ pr[n + 1].type # "load"
           \/ /\ place'[t] = "segment" /\ pr[n + 1].type = "load" /\ validate_segment(pr[n + 1])
              /\ seg'[t] = segment(pr[n + 1])
    BY Zenon, <1>1, <1>9 DEF proceed, SpaceInv, SpaceType
  <2> HIDE DEF pr, n, s
  <2>2. Loaded(v, place'[t], pr, n + 1, seg'[t])
    BY Zenon, <1>3, <1>9, <2>1, ImageHeader
  <2>3. Loaded(View(t)', place'[t], prog'[t], phnum'[t], seg'[t])
    BY ZenonT(40), <1>2, <2>1, <2>2
  <2>4. LoadExact(t)'
    BY ZenonT(40), <2>1, <2>3 DEF LoadExact, HandFilled
  <2> QED BY <1>6, <2>4, LoadStepped
<1> QED BY Zenon, <1>4, <1>7, <1>8, <1>9

(* A free page is taken and filled: no program sees it yet.                *)
LEMMA TakenLoad ==
  ASSUME SpaceInv, LoadInv, NEW t \in User, place[t] \in Loading, NEW f \in unused, NEW c,
         data' = [data EXCEPT ![f] = c], UNCHANGED <<pagedir, dir, prog, phnum, seg>>,
         kpage' = [kpage EXCEPT ![t] = f],
         \A u \in User \ {t} : place'[u] = place[u]
  PROVE  Touches(t) /\ View(t)' = View(t) /\ data'[kpage'[t]] = c
<1>1. f \in Frame /\ kpage'[t] = f /\ \A u \in User \ {t} : kpage'[u] = kpage[u]
  BY DEF SpaceInv, SpaceType
<1>2. data' = [g \in Frame |-> data'[g]] /\ \A g \in Frame : g # f => data'[g] = data[g]
  BY Zenon DEF LoadInv
<1>3. data'[f] = c
  BY <1>1 DEF LoadInv
<1>4. Touches(t)
  BY Zenon, <1>1, <1>2 DEF Touches
<1>5. \A g \in held(t) : dir'[g] = dir[g] /\ data'[g] = data[g]
  <2>1. held(t) \subseteq Frame \ unused
    BY ViewIsHeld
  <2> QED BY <1>2, <2>1
<1>6. View(t)' = View(t)
  BY Zenon, <1>5, ViewKept
<1> QED BY Zenon, <1>1, <1>3, <1>4, <1>6

(* load_segment() fills a page.                                            *)
LEMMA FillLoad ==
  ASSUME SpaceInv, LoadInv, NEW t \in User, fill_page(t)
  PROVE  LoadInv'
<1> DEFINE v == View(t)  pr == prog[t]  n == phnum[t]  s == seg[t]
<1>1. /\ UNCHANGED <<pagedir, dir, prog, phnum, seg>> /\ place[t] = "segment"
      /\ \/ /\ s.read_bytes = 0 /\ s.zero_bytes = 0
            /\ proceed(t, "headers") /\ UNCHANGED <<unused, data, kpage>>
         \/ proceed(t, "exit") /\ UNCHANGED <<unused, data, kpage>>
         \/ \E f \in unused : /\ data' = [data EXCEPT ![f] = page_contents(s)]
                              /\ kpage' = [kpage EXCEPT ![t] = f] /\ proceed(t, "install")
  BY Zenon DEF fill_page, In, first_free
<1>2. Loaded(v, "segment", pr, n, s)
  BY <1>1 DEF LoadInv, LoadExact, Loading
<1>3. place[t] \in Loading /\ \A u \in User \ {t} : place'[u] = place[u]
  BY <1>1 DEF proceed, SpaceInv, SpaceType, Loading
<1> HIDE DEF s
<1>4. CASE UNCHANGED <<unused, data, kpage>> /\ proceed(t, "exit")
  <2>1. place'[t] \notin Loading
    BY <1>4 DEF proceed, SpaceInv, SpaceType, Loading
  <2>2. Touches(t)
    BY Zenon, <1>1, <1>3, <1>4, TouchesNone
  <2> QED BY <2>1, <2>2, LoadLeft
<1>5. CASE /\ s.read_bytes = 0 /\ s.zero_bytes = 0
           /\ proceed(t, "headers") /\ UNCHANGED <<unused, data, kpage>>
  <2>1. Touches(t)
    BY ZenonT(40), <1>1, <1>3, <1>5, TouchesNone
  <2>2. View(t)' = View(t)
    BY Zenon, <1>1, <1>5 DEF View
  <2>3. place'[t] = "headers"
    BY Zenon, <1>5 DEF proceed, SpaceInv, SpaceType
  <2>4. Loaded(v, "headers", pr, n, s)
    BY ZenonT(40), <1>2, <1>5, ImageSegmentDone
  <2>5. LoadExact(t)'
    BY <1>1, <2>2, <2>3, <2>4 DEF LoadExact, HandFilled, s
  <2> QED BY <2>1, <2>5, LoadStepped
<1>6. CASE \E f \in unused : /\ data' = [data EXCEPT ![f] = page_contents(s)]
                             /\ kpage' = [kpage EXCEPT ![t] = f] /\ proceed(t, "install")
  <2>1. PICK f \in unused : /\ data' = [data EXCEPT ![f] = page_contents(s)]
                            /\ kpage' = [kpage EXCEPT ![t] = f] /\ proceed(t, "install")
    BY Zenon, <1>6
  <2>2. Touches(t) /\ View(t)' = View(t) /\ data'[kpage'[t]] = page_contents(s)
    BY ZenonT(40), <1>1, <1>3, <2>1, TakenLoad
  <2>3. place'[t] = "install"
    BY <2>1 DEF proceed, SpaceInv, SpaceType
  <2>4. Loaded(v, "install", pr, n, s)
    BY Zenon, <1>2, ImageMoves DEF Inside
  <2>5. LoadExact(t)'
    BY Zenon, <1>1, <2>2, <2>3, <2>4 DEF LoadExact, HandFilled, s
  <2> QED BY <2>2, <2>5, LoadStepped
<1> QED BY Zenon, <1>1, <1>4, <1>5, <1>6

(* setup_stack() takes a page of zeros.                                    *)
LEMMA StackLoad ==
  ASSUME SpaceInv, LoadInv, NEW t \in User, stack_page(t)
  PROVE  LoadInv'
<1>1. /\ UNCHANGED <<pagedir, dir, prog, phnum, seg>> /\ place[t] = "stack"
      /\ \/ proceed(t, "exit") /\ UNCHANGED <<unused, data, kpage>>
         \/ \E f \in unused : /\ data' = [data EXCEPT ![f] = Filled(0)]
                              /\ kpage' = [kpage EXCEPT ![t] = f] /\ proceed(t, "install_stack")
  BY Zenon DEF stack_page, In, first_free
<1>2. Loaded(View(t), "stack", prog[t], phnum[t], seg[t])
  BY <1>1 DEF LoadInv, LoadExact, Loading
<1>3. place[t] \in Loading /\ \A u \in User \ {t} : place'[u] = place[u]
  BY <1>1 DEF proceed, SpaceInv, SpaceType, Loading
<1>4. CASE proceed(t, "exit") /\ UNCHANGED <<unused, data, kpage>>
  <2>1. place'[t] \notin Loading
    BY <1>4 DEF proceed, SpaceInv, SpaceType, Loading
  <2>2. Touches(t)
    BY ZenonT(40), <1>1, <1>3, <1>4, TouchesNone
  <2> QED BY <2>1, <2>2, LoadLeft
<1>5. CASE \E f \in unused : /\ data' = [data EXCEPT ![f] = Filled(0)]
                             /\ kpage' = [kpage EXCEPT ![t] = f] /\ proceed(t, "install_stack")
  <2>1. PICK f \in unused : /\ data' = [data EXCEPT ![f] = Filled(0)]
                            /\ kpage' = [kpage EXCEPT ![t] = f] /\ proceed(t, "install_stack")
    BY Zenon, <1>5
  <2>2. Touches(t) /\ View(t)' = View(t) /\ data'[kpage'[t]] = Filled(0)
    BY ZenonT(40), <1>1, <1>3, <2>1, TakenLoad
  <2>3. place'[t] = "install_stack"
    BY <2>1 DEF proceed, SpaceInv, SpaceType
  <2>4. phnum[t] = Len(prog[t])
    BY Zenon, <1>2 DEF Loaded, HeadersExact
  <2>5. Loaded(View(t), "install_stack", prog[t], phnum[t], seg[t])
    BY SMTT(40), <1>2, <2>4, ImageMoves DEF Inside
  <2>6. LoadExact(t)'
    BY <1>1, <2>2, <2>3, <2>5 DEF LoadExact, HandFilled
  <2> QED BY Zenon, <2>2, <2>6, LoadStepped
<1> QED BY Zenon, <1>1, <1>4, <1>5

(* install_page(): the program sees the page where nothing was, or the     *)
(* page is given back and load() fails.                                    *)
LEMMA InstalledLoad ==
  ASSUME SpaceInv, LoadInv, NEW t \in User, place[t] \in Loading, kpage[t] # NULL_PAGE,
         NEW p \in UserPage, NEW w, NEW next, install_page(t, p, w, next),
         UNCHANGED pagedir,
         \A u \in User \ {t} :
           /\ kpage'[u] = kpage[u] /\ phnum'[u] = phnum[u] /\ prog'[u] = prog[u] /\ seg'[u] = seg[u]
  PROVE  /\ Touches(t)
         /\ \/ proceed(t, "exit")
            \/ /\ proceed(t, next) /\ View(t)[p] = {}
               /\ View(t)' = [View(t) EXCEPT ![p] = {<<data[kpage[t]], w>>}]
<1> DEFINE pd == pagedir[t]  k == kpage[t]  d == dir[pd]
<1>1. pd \in held(t) /\ pd \in Frame /\ k \in held(t)
  BY Zenon, ViewIsHeld
<1>2. \A u \in User \ {t} : place'[u] = place[u]
  BY ZenonT(40) DEF install_page, proceed, SpaceInv, SpaceType
<1>3. CASE palloc_free({k}) /\ proceed(t, "exit")
  <2>1. {k} \in SUBSET held(t)
    BY Zenon, <1>1
  <2>2. Touches(t)
    BY Zenon, <1>2, <1>3, <2>1, TouchesFreed
  <2> QED BY ZenonT(40), <1>3, <2>2
<1>4. CASE /\ d.map[p].frame = NULL_PAGE /\ proceed(t, next) /\ UNCHANGED data
           /\ \/ dir' = [dir EXCEPT ![pd] = with_page(@, p, k, w)]
              \/ \E f \in unused : dir' = [dir EXCEPT ![pd] = with_page(with_table(@, p, f), p, k, w)]
  <2>1. IsDir(d)
    BY Zenon, <1>1 DEF SpaceInv, SpaceType
  <2>2. EntrySet(dir'[pd], d, p, k, w)
    <3>1. \A x : dir' = [dir EXCEPT ![pd] = x] => dir'[pd] = x
      BY <1>1 DEF SpaceInv, SpaceType
    <3>2. /\ EntrySet(with_page(d, p, k, w), d, p, k, w)
          /\ \A f : EntrySet(with_page(with_table(d, p, f), p, k, w), d, p, k, w)
      <4> HIDE DEF pd, k, d
      <4> QED BY Zenon, <2>1, MapWithPage
    <3>3. dir'[pd] = with_page(d, p, k, w) \/ \E f : dir'[pd] = with_page(with_table(d, p, f), p, k, w)
      BY Zenon, <1>4, <3>1
    <3> QED BY Zenon, <3>2, <3>3
  <2>3. \A f \in Frame : f # pd => dir'[f] = dir[f]
    BY <1>4 DEF SpaceInv, SpaceType
  <2>4. Touches(t)
    BY Zenon, <1>1, <1>2, <1>4, <2>3 DEF Touches, LoadInv
  <2>5. View(t)[p] = {}
    BY Zenon, <1>4 DEF View
  <2>6. View(t)' = [View(t) EXCEPT ![p] = {<<data[k], w>>}]
    <3> DEFINE m == dir'[pd].map
    <3>1. /\ m[p].frame = k /\ m[p].writable = w /\ k # NULL_PAGE
          /\ \A q \in UserPage : q # p => m[q] = d.map[q]
      BY Zenon, <2>2 DEF EntrySet
    <3>2. View(t)' = [q \in UserPage |-> IF m[q].frame = NULL_PAGE THEN {}
                                         ELSE {<<data[m[q].frame], m[q].writable>>}]
      BY Zenon, <1>4 DEF View
    <3>3. View(t) = [q \in UserPage |-> IF d.map[q].frame = NULL_PAGE THEN {}
                                        ELSE {<<data[d.map[q].frame], d.map[q].writable>>}]
      BY Zenon DEF View
    <3> DEFINE e == {<<data[k], w>>}
    <3>4. m[p].frame # NULL_PAGE /\ {<<data[m[p].frame], m[p].writable>>} = e
      BY Zenon, <3>1
    <3> HIDE DEF m, k, d, e
    <3>5. View(t)' = [View(t) EXCEPT ![p] = e]
      <4> DEFINE a == View(t)'  b == View(t)
      <4>1. a = [q \in UserPage |-> a[q]] /\ b = [q \in UserPage |-> b[q]]
        BY ZenonT(40), <3>2, <3>3
      <4>2. a[p] = e
        BY <3>2, <3>4
      <4>3. ASSUME NEW q \in UserPage, q # p PROVE a[q] = b[q]
        <5>1. m[q] = d.map[q]
          BY <3>1, <4>3
        <5>2. a[q] = IF m[q].frame = NULL_PAGE THEN {} ELSE {<<data[m[q].frame], m[q].writable>>}
          BY Zenon, <3>2
        <5>3. b[q] = IF d.map[q].frame = NULL_PAGE THEN {}
                     ELSE {<<data[d.map[q].frame], d.map[q].writable>>}
          BY Zenon, <3>3
        <5> QED BY Zenon, <5>1, <5>2, <5>3
      <4> HIDE DEF a, b
      <4>4. a = [b EXCEPT ![p] = e]
        BY <4>1, <4>2, <4>3
      <4> QED BY Zenon, <4>4 DEF a, b
    <3> QED BY ZenonT(40), <3>5 DEF e
  <2> QED BY Zenon, <1>4, <2>4, <2>5, <2>6
<1> QED BY ZenonT(40), <1>3, <1>4 DEF install_page, pagedir_get_page, first_free

(* load_segment() installs a page and advances.                            *)
LEMMA InstallSegmentLoad ==
  ASSUME SpaceInv, LoadInv, NEW t \in User, install_segment(t)
  PROVE  LoadInv'
<1> DEFINE s == seg[t]
           s2 == [s EXCEPT !.read_bytes = @ - page_read_bytes(s), !.upage = @ + 1,
                           !.zero_bytes = @ - page_zero_bytes(s), !.ofs = @ + page_read_bytes(s)]
<1>1. /\ UNCHANGED <<pagedir, prog, phnum>> /\ place[t] = "install"
      /\ kpage' = [kpage EXCEPT ![t] = NULL_PAGE] /\ seg' = [seg EXCEPT ![t] = s2]
      /\ install_page(t, s.upage, s.writable, "segment")
  BY Zenon DEF install_segment, In
<1>2. kpage[t] # NULL_PAGE /\ SegmentFits(s) /\ s.read_bytes + s.zero_bytes > 0
  BY <1>1 DEF SpaceInv, PlaceExact
<1>3. s.upage \in UserPage
  BY Zenon, <1>2, SegmentPage
<1>4. place[t] \in Loading
  BY <1>1 DEF Loading
<1>5. data[kpage[t]] = page_contents(s) /\ Loaded(View(t), "install", prog[t], phnum[t], s)
  BY <1>1, <1>4 DEF LoadInv, LoadExact, HandFilled
<1> HIDE DEF s, s2
<1>6. /\ seg'[t] = s2 /\ \A u \in User \ {t} : seg'[u] = seg[u] /\ kpage'[u] = kpage[u]
  BY <1>1 DEF SpaceInv, SpaceType
<1>7. /\ Touches(t)
      /\ \/ proceed(t, "exit")
         \/ /\ proceed(t, "segment") /\ View(t)[s.upage] = {}
            /\ View(t)' = [View(t) EXCEPT ![s.upage] = {<<data[kpage[t]], s.writable>>}]
  BY ZenonT(40), <1>1, <1>2, <1>3, <1>4, <1>6, InstalledLoad
<1>8. CASE proceed(t, "exit")
  <2>1. place'[t] \notin Loading
    BY <1>8 DEF proceed, SpaceInv, SpaceType, Loading
  <2> QED BY <1>7, <2>1, LoadLeft
<1>9. CASE /\ proceed(t, "segment") /\ View(t)[s.upage] = {}
           /\ View(t)' = [View(t) EXCEPT ![s.upage] = {<<data[kpage[t]], s.writable>>}]
  <2>1. place'[t] = "segment"
    BY <1>9 DEF proceed, SpaceInv, SpaceType
  <2>2. View(t) = [p \in UserPage |-> View(t)[p]]
    BY Zenon DEF View
  <2>3. Loaded(View(t)', "segment", prog[t], phnum[t], s2)
    <3> DEFINE v == View(t)  v2 == View(t)'
    <3>1. v2 = [v EXCEPT ![s.upage] = {<<page_contents(s), s.writable>>}]
      BY Zenon, <1>5, <1>9
    <3>2. v[s.upage] = {} /\ v = [p \in UserPage |-> v[p]] /\ Loaded(v, "install", prog[t], phnum[t], s)
      BY Zenon, <1>5, <1>9, <2>2
    <3> HIDE DEF v, v2
    <3>3. Loaded(v2, "segment", prog[t], phnum[t], s2)
      BY ZenonT(40), <1>2, <1>3, <3>1, <3>2, ImagePage DEF s2
    <3> QED BY <3>3 DEF v2
  <2>4. LoadExact(t)'
    BY <1>1, <1>6, <2>1, <2>3 DEF LoadExact, HandFilled
  <2> QED BY <1>7, <2>4, LoadStepped
<1> QED BY <1>7, <1>8, <1>9

(* setup_stack() installs its page.                                        *)
LEMMA InstallStackLoad ==
  ASSUME SpaceInv, LoadInv, NEW t \in User, install_stack(t)
  PROVE  LoadInv'
<1>1. /\ UNCHANGED <<pagedir, prog, phnum, seg>> /\ place[t] = "install_stack"
      /\ kpage' = [kpage EXCEPT ![t] = NULL_PAGE] /\ install_page(t, StackPage, TRUE, "user")
  BY Zenon DEF install_stack, In
<1>2. kpage[t] # NULL_PAGE /\ place[t] \in Loading /\ StackPage \in UserPage
  BY Zenon, <1>1, UserPages DEF SpaceInv, PlaceExact, Loading
<1>3. /\ data[kpage[t]] = Filled(0)
      /\ Loaded(View(t), "install_stack", prog[t], phnum[t], seg[t])
  BY <1>1, <1>2 DEF LoadInv, LoadExact, HandFilled
<1>4. \A u \in User \ {t} : kpage'[u] = kpage[u]
  BY Zenon, <1>1 DEF SpaceInv, SpaceType
<1>5. /\ Touches(t)
      /\ \/ proceed(t, "exit")
         \/ /\ proceed(t, "user") /\ View(t)[StackPage] = {}
            /\ View(t)' = [View(t) EXCEPT ![StackPage] = {<<data[kpage[t]], TRUE>>}]
  <2> DEFINE w == TRUE
  <2>1. install_page(t, StackPage, w, "user")
    BY Zenon, <1>1
  <2> HIDE DEF w
  <2>2. /\ Touches(t)
        /\ \/ proceed(t, "exit")
           \/ /\ proceed(t, "user") /\ View(t)[StackPage] = {}
              /\ View(t)' = [View(t) EXCEPT ![StackPage] = {<<data[kpage[t]], w>>}]
    <3>1. \A u \in User \ {t} :
            /\ kpage'[u] = kpage[u] /\ phnum'[u] = phnum[u] /\ prog'[u] = prog[u] /\ seg'[u] = seg[u]
      BY <1>1, <1>4
    <3>2. UNCHANGED pagedir
      BY Zenon, <1>1
    <3> QED BY ZenonT(40), <1>2, <2>1, <3>1, <3>2, InstalledLoad
  <2> QED BY Zenon, <2>2 DEF w
<1>6. CASE proceed(t, "exit")
  <2>1. place'[t] \notin Loading
    BY <1>6 DEF proceed, SpaceInv, SpaceType, Loading
  <2> QED BY ZenonT(40), <1>5, <2>1, LoadLeft
<1>7. CASE /\ proceed(t, "user") /\ View(t)[StackPage] = {}
           /\ View(t)' = [View(t) EXCEPT ![StackPage] = {<<data[kpage[t]], TRUE>>}]
  <2>1. place'[t] = "user"
    BY <1>7 DEF proceed, SpaceInv, SpaceType
  <2>2. View(t) = [p \in UserPage |-> View(t)[p]]
    BY Zenon DEF View
  <2>3. Loaded(View(t)', "user", prog[t], phnum[t], seg[t])
    <3> DEFINE v == View(t)  v2 == View(t)'
    <3>1. v2 = [v EXCEPT ![StackPage] = {<<Filled(0), TRUE>>}]
      BY Zenon, <1>3, <1>7
    <3>2. /\ v[StackPage] = {} /\ v = [p \in UserPage |-> v[p]]
          /\ Loaded(v, "install_stack", prog[t], phnum[t], seg[t])
      BY Zenon, <1>3, <1>7, <2>2
    <3> HIDE DEF v, v2
    <3>3. Loaded(v2, "user", prog[t], phnum[t], seg[t])
      BY ZenonT(40), <3>1, <3>2, ImageStack
    <3> QED BY <3>3 DEF v2
  <2>4. LoadExact(t)'
    BY Zenon, <1>1, <2>1, <2>3 DEF LoadExact, HandFilled
  <2> QED BY <1>5, <2>4, LoadStepped
<1> QED BY Zenon, <1>5, <1>6, <1>7

(* process_exit(), up to the destruction of the page directory.            *)
LEMMA ExitLoad ==
  ASSUME SpaceInv, LoadInv, NEW t \in User, exit_space(t) \/ pagedir_activate(t)
  PROVE  LoadInv'
<1>1. /\ UNCHANGED <<dir, data, prog, phnum, seg, kpage>>
      /\ pagedir' = pagedir \/ pagedir' = [pagedir EXCEPT ![t] = NULL_PAGE]
      /\ proceed(t, "dead") \/ proceed(t, "deactivate") \/ proceed(t, "destroy")
  BY DEF exit_space, pagedir_activate, forget_pagedir
<1>2. /\ place'[t] \notin Loading
      /\ \A u \in User \ {t} : place'[u] = place[u] /\ pagedir'[u] = pagedir[u]
  BY <1>1 DEF proceed, SpaceInv, SpaceType, Loading
<1>3. Touches(t)
  BY Zenon, <1>1, <1>2, TouchesNone
<1> QED BY Zenon, <1>2, <1>3, LoadLeft

(* pagedir_destroy()                                                       *)
LEMMA DestroyLoad ==
  ASSUME SpaceInv, LoadInv, NEW t \in User, pagedir_destroy(t)
  PROVE  LoadInv'
<1>1. /\ UNCHANGED <<pagedir, kpage>> /\ palloc_free(pages_of(dying[t])) /\ place[t] = "destroy"
      /\ seg' = [seg EXCEPT ![t] = NoSegment] /\ phnum' = [phnum EXCEPT ![t] = 0]
      /\ prog' = [prog EXCEPT ![t] = <<>>] /\ proceed(t, "dead")
  BY Zenon DEF pagedir_destroy, freed_with, In
<1>2. /\ place'[t] \notin Loading
      /\ \A u \in User \ {t} : /\ place'[u] = place[u] /\ seg'[u] = seg[u] /\ phnum'[u] = phnum[u]
                               /\ prog'[u] = prog[u]
  BY Zenon, <1>1 DEF proceed, SpaceInv, SpaceType, Loading
<1>3. pagedir[t] = NULL_PAGE /\ dying[t] # NULL_PAGE
  BY ZenonT(40), <1>1 DEF SpaceInv, PlaceExact, Ending
<1>4. pages_of(dying[t]) \in SUBSET held(t)
  BY <1>3 DEF held, space
<1>5. Touches(t)
  BY Zenon, <1>1, <1>2, <1>4, TouchesFreed
<1> QED BY <1>2, <1>5, LoadLeft

(* Steps that leave the pages and the places of load() alone.              *)
LEMMA LoadKept ==
  ASSUME LoadInv, UNCHANGED <<pagedir, dir, data, place, prog, phnum, seg, kpage>>
  PROVE  LoadInv'
<1>1. ASSUME NEW t \in User PROVE LoadExact(t)'
  <2>1. View(t)' = View(t)
    BY Zenon DEF View
  <2>2. CASE place[t] \notin Loading
    BY Zenon, <2>2 DEF LoadExact
  <2>3. CASE place[t] \in Loading
    <3>1. LoadExact(t)
      BY ZenonT(40) DEF LoadInv
    <3>2. HandFilled(t)'
      BY <2>3, <3>1 DEF LoadExact, HandFilled
    <3>3. Loaded(View(t)', place'[t], prog'[t], phnum'[t], seg'[t])
      BY Zenon, <2>1, <2>3, <3>1 DEF LoadExact
    <3> QED BY <3>2, <3>3 DEF LoadExact
  <2> QED BY <2>2, <2>3
<1> QED BY <1>1 DEF LoadInv

(* Every step of load(), process_exit() and the scheduler.                 *)
LEMMA LoadStep == SpaceInv /\ LoadInv /\ [SpaceNext]_spaceVars => LoadInv'
<1> SUFFICES ASSUME SpaceInv, LoadInv, [SpaceNext]_spaceVars PROVE LoadInv'
  OBVIOUS
<1>1. CASE UNCHANGED spaceVars
  BY <1>1, LoadKept DEF spaceVars
<1>2. CASE \E t \in User :
             \/ create_pagedir(t) \/ process_activate(t) \/ next_header(t) \/ fill_page(t)
             \/ install_segment(t) \/ stack_page(t) \/ install_stack(t)
             \/ exit_space(t) \/ pagedir_activate(t) \/ pagedir_destroy(t)
  BY Zenon, <1>2, CreateLoad, ActivateLoad, HeaderLoad, FillLoad, InstallSegmentLoad, StackLoad,
     InstallStackLoad, ExitLoad, DestroyLoad
<1>3. CASE \E t \in User \cup {Kernel} : switch_to(t)
  BY <1>3, LoadKept DEF switch_to
<1> QED BY <1>1, <1>2, <1>3 DEF SpaceNext

(* Before the first program there is nothing to see.                       *)
LEMMA LoadStart == SpaceInit => LoadInv
<1> SUFFICES ASSUME SpaceInit PROVE LoadInv
  OBVIOUS
<1>1. data = [f \in Frame |-> data[f]]
  BY Zenon DEF SpaceInit
<1>2. \A t \in User : place[t] \notin Loading
  BY DEF SpaceInit, Loading
<1> QED BY <1>1, <1>2 DEF LoadInv, LoadExact

(* The page of the k-th byte of a segment, and the byte in it.             *)
LEMMA SegmentByte ==
  ASSUME NEW ph \in Header, ph.type = "load", validate_segment(ph), NEW k \in 0 .. ph.memsz - 1
  PROVE  LET a == ph.vaddr + k IN
         /\ a \div PageSize \in FirstPage(ph) .. LastPage(ph)
         /\ PageImage(ph, a \div PageSize)[a % PageSize] =
              IF k < ph.filesz THEN ph.offset + k + 1 ELSE 0
<1> DEFINE v == ph.vaddr  m == ph.memsz  f == FirstPage(ph)  l == LastPage(ph)  a == v + k
           p == a \div PageSize  i == a % PageSize
<1>1. /\ v \in Nat /\ m \in Nat \ {0} /\ ph.filesz \in Nat /\ ph.offset \in Nat /\ f \in Nat /\ l \in Nat
      /\ f <= l
  BY Zenon, Accepted
<1>2. PICK o, e \in 0 .. PageSize - 1 : v = PageSize * f + o /\ v + m - 1 = PageSize * l + e
  BY Zenon, Accepted
<1>3. PageSize \in Nat \ {0} /\ a \in Nat /\ k \in Nat /\ k <= m - 1
  BY <1>1, AddressAssumption
<1>4. p \in Nat /\ i \in 0 .. PageSize - 1 /\ a = PageSize * p + i
  BY Zenon, <1>3, Divided
<1> HIDE DEF f, l, v, m, p, i
<1>5. /\ PageSize * p \in Int /\ PageSize * f \in Int /\ PageSize * l \in Int
      /\ PageSize * (p + 1) = PageSize * p + PageSize /\ PageSize * (l + 1) = PageSize * l + PageSize
  BY <1>1, <1>3, <1>4, SMT
<1>6. PageSize * f < PageSize * (p + 1) /\ PageSize * p < PageSize * (l + 1)
  BY <1>1, <1>2, <1>3, <1>4, <1>5
<1>7. f < p + 1 /\ p < l + 1
  BY <1>1, <1>3, <1>4, <1>6, Ordered
<1>8. p \in f .. l
  BY <1>1, <1>4, <1>7
<1>9. PageImage(ph, p)[i] = ByteAt(ph, a)
  BY Zenon, <1>4 DEF PageImage
<1>10. ByteAt(ph, a) = IF k < ph.filesz THEN ph.offset + k + 1 ELSE 0
  BY <1>1, <1>3 DEF ByteAt, v
<1> QED BY Zenon, <1>8, <1>9, <1>10 DEF f, l, p, i, v

(* A program that has been loaded.                                         *)
LEMMA LoadedImage == SpaceInv /\ LoadInv => ImageExact
<1> SUFFICES ASSUME SpaceInv, LoadInv, NEW t \in User, place[t] = "user"
             PROVE  LET d == dir[pagedir[t]]
                        loads == {i \in 1 .. Len(prog[t]) : prog[t][i].type = "load"}
                        covered(ph) == ph.vaddr \div PageSize .. (ph.vaddr + ph.memsz - 1) \div PageSize
                    IN /\ \A i \in loads : LET ph == prog[t][i] IN
                            /\ covered(ph) \subseteq UserPage \ {0, StackPage}
                            /\ \A k \in 0 .. ph.memsz - 1 :
                                 LET a == ph.vaddr + k m == d.map[a \div PageSize]
                                 IN /\ m.frame # NULL_PAGE /\ m.writable = ph.writable
                                    /\ data[m.frame][a % PageSize] =
                                         IF k < ph.filesz THEN ph.offset + k + 1 ELSE 0
                       /\ d.map[StackPage].writable /\ data[d.map[StackPage].frame] = Filled(0)
                       /\ \A p \in UserPage : d.map[p].frame # NULL_PAGE =>
                            p = StackPage \/ \E i \in loads : p \in covered(prog[t][i])
  BY Zenon DEF ImageExact
<1> DEFINE map == dir[pagedir[t]].map  pr == prog[t]  n == phnum[t]  s == seg[t]
           loads == {i \in 1 .. Len(pr) : pr[i].type = "load"}
<1>1. Loaded(View(t), "user", pr, n, s)
  BY DEF LoadInv, LoadExact, Loading
<1>2. n = Len(pr) /\ pr \in Seq(Header) /\ Seen(pr, n) = loads
  BY Zenon, <1>1 DEF Loaded, HeadersExact, Seen
<1>3. \A i : DonePages("user", pr, n, s, i) = FirstPage(pr[i]) .. LastPage(pr[i])
  BY DEF DonePages, Inside
<1>4. \A p \in UserPage : View(t)[p] = IF map[p].frame = NULL_PAGE THEN {}
                                       ELSE {<<data[map[p].frame], map[p].writable>>}
  BY Zenon DEF View
<1> HIDE DEF pr, n, s, loads, map
<1>5. \A p \in UserPage : \A c, w : View(t)[p] = {<<c, w>>} =>
        map[p].frame # NULL_PAGE /\ data[map[p].frame] = c /\ map[p].writable = w
  <2> SUFFICES ASSUME NEW p \in UserPage, NEW c, NEW w, View(t)[p] = {<<c, w>>}
               PROVE  map[p].frame # NULL_PAGE /\ data[map[p].frame] = c /\ map[p].writable = w
    OBVIOUS
  <2>1. map[p].frame # NULL_PAGE
    BY Zenon, <1>4
  <2>2. <<data[map[p].frame], map[p].writable>> = <<c, w>>
    BY Zenon, <1>4, <2>1
  <2> QED BY <2>1, <2>2
<1>6. ASSUME NEW i \in loads
      PROVE  /\ FirstPage(pr[i]) .. LastPage(pr[i]) \subseteq UserPage \ {0, StackPage}
             /\ \A k \in 0 .. pr[i].memsz - 1 :
                  LET a == pr[i].vaddr + k m == map[a \div PageSize]
                  IN /\ m.frame # NULL_PAGE /\ m.writable = pr[i].writable
                     /\ data[m.frame][a % PageSize] =
                          IF k < pr[i].filesz THEN pr[i].offset + k + 1 ELSE 0
  <2> DEFINE ph == pr[i]
  <2>1. ph \in Header /\ ph.type = "load" /\ validate_segment(ph)
    <3>1. i \in 1 .. Len(pr) /\ ph.type = "load"
      BY <1>6 DEF loads
    <3>2. validate_segment(ph)
      BY Zenon, <1>1, <1>2, <1>6 DEF Loaded, HeadersExact
    <3> QED BY <1>2, <3>1, <3>2
  <2>2. FirstPage(ph) \in Nat /\ LastPage(ph) \in Nat /\ 0 < FirstPage(ph)
    BY Zenon, <2>1, Accepted
  <2>3. StackPage \notin FirstPage(ph) .. LastPage(ph)
    BY Zenon, <1>1, <1>2, <1>6 DEF Loaded, StackLoaded
  <2>4. \A p \in FirstPage(ph) .. LastPage(ph) :
          p \in UserPage /\ View(t)[p] = {<<PageImage(ph, p), ph.writable>>}
    BY Zenon, <1>1, <1>2, <1>3, <1>6 DEF Loaded, PagesLoaded
  <2>5. FirstPage(ph) .. LastPage(ph) \subseteq UserPage \ {0, StackPage}
    BY <2>2, <2>3, <2>4
  <2>6. ASSUME NEW k \in 0 .. ph.memsz - 1
        PROVE  LET a == ph.vaddr + k m == map[a \div PageSize]
               IN /\ m.frame # NULL_PAGE /\ m.writable = ph.writable
                  /\ data[m.frame][a % PageSize] = IF k < ph.filesz THEN ph.offset + k + 1 ELSE 0
    <3> DEFINE a == ph.vaddr + k
    <3> HIDE DEF ph
    <3>1. /\ a \div PageSize \in FirstPage(ph) .. LastPage(ph)
          /\ PageImage(ph, a \div PageSize)[a % PageSize] =
               IF k < ph.filesz THEN ph.offset + k + 1 ELSE 0
      BY Zenon, <2>1, <2>6, SegmentByte
    <3> HIDE DEF a
    <3> DEFINE p == a \div PageSize
    <3>2. map[p].frame # NULL_PAGE /\ data[map[p].frame] = PageImage(ph, p)
          /\ map[p].writable = ph.writable
      <4> DEFINE c == PageImage(ph, p)  w == ph.writable
      <4>1. p \in UserPage /\ View(t)[p] = {<<c, w>>}
        BY <2>4, <3>1
      <4> HIDE DEF p, c, w
      <4>2. map[p].frame # NULL_PAGE /\ data[map[p].frame] = c /\ map[p].writable = w
        BY Zenon, <1>5, <4>1
      <4> QED BY Zenon, <4>2 DEF c, w
    <3> QED BY Zenon, <3>1, <3>2 DEF a
  <2> QED BY Zenon, <2>5, <2>6
<1>7. map[StackPage].writable /\ data[map[StackPage].frame] = Filled(0)
  <2>1. View(t)[StackPage] = {<<Filled(0), TRUE>>} /\ StackPage \in UserPage
    BY Zenon, <1>1, UserPages DEF Loaded, StackLoaded
  <2>2. map[StackPage].writable = TRUE /\ data[map[StackPage].frame] = Filled(0)
    BY Zenon, <1>5, <2>1
  <2> QED BY <2>2
<1>8. \A p \in UserPage : map[p].frame # NULL_PAGE =>
        p = StackPage \/ \E i \in loads : p \in FirstPage(pr[i]) .. LastPage(pr[i])
  <2> SUFFICES ASSUME NEW p \in UserPage, map[p].frame # NULL_PAGE, p # StackPage
               PROVE  \E i \in loads : p \in FirstPage(pr[i]) .. LastPage(pr[i])
    OBVIOUS
  <2>1. View(t)[p] # {}
    BY Zenon, <1>4
  <2> QED BY Zenon, <1>1, <1>2, <1>3, <2>1 DEF Loaded, NothingElse
<1>9. \A i : FirstPage(pr[i]) .. LastPage(pr[i])
              = pr[i].vaddr \div PageSize .. (pr[i].vaddr + pr[i].memsz - 1) \div PageSize
  BY Zenon DEF FirstPage, LastPage
<1> QED BY ZenonT(40), <1>6, <1>7, <1>8, <1>9 DEF loads, map, pr

-----------------------------------------------------------------------------
(* LoadInv holds wherever the timer strikes in load(): the pages done so   *)
(* far have their bytes, whoever else loads or exits meanwhile.            *)
THEOREM LoadInvariant == SpaceSpec => []LoadInv
BY SpaceInvariant, LoadStart, LoadStep, PTL DEF SpaceSpec

(* A loaded program has the image its headers describe, with bytes of the  *)
(* file and zeros where load_segment() is to put them, an empty stack, and *)
(* nothing else; no page of another process is seen or overwritten.        *)
THEOREM ImagesAreExact == SpaceSpec => []ImageExact
BY SpaceInvariant, LoadInvariant, LoadedImage, PTL

=============================================================================
