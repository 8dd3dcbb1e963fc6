------------------------------ MODULE MCSyscalls ------------------------------
(* What user programs see: processes, their address spaces, or files.       *)
EXTENDS MCProcess, AddressSpace, MCFileSys, TLC

Load(v, o, f, m, w) ==
  [type |-> "load", vaddr |-> v, offset |-> o, filesz |-> f, memsz |-> m, writable |-> w]
Other(type) == [type |-> type]
Executables == {
  <<Load(2, 0, 3, 3, FALSE), Other("other"), Load(7, 3, 1, 3, TRUE)>>,  \* text, data and bss
  <<Load(3, 1, 0, 4, TRUE)>>,                                           \* bss over three pages
  <<Load(4, 4, 2, 2, FALSE), Load(5, 5, 1, 1, TRUE)>>,                  \* two in one page
  <<Load(2, 2, 5, 5, FALSE)>>,                                          \* more than the file has
  <<Load(8, 0, 1, 9, TRUE)>>,                                           \* wraps around
  <<Load(8, 0, 1, 3, TRUE)>>,                                           \* reaches the stack
  <<Load(1, 1, 1, 1, TRUE)>>, <<Load(2, 2, 1, 1, FALSE), Other("bad")>>}
MCProgram == [u1 |-> Executables, u2 |-> {<<Load(4, 4, 2, 2, TRUE)>>}]

(* Pages that are not the first thread's are interchangeable.               *)
PageSymmetry == Permutations(Page \ {main})

VARIABLE part
userVars == <<part, procVars, spaceVars, vars>>

UserInit == ProcInit /\ SpaceInit /\ FilesInit /\ part \in {"process", "space", "files"}
UserNext ==
  \/ part = "process" /\ ProcNext /\ UNCHANGED <<part, spaceVars, vars>>
  \/ part = "space" /\ SpaceNext /\ UNCHANGED <<part, procVars, vars>>
  \/ part = "files" /\ FilesNext /\ UNCHANGED <<part, procVars, spaceVars>>
UserSpec == UserInit /\ [][UserNext]_userVars
=============================================================================
