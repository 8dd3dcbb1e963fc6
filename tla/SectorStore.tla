---------------------------- MODULE SectorStore ----------------------------
(***************************************************************************)
(* What the buffer cache promises: an array of sectors in which every read *)
(* returns what was last written, part by part.                            *)
(***************************************************************************)
CONSTANTS Sector, Part, Byte, Zero

VARIABLES
  content,   \* the data of every sector
  returned   \* the answer of the last read

StoreInit ==
  /\ content = [s \in Sector |-> [p \in Part |-> Zero]]
  /\ returned = Zero

Write(s, p, b) ==
  /\ content' = [content EXCEPT ![s][p] = b]
  /\ UNCHANGED returned

Read(s, p) ==
  /\ returned' = content[s][p]
  /\ UNCHANGED content

StoreNext ==
  \E s \in Sector, p \in Part : Read(s, p) \/ \E b \in Byte : Write(s, p, b)

StoreSpec == StoreInit /\ [][StoreNext]_<<content, returned>>
=============================================================================
