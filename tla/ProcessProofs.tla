---------------------------- MODULE ProcessProofs ----------------------------
(***************************************************************************)
(* TLAPS proofs about Process, for any number of pages, processes and      *)
(* statuses: the lists of children are exact, exec() answers after the     *)
(* load, and wait() tells the truth, once, although pages are freed and    *)
(* used again under the pointers to them.  The inductive invariant is      *)
(* ProcInv of ProcessSemaProofs.                                           *)
(***************************************************************************)
EXTENDS ProcessSemaProofs

(* thread_create(), by run_task() or by exec(): the new tid was never      *)
(* given, the new page had no process.                                     *)
LEMMA CreateStep ==
  ASSUME ProcInv, NEW p \in Page, NEW q \in Page, NEW label, at[p] = "user",
         \/ p = main /\ label = "process_wait"
         \/ p # main /\ label = "exec_get_child",
         thread_create(p, q, label)
  PROVE  ProcInv'
<1>1. /\ ProcTypeOK /\ TidsExact /\ ExecExact /\ RecordsExact /\ WaitsExact /\ Listed
      /\ WaitTruthful
  BY ListsAre DEF ProcInv
<1> DEFINE n == next_tid
<1>2. /\ tid[q] = 0 /\ n \in Tid /\ n \in Nat /\ n >= 2 /\ next_tid' = n + 1
      /\ panic' = panic /\ waits' = waits
  BY <1>1, ProcessAssumption DEF thread_create, ProcTypeOK, Tid
<1>3. at[q] = "none" /\ q # p /\ q # main /\ tid[p] # 0
  BY <1>1, <1>2 DEF TidsExact
<1>4. /\ tid'[q] = n /\ parent'[q] = p /\ at'[q] = "start_process" /\ sema'[q] = fresh_semas
      /\ at'[p] = label /\ target'[p] = n /\ children'[q] = {}
      /\ children'[p] = children[p] \cup {n}
      /\ record'[n] = create_child_process(q) /\ creator'[n] = tid[p]
  BY Zenon, <1>1, <1>2, <1>3 DEF thread_create, ProcTypeOK
<1>5. /\ \A r \in Page \ {q} : /\ tid'[r] = tid[r] /\ parent'[r] = parent[r]
                               /\ sema'[r] = sema[r]
      /\ \A r \in Page \ {p, q} : /\ at'[r] = at[r] /\ target'[r] = target[r]
                                  /\ children'[r] = children[r]
      /\ \A i \in Tid \ {n} : record'[i] = record[i] /\ creator'[i] = creator[i]
  BY Zenon, <1>1, <1>2, <1>3 DEF thread_create, ProcTypeOK
<1>6. Given' = Given \cup {n} /\ n \notin Given /\ Given \subseteq Tid \ {n} /\ 1 # n /\ 1 \in Tid
  BY SMTT(40), <1>1, <1>2, GivenAreTids, ProcessAssumption DEF Given, ProcTypeOK, Tid
<1>7. \A k \in Kind : fresh_semas[k].value = 0 /\ fresh_semas[k].waiters = <<>>
  BY DEF fresh_semas, Kind
<1>8. \A r \in Page : tid[r] \in Nat /\ tid[r] < n /\ (tid[r] # 0 => tid[r] \in Tid \ {n})
  BY SMTT(40), <1>1, PageFacts DEF TidsExact, ProcTypeOK
<1>9. label \in {"process_wait", "exec_get_child"}
  OBVIOUS
<1>10. ProcTypeOK'
  <2>1. fresh_semas \in [Kind -> [value : Nat, waiters : Seq(Page)]] /\ label \in Label
        /\ "start_process" \in Label
    BY SMTT(40), <1>9 DEF fresh_semas, Kind, Label, Starting, ExecLabel
  <2>2. create_child_process(q) \in Record
    BY DEF create_child_process, Record, CHILD_NOT_EXITED
  <2>3. /\ tid' \in [Page -> Nat] /\ parent' \in [Page -> Page \cup {NoThread}]
        /\ children' \in [Page -> SUBSET Nat] /\ creator' \in [Tid -> Nat]
    BY Zenon, <1>1, <1>2, <1>8 DEF thread_create, ProcTypeOK
  <2>4. at' \in [Page -> Label] /\ target' \in [Page -> Int]
    <3>1. n \in Int /\ 0 \in Int
      BY <1>2
    <3>2. at' = [at EXCEPT ![q] = "start_process", ![p] = label]
          /\ target' = [target EXCEPT ![p] = n, ![q] = 0]
      BY DEF thread_create
    <3>3. at \in [Page -> Label] /\ target \in [Page -> Int]
      BY <1>1 DEF ProcTypeOK
    <3> HIDE DEF n
    <3>4. QED
      BY Zenon, <2>1, <3>1, <3>2, <3>3
  <2>5. sema' \in [Page -> [Kind -> [value : Nat, waiters : Seq(Page)]]]
    BY <1>1, <2>1 DEF thread_create, ProcTypeOK
  <2>6. record' \in [Tid -> Record]
    BY <1>1, <1>2, <2>2 DEF thread_create, ProcTypeOK
  <2>7. next_tid' \in 2 .. MaxTid + 1
    BY <1>2, ProcessAssumption DEF Tid
  <2>8. QED
    BY ZenonT(40), <1>1, <1>2, <2>3, <2>4, <2>5, <2>6, <2>7 DEF ProcTypeOK
<1> HIDE DEF n
<1>11. TidsExact'
  <2>1. \A r \in Page : (at'[r] = "none" <=> tid'[r] = 0) /\ tid'[r] < next_tid'
    <3>1. \A r \in Page : r # q => tid'[r] < next_tid'
      BY <1>2, <1>5, <1>8
    <3>2. tid'[q] < next_tid' /\ tid'[q] # 0
      BY SMTT(40), <1>2, <1>4
    <3>3. \A r \in Page \ {p, q} : at'[r] = "none" <=> tid'[r] = 0
      BY <1>1, <1>5 DEF TidsExact
    <3>4. at'[p] # "none" /\ tid'[p] # 0 /\ at'[q] # "none"
      BY <1>3, <1>4, <1>5, <1>9
    <3>5. \A r \in Page : at'[r] = "none" <=> tid'[r] = 0
      BY <3>2, <3>3, <3>4
    <3>6. QED
      BY <3>1, <3>2, <3>5
  <2>2. \A r, s \in Page : tid'[r] = tid'[s] /\ tid'[r] # 0 => r = s
    BY SMTT(40), <1>1, <1>4, <1>5, <1>8 DEF TidsExact
  <2>3. tid'[main] = 1 /\ at'[main] \in {"user", "process_wait"} \cup WaitLabel
    BY <1>1, <1>3, <1>4, <1>5, ProcessAssumption DEF TidsExact
  <2>4. create_child_process(q).page = q
    BY DEF create_child_process
  <2>5. \A r \in Page \ {main} : tid'[r] # 0 =>
          parent'[r] \in Page /\ record'[tid'[r]].page = r
    BY SMTT(40), <1>1, <1>4, <1>5, <1>8, <2>4 DEF TidsExact
  <2>6. \A i \in Tid : creator'[i] < i
    BY <1>1, <1>4, <1>5, <1>8 DEF TidsExact
  <2>7. creator'[1] = 0 /\ \A i \in Given' : record'[i].page \in Page
    BY SMTT(40), <1>1, <1>4, <1>5, <1>6, <2>4 DEF TidsExact
  <2>8. QED
    BY <2>1, <2>2, <2>3, <2>5, <2>6, <2>7 DEF TidsExact, Tid
<1>12. QueuesExact'
  <2>1. /\ {p, q} \in SUBSET Page
        /\ \A r \in {p, q} : at[r] \notin {"exec_asleep", "wait_asleep"}
        /\ \A r \in Page \ {p, q} : at'[r] = at[r] /\ target'[r] = target[r]
        /\ \A i \in Given : record'[i].page = record[i].page
        /\ \A r \in Page, k \in Kind : \/ sema'[r][k].waiters = sema[r][k].waiters
                                       \/ sema'[r][k].waiters = <<>>
    BY <1>3, <1>4, <1>5, <1>6, <1>7
  <2>2. QED
    BY Zenon, <2>1, QueuesKept
<1>13. Listed'
  <2> SUFFICES ASSUME NEW s \in Page, NEW j \in Nat, tid'[s] # 0
               PROVE  j \in children'[s] <=> \E r \in Page : /\ tid'[r] = j /\ j # 0
                                                             /\ creator'[j] = tid'[s]
                                                             /\ at'[r] \notin Unlisted
    BY DEF Listed
  <2>1. \A r \in Page : r # q => (at'[r] \notin Unlisted <=> at[r] \notin Unlisted)
    BY Zenon, <1>4, <1>5, <1>9 DEF Unlisted
  <2>2. CASE s = q
    <3>1. \A r \in Page : tid'[r] = j /\ j # 0 => creator'[j] # n
      <4>1. creator'[tid'[q]] # n
        BY SMTT(40), <1>2, <1>4, <1>8
      <4>2. ASSUME NEW r \in Page, r # q, tid'[r] # 0 PROVE creator'[tid'[r]] # n
        <5>1. tid'[r] = tid[r] /\ tid[r] \in Tid \ {n} /\ tid[r] \in Nat /\ tid[r] < n
          BY Zenon, <1>5, <1>8, <4>2
        <5>2. creator[tid[r]] \in Nat /\ creator[tid[r]] < tid[r]
          BY Zenon, <1>1, <5>1 DEF TidsExact, ProcTypeOK
        <5>3. QED
          BY SMTT(40), <1>2, <1>5, <5>1, <5>2
      <4>3. QED
        BY <4>1, <4>2
    <3>2. QED
      BY <1>4, <2>2, <3>1
  <2>3. CASE s # q
    <3>1. tid'[s] = tid[s] /\ tid[s] # 0
      BY <1>5, <2>3
    <3>2. \A i \in Nat : i \in children[s] <=> \E r \in Page : /\ tid[r] = i /\ i # 0
                                                             /\ creator[i] = tid[s]
                                                             /\ at[r] \notin Unlisted
      BY <1>1, <3>1 DEF Listed
    <3>3. n \notin children[s]
      BY <1>2, <1>8, <3>2
    <3>4. CASE j = n
      <4>1. j \in children'[s] <=> s = p
        BY Zenon, <1>4, <1>5, <2>3, <3>3, <3>4
      <4>2. creator'[j] = tid'[s] <=> s = p
        BY Zenon, <1>1, <1>3, <1>4, <3>1, <3>4 DEF TidsExact
      <4>3. tid'[q] = j /\ j # 0 /\ at'[q] \notin Unlisted
        BY SMTT(40), <1>2, <1>4, <3>4 DEF Unlisted
      <4>4. QED
        BY Zenon, <4>1, <4>2, <4>3
    <3>5. CASE j # n
      <4>1. j \in children'[s] <=> j \in children[s]
        BY <1>4, <1>5, <2>3, <3>5
      <4>2. \A r \in Page : tid'[r] = j /\ j # 0 <=> tid[r] = j /\ j # 0 /\ r # q
        BY <1>2, <1>4, <1>5, <3>5
      <4>3. \A r \in Page : tid[r] = j /\ j # 0 => creator'[j] = creator[j]
        BY <1>5, <1>8
      <4>4. \A r \in Page : /\ tid'[r] = j /\ j # 0 /\ creator'[j] = tid'[s] /\ at'[r] \notin Unlisted
                           <=> /\ tid[r] = j /\ j # 0 /\ creator[j] = tid[s] /\ at[r] \notin Unlisted
        <5>1. \A r \in Page : tid[r] = j /\ j # 0 => r # q
          BY <1>2
        <5>2. QED
          BY <2>1, <3>1, <4>2, <4>3, <5>1
      <4>5. QED
        BY Zenon, <3>2, <4>1, <4>4
    <3>6. QED
      BY <3>4, <3>5
  <2>4. QED
    BY <2>2, <2>3
<1>14. ExecExact'
  <2>1. ASSUME NEW r \in Page, at'[r] \in ExecLabel
        PROVE  target'[r] \in Given' /\ creator'[target'[r]] = tid'[r]
    <3>1. r # q
      BY Zenon, <1>4, <2>1 DEF ExecLabel
    <3>2. CASE r = p
      BY Zenon, <1>3, <1>4, <1>5, <1>6, <3>2
    <3>3. CASE r # p
      BY SMTT(40), <1>1, <1>5, <1>6, <2>1, <3>1, <3>3 DEF ExecExact
    <3>4. QED
      BY Zenon, <3>2, <3>3
  <2>2. ASSUME NEW r \in Page, at'[r] \in Starting
        PROVE  /\ sema'[r]["exec"].value = 0
               /\ tid'[parent'[r]] = creator'[tid'[r]]
               /\ parent'[r] # main =>
                    /\ at'[parent'[r]] \in ExecLabel \ {"exec_return"}
                    /\ target'[parent'[r]] = tid'[r]
    <3>1. CASE r = q
      <4>1. sema'[r]["exec"].value = 0
        BY Zenon, <1>4, <1>7, <3>1 DEF Kind
      <4>2. QED
        BY Zenon, <1>3, <1>4, <1>5, <3>1, <4>1 DEF ExecLabel
    <3>2. CASE r # q
      <4>1. r # p /\ at[r] \in Starting
        BY ZenonT(40), <1>4, <1>5, <1>9, <2>2, <3>2 DEF Starting
      <4>2. /\ parent[r] \in Page /\ parent[r] # q /\ (parent[r] # main => parent[r] # p)
            /\ tid[r] # 0
        BY ZenonT(40), <1>1, <1>3, <4>1 DEF TidsExact, ExecExact, Starting, ExecLabel, WaitLabel
      <4>3. creator'[tid'[r]] = creator[tid[r]] /\ tid'[parent'[r]] = tid[parent[r]]
        BY ZenonT(40), <1>5, <1>8, <3>2, <4>2
      <4>4. QED
        BY SMTT(40), <1>1, <1>5, <3>2, <4>1, <4>2, <4>3 DEF ExecExact
    <3>3. QED
      BY Zenon, <3>1, <3>2
  <2>3. QED
    BY <2>1, <2>2 DEF ExecExact
<1>15. RecordsExact'
  <2>0. /\ create_child_process(q).page = q /\ create_child_process(q).cur_status = "ALIVE"
    BY DEF create_child_process
  <2>1. ASSUME NEW i \in Given', record'[i].cur_status = "ALIVE"
        PROVE  tid'[record'[i].page] = i /\ at'[record'[i].page] \notin Unlisted
    <3>1. CASE i = n
      BY Zenon, <1>4, <2>0, <3>1 DEF Unlisted
    <3>2. CASE i # n
      <4>1. i \in Given /\ record'[i] = record[i]
        BY Zenon, <1>5, <1>6, <3>2
      <4>2. /\ record[i].page \in Page /\ tid[record[i].page] = i
            /\ at[record[i].page] \notin Unlisted
        BY Zenon, <1>1, <2>1, <4>1 DEF RecordsExact, TidsExact
      <4>3. record[i].page # q
        BY <1>2, <4>1, <4>2 DEF Given
      <4>4. QED
        BY SMTT(40), <1>4, <1>5, <1>9, <4>1, <4>2, <4>3 DEF Unlisted
    <3>3. QED
      BY Zenon, <3>1, <3>2
  <2>2. ASSUME NEW r \in Page \ {main}, tid'[r] # 0,
               at'[r] \notin Unlisted \cup {"process_exit"}
        PROVE  record'[tid'[r]].cur_status = "ALIVE"
    <3>1. CASE r = q
      BY Zenon, <1>4, <2>0, <3>1
    <3>2. CASE r # q
      <4>1. tid'[r] = tid[r] /\ tid[r] # 0 /\ record'[tid[r]] = record[tid[r]]
        BY <1>5, <1>8, <2>2, <3>2
      <4>2. at[r] \notin Unlisted \cup {"process_exit"}
        BY Zenon, <1>5, <2>2, <3>2 DEF Unlisted
      <4>3. QED
        BY SMTT(40), <1>1, <4>1, <4>2 DEF RecordsExact
    <3>3. QED
      BY Zenon, <3>1, <3>2
  <2>3. \A i \in Tid : record'[i].cur_status = "KILLED" => record'[i].exit_status = -1
    BY ZenonT(40), <1>1, <1>4, <1>5, <2>0 DEF RecordsExact
  <2>4. \A r \in Page : sema'[r]["wait"].value > 0 => at'[r] = "dying"
    BY SMTT(40), <1>1, <1>4, <1>5, <1>7 DEF RecordsExact, Kind
  <2>5. QED
    BY Zenon, <2>1, <2>2, <2>3, <2>4 DEF RecordsExact, Tid
<1>16. waits[n] = <<>>
  BY SMTT(40), <1>1, <1>2 DEF WaitsExact, n
<1>17. WaitsExact'
  <2>1. \A r \in Page : at'[r] \in WaitLabel => r # p /\ r # q
    BY <1>4, <1>9 DEF WaitLabel
  <2>2. \A r \in Page : at'[r] \in WaitLabel =>
          /\ target'[r] \in Given' /\ creator'[target'[r]] = tid'[r]
          /\ record'[target'[r]].is_awaited /\ waits'[target'[r]] = <<>>
    <3> SUFFICES ASSUME NEW r \in Page, at'[r] \in WaitLabel
                 PROVE  /\ target'[r] \in Given' /\ creator'[target'[r]] = tid'[r]
                        /\ record'[target'[r]].is_awaited /\ waits'[target'[r]] = <<>>
      OBVIOUS
    <3>1. r \in Page \ {p, q} /\ at[r] \in WaitLabel /\ target'[r] = target[r] /\ tid'[r] = tid[r]
      BY <1>5, <2>1
    <3>2. /\ target[r] \in Given /\ creator[target[r]] = tid[r]
          /\ record[target[r]].is_awaited /\ waits[target[r]] = <<>>
      BY Zenon, <1>1, <3>1 DEF WaitsExact
    <3>3. target[r] \in Given' /\ target[r] \in Tid \ {n}
      BY <1>6, <3>2
    <3>4. record'[target[r]] = record[target[r]] /\ creator'[target[r]] = creator[target[r]]
      BY Zenon, <1>5, <3>3
    <3>5. QED
      BY Zenon, <1>2, <3>1, <3>2, <3>3, <3>4
  <2>3. \A r \in Page : at'[r] = "wait_return" => record'[target'[r]].cur_status # "ALIVE"
    <3>1. "wait_return" \in WaitLabel
      BY DEF WaitLabel
    <3>2. QED
      BY <1>1, <1>5, <1>6, <2>1, <3>1 DEF WaitsExact
  <2>4. \A r \in Page : at'[r] = "process_wait" => target'[r] \in Tid /\ target'[r] < next_tid'
    <3>1. target'[p] \in Tid /\ target'[p] < next_tid'
      BY SMTT(40), <1>2, <1>4
    <3>2. \A r \in Page \ {p, q} : at[r] = "process_wait" => target[r] \in Tid /\ target[r] < next_tid'
      BY <1>1, <1>2, ProcessAssumption DEF WaitsExact, Tid, n
    <3>3. QED
      BY ZenonT(40), <1>4, <1>5, <3>1, <3>2
  <2>5. \A i \in Tid : i >= next_tid' => waits'[i] = <<>>
    BY <1>1, <1>2, ProcessAssumption DEF WaitsExact, Tid, n
  <2>6. ASSUME NEW r \in Page, tid'[r] # 0, NEW j \in children'[r], waits[j] # <<>>
        PROVE  record'[j].is_awaited
    <3>1. r # q /\ j # n
      BY <1>4, <1>16, <2>6
    <3>2. tid[r] # 0 /\ j \in children[r]
      BY Zenon, <1>4, <1>5, <2>6, <3>1
    <3>3. j \in Tid
      BY SMTT(40), <1>1, <1>8, <3>2 DEF Listed, ProcTypeOK
    <3>4. record[j].is_awaited
      BY Zenon, <1>1, <2>6, <3>2 DEF WaitsExact
    <3>5. QED
      BY Zenon, <1>5, <3>1, <3>3, <3>4
  <2>7. QED
    BY Zenon, <1>2, <2>2, <2>3, <2>4, <2>5, <2>6 DEF WaitsExact, Tid
<1>18. WaitTruthful'
  <2> SUFFICES ASSUME NEW j \in Tid, NEW m \in DOMAIN waits[j], waits[j][m] # -1
               PROVE  /\ record'[j].cur_status = "EXITED" /\ m = 1
                      /\ waits[j][m] = record'[j].exit_status
    BY <1>2 DEF WaitTruthful, Tid
  <2>1. j # n
    BY <1>16
  <2>2. QED
    BY ZenonT(40), <1>1, <1>5, <2>1 DEF WaitTruthful
<1>19. ChildListExact'
  BY <1>10, <1>13, ListsAre, PTL
<1>20. QED
  BY <1>2, <1>10, <1>11, <1>12, <1>14, <1>15, <1>17, <1>18, <1>19 DEF ProcInv

-----------------------------------------------------------------------------
(* A record that is written: the other records stay.                       *)
Writes(i, new) == record' = [record EXCEPT ![i] = new]

(* What is in the records after that.                                      *)
LEMMA RecordWritten ==
  ASSUME record \in [Tid -> Record], NEW i \in Tid, NEW new \in Record, Writes(i, new)
  PROVE  /\ record' \in [Tid -> Record] /\ record'[i] = new
         /\ \A j \in Tid \ {i} : record'[j] = record[j]
BY DEF Writes

(* A process that is starting finds its record: its parent, main or in     *)
(* exec(), is there and lists it.                                          *)
LEMMA StartingIsListed ==
  ASSUME ProcInv, NEW q \in Page, at[q] \in Starting
  PROVE  get_child(tid[q], parent[q]) /\ q # main /\ tid[q] \in Given
<1>1. ProcTypeOK /\ TidsExact /\ ExecExact /\ Listed
  BY ListsAre DEF ProcInv
<1>2. q # main /\ at[q] # "none" /\ at[q] \notin Unlisted
  BY <1>1 DEF TidsExact, Starting, WaitLabel, Unlisted
<1>3. tid[q] # 0 /\ tid[q] \in Given /\ tid[q] \in Nat
  BY <1>1, <1>2, PageFacts
<1>4. parent[q] \in Page /\ tid[parent[q]] = creator[tid[q]]
  BY <1>1, <1>2, <1>3 DEF TidsExact, ExecExact
<1>5. tid[parent[q]] # 0
  <2>1. CASE parent[q] = main
    BY <1>1, <2>1 DEF TidsExact
  <2>2. CASE parent[q] # main
    <3>1. at[parent[q]] \in ExecLabel
      BY <1>1, <2>2 DEF ExecExact
    <3>2. at[parent[q]] # "none"
      BY <3>1 DEF ExecLabel
    <3>3. QED
      BY <1>1, <1>4, <3>2 DEF TidsExact
  <2>3. QED
    BY <2>1, <2>2
<1>6. tid[q] \in children[parent[q]]
  BY <1>1, <1>2, <1>3, <1>4, <1>5 DEF Listed
<1>7. QED
  BY <1>2, <1>3, <1>5, <1>6 DEF get_child

(* start_process() writes is_loaded, and does not fault.                   *)
LEMMA StartStep ==
  ASSUME ProcInv, NEW q \in Page, NEW success \in BOOLEAN, start_process(q, success)
  PROVE  ProcInv'
<1>1. /\ ProcTypeOK /\ TidsExact /\ ExecExact /\ RecordsExact /\ WaitsExact /\ Listed
      /\ WaitTruthful
  BY ListsAre DEF ProcInv
<1>2. at[q] = "start_process" /\ at[q] \in Starting
  BY DEF start_process, Starting
<1>3. get_child(tid[q], parent[q]) /\ q # main /\ tid[q] \in Tid
  BY <1>1, <1>2, StartingIsListed, GivenAreTids
<1>4. PICK label \in {"loaded", "load_failed"} : at' = [at EXCEPT ![q] = label]
  BY <1>3 DEF start_process, Go
<1>5. UNCHANGED <<next_tid, tid, parent, children, sema, target, panic, creator, waits>>
  BY <1>3 DEF start_process
<1>6. /\ record' \in [Tid -> Record]
      /\ \A i \in Tid : /\ record'[i].page = record[i].page
                        /\ record'[i].cur_status = record[i].cur_status
                        /\ record'[i].exit_status = record[i].exit_status
                        /\ record'[i].is_awaited = record[i].is_awaited
  <2> DEFINE new == [record[tid[q]] EXCEPT !.is_loaded = success]
  <2>1. record \in [Tid -> Record] /\ record[tid[q]] \in Record
    BY <1>1, <1>3 DEF ProcTypeOK
  <2>2. /\ new \in Record /\ new.page = record[tid[q]].page
        /\ new.cur_status = record[tid[q]].cur_status
        /\ new.exit_status = record[tid[q]].exit_status
        /\ new.is_awaited = record[tid[q]].is_awaited
    BY Zenon, <2>1 DEF Record
  <2>3. Writes(tid[q], new)
    BY Zenon, <1>3 DEF start_process, Writes
  <2> HIDE DEF new
  <2>4. /\ record' \in [Tid -> Record] /\ record'[tid[q]] = new
        /\ \A j \in Tid \ {tid[q]} : record'[j] = record[j]
    BY Zenon, <1>3, <2>1, <2>2, <2>3, RecordWritten
  <2>5. QED
    BY Zenon, <2>2, <2>4
<1>7. \A r \in Page : \/ r # q /\ at'[r] = at[r]
                      \/ r = q /\ at'[r] \in {"loaded", "load_failed"}
  BY <1>1, <1>4 DEF ProcTypeOK
<1>8. Given' = Given /\ Given \subseteq Tid
  BY <1>1, <1>5, GivenAreTids DEF Given
<1>9. \A r \in Page : tid[r] # 0 => tid[r] \in Tid
  BY <1>1, PageFacts
<1>10. ProcTypeOK'
  <2>1. at' \in [Page -> Label]
    BY Zenon, <1>1, <1>4 DEF ProcTypeOK, Label, Starting
  <2>2. QED
    BY <1>1, <1>5, <1>6, <2>1 DEF ProcTypeOK
<1>11. TidsExact'
  BY <1>1, <1>2, <1>3, <1>5, <1>6, <1>7, <1>8, <1>9, ProcessAssumption DEF TidsExact, WaitLabel
<1>12. QueuesExact'
  <2>1. /\ {q} \in SUBSET Page
        /\ \A r \in {q} : at[r] \notin {"exec_asleep", "wait_asleep"}
        /\ \A r \in Page \ {q} : at'[r] = at[r] /\ target'[r] = target[r]
        /\ \A i \in Given : record'[i].page = record[i].page
        /\ \A r \in Page, k \in Kind : sema'[r][k].waiters = sema[r][k].waiters
    BY ZenonT(40), <1>2, <1>5, <1>6, <1>7, <1>8
  <2>2. QED
    BY ZenonT(40), <2>1, QueuesKept
<1>13. Listed'
  <2>1. \A r \in Page : at'[r] \notin Unlisted <=> at[r] \notin Unlisted
    BY Zenon, <1>2, <1>7 DEF Unlisted
  <2>2. QED
    BY SMTT(40), <1>1, <1>5, <2>1 DEF Listed
<1>14. ExecExact'
  <2>1. \A r \in Page : /\ at'[r] \in Starting => at[r] \in Starting
                        /\ at'[r] \in ExecLabel <=> at[r] \in ExecLabel
                        /\ at'[r] = "exec_return" <=> at[r] = "exec_return"
    BY Zenon, <1>2, <1>7 DEF Starting, ExecLabel
  <2>2. \A r \in Page : at[r] \in Starting => parent[r] \in Page
    BY <1>1 DEF TidsExact, Starting, WaitLabel
  <2>3. QED
    BY Zenon, <1>1, <1>5, <1>8, <2>1, <2>2 DEF ExecExact
<1>15. RecordsExact'
  <2>1. \A r \in Page : /\ at'[r] \in Unlisted <=> at[r] \in Unlisted
                        /\ at'[r] = "process_exit" <=> at[r] = "process_exit"
                        /\ at'[r] = "dying" <=> at[r] = "dying"
    BY <1>2, <1>7 DEF Unlisted
  <2>2. \A i \in Given : record[i].page \in Page
    BY <1>1 DEF TidsExact
  <2>3. \A i \in Given : record'[i].cur_status = "ALIVE" =>
          tid[record'[i].page] = i /\ at'[record'[i].page] \notin Unlisted
    BY <1>1, <1>6, <1>8, <2>1, <2>2 DEF RecordsExact
  <2>4. \A r \in Page \ {main} :
          tid[r] # 0 /\ at'[r] \notin Unlisted \cup {"process_exit"} =>
            record'[tid[r]].cur_status = "ALIVE"
    BY SMTT(40), <1>1, <1>6, <1>9, <2>1 DEF RecordsExact
  <2>5. /\ \A i \in Tid : record'[i].cur_status = "KILLED" => record'[i].exit_status = -1
        /\ \A r \in Page : sema'[r]["wait"].value > 0 => at'[r] = "dying"
    BY <1>1, <1>5, <1>6, <2>1 DEF RecordsExact
  <2>6. QED
    BY <1>5, <1>8, <2>3, <2>4, <2>5 DEF RecordsExact
<1>16. WaitsExact'
  <2>1. \A r \in Page : /\ at'[r] = "process_wait" => at[r] = "process_wait"
                        /\ at'[r] \in WaitLabel => at[r] \in WaitLabel
                        /\ at'[r] = "wait_return" => at[r] = "wait_return"
    BY Zenon, <1>7 DEF WaitLabel
  <2>2. \A r \in Page : at[r] \in WaitLabel => target[r] \in Tid
    BY <1>1, <1>8 DEF WaitsExact
  <2>3. \A r \in Page : tid[r] # 0 => children[r] \subseteq Tid
    BY <1>1, <1>9 DEF Listed, ProcTypeOK
  <2>4. "wait_return" \in WaitLabel
    BY DEF WaitLabel
  <2>5. \A r \in Page : at'[r] \in WaitLabel =>
          /\ target'[r] \in Given' /\ creator'[target'[r]] = tid'[r]
          /\ record'[target'[r]].is_awaited /\ waits'[target'[r]] = <<>>
    BY Zenon, <1>1, <1>5, <1>6, <1>8, <2>1, <2>2 DEF WaitsExact
  <2>6. \A r \in Page : at'[r] = "wait_return" => record'[target'[r]].cur_status # "ALIVE"
    BY ZenonT(40), <1>1, <1>5, <1>6, <2>1, <2>2, <2>4 DEF WaitsExact
  <2>7. \A r \in Page : tid'[r] # 0 =>
          \A i \in children'[r] : waits'[i] # <<>> => record'[i].is_awaited
    BY Zenon, <1>1, <1>5, <1>6, <2>3 DEF WaitsExact
  <2>8. /\ \A r \in Page : at'[r] = "process_wait" => target'[r] \in Tid /\ target'[r] < next_tid'
        /\ \A i \in Tid : i >= next_tid' => waits'[i] = <<>>
    BY <1>1, <1>5, <2>1 DEF WaitsExact
  <2>9. QED
    BY Zenon, <2>5, <2>6, <2>7, <2>8 DEF WaitsExact, Tid
<1>17. WaitTruthful'
  BY <1>1, <1>5, <1>6 DEF WaitTruthful
<1>18. ChildListExact'
  BY <1>10, <1>13, ListsAre, PTL
<1>19. QED
  BY <1>1, <1>5, <1>10, <1>11, <1>12, <1>14, <1>15, <1>16, <1>17, <1>18 DEF ProcInv

-----------------------------------------------------------------------------
(* exit() and process_exit(): the record of a process stops being ALIVE    *)
(* once, and the process leaves the list of its parent.                    *)
Ends(p, label) ==
  /\ \/ at[p] = "exit" /\ label = "process_exit"
     \/ at[p] = "process_exit" /\ label = "exit_up"
  /\ at' = [at EXCEPT ![p] = label]
  /\ record' \in [Tid -> Record]
  /\ \A i \in Tid : /\ record'[i].page = record[i].page
                    /\ record'[i].is_awaited = record[i].is_awaited
                    /\ i # tid[p] \/ record[i].cur_status # "ALIVE" =>
                         /\ record'[i].cur_status = record[i].cur_status
                         /\ record'[i].exit_status = record[i].exit_status
                    /\ record'[i].cur_status = "KILLED" => record'[i].exit_status = -1
  /\ record'[tid[p]].cur_status # "ALIVE"
  /\ children' \in [Page -> SUBSET Nat]
  /\ \A r \in Page : children'[r] \subseteq children[r]
  /\ Listed'
  /\ UNCHANGED <<next_tid, tid, parent, sema, target, panic, creator, waits>>

(* Such a step keeps the invariant.                                        *)
LEMMA EndStep ==
  ASSUME ProcInv, NEW p \in Page, NEW label, Ends(p, label)
  PROVE  ProcInv'
<1>1. /\ ProcTypeOK /\ TidsExact /\ ExecExact /\ RecordsExact /\ WaitsExact /\ Listed
      /\ WaitTruthful
  BY ListsAre DEF ProcInv
<1>2. at[p] \in {"exit", "process_exit"} /\ label \in {"process_exit", "exit_up"}
  BY DEF Ends
<1>3. p # main /\ tid[p] # 0 /\ tid[p] \in Tid
  BY Zenon, <1>1, <1>2, PageFacts DEF TidsExact, WaitLabel
<1>4. UNCHANGED <<next_tid, tid, parent, sema, target, panic, creator, waits>>
  BY Zenon DEF Ends
<1>5. /\ record' \in [Tid -> Record]
      /\ \A i \in Tid : /\ record'[i].page = record[i].page
                        /\ record'[i].is_awaited = record[i].is_awaited
                        /\ i # tid[p] \/ record[i].cur_status # "ALIVE" =>
                             /\ record'[i].cur_status = record[i].cur_status
                             /\ record'[i].exit_status = record[i].exit_status
                        /\ record'[i].cur_status = "KILLED" => record'[i].exit_status = -1
      /\ record'[tid[p]].cur_status # "ALIVE"
  BY Zenon DEF Ends
<1>6. \A r \in Page : \/ r # p /\ at'[r] = at[r]
                      \/ r = p /\ at'[r] = label
  BY <1>1 DEF ProcTypeOK, Ends
<1>7. Given' = Given /\ Given \subseteq Tid
  BY <1>1, <1>4, GivenAreTids DEF Given
<1>8. \A r \in Page : tid[r] # 0 => tid[r] \in Tid
  BY Zenon, <1>1, PageFacts
<1>9. ProcTypeOK'
  <2>1. at' \in [Page -> Label]
    BY Zenon, <1>1, <1>2 DEF ProcTypeOK, Label, Unlisted, Ends
  <2>2. children' \in [Page -> SUBSET Nat]
    BY Zenon DEF Ends
  <2>3. QED
    BY <1>1, <1>4, <1>5, <2>1, <2>2 DEF ProcTypeOK
<1>10. TidsExact'
  BY <1>1, <1>2, <1>3, <1>4, <1>5, <1>6, <1>7, <1>8, ProcessAssumption DEF TidsExact, WaitLabel
<1>11. QueuesExact'
  <2>1. /\ {p} \in SUBSET Page
        /\ \A r \in {p} : at[r] \notin {"exec_asleep", "wait_asleep"}
        /\ \A r \in Page \ {p} : at'[r] = at[r] /\ target'[r] = target[r]
        /\ \A i \in Given : record'[i].page = record[i].page
        /\ \A r \in Page, k \in Kind : sema'[r][k].waiters = sema[r][k].waiters
    BY Zenon, <1>2, <1>4, <1>5, <1>6, <1>7
  <2>2. QED
    BY ZenonT(40), <2>1, QueuesKept
<1>12. ExecExact'
  <2>1. \A r \in Page : /\ at'[r] \in Starting => at[r] \in Starting
                        /\ at'[r] \in ExecLabel <=> at[r] \in ExecLabel
                        /\ at'[r] = "exec_return" <=> at[r] = "exec_return"
    BY <1>2, <1>6 DEF Starting, ExecLabel
  <2>2. \A r \in Page : at[r] \in Starting => parent[r] \in Page
    BY <1>1 DEF TidsExact, Starting, WaitLabel
  <2>3. QED
    BY Zenon, <1>1, <1>4, <1>7, <2>1, <2>2 DEF ExecExact
<1>13. RecordsExact'
  <2>1. \A r \in Page : r # p => at'[r] = at[r]
    BY <1>6
  <2>2. \A i \in Given : record[i].page \in Page
    BY <1>1 DEF TidsExact
  <2>3. ASSUME NEW i \in Given, record'[i].cur_status = "ALIVE"
        PROVE  tid[record'[i].page] = i /\ at'[record'[i].page] \notin Unlisted
    <3>1. i # tid[p] /\ i \in Tid
      BY <1>5, <1>7, <2>3
    <3>2. record[i].cur_status = "ALIVE" /\ record'[i].page = record[i].page
      BY <1>5, <2>3, <3>1
    <3>3. tid[record[i].page] = i /\ at[record[i].page] \notin Unlisted
      BY <1>1, <3>2 DEF RecordsExact
    <3>4. record[i].page # p
      BY <3>1, <3>3
    <3>5. QED
      BY <2>1, <2>2, <3>2, <3>3, <3>4
  <2>4. ASSUME NEW r \in Page \ {main}, tid[r] # 0,
               at'[r] \notin Unlisted \cup {"process_exit"}
        PROVE  record'[tid[r]].cur_status = "ALIVE"
    <3>1. r # p
      BY <1>2, <1>6, <2>4 DEF Unlisted
    <3>2. tid[r] # tid[p]
      BY Zenon, <1>1, <2>4, <3>1 DEF TidsExact
    <3>3. record[tid[r]].cur_status = "ALIVE"
      BY <1>1, <2>1, <2>4, <3>1 DEF RecordsExact
    <3>4. QED
      BY <1>5, <1>8, <2>4, <3>2, <3>3
  <2>5. \A i \in Tid : record'[i].cur_status = "KILLED" => record'[i].exit_status = -1
    BY Zenon, <1>5
  <2>6. \A r \in Page : sema'[r]["wait"].value > 0 => at'[r] = "dying"
    BY <1>1, <1>2, <1>4, <1>6 DEF RecordsExact
  <2>7. QED
    BY <1>4, <1>7, <2>3, <2>4, <2>5, <2>6 DEF RecordsExact
<1>14. WaitsExact'
  <2>1. \A r \in Page : /\ at'[r] = "process_wait" => at[r] = "process_wait"
                        /\ at'[r] \in WaitLabel => at[r] \in WaitLabel
                        /\ at'[r] = "wait_return" => at[r] = "wait_return"
    BY <1>2, <1>6 DEF WaitLabel
  <2>2. \A r \in Page : at[r] \in WaitLabel => target[r] \in Tid
    BY <1>1, <1>7 DEF WaitsExact
  <2>3. \A r \in Page : tid[r] # 0 => children[r] \subseteq Tid /\ children'[r] \subseteq children[r]
    BY <1>1, <1>8 DEF Listed, ProcTypeOK, Ends
  <2>4. "wait_return" \in WaitLabel
    BY DEF WaitLabel
  <2>5. \A r \in Page : at'[r] \in WaitLabel =>
          /\ target'[r] \in Given' /\ creator'[target'[r]] = tid'[r]
          /\ record'[target'[r]].is_awaited /\ waits'[target'[r]] = <<>>
    BY Zenon, <1>1, <1>4, <1>5, <1>7, <2>1, <2>2 DEF WaitsExact
  <2>6. \A r \in Page : at'[r] = "wait_return" => record'[target'[r]].cur_status # "ALIVE"
    BY <1>1, <1>4, <1>5, <2>1, <2>2, <2>4 DEF WaitsExact
  <2>7. \A r \in Page : tid'[r] # 0 =>
          \A i \in children'[r] : waits'[i] # <<>> => record'[i].is_awaited
    BY Zenon, <1>1, <1>4, <1>5, <2>3 DEF WaitsExact
  <2>8. /\ \A r \in Page : at'[r] = "process_wait" => target'[r] \in Tid /\ target'[r] < next_tid'
        /\ \A i \in Tid : i >= next_tid' => waits'[i] = <<>>
    BY <1>1, <1>4, <2>1 DEF WaitsExact
  <2>9. QED
    BY Zenon, <2>5, <2>6, <2>7, <2>8 DEF WaitsExact, Tid
<1>15. WaitTruthful'
  <2> SUFFICES ASSUME NEW i \in Tid, NEW n \in DOMAIN waits[i], waits[i][n] # -1
               PROVE  /\ record'[i].cur_status = "EXITED" /\ n = 1
                      /\ waits[i][n] = record'[i].exit_status
    BY <1>4 DEF WaitTruthful, Tid
  <2>1. /\ record[i].cur_status = "EXITED" /\ n = 1 /\ waits[i][n] = record[i].exit_status
    BY Zenon, <1>1 DEF WaitTruthful
  <2>2. QED
    BY Zenon, <1>5, <2>1
<1>16. Listed'
  BY DEF Ends
<1>17. ChildListExact'
  BY <1>9, <1>16, ListsAre, PTL
<1>18. QED
  BY <1>1, <1>4, <1>9, <1>10, <1>11, <1>12, <1>13, <1>14, <1>15, <1>17 DEF ProcInv

(* Who is listed by its parent was created by the process in that page.    *)
LEMMA ListedByCreator ==
  ASSUME ProcInv, NEW p \in Page, p # main, tid[p] # 0, get_child(tid[p], parent[p])
  PROVE  /\ parent[p] \in Page /\ tid[parent[p]] # 0 /\ tid[p] \in Tid
         /\ creator[tid[p]] = tid[parent[p]]
<1>1. ProcTypeOK /\ TidsExact /\ Listed
  BY ListsAre DEF ProcInv
<1>2. parent[p] \in Page /\ tid[p] \in Nat
  BY <1>1 DEF TidsExact, ProcTypeOK
<1>3. QED
  BY <1>1, <1>2, PageFacts DEF Listed, get_child

(* exit() writes the status.                                               *)
LEMMA ExitStep ==
  ASSUME ProcInv, NEW p \in Page, exit(p), get_child(tid[p], parent[p])
  PROVE  ProcInv'
<1>1. ProcTypeOK /\ TidsExact /\ RecordsExact /\ Listed
  BY ListsAre DEF ProcInv
<1>2. at[p] = "exit" /\ at' = [at EXCEPT ![p] = "process_exit"]
      /\ UNCHANGED <<next_tid, tid, parent, children, sema, target, panic, creator, waits>>
  BY Zenon DEF exit, Go
<1>3. p # main /\ tid[p] # 0 /\ tid[p] \in Tid
  BY <1>1, <1>2, PageFacts DEF TidsExact, WaitLabel
<1> DEFINE i == tid[p]
           c == IF target[p] = -1 THEN "KILLED" ELSE "EXITED"
           new == [record[i] EXCEPT !.exit_status = target[p], !.cur_status = c]
<1>4. record \in [Tid -> Record] /\ record[i] \in Record /\ target[p] \in Int
  BY Zenon, <1>1, <1>3 DEF ProcTypeOK
<1>5. c \in {"EXITED", "KILLED"} /\ (c = "KILLED" => target[p] = -1)
  OBVIOUS
<1>6. Writes(i, new)
  <2>1. record' = [record EXCEPT ![i] = [record[i] EXCEPT !.exit_status = target[p], !.cur_status = c]]
    BY Zenon, <1>3, <1>4 DEF exit
  <2>2. QED
    BY Zenon, <2>1 DEF Writes
<1> HIDE DEF i, c
<1>7. /\ new \in Record /\ new.page = record[i].page /\ new.cur_status = c
      /\ new.exit_status = target[p] /\ new.is_awaited = record[i].is_awaited
  BY Zenon, <1>4, <1>5 DEF Record
<1> HIDE DEF new
<1>8. /\ record' \in [Tid -> Record] /\ record'[i] = new
      /\ \A j \in Tid \ {i} : record'[j] = record[j]
  BY ZenonT(40), <1>3, <1>4, <1>6, <1>7, RecordWritten DEF i
<1>9. record[i].cur_status = "ALIVE"
  BY Zenon, <1>1, <1>2, <1>3 DEF RecordsExact, Unlisted, i
<1>10. \A j \in Tid : record[j].cur_status = "KILLED" => record[j].exit_status = -1
  BY Zenon, <1>1 DEF RecordsExact
<1>11. \A j \in Tid : /\ record'[j].page = record[j].page
                      /\ record'[j].is_awaited = record[j].is_awaited
                      /\ j # i \/ record[j].cur_status # "ALIVE" =>
                           /\ record'[j].cur_status = record[j].cur_status
                           /\ record'[j].exit_status = record[j].exit_status
                      /\ record'[j].cur_status = "KILLED" => record'[j].exit_status = -1
  BY Zenon, <1>5, <1>7, <1>8, <1>9, <1>10
<1>12. record'[i].cur_status # "ALIVE"
  BY <1>5, <1>7, <1>8
<1>13. Listed'
  <2>1. \A r \in Page : at'[r] \notin Unlisted <=> at[r] \notin Unlisted
    BY <1>1, <1>2 DEF ProcTypeOK, Unlisted
  <2>2. QED
    BY <1>1, <1>2, <2>1 DEF Listed
<1>14. children' \in [Page -> SUBSET Nat] /\ \A r \in Page : children'[r] \subseteq children[r]
  BY <1>1, <1>2 DEF ProcTypeOK
<1>15. Ends(p, "process_exit")
  BY Zenon, <1>2, <1>8, <1>11, <1>12, <1>13, <1>14 DEF Ends, i
<1>16. QED
  BY Zenon, <1>15, EndStep

(* process_exit() takes the record off the list of the parent.             *)
LEMMA ProcessExitStep ==
  ASSUME ProcInv, NEW p \in Page, process_exit(p), get_child(tid[p], parent[p])
  PROVE  ProcInv'
<1>1. ProcTypeOK /\ TidsExact /\ RecordsExact /\ Listed
  BY ListsAre DEF ProcInv
<1>2. at[p] = "process_exit" /\ at' = [at EXCEPT ![p] = "exit_up"]
      /\ UNCHANGED <<next_tid, tid, parent, sema, target, panic, creator, waits>>
  BY Zenon DEF process_exit, Go
<1>3. p # main /\ tid[p] # 0 /\ tid[p] \in Tid /\ tid[p] \in Nat
  BY <1>1, <1>2, PageFacts DEF TidsExact, WaitLabel
<1>4. record \in [Tid -> Record] /\ record[tid[p]] \in Record
  BY <1>1, <1>3 DEF ProcTypeOK
<1>5. \A j \in Tid : record[j].cur_status = "KILLED" => record[j].exit_status = -1
  BY SMTT(40), <1>1 DEF RecordsExact
<1> DEFINE i == tid[p]
<1>6. /\ record' \in [Tid -> Record]
      /\ \A j \in Tid : /\ record'[j].page = record[j].page
                        /\ record'[j].is_awaited = record[j].is_awaited
                        /\ j # i \/ record[j].cur_status # "ALIVE" =>
                             /\ record'[j].cur_status = record[j].cur_status
                             /\ record'[j].exit_status = record[j].exit_status
                        /\ record'[j].cur_status = "KILLED" => record'[j].exit_status = -1
      /\ record'[i].cur_status # "ALIVE"
  <2>1. CASE record[i].cur_status # "ALIVE"
    <3>1. record' = record
      BY <2>1 DEF process_exit
    <3>2. QED
      BY Zenon, <1>3, <1>4, <1>5, <2>1, <3>1
  <2>2. CASE record[i].cur_status = "ALIVE"
    <3> DEFINE new == [record[i] EXCEPT !.cur_status = "KILLED", !.exit_status = -1]
    <3>0. -1 \in Int
      OBVIOUS
    <3>1. record' = [record EXCEPT ![i] = [record[i] EXCEPT !.cur_status = "KILLED", !.exit_status = -1]]
      BY Zenon, <1>3, <1>4, <2>2 DEF process_exit
    <3>2. Writes(i, new)
      BY Zenon, <3>1 DEF Writes
    <3> HIDE DEF i
    <3>3. /\ new \in Record /\ new.page = record[i].page /\ new.cur_status = "KILLED"
          /\ new.exit_status = -1 /\ new.is_awaited = record[i].is_awaited
      BY Zenon, <1>4, <3>0 DEF Record, i
    <3> HIDE DEF new
    <3>4. /\ record' \in [Tid -> Record] /\ record'[i] = new
          /\ \A j \in Tid \ {i} : record'[j] = record[j]
      BY Zenon, <1>3, <1>4, <3>2, <3>3, RecordWritten DEF i
    <3>5. QED
      BY Zenon, <1>5, <2>2, <3>3, <3>4
  <2>3. QED
    BY <2>1, <2>2
<1>7. /\ parent[p] \in Page /\ tid[parent[p]] # 0 /\ creator[i] = tid[parent[p]]
  BY <1>3, ListedByCreator
<1>8. children' = [children EXCEPT ![parent[p]] = @ \ {i}]
  BY DEF process_exit
<1>9. /\ children' \in [Page -> SUBSET Nat]
      /\ \A r \in Page : children'[r] = IF r = parent[p] THEN children[r] \ {i} ELSE children[r]
  BY Zenon, <1>1, <1>7, <1>8 DEF ProcTypeOK
<1>10. Listed'
  <2> SUFFICES ASSUME NEW s \in Page, NEW j \in Nat, tid[s] # 0
               PROVE  j \in children'[s] <=> \E r \in Page : /\ tid[r] = j /\ j # 0
                                                             /\ creator[j] = tid[s]
                                                             /\ at'[r] \notin Unlisted
    BY <1>2 DEF Listed
  <2>1. j \in children[s] <=> \E r \in Page : /\ tid[r] = j /\ j # 0
                                             /\ creator[j] = tid[s]
                                             /\ at[r] \notin Unlisted
    BY <1>1 DEF Listed
  <2>2. \A r \in Page : IF r = p THEN at'[r] \in Unlisted ELSE at'[r] = at[r]
    BY Zenon, <1>1, <1>2 DEF ProcTypeOK, Unlisted
  <2>3. \A r \in Page : tid[r] = i => r = p
    BY Zenon, <1>1, <1>3 DEF TidsExact
  <2>4. CASE j = i
    <3>1. j \notin children'[s]
      BY Zenon, <1>1, <1>7, <1>9, <2>1, <2>4 DEF TidsExact
    <3>2. QED
      BY Zenon, <2>2, <2>3, <2>4, <3>1
  <2>5. CASE j # i
    <3>1. j \in children'[s] <=> j \in children[s]
      BY <1>9, <2>5
    <3>2. \A r \in Page : tid[r] = j => r # p
      BY <2>5
    <3>3. QED
      BY Zenon, <2>1, <2>2, <3>1, <3>2
  <2>6. QED
    BY <2>4, <2>5
<1>11. \A r \in Page : children'[r] \subseteq children[r]
  BY <1>9
<1>12. Ends(p, "exit_up")
  BY Zenon, <1>2, <1>6, <1>9, <1>10, <1>11 DEF Ends
<1>13. QED
  BY Zenon, <1>12, EndStep

-----------------------------------------------------------------------------
(* thread_exit() empties the page.  Nobody that is starting has a dying    *)
(* parent, and no ALIVE record points to the page.                         *)
LEMMA ThreadExitStep ==
  ASSUME ProcInv, NEW p \in Page, thread_exit(p)
  PROVE  ProcInv'
<1>1. /\ ProcTypeOK /\ TidsExact /\ ExecExact /\ RecordsExact /\ WaitsExact /\ Listed
      /\ WaitTruthful
  BY ListsAre DEF ProcInv
<1>2. at[p] = "dying" /\ UNCHANGED <<next_tid, record, panic, creator, waits>>
  BY DEF thread_exit
<1>3. p # main /\ tid[p] # 0
  BY <1>1, <1>2 DEF TidsExact, WaitLabel
<1>4. /\ tid'[p] = 0 /\ parent'[p] = NoThread /\ children'[p] = {} /\ at'[p] = "none"
      /\ target'[p] = 0 /\ sema'[p] = fresh_semas
      /\ \A r \in Page \ {p} : /\ tid'[r] = tid[r] /\ parent'[r] = parent[r]
                               /\ children'[r] = children[r] /\ at'[r] = at[r]
                               /\ target'[r] = target[r] /\ sema'[r] = sema[r]
  BY <1>1 DEF thread_exit, ProcTypeOK
<1>5. Given' = Given /\ Given \subseteq Tid
  BY <1>1, <1>2, GivenAreTids DEF Given
<1>6. \A k \in Kind : fresh_semas[k].value = 0 /\ fresh_semas[k].waiters = <<>>
  BY Zenon DEF fresh_semas, Kind
<1>7. ProcTypeOK'
  <2>1. fresh_semas \in [Kind -> [value : Nat, waiters : Seq(Page)]] /\ "none" \in Label
    BY SMTT(40) DEF fresh_semas, Kind, Label
  <2>2. /\ tid' \in [Page -> Nat] /\ parent' \in [Page -> Page \cup {NoThread}]
        /\ children' \in [Page -> SUBSET Nat]
        /\ at' \in [Page -> Label] /\ target' \in [Page -> Int]
    BY <1>1, <2>1 DEF thread_exit, ProcTypeOK
  <2>3. sema' \in [Page -> [Kind -> [value : Nat, waiters : Seq(Page)]]]
    BY <1>1, <2>1 DEF thread_exit, ProcTypeOK
  <2>4. QED
    BY <1>1, <1>2, <2>2, <2>3 DEF ProcTypeOK
<1>8. TidsExact'
  <2>1. \A r \in Page : (at'[r] = "none" <=> tid'[r] = 0) /\ tid'[r] < next_tid
    BY SMTT(40), <1>1, <1>4 DEF TidsExact, ProcTypeOK
  <2>2. \A r, q \in Page : tid'[r] = tid'[q] /\ tid'[r] # 0 => r = q
    BY SMTT(40), <1>1, <1>4 DEF TidsExact
  <2>3. tid'[main] = 1 /\ at'[main] \in {"user", "process_wait"} \cup WaitLabel
    BY <1>1, <1>3, <1>4, ProcessAssumption DEF TidsExact
  <2>4. \A r \in Page \ {main} : tid'[r] # 0 =>
          parent'[r] \in Page /\ record[tid'[r]].page = r
    BY <1>1, <1>4 DEF TidsExact
  <2>5. QED
    BY Zenon, <1>1, <1>2, <1>5, <2>1, <2>2, <2>3, <2>4 DEF TidsExact
<1>9. QueuesExact'
  <2>1. /\ {p} \in SUBSET Page
        /\ \A r \in {p} : at[r] \notin {"exec_asleep", "wait_asleep"}
        /\ \A r \in Page \ {p} : at'[r] = at[r] /\ target'[r] = target[r]
        /\ \A i \in Given : record'[i].page = record[i].page
        /\ \A r \in Page, k \in Kind : \/ sema'[r][k].waiters = sema[r][k].waiters
                                       \/ sema'[r][k].waiters = <<>>
    BY <1>2, <1>4, <1>6
  <2>2. QED
    BY Zenon, <2>1, QueuesKept
<1>10. Listed'
  <2> SUFFICES ASSUME NEW s \in Page, NEW j \in Nat, tid'[s] # 0
               PROVE  j \in children'[s] <=> \E r \in Page : /\ tid'[r] = j /\ j # 0
                                                             /\ creator[j] = tid'[s]
                                                             /\ at'[r] \notin Unlisted
    BY SMTT(40), <1>2 DEF Listed
  <2>1. s # p
    BY Zenon, <1>4
  <2>2. j \in children[s] <=> \E r \in Page : /\ tid[r] = j /\ j # 0
                                             /\ creator[j] = tid[s]
                                             /\ at[r] \notin Unlisted
    BY <1>1, <1>4, <2>1 DEF Listed
  <2>3. at[p] \in Unlisted
    BY <1>2 DEF Unlisted
  <2>4. QED
    BY Zenon, <1>4, <2>1, <2>2, <2>3
<1>11. ExecExact'
  <2>1. \A q \in Page : at'[q] \in Starting \cup ExecLabel => q # p
    BY <1>4 DEF Starting, ExecLabel
  <2>2. \A q \in Page : at[q] \in Starting => parent[q] \in Page /\ parent[q] # p
    BY Zenon, <1>1, <1>2, <1>3 DEF TidsExact, ExecExact, Starting, ExecLabel, WaitLabel
  <2>3. \A q \in Page : at'[q] \in ExecLabel =>
          target'[q] \in Given /\ creator[target'[q]] = tid'[q]
    BY <1>1, <1>4, <2>1 DEF ExecExact
  <2>4. ASSUME NEW q \in Page, at'[q] \in Starting
        PROVE  /\ sema'[q]["exec"].value = 0
               /\ tid'[parent'[q]] = creator[tid'[q]]
               /\ parent'[q] # main =>
                    /\ at'[parent'[q]] \in ExecLabel \ {"exec_return"}
                    /\ target'[parent'[q]] = tid'[q]
    <3>1. q # p /\ at[q] \in Starting
      BY <1>4, <2>1, <2>4
    <3>2. QED
      BY SMTT(40), <1>1, <1>4, <2>2, <3>1 DEF ExecExact
  <2>5. QED
    BY <1>2, <1>5, <2>3, <2>4 DEF ExecExact
<1>12. RecordsExact'
  <2>1. \A i \in Given : record[i].page \in Page
    BY Zenon, <1>1 DEF TidsExact
  <2>2. \A i \in Given : record[i].cur_status = "ALIVE" =>
          tid'[record[i].page] = i /\ at'[record[i].page] \notin Unlisted
    BY <1>1, <1>2, <1>4, <2>1 DEF RecordsExact, Unlisted
  <2>3. \A q \in Page \ {main} :
          tid'[q] # 0 /\ at'[q] \notin Unlisted \cup {"process_exit"} =>
            record[tid'[q]].cur_status = "ALIVE"
    BY <1>1, <1>4 DEF RecordsExact
  <2>4. \A q \in Page : sema'[q]["wait"].value > 0 => at'[q] = "dying"
    BY SMTT(40), <1>1, <1>4, <1>6 DEF RecordsExact, Kind
  <2>5. QED
    BY <1>1, <1>2, <1>5, <2>2, <2>3, <2>4 DEF RecordsExact
<1>13. WaitsExact'
  <2>1. \A q \in Page : at'[q] \in WaitLabel \cup {"process_wait"} => q # p
    BY <1>4 DEF WaitLabel
  <2>2. QED
    BY <1>1, <1>2, <1>4, <1>5, <2>1 DEF WaitsExact, WaitLabel
<1>14. WaitTruthful'
  BY <1>1, <1>2 DEF WaitTruthful
<1>15. ChildListExact'
  BY <1>7, <1>10, ListsAre, PTL
<1>16. QED
  BY <1>2, <1>7, <1>8, <1>9, <1>11, <1>12, <1>13, <1>14, <1>15 DEF ProcInv

-----------------------------------------------------------------------------
(* wait() answers: the process goes on, and a creator is told of its child *)
(* i either that there is nothing to tell, or, once, the truth.            *)
Answers(p, i, status) ==
  /\ at[p] \in {"process_wait", "wait_return"}
  /\ at' = [at EXCEPT ![p] = "user"] /\ target' = [target EXCEPT ![p] = 0]
  /\ Answer(p, i, status)
  /\ \/ status = -1
     \/ waits[i] = <<>> /\ status = record[i].exit_status /\ record[i].cur_status = "EXITED"
  /\ i \in children[p] => record[i].is_awaited
  /\ i < next_tid
  /\ UNCHANGED <<next_tid, tid, parent, children, sema, record, panic, creator>>

(* An answer keeps the invariant.                                          *)
LEMMA AnswerStep ==
  ASSUME ProcInv, NEW p \in Page, NEW i \in Tid, NEW status \in Int, Answers(p, i, status)
  PROVE  ProcInv'
<1>1. /\ ProcTypeOK /\ TidsExact /\ ExecExact /\ RecordsExact /\ WaitsExact /\ Listed
      /\ WaitTruthful
  BY ListsAre DEF ProcInv
<1>2. /\ at[p] \in {"process_wait", "wait_return"}
      /\ UNCHANGED <<next_tid, tid, parent, children, sema, record, panic, creator>>
      /\ i < next_tid /\ (i \in children[p] => record[i].is_awaited)
  BY DEF Answers
<1>3. /\ at'[p] = "user" /\ target'[p] = 0
      /\ \A r \in Page \ {p} : at'[r] = at[r] /\ target'[r] = target[r]
      /\ at' \in [Page -> Label] /\ target' \in [Page -> Int]
  BY <1>1 DEF ProcTypeOK, Answers, Label
<1>4. /\ waits' \in [Tid -> Seq(Int)]
      /\ \A j \in Tid : j # i \/ creator[i] # tid[p] => waits'[j] = waits[j]
      /\ creator[i] = tid[p] => waits'[i] = Append(waits[i], status)
  <2>1. waits \in [Tid -> Seq(Int)] /\ Append(waits[i], status) \in Seq(Int)
    BY SMTT(40), <1>1 DEF ProcTypeOK
  <2>2. waits' = IF creator[i] = tid[p] THEN [waits EXCEPT ![i] = Append(@, status)] ELSE waits
    BY DEF Answers, Answer
  <2>3. QED
    BY <2>1, <2>2
<1>5. Given' = Given /\ Given \subseteq Tid
  BY <1>1, <1>2, GivenAreTids DEF Given
<1>6. tid[p] # 0
  BY Zenon, <1>1, <1>2 DEF TidsExact
<1>7. ProcTypeOK'
  BY Zenon, <1>1, <1>2, <1>3, <1>4 DEF ProcTypeOK
<1>8. TidsExact'
  <2>1. \A r \in Page : at'[r] = "none" <=> at[r] = "none"
    BY Zenon, <1>2, <1>3
  <2>2. at'[main] \in {"user", "process_wait"} \cup WaitLabel
    BY Zenon, <1>1, <1>3, ProcessAssumption DEF TidsExact
  <2>3. QED
    BY Zenon, <1>1, <1>2, <1>5, <2>1, <2>2 DEF TidsExact
<1>9. QueuesExact'
  <2>1. /\ {p} \in SUBSET Page
        /\ \A r \in {p} : at[r] \notin {"exec_asleep", "wait_asleep"}
        /\ \A r \in Page \ {p} : at'[r] = at[r] /\ target'[r] = target[r]
        /\ \A j \in Given : record'[j].page = record[j].page
        /\ \A r \in Page, k \in Kind : sema'[r][k].waiters = sema[r][k].waiters
    BY ZenonT(40), <1>2, <1>3
  <2>2. QED
    BY ZenonT(40), <2>1, QueuesKept
<1>10. Listed'
  <2>1. \A r \in Page : at'[r] \notin Unlisted <=> at[r] \notin Unlisted
    BY Zenon, <1>2, <1>3 DEF Unlisted
  <2>2. QED
    BY Zenon, <1>1, <1>2, <2>1 DEF Listed
<1>11. ExecExact'
  <2>1. \A r \in Page : at'[r] \in Starting \cup ExecLabel => at'[r] = at[r] /\ r # p
    BY Zenon, <1>3 DEF Starting, ExecLabel
  <2>2. \A r \in Page : at[r] \in Starting =>
          parent[r] \in Page /\ (parent[r] # main => parent[r] # p)
    BY Zenon, <1>1, <1>2 DEF TidsExact, ExecExact, Starting, ExecLabel, WaitLabel
  <2>3. QED
    BY <1>1, <1>2, <1>3, <1>5, <2>1, <2>2 DEF ExecExact
<1>12. RecordsExact'
  <2>1. \A r \in Page : /\ at'[r] \in Unlisted <=> at[r] \in Unlisted
                        /\ at'[r] = "process_exit" <=> at[r] = "process_exit"
                        /\ at'[r] = "dying" <=> at[r] = "dying"
    BY Zenon, <1>2, <1>3 DEF Unlisted
  <2>2. \A j \in Given : record[j].page \in Page
    BY Zenon, <1>1 DEF TidsExact
  <2>3. \A j \in Given : record[j].cur_status = "ALIVE" =>
          tid[record[j].page] = j /\ at'[record[j].page] \notin Unlisted
    BY <1>1, <2>1, <2>2 DEF RecordsExact
  <2>4. \A r \in Page \ {main} :
          tid[r] # 0 /\ at'[r] \notin Unlisted \cup {"process_exit"} =>
            record[tid[r]].cur_status = "ALIVE"
    BY <1>1, <2>1 DEF RecordsExact
  <2>5. \A r \in Page : sema'[r]["wait"].value > 0 => at'[r] = "dying"
    BY <1>1, <1>2, <2>1 DEF RecordsExact
  <2>6. QED
    BY <1>1, <1>2, <1>5, <2>3, <2>4, <2>5 DEF RecordsExact
<1>13. WaitsExact'
  <2>1. \A r \in Page : at'[r] \in WaitLabel \cup {"process_wait"} => at'[r] = at[r] /\ r # p
    BY <1>3 DEF WaitLabel
  <2>2. ASSUME NEW r \in Page, at[r] \in WaitLabel, r # p
        PROVE  waits'[target[r]] = waits[target[r]]
    <3>1. target[r] \in Tid /\ creator[target[r]] = tid[r]
      BY <1>1, <1>5, <2>2 DEF WaitsExact
    <3>2. tid[r] # tid[p]
      BY <1>1, <1>6, <2>2 DEF TidsExact
    <3>3. QED
      BY <1>4, <3>1, <3>2
  <2>3. \A r \in Page : at'[r] \in WaitLabel =>
          /\ target'[r] \in Given /\ creator[target'[r]] = tid[r]
          /\ record[target'[r]].is_awaited /\ waits'[target'[r]] = <<>>
    BY ZenonT(40), <1>1, <1>3, <2>1, <2>2 DEF WaitsExact
  <2>4. \A j \in Tid : j >= next_tid => waits'[j] = <<>>
    <3>1. \A j \in Tid : j >= next_tid => j # i
      BY <1>1, <1>2, ProcessAssumption DEF ProcTypeOK, Tid
    <3>2. QED
      BY Zenon, <1>1, <1>4, <3>1 DEF WaitsExact
  <2>5. ASSUME NEW r \in Page, tid[r] # 0, NEW j \in children[r], waits'[j] # <<>>
        PROVE  record[j].is_awaited
    <3>1. j \in Nat /\ \E q \in Page : tid[q] = j /\ j # 0 /\ creator[j] = tid[r]
      BY SMTT(40), <1>1, <2>5 DEF Listed, ProcTypeOK
    <3>2. j \in Tid /\ creator[j] = tid[r]
      BY <1>1, <3>1, PageFacts
    <3>3. CASE j = i /\ creator[i] = tid[p]
      <4>1. r = p
        BY <1>1, <2>5, <3>2, <3>3 DEF TidsExact
      <4>2. QED
        BY Zenon, <1>2, <2>5, <3>3, <4>1
    <3>4. CASE j # i \/ creator[i] # tid[p]
      <4>1. waits[j] # <<>>
        BY Zenon, <1>4, <2>5, <3>2, <3>4
      <4>2. QED
        BY Zenon, <1>1, <2>5, <4>1 DEF WaitsExact
    <3>5. QED
      BY Zenon, <3>3, <3>4
  <2>6. \A r \in Page : /\ at'[r] = "process_wait" => target'[r] \in Tid /\ target'[r] < next_tid
                        /\ at'[r] = "wait_return" => record[target'[r]].cur_status # "ALIVE"
    BY ZenonT(40), <1>1, <1>3, <2>1 DEF WaitsExact, WaitLabel
  <2>7. QED
    BY Zenon, <1>2, <1>5, <2>3, <2>4, <2>5, <2>6 DEF WaitsExact, Tid
<1>14. WaitTruthful'
  <2> SUFFICES ASSUME NEW j \in Tid, NEW n \in DOMAIN waits'[j], waits'[j][n] # -1
               PROVE  /\ record[j].cur_status = "EXITED" /\ n = 1
                      /\ waits'[j][n] = record[j].exit_status
    BY <1>2 DEF WaitTruthful, Tid
  <2>1. CASE j # i \/ creator[i] # tid[p]
    BY ZenonT(40), <1>1, <1>4, <2>1 DEF WaitTruthful
  <2>2. CASE j = i /\ creator[i] = tid[p]
    <3>1. waits[i] \in Seq(Int) /\ waits'[i] = Append(waits[i], status)
      BY Zenon, <1>1, <1>4, <2>2 DEF ProcTypeOK
    <3>2. \/ n \in DOMAIN waits[i] /\ waits'[j][n] = waits[i][n]
          \/ n = Len(waits[i]) + 1 /\ waits'[j][n] = status
      BY <2>2, <3>1
    <3>3. CASE n \in DOMAIN waits[i] /\ waits'[j][n] = waits[i][n]
      BY <1>1, <2>2, <3>3 DEF WaitTruthful
    <3>4. CASE n = Len(waits[i]) + 1 /\ waits'[j][n] = status
      <4>1. waits[i] = <<>> /\ status = record[i].exit_status /\ record[i].cur_status = "EXITED"
        BY <3>4 DEF Answers
      <4>2. n = 1
        BY <3>4, <4>1
      <4>3. QED
        BY <2>2, <3>4, <4>1, <4>2
    <3>5. QED
      BY <3>2, <3>3, <3>4
  <2>3. QED
    BY Zenon, <2>1, <2>2
<1>15. ChildListExact'
  BY <1>7, <1>10, ListsAre, PTL
<1>16. QED
  BY <1>2, <1>7, <1>8, <1>9, <1>11, <1>12, <1>13, <1>14, <1>15 DEF ProcInv

(* wait() for a child that is listed and that nobody waits for yet.        *)
LEMMA MarkStep ==
  ASSUME ProcInv, NEW p \in Page, process_wait(p),
         get_child(target[p], p), ~record[target[p]].is_awaited
  PROVE  ProcInv'
<1>1. /\ ProcTypeOK /\ TidsExact /\ ExecExact /\ RecordsExact /\ WaitsExact /\ Listed
      /\ WaitTruthful
  BY ListsAre DEF ProcInv
<1> DEFINE i == target[p]
<1>2. /\ at[p] = "process_wait"
      /\ UNCHANGED <<next_tid, tid, parent, children, sema, target, panic, creator, waits>>
      /\ at' = [at EXCEPT ![p] = after_lookup(p)]
  BY Zenon DEF process_wait, wait_for, Go
<1>3. i \in Tid /\ i \in Nat /\ i < next_tid /\ tid[p] # 0 /\ i \in children[p]
  BY <1>1, <1>2, ProcessAssumption DEF WaitsExact, Tid, get_child
<1>4. creator[i] = tid[p] /\ i \in Given
  <2>1. PICK r \in Page : tid[r] = i /\ i # 0 /\ creator[i] = tid[p]
    BY <1>1, <1>3 DEF Listed
  <2>2. r # main
    BY <1>1, <1>3, <2>1 DEF TidsExact
  <2>3. QED
    BY <1>1, <2>1, <2>2, PageFacts
<1>5. PICK label : /\ label \in {"wait_down", "wait_return"}
                   /\ label = "wait_return" => record[i].cur_status # "ALIVE"
                   /\ at' = [at EXCEPT ![p] = label]
  BY Zenon, <1>2 DEF after_lookup
<1>6. /\ record' \in [Tid -> Record]
      /\ \A j \in Tid : /\ record'[j].page = record[j].page
                        /\ record'[j].cur_status = record[j].cur_status
                        /\ record'[j].exit_status = record[j].exit_status
                        /\ record[j].is_awaited => record'[j].is_awaited
      /\ record'[i].is_awaited
  <2> DEFINE new == [record[i] EXCEPT !.is_awaited = TRUE]
  <2>1. record \in [Tid -> Record] /\ record[i] \in Record
    BY <1>1, <1>3 DEF ProcTypeOK
  <2>2. Writes(i, new)
    BY Zenon DEF process_wait, wait_for, Writes
  <2> HIDE DEF i
  <2>3. /\ new \in Record /\ new.page = record[i].page
        /\ new.cur_status = record[i].cur_status
        /\ new.exit_status = record[i].exit_status
        /\ new.is_awaited
    BY Zenon, <2>1 DEF Record
  <2> HIDE DEF new
  <2>4. /\ record' \in [Tid -> Record] /\ record'[i] = new
        /\ \A j \in Tid \ {i} : record'[j] = record[j]
    BY Zenon, <1>3, <2>1, <2>2, <2>3, RecordWritten
  <2>5. QED
    BY Zenon, <1>3, <2>3, <2>4
<1>7. /\ at'[p] = label /\ \A r \in Page \ {p} : at'[r] = at[r]
      /\ at' \in [Page -> Label]
  BY <1>1, <1>5 DEF ProcTypeOK, Label, WaitLabel
<1>8. Given' = Given /\ Given \subseteq Tid
  BY <1>1, <1>2, GivenAreTids DEF Given
<1>9. \A r \in Page : tid[r] # 0 => tid[r] \in Tid
  BY <1>1, PageFacts
<1>10. waits[i] = <<>>
  BY ZenonT(40), <1>1, <1>3 DEF WaitsExact
<1> HIDE DEF i
<1>11. ProcTypeOK'
  BY Zenon, <1>1, <1>2, <1>6, <1>7 DEF ProcTypeOK
<1>12. TidsExact'
  <2>1. \A r \in Page : at'[r] = "none" <=> at[r] = "none"
    BY Zenon, <1>2, <1>5, <1>7
  <2>2. at'[main] \in {"user", "process_wait"} \cup WaitLabel
    BY <1>1, <1>5, <1>7, ProcessAssumption DEF TidsExact, WaitLabel
  <2>3. /\ \A r \in Page \ {main} : tid[r] # 0 =>
             parent[r] \in Page /\ record'[tid[r]].page = r
        /\ \A j \in Given : record'[j].page \in Page
    BY <1>1, <1>6, <1>8, <1>9 DEF TidsExact
  <2>4. QED
    BY <1>1, <1>2, <1>8, <2>1, <2>2, <2>3 DEF TidsExact
<1>13. QueuesExact'
  <2>1. /\ {p} \in SUBSET Page
        /\ \A r \in {p} : at[r] \notin {"exec_asleep", "wait_asleep"}
        /\ \A r \in Page \ {p} : at'[r] = at[r] /\ target'[r] = target[r]
        /\ \A j \in Given : record'[j].page = record[j].page
        /\ \A r \in Page, k \in Kind : sema'[r][k].waiters = sema[r][k].waiters
    BY <1>2, <1>6, <1>7, <1>8
  <2>2. QED
    BY Zenon, <2>1, QueuesKept
<1>14. Listed'
  <2>1. \A r \in Page : at'[r] \notin Unlisted <=> at[r] \notin Unlisted
    BY Zenon, <1>2, <1>5, <1>7 DEF Unlisted
  <2>2. QED
    BY <1>1, <1>2, <2>1 DEF Listed
<1>15. ExecExact'
  <2>1. \A r \in Page : at'[r] \in Starting \cup ExecLabel => at'[r] = at[r] /\ r # p
    BY Zenon, <1>5, <1>7 DEF Starting, ExecLabel
  <2>2. \A r \in Page : at[r] \in Starting =>
          parent[r] \in Page /\ (parent[r] # main => parent[r] # p)
    BY Zenon, <1>1, <1>2 DEF TidsExact, ExecExact, Starting, ExecLabel, WaitLabel
  <2>3. QED
    BY Zenon, <1>1, <1>2, <1>7, <1>8, <2>1, <2>2 DEF ExecExact
<1>16. RecordsExact'
  <2>1. \A r \in Page : /\ at'[r] \in Unlisted <=> at[r] \in Unlisted
                        /\ at'[r] = "process_exit" <=> at[r] = "process_exit"
                        /\ at'[r] = "dying" <=> at[r] = "dying"
    BY Zenon, <1>2, <1>5, <1>7 DEF Unlisted
  <2>2. \A j \in Given : record[j].page \in Page
    BY Zenon, <1>1 DEF TidsExact
  <2>3. \A j \in Given : record'[j].cur_status = "ALIVE" =>
          tid[record'[j].page] = j /\ at'[record'[j].page] \notin Unlisted
    BY SMTT(40), <1>1, <1>6, <1>8, <2>1, <2>2 DEF RecordsExact
  <2>4. \A r \in Page \ {main} :
          tid[r] # 0 /\ at'[r] \notin Unlisted \cup {"process_exit"} =>
            record'[tid[r]].cur_status = "ALIVE"
    BY SMTT(40), <1>1, <1>6, <1>9, <2>1 DEF RecordsExact
  <2>5. /\ \A r \in Page : sema'[r]["wait"].value > 0 => at'[r] = "dying"
        /\ \A j \in Tid : record'[j].cur_status = "KILLED" => record'[j].exit_status = -1
    BY <1>1, <1>2, <1>6, <2>1 DEF RecordsExact
  <2>6. QED
    BY <1>2, <1>8, <2>3, <2>4, <2>5 DEF RecordsExact
<1>17. WaitsExact'
  <2>1. \A r \in Page : at'[r] \in WaitLabel \cup {"process_wait"} => at'[r] = at[r] \/ r = p
    BY <1>7
  <2>2. \A r \in Page : at[r] \in WaitLabel => target[r] \in Tid
    BY <1>1, <1>8 DEF WaitsExact
  <2>3. \A r \in Page \ {p} : at'[r] \in WaitLabel =>
          /\ target[r] \in Given /\ creator[target[r]] = tid[r]
          /\ record'[target[r]].is_awaited /\ waits[target[r]] = <<>>
    BY Zenon, <1>1, <1>6, <1>7, <2>2 DEF WaitsExact
  <2>4. /\ target[p] \in Given /\ creator[target[p]] = tid[p]
        /\ record'[target[p]].is_awaited /\ waits[target[p]] = <<>>
    BY Zenon, <1>4, <1>6, <1>10 DEF i
  <2>5. \A r \in Page : at'[r] = "wait_return" => record'[target[r]].cur_status # "ALIVE"
    <3>1. \A r \in Page \ {p} : at[r] = "wait_return" =>
            record[target[r]].cur_status # "ALIVE" /\ target[r] \in Tid
      BY Zenon, <1>1, <2>2 DEF WaitsExact, WaitLabel
    <3>2. label = "wait_return" => record'[target[p]].cur_status # "ALIVE"
      BY <1>3, <1>5, <1>6 DEF i
    <3>3. QED
      BY ZenonT(40), <1>6, <1>7, <3>1, <3>2
  <2>6. ASSUME NEW r \in Page, tid[r] # 0, NEW j \in children[r], waits[j] # <<>>
        PROVE  record'[j].is_awaited
    <3>1. j \in Tid
      BY SMTT(40), <1>1, <2>6, PageFacts DEF Listed, ProcTypeOK
    <3>2. record[j].is_awaited
      BY Zenon, <1>1, <2>6 DEF WaitsExact
    <3>3. QED
      BY ZenonT(40), <1>6, <3>1, <3>2
  <2>7. /\ \A r \in Page : at'[r] = "process_wait" => target[r] \in Tid /\ target[r] < next_tid
        /\ \A j \in Tid : j >= next_tid => waits[j] = <<>>
    BY <1>1, <1>5, <1>7 DEF WaitsExact
  <2>8. \A r \in Page : at'[r] \in WaitLabel =>
          /\ target[r] \in Given /\ creator[target[r]] = tid[r]
          /\ record'[target[r]].is_awaited /\ waits[target[r]] = <<>>
    BY Zenon, <2>3, <2>4
  <2>9. QED
    BY Zenon, <1>2, <1>8, <2>5, <2>6, <2>7, <2>8 DEF WaitsExact, Tid
<1>18. WaitTruthful'
  BY <1>1, <1>2, <1>6 DEF WaitTruthful
<1>19. ChildListExact'
  BY <1>11, <1>14, ListsAre, PTL
<1>20. QED
  BY <1>2, <1>11, <1>12, <1>13, <1>15, <1>16, <1>17, <1>18, <1>19 DEF ProcInv

(* process_wait() and the return from it.                                  *)
LEMMA WaitStep ==
  ASSUME ProcInv, NEW p \in Page, process_wait(p) \/ wait_return(p)
  PROVE  ProcInv'
<1>1. /\ ProcTypeOK /\ TidsExact /\ RecordsExact /\ WaitsExact
  BY DEF ProcInv
<1>2. CASE process_wait(p)
  <2>1. at[p] = "process_wait"
    BY Zenon, <1>2 DEF process_wait, wait_for
  <2>2. target[p] \in Tid /\ target[p] < next_tid /\ tid[p] # 0
    BY Zenon, <1>1, <2>1 DEF WaitsExact, TidsExact
  <2>3. CASE get_child(target[p], p) /\ ~record[target[p]].is_awaited
    BY Zenon, <1>2, <2>3, MarkStep
  <2>4. CASE ~get_child(target[p], p) \/ record[target[p]].is_awaited
    <3>1. target[p] \in children[p] => record[target[p]].is_awaited
      BY Zenon, <2>2, <2>4 DEF get_child
    <3>2. /\ at' = [at EXCEPT ![p] = "user"] /\ target' = [target EXCEPT ![p] = 0]
          /\ Answer(p, target[p], -1)
          /\ UNCHANGED <<next_tid, tid, parent, children, sema, record, panic, creator>>
      BY Zenon, <1>2, <2>4 DEF process_wait, wait_for, Go
    <3>3. Answers(p, target[p], -1)
      BY Zenon, <2>1, <2>2, <3>1, <3>2 DEF Answers
    <3>4. -1 \in Int
      OBVIOUS
    <3>5. QED
      BY Zenon, <2>2, <3>3, <3>4, AnswerStep
  <2>5. QED
    BY Zenon, <2>3, <2>4
<1>3. CASE wait_return(p)
  <2> DEFINE i == target[p]
  <2>1. at[p] = "wait_return" /\ at[p] \in WaitLabel
    BY <1>3 DEF wait_return, WaitLabel
  <2>2. /\ i \in Given /\ record[i].is_awaited /\ waits[i] = <<>>
        /\ record[i].cur_status # "ALIVE"
    BY Zenon, <1>1, <2>1 DEF WaitsExact
  <2>3. i \in Tid /\ i < next_tid
    BY <1>1, <2>2, GivenAreTids DEF Given, ProcTypeOK
  <2>4. record[i] \in Record
    BY Zenon, <1>1, <2>3 DEF ProcTypeOK
  <2>5. record[i].exit_status \in Int /\ record[i].cur_status \in {"ALIVE", "EXITED", "KILLED"}
    BY <2>4 DEF Record
  <2>6. record[i].exit_status = -1 \/ record[i].cur_status = "EXITED"
    BY <1>1, <2>2, <2>3, <2>5 DEF RecordsExact
  <2>7. /\ at' = [at EXCEPT ![p] = "user"] /\ target' = [target EXCEPT ![p] = 0]
        /\ Answer(p, i, record[i].exit_status)
        /\ UNCHANGED <<next_tid, tid, parent, children, sema, record, panic, creator>>
    BY Zenon, <1>3 DEF wait_return, Go
  <2> HIDE DEF i
  <2>8. Answers(p, i, record[i].exit_status)
    BY Zenon, <2>1, <2>2, <2>3, <2>6, <2>7 DEF Answers
  <2>9. QED
    BY Zenon, <2>3, <2>5, <2>8, AnswerStep
<1>4. QED
  BY <1>2, <1>3

-----------------------------------------------------------------------------
(* A fault of exec(), exit() or process_exit() stops the kernel as it is.  *)
LEMMA SameState ==
  ASSUME ProcInv, panic' # "start_process",
         UNCHANGED <<next_tid, tid, parent, children, sema, record, at, target, creator, waits>>
  PROVE  ProcInv'
<1>1. ProcTypeOK'
  BY Zenon DEF ProcInv, ProcTypeOK
<1>2. TidsExact'
  BY Zenon DEF ProcInv, TidsExact, Tid, Given, WaitLabel
<1>3. QueuesExact'
  <2>1. {} \in SUBSET Page
    OBVIOUS
  <2>2. QED
    BY Zenon, <2>1, QueuesKept
<1>4. ChildListExact'
  BY DEF ProcInv, ChildListExact
<1>5. ExecExact' /\ RecordsExact'
  BY Zenon DEF ProcInv, ExecExact, RecordsExact, Tid, Given, ExecLabel, Starting, Unlisted
<1>6. WaitsExact' /\ WaitTruthful'
  BY Zenon DEF ProcInv, WaitsExact, WaitTruthful, Tid, Given, WaitLabel
<1>7. QED
  BY Zenon, <1>1, <1>2, <1>3, <1>4, <1>5, <1>6 DEF ProcInv

(* Every step of a process keeps the invariant.                            *)
LEMMA ProcStep == ProcInv /\ [ProcNext]_procVars => ProcInv'
<1> SUFFICES ASSUME ProcInv, [ProcNext]_procVars PROVE ProcInv'
  OBVIOUS
<1>1. CASE UNCHANGED procVars
  <2>1. UNCHANGED <<next_tid, tid, parent, children, sema, record, at, target, creator, waits>>
        /\ panic' # "start_process"
    BY <1>1 DEF procVars, ProcInv
  <2>2. QED
    BY Zenon, <2>1, SameState
<1>2. ASSUME NEW p \in Page, KernelStep(p) PROVE ProcInv'
  <2>1. CASE exec_get_child(p)
    <3>1. CASE get_child(target[p], p)
      BY Zenon, <2>1, <3>1, CallStep
    <3>2. CASE ~get_child(target[p], p)
      <4>1. /\ panic' # "start_process"
            /\ UNCHANGED <<next_tid, tid, parent, children, sema, record, at, target, creator, waits>>
        BY <2>1, <3>2 DEF exec_get_child, Fault
      <4>2. QED
        BY Zenon, <4>1, SameState
    <3>3. QED
      BY <3>1, <3>2
  <2>2. CASE exec_down(p) \/ wait_down(p)
    BY Zenon, <2>2, DownStep
  <2>3. CASE exec_return(p)
    BY Zenon, <2>3, CallStep
  <2>4. CASE \E success \in BOOLEAN : start_process(p, success)
    BY Zenon, <2>4, StartStep
  <2>5. CASE start_process_up(p) \/ process_exit_up(p)
    BY Zenon, <2>5, SemaUpStep
  <2>6. CASE process_wait(p) \/ wait_return(p)
    BY Zenon, <2>6, WaitStep
  <2>7. CASE exit(p)
    <3>1. CASE get_child(tid[p], parent[p])
      BY Zenon, <2>7, <3>1, ExitStep
    <3>2. CASE ~get_child(tid[p], parent[p])
      <4>1. /\ panic' # "start_process"
            /\ UNCHANGED <<next_tid, tid, parent, children, sema, record, at, target, creator, waits>>
        BY <2>7, <3>2 DEF exit, Fault
      <4>2. QED
        BY Zenon, <4>1, SameState
    <3>3. QED
      BY <3>1, <3>2
  <2>8. CASE process_exit(p)
    <3>1. CASE get_child(tid[p], parent[p])
      BY Zenon, <2>8, <3>1, ProcessExitStep
    <3>2. CASE ~get_child(tid[p], parent[p])
      <4>1. /\ panic' # "start_process"
            /\ UNCHANGED <<next_tid, tid, parent, children, sema, record, at, target, creator, waits>>
        BY <2>8, <3>2 DEF process_exit, Fault
      <4>2. QED
        BY Zenon, <4>1, SameState
    <3>3. QED
      BY <3>1, <3>2
  <2>9. CASE thread_exit(p)
    BY Zenon, <2>9, ThreadExitStep
  <2>10. QED
    BY Zenon, <1>2, <2>1, <2>2, <2>3, <2>4, <2>5, <2>6, <2>7, <2>8, <2>9 DEF KernelStep
<1>3. ASSUME NEW p \in Page, UserStep(p) PROVE ProcInv'
  <2>1. CASE \E q \in Page : exec(p, q)
    <3>1. PICK q \in Page : exec(p, q)
      BY <2>1
    <3>2. p # main /\ at[p] = "user" /\ thread_create(p, q, "exec_get_child")
      BY <3>1 DEF exec
    <3>3. QED
      BY Zenon, <3>2, CreateStep
  <2>2. CASE \/ exec_no_memory(p) \/ kill(p)
             \/ \E i \in Tid : call_wait(p, i)
             \/ \E status \in Status : call_exit(p, status)
    BY Zenon, <2>2, CallStep
  <2>3. QED
    BY Zenon, <1>3, <2>1, <2>2 DEF UserStep
<1>4. ASSUME NEW q \in Page, run_task(q) PROVE ProcInv'
  <2>1. main \in Page /\ at[main] = "user" /\ thread_create(main, q, "process_wait")
    BY <1>4, ProcessAssumption DEF run_task
  <2>2. QED
    BY Zenon, <2>1, CreateStep
<1>5. QED
  BY Zenon, <1>1, <1>2, <1>3, <1>4 DEF ProcNext

-----------------------------------------------------------------------------
(* The invariant of exec(), wait() and exit(): tids are given once, queues *)
(* hold sleepers, records tell who is ALIVE.                               *)
THEOREM ProcInvariant == ProcSpec => []ProcInv
BY ProcStart, ProcStep, PTL DEF ProcSpec

(* thread_create() and process_exit() keep every list of children exact.   *)
THEOREM ChildListsAreExact == ProcSpec => []ChildListExact
<1>1. ProcInv => ChildListExact
  BY DEF ProcInv
<1>2. QED
  BY <1>1, ProcInvariant, PTL

(* exec() returns after the load of the child it waited for, never of      *)
(* another process in the same page, and start_process() finds its record. *)
THEOREM ExecAnswersAreFinal == ProcSpec => []ExecAnswerFinal
<1>1. ProcInv => ExecAnswerFinal
  <2> SUFFICES ASSUME ProcInv, NEW p \in Page, NEW q \in Page,
                      at[p] = "exec_return", tid[q] = target[p], at[q] = "start_process"
               PROVE  FALSE
    BY DEF ProcInv, ExecAnswerFinal
  <2>1. ProcTypeOK /\ TidsExact /\ ExecExact
    BY DEF ProcInv
  <2>2. at[q] \in Starting /\ at[p] \in ExecLabel
    BY DEF Starting, ExecLabel
  <2>3. q # main /\ tid[q] # 0 /\ parent[q] \in Page /\ p # main /\ tid[p] # 0
    BY Zenon, <2>1 DEF TidsExact, WaitLabel
  <2>4. tid[parent[q]] = tid[p]
    BY <2>1, <2>2 DEF ExecExact
  <2>5. parent[q] = p
    BY <2>1, <2>3, <2>4 DEF TidsExact
  <2>6. QED
    BY <2>1, <2>2, <2>3, <2>5 DEF ExecExact
<1>2. QED
  BY <1>1, ProcInvariant, PTL

(* wait() never returns early, and never a status twice.                   *)
THEOREM WaitsAreTruthful == ProcSpec => []WaitTruthful
<1>1. ProcInv => WaitTruthful
  BY DEF ProcInv
<1>2. QED
  BY <1>1, ProcInvariant, PTL
=============================================================================
