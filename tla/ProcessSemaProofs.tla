-------------------------- MODULE ProcessSemaProofs --------------------------
(***************************************************************************)
(* The invariant of Process, ProcInv, and the proofs that it survives the  *)
(* steps that only move a process or use a semaphore of struct thread:     *)
(* exec_sema and wait_sema.  ProcessProofs goes on with the steps that     *)
(* write a record or the lists of children, and ends with the theorems.    *)
(***************************************************************************)
EXTENDS Process, TLAPS

(* Places in exec() and in process_wait().                                 *)
ExecLabel == {"exec_get_child", "exec_down", "exec_asleep", "exec_return"}
WaitLabel == {"wait_down", "wait_asleep", "wait_return"}

(* A process that has not yet told its parent whether it was loaded.       *)
Starting == {"start_process", "loaded", "load_failed"}

(* A process that is no longer in the list of its parent.                  *)
Unlisted == {"exit_up", "dying"}

(* What a process can be doing.                                            *)
Label == {"none", "user", "process_wait", "exit", "process_exit"}
         \cup ExecLabel \cup WaitLabel \cup Starting \cup Unlisted

(* The two semaphores of a struct thread, and who sleeps on them.          *)
Kind == {"exec", "wait"}
Asleep(k) == IF k = "exec" THEN "exec_asleep" ELSE "wait_asleep"

(* struct child_process                                                    *)
Record == [page : Page \cup {NoThread}, cur_status : {"ALIVE", "EXITED", "KILLED"},
           exit_status : Int, is_loaded : BOOLEAN, is_awaited : BOOLEAN]

(* Tids that were given to a process other than main.                      *)
Given == 2 .. next_tid - 1

(* The types.                                                              *)
ProcTypeOK ==
  /\ next_tid \in 2 .. MaxTid + 1
  /\ tid \in [Page -> Nat]
  /\ parent \in [Page -> Page \cup {NoThread}]
  /\ children \in [Page -> SUBSET Nat]
  /\ sema \in [Page -> [Kind -> [value : Nat, waiters : Seq(Page)]]]
  /\ record \in [Tid -> Record]
  /\ at \in [Page -> Label]
  /\ target \in [Page -> Int]
  /\ creator \in [Tid -> Nat]
  /\ waits \in [Tid -> Seq(Int)]

(* Tids are given once; a page with a process in it is the page of its     *)
(* record; main never leaves.                                              *)
TidsExact ==
  /\ \A p \in Page : /\ at[p] = "none" <=> tid[p] = 0
                     /\ tid[p] < next_tid
  /\ \A p, q \in Page : tid[p] = tid[q] /\ tid[p] # 0 => p = q
  /\ tid[main] = 1 /\ at[main] \in {"user", "process_wait"} \cup WaitLabel
  /\ \A p \in Page \ {main} : tid[p] # 0 =>
       parent[p] \in Page /\ record[tid[p]].page = p
  /\ \A i \in Tid : creator[i] < i
  /\ creator[1] = 0
  /\ \A i \in Given : record[i].page \in Page

(* Whoever is in a queue of a semaphore is asleep on the page of its       *)
(* child's record, once.                                                   *)
QueueExact(w, q, k) ==
  /\ \A i \in 1 .. Len(w) : at[w[i]] = Asleep(k) /\ record[target[w[i]]].page = q
  /\ \A i, j \in 1 .. Len(w) : w[i] = w[j] => i = j

(* The same, of the queues of both semaphores of every page.               *)
QueuesExact == \A q \in Page, k \in Kind : QueueExact(sema[q][k].waiters, q, k)

(* A process that is starting has a parent that waits for it, or main.     *)
ExecExact ==
  /\ \A p \in Page : at[p] \in ExecLabel =>
       target[p] \in Given /\ creator[target[p]] = tid[p]
  /\ \A q \in Page : at[q] \in Starting =>
       /\ sema[q]["exec"].value = 0
       /\ tid[parent[q]] = creator[tid[q]]
       /\ parent[q] # main =>
            /\ at[parent[q]] \in ExecLabel \ {"exec_return"}
            /\ target[parent[q]] = tid[q]

(* What the record of a process says of it.                                *)
RecordsExact ==
  /\ \A i \in Given : record[i].cur_status = "ALIVE" =>
       tid[record[i].page] = i /\ at[record[i].page] \notin Unlisted
  /\ \A q \in Page \ {main} :
       tid[q] # 0 /\ at[q] \notin Unlisted \cup {"process_exit"} =>
         record[tid[q]].cur_status = "ALIVE"
  /\ \A i \in Tid : record[i].cur_status = "KILLED" => record[i].exit_status = -1
  /\ \A q \in Page : sema[q]["wait"].value > 0 => at[q] = "dying"

(* Who waits for a child is its creator, has marked its record and has had *)
(* no answer yet; who had an answer gets no other.                         *)
WaitsExact ==
  /\ \A p \in Page : at[p] = "process_wait" => target[p] \in Tid /\ target[p] < next_tid
  /\ \A p \in Page : at[p] \in WaitLabel =>
       /\ target[p] \in Given /\ creator[target[p]] = tid[p]
       /\ record[target[p]].is_awaited /\ waits[target[p]] = <<>>
  /\ \A p \in Page : at[p] = "wait_return" => record[target[p]].cur_status # "ALIVE"
  /\ \A i \in Tid : i >= next_tid => waits[i] = <<>>
  /\ \A p \in Page : tid[p] # 0 =>
       \A i \in children[p] : waits[i] # <<>> => record[i].is_awaited

(* The inductive invariant.                                                *)
ProcInv ==
  /\ ProcTypeOK /\ TidsExact /\ QueuesExact
  /\ ChildListExact /\ ExecExact /\ RecordsExact /\ WaitsExact
  /\ WaitTruthful
  /\ panic # "start_process"

-----------------------------------------------------------------------------
(* main runs in its page, and every other page is free.                    *)
LEMMA ProcStart == ProcInit => ProcInv
<1> SUFFICES ASSUME ProcInit PROVE ProcInv
  OBVIOUS
<1> USE DEF ProcInit
<1>1. ProcTypeOK
  <2>1. fresh_semas \in [Kind -> [value : Nat, waiters : Seq(Page)]]
    BY DEF fresh_semas, Kind
  <2>2. create_child_process(NoThread) \in Record
    BY DEF create_child_process, Record, CHILD_NOT_EXITED
  <2>3. QED
    BY <2>1, <2>2, ProcessAssumption DEF ProcTypeOK, Label, Tid
<1>2. TidsExact
  BY ProcessAssumption DEF TidsExact, Tid, Given, WaitLabel
<1>3. QueuesExact
  <2>1. \A q \in Page, k \in Kind : sema[q][k].waiters = <<>>
    BY DEF fresh_semas, Kind
  <2>2. \A q \in Page, k \in Kind : 1 .. Len(sema[q][k].waiters) = {}
    BY <2>1
  <2>3. QED
    BY Zenon, <2>2 DEF QueuesExact, QueueExact
<1>4. ChildListExact
  <2> SUFFICES ASSUME NEW p \in Page, tid[p] # 0
               PROVE  {tid[q] : q \in {r \in Page : /\ tid[r] # 0
                                                    /\ creator[tid[r]] = tid[p]
                                                    /\ at[r] \notin {"exit_up", "dying"}}} = {}
    BY DEF ChildListExact
  <2>1. \A r \in Page : tid[r] # 0 => tid[r] \in Tid
    BY ProcessAssumption DEF Tid
  <2>2. QED
    BY <2>1
<1>5. ExecExact
  BY DEF ExecExact, ExecLabel, Starting
<1>6. RecordsExact
  BY DEF RecordsExact, Given, fresh_semas, create_child_process
<1>7. WaitsExact /\ WaitTruthful /\ panic # "start_process"
  BY DEF WaitsExact, WaitTruthful, WaitLabel
<1>8. QED
  BY <1>1, <1>2, <1>3, <1>4, <1>5, <1>6, <1>7 DEF ProcInv

-----------------------------------------------------------------------------
(* Facts about a state. *)

(* The page of a process, by what it is doing.                             *)
LEMMA PageFacts ==
  ASSUME ProcTypeOK, TidsExact, NEW p \in Page
  PROVE  /\ tid[p] \in Nat /\ (tid[p] # 0 => tid[p] \in Tid)
         /\ tid[p] # 0 /\ p # main => tid[p] \in Given
         /\ at[p] # "none" <=> tid[p] # 0
BY SMTT(40), ProcessAssumption DEF ProcTypeOK, TidsExact, Tid, Given

(* The two semaphores of a page.                                           *)
Semas == [Page -> [Kind -> [value : Nat, waiters : Seq(Page)]]]

(* One semaphore gets a value and a queue, the others keep theirs.         *)
SemaBecomes(q, k, n, w) ==
  /\ sema' \in Semas
  /\ sema'[q][k].value = n /\ sema'[q][k].waiters = w
  /\ \A r \in Page, m \in Kind : r # q \/ m # k => sema'[r][m] = sema[r][m]

(* sema_down() that does not wait.                                         *)
Took(q, k) == sema' = [sema EXCEPT ![q][k].value = @ - 1]

(* A sema_down() that does not wait lowers the value and nothing else.     *)
LEMMA TookSema ==
  ASSUME sema \in Semas, NEW q \in Page, NEW k \in Kind, sema[q][k].value > 0, Took(q, k)
  PROVE  SemaBecomes(q, k, sema[q][k].value - 1, sema[q][k].waiters)
<1> DEFINE old == sema[q][k]
           new == [value |-> sema[q][k].value - 1, waiters |-> sema[q][k].waiters]
<1>1. old \in [value : Nat, waiters : Seq(Page)]
  BY DEF Semas
<1>2. new \in [value : Nat, waiters : Seq(Page)]
  BY <1>1
<1>3. [old EXCEPT !.value = @ - 1] = new
  BY <1>1
<1>4. sema' = [sema EXCEPT ![q] = [sema[q] EXCEPT ![k] = new]]
  BY Zenon, <1>3 DEF Took
<1>5. sema[q] \in [Kind -> [value : Nat, waiters : Seq(Page)]]
  BY DEF Semas
<1> HIDE DEF new
<1>6. [sema[q] EXCEPT ![k] = new] \in [Kind -> [value : Nat, waiters : Seq(Page)]]
  BY <1>2, <1>5
<1>7. sema'[q] = [sema[q] EXCEPT ![k] = new] /\ \A r \in Page \ {q} : sema'[r] = sema[r]
  BY <1>4 DEF Semas
<1>8. sema'[q][k] = new /\ \A m \in Kind \ {k} : sema'[q][m] = sema[q][m]
  BY <1>5, <1>7
<1>9. sema' \in Semas
  BY <1>4, <1>6 DEF Semas
<1>10. \A r \in Page, m \in Kind : r # q \/ m # k => sema'[r][m] = sema[r][m]
  BY Zenon, <1>7, <1>8
<1>11. /\ new.value = sema[q][k].value - 1
       /\ new.waiters = sema[q][k].waiters
  BY Zenon DEF new
<1>12. QED
  BY Zenon, <1>8, <1>9, <1>10, <1>11 DEF SemaBecomes

(* sema_down() that joins the queue.                                       *)
Joined(q, k, p) == sema' = [sema EXCEPT ![q][k].waiters = Append(@, p)]

(* A sema_down() that waits puts the caller at the end of the queue.       *)
LEMMA JoinedSema ==
  ASSUME sema \in Semas, NEW q \in Page, NEW k \in Kind, NEW p \in Page, Joined(q, k, p)
  PROVE  SemaBecomes(q, k, sema[q][k].value, Append(sema[q][k].waiters, p))
<1> DEFINE old == sema[q][k]
           new == [value |-> sema[q][k].value, waiters |-> Append(sema[q][k].waiters, p)]
<1>1. old \in [value : Nat, waiters : Seq(Page)]
  BY DEF Semas
<1>2. new \in [value : Nat, waiters : Seq(Page)]
  BY <1>1
<1>3. [old EXCEPT !.waiters = Append(@, p)] = new
  <2>1. \A w \in Seq(Page) : [old EXCEPT !.waiters = w] = [value |-> old.value, waiters |-> w]
    BY SMTT(40), <1>1
  <2>2. Append(old.waiters, p) \in Seq(Page)
    BY <1>1
  <2>3. QED
    BY Zenon, <2>1, <2>2
<1>4. sema' = [sema EXCEPT ![q] = [sema[q] EXCEPT ![k] = new]]
  BY Zenon, <1>3 DEF Joined
<1>5. sema[q] \in [Kind -> [value : Nat, waiters : Seq(Page)]]
  BY DEF Semas
<1> HIDE DEF new
<1>6. [sema[q] EXCEPT ![k] = new] \in [Kind -> [value : Nat, waiters : Seq(Page)]]
  BY <1>2, <1>5
<1>7. sema'[q] = [sema[q] EXCEPT ![k] = new] /\ \A r \in Page \ {q} : sema'[r] = sema[r]
  BY <1>4 DEF Semas
<1>8. sema'[q][k] = new /\ \A m \in Kind \ {k} : sema'[q][m] = sema[q][m]
  BY <1>5, <1>7
<1>9. sema' \in Semas
  BY <1>4, <1>6 DEF Semas
<1>10. \A r \in Page, m \in Kind : r # q \/ m # k => sema'[r][m] = sema[r][m]
  BY Zenon, <1>7, <1>8
<1>11. /\ new.value = sema[q][k].value
       /\ new.waiters = Append(sema[q][k].waiters, p)
  BY Zenon DEF new
<1>12. QED
  BY Zenon, <1>8, <1>9, <1>10, <1>11 DEF SemaBecomes

(* sema_up() that finds nobody.                                            *)
Raised(q, k) == sema' = [sema EXCEPT ![q][k].value = @ + 1]

(* A sema_up() of an empty queue raises the value and nothing else.        *)
LEMMA RaisedSema ==
  ASSUME sema \in Semas, NEW q \in Page, NEW k \in Kind, Raised(q, k)
  PROVE  SemaBecomes(q, k, sema[q][k].value + 1, sema[q][k].waiters)
<1> DEFINE old == sema[q][k]
           new == [value |-> sema[q][k].value + 1, waiters |-> sema[q][k].waiters]
<1>1. old \in [value : Nat, waiters : Seq(Page)]
  BY DEF Semas
<1>2. new \in [value : Nat, waiters : Seq(Page)]
  BY <1>1
<1>3. [old EXCEPT !.value = @ + 1] = new
  BY <1>1
<1>4. sema' = [sema EXCEPT ![q] = [sema[q] EXCEPT ![k] = new]]
  BY Zenon, <1>3 DEF Raised
<1>5. sema[q] \in [Kind -> [value : Nat, waiters : Seq(Page)]]
  BY DEF Semas
<1> HIDE DEF new
<1>6. [sema[q] EXCEPT ![k] = new] \in [Kind -> [value : Nat, waiters : Seq(Page)]]
  BY <1>2, <1>5
<1>7. sema'[q] = [sema[q] EXCEPT ![k] = new] /\ \A r \in Page \ {q} : sema'[r] = sema[r]
  BY <1>4 DEF Semas
<1>8. sema'[q][k] = new /\ \A m \in Kind \ {k} : sema'[q][m] = sema[q][m]
  BY <1>5, <1>7
<1>9. sema' \in Semas
  BY <1>4, <1>6 DEF Semas
<1>10. \A r \in Page, m \in Kind : r # q \/ m # k => sema'[r][m] = sema[r][m]
  BY Zenon, <1>7, <1>8
<1>11. /\ new.value = sema[q][k].value + 1
       /\ new.waiters = sema[q][k].waiters
  BY Zenon DEF new
<1>12. QED
  BY Zenon, <1>8, <1>9, <1>10, <1>11 DEF SemaBecomes

(* sema_up() that wakes the first thread in the queue.                     *)
Woke(q, k) == sema' = [sema EXCEPT ![q][k] =
                           [value |-> @.value + 1, waiters |-> Tail(sema[q][k].waiters)]]

(* A sema_up() takes the first of the queue off it and raises the value.   *)
LEMMA WokeSema ==
  ASSUME sema \in Semas, NEW q \in Page, NEW k \in Kind, sema[q][k].waiters # <<>>, Woke(q, k)
  PROVE  SemaBecomes(q, k, sema[q][k].value + 1, Tail(sema[q][k].waiters))
<1> DEFINE old == sema[q][k]
           new == [value |-> sema[q][k].value + 1, waiters |-> Tail(sema[q][k].waiters)]
<1>1. old \in [value : Nat, waiters : Seq(Page)]
  BY DEF Semas
<1>2. new \in [value : Nat, waiters : Seq(Page)]
  BY <1>1
<1>3. [value |-> old.value + 1, waiters |-> Tail(old.waiters)] = new
  BY <1>1
<1>4. sema' = [sema EXCEPT ![q] = [sema[q] EXCEPT ![k] = new]]
  BY Zenon, <1>3 DEF Woke
<1>5. sema[q] \in [Kind -> [value : Nat, waiters : Seq(Page)]]
  BY DEF Semas
<1> HIDE DEF new
<1>6. [sema[q] EXCEPT ![k] = new] \in [Kind -> [value : Nat, waiters : Seq(Page)]]
  BY <1>2, <1>5
<1>7. sema'[q] = [sema[q] EXCEPT ![k] = new] /\ \A r \in Page \ {q} : sema'[r] = sema[r]
  BY <1>4 DEF Semas
<1>8. sema'[q][k] = new /\ \A m \in Kind \ {k} : sema'[q][m] = sema[q][m]
  BY <1>5, <1>7
<1>9. sema' \in Semas
  BY <1>4, <1>6 DEF Semas
<1>10. \A r \in Page, m \in Kind : r # q \/ m # k => sema'[r][m] = sema[r][m]
  BY Zenon, <1>7, <1>8
<1>11. /\ new.value = sema[q][k].value + 1
       /\ new.waiters = Tail(sema[q][k].waiters)
  BY Zenon DEF new
<1>12. QED
  BY Zenon, <1>8, <1>9, <1>10, <1>11 DEF SemaBecomes

(* What a semaphore of a page is.                                          *)
LEMMA SemaFacts ==
  ASSUME ProcTypeOK, NEW q \in Page
  PROVE  /\ "exec" \in Kind /\ "wait" \in Kind
         /\ \A k \in Kind : sema[q][k].value \in Nat /\ sema[q][k].waiters \in Seq(Page)
<1>1. "exec" \in Kind /\ "wait" \in Kind
  BY DEF Kind
<1>2. \A k \in Kind : sema[q][k].value \in Nat /\ sema[q][k].waiters \in Seq(Page)
  BY DEF ProcTypeOK
<1>3. QED
  BY <1>1, <1>2

(* Tids that were given have records.                                      *)
LEMMA GivenAreTids == ProcTypeOK => Given \subseteq Tid
BY ProcessAssumption DEF ProcTypeOK, Given, Tid

(* ChildListExact, child by child.                                         *)
Listed ==
  \A p \in Page, i \in Nat : tid[p] # 0 =>
    (i \in children[p] <=> \E r \in Page : /\ tid[r] = i /\ i # 0
                                           /\ creator[i] = tid[p]
                                           /\ at[r] \notin Unlisted)

(* The lists of children, put as the proofs use them.                      *)
LEMMA ListsAre == ProcTypeOK => (ChildListExact <=> Listed)
<1> SUFFICES ASSUME ProcTypeOK PROVE ChildListExact <=> Listed
  OBVIOUS
<1> DEFINE L(p) == {tid[q] : q \in {r \in Page : /\ tid[r] # 0
                                                 /\ creator[tid[r]] = tid[p]
                                                 /\ at[r] \notin {"exit_up", "dying"}}}
<1>1. ASSUME NEW p \in Page
      PROVE  /\ children[p] \subseteq Nat /\ L(p) \subseteq Nat
             /\ \A i \in Nat : i \in L(p) <=> \E r \in Page : /\ tid[r] = i /\ i # 0
                                                              /\ creator[i] = tid[p]
                                                              /\ at[r] \notin Unlisted
  BY DEF ProcTypeOK, Unlisted
<1>2. \A p \in Page : children[p] = L(p) <=> \A i \in Nat : i \in children[p] <=> i \in L(p)
  BY <1>1
<1> HIDE DEF L
<1>3. ChildListExact <=> \A p \in Page : tid[p] # 0 => children[p] = L(p)
  BY DEF ChildListExact, L
<1>4. QED
  BY <1>1, <1>2, <1>3 DEF Listed

(* Whoever is not asleep here is not in this queue, so its steps leave it  *)
(* exact as long as no record moves to another page.                             *)
LEMMA QueueKept ==
  ASSUME ProcInv, NEW S \in SUBSET Page,
         \A r \in Page \ S : at'[r] = at[r] /\ target'[r] = target[r],
         \A i \in Given : record'[i].page = record[i].page,
         NEW q \in Page, NEW k \in Kind,
         \A r \in S : at[r] # Asleep(k) \/ record[target[r]].page # q,
         \/ sema'[q][k].waiters = sema[q][k].waiters
         \/ sema'[q][k].waiters = <<>>
  PROVE  QueueExact(sema[q][k].waiters, q, k)'
<1> DEFINE w == sema[q][k].waiters
<1>1. CASE sema'[q][k].waiters = w
  <2>1. w \in Seq(Page)
    BY DEF ProcInv, ProcTypeOK
  <2>2. /\ \A i \in 1 .. Len(w) : at[w[i]] = Asleep(k) /\ record[target[w[i]]].page = q
        /\ \A i, j \in 1 .. Len(w) : w[i] = w[j] => i = j
    BY Zenon DEF ProcInv, QueuesExact, QueueExact
  <2>3. \A i \in 1 .. Len(w) : w[i] \in Page
    BY <2>1
  <2>4. Asleep(k) \in {"exec_asleep", "wait_asleep"}
    BY DEF Asleep
  <2>5. \A r \in Page : at[r] \in {"exec_asleep", "wait_asleep"} => target[r] \in Given
    BY DEF ProcInv, ExecExact, WaitsExact, ExecLabel, WaitLabel
  <2> HIDE DEF w
  <2>6. \A i \in 1 .. Len(w) : at'[w[i]] = Asleep(k) /\ record'[target'[w[i]]].page = q
    BY <2>2, <2>3, <2>4, <2>5
  <2>7. QED
    BY <2>2, <2>6, <1>1 DEF QueueExact, Asleep
<1>2. CASE sema'[q][k].waiters = <<>>
  <2>1. 1 .. Len(sema'[q][k].waiters) = {}
    BY <1>2
  <2>2. QED
    BY Zenon, <2>1 DEF QueueExact
<1>3. QED
  BY Zenon, <1>1, <1>2

(* The same of all queues.                                                 *)
LEMMA QueuesKept ==
  ASSUME ProcInv, NEW S \in SUBSET Page,
         \A r \in S : at[r] \notin {"exec_asleep", "wait_asleep"},
         \A r \in Page \ S : at'[r] = at[r] /\ target'[r] = target[r],
         \A i \in Given : record'[i].page = record[i].page,
         \A q \in Page, k \in Kind : \/ sema'[q][k].waiters = sema[q][k].waiters
                                     \/ sema'[q][k].waiters = <<>>
  PROVE  QueuesExact'
<1> SUFFICES ASSUME NEW q \in Page, NEW k \in Kind
             PROVE  QueueExact(sema[q][k].waiters, q, k)'
  BY Zenon DEF QueuesExact
<1>1. \A r \in S : at[r] # Asleep(k)
  BY DEF Asleep
<1>2. QED
  BY Zenon, <1>1, QueueKept

-----------------------------------------------------------------------------
(* Steps that only move one process, and at most take from a semaphore or  *)
(* join its queue: exec(), wait() and exit() on their way.                 *)
Moves(p, label, v) ==
  /\ at[p] \notin {"none", "process_exit"} \cup Starting \cup Unlisted
  /\ label \notin {"none"} \cup Starting \cup Unlisted
  /\ at' = [at EXCEPT ![p] = label] /\ target' = [target EXCEPT ![p] = v]
  /\ UNCHANGED <<next_tid, tid, parent, children, record, panic, creator, waits>>
  /\ sema' \in [Page -> [Kind -> [value : Nat, waiters : Seq(Page)]]]
  /\ \A q \in Page, k \in Kind : sema[q][k].value = 0 => sema'[q][k].value = 0
  /\ QueuesExact'
  /\ p = main => label \in {"user", "process_wait"} \cup WaitLabel
  /\ label \in ExecLabel => v \in Given /\ creator[v] = tid[p]
  /\ label = "process_wait" => v \in Tid /\ v < next_tid
  /\ label \in WaitLabel => at[p] \in WaitLabel /\ v = target[p]
  /\ label = "wait_return" => record[v].cur_status # "ALIVE"
  /\ \A r \in Page : at[r] \in Starting /\ parent[r] = p /\ p # main =>
       label \in ExecLabel \ {"exec_return"} /\ v = target[p]

(* Such steps keep the invariant.                                          *)
LEMMA MoveStep ==
  ASSUME ProcInv, NEW p \in Page, NEW label \in Label, NEW v \in Int, Moves(p, label, v)
  PROVE  ProcInv'
<1> USE DEF Moves
<1>1. /\ ProcTypeOK /\ TidsExact /\ ExecExact /\ RecordsExact /\ WaitsExact /\ Listed
      /\ WaitTruthful
  BY ListsAre DEF ProcInv
<1>2. \A r \in Page : at'[r] = (IF r = p THEN label ELSE at[r]) /\ target'[r] = (IF r = p THEN v ELSE target[r])
  BY <1>1 DEF ProcTypeOK
<1>3. Given' = Given
  BY DEF Given
<1>4. ProcTypeOK'
  BY <1>1 DEF ProcTypeOK
<1>5. TidsExact'
  BY <1>1, <1>2, <1>3 DEF TidsExact
<1>6. Listed'
  <2>1. \A r \in Page : at'[r] \notin Unlisted <=> at[r] \notin Unlisted
    BY <1>2
  <2>2. QED
    BY ZenonT(40), <1>1, <2>1 DEF Listed
<1>7. ExecExact'
  <2>1. \A q \in Page : at'[q] \in Starting => at[q] \in Starting
    BY <1>2
  <2>2. \A q \in Page : at'[q] \in Starting => sema'[q]["exec"].value = 0
    BY <1>1, <2>1 DEF ExecExact, Kind
  <2>3. QED
    BY <1>1, <1>2, <1>3, <2>1, <2>2 DEF ExecExact
<1>8. RecordsExact'
  <2>1. \A i \in Given : record[i].page \in Page
    BY <1>1 DEF TidsExact
  <2>2. ASSUME NEW q \in Page, sema'[q]["wait"].value > 0
        PROVE  sema[q]["wait"].value > 0
    <3>1. sema[q]["wait"].value \in Nat
      BY <1>1, SemaFacts
    <3>2. sema[q]["wait"].value # 0
      BY <2>2 DEF Kind
    <3>3. QED
      BY <3>1, <3>2
  <2>3. \A q \in Page : sema'[q]["wait"].value > 0 => at'[q] = "dying"
    BY <1>1, <1>2, <2>2 DEF RecordsExact, Unlisted
  <2>4. \A i \in Given : record[i].cur_status = "ALIVE" =>
          tid[record[i].page] = i /\ at'[record[i].page] \notin Unlisted
    BY <1>1, <1>2, <2>1 DEF RecordsExact
  <2>5. \A q \in Page \ {main} :
          tid[q] # 0 /\ at'[q] \notin Unlisted \cup {"process_exit"} =>
            record[tid[q]].cur_status = "ALIVE"
    BY <1>1, <1>2 DEF RecordsExact
  <2>6. QED
    BY <1>1, <1>3, <2>3, <2>4, <2>5 DEF RecordsExact
<1>9. WaitsExact'
  BY <1>1, <1>2, <1>3 DEF WaitsExact
<1>10. WaitTruthful'
  BY <1>1 DEF WaitTruthful
<1>11. ChildListExact'
  BY <1>4, <1>6, ListsAre, PTL
<1>12. QED
  BY <1>4, <1>5, <1>7, <1>8, <1>9, <1>10, <1>11 DEF ProcInv

(* System calls as they begin, and the parts of exec() around its wait.    *)
LEMMA CallStep ==
  ASSUME ProcInv, NEW p \in Page,
         \/ exec_no_memory(p) \/ kill(p) \/ exec_return(p)
         \/ \E i \in Tid : call_wait(p, i)
         \/ \E status \in Status : call_exit(p, status)
         \/ exec_get_child(p) /\ get_child(target[p], p)
  PROVE  ProcInv'
<1>1. /\ ProcTypeOK /\ TidsExact /\ ExecExact /\ RecordsExact /\ WaitsExact
  BY DEF ProcInv
<1>2. at \in [Page -> Label] /\ target \in [Page -> Int]
      /\ sema \in [Page -> [Kind -> [value : Nat, waiters : Seq(Page)]]]
  BY <1>1 DEF ProcTypeOK
<1>3. PICK label \in Label, v \in Int :
        /\ at' = [at EXCEPT ![p] = label] /\ target' = [target EXCEPT ![p] = v]
        /\ \/ at[p] = "user" /\ p # main /\ label \in {"exit", "process_exit"}
           \/ at[p] = "user" /\ p # main /\ label = "process_wait" /\ v \in Tid /\ v < next_tid
           \/ at[p] = "exec_return" /\ label = "user"
           \/ at[p] = "exec_get_child" /\ label = "exec_down" /\ v = target[p]
  <2>0. 0 \in Int /\ -1 \in Int
    OBVIOUS
  <2>1. CASE exec_no_memory(p)
    BY Zenon, <2>0, <2>1 DEF exec_no_memory, Go, Label
  <2>2. CASE kill(p)
    <3>1. target' = [target EXCEPT ![p] = target[p]] /\ target[p] \in Int
      BY <2>2, <1>2 DEF kill
    <3>2. QED
      BY Zenon, <3>1, <2>2 DEF kill, Go, Label
  <2>3. CASE exec_return(p)
    BY Zenon, <2>0, <2>3 DEF exec_return, Go, Label
  <2>4. ASSUME NEW i \in Tid, call_wait(p, i) PROVE i \in Int /\ call_wait(p, i)
    BY <2>4, ProcessAssumption DEF Tid
  <2>5. CASE \E i \in Tid : call_wait(p, i)
    BY Zenon, <2>4, <2>5 DEF call_wait, Go, Label
  <2>6. CASE \E status \in Status : call_exit(p, status)
    BY Zenon, <2>6, ProcessAssumption DEF call_exit, Go, Label
  <2>7. CASE exec_get_child(p) /\ get_child(target[p], p)
    <3>1. target' = [target EXCEPT ![p] = target[p]] /\ target[p] \in Int
      BY <2>7, <1>2 DEF exec_get_child
    <3>2. QED
      BY Zenon, <3>1, <2>7 DEF exec_get_child, Go, Label, ExecLabel
  <2>8. QED
    BY <2>1, <2>2, <2>3, <2>5, <2>6, <2>7
<1>4. UNCHANGED <<next_tid, tid, parent, children, record, panic, creator, waits, sema>>
  BY DEF exec_no_memory, kill, exec_return, call_wait, call_exit, exec_get_child
<1>5. \A r \in Page \ {p} : at'[r] = at[r] /\ target'[r] = target[r]
  BY <1>2, <1>3
<1>6. QueuesExact'
  <2>1. \A r \in {p} : at[r] \notin {"exec_asleep", "wait_asleep"}
    BY <1>3
  <2>2. \A i \in Given : record'[i].page = record[i].page
    BY <1>4
  <2>3. \A q \in Page, k \in Kind : \/ sema'[q][k].waiters = sema[q][k].waiters
                                    \/ sema'[q][k].waiters = <<>>
    BY <1>4
  <2>4. {p} \in SUBSET Page
    OBVIOUS
  <2>5. QED
    BY Zenon, <1>5, <2>1, <2>2, <2>3, <2>4, QueuesKept
<1>7. p = main => label \in {"user", "process_wait"} \cup WaitLabel
  BY <1>1, <1>3 DEF TidsExact, WaitLabel
<1>8. label \in ExecLabel => v \in Given /\ creator[v] = tid[p]
  BY <1>1, <1>3 DEF ExecExact, ExecLabel
<1>9. label \notin WaitLabel /\ label \notin {"none"} \cup Starting \cup Unlisted
      /\ at[p] \notin {"none", "process_exit"} \cup Starting \cup Unlisted
  BY <1>3 DEF WaitLabel, Starting, Unlisted
<1>10. ASSUME NEW r \in Page, at[r] \in Starting, parent[r] = p, p # main
       PROVE  label \in ExecLabel \ {"exec_return"} /\ v = target[p]
  BY <1>1, <1>3, <1>10 DEF ExecExact, ExecLabel
<1>11. sema' \in [Page -> [Kind -> [value : Nat, waiters : Seq(Page)]]]
  BY <1>2, <1>4
<1>12. \A q \in Page, k \in Kind : sema[q][k].value = 0 => sema'[q][k].value = 0
  BY <1>4
<1>13. label = "wait_return" => record[v].cur_status # "ALIVE"
  BY <1>3
<1>14. label = "process_wait" => v \in Tid /\ v < next_tid
  BY <1>3
<1>15. /\ at' = [at EXCEPT ![p] = label] /\ target' = [target EXCEPT ![p] = v]
       /\ UNCHANGED <<next_tid, tid, parent, children, record, panic, creator, waits>>
  BY <1>3, <1>4
<1>16. Moves(p, label, v)
  BY Zenon, <1>15, <1>6, <1>7, <1>8, <1>9, <1>10, <1>11, <1>12, <1>13, <1>14 DEF Moves
<1>17. QED
  BY Zenon, <1>16, MoveStep

(* sema_down() in exec() and in wait(): the page may have been freed, or   *)
(* be another process's, since the record was written.  A wait() that goes *)
(* on finds a record that is not ALIVE.                                    *)
LEMMA DownStep ==
  ASSUME ProcInv, NEW p \in Page, exec_down(p) \/ wait_down(p)
  PROVE  ProcInv'
<1>1. /\ ProcTypeOK /\ TidsExact /\ ExecExact /\ RecordsExact /\ WaitsExact
  BY DEF ProcInv
<1>2. at \in [Page -> Label] /\ target \in [Page -> Int]
      /\ sema \in Semas
  BY <1>1 DEF ProcTypeOK, Semas
<1> DEFINE q == record[target[p]].page
           v == target[p]
<1>3. PICK k \in Kind : \E done \in Label :
        /\ k = "exec" => at[p] = "exec_down" /\ done = "exec_return"
        /\ k = "wait" => at[p] = "wait_down" /\ done = "wait_return"
        /\ sema_down(p, q, k, Asleep(k), done)
  <2>1. /\ "exec" \in Kind /\ "wait" \in Kind /\ "exec" # "wait"
        /\ "exec_return" \in Label /\ "wait_return" \in Label
        /\ Asleep("exec") = "exec_asleep" /\ Asleep("wait") = "wait_asleep"
    BY DEF Kind, Label, ExecLabel, WaitLabel, Asleep
  <2>2. CASE exec_down(p)
    BY Zenon, <2>1, <2>2 DEF exec_down
  <2>3. CASE wait_down(p)
    BY Zenon, <2>1, <2>3 DEF wait_down
  <2>4. QED
    BY <2>2, <2>3
<1>4. PICK done \in Label :
        /\ k = "exec" => at[p] = "exec_down" /\ done = "exec_return"
        /\ k = "wait" => at[p] = "wait_down" /\ done = "wait_return"
        /\ sema_down(p, q, k, Asleep(k), done)
  BY <1>3
<1>5. /\ k \in {"exec", "wait"}
      /\ at[p] \in {"exec_down", "wait_down"}
  BY <1>4 DEF Kind
<1>6. v \in Given /\ creator[v] = tid[p] /\ v \in Int /\ v # 0
  BY <1>1, <1>2, <1>4, <1>5 DEF ExecExact, WaitsExact, ExecLabel, WaitLabel, Given
<1>7. q \in Page
  BY <1>1, <1>6 DEF TidsExact
<1>v. v = target[p] /\ q = record[v].page
  OBVIOUS
<1> HIDE DEF q, v
<1>8. /\ UNCHANGED <<next_tid, tid, parent, children, record, panic, creator, waits>>
      /\ target' = [target EXCEPT ![p] = v]
  BY <1>2, <1>4 DEF sema_down, v
<1>9. p # main \/ k = "wait"
  BY <1>1, <1>4, <1>5 DEF TidsExact, WaitLabel
<1>10. \A r \in Page : at[r] \in Starting /\ parent[r] = p /\ p # main =>
         k = "exec" /\ q = r /\ tid[r] # 0 /\ sema[r]["exec"].value = 0
  <2> SUFFICES ASSUME NEW r \in Page, at[r] \in Starting, parent[r] = p, p # main
               PROVE  k = "exec" /\ q = r /\ tid[r] # 0 /\ sema[r]["exec"].value = 0
    OBVIOUS
  <2>1. at[p] \in ExecLabel /\ v = tid[r] /\ sema[r]["exec"].value = 0
    BY <1>1, <1>v DEF ExecExact
  <2>2. k = "exec"
    BY <2>1, <1>4, <1>5 DEF ExecLabel
  <2>3. r # main /\ tid[r] # 0
    BY <1>1 DEF TidsExact, Starting, WaitLabel
  <2>4. QED
    BY <1>1, <1>v, <2>1, <2>2, <2>3 DEF TidsExact
<1>11. at[p] \notin {"none", "process_exit"} \cup Starting \cup Unlisted
  BY <1>5 DEF Starting, Unlisted
<1>12. ASSUME at' = [at EXCEPT ![p] = done], tid[q] = 0 \/ sema[q][k].value > 0,
              \A r \in Page, m \in Kind : sema'[r][m].waiters = sema[r][m].waiters,
              sema' \in Semas,
              \A r \in Page, m \in Kind : sema[r][m].value = 0 => sema'[r][m].value = 0
       PROVE  ProcInv'
  <2>1. QueuesExact'
    <3>1. \A r \in {p} : at[r] \notin {"exec_asleep", "wait_asleep"}
      BY <1>5
    <3>2. \A r \in Page \ {p} : at'[r] = at[r] /\ target'[r] = target[r]
      BY <1>2, <1>8, <1>12
    <3>3. \A i \in Given : record'[i].page = record[i].page
      BY <1>8
    <3>4. {p} \in SUBSET Page
      OBVIOUS
    <3>5. QED
      BY Zenon, <3>1, <3>2, <3>3, <3>4, <1>12, QueuesKept
  <2>2. done \in {"exec_return", "wait_return"}
    BY <1>4, <1>5
  <2>3. done \notin {"none"} \cup Starting \cup Unlisted /\ done # "process_wait"
    BY <2>2 DEF Starting, Unlisted
  <2>4. p = main => done \in {"user", "process_wait"} \cup WaitLabel
    BY <1>4, <1>9 DEF WaitLabel
  <2>5. done \in WaitLabel => at[p] \in WaitLabel
    BY <1>4, <1>5 DEF WaitLabel
  <2>6. done = "wait_return" => record[v].cur_status # "ALIVE"
    <3> SUFFICES ASSUME done = "wait_return", record[v].cur_status = "ALIVE" PROVE FALSE
      OBVIOUS
    <3>1. tid[q] = v /\ at[q] \notin Unlisted
      BY <1>1, <1>6, <1>v DEF RecordsExact
    <3>2. k = "wait"
      BY <1>4, <1>5
    <3>3. QED
      BY <3>1, <3>2, <1>1, <1>6, <1>7, <1>12 DEF RecordsExact, Unlisted
  <2>7. \A r \in Page : ~(at[r] \in Starting /\ parent[r] = p /\ p # main)
    BY <1>10, <1>12
  <2>8. Moves(p, done, v)
    BY Zenon, <1>v, <1>6, <1>8, <1>11, <1>12, <2>1, <2>3, <2>4, <2>5, <2>6, <2>7 DEF Moves, Semas
  <2>9. QED
    BY Zenon, <1>6, <2>8, MoveStep
<1>13. CASE tid[q] = 0 /\ Go(p, done) /\ UNCHANGED sema
  BY <1>2, <1>12, <1>13 DEF Go
<1>14. CASE /\ tid[q] # 0 /\ sema[q][k].value > 0
            /\ sema' = [sema EXCEPT ![q][k].value = @ - 1]
            /\ Go(p, done)
  <2>1. sema[q][k].value - 1 \in Nat /\ sema[q][k].waiters \in Seq(Page)
    BY <1>1, <1>7, <1>14, SemaFacts
  <2>2. Took(q, k)
    BY Zenon, <1>14 DEF Took
  <2>3. SemaBecomes(q, k, sema[q][k].value - 1, sema[q][k].waiters)
    BY Zenon, <1>2, <1>7, <1>14, <2>2, TookSema
  <2>4. /\ sema' \in Semas
        /\ sema'[q][k].waiters = sema[q][k].waiters
        /\ \A r \in Page, m \in Kind : r # q \/ m # k => sema'[r][m] = sema[r][m]
    BY Zenon, <2>3 DEF SemaBecomes
  <2>5. QED
    BY <1>12, <1>14, <2>4 DEF Go
<1>15. CASE /\ tid[q] # 0 /\ sema[q][k].value = 0
            /\ sema' = [sema EXCEPT ![q][k].waiters = Append(@, p)]
            /\ Go(p, Asleep(k))
  <2> DEFINE w == sema[q][k].waiters
  <2>1. w \in Seq(Page) /\ Append(w, p) \in Seq(Page)
    BY <1>1, <1>7, SemaFacts
  <2>0. Joined(q, k, p)
    BY Zenon, <1>15 DEF Joined
  <2>2. SemaBecomes(q, k, sema[q][k].value, Append(w, p))
    BY Zenon, <1>2, <1>7, <2>0, JoinedSema
  <2>3. /\ sema' \in Semas
        /\ sema'[q][k].waiters = Append(w, p) /\ sema'[q][k].value = sema[q][k].value
        /\ \A r \in Page, m \in Kind : r # q \/ m # k => sema'[r][m] = sema[r][m]
    BY Zenon, <2>2 DEF SemaBecomes
  <2>4. /\ \A r \in Page \ {p} : at'[r] = at[r] /\ target'[r] = target[r]
        /\ at'[p] = Asleep(k) /\ target'[p] = v
    BY <1>2, <1>8, <1>15 DEF Go
  <2>5. Asleep(k) \in {"exec_asleep", "wait_asleep"}
    BY DEF Asleep
  <2>6. QueuesExact'
    <3> SUFFICES ASSUME NEW r \in Page, NEW m \in Kind
                 PROVE  QueueExact(sema[r][m].waiters, r, m)'
      BY Zenon DEF QueuesExact
    <3>1. CASE r # q \/ m # k
      <4>1. \A s \in {p} : at[s] # Asleep(m)
        BY <1>5 DEF Asleep
      <4>2. \A i \in Given : record'[i].page = record[i].page
        BY <1>8
      <4>3. {p} \in SUBSET Page /\ sema'[r][m].waiters = sema[r][m].waiters
        BY <2>3, <3>1
      <4>4. QED
        BY Zenon, <2>4, <4>1, <4>2, <4>3, QueueKept
    <3>2. CASE r = q /\ m = k
      <4>1. QueueExact(w, q, k)
        BY Zenon, <1>7 DEF ProcInv, QueuesExact
      <4>0. \A i \in 1 .. Len(w) : w[i] \in Page
        BY <2>1
      <4>2. \A i \in 1 .. Len(w) : w[i] \in Page \ {p}
        BY <1>5, <2>5, <4>0, <4>1 DEF QueueExact
      <4>3. /\ Len(Append(w, p)) = Len(w) + 1 /\ Len(w) \in Nat
            /\ \A i \in 1 .. Len(w) : Append(w, p)[i] = w[i]
            /\ Append(w, p)[Len(w) + 1] = p
        BY SMTT(40), <2>1
      <4> HIDE DEF w
      <4> DEFINE u == Append(w, p)
      <4>4. \A i \in 1 .. Len(u) : \/ i \in 1 .. Len(w) /\ u[i] = w[i]
                                   \/ i = Len(w) + 1 /\ u[i] = p
        BY <4>3
      <4> HIDE DEF u
      <4>5. \A i \in 1 .. Len(u) : at'[u[i]] = Asleep(k) /\ record[target'[u[i]]].page = q
        BY <1>v, <2>4, <4>1, <4>2, <4>4 DEF QueueExact
      <4>6. \A i, j \in 1 .. Len(u) : u[i] = u[j] => i = j
        BY <4>1, <4>2, <4>4 DEF QueueExact
      <4>7. sema'[r][m].waiters = u
        BY <2>3, <3>2 DEF u, w
      <4>8. QED
        BY <4>5, <4>6, <4>7, <3>2, <1>8 DEF QueueExact, Asleep
    <3>3. QED
      BY <3>1, <3>2
  <2>7. /\ Asleep(k) \in Label /\ Asleep(k) \notin {"none"} \cup Starting \cup Unlisted
        /\ Asleep(k) # "process_wait" /\ Asleep(k) # "wait_return"
    BY <2>5 DEF Label, ExecLabel, WaitLabel, Starting, Unlisted
  <2>8. p = main => Asleep(k) \in {"user", "process_wait"} \cup WaitLabel
    BY <1>9 DEF Asleep, WaitLabel
  <2>9. Asleep(k) \in WaitLabel => at[p] \in WaitLabel
    BY <1>4, <1>5 DEF WaitLabel, Asleep
  <2>10. \A r \in Page : at[r] \in Starting /\ parent[r] = p /\ p # main =>
           Asleep(k) \in ExecLabel \ {"exec_return"} /\ v = target[p]
    BY <1>v, <1>10 DEF Asleep, ExecLabel
  <2>11. at' = [at EXCEPT ![p] = Asleep(k)]
    BY <1>15 DEF Go
  <2>12. \A r \in Page, m \in Kind : sema[r][m].value = 0 => sema'[r][m].value = 0
    BY <2>3
  <2>13. Moves(p, Asleep(k), v)
    BY Zenon, <1>v, <2>12, <1>6, <1>8, <1>11, <2>2, <2>3, <2>6, <2>7, <2>8, <2>9, <2>10, <2>11 DEF Moves, Semas
  <2>14. QED
    BY Zenon, <1>6, <2>7, <2>13, MoveStep
<1>16. QED
  BY Zenon, <1>4, <1>13, <1>14, <1>15 DEF sema_down

-----------------------------------------------------------------------------
(* sema_up() of a process on its own page: it moves, and wakes at most one *)
(* process, W, which tries again.                                          *)
Ups(p, k, label, W) ==
  /\ \/ k = "exec" /\ at[p] = "loaded" /\ label = "user"
     \/ k = "exec" /\ at[p] = "load_failed" /\ label = "process_exit"
     \/ k = "wait" /\ at[p] = "exit_up" /\ label = "dying"
  /\ p \notin W
  /\ at' \in [Page -> Label] /\ at'[p] = label
  /\ \A r \in W : at[r] = Asleep(k) /\ at'[r] = Again[Asleep(k)]
  /\ \A r \in Page \ (W \cup {p}) : at'[r] = at[r]
  /\ UNCHANGED <<next_tid, tid, parent, children, record, target, panic, creator, waits>>
  /\ sema' \in Semas
  /\ \A r \in Page, m \in Kind : r # p \/ m # k => sema'[r][m].value = sema[r][m].value
  /\ QueuesExact'

(* Such a step keeps the invariant.                                        *)
LEMMA UpStep ==
  ASSUME ProcInv, NEW p \in Page, NEW k \in Kind, NEW label, NEW W \in SUBSET Page,
         Ups(p, k, label, W)
  PROVE  ProcInv'
<1> USE DEF Ups
<1>1. /\ ProcTypeOK /\ TidsExact /\ ExecExact /\ RecordsExact /\ WaitsExact /\ Listed
      /\ WaitTruthful
  BY SMTT(40), ListsAre DEF ProcInv
<1>2. \A r \in Page :
        \/ r = p /\ at'[r] = label
        \/ r # p /\ at[r] = "exec_asleep" /\ at'[r] = "exec_down"
        \/ r # p /\ at[r] = "wait_asleep" /\ at'[r] = "wait_down"
        \/ r # p /\ at'[r] = at[r]
  <2>1. Again[Asleep(k)] = IF k = "exec" THEN "exec_down" ELSE "wait_down"
    BY SMTT(40) DEF Again, Asleep
  <2>2. QED
    BY SMTT(40), <2>1 DEF Asleep
<1>3. at[p] \in {"loaded", "load_failed", "exit_up"} /\ label \in {"user", "process_exit", "dying"}
  OBVIOUS
<1>4. Given' = Given
  BY DEF Given
<1>5. ProcTypeOK'
  BY <1>1 DEF ProcTypeOK, Semas
<1>6. TidsExact'
  <2>1. p # main /\ tid[p] # 0
    BY SMTT(40), <1>1, <1>3 DEF TidsExact, WaitLabel
  <2>2. \A r \in Page : at'[r] = "none" <=> at[r] = "none"
    BY <1>2, <1>3
  <2>3. at'[main] \in {"user", "process_wait"} \cup WaitLabel
    BY <1>1, <1>2, <2>1, ProcessAssumption DEF TidsExact, WaitLabel
  <2>4. QED
    BY <1>1, <1>4, <2>2, <2>3 DEF TidsExact
<1>7. Listed'
  <2>1. \A r \in Page : at'[r] \notin Unlisted <=> at[r] \notin Unlisted
    BY <1>2, <1>3 DEF Unlisted
  <2>2. QED
    BY <1>1, <2>1 DEF Listed
<1>8. ExecExact'
  <2>1. \A q \in Page : at'[q] \in Starting => at[q] \in Starting /\ q # p
    BY <1>2, <1>3 DEF Starting
  <2>2. \A q \in Page : at'[q] \in Starting => sema'[q]["exec"].value = 0
    BY <1>1, <2>1 DEF ExecExact, Kind
  <2>3. \A q \in Page : /\ at'[q] \in ExecLabel => at[q] \in ExecLabel
                        /\ at[q] \in ExecLabel \ {"exec_return"}
                           => at'[q] \in ExecLabel \ {"exec_return"}
    BY <1>2, <1>3 DEF ExecLabel
  <2>4. \A q \in Page : at'[q] \in Starting => parent[q] \in Page
    BY SMTT(40), <1>1, <2>1 DEF TidsExact, Starting, WaitLabel
  <2>5. QED
    BY <1>1, <1>4, <2>1, <2>2, <2>3, <2>4 DEF ExecExact
<1>9. RecordsExact'
  <2>1. \A i \in Given : record[i].page \in Page
    BY <1>1 DEF TidsExact
  <2>2. \A r \in Page : at'[r] \notin Unlisted <=> at[r] \notin Unlisted
    BY <1>2, <1>3 DEF Unlisted
  <2>3. ASSUME NEW q \in Page, sema'[q]["wait"].value > 0 PROVE at'[q] = "dying"
    <3>1. CASE q = p /\ k = "wait"
      BY <3>1
    <3>2. CASE q # p \/ k # "wait"
      <4>1. sema[q]["wait"].value > 0
        BY <3>2, <2>3 DEF Kind
      <4>2. at[q] = "dying"
        BY <1>1, <4>1 DEF RecordsExact
      <4>3. QED
        BY <1>2, <1>3, <4>2
    <3>3. QED
      BY <3>1, <3>2
  <2>4. \A i \in Given : record[i].cur_status = "ALIVE" =>
          tid[record[i].page] = i /\ at'[record[i].page] \notin Unlisted
    BY <1>1, <2>1, <2>2 DEF RecordsExact
  <2>5. \A r \in Page : at'[r] \notin Unlisted \cup {"process_exit"}
                        => at[r] \notin Unlisted \cup {"process_exit"}
    BY <1>2, <1>3 DEF Unlisted
  <2>6. \A q \in Page \ {main} :
          tid[q] # 0 /\ at'[q] \notin Unlisted \cup {"process_exit"} =>
            record[tid[q]].cur_status = "ALIVE"
    BY <1>1, <2>5 DEF RecordsExact
  <2>7. QED
    BY <1>1, <1>4, <2>3, <2>4, <2>6 DEF RecordsExact
<1>10. WaitsExact'
  <2>1. \A r \in Page : /\ at'[r] = "process_wait" => at[r] = "process_wait"
                        /\ at'[r] \in WaitLabel => at[r] \in WaitLabel
                        /\ at'[r] = "wait_return" => at[r] = "wait_return"
    BY <1>2, <1>3 DEF WaitLabel
  <2>2. QED
    BY <1>1, <1>4, <2>1 DEF WaitsExact
<1>11. WaitTruthful'
  BY <1>1 DEF WaitTruthful
<1>12. ChildListExact'
  BY <1>5, <1>7, ListsAre, PTL
<1>13. QED
  BY <1>5, <1>6, <1>8, <1>9, <1>10, <1>11, <1>12 DEF ProcInv

(* start_process() tells the parent, process_exit() who waits.             *)
LEMMA SemaUpStep ==
  ASSUME ProcInv, NEW p \in Page, start_process_up(p) \/ process_exit_up(p)
  PROVE  ProcInv'
<1>1. ProcTypeOK /\ TidsExact /\ QueuesExact
  BY DEF ProcInv
<1>2. at \in [Page -> Label] /\ sema \in Semas
  BY <1>1 DEF ProcTypeOK, Semas
<1>3. PICK k \in Kind, label \in Label :
        /\ \/ k = "exec" /\ at[p] = "loaded" /\ label = "user"
           \/ k = "exec" /\ at[p] = "load_failed" /\ label = "process_exit"
           \/ k = "wait" /\ at[p] = "exit_up" /\ label = "dying"
        /\ sema_up(p, k, label)
  <2>1. /\ "exec" \in Kind /\ "wait" \in Kind
        /\ "user" \in Label /\ "process_exit" \in Label /\ "dying" \in Label
    BY DEF Kind, Label, Unlisted
  <2>2. QED
    BY Zenon, <2>1 DEF start_process_up, process_exit_up
<1> DEFINE w == sema[p][k].waiters
<1>4. at[p] # Asleep(k)
  BY <1>3 DEF Asleep
<1>5. UNCHANGED <<next_tid, tid, parent, children, record, target, panic, creator, waits>>
  BY <1>3 DEF sema_up
<1>6. w \in Seq(Page) /\ QueueExact(w, p, k)
  BY Zenon, <1>1, SemaFacts DEF QueuesExact
<1>7. /\ \A i \in Given : record'[i].page = record[i].page
      /\ \A r \in Page : target'[r] = target[r]
  BY <1>5
<1>8. CASE w = <<>>
  <2>1. Raised(p, k) /\ at' = [at EXCEPT ![p] = label]
    BY Zenon, <1>3, <1>8 DEF sema_up, Raised, Go
  <2>2. SemaBecomes(p, k, sema[p][k].value + 1, w)
    BY Zenon, <1>2, <2>1, RaisedSema
  <2>3. /\ sema' \in Semas
        /\ \A r \in Page, m \in Kind : sema'[r][m].waiters = sema[r][m].waiters
        /\ \A r \in Page, m \in Kind : r # p \/ m # k => sema'[r][m].value = sema[r][m].value
    BY <2>2 DEF SemaBecomes
  <2>4. /\ at' \in [Page -> Label] /\ at'[p] = label
        /\ \A r \in Page \ {p} : at'[r] = at[r]
    BY <1>2, <2>1
  <2>5. \A r \in {p} : at[r] \notin {"exec_asleep", "wait_asleep"}
    BY <1>3
  <2>0. {p} \in SUBSET Page /\ {} \in SUBSET Page
    OBVIOUS
  <2>6. QueuesExact'
    BY Zenon, <1>7, <2>0, <2>3, <2>4, <2>5, QueuesKept
  <2>7. Ups(p, k, label, {})
    BY <1>3, <1>5, <2>3, <2>4, <2>6 DEF Ups
  <2>8. QED
    BY Zenon, <2>0, <2>7, UpStep
<1>9. CASE w # <<>>
  <2> DEFINE h == w[1]
             u == Tail(w)
  <2>1. /\ h = Head(w) /\ h \in Page /\ Len(w) \in Nat \ {0}
        /\ u \in Seq(Page) /\ Len(u) = Len(w) - 1
        /\ \A i \in 1 .. Len(u) : u[i] = w[i + 1] /\ i + 1 \in 1 .. Len(w) /\ w[i + 1] \in Page
    BY <1>6, <1>9
  <2>2. Woke(p, k) /\ at' = [at EXCEPT ![p] = label, ![Head(w)] = Again[at[Head(w)]]]
    BY Zenon, <1>3, <1>9 DEF sema_up, Woke
  <2>3. SemaBecomes(p, k, sema[p][k].value + 1, u)
    BY Zenon, <1>2, <1>9, <2>2, WokeSema
  <2>4. /\ sema' \in Semas
        /\ sema'[p][k].waiters = u
        /\ \A r \in Page, m \in Kind : r # p \/ m # k => sema'[r][m] = sema[r][m]
    BY Zenon, <2>3 DEF SemaBecomes
  <2> HIDE DEF w, u
  <2>5. /\ at[h] = Asleep(k) /\ record[target[h]].page = p
        /\ \A i \in 1 .. Len(u) : u[i] # h
        /\ \A i, j \in 1 .. Len(u) : u[i] = u[j] => i = j
    BY SMTT(40), <1>6, <2>1 DEF QueueExact
  <2>6. h # p
    BY <1>4, <2>5
  <2> HIDE DEF h
  <2>7. /\ at' \in [Page -> Label] /\ at'[p] = label /\ at'[h] = Again[Asleep(k)]
        /\ \A r \in Page \ {p, h} : at'[r] = at[r]
    <3>1. Again[Asleep(k)] \in Label
      BY SMTT(40) DEF Again, Asleep, Label, ExecLabel, WaitLabel
    <3>2. at' = [at EXCEPT ![p] = label, ![h] = Again[Asleep(k)]]
      BY <2>1, <2>2, <2>5
    <3>3. QED
      BY <1>2, <2>1, <2>6, <3>1, <3>2
  <2>8. QueuesExact'
    <3> SUFFICES ASSUME NEW r \in Page, NEW m \in Kind
                 PROVE  QueueExact(sema[r][m].waiters, r, m)'
      BY Zenon DEF QueuesExact
    <3>1. CASE r # p \/ m # k
      <4>1. \A s \in {p, h} : at[s] # Asleep(m) \/ record[target[s]].page # r
        <5>1. at[p] # Asleep(m)
          BY <1>3 DEF Asleep
        <5>2. Asleep(m) = Asleep(k) => m = k
          BY DEF Asleep, Kind
        <5>3. QED
          BY <5>1, <5>2, <2>5, <3>1
      <4>2. {p, h} \in SUBSET Page /\ sema'[r][m].waiters = sema[r][m].waiters
        BY <2>1, <2>4, <3>1
      <4>3. QED
        BY Zenon, <1>7, <2>7, <4>1, <4>2, QueueKept
    <3>2. CASE r = p /\ m = k
      <4>1. \A i \in 1 .. Len(u) : at[u[i]] = Asleep(k) /\ record[target[u[i]]].page = p
        BY SMTT(40), <1>6, <2>1 DEF QueueExact
      <4>2. \A i \in 1 .. Len(u) : u[i] \in Page \ {p, h}
        BY <1>4, <2>1, <2>5, <4>1
      <4>3. \A i \in 1 .. Len(u) : at'[u[i]] = Asleep(k) /\ record'[target'[u[i]]].page = p
        BY <1>5, <2>7, <4>1, <4>2
      <4>4. sema'[r][m].waiters = u
        BY SMTT(40), <2>4, <3>2
      <4>5. QED
        BY <2>5, <3>2, <4>3, <4>4 DEF QueueExact, Asleep
    <3>3. QED
      BY <3>1, <3>2
  <2>9. Ups(p, k, label, {h})
    BY <1>3, <1>5, <2>1, <2>4, <2>5, <2>6, <2>7, <2>8 DEF Ups
  <2>10. QED
    BY Zenon, <2>1, <2>9, UpStep
<1>10. QED
  BY <1>8, <1>9
=============================================================================
