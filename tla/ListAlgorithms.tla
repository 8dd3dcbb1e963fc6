--------------------------- MODULE ListAlgorithms ----------------------------
(***************************************************************************)
(* The algorithms of lib/kernel/list.c: reversal, the natural merge sort,  *)
(* ordered insertion, removal of duplicates, extremes.  Loops are          *)
(* recursive operators on the heap; reference definitions are on           *)
(* sequences.                                                              *)
(***************************************************************************)
EXTENDS List

RECURSIVE reverse_from(_, _, _)
reverse_from(h, l, e) ==
  IF e = list_end(l) THEN h
  ELSE LET s == set_next(set_prev(h, e, h.next[e]), e, h.prev[e])
       IN reverse_from(s, l, s.prev[e])

list_reverse(h, l) ==
  IF list_empty(h, l) THEN h
  ELSE LET h1 == reverse_from(h, l, list_begin(h, l))
           h2 == set_prev(set_next(h1, Head_(l), h1.prev[Tail_(l)]), Tail_(l), h1.next[Head_(l)])
           front == h2.next[Head_(l)] back == h2.prev[Tail_(l)]
       IN set_next(set_prev(h2, front, h2.next[back]), back, h2.prev[front])

RECURSIVE is_sorted(_, _, _)
is_sorted(h, a, b) ==
  \/ a = b \/ list_next(h, a) = b
  \/ ~less(list_next(h, a), a) /\ is_sorted(h, list_next(h, a), b)

RECURSIVE find_end_of_run(_, _, _)
find_end_of_run(h, a, b) ==
  LET n == list_next(h, a)
  IN IF n # b /\ ~less(n, list_prev(h, n)) THEN find_end_of_run(h, n, b) ELSE n

RECURSIVE inplace_merge(_, _, _, _)
inplace_merge(h, a0, a1b0, b1) ==
  IF a0 = a1b0 \/ a1b0 = b1 THEN h
  ELSE IF ~less(a1b0, a0) THEN inplace_merge(h, list_next(h, a0), a1b0, b1)
  ELSE LET n == list_next(h, a1b0)
       IN inplace_merge(list_splice(h, a0, list_prev(h, n), n), a0, n, b1)

(* One pass of list_sort() from a0 on: the heap and the runs it left.      *)
RECURSIVE merge_pass(_, _, _, _)
merge_pass(h, l, a0, output_run_cnt) ==
  LET a1b0 == find_end_of_run(h, a0, list_end(l))
      b1 == find_end_of_run(h, a1b0, list_end(l))
  IN IF a0 = list_end(l) THEN [heap |-> h, runs |-> output_run_cnt]
     ELSE IF a1b0 = list_end(l) THEN [heap |-> h, runs |-> output_run_cnt + 1]
     ELSE merge_pass(inplace_merge(h, a0, a1b0, b1), l, b1, output_run_cnt + 1)

RECURSIVE list_sort(_, _)
list_sort(h, l) ==
  LET pass == merge_pass(h, l, list_begin(h, l), 0)
  IN IF pass.runs > 1 THEN list_sort(pass.heap, l) ELSE pass.heap

RECURSIVE ordered_place(_, _, _, _)
ordered_place(h, l, e, new) ==
  IF e = list_end(l) \/ less(new, e) THEN e ELSE ordered_place(h, l, list_next(h, e), new)

list_insert_ordered(h, l, new) ==
  list_insert(h, ordered_place(h, l, list_begin(h, l), new), new)

RECURSIVE unique_from(_, _, _, _)
unique_from(h, l, duplicates, e) ==
  LET n == list_next(h, e)
  IN IF n = list_end(l) THEN h
     ELSE IF ~less(e, n) /\ ~less(n, e)
          THEN unique_from(list_push_back(list_remove(h, n), duplicates, n), l, duplicates, e)
          ELSE unique_from(h, l, duplicates, n)

list_unique(h, l, duplicates) ==
  IF list_empty(h, l) THEN h ELSE unique_from(h, l, duplicates, list_begin(h, l))

(* list_max() with UP, list_min() without                                  *)
RECURSIVE extreme_from(_, _, _, _, _)
extreme_from(h, l, e, best, up) ==
  IF e = list_end(l) THEN best
  ELSE extreme_from(h, l, list_next(h, e),
         IF (up /\ less(best, e)) \/ (~up /\ less(e, best)) THEN e ELSE best, up)

list_extreme(h, l, up) ==
  LET e == list_begin(h, l)
  IN IF e = list_end(l) THEN e ELSE extreme_from(h, l, list_next(h, e), e, up)

RECURSIVE size_from(_, _, _)
size_from(h, l, e) == IF e = list_end(l) THEN 0 ELSE 1 + size_from(h, l, list_next(h, e))

list_size(h, l) == size_from(h, l, list_begin(h, l))

-----------------------------------------------------------------------------
(* References on sequences                                                 *)

(* The stable sort: by key, and by place among equal keys.                 *)
Sorted(s) ==
  LET before(i, j) == Key[s[i]] < Key[s[j]] \/ (Key[s[i]] = Key[s[j]] /\ i < j)
      order == SetToSortSeq(1 .. Len(s), before)
  IN [n \in 1 .. Len(s) |-> s[order[n]]]
InOrder(s) == \A i, j \in 1 .. Len(s) : i < j => Key[s[i]] <= Key[s[j]]
(* Places of elements equal to the one before them.                        *)
Repeated(s) == {i \in 2 .. Len(s) : Key[s[i]] = Key[s[i - 1]]}
At_(s, I) == LET order == SetToSortSeq(I, <) IN [n \in 1 .. Cardinality(I) |-> s[order[n]]]

Reverse_(l) ==
  /\ heap' = list_reverse(heap, l) /\ contents' = [contents EXCEPT ![l] = Reverse(@)]

Sort(l) ==
  /\ heap' = list_sort(heap, l) /\ contents' = [contents EXCEPT ![l] = Sorted(@)]

InsertOrdered(l) ==
  /\ InOrder(contents[l])
  /\ \E e \in Loose :
       LET i == Cardinality({k \in 1 .. Len(contents[l]) : Key[contents[l][k]] <= Key[e]}) + 1
       IN heap' = list_insert_ordered(heap, l, e) /\ contents' = [contents EXCEPT ![l] = put(@, i, e)]

Unique(l, m) ==
  LET s == contents[l] again == Repeated(s)
  IN /\ l # m /\ heap' = list_unique(heap, l, m)
     /\ contents' = [[contents EXCEPT ![l] = At_(s, DOMAIN s \ again)]
                               EXCEPT ![m] = @ \o At_(s, again)]

ListsNext ==
  \E l, m \in Lists :
    \/ Insert(l) \/ PushFront(l) \/ PushBack(l) \/ Unlink(l) \/ Splice(l, m)
    \/ Reverse_(l) \/ Sort(l) \/ InsertOrdered(l) \/ Unique(l, m)

ListsSpec == ListsInit /\ [][ListsNext]_listVars

(* What the comments of list.c promise, after any sequence of calls on     *)
(* lists that exchange elements: the pointers spell the sequence the       *)
(* callers expect (the sort is stable, duplicates go in order to the end   *)
(* of the other list), is_sorted() and list_size() agree with it, and the  *)
(* first of equal elements is the extreme one.                             *)
ListsExact ==
  \A l \in Lists :
    LET s == contents[l] b == list_begin(heap, l)
        first(best(_)) == s[CHOOSE i \in DOMAIN s : /\ best(i)
                                                 /\ \A k \in 1 .. i - 1 : ~best(k)]
        greatest(i) == \A k \in DOMAIN s : Key[s[k]] <= Key[s[i]]
        least(i) == \A k \in DOMAIN s : Key[s[i]] <= Key[s[k]]
    IN /\ Linked(l)
       /\ list_size(heap, l) = Len(s) /\ is_sorted(heap, b, list_end(l)) = InOrder(s)
       /\ list_extreme(heap, l, TRUE) = IF s = <<>> THEN list_end(l) ELSE first(greatest)
       /\ list_extreme(heap, l, FALSE) = IF s = <<>> THEN list_end(l) ELSE first(least)
=============================================================================
