-------------------------------- MODULE List ---------------------------------
(***************************************************************************)
(* Doubly linked lists (lib/kernel/list.c): a header before and one after  *)
(* the elements, and operations that only move pointers.  All lists share  *)
(* the heap, as a list_elem knows nothing of its list.  contents is a      *)
(* history variable: the sequence each list should be.                     *)
(***************************************************************************)
EXTENDS Integers, Sequences, FiniteSets, SequencesExt

CONSTANTS
  Elem,       \* list elements
  Lists,      \* lists
  Key,        \* the value by which LESS compares each element
  MaxLoose    \* bound: elements outside of all lists

VARIABLES heap, contents
listVars == <<heap, contents>>

Head_(l) == <<"head", l>>
Tail_(l) == <<"tail", l>>
Node == Elem \cup {Head_(l) : l \in Lists} \cup {Tail_(l) : l \in Lists}
None == <<"null">>

less(a, b) == Key[a] < Key[b]

list_next(h, e) == h.next[e]
list_prev(h, e) == h.prev[e]
list_begin(h, l) == h.next[Head_(l)]
list_end(l) == Tail_(l)
list_front(h, l) == h.next[Head_(l)]
list_back(h, l) == h.prev[Tail_(l)]
list_empty(h, l) == list_begin(h, l) = list_end(l)
is_tail(h, e) == h.prev[e] # None /\ h.next[e] = None
is_interior(h, e) == h.prev[e] # None /\ h.next[e] # None

set_next(h, a, b) == [h EXCEPT !.next[a] = b]
set_prev(h, a, b) == [h EXCEPT !.prev[a] = b]

(* list_init() of every list                                               *)
empty_heap ==
  [next |-> [n \in Node |-> IF \E l \in Lists : n = Head_(l)
                            THEN Tail_(CHOOSE l \in Lists : n = Head_(l)) ELSE None],
   prev |-> [n \in Node |-> IF \E l \in Lists : n = Tail_(l)
                            THEN Head_(CHOOSE l \in Lists : n = Tail_(l)) ELSE None]]

(* Assignments in the order of the code: later ones read what earlier ones *)
(* wrote.                                                                  *)
list_insert(h, before, e) ==
  LET h1 == set_prev(h, e, h.prev[before])
      h2 == set_next(h1, e, before)
      h3 == set_next(h2, h2.prev[before], e)
  IN set_prev(h3, before, e)

list_push_front(h, l, e) == list_insert(h, list_begin(h, l), e)
list_push_back(h, l, e) == list_insert(h, list_end(l), e)

list_remove(h, e) ==
  LET h1 == set_next(h, h.prev[e], h.next[e])
  IN set_prev(h1, h1.next[e], h1.prev[e])

(* Mutant: the elements are linked in, and not out of their old place.     *)
splice_in(h, before, first, last) ==
  IF first = last THEN h
  ELSE LET end == list_prev(h, last)
           h1 == set_next(set_prev(h, first, h.prev[before]), end, before)
       IN set_prev(set_next(h1, h1.prev[before], first), before, end)

(* FIRST up to LAST, exclusive, go to just before BEFORE.                  *)
list_splice(h, before, first, last) ==
  IF first = last THEN h
  ELSE LET end == list_prev(h, last)
           h1 == set_next(h, h.prev[first], h.next[end])
           h2 == set_prev(h1, h1.next[end], h1.prev[first])
           h3 == set_prev(h2, first, h2.prev[before])
           h4 == set_next(h3, end, before)
           h5 == set_next(h4, h4.prev[before], first)
       IN set_prev(h5, before, end)

-----------------------------------------------------------------------------
(* Operations.  Callers give elements that are in no list to the functions *)
(* that insert, and parts of one list to list_splice().                    *)

Loose == {e \in Elem : \A l \in Lists : ~Contains(contents[l], e)}
put(s, i, e) == InsertAt(s, i, e)
without(s, e) == SelectSeq(s, LAMBDA x : x # e)
(* The node that is at place i of list l, or its tail.                     *)
node_at(l, i) == IF i <= Len(contents[l]) THEN contents[l][i] ELSE Tail_(l)

Insert(l) ==
  \E e \in Loose, i \in 1 .. Len(contents[l]) + 1 :
    /\ heap' = list_insert(heap, node_at(l, i), e)
    /\ contents' = [contents EXCEPT ![l] = put(@, i, e)]

PushFront(l) ==
  \E e \in Loose :
    /\ heap' = list_push_front(heap, l, e)
    /\ contents' = [contents EXCEPT ![l] = <<e>> \o @]

PushBack(l) ==
  \E e \in Loose :
    /\ heap' = list_push_back(heap, l, e)
    /\ contents' = [contents EXCEPT ![l] = Append(@, e)]

(* list_remove(), list_pop_front(), list_pop_back()                        *)
Unlink(l) ==
  /\ Cardinality(Loose) < MaxLoose
  /\ \E i \in 1 .. Len(contents[l]) :
       LET e == IF i = 1 THEN list_front(heap, l)
                ELSE IF i = Len(contents[l]) THEN list_back(heap, l) ELSE contents[l][i]
       IN heap' = list_remove(heap, e) /\ contents' = [contents EXCEPT ![l] = RemoveAt(@, i)]

(* Elements i to j - 1 of list l go before place k of list m, which is not *)
(* inside the part that moves.                                             *)
Splice(l, m) ==
  \E i, j \in 1 .. Len(contents[l]) + 1, k \in 1 .. Len(contents[m]) + 1 :
    LET s == contents[l] part == SubSeq(s, i, j - 1)
        rest == SubSeq(s, 1, i - 1) \o SubSeq(s, j, Len(s))
        at == IF l # m \/ k < i THEN k ELSE k - (j - i)
        into == IF l = m THEN rest ELSE contents[m]
    IN /\ i <= j /\ (l = m => k < i \/ k >= j)
       /\ heap' = list_splice(heap, node_at(m, k), node_at(l, i), node_at(l, j))
       /\ contents' = [[contents EXCEPT ![l] = rest] EXCEPT ![m] =
                         SubSeq(into, 1, at - 1) \o part \o SubSeq(into, at, Len(into))]

(* Every element in the first list, in order.                              *)
ListsInit ==
  LET all == SetToSeq(Elem) l == CHOOSE x \in Lists : TRUE
  IN /\ contents = [x \in Lists |-> IF x = l THEN all ELSE <<>>]
     /\ heap = FoldLeft(LAMBDA h, e : list_push_back(h, l, e), empty_heap, all)

-----------------------------------------------------------------------------
(* Pointers and sequences agree: following next from the header gives the  *)
(* elements the callers put there, in order, and prev is its inverse.      *)
Linked(l) ==
  LET path == <<Head_(l)>> \o contents[l] \o <<Tail_(l)>>
  IN /\ \A i \in 1 .. Len(path) - 1 :
          heap.next[path[i]] = path[i + 1] /\ heap.prev[path[i + 1]] = path[i]
     /\ heap.prev[Head_(l)] = None /\ heap.next[Tail_(l)] = None
=============================================================================
