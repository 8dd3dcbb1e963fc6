-------------------------------- MODULE Hash ---------------------------------
(***************************************************************************)
(* The hash table of lib/kernel/hash.c: buckets of elements, as many as    *)
(* suit the number of elements, and an iterator.  A bucket is the sequence *)
(* its list spells (see List).  table is a history variable: the elements  *)
(* that should be there.                                                   *)
(***************************************************************************)
EXTENDS Integers, Sequences, FiniteSets, SequencesExt

CONSTANTS
  HashElem,             \* hash elements
  key,                  \* what LESS compares, for each element
  hash,                 \* the hash value, for each element
  MIN_BUCKETS,          \* 4 in the code
  BEST_ELEMS_PER_BUCKET \* 2 in the code

ASSUME HashAssumption ==
  \A a, b \in HashElem : key[a] = key[b] => hash[a] = hash[b]

VARIABLES buckets, elem_cnt, iterator, table, seen
hashVars == <<buckets, elem_cnt, iterator, table, seen>>

bucket_cnt == Len(buckets)
NoElem == "null"
NoIterator == [bucket |-> 0, elem |-> 0]

(* & (bucket_cnt - 1), for a power of 2                                    *)
find_bucket(bs, e) == (hash[e] % Len(bs)) + 1

find_elem(b, e) ==
  LET same == {i \in DOMAIN b : key[b[i]] = key[e]}
  IN IF same = {} THEN NoElem ELSE b[CHOOSE i \in same : \A j \in same : i <= j]

hash_find(e) == find_elem(buckets[find_bucket(buckets, e)], e)

insert_elem(bs, e) == [bs EXCEPT ![find_bucket(bs, e)] = <<e>> \o @]
remove_elem(bs, e) == [bs EXCEPT ![find_bucket(bs, e)] = SelectSeq(@, LAMBDA x : x # e)]

(* The largest power of 2 that is at most n: the least bits are turned off *)
(* until one is left.                                                      *)
power_of_2(n) == CHOOSE p \in {2 ^ i : i \in 0 .. n} : p <= n /\ n < 2 * p

wanted_buckets(n) ==
  LET best == n \div BEST_ELEMS_PER_BUCKET
  IN power_of_2(IF best < MIN_BUCKETS THEN MIN_BUCKETS ELSE best)

(* Mutant: as many old buckets are emptied as there are new ones.          *)
moved_first(bs, n) ==
  FoldLeft(LAMBDA new, e : insert_elem(new, e), [i \in 1 .. n |-> <<>>],
           FlattenSeq(SubSeq(bs, 1, IF n < Len(bs) THEN n ELSE Len(bs))))

(* Elements move from the old buckets, in order, to the front of the new.  *)
moved(bs, n) ==
  FoldLeft(LAMBDA new, e : insert_elem(new, e), [i \in 1 .. n |-> <<>>], FlattenSeq(bs))

(* rehash() after an update has left the buckets bs and n elements: it may *)
(* find no memory, and leaves the table as it is.                          *)
rehash(bs, n) ==
  /\ elem_cnt' = n
  /\ \/ buckets' = bs
     \/ Len(bs) # wanted_buckets(n) /\ buckets' = moved(bs, wanted_buckets(n))

(* An update invalidates the iterators.                                    *)
invalidate == iterator' = NoIterator /\ seen' = <<>>

hash_insert(e) ==
  LET old == hash_find(e)
  IN /\ e \notin table
     /\ IF old = NoElem THEN rehash(insert_elem(buckets, e), elem_cnt + 1)
        ELSE rehash(buckets, elem_cnt)
     /\ table' = IF \E x \in table : key[x] = key[e] THEN table ELSE table \cup {e}
     /\ invalidate

hash_replace(e) ==
  LET old == hash_find(e)
  IN /\ e \notin table
     /\ IF old = NoElem THEN rehash(insert_elem(buckets, e), elem_cnt + 1)
        ELSE rehash(insert_elem(remove_elem(buckets, old), e), elem_cnt)
     /\ table' = {x \in table : key[x] # key[e]} \cup {e}
     /\ invalidate

hash_delete(e) ==
  LET found == hash_find(e)
  IN /\ IF found = NoElem THEN UNCHANGED <<buckets, elem_cnt>>
        ELSE rehash(remove_elem(buckets, found), elem_cnt - 1)
     /\ table' = {x \in table : key[x] # key[e]}
     /\ invalidate

(* The number of buckets stays.                                            *)
hash_clear ==
  /\ buckets' = [i \in DOMAIN buckets |-> <<>>] /\ elem_cnt' = 0 /\ table' = {} /\ invalidate

hash_first ==
  /\ iterator' = [bucket |-> 1, elem |-> 0] /\ seen' = <<>> /\ UNCHANGED <<buckets, elem_cnt, table>>

(* The place after the one in I, or the front of the next bucket that is   *)
(* not empty, or the end.                                                  *)
next_place(i) ==
  LET later == {b \in i.bucket + 1 .. bucket_cnt : buckets[b] # <<>>}
  IN IF i.elem < Len(buckets[i.bucket]) THEN [i EXCEPT !.elem = @ + 1]
     ELSE IF later = {} THEN [bucket |-> bucket_cnt + 1, elem |-> 0]
     ELSE [bucket |-> CHOOSE b \in later : \A c \in later : b <= c, elem |-> 1]

hash_cur == buckets[iterator.bucket][iterator.elem]

hash_next ==
  LET i == next_place(iterator)
  IN /\ iterator.bucket \in DOMAIN buckets /\ iterator' = i
     /\ seen' = IF i.bucket \in DOMAIN buckets THEN Append(seen, buckets[i.bucket][i.elem]) ELSE seen
     /\ UNCHANGED <<buckets, elem_cnt, table>>

HashInit ==
  /\ buckets = [i \in 1 .. MIN_BUCKETS |-> <<>>] /\ elem_cnt = 0
  /\ iterator = NoIterator /\ table = {} /\ seen = <<>>

HashNext ==
  \/ \E e \in HashElem : hash_insert(e) \/ hash_replace(e) \/ hash_delete(e)
  \/ hash_clear \/ hash_first \/ hash_next

HashSpec == HashInit /\ [][HashNext]_hashVars

(* The table of hash.c finds what was put into it, under every sequence of *)
(* updates and resizings, also when a resizing finds no memory: every      *)
(* element is in its bucket, once; a search gives the element with that    *)
(* key or none; and an iteration that comes to its end has seen every      *)
(* element exactly once.                                                   *)
HashExact ==
  /\ ToSet(FlattenSeq(buckets)) = table /\ Len(FlattenSeq(buckets)) = Cardinality(table)
  /\ elem_cnt = Cardinality(table)
  /\ \A e \in HashElem : LET same == {x \in table : key[x] = key[e]}
                         IN hash_find(e) = IF same = {} THEN NoElem ELSE CHOOSE x \in same : TRUE
  /\ IsInjective(seen) /\ ToSet(seen) \subseteq table
  /\ iterator.bucket > bucket_cnt => ToSet(seen) = table
=============================================================================
