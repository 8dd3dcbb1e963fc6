------------------------------- MODULE Bitmap --------------------------------
(***************************************************************************)
(* The bitmap of lib/kernel/bitmap.c, which is under the page allocator    *)
(* and the free map of the file system: an array of words, each the set of *)
(* its bits that are 1.  Storage comes from malloc() with junk in it, and  *)
(* the bits of the last word that the bitmap does not use keep it.  marked *)
(* and saved are history variables: the bits that should be set in the     *)
(* bitmap and in its file.                                                 *)
(***************************************************************************)
EXTENDS Integers, FiniteSets

CONSTANTS
  bit_cnt,     \* bits
  ELEM_BITS    \* bits of a word

ASSUME BitmapAssumption == bit_cnt \in Nat /\ ELEM_BITS \in Nat \ {0}

VARIABLES bits, file_bits, marked, saved
bitmapVars == <<bits, file_bits, marked, saved>>

Bit == 0 .. bit_cnt - 1
BITMAP_ERROR == -1
elem_idx(i) == i \div ELEM_BITS
bit_mask(i) == {i % ELEM_BITS}
elem_cnt_ == (bit_cnt + ELEM_BITS - 1) \div ELEM_BITS
ElemIdx == 0 .. elem_cnt_ - 1
all_ones == 0 .. ELEM_BITS - 1
last_mask == LET n == bit_cnt % ELEM_BITS IN IF n # 0 THEN 0 .. n - 1 ELSE all_ones

bitmap_mark(b, i) == [b EXCEPT ![elem_idx(i)] = @ \cup bit_mask(i)]
bitmap_reset(b, i) == [b EXCEPT ![elem_idx(i)] = @ \ bit_mask(i)]
bitmap_flip(b, i) == [b EXCEPT ![elem_idx(i)] = (@ \ bit_mask(i)) \cup (bit_mask(i) \ @)]
bitmap_set(b, i, value) == IF value THEN bitmap_mark(b, i) ELSE bitmap_reset(b, i)
bitmap_test(b, i) == b[elem_idx(i)] \cap bit_mask(i) # {}

bitmap_set_multiple(b, start, cnt, value) ==
  LET set[i \in 0 .. cnt] == IF i = 0 THEN b ELSE bitmap_set(set[i - 1], start + i - 1, value)
  IN set[cnt]
bitmap_set_all(b, value) == bitmap_set_multiple(b, 0, bit_cnt, value)

bitmap_count(b, start, cnt, value) ==
  LET count[i \in 0 .. cnt] ==
        IF i = 0 THEN 0
        ELSE count[i - 1] + (IF bitmap_test(b, start + i - 1) = value THEN 1 ELSE 0)
  IN count[cnt]

bitmap_contains(b, start, cnt, value) ==
  \E i \in 0 .. cnt - 1 : bitmap_test(b, start + i) = value
bitmap_any(b, start, cnt) == bitmap_contains(b, start, cnt, TRUE)
bitmap_none(b, start, cnt) == ~bitmap_contains(b, start, cnt, TRUE)
bitmap_all(b, start, cnt) == ~bitmap_contains(b, start, cnt, FALSE)

(* Mutant: the last place where a group fits is never tried.               *)
scan_short(b, start, cnt, value) ==
  LET groups == {i \in start .. bit_cnt - cnt - 1 : ~bitmap_contains(b, i, cnt, ~value)}
  IN IF groups = {} THEN BITMAP_ERROR ELSE CHOOSE i \in groups : \A j \in groups : i <= j
bitmap_scan(b, start, cnt, value) ==
  LET groups == {i \in start .. bit_cnt - cnt : ~bitmap_contains(b, i, cnt, ~value)}
  IN IF groups = {} THEN BITMAP_ERROR ELSE CHOOSE i \in groups : \A j \in groups : i <= j

-----------------------------------------------------------------------------
Group(start, cnt) == start .. start + cnt - 1
(* Callers keep the assertions: start + cnt <= bit_cnt.                    *)
Ranges == {<<s, c>> \in (0 .. bit_cnt) \X (0 .. bit_cnt) : s + c <= bit_cnt}
with(S, G, value) == IF value THEN S \cup G ELSE S \ G

Set(i, value) ==
  /\ bits' = bitmap_set(bits, i, value) /\ marked' = with(marked, {i}, value)
  /\ UNCHANGED <<file_bits, saved>>

Flip(i) ==
  /\ bits' = bitmap_flip(bits, i) /\ marked' = with(marked, {i}, i \notin marked)
  /\ UNCHANGED <<file_bits, saved>>

SetMultiple(start, cnt, value) ==
  /\ bits' = bitmap_set_multiple(bits, start, cnt, value)
  /\ marked' = with(marked, Group(start, cnt), value) /\ UNCHANGED <<file_bits, saved>>

SetAll(value) ==
  /\ bits' = bitmap_set_all(bits, value)
  /\ marked' = with(marked, Bit, value) /\ UNCHANGED <<file_bits, saved>>

bitmap_scan_and_flip(start, cnt, value) ==
  LET idx == bitmap_scan(bits, start, cnt, value)
  IN /\ idx # BITMAP_ERROR
     /\ bits' = bitmap_set_multiple(bits, idx, cnt, ~value)
     /\ marked' = with(marked, Group(idx, cnt), ~value) /\ UNCHANGED <<file_bits, saved>>

(* The words go to the file as they are, and come back with the last one   *)
(* masked.                                                                 *)
bitmap_write == file_bits' = bits /\ saved' = marked /\ UNCHANGED <<bits, marked>>

bitmap_read ==
  /\ bits' = [file_bits EXCEPT ![elem_cnt_ - 1] = @ \cap last_mask]
  /\ marked' = saved /\ UNCHANGED <<file_bits, saved>>

(* bitmap_create() and the first write to the file                         *)
BitmapInit ==
  /\ bits = bitmap_set_all([i \in ElemIdx |-> all_ones], FALSE)
  /\ file_bits = bits /\ marked = {} /\ saved = {}

BitmapNext ==
  \/ \E i \in Bit : (\E v \in BOOLEAN : Set(i, v)) \/ Flip(i)
  \/ \E r \in Ranges, v \in BOOLEAN : SetMultiple(r[1], r[2], v)
  \/ \E v \in BOOLEAN : SetAll(v)
  \/ \E start, cnt \in 0 .. bit_cnt, v \in BOOLEAN : bitmap_scan_and_flip(start, cnt, v)
  \/ bitmap_write \/ bitmap_read

BitmapSpec == BitmapInit /\ [][BitmapNext]_bitmapVars

(* bitmap.c against the set of bits it stands for, in memory and in its    *)
(* file, whatever the unused bits of the last word hold: single bits,      *)
(* counts and the three tests on groups, and bitmap_scan() finds the first *)
(* group, up to the end of the bitmap, or there is none.                   *)
BitmapExact ==
  /\ \A i \in Bit : bitmap_test(bits, i) = (i \in marked) /\ bitmap_test(file_bits, i) = (i \in saved)
  /\ \A r \in Ranges : LET G == Group(r[1], r[2]) IN
       /\ bitmap_count(bits, r[1], r[2], TRUE) = Cardinality(G \cap marked)
       /\ bitmap_count(bits, r[1], r[2], FALSE) = Cardinality(G \ marked)
       /\ bitmap_any(bits, r[1], r[2]) = (G \cap marked # {})
       /\ bitmap_none(bits, r[1], r[2]) = (G \cap marked = {})
       /\ bitmap_all(bits, r[1], r[2]) = (G \subseteq marked)
  /\ \A start, cnt \in 0 .. bit_cnt, v \in BOOLEAN :
       LET found == bitmap_scan(bits, start, cnt, v)
           fits(i) == i + cnt <= bit_cnt /\ \A k \in Group(i, cnt) : (k \in marked) = v
       IN IF found = BITMAP_ERROR THEN \A i \in start .. bit_cnt : ~fits(i)
          ELSE found >= start /\ fits(found) /\ \A i \in start .. found - 1 : ~fits(i)
=============================================================================
