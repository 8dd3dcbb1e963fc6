------------------------------- MODULE Strings -------------------------------
(***************************************************************************)
(* lib/string.c on one array of bytes: pointers are indexes, strings end   *)
(* at the first NUL, blocks may overlap where the code allows it.  Loops   *)
(* are recursive operators; the references speak of sequences.  wanted and *)
(* want are history variables: the bytes and the result that the comments  *)
(* of the code promise.                                                    *)
(***************************************************************************)
EXTENDS Integers, Sequences, FiniteSets

CONSTANTS MemSize, Byte    \* addresses 0 .. MemSize - 1; NUL is byte 0

VARIABLES memory, wanted, ret, want,
          save_ptr, text   \* strtok_r(): the saved pointer; what is left to tokenize
stringVars == <<memory, wanted, ret, want, save_ptr, text>>

Addr == 0 .. MemSize - 1
NUL == 0
NULL_PTR == -1

(* Readers: M is the memory.                                               *)
RECURSIVE scan_to(_, _, _)
scan_to(M, p, stop) == IF M[p] \in stop THEN p ELSE scan_to(M, p + 1, stop)
strlen(M, s) == scan_to(M, s, {NUL}) - s

RECURSIVE strnlen_from(_, _, _, _)
strnlen_from(M, s, length, maxlen) ==
  IF length < maxlen /\ M[s + length] # NUL THEN strnlen_from(M, s, length + 1, maxlen) ELSE length
strnlen(M, s, maxlen) == strnlen_from(M, s, 0, maxlen)

strchr(M, s, c) == LET p == scan_to(M, s, {c, NUL}) IN IF M[p] = c THEN p ELSE NULL_PTR

RECURSIVE memchr(_, _, _, _)
memchr(M, b, c, size) ==
  IF size = 0 THEN NULL_PTR ELSE IF M[b] = c THEN b ELSE memchr(M, b + 1, c, size - 1)

RECURSIVE strrchr_from(_, _, _, _)
strrchr_from(M, s, c, p) ==
  IF M[s] = NUL THEN p ELSE strrchr_from(M, s + 1, c, IF M[s] = c THEN s ELSE p)
strrchr(M, s, c) == strrchr_from(M, s, c, NULL_PTR)

RECURSIVE strcspn(_, _, _)
strcspn(M, s, stop) ==
  IF M[s] = NUL \/ strchr(M, stop, M[s]) # NULL_PTR THEN 0 ELSE 1 + strcspn(M, s + 1, stop)

RECURSIVE strspn(_, _, _)
strspn(M, s, skip) ==
  IF M[s] = NUL \/ strchr(M, skip, M[s]) = NULL_PTR THEN 0 ELSE 1 + strspn(M, s + 1, skip)

RECURSIVE strpbrk(_, _, _)
strpbrk(M, s, stop) ==
  IF M[s] = NUL THEN NULL_PTR
  ELSE IF strchr(M, stop, M[s]) # NULL_PTR THEN s ELSE strpbrk(M, s + 1, stop)

order_of(x, y) == IF x > y THEN 1 ELSE IF x < y THEN -1 ELSE 0

RECURSIVE memcmp(_, _, _, _)
memcmp(M, a, b, size) ==
  IF size = 0 THEN 0
  ELSE IF M[a] # M[b] THEN order_of(M[a], M[b]) ELSE memcmp(M, a + 1, b + 1, size - 1)

RECURSIVE strcmp(_, _, _)
strcmp(M, a, b) ==
  IF M[a] # NUL /\ M[a] = M[b] THEN strcmp(M, a + 1, b + 1) ELSE order_of(M[a], M[b])

RECURSIVE strstr_from(_, _, _, _)
strstr_from(M, h, needle, i) ==
  IF i > strlen(M, h) - strlen(M, needle) THEN NULL_PTR
  ELSE IF memcmp(M, h + i, needle, strlen(M, needle)) = 0 THEN h + i
  ELSE strstr_from(M, h, needle, i + 1)
strstr(M, haystack, needle) == strstr_from(M, haystack, needle, 0)

(* Writers: the memory afterwards.                                         *)
RECURSIVE memcpy(_, _, _, _)
memcpy(M, dst, src, size) ==
  IF size = 0 THEN M ELSE memcpy([M EXCEPT ![dst] = M[src]], dst + 1, src + 1, size - 1)

RECURSIVE copy_down(_, _, _, _)
copy_down(M, dst, src, size) ==
  IF size = 0 THEN M
  ELSE copy_down([M EXCEPT ![dst + size - 1] = M[src + size - 1]], dst, src, size - 1)

(* Mutant: memcpy().                                                       *)
move_up(M, dst, src, size) == memcpy(M, dst, src, size)
memmove(M, dst, src, size) ==
  IF dst < src THEN memcpy(M, dst, src, size) ELSE copy_down(M, dst, src, size)

RECURSIVE memset(_, _, _, _)
memset(M, dst, value, size) ==
  IF size = 0 THEN M ELSE memset([M EXCEPT ![dst] = value], dst + 1, value, size - 1)

min_of(a, b) == IF a < b THEN a ELSE b

strlcpy(M, dst, src, size) ==
  LET dst_len == min_of(strlen(M, src), size - 1)
  IN IF size = 0 THEN M ELSE [memcpy(M, dst, src, dst_len) EXCEPT ![dst + dst_len] = NUL]

strlcat(M, dst, src, size) ==
  LET dst_len == strlen(M, dst)
      copy_cnt == min_of(strlen(M, src), size - dst_len - 1)
  IN IF size > 0 /\ dst_len < size
     THEN [memcpy(M, dst + dst_len, src, copy_cnt) EXCEPT ![dst + dst_len + copy_cnt] = NUL]
     ELSE M

(* strtok_r() from S with a set of delimiters: token, saved pointer and    *)
(* memory.                                                                 *)
RECURSIVE skip_in(_, _, _)
skip_in(M, s, delimiters) ==
  IF M[s] \in delimiters THEN skip_in(M, s + 1, delimiters) ELSE s

strtok_r(M, s, delimiters) ==
  LET token == skip_in(M, s, delimiters)
      end == scan_to(M, token, delimiters \cup {NUL})
  IN IF M[token] = NUL THEN [token |-> NULL_PTR, save_ptr |-> token, memory |-> M]
     ELSE IF M[end] # NUL
     THEN [token |-> token, save_ptr |-> end + 1, memory |-> [M EXCEPT ![end] = NUL]]
     ELSE [token |-> token, save_ptr |-> end, memory |-> M]

-----------------------------------------------------------------------------
(* References                                                              *)

IsString(M, p) == \E i \in p .. MemSize - 1 : M[i] = NUL
Str(M, p) ==
  LET n == CHOOSE n \in 0 .. MemSize : /\ M[p + n] = NUL
                                       /\ \A i \in 0 .. n - 1 : M[p + i] # NUL
  IN [i \in 1 .. n |-> M[p + i - 1]]
Chars(s) == {s[i] : i \in DOMAIN s}
With(M, p, s) == [a \in Addr |-> IF a \in p .. p + Len(s) - 1 THEN s[a - p + 1] ELSE M[a]]
Block(M, p, n) == [i \in 1 .. n |-> M[p + i - 1]]
Least(S, otherwise) == IF S = {} THEN otherwise ELSE CHOOSE x \in S : \A y \in S : x <= y
Greatest(S, otherwise) == IF S = {} THEN otherwise ELSE CHOOSE x \in S : \A y \in S : x >= y
Compare(s, t) ==
  LET d == Least({i \in 1 .. min_of(Len(s), Len(t)) : s[i] # t[i]}, 0)
  IN IF d = 0 THEN order_of(Len(s), Len(t)) ELSE order_of(s[d], t[d])
Apart(p, m, q, n) == p + m <= q \/ q + n <= p

(* Where the first token of s starts, and where it ends.                   *)
TokenAt(s, D) == Least({i \in DOMAIN s : s[i] \notin D}, Len(s) + 1)
TokenEnd(s, D) == Least({i \in TokenAt(s, D) .. Len(s) : s[i] \in D}, Len(s) + 1)

-----------------------------------------------------------------------------
result(M, R, r, w) == memory' = M /\ wanted' = R /\ ret' = r /\ want' = w
no_token == save_ptr' = NULL_PTR /\ text' = <<>>

Memset ==
  \E p \in Addr, c \in Byte, n \in 0 .. MemSize :
    /\ p + n <= MemSize /\ no_token
    /\ result(memset(memory, p, c, n), With(memory, p, [i \in 1 .. n |-> c]), 0, 0)

Memmove ==
  \E p, q \in Addr, n \in 0 .. MemSize :
    /\ p + n <= MemSize /\ q + n <= MemSize /\ no_token
    /\ result(memmove(memory, p, q, n), With(memory, p, Block(memory, q, n)), 0, 0)

Memcpy ==
  \E p, q \in Addr, n \in 0 .. MemSize :
    /\ p + n <= MemSize /\ q + n <= MemSize /\ Apart(p, n, q, n) /\ no_token
    /\ result(memcpy(memory, p, q, n), With(memory, p, Block(memory, q, n)), 0, 0)

Strlcpy ==
  \E p, q \in Addr, n \in 0 .. MemSize :
    LET s == Str(memory, q) copied == SubSeq(s, 1, min_of(Len(s), n - 1)) \o <<NUL>>
    IN /\ IsString(memory, q) /\ p + n <= MemSize /\ Apart(p, n, q, Len(s) + 1) /\ no_token
       /\ result(strlcpy(memory, p, q, n), IF n = 0 THEN memory ELSE With(memory, p, copied),
                 strlen(memory, q), Len(s))

Strlcat ==
  \E p, q \in Addr, n \in 0 .. MemSize :
    LET s == Str(memory, q) d == Str(memory, p)
        joined == SubSeq(d \o s, 1, min_of(Len(d) + Len(s), n - 1)) \o <<NUL>>
    IN /\ IsString(memory, q) /\ IsString(memory, p) /\ p + n <= MemSize /\ no_token
       /\ Apart(p, n, q, Len(s) + 1) /\ Apart(p, Len(d) + 1, q, Len(s) + 1)
       /\ result(strlcat(memory, p, q, n),
                 IF Len(d) >= n THEN memory ELSE With(memory, p, joined),
                 strlen(memory, q) + strlen(memory, p), Len(d) + Len(s))

(* A first call of strtok_r() on a string, or one with a null pointer; the *)
(* delimiters may differ from call to call.                                *)
Strtok ==
  \E first \in BOOLEAN, p \in Addr, D \in SUBSET (Byte \ {NUL}) :
    LET s == IF first THEN Str(memory, p) ELSE text
        start == IF first THEN p ELSE save_ptr
        r == strtok_r(memory, start, D)
        i == TokenAt(s, D) j == TokenEnd(s, D)
    IN /\ IF first THEN IsString(memory, p) ELSE save_ptr # NULL_PTR /\ p = 0
       /\ save_ptr' = r.save_ptr /\ text' = SubSeq(s, j + 1, Len(s))
       /\ result(r.memory, IF j <= Len(s) THEN With(memory, start + j - 1, <<NUL>>) ELSE memory,
                 IF r.token = NULL_PTR THEN <<>> ELSE Str(r.memory, r.token), SubSeq(s, i, j - 1))

StringsInit ==
  /\ memory = [a \in Addr |-> NUL] /\ wanted = memory /\ ret = 0 /\ want = 0
  /\ save_ptr = NULL_PTR /\ text = <<>>

StringsNext == Memset \/ Memmove \/ Memcpy \/ Strlcpy \/ Strlcat \/ Strtok

StringsSpec == StringsInit /\ [][StringsNext]_stringVars

(* The comments of string.c, on every memory that the writing functions    *)
(* can produce.  Nothing outside of the destination changes, overlapping   *)
(* blocks move intact, truncated copies are terminated and report the      *)
(* length they wanted, tokens are the maximal runs without a delimiter,    *)
(* in order; and every reading function agrees with its definition on      *)
(* sequences for every pair of strings in memory.                          *)
StringsExact ==
  /\ memory = wanted /\ ret = want
  /\ save_ptr # NULL_PTR => Str(memory, save_ptr) = text
  /\ \A p \in Addr, c \in Byte : LET s == Str(memory, p) IN IsString(memory, p) =>
       /\ strlen(memory, p) = Len(s)
       /\ strchr(memory, p, c) = IF c = NUL THEN p + Len(s)
                                 ELSE Least({p + i - 1 : i \in {k \in DOMAIN s : s[k] = c}}, NULL_PTR)
       /\ strrchr(memory, p, c) = Greatest({p + i - 1 : i \in {k \in DOMAIN s : s[k] = c}}, NULL_PTR)
       /\ \A n \in 0 .. MemSize : strnlen(memory, p, n) = min_of(Len(s), n)
  /\ \A p, q \in Addr : LET s == Str(memory, p) t == Str(memory, q) IN
       IsString(memory, p) /\ IsString(memory, q) =>
       /\ strcspn(memory, p, q) = Least({i - 1 : i \in {k \in DOMAIN s : s[k] \in Chars(t)}}, Len(s))
       /\ strspn(memory, p, q) = Least({i - 1 : i \in {k \in DOMAIN s : s[k] \notin Chars(t)}}, Len(s))
       /\ strpbrk(memory, p, q)
            = Least({p + i - 1 : i \in {k \in DOMAIN s : s[k] \in Chars(t)}}, NULL_PTR)
       /\ strcmp(memory, p, q) = Compare(s, t)
       /\ strstr(memory, p, q)
            = Least({p + i : i \in {k \in 0 .. Len(s) - Len(t) : SubSeq(s, k + 1, k + Len(t)) = t}},
                    NULL_PTR)
  /\ \A p, q \in Addr, n \in 0 .. MemSize : p + n <= MemSize /\ q + n <= MemSize =>
       memcmp(memory, p, q, n) = Compare(Block(memory, p, n), Block(memory, q, n))
  /\ \A p \in Addr, c \in Byte, n \in 0 .. MemSize : p + n <= MemSize =>
       memchr(memory, p, c, n) = Least({a \in p .. p + n - 1 : memory[a] = c}, NULL_PTR)
=============================================================================
