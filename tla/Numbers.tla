------------------------------- MODULE Numbers -------------------------------
(***************************************************************************)
(* lib/arithmetic.c, the division of double words by means of a processor  *)
(* that divides a double word by a word and traps when the quotient does   *)
(* not fit; and lib/stdlib.c, heap sort, binary search and atoi().  Words  *)
(* have W bits (32 in the code).                                           *)
(***************************************************************************)
EXTENDS Integers, Sequences, FiniteSets

CONSTANTS
  HalvedW,        \* W as the powers of 2 that nlz() tries, largest first
  MaxCnt, Item,   \* arrays to sort
  MaxLength, Character \* strings for atoi()

VARIABLES division, array, numeral   \* arguments of the call
numberVars == <<division, array, numeral>>

W == 2 * HalvedW[1]
RADIX == 2 ^ W
Word == 0 .. RADIX - 1
DoubleWord == 0 .. RADIX * RADIX - 1
TRAP == -1

(* The DIVL instruction.                                                   *)
divl(n, d) == IF n \div d < RADIX THEN n \div d ELSE TRAP

(* The step for k: if the k highest bits are zero, count and shift.        *)
nlz_step(s, k) ==
  IF s.x <= 2 ^ (W - k) - 1 THEN [n |-> s.n + k, x |-> s.x * 2 ^ k] ELSE s
nlz(x) ==
  LET step[i \in 0 .. Len(HalvedW)] ==
        IF i = 0 THEN [n |-> 0, x |-> x] ELSE nlz_step(step[i - 1], HalvedW[i])
  IN step[Len(HalvedW)].n

(* Mutant: the estimate is taken for the quotient.                         *)
udiv64_estimate(n, d) ==
  IF d \div RADIX = 0
  THEN LET n1 == n \div RADIX n0 == n % RADIX IN divl(RADIX * (n1 % d) + n0, d) + RADIX * (n1 \div d)
  ELSE LET s == nlz(d \div RADIX)
       IN IF n < d THEN 0 ELSE divl(n \div 2, (d * 2 ^ s) \div RADIX) \div 2 ^ (W - 1 - s)

udiv64(n, d) ==
  IF d \div RADIX = 0
  THEN LET n1 == n \div RADIX n0 == n % RADIX IN divl(RADIX * (n1 % d) + n0, d) + RADIX * (n1 \div d)
  ELSE LET s == nlz(d \div RADIX)
           q == divl(n \div 2, (d * 2 ^ s) \div RADIX) \div 2 ^ (W - 1 - s)
       IN IF n < d THEN 0 ELSE IF (n - (q - 1) * d) % (RADIX * RADIX) < d THEN q - 1 ELSE q

(* Whether a DIVL of udiv64() traps.                                       *)
traps(n, d) ==
  IF d \div RADIX = 0 THEN divl(RADIX * ((n \div RADIX) % d) + (n % RADIX), d) = TRAP
  ELSE n >= d /\ divl(n \div 2, (d * 2 ^ nlz(d \div RADIX)) \div RADIX) = TRAP

(* The result has 32 bits.                                                 *)
umod64(n, d) == (n - d * udiv64(n, d)) % RADIX

(* Signed double words and words are in two's complement.                  *)
Signed(n, range) == IF n >= range \div 2 THEN n - range ELSE n
absolute(n) == (IF n >= 0 THEN n ELSE -n) % (RADIX * RADIX)
sdiv64(n, d) ==
  LET q_abs == udiv64(absolute(n), absolute(d))
  IN Signed((IF (n < 0) = (d < 0) THEN q_abs ELSE -q_abs) % (RADIX * RADIX), RADIX * RADIX)
smod64(n, d) == Signed((n - d * sdiv64(n, d)) % RADIX, RADIX)

-----------------------------------------------------------------------------
(* sort() and binary_search()                                              *)

do_swap(a, i, j) == [a EXCEPT ![i] = a[j], ![j] = a[i]]

RECURSIVE heapify(_, _, _)
heapify(a, i, cnt) ==
  LET left == 2 * i right == 2 * i + 1
      larger == IF left <= cnt /\ a[left] > a[i] THEN left ELSE i
      max == IF right <= cnt /\ a[right] > a[larger] THEN right ELSE larger
  IN IF max = i THEN a ELSE heapify(do_swap(a, i, max), max, cnt)

RECURSIVE build_heap(_, _)
build_heap(a, i) == IF i = 0 THEN a ELSE build_heap(heapify(a, i, Len(a)), i - 1)

RECURSIVE sort_heap(_, _)
sort_heap(a, i) == IF i <= 1 THEN a ELSE sort_heap(heapify(do_swap(a, 1, i), 1, i - 1), i - 1)

sort(a) == sort_heap(build_heap(a, Len(a) \div 2), Len(a))

(* Indexes from 0: the place of KEY in a, or -1.                           *)
RECURSIVE search_between(_, _, _, _)
search_between(a, key_, first, last) ==
  LET middle == first + (last - first) \div 2
  IN IF first >= last THEN -1
     ELSE IF key_ < a[middle + 1] THEN search_between(a, key_, first, middle)
     ELSE IF key_ > a[middle + 1] THEN search_between(a, key_, middle + 1, last)
     ELSE middle
binary_search(a, key_) == search_between(a, key_, 0, Len(a))

(* Characters: the digits are their values.                                *)
SPACE == 10
PLUS == 11
MINUS == 12
isdigit(c) == c \in 0 .. 9

(* The value is built as a negative number: that range is the larger one.  *)
RECURSIVE digits_from(_, _, _)
digits_from(s, i, value) ==
  IF i <= Len(s) /\ isdigit(s[i])
  THEN digits_from(s, i + 1, Signed((value * 10 - s[i]) % RADIX, RADIX)) ELSE value

RECURSIVE skip_spaces(_, _)
skip_spaces(s, i) == IF i <= Len(s) /\ s[i] = SPACE THEN skip_spaces(s, i + 1) ELSE i

atoi(s) ==
  LET i == skip_spaces(s, 1)
      sign == IF i <= Len(s) /\ s[i] \in {PLUS, MINUS} THEN s[i] ELSE SPACE
      value == digits_from(s, IF sign = SPACE THEN i ELSE i + 1, 0)
  IN IF sign = MINUS THEN value ELSE Signed((-value) % RADIX, RADIX)

-----------------------------------------------------------------------------
(* Calls: division of two double words, sort() or binary_search() of an    *)
(* array, atoi() of a numeral.                                             *)

NoDivision == <<0, 1>>
NumbersInit == division = NoDivision /\ array = <<>> /\ numeral = <<>>

Divide ==
  /\ \E n \in DoubleWord, d \in DoubleWord \ {0} : division' = <<n, d>>
  /\ array' = <<>> /\ numeral' = <<>>
Sort_ ==
  /\ \E cnt \in 0 .. MaxCnt : \E a \in [1 .. cnt -> Item] : array' = a
  /\ division' = NoDivision /\ numeral' = <<>>
Convert ==
  /\ \E len \in 0 .. MaxLength : \E s \in [1 .. len -> Character] : numeral' = s
  /\ division' = NoDivision /\ array' = <<>>
Return == division' = NoDivision /\ array' = <<>> /\ numeral' = <<>>

NumbersNext == (NumbersInit /\ (Divide \/ Sort_ \/ Convert)) \/ (~NumbersInit /\ Return)

NumbersSpec == NumbersInit /\ [][NumbersNext]_numberVars

-----------------------------------------------------------------------------
(* Quotient and remainder of C: towards zero, with the dividend's sign.    *)
Quotient(n, d) ==
  LET q == absolute(n) \div absolute(d) IN IF (n < 0) = (d < 0) THEN q ELSE -q
Remainder(n, d) == n - d * Quotient(n, d)
(* atoi() for a numeral whose value an int can hold.                       *)
Value(s, i, j) ==
  LET v[k \in i - 1 .. j] == IF k = i - 1 THEN 0 ELSE 10 * v[k - 1] + s[k] IN v[j]
Numeral(s, i, j) ==
  /\ i <= j /\ \A k \in i .. j : isdigit(s[k])
  /\ j = Len(s) \/ ~isdigit(s[j + 1])

(* arithmetic.c and stdlib.c.  Quotients are exact, DIVL never traps, and  *)
(* remainders are exact when they fit in a word (the code returns one);    *)
(* only the quotient that overflows wraps.  sort() orders and permutes,    *)
(* binary_search() finds a key if and only if it is there.  atoi() is      *)
(* exact over the whole range of an int.                                   *)
NumbersExact ==
  /\ LET n == division[1] d == division[2]
         sn == Signed(n, RADIX * RADIX) sd == Signed(d, RADIX * RADIX)
     IN /\ ~traps(n, d) /\ udiv64(n, d) = n \div d
        /\ n % d < RADIX => umod64(n, d) = n % d
        /\ sdiv64(sn, sd) = Signed(Quotient(sn, sd) % (RADIX * RADIX), RADIX * RADIX)
        /\ Remainder(sn, sd) \in -(RADIX \div 2) .. RADIX \div 2 - 1 => smod64(sn, sd) = Remainder(sn, sd)
  /\ LET s == sort(array) IN
       /\ \A i \in 1 .. Len(array) - 1 : s[i] <= s[i + 1]
       /\ \A x \in Item : Cardinality({i \in DOMAIN s : s[i] = x})
                            = Cardinality({i \in DOMAIN array : array[i] = x})
       /\ \A x \in Item : LET at == binary_search(s, x)
                          IN IF at = -1 THEN \A i \in DOMAIN s : s[i] # x ELSE s[at + 1] = x
  /\ \A i, j \in 1 .. Len(numeral) :
       LET negative == i > 1 /\ numeral[i - 1] = MINUS
           signed == negative \/ (i > 1 /\ numeral[i - 1] = PLUS)
           value == IF negative THEN -Value(numeral, i, j) ELSE Value(numeral, i, j)
       IN /\ Numeral(numeral, i, j) /\ value \in -(RADIX \div 2) .. RADIX \div 2 - 1
          /\ \A k \in 1 .. i - (IF signed THEN 2 ELSE 1) : numeral[k] = SPACE
          => atoi(numeral) = value
=============================================================================
