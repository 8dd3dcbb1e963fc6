------------------------------- MODULE Printf --------------------------------
(***************************************************************************)
(* lib/stdio.c: parsing of conversions, conversion of integers through a   *)
(* buffer of fixed size, and output into a buffer that may be too small.   *)
(* A format is a sequence of characters, an argument an integer, or for %s *)
(* a sequence of characters.  Integers have IntBits bits, or CharBits with *)
(* hh.                                                                     *)
(***************************************************************************)
EXTENDS Integers, Sequences, FiniteSets, SequencesExt

CONSTANTS
  CharBits, IntBits,
  BufLength,         \* sizeof buf in format_integer(): 64 in the code
  FlagSets, Numbers_, Ends,   \* flags; widths and precisions; conversions to try
  Value_, Text,      \* arguments
  MaxBuf             \* buffers for vsnprintf() have at most this size

VARIABLES conversion, buf_size   \* one conversion, to be printed into a buffer of this size
printfVars == <<conversion, buf_size>>

DigitChars == <<"0", "1", "2", "3", "4", "5", "6", "7", "8", "9", "a", "b", "c", "d", "e", "f">>
UpperChars == <<"0", "1", "2", "3", "4", "5", "6", "7", "8", "9", "A", "B", "C", "D", "E", "F">>
digit(ch) == (CHOOSE i \in 1 .. 10 : DigitChars[i] = ch) - 1
is_digit(ch) == \E i \in 1 .. 10 : DigitChars[i] = ch

base_d == [base |-> 10, digits |-> DigitChars, x |-> "", group |-> 3]
base_o == [base |-> 8, digits |-> DigitChars, x |-> "", group |-> 3]
base_x == [base |-> 16, digits |-> DigitChars, x |-> "x", group |-> 4]
base_X == [base |-> 16, digits |-> UpperChars, x |-> "X", group |-> 4]

NUL_CH == "\\0"
char_at(f, i) == IF i <= Len(f) THEN f[i] ELSE NUL_CH
ENDS == {"d", "i", "o", "u", "x", "X", "c", "s", "p"}

-----------------------------------------------------------------------------
(* parse_conversion() *)

RECURSIVE parse_flags(_, _, _)
parse_flags(f, i, flags) ==
  IF char_at(f, i) \in {"-", "+", " ", "#", "0", "'"}
  THEN parse_flags(f, i + 1, flags \cup {f[i]})
  ELSE [at |-> i, flags |-> (flags \ (IF "-" \in flags THEN {"0"} ELSE {}))
                                   \ (IF "+" \in flags THEN {" "} ELSE {})]

RECURSIVE parse_number(_, _, _)
parse_number(f, i, v) ==
  IF is_digit(char_at(f, i)) THEN parse_number(f, i + 1, v * 10 + digit(f[i]))
  ELSE [at |-> i, value |-> v]

(* A number, or "*" and the first argument: what it is, where it ends, and *)
(* the arguments left.                                                     *)
star_or_number(f, i, as) ==
  IF char_at(f, i) = "*" THEN [at |-> i + 1, value |-> Head(as), args |-> Tail(as)]
  ELSE LET n == parse_number(f, i, 0) IN [at |-> n.at, value |-> n.value, args |-> as]

(* Flags, width, precision and what follows them: the type.                *)
parse_type(f, flags, w, p) ==
  LET hh == char_at(f, p.at) = "h" /\ char_at(f, p.at + 1) = "h"
  IN [flags |-> (flags \cup (IF w.value < 0 THEN {"-"} ELSE {}))
                       \ (IF p.value >= 0 THEN {"0"} ELSE {}),
      width |-> IF w.value < 0 THEN -w.value ELSE w.value,
      precision |-> IF p.value < 0 THEN -1 ELSE p.value,
      type |-> IF hh THEN "CHAR" ELSE "INT",
      at |-> IF hh THEN p.at + 2 ELSE p.at, args |-> p.args]
parse_precision(f, flags, w) ==
  parse_type(f, flags, w, IF char_at(f, w.at) = "." THEN star_or_number(f, w.at + 1, w.args)
                          ELSE [at |-> w.at, value |-> -1, args |-> w.args])
parse_width(f, fl, as) == parse_precision(f, fl.flags, star_or_number(f, fl.at, as))
parse_conversion(f, i, as) == parse_width(f, parse_flags(f, i, {}), as)

-----------------------------------------------------------------------------
(* Conversions *)

output_dup(ch, cnt) == [i \in 1 .. cnt |-> ch]

(* The digits, last one first, with commas.                                *)
RECURSIVE digits_of(_, _, _, _)
digits_of(value, bs, group, buf) ==
  LET digit_cnt == Cardinality({i \in DOMAIN buf : buf[i] # ","})
      comma == IF group /\ digit_cnt > 0 /\ digit_cnt % bs.group = 0 THEN <<",">> ELSE <<>>
  IN IF value = 0 THEN buf
     ELSE digits_of(value \div bs.base, bs, group,
                    buf \o comma \o <<bs.digits[(value % bs.base) + 1]>>)

(* Mutant: the buffer's end is not looked at.                              *)
zeros_unbounded(buf, precision) == output_dup("0", IF Len(buf) < precision THEN precision - Len(buf) ELSE 0)
(* Zeros up to the precision, or to the end of the buffer but one.         *)
zeros(buf, precision) ==
  LET upto == IF precision < BufLength - 1 THEN precision ELSE BufLength - 1
  IN output_dup("0", IF Len(buf) < upto THEN upto - Len(buf) ELSE 0)

integer_buf(value, bs, c) ==
  LET d == digits_of(value, bs, "'" \in c.flags, <<>>)
      z == d \o zeros(d, IF c.precision < 0 THEN 1 ELSE c.precision)
  IN IF "#" \in c.flags /\ bs.base = 8 /\ (z = <<>> \/ Last(z) # "0") THEN Append(z, "0") ELSE z

sign_char(is_signed, negative, c) ==
  IF ~is_signed THEN <<>>
  ELSE IF negative THEN <<"-">>
  ELSE IF "+" \in c.flags THEN <<"+">> ELSE IF " " \in c.flags THEN <<" ">> ELSE <<>>

format_integer(value, is_signed, negative, bs, c) ==
  LET sign == sign_char(is_signed, negative, c)
      x == IF "#" \in c.flags /\ value # 0 /\ bs.x # "" THEN <<"0", bs.x>> ELSE <<>>
      buf == integer_buf(value, bs, c)
      short == c.width - Len(buf) - Len(x) - Len(sign)
      pad_cnt == IF short < 0 THEN 0 ELSE short
  IN (IF c.flags \cap {"-", "0"} = {} THEN output_dup(" ", pad_cnt) ELSE <<>>)
     \o sign \o x \o (IF "0" \in c.flags THEN output_dup("0", pad_cnt) ELSE <<>>)
     \o Reverse(buf) \o (IF "-" \in c.flags THEN output_dup(" ", pad_cnt) ELSE <<>>)

format_string(s, length, c) ==
  LET pad == output_dup(" ", IF c.width > length THEN c.width - length ELSE 0)
  IN (IF "-" \in c.flags THEN <<>> ELSE pad) \o SubSeq(s, 1, length)
     \o (IF "-" \in c.flags THEN pad ELSE <<>>)

bits_of(c) == IF c.type = "CHAR" THEN CharBits ELSE IntBits
as_unsigned(v, c) == v % 2 ^ bits_of(c)
as_signed(v, c) ==
  LET u == as_unsigned(v, c) IN IF u >= 2 ^ (bits_of(c) - 1) THEN u - 2 ^ bits_of(c) ELSE u

convert(ch, v, c) ==
  CASE ch \in {"d", "i"} -> LET n == as_signed(v, c)
                            IN format_integer(IF n < 0 THEN -n ELSE n, TRUE, n < 0, base_d, c)
    [] ch = "o" -> format_integer(as_unsigned(v, c), FALSE, FALSE, base_o, c)
    [] ch = "u" -> format_integer(as_unsigned(v, c), FALSE, FALSE, base_d, c)
    [] ch = "x" -> format_integer(as_unsigned(v, c), FALSE, FALSE, base_x, c)
    [] ch = "X" -> format_integer(as_unsigned(v, c), FALSE, FALSE, base_X, c)
    [] ch = "p" -> format_integer(as_unsigned(v, [c EXCEPT !.type = "INT"]), FALSE, FALSE, base_x,
                                  [c EXCEPT !.flags = {"#"}])
    [] ch = "c" -> format_string(<<DigitChars[(v % 10) + 1]>>, 1, c)
    [] ch = "s" -> format_string(v, IF c.precision < 0 \/ Len(v) < c.precision
                                    THEN Len(v) ELSE c.precision, c)

(* __vprintf() from character i on; a format that ends, or an unknown      *)
(* conversion, prints a remark.                                            *)
RECURSIVE vprintf_from(_, _, _), conversion_from(_, _)
conversion_from(f, c) ==
  LET ch == char_at(f, c.at)
  IN IF ch \in ENDS
     THEN convert(ch, Head(c.args), c) \o vprintf_from(f, c.at + 1, Tail(c.args))
     ELSE <<"<<no conversion>>">> \o vprintf_from(f, c.at + 1, c.args)
vprintf_from(f, i, as) ==
  IF i > Len(f) THEN <<>>
  ELSE IF f[i] # "%" THEN <<f[i]>> \o vprintf_from(f, i + 1, as)
  ELSE IF char_at(f, i + 1) = "%" THEN <<"%">> \o vprintf_from(f, i + 2, as)
  ELSE conversion_from(f, parse_conversion(f, i + 1, as))
vprintf(f, as) == vprintf_from(f, 1, as)

(* vsnprintf(): what is stored, and the result.                            *)
vsnprintf_helper(size, out) ==
  LET max_length == IF size > 0 THEN size - 1 ELSE 0
      stored == SubSeq(out, 1, IF Len(out) < max_length THEN Len(out) ELSE max_length)
  IN [buffer |-> IF size > 0 THEN Append(stored, NUL_CH) ELSE stored, result |-> Len(out)]
vsnprintf(size, f, as) == vsnprintf_helper(size, vprintf(f, as))

-----------------------------------------------------------------------------
(* Calls: "a", one conversion, and "%%".  A width or precision is absent,  *)
(* or a digit, or "*" with its value among the arguments.                  *)
Absent == [how |-> "absent", value |-> 0]
Options == {Absent} \cup {[how |-> "digit", value |-> n] : n \in {m \in Numbers_ : m >= 0}}
                    \cup {[how |-> "star", value |-> n] : n \in Numbers_}
NoConversion ==
  [flags |-> {}, width |-> Absent, precision |-> Absent, hh |-> FALSE, end |-> "d", arg |-> 0]

option_chars(o) ==
  CASE o.how = "absent" -> <<>> [] o.how = "digit" -> <<DigitChars[o.value + 1]>> [] o.how = "star" -> <<"*">>
option_args(o) == IF o.how = "star" THEN <<o.value>> ELSE <<>>

format == LET k == conversion IN
  <<"a", "%">> \o SetToSeq(k.flags) \o option_chars(k.width)
  \o (IF k.precision = Absent THEN <<>> ELSE <<".">> \o option_chars(k.precision))
  \o (IF k.hh THEN <<"h", "h">> ELSE <<>>) \o <<k.end, "%", "%">>
args == option_args(conversion.width) \o option_args(conversion.precision) \o <<conversion.arg>>

PrintfInit == conversion = NoConversion /\ buf_size = 0

Snprintf == PrintfInit /\
  \E fs \in FlagSets, w, p \in Options, e \in Ends :
  \E v \in IF e = "s" THEN Text ELSE Value_ :
  \E n \in IF fs = {} THEN 0 .. MaxBuf ELSE {0}, hh \in IF e = "d" THEN BOOLEAN ELSE {FALSE} :
    /\ conversion' = [flags |-> fs, width |-> w, precision |-> p, hh |-> hh, end |-> e, arg |-> v]
    /\ buf_size' = n
PrintfReturn == ~PrintfInit /\ conversion' = NoConversion /\ buf_size' = 0

PrintfNext == Snprintf \/ PrintfReturn

PrintfSpec == PrintfInit /\ [][PrintfNext]_printfVars

-----------------------------------------------------------------------------
(* What C asks of the conversion.                                          *)
Minus == conversion.end # "p" /\ ("-" \in conversion.flags \/ conversion.width.value < 0)
Width == IF conversion.width.value < 0 THEN -conversion.width.value ELSE conversion.width.value
HasPrecision == conversion.precision # Absent /\ conversion.precision.value >= 0
Has(fl) == IF conversion.end = "p" THEN fl = "#" ELSE fl \in conversion.flags
ZeroPad == Has("0") /\ ~Minus /\ ~HasPrecision
Spaces(n) == output_dup(" ", n)
CBase == CASE conversion.end \in {"d", "i", "u"} -> 10 [] conversion.end = "o" -> 8 [] OTHER -> 16
Magnitude(ds) ==   \* of digits and commas
  FoldLeft(LAMBDA n, ch : IF ch = "," THEN n
             ELSE n * CBase + (CHOOSE i \in 1 .. 16 : ch \in {DigitChars[i], UpperChars[i]}) - 1,
           0, ds)
NumberOf(ds) == Cardinality({i \in DOMAIN ds : ds[i] # ","})
DigitsNeeded(n) == CHOOSE k \in 0 .. IntBits : n < CBase ^ k /\ (k = 0 \/ n >= CBase ^ (k - 1))

(* The printed number: spaces, sign, prefix, digits, spaces.               *)
IntegerPrinted(body) ==
  LET bits == IF conversion.hh THEN CharBits ELSE IntBits
      u == conversion.arg % 2 ^ bits
      signed == conversion.end \in {"d", "i"}
      negative == signed /\ u >= 2 ^ (bits - 1)
      n == IF negative THEN 2 ^ bits - u ELSE u
      sign == IF negative THEN <<"-">> ELSE IF signed /\ Has("+") THEN <<"+">>
              ELSE IF signed /\ Has(" ") THEN <<" ">> ELSE <<>>
      prefix == IF Has("#") /\ CBase = 16 /\ n # 0
                THEN <<"0", IF conversion.end = "X" THEN "X" ELSE "x">> ELSE <<>>
      asked == IF HasPrecision THEN conversion.precision.value ELSE 1
      atleast == IF asked < BufLength - 1 THEN asked ELSE BufLength - 1
      digits == IF DigitsNeeded(n) > atleast THEN DigitsNeeded(n) ELSE atleast
  IN \E p, q \in 0 .. Len(body) :
       LET front == Spaces(p) \o sign \o prefix
           ds == SubSeq(body, Len(front) + 1, Len(body) - q)
       IN /\ Len(front) + q <= Len(body) /\ body = front \o ds \o Spaces(q)
          /\ \A i \in DOMAIN ds : ds[i] # " "
          /\ p > 0 => ~Minus /\ ~ZeroPad /\ Len(body) = Width
          /\ q > 0 => Minus /\ Len(body) = Width
          /\ Len(body) >= Width /\ Magnitude(ds) = n
          /\ \/ NumberOf(ds) = digits
             \/ NumberOf(ds) = digits + 1 /\ Has("#") /\ CBase = 8 /\ ds[1] = "0"
             \/ NumberOf(ds) > digits /\ ZeroPad /\ Len(body) = Width
          /\ ~Has("'") => \A i \in DOMAIN ds : ds[i] # ","

(* The printed character or string.                                        *)
TextPrinted(body) ==
  LET k == conversion
      text == IF k.end = "c" THEN <<DigitChars[(k.arg % 10) + 1]>>
              ELSE IF HasPrecision THEN SubSeq(k.arg, 1, IF k.precision.value < Len(k.arg)
                                                         THEN k.precision.value ELSE Len(k.arg))
              ELSE k.arg
      pad == Spaces(IF Width > Len(text) THEN Width - Len(text) ELSE 0)
  IN body = IF Minus THEN text \o pad ELSE pad \o text

BufferHolds(c) == Len(integer_buf(as_unsigned(conversion.arg, c), base_o, c)) <= BufLength

(* stdio.c prints what C defines: the digits of the argument cut to its    *)
(* type, signed, prefixed, padded and justified as the flags, width and    *)
(* precision say.  The digits fit in format_integer()'s buffer, and        *)
(* vsnprintf() stores as much as fits, terminated, and reports what it     *)
(* would have stored.  (Left out: "0" with a negative "*" width, which the *)
(* code pads twice, and grouping with a precision, where the code counts   *)
(* the commas.)                                                            *)
PrintfExact ==
  \A out \in {vprintf(format, args)}, r \in {vsnprintf(buf_size, format, args)} :
    /\ Head(out) = "a" /\ Last(out) = "%"
    /\ IF conversion.end \in {"c", "s"} THEN TextPrinted(SubSeq(out, 2, Len(out) - 1))
       ELSE /\ \/ Has("0") /\ conversion.width.value < 0
               \/ Has("'") /\ HasPrecision
               \/ IntegerPrinted(SubSeq(out, 2, Len(out) - 1))
            /\ BufferHolds(parse_conversion(format, 3, args))
    /\ r.result = Len(out) /\ Len(r.buffer) <= buf_size
    /\ buf_size > 0 => /\ Last(r.buffer) = NUL_CH /\ IsPrefix(Front(r.buffer), out)
                       /\ Len(r.buffer) < buf_size => Len(r.buffer) = Len(out) + 1
=============================================================================
