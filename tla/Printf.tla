------------------------------- MODULE Printf -------------------------------
(***************************************************************************)
(* lib/stdio.c: the formatting engine behind printf and snprintf.          *)
(*                                                                         *)
(* A character is a one-character string, a text a sequence of characters, *)
(* and the argument list a sequence of integers and texts that every       *)
(* va_arg takes the head of.  Bits gives the width of each argument type.  *)
(* A format that ends inside a conversion is not modelled: the code then   *)
(* reads beyond its end.                                                   *)
(***************************************************************************)
EXTENDS Integers, Sequences
LOCAL INSTANCE SequencesExt
LOCAL INSTANCE FiniteSetsExt

CONSTANTS Bits

(* The null pointer as a string argument. *)
NullString == <<"NULL">>

Digits == <<"0", "1", "2", "3", "4", "5", "6", "7", "8", "9",
            "a", "b", "c", "d", "e", "f">>
base_d == [base |-> 10, x |-> <<>>, group |-> 3]
base_o == [base |-> 8, x |-> <<>>, group |-> 3]
base_x == [base |-> 16, x |-> <<"0", "x">>, group |-> 4]

FlagChars == {"-", "+", " ", "#", "0", "'"}
Decimal == {Digits[k] : k \in 1..10}
ValueOf(digit) == (CHOOSE k \in 1..16 : Digits[k] = digit) - 1

(* The first position from p on whose character is not in C. *)
SkipSet(f, p, C) == Min({q \in p..(Len(f) + 1) : q = Len(f) + 1 \/ f[q] \notin C})
Numeral(s) == FoldLeft(LAMBDA n, d : n * 10 + ValueOf(d), 0, s)

(* parse_conversion reads an option at p of format f: flags, a width, a    *)
(* precision and a type, in this order.                                    *)
parse_flags(f, p) ==
  LET q == SkipSet(f, p, FlagChars)
      s == {f[i] : i \in p..(q - 1)}
  IN  [at |-> q, flags |-> s \ ((IF "-" \in s THEN {"0"} ELSE {})
                                \cup (IF "+" \in s THEN {" "} ELSE {}))]

(* A number at p: "*" takes it from the arguments. *)
parse_number(f, p, args) ==
  IF f[p] = "*" THEN [at |-> p + 1, value |-> Head(args), args |-> Tail(args)]
  ELSE LET q == SkipSet(f, p, Decimal)
       IN  [at |-> q, value |-> Numeral(SubSeq(f, p, q - 1)), args |-> args]

parse_type(f, p) ==
  CASE f[p] = "h" /\ f[p + 1] = "h" -> [at |-> p + 2, type |-> "CHAR"]
    [] f[p] = "h" /\ f[p + 1] # "h" -> [at |-> p + 1, type |-> "SHORT"]
    [] f[p] = "l" /\ f[p + 1] = "l" -> [at |-> p + 2, type |-> "LONGLONG"]
    [] f[p] = "l" /\ f[p + 1] # "l" -> [at |-> p + 1, type |-> "LONG"]
    [] f[p] = "j" -> [at |-> p + 1, type |-> "INTMAX"]
    [] f[p] = "t" -> [at |-> p + 1, type |-> "PTRDIFFT"]
    [] f[p] = "z" -> [at |-> p + 1, type |-> "SIZET"]
    [] OTHER -> [at |-> p, type |-> "INT"]

parse_conversion(f, p, args) ==
  LET Typed(flags, w, pr, ty) ==
        [at |-> ty.at, args |-> pr.args, type |-> ty.type,
         width |-> IF w.value < 0 THEN -w.value ELSE w.value,
         flags |-> (flags \cup (IF w.value < 0 THEN {"-"} ELSE {}))
                   \ (IF pr.value >= 0 THEN {"0"} ELSE {}),
         precision |-> IF pr.value < 0 THEN -1 ELSE pr.value]
      Precise(flags, w, pr) == Typed(flags, w, pr, parse_type(f, pr.at))
      Wide(flags, w) ==
        Precise(flags, w, IF f[w.at] = "." THEN parse_number(f, w.at + 1, w.args)
                          ELSE [w EXCEPT !.value = -1])
      Flagged(fl) == Wide(fl.flags, parse_number(f, fl.at, args))
  IN  Flagged(parse_flags(f, p))
-----------------------------------------------------------------------------
output_dup(ch, cnt) == [k \in 1..cnt |-> ch]

(* The digits of value, last one first, with the commas of the ' flag.     *)
(* (The code's buffer caps the zeros a precision adds at 63 characters.)   *)
RECURSIVE digits(_, _, _, _)
digits(value, b, grouped, cnt) ==
  IF value = 0 THEN <<>>
  ELSE (IF grouped /\ cnt > 0 /\ cnt % b.group = 0 THEN <<",">> ELSE <<>>)
       \o <<Digits[(value % b.base) + 1]>>
       \o digits(value \div b.base, b, grouped, cnt + 1)

pad_cnt(c, buf, x, sign) == Max({0, c.width - Len(buf) - Len(x) - Len(sign)})

format_integer(value, is_signed, negative, b, c) ==
  LET sign == CASE ~is_signed -> <<>>
                [] is_signed /\ negative -> <<"-">>
                [] is_signed /\ ~negative /\ "+" \in c.flags -> <<"+">>
                [] is_signed /\ ~negative /\ "+" \notin c.flags /\ " " \in c.flags -> <<" ">>
                [] OTHER -> <<>>
      x    == IF "#" \in c.flags /\ value # 0 THEN b.x ELSE <<>>
      ds   == digits(value, b, "'" \in c.flags, 0)
      precision == IF c.precision < 0 THEN 1 ELSE c.precision
      wide == ds \o output_dup("0", Max({0, precision - Len(ds)}))
      buf  == IF "#" \in c.flags /\ b.base = 8 /\ (wide = <<>> \/ Last(wide) # "0")
              THEN Append(wide, "0") ELSE wide
      pad  == pad_cnt(c, buf, x, sign)
  IN  (IF c.flags \cap {"-", "0"} = {} THEN output_dup(" ", pad) ELSE <<>>)
      \o sign \o x
      \o (IF "0" \in c.flags THEN output_dup("0", pad) ELSE <<>>)
      \o Reverse(buf)
      \o (IF "-" \in c.flags THEN output_dup(" ", pad) ELSE <<>>)

format_string(s, length, c) ==
  LET pad == output_dup(" ", Max({0, c.width - length}))
  IN  (IF "-" \notin c.flags THEN pad ELSE <<>>) \o SubSeq(s, 1, length)
      \o (IF "-" \in c.flags THEN pad ELSE <<>>)

Unsigned(v, type) == v % 2 ^ Bits[type]
Signed(v, type) ==
  LET u == Unsigned(v, type)
  IN  IF 2 * u >= 2 ^ Bits[type] THEN u - 2 ^ Bits[type] ELSE u

(* One conversion c, of the letter conv, applied to the argument arg. *)
convert(conv, c, arg) ==
  CASE conv \in {"d", "i"} ->
         LET v == Signed(arg, c.type)
         IN  format_integer(IF v < 0 THEN -v ELSE v, TRUE, v < 0, base_d, c)
    [] conv = "u" -> format_integer(Unsigned(arg, c.type), FALSE, FALSE, base_d, c)
    [] conv = "o" -> format_integer(Unsigned(arg, c.type), FALSE, FALSE, base_o, c)
    [] conv = "x" -> format_integer(Unsigned(arg, c.type), FALSE, FALSE, base_x, c)
    [] conv = "p" -> format_integer(arg, FALSE, FALSE, base_x, [c EXCEPT !.flags = {"#"}])
    [] conv = "c" -> format_string(arg, 1, c)
    [] conv = "s" ->
         LET s == IF arg = NullString THEN <<"(", "n", "u", "l", "l", ")">> ELSE arg
         IN  format_string(s, IF c.precision < 0 THEN Len(s)
                              ELSE Min({c.precision, Len(s)}), c)

Conversions == {"d", "i", "u", "o", "x", "p", "c", "s"}

RECURSIVE vprintf_from(_, _, _)
vprintf_from(f, p, args) ==
  IF p > Len(f) THEN <<>>
  ELSE IF f[p] # "%" THEN <<f[p]>> \o vprintf_from(f, p + 1, args)
  ELSE IF f[p + 1] = "%" THEN <<"%">> \o vprintf_from(f, p + 2, args)
  ELSE LET Converted(c) ==
             IF f[c.at] \in Conversions
             THEN convert(f[c.at], c, Head(c.args))
                  \o vprintf_from(f, c.at + 1, Tail(c.args))
             ELSE <<"<<no %">> \o <<f[c.at]>> \o vprintf_from(f, c.at + 1, c.args)
       IN  Converted(parse_conversion(f, p + 1, args))

vprintf(f, args) == vprintf_from(f, 1, args)

(* The text left in a buffer of buf_size bytes, and the value returned. *)
vsnprintf(buf_size, f, args) ==
  LET max_length == IF buf_size > 0 THEN buf_size - 1 ELSE 0
      Cut(out) == [buffer |-> SubSeq(out, 1, Min({Len(out), max_length})),
                   length |-> Len(out)]
  IN  Cut(vprintf(f, args))
-----------------------------------------------------------------------------
(* What is checked of one conversion.  A case is a record of its flags,    *)
(* width, precision, length modifier, letter and argument, and of whether  *)
(* width and precision are written in the format or passed for a "*".      *)
Numeric(n) == IF n = 0 THEN <<>> ELSE <<Digits[n + 1]>>
Format(in) ==
  <<"%">> \o SetToSeq(in.flags)
  \o (IF in.star THEN <<"*">> ELSE Numeric(in.width))
  \o (IF in.star THEN <<".", "*">>
      ELSE IF in.precision < 0 THEN <<>> ELSE <<".">> \o Numeric(in.precision))
  \o in.type \o <<in.conv, "|">>
Args(in) == (IF in.star THEN <<in.width, in.precision>> ELSE <<>>) \o <<in.arg>>
Body(in) == Front(vprintf(Format(in), Args(in)))

(* The 0 flag survives a "-" that comes from a negative width: the field   *)
(* is then padded on both sides.  Those cases are left out.                *)
PadsTwice(in) == "0" \in in.flags /\ in.width < 0 /\ in.precision < 0

(* A field is exactly as wide as its width asks for, or as its text needs, *)
(* and the text is at the end the flags name.                              *)
FieldAligned(in) ==
  ~PadsTwice(in) =>
    \A bare \in {Body([in EXCEPT !.width = 0])}, body \in {Body(in)} :
      /\ Len(body) = Max({in.width, -in.width, Len(bare)})
      /\ ("-" \in in.flags \/ in.width < 0) => IsPrefix(bare, body)
      /\ ("-" \notin in.flags /\ in.width >= 0 /\ ("0" \notin in.flags \/ in.precision >= 0))
           => IsSuffix(bare, body)

(* Reading the digits printed gives back the argument, as its type sees it. *)
ReadsBack(in) ==
  LET type == CASE in.type = <<"h", "h">> -> "CHAR" [] in.type = <<"h">> -> "SHORT"
                [] OTHER -> "INT"
      base == CASE in.conv = "x" -> 16 [] in.conv = "o" -> 8 [] OTHER -> 10
      Bare(body) == SelectSeq(body, LAMBDA ch : ch \notin {" ", ",", "+", "x", "-"})
      read(body) == FoldLeft(LAMBDA n, d : n * base + ValueOf(d), 0, Bare(body))
  IN  in.conv # "s" => \A body \in {Body(in)} :
        (IF Contains(body, "-") THEN -read(body) ELSE read(body))
          = IF in.conv = "d" THEN Signed(in.arg, type) ELSE Unsigned(in.arg, type)

(* snprintf leaves the longest prefix that fits with its terminator, and   *)
(* returns the length of the whole text.                                   *)
TruncatesExactly(in) ==
  \A out \in {vprintf(Format(in), Args(in))} :
    \A size \in 0..(Len(out) + 2) :
      \A r \in {vsnprintf(size, Format(in), Args(in))} :
        /\ r.length = Len(out)
        /\ IsPrefix(r.buffer, out)
        /\ size > 0 => Len(r.buffer) = Min({size - 1, Len(out)})
=============================================================================
