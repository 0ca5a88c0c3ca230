------------------------------ MODULE CFormat -------------------------------
(***************************************************************************)
(* What the C standard says that a formatted output function produces      *)
(* (C11 7.21.6.1, and %b as in C23), stated from directives and values and *)
(* not from the characters of a format.                                    *)
(*                                                                         *)
(* An item of a format is plain text, [text |-> characters], or a          *)
(* directive with the fields flags, width, prec, length, conv and the      *)
(* argument in value, special or string; width and prec are                *)
(* [from |-> "none", "digits" or "star", n |-> number].                    *)
(***************************************************************************)
EXTENDS Integers, Sequences, SequencesExt

CONSTANTS CharBits, ShortBits, WordBits, BufferSize, DefaultPrec

Hex(upper) ==
  <<"0", "1", "2", "3", "4", "5", "6", "7", "8", "9">>
    \o (IF upper THEN <<"A", "B", "C", "D", "E", "F">> ELSE <<"a", "b", "c", "d", "e", "f">>)

Times(c, n) == [k \in 1..n |-> c]

(* v in the given base, highest digit first. *)
Numeral(v, base, upper) ==
  LET n == CHOOSE n \in 1..64 : v < base^n /\ (n > 1 => v >= base^(n - 1))
  IN  [k \in 1..n |-> Hex(upper)[((v \div base^(n - k)) % base) + 1]]

IsText(it) == "text" \in DOMAIN it
Integers_ == {"d", "i", "u", "x", "X", "o", "b"}
SignedConv(it) == it.conv \in {"d", "i"}

ValueBits(it) ==
  CASE it.length \in {"ll", "j"} -> 2 * WordBits
    [] it.length = "hh" -> CharBits
    [] it.length = "h"  -> ShortBits
    [] OTHER            -> WordBits

(* The value an integer conversion prints. *)
Converted(it) ==
  LET low == it.value % 2^ValueBits(it)
  IN  IF SignedConv(it) /\ low >= 2^(ValueBits(it) - 1) THEN low - 2^ValueBits(it) ELSE low

Magnitude(v) == IF v < 0 THEN 0 - v ELSE v
Wide(it) == Magnitude(it.width.n)
Left(it) == "-" \in it.flags \/ it.width.n < 0
Exact(it) == it.prec.from # "none" /\ it.prec.n >= 0     \* a precision counts

Plus(it, negative) ==
  IF negative THEN <<"-">>
  ELSE IF "+" \in it.flags THEN <<"+">>
  ELSE IF " " \in it.flags THEN <<" ">> ELSE <<>>

(* Sign or prefix, then digits, in a field. *)
Field(it, front, digits, zero) ==
  LET gap == Wide(it) - Len(front) - Len(digits)
  IN  CASE Left(it) -> front \o digits \o Times(" ", gap)
        [] ~Left(it) /\ zero -> front \o Times("0", gap) \o digits
        [] OTHER -> Times(" ", gap) \o front \o digits

RadixBase(it) ==
  CASE it.conv \in {"x", "X"} -> 16 [] it.conv = "o" -> 8 [] it.conv = "b" -> 2 [] OTHER -> 10

Significant(it) ==
  LET v == Magnitude(Converted(it))
  IN  IF v = 0 /\ Exact(it) /\ it.prec.n = 0 THEN <<>> ELSE Numeral(v, RadixBase(it), it.conv = "X")

IntegerDigits(it) ==
  LET n == Significant(it)
      z == Times("0", IF Exact(it) THEN it.prec.n - Len(n) ELSE 0) \o n
  IN  IF it.conv = "o" /\ "#" \in it.flags /\ (z = <<>> \/ z[1] # "0") THEN <<"0">> \o z ELSE z

Prefix(it) ==
  IF SignedConv(it) THEN Plus(it, Converted(it) < 0)
  ELSE IF "#" \in it.flags /\ it.conv \in {"x", "X", "b"} /\ Converted(it) # 0
    THEN <<"0", it.conv>> ELSE <<>>

IntegerText(it) ==
  Field(it, Prefix(it), IntegerDigits(it), "0" \in it.flags /\ ~Exact(it))

(* A value in eighths, rounded to nearest, a tie to the even digit. *)
FixedText(it) ==
  LET p == IF Exact(it) THEN it.prec.n ELSE DefaultPrec
      n == Magnitude(it.value) * 10^p
      q == n \div 8
      up == 2 * (n % 8) > 8 \/ (2 * (n % 8) = 8 /\ q % 2 = 1)
      r == IF up THEN q + 1 ELSE q
      all == Numeral(r, 10, FALSE)
      padded == Times("0", p + 1 - Len(all)) \o all
      point == Len(padded) - p
      digits == SubSeq(padded, 1, point)
                  \o (IF p = 0 THEN <<>> ELSE <<".">> \o SubSeq(padded, point + 1, point + p))
  IN  Field(it, Plus(it, it.value < 0), digits, "0" \in it.flags)

SpecialText(it) ==
  LET name == [nan |-> <<"n", "a", "n">>, inf |-> <<"i", "n", "f">>, minf |-> <<"i", "n", "f">>]
  IN  Field(it, IF it.special = "nan" THEN <<>> ELSE Plus(it, it.special = "minf"),
            name[it.special], FALSE)

Meaning(it) ==
  IF IsText(it) THEN it.text
  ELSE CASE it.conv \in Integers_ -> IntegerText(it)
         [] it.conv = "f" /\ it.special = "no" -> FixedText(it)
         [] it.conv = "f" /\ it.special # "no" -> SpecialText(it)
         [] it.conv = "c" -> Field(it, it.string, <<>>, FALSE)
         [] it.conv = "s" ->
              Field(it, IF Exact(it) /\ it.prec.n < Len(it.string)
                          THEN SubSeq(it.string, 1, it.prec.n) ELSE it.string, <<>>, FALSE)
         [] it.conv = "p" ->
              LET n == Numeral(it.value, 16, TRUE)
              IN  Times("0", (WordBits \div 4) - Len(n)) \o n
         [] it.conv = "%" -> <<"%">>

(* How a directive is written, and the argument words it is passed. *)
Decimal(w) ==
  CASE w.from = "none" -> <<>> [] w.from = "star" -> <<"*">> [] OTHER -> Numeral(w.n, 10, FALSE)

LengthChars(it) ==
  CASE it.length = "hh" -> <<"h", "h">> [] it.length = "ll" -> <<"l", "l">>
    [] it.length = "" -> <<>> [] OTHER -> <<it.length>>

Written(it) ==
  IF IsText(it) THEN it.text
  ELSE <<"%">> \o SelectSeq(<<"0", "-", "+", " ", "#">>, LAMBDA c : c \in it.flags) \o Decimal(it.width)
         \o (IF it.prec.from = "none" THEN <<>> ELSE <<".">> \o Decimal(it.prec))
         \o LengthChars(it) \o <<it.conv>>

StarWord(w) == IF w.from = "star" THEN <<w.n % 2^WordBits>> ELSE <<>>

ValueWords(it) ==
  CASE it.conv \in Integers_ ->
         IF ValueBits(it) = 2 * WordBits
           THEN <<it.value % 2^WordBits, (it.value \div 2^WordBits) % 2^WordBits>>
           ELSE <<it.value % 2^WordBits>>
    [] it.conv = "f" -> IF it.special = "no" THEN <<it.value, "number">>
                        ELSE <<it.special, "special">>
    [] it.conv = "c" -> it.string
    [] it.conv = "s" -> <<it.string>>
    [] it.conv = "p" -> <<it.value>>
    [] it.conv = "%" -> <<>>

Words(it) ==
  IF IsText(it) THEN <<>> ELSE StarWord(it.width) \o StarWord(it.prec) \o ValueWords(it)

Format(items) == FlattenSeq([k \in 1..Len(items) |-> Written(items[k])])
Arguments(items) == FlattenSeq([k \in 1..Len(items) |-> Words(items[k])])
Result(items) == FlattenSeq([k \in 1..Len(items) |-> Meaning(items[k])])

-----------------------------------------------------------------------------
(* Where printf.c follows the standard.  Outside: a negative precision,    *)
(* left-justified numbers with a precision, numbers that do not fit the    *)
(* conversion buffer, and the # flag in the cases HashSafe leaves out.     *)

(* The # prefix costs no digit and no place. *)
HashSafe(it) ==
  LET n == Len(Significant(it))
      zero == "0" \in it.flags /\ ~Left(it)
      cost == CASE it.conv \in {"x", "X"} -> 2 [] it.conv = "o" -> 1 [] OTHER -> BufferSize
  IN  \/ "#" \notin it.flags \/ it.conv \in {"d", "i", "u"}
      \/ /\ it.prec.from = "none"
         /\ IF zero THEN Wide(it) < n \/ Wide(it) >= n + cost ELSE Wide(it) # n

Fits(it) ==
  LET zero == "0" \in it.flags /\ ~Left(it) /\ ~Exact(it)
      n == Len(Prefix(it)) + Len(IntegerDigits(it))
  IN  (IF zero /\ Wide(it) > n THEN Wide(it) ELSE n) <= BufferSize

Conforming(it) ==
  \/ IsText(it)
  \/ /\ it.prec.n >= 0
     /\ it.conv \in Integers_ =>
          /\ Fits(it) /\ HashSafe(it)
          /\ Left(it) => ~Exact(it) \/ it.prec.n <= Len(Significant(it))
     /\ it.conv = "f" =>
          IF it.special = "no" THEN "#" \notin it.flags /\ Len(FixedText(it)) <= BufferSize
          ELSE it.flags \cap {"0", " "} = {}
     /\ it.conv = "p" => it.flags = {} /\ it.prec.n <= WordBits \div 4
=============================================================================
