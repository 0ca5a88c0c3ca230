------------------------------- MODULE Printf -------------------------------
(***************************************************************************)
(* The formatted output of lib/printf.c.  One step of _vsnprintf is one    *)
(* turn of its loop over the format: a plain character or a whole          *)
(* directive, %[flags][width][.precision][length]specifier.                *)
(*                                                                         *)
(* Characters are strings of length one, NUL is the terminator.  The       *)
(* argument list is the stack words that va_arg reads: a long long is two  *)
(* words, low half first, a string is a word that holds its characters, a  *)
(* double is two words of which the first holds its value in eighths       *)
(* (every such value is exact in binary, and so is what _ftoa computes     *)
(* from it), or one of the special values.                                 *)
(*                                                                         *)
(* Not modelled: %e and %g (_etoa), %f of values beyond 1e9 or with a      *)
(* precision beyond 41 (the table pow10 is then read past its end), and a  *)
(* format that ends inside a directive, behind whose end the code reads on.*)
(***************************************************************************)
EXTENDS Integers, Sequences, SequencesExt

CONSTANTS
  BufferSize,  \* PRINTF_NTOA_BUFFER_SIZE and PRINTF_FTOA_BUFFER_SIZE: 32
  CharBits, ShortBits, WordBits,   \* 8, 16, 32; long is one word, long long two
  MaxPrec,     \* 9: the last entry of the table pow10
  DefaultPrec, \* PRINTF_DEFAULT_FLOAT_PRECISION: 6
  Calls,       \* sequence of sets of calls: [function, null, count, items], items as in CFormat
  MemSize      \* characters of memory behind the caller's pointer

ASSUME SizeAssumption ==
  /\ BufferSize \in Nat \ {0} /\ MemSize \in Nat
  /\ CharBits \in 1..ShortBits /\ ShortBits \in 1..WordBits /\ WordBits \in Nat

VARIABLES
  call,      \* the call under way; its function is "none" between calls
  format,    \* the rest of the format
  va,        \* the rest of the argument list
  idx,       \* characters produced so far
  mem,       \* the memory behind the caller's pointer
  sink,      \* the characters given to putch, or to the function of fctprintf
  text,      \* history: every character produced, in order
  ret        \* the value returned, or -1 while the call runs

printfvars == <<call, format, va, idx, mem, sink, text, ret>>

Idle == call.function = "none"

-----------------------------------------------------------------------------
(* Characters and numbers. *)

FlagChars == {"0", "-", "+", " ", "#"}

DigitChars == <<"0", "1", "2", "3", "4", "5", "6", "7", "8", "9">>
Lower == DigitChars \o <<"a", "b", "c", "d", "e", "f">>
Upper == DigitChars \o <<"A", "B", "C", "D", "E", "F">>

_is_digit(ch) == ch \in ToSet(DigitChars)

Rep(c, n) == [k \in 1..n |-> c]
Drop(s, n) == SubSeq(s, n + 1, Len(s))

(* The number of leading characters of s that are in C. *)
Span(s, C) ==
  CHOOSE n \in 0..Len(s) :
    /\ \A k \in 1..n : s[k] \in C
    /\ n < Len(s) => s[n + 1] \notin C

_atoi(s) ==
  LET Value(c) == CHOOSE d \in 0..9 : DigitChars[d + 1] = c
  IN  FoldLeft(LAMBDA i, c : 10 * i + Value(c), 0, s)

Signed(w, bits) == IF w >= 2^(bits - 1) THEN w - 2^bits ELSE w

(* A character is put into a conversion buffer only if there is room. *)
Push(buf, c) == IF Len(buf) < BufferSize THEN Append(buf, c) ELSE buf

(* while ((len < n) && (len < SIZE)) buf[len++] = '0' *)
Fill(buf, n) ==
  buf \o Rep("0", (IF n < BufferSize THEN n ELSE BufferSize) - Len(buf))

-----------------------------------------------------------------------------
(* Conversions.  Each returns the characters it gives to the output.       *)
(* flags is a set of the flag characters and of the names behind them.     *)

(* Pads buf, which holds the characters in reverse. *)
_out_rev(buf, width, flags) ==
  LET pad == Rep(" ", width - Len(buf))
  IN  (IF flags \cap {"-", "0"} = {} THEN pad ELSE <<>>)
        \o Reverse(buf)
        \o (IF "-" \in flags THEN pad ELSE <<>>)

Sign(negative, flags) ==
  IF negative THEN <<"-">>
  ELSE IF "+" \in flags THEN <<"+">>
  ELSE IF " " \in flags THEN <<" ">> ELSE <<>>

WithSign(buf, negative, flags) ==
  LET s == Sign(negative, flags) IN IF s = <<>> THEN buf ELSE Push(buf, s[1])

(* Faulty: zero padding fills the field and the sign comes on top. *)
SignRoomNone(width, negative, flags) == width

(* Zero padding leaves room for the sign. *)
SignRoom(width, negative, flags) ==
  IF width > 0 /\ "0" \in flags /\ Sign(negative, flags) # <<>> THEN width - 1 ELSE width

(* The prefix of the # flag replaces the last characters of a number that  *)
(* is exactly as long as the field.                                        *)
WithHash(buf, base, prec, width, flags) ==
  LET n == Len(buf)
      cut == IF "precision" \notin flags /\ n > 0 /\ n \in {prec, width}
               THEN IF n > 1 /\ base = 16 THEN n - 2 ELSE n - 1
               ELSE n
      short == SubSeq(buf, 1, cut)
      mark == CASE base = 16 -> Push(short, IF "upper" \in flags THEN "X" ELSE "x")
                [] base = 2  -> Push(short, "b")
                [] OTHER     -> short
  IN  Push(mark, "0")

_ntoa_format(buf, negative, base, prec, width, flags) ==
  LET left == "-" \in flags
      room == IF left THEN width ELSE SignRoom(width, negative, flags)
      zeros == IF left THEN buf
               ELSE Fill(Fill(buf, prec), IF "0" \in flags THEN room ELSE 0)
      marked == IF "#" \in flags THEN WithHash(zeros, base, prec, room, flags) ELSE zeros
  IN  _out_rev(WithSign(marked, negative, flags), room, flags)

(* The digits of value, lowest first, at most n of them: the loop of       *)
(* _ntoa_long, and of _ntoa_long_long with its 64-bit division.            *)
RECURSIVE Digits(_, _, _, _)
Digits(value, base, chars, n) ==
  <<chars[(value % base) + 1]>>
    \o (IF value \div base = 0 \/ n = 1 THEN <<>>
        ELSE Digits(value \div base, base, chars, n - 1))

_ntoa_long(value, negative, base, prec, width, flags) ==
  LET fl  == IF value = 0 THEN flags \ {"#"} ELSE flags
      buf == IF "precision" \in fl /\ value = 0 THEN <<>>
             ELSE Digits(value, base, IF "upper" \in fl THEN Upper ELSE Lower, BufferSize)
  IN  _ntoa_format(buf, negative, base, prec, width, fl)

(* Whole and fraction of a value in eighths: rounded up behind the half,   *)
(* with a carry into the whole; at the half only if odd (or zero).  With   *)
(* precision 0 the whole is rounded to even instead.                       *)
Round(eighths, prec) ==
  LET tmp   == (eighths % 8) * (10^prec)
      low   == tmp \div 8
      diff  == 2 * (tmp % 8)
      whole == eighths \div 8
      carry == diff > 8 /\ low + 1 >= 10^prec
      w     == IF carry THEN whole + 1 ELSE whole
      frac  == IF carry THEN 0
               ELSE IF diff > 8 \/ (diff = 8 /\ (low = 0 \/ low % 2 = 1)) THEN low + 1 ELSE low
  IN  IF prec = 0 /\ eighths - 8 * w >= 4 /\ w % 2 = 1
        THEN [whole |-> w + 1, frac |-> frac]
        ELSE [whole |-> w, frac |-> frac]

(* %f; value is in eighths.  The two digit loops stop at a full buffer;    *)
(* digits of a precision beyond the table are zeros.                       *)
_ftoa(value, precision, width, flags) ==
  LET negative == value < 0
      given == IF "precision" \in flags THEN precision ELSE DefaultPrec
      extra == IF given > MaxPrec
                 THEN IF given - MaxPrec < BufferSize THEN given - MaxPrec ELSE BufferSize
                 ELSE 0
      prec == given - extra
      r == Round(IF negative THEN 0 - value ELSE value, prec)
      Room(b) == BufferSize - Len(b)
      AddDigits(b, v) == IF Room(b) = 0 THEN b ELSE b \o Digits(v, 10, Lower, Room(b))
      fraction == Fill(AddDigits(Rep("0", extra), r.frac), extra + prec)
      number == AddDigits(IF prec = 0 THEN Rep("0", extra) ELSE Push(fraction, "."), r.whole)
      zero == flags \cap {"-", "0"} = {"0"}
      room == IF zero THEN SignRoom(width, negative, flags) ELSE width
      padded == IF zero THEN Fill(number, room) ELSE number
  IN  _out_rev(WithSign(padded, negative, flags), room, flags)

(* Not a number and the infinities; the text is in reverse. *)
Special(value, width, flags) ==
  CASE value = "nan"  -> _out_rev(<<"n", "a", "n">>, width, flags)
    [] value = "minf" -> _out_rev(<<"f", "n", "i", "-">>, width, flags)
    [] value = "inf"  -> _out_rev(IF "+" \in flags THEN <<"f", "n", "i", "+">>
                                  ELSE <<"f", "n", "i">>, width, flags)

(* The length of str, at most maxsize (of which 0 means none here). *)
_strnlen_s(str, maxsize) ==
  IF maxsize > 0 /\ maxsize < Len(str) THEN maxsize ELSE Len(str)

(* %c and %s: no zero padding. *)
Padded(chars, width, flags) ==
  LET pad == Rep(" ", width - Len(chars))
  IN  IF "-" \in flags THEN chars \o pad ELSE pad \o chars

String(str, precision, width, flags) ==
  LET l == _strnlen_s(str, precision)
      shown == IF "precision" \in flags /\ precision < l THEN precision ELSE l
  IN  Padded(SubSeq(str, 1, shown), width, flags)

-----------------------------------------------------------------------------
(* Directives.  d holds the rest of format and arguments and what has been *)
(* read so far.                                                            *)

EvalFlags(f, args) ==
  LET n == Span(f, FlagChars)
  IN  [rest |-> Drop(f, n), va |-> args, flags |-> {f[k] : k \in 1..n},
       width |-> 0, precision |-> 0]

EvalWidth(d) ==
  LET n == Span(d.rest, ToSet(DigitChars))
      w == Signed(Head(d.va), WordBits)
  IN  IF n > 0
        THEN [d EXCEPT !.width = _atoi(SubSeq(d.rest, 1, n)), !.rest = Drop(@, n)]
      ELSE IF Head(d.rest) = "*"
        THEN [d EXCEPT !.flags = IF w < 0 THEN @ \cup {"-"} ELSE @,
                       !.width = IF w < 0 THEN 0 - w ELSE w,
                       !.rest = Tail(@), !.va = Tail(@)]
      ELSE d

(* A negative precision is 0 (in C it is none). *)
EvalPrecision(d) ==
  LET f == Tail(d.rest)
      n == Span(f, ToSet(DigitChars))
      p == Signed(Head(d.va), WordBits)
      e == [d EXCEPT !.flags = @ \cup {"precision"}, !.rest = f]
  IN  IF Head(d.rest) # "." THEN d
      ELSE IF n > 0
        THEN [e EXCEPT !.precision = _atoi(SubSeq(f, 1, n)), !.rest = Drop(f, n)]
      ELSE IF Head(f) = "*"
        THEN [e EXCEPT !.precision = IF p > 0 THEN p ELSE 0,
                       !.rest = Tail(f), !.va = Tail(@)]
      ELSE e

(* ptrdiff_t and size_t are as long as a long, intmax_t is a long long. *)
EvalLength(d) ==
  LET c == Head(d.rest)
      twice == Len(d.rest) > 1 /\ d.rest[2] = c
      Set(names, n) == [d EXCEPT !.flags = @ \cup names, !.rest = Drop(@, n)]
  IN  CASE c = "l" /\ twice     -> Set({"long", "long long"}, 2)
        [] c = "h" /\ twice     -> Set({"short", "char"}, 2)
        [] c = "h" /\ ~twice    -> Set({"short"}, 1)
        [] c = "j"              -> Set({"long long"}, 1)
        [] c \in {"t", "z"} \/ (c = "l" /\ ~twice) -> Set({"long"}, 1)
        [] OTHER                -> d

Base(spec) ==
  CASE spec \in {"x", "X"} -> 16 [] spec = "o" -> 8 [] spec = "b" -> 2 [] OTHER -> 10

(* The flags an integer conversion heeds. *)
IntegerFlags(spec, flags) ==
  (IF spec = "X" THEN flags \cup {"upper"} ELSE flags)
    \ ((IF Base(spec) = 10 THEN {"#"} ELSE {})
         \cup (IF spec \in {"d", "i"} THEN {} ELSE {"+", " "})
         \cup (IF "precision" \in flags THEN {"0"} ELSE {}))

(* The argument, cut to the type that the length field names. *)
IntegerArg(spec, d) ==
  LET wide == "long long" \in d.flags
      raw  == IF wide THEN d.va[1] + d.va[2] * 2^WordBits ELSE d.va[1]
      bits == IF wide THEN 2 * WordBits
              ELSE IF "long" \in d.flags THEN WordBits
              ELSE IF "char" \in d.flags THEN CharBits
              ELSE IF "short" \in d.flags THEN ShortBits ELSE WordBits
      low  == raw % 2^bits
  IN  IF spec \in {"d", "i"} THEN Signed(low, bits) ELSE low

Integer(spec, d) ==
  LET v == IntegerArg(spec, d)
  IN  [chars |-> _ntoa_long(IF v < 0 THEN 0 - v ELSE v, v < 0, Base(spec),
                            d.precision, d.width, IntegerFlags(spec, d.flags)),
       va |-> Drop(d.va, IF "long long" \in d.flags THEN 2 ELSE 1)]

Float(d) ==
  [chars |-> IF d.va[2] = "special"
               THEN Special(d.va[1], d.width, d.flags)
               ELSE _ftoa(d.va[1], d.precision, d.width, d.flags),
   va |-> Drop(d.va, 2)]

(* %p: all hexadecimal digits of a word, in capitals. *)
Pointer(d) ==
  [chars |-> _ntoa_long(Head(d.va), FALSE, 16, d.precision, WordBits \div 4,
                        d.flags \cup {"0", "upper"}),
   va |-> Tail(d.va)]

(* What the specifier does: the characters it produces, the arguments left. *)
Convert(spec, d) ==
  CASE spec \in {"d", "i", "u", "x", "X", "o", "b"} -> Integer(spec, d)
    [] spec \in {"f", "F"} -> Float(d)
    [] spec = "c" -> [chars |-> Padded(<<Head(d.va)>>, d.width, d.flags), va |-> Tail(d.va)]
    [] spec = "s" -> [chars |-> String(Head(d.va), d.precision, d.width, d.flags),
                      va |-> Tail(d.va)]
    [] spec = "p" -> Pointer(d)
    [] OTHER      -> [chars |-> <<spec>>, va |-> d.va]

-----------------------------------------------------------------------------
(* The functions of printf.h: which output function, and how many          *)
(* characters the memory may take.                                         *)

Bounded == {"snprintf", "vsnprintf"}
Out(c) ==
  CASE c.function \in Bounded \cup {"sprintf"} -> IF c.null THEN "null" ELSE "buffer"
    [] c.function \in {"printf", "vprintf"} -> "char"
    [] c.function = "fctprintf" -> "fct"
MaxLen(c) == IF c.function \in Bounded THEN c.count ELSE 2^WordBits - 1

C == INSTANCE CFormat

(* Faulty: the character at maxlen itself is written too. *)
OutBufferPast(m, i, chars, maxlen) ==
  [k \in DOMAIN m |-> IF k \in i..i + Len(chars) - 1 /\ k <= maxlen
                        THEN chars[k - i + 1] ELSE m[k]]

(* _out_buffer for the characters from index i on. *)
_out_buffer(m, i, chars, maxlen) ==
  [k \in DOMAIN m |-> IF k \in i..i + Len(chars) - 1 /\ k < maxlen
                        THEN chars[k - i + 1] ELSE m[k]]

(* _out_char and _out_fct pass on every character but NUL. *)
_out_char(s, chars) == s \o SelectSeq(chars, LAMBDA c : c # "NUL")

Give(i, chars) ==
  /\ mem' = IF Out(call) = "buffer" THEN _out_buffer(mem, i, chars, MaxLen(call)) ELSE mem
  /\ sink' = IF Out(call) \in {"char", "fct"} THEN _out_char(sink, chars) ELSE sink

Produce(chars) ==
  /\ Give(idx, chars)
  /\ idx' = idx + Len(chars) /\ text' = text \o chars

Begin(c) ==
  /\ call' = c /\ format' = C!Format(c.items) /\ va' = C!Arguments(c.items)
  /\ idx' = 0 /\ ret' = -1
  /\ mem' = [k \in 0..MemSize - 1 |-> "?"] /\ sink' = <<>> /\ text' = <<>>

Start == Idle /\ \E k \in DOMAIN Calls : \E c \in Calls[k] : Begin(c)

Plain ==
  /\ ~Idle /\ format # <<>> /\ Head(format) # "%"
  /\ Produce(<<Head(format)>>)
  /\ format' = Tail(format)
  /\ UNCHANGED <<call, va, ret>>

Directive ==
  /\ ~Idle /\ format # <<>> /\ Head(format) = "%"
  /\ LET d == EvalLength(EvalPrecision(EvalWidth(EvalFlags(Tail(format), va))))
         c == Convert(Head(d.rest), d)
     IN  /\ Produce(c.chars)
         /\ format' = Tail(d.rest) /\ va' = c.va
  /\ UNCHANGED <<call, ret>>

(* Where the NUL goes; maxlen - 1U wraps around for 0. *)
LastIndex(maxlen) ==
  IF idx < maxlen THEN idx ELSE (maxlen - 1) % 2^WordBits

Terminate ==
  /\ ~Idle /\ format = <<>> /\ ret = -1
  /\ Give(LastIndex(MaxLen(call)), <<"NUL">>)
  /\ ret' = idx
  /\ UNCHANGED <<call, format, va, idx, text>>

PrintfInit ==
  /\ call = [function |-> "none"] /\ format = <<>> /\ va = <<>> /\ idx = 0 /\ ret = -1
  /\ mem = <<>> /\ sink = <<>> /\ text = <<>>

Return ==
  /\ ~Idle /\ ret # -1
  /\ call' = [function |-> "none"] /\ format' = <<>> /\ va' = <<>> /\ idx' = 0 /\ ret' = -1
  /\ mem' = <<>> /\ sink' = <<>> /\ text' = <<>>

PrintfNext == Plain \/ Directive \/ Terminate \/ Return \/ Start

-----------------------------------------------------------------------------
(* Properties *)

(* Every call made of directives within CFormat's Conforming produces what *)
(* the C standard says, and has read exactly the arguments it was given:   *)
(* parsing, conversion to the argument's type, digits, sign, prefix and    *)
(* both kinds of padding together.                                         *)
Formatted ==
  ~Idle /\ ret # -1 /\ (\A k \in DOMAIN call.items : C!Conforming(call.items[k])) =>
    text = C!Result(call.items) /\ va = <<>>

(* What printf.h says of snprintf: at most count characters are written,   *)
(* the text is cut off but terminated, and the value returned is the       *)
(* length of the whole text, also for a count of 0; the characters behind  *)
(* count are not touched at any time.                                      *)
CutOff ==
  ~Idle =>
    LET max == MaxLen(call)
        n == IF idx < max THEN idx ELSE max - 1
    IN  /\ \A k \in DOMAIN mem : k >= max => mem[k] = "?"
        /\ ret # -1 => ret = Len(text)
        /\ ret # -1 /\ Out(call) = "buffer" =>
             \A k \in DOMAIN mem :
               mem[k] = IF k < n THEN text[k + 1] ELSE IF k = n THEN "NUL" ELSE "?"
=============================================================================
