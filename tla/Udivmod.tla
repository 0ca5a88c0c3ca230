------------------------------ MODULE Udivmod -------------------------------
(***************************************************************************)
(* __udivmoddi4 of lib/gcc.c, the division that the compiler calls for     *)
(* uint64_t: printf needs it for %llu.  One step is one turn of a loop.    *)
(* pow2[k] is 2^k; pow2[Bits] is the modulus of uint64_t.                  *)
(***************************************************************************)
EXTENDS Integers

CONSTANTS
  Bits,      \* 64
  pow2,      \* the powers of two up to 2^Bits
  Operands   \* the pairs <<num, den>> to divide

ASSUME WidthAssumption ==
  /\ Bits \in Nat \ {0}
  /\ pow2 \in [0..Bits -> Nat \ {0}]
  /\ pow2[0] = 1 /\ \A k \in 0..Bits-1 : pow2[k + 1] = 2 * pow2[k]
ASSUME OperandAssumption == Operands \subseteq (0..pow2[Bits]-1) \X (0..pow2[Bits]-1)

VARIABLES
  num, den, quot, qbit,   \* as in the code; num ends as the remainder
  dpc,                    \* "idle", "justify", "divide", "done", or "trap"
  given                   \* history: <<num, den>> as passed

divvars == <<num, den, quot, qbit, dpc, given>>

DivIdle == dpc = "idle"

DivInit ==
  /\ num = 0 /\ den = 0 /\ quot = 0 /\ qbit = 0
  /\ dpc = "idle" /\ given = <<0, 0>>

(* A division by 0 is made to raise the exception that halts the kernel. *)
DivCall ==
  /\ DivIdle
  /\ \E p \in Operands :
       /\ num' = p[1] /\ den' = p[2] /\ given' = p
       /\ dpc' = IF p[2] = 0 THEN "trap" ELSE "justify"
  /\ quot' = 0 /\ qbit' = 1

(* while ((int64_t)den >= 0): the sign bit is the highest one. *)
Positive(d) == d < pow2[Bits - 1]

Justify ==
  /\ dpc = "justify" /\ Positive(den)
  /\ den' = 2 * den /\ qbit' = 2 * qbit
  /\ UNCHANGED <<num, quot, dpc, given>>

Justified ==
  /\ dpc = "justify" /\ ~Positive(den)
  /\ dpc' = "divide"
  /\ UNCHANGED <<num, den, quot, qbit, given>>

(* Faulty: a remainder as large as the divisor is left. *)
GoesLess(d, n) == d < n

(* den <= num *)
Goes(d, n) == d <= n

Divide ==
  /\ dpc = "divide" /\ qbit # 0
  /\ num' = IF Goes(den, num) THEN num - den ELSE num
  /\ quot' = IF Goes(den, num) THEN quot + qbit ELSE quot
  /\ den' = den \div 2 /\ qbit' = qbit \div 2
  /\ UNCHANGED <<dpc, given>>

Divided ==
  /\ dpc = "divide" /\ qbit = 0
  /\ dpc' = "done"
  /\ UNCHANGED <<num, den, quot, qbit, given>>

DivReturn ==
  /\ dpc = "done"
  /\ num' = 0 /\ den' = 0 /\ quot' = 0 /\ qbit' = 0 /\ dpc' = "idle" /\ given' = <<0, 0>>

Trapped == dpc = "trap" /\ UNCHANGED divvars

DivNext == DivCall \/ Justify \/ Justified \/ Divide \/ Divided \/ DivReturn \/ Trapped

DivSpec == DivInit /\ [][DivNext]_divvars

-----------------------------------------------------------------------------
(* Properties *)

(* The routine returns the quotient and the remainder of its arguments,    *)
(* for every divisor but 0, and no shift or subtraction on the way leaves  *)
(* the range of uint64_t.                                                  *)
DivisionRight ==
  /\ dpc = "done" =>
       given[1] = quot * given[2] + num /\ num < given[2] /\ num >= 0
  /\ {num, den, quot, qbit} \subseteq 0..pow2[Bits]-1
=============================================================================
