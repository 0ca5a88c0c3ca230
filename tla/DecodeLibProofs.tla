--------------------------- MODULE DecodeLibProofs --------------------------
(***************************************************************************)
(* Proofs about the keyboard decoder and two functions of the library.     *)
(*                                                                         *)
(* usleep does not return early, for every width of the counter's halves,  *)
(* every unit and every time asked for: what it subtracted and the ticks   *)
(* it has not read yet are together the ticks since the call.              *)
(*                                                                         *)
(* __udivmoddi4 is right for every pair of operands and every width.  The  *)
(* invariant of the code: the shifted divisor and qbit belong to the same  *)
(* power of two, the dividend is what quot accounts for and num together,  *)
(* and num is less than twice the shifted divisor.                         *)
(*                                                                         *)
(* decode() gets back into step by itself, and each key that begins at     *)
(* rest does what it means, for any number of keys and of lost bytes: a    *)
(* whole event leads from any of the nine states to one of five, the next  *)
(* to one of two, the third to rest.                                       *)
(***************************************************************************)
EXTENDS KbdDecode, Udivmod, Sleep, TLAPS

-----------------------------------------------------------------------------
(* Division *)

P == pow2[Bits]

(* den and qbit are both shifted by k. *)
Shifted(k) == qbit = pow2[k] /\ den = given[2] * pow2[k]

Balance == given[1] = quot * given[2] + num

InRange(x) == x \in Int /\ 0 <= x /\ x < P

DivInv ==
  /\ InRange(num) /\ InRange(den) /\ InRange(quot) /\ InRange(qbit)
  /\ given \in Int \X Int /\ InRange(given[1]) /\ InRange(given[2])
  /\ dpc \in {"idle", "justify", "divide", "done", "trap"}
  /\ dpc = "justify" =>
       /\ given[2] > 0 /\ quot = 0 /\ num = given[1]
       /\ \E k \in 0..Bits-1 : Shifted(k)
  /\ dpc = "divide" =>
       /\ given[2] > 0 /\ Balance
       /\ \/ qbit = 0 /\ num < given[2]
          \/ num < 2 * den /\ \E k \in 0..Bits-1 : Shifted(k)
  /\ dpc = "done" => Balance /\ num < given[2]

(* The powers of two. *)
LEMMA Powers ==
  /\ Bits \in Int /\ Bits >= 1
  /\ pow2[0] = 1
  /\ \A k \in 0..Bits : pow2[k] \in Int /\ pow2[k] >= 1
  /\ \A k \in 0..Bits-1 : k + 1 \in 0..Bits /\ pow2[k + 1] = 2 * pow2[k]
BY WidthAssumption

LEMMA WidthType == P \in Int /\ P >= 2 /\ pow2[Bits - 1] \in Int /\ P = 2 * pow2[Bits - 1]
<1>1. Bits - 1 \in 0..Bits-1 /\ (Bits - 1) + 1 = Bits /\ Bits - 1 \in 0..Bits
  BY Powers
<1> QED
  BY <1>1, Powers DEF P

(* A factor that is at least 1 does not make a product smaller. *)
LEMMA Factor ==
  ASSUME NEW a \in Int, NEW b \in Int, a >= 0, b >= 1
  PROVE  a * b \in Int /\ a <= a * b
<1>1. a * b = a * (b - 1) + a
  BY SMT
<1>2. a * (b - 1) >= 0
  BY SMT
<1> QED
  BY <1>1, <1>2

LEMMA DivInitInv == DivInit => DivInv
<1> SUFFICES ASSUME DivInit PROVE DivInv
  OBVIOUS
<1>1. InRange(0)
  BY WidthType DEF InRange
<1> QED
  BY <1>1 DEF DivInit, DivInv

LEMMA DivCallInv == DivInv /\ DivCall => DivInv'
<1> SUFFICES ASSUME DivInv, DivCall PROVE DivInv'
  OBVIOUS
<1>1. PICK p \in Operands : /\ num' = p[1] /\ den' = p[2] /\ given' = p
                            /\ dpc' = IF p[2] = 0 THEN "trap" ELSE "justify"
  BY DEF DivCall
<1>2. p \in Int \X Int /\ InRange(p[1]) /\ InRange(p[2])
  BY OperandAssumption, WidthType DEF InRange, P
<1>3. InRange(0) /\ InRange(1)
  BY WidthType DEF InRange
<1>4. quot' = 0 /\ qbit' = 1
  BY DEF DivCall
<1>5. ASSUME p[2] # 0 PROVE p[2] > 0 /\ (\E k \in 0..Bits-1 : Shifted(k)')
  <2>1. 0 \in 0..Bits-1
    BY Powers
  <2>2. Shifted(0)'
    BY <1>1, <1>2, <1>4, Powers DEF Shifted, InRange
  <2> QED
    BY <1>2, <1>5, <2>1, <2>2 DEF InRange
<1> QED
  BY <1>1, <1>2, <1>3, <1>4, <1>5 DEF DivInv

LEMMA JustifyInv == DivInv /\ Justify => DivInv'
<1> SUFFICES ASSUME DivInv, Justify PROVE DivInv'
  OBVIOUS
<1>1. /\ den' = 2 * den /\ qbit' = 2 * qbit /\ den < pow2[Bits - 1]
      /\ UNCHANGED <<num, quot, dpc, given>> /\ dpc = "justify"
  BY DEF Justify, Positive
<1>2. PICK k \in 0..Bits-1 : Shifted(k)
  BY <1>1 DEF DivInv
<1>3. given[2] \in Int /\ given[2] >= 1 /\ pow2[k] \in Int /\ pow2[k] >= 1
  BY <1>1, Powers DEF DivInv, InRange
<1>4. qbit <= den
  BY <1>2, <1>3, Factor DEF Shifted
<1>5. k # Bits - 1
  BY <1>1, <1>2, <1>4, WidthType DEF Shifted, DivInv, InRange
<1>6. k + 1 \in 0..Bits-1 /\ pow2[k + 1] = 2 * pow2[k]
  BY <1>5, Powers
<1>7. InRange(den') /\ InRange(qbit')
  BY <1>1, <1>4, WidthType DEF DivInv, InRange
<1>8. Shifted(k + 1)'
  BY <1>1, <1>2, <1>3, <1>6 DEF Shifted
<1> QED
  BY <1>1, <1>6, <1>7, <1>8 DEF DivInv, InRange, Balance

LEMMA JustifiedInv == DivInv /\ Justified => DivInv'
<1> SUFFICES ASSUME DivInv, Justified PROVE DivInv'
  OBVIOUS
<1>1. /\ dpc = "justify" /\ dpc' = "divide" /\ ~(den < pow2[Bits - 1])
      /\ UNCHANGED <<num, den, quot, qbit, given>>
  BY DEF Justified, Positive
<1>2. num < 2 * den
  BY <1>1, WidthType DEF DivInv, InRange
<1>3. Balance
  BY <1>1 DEF DivInv, Balance, InRange
<1> QED
  BY <1>1, <1>2, <1>3 DEF DivInv, InRange, Balance, Shifted

LEMMA DivideInv == DivInv /\ Divide => DivInv'
<1> SUFFICES ASSUME DivInv, Divide PROVE DivInv'
  OBVIOUS
<1> DEFINE g == given[2]
<1>1. /\ dpc = "divide" /\ dpc' = dpc /\ given' = given /\ qbit # 0
      /\ num' = (IF den <= num THEN num - den ELSE num)
      /\ quot' = (IF den <= num THEN quot + qbit ELSE quot)
      /\ den' = den \div 2 /\ qbit' = qbit \div 2
  BY DEF Divide, Goes
<1>2. /\ num < 2 * den
      /\ g \in Int /\ g >= 1
      /\ num \in Int /\ den \in Int /\ quot \in Int /\ qbit \in Int
      /\ num >= 0 /\ den >= 0 /\ quot >= 0 /\ qbit >= 0
  BY <1>1 DEF DivInv, InRange
<1>3. PICK k \in 0..Bits-1 : Shifted(k)
  BY <1>1 DEF DivInv
<1>4. num' \in Int /\ 0 <= num' /\ num' < den /\ quot' \in Int /\ quot' >= 0
  BY <1>1, <1>2
<1>5. Balance'
  <2>1. given[1] = quot * g + num /\ den = qbit * g
    BY <1>1, <1>2, <1>3, Powers DEF DivInv, Balance, Shifted
  <2>2. CASE den <= num
    <3>1. (quot + qbit) * g = quot * g + qbit * g
      BY <1>2
    <3> HIDE DEF g
    <3>2. quot * g \in Int /\ qbit * g \in Int
      BY <1>2
    <3>3. given[1] = (quot + qbit) * g + (num - den)
      BY <1>2, <2>1, <3>1, <3>2
    <3> QED
      BY <1>1, <2>2, <3>3 DEF Balance, g
  <2>3. CASE ~(den <= num)
    BY <1>1, <2>1, <2>3 DEF Balance
  <2> QED
    BY <2>2, <2>3
<1>6. InRange(quot')
  <2>1. quot' <= quot' * g /\ quot' * g \in Int
    BY <1>2, <1>4, Factor
  <2>2. given[1] = quot' * g + num'
    BY <1>1, <1>5 DEF Balance
  <2> HIDE DEF g
  <2>3. quot' <= given[1]
    BY <1>4, <2>1, <2>2
  <2> QED
    BY <1>4, <2>3, WidthType DEF DivInv, InRange
<1>7. InRange(num') /\ InRange(den') /\ InRange(qbit')
  BY <1>1, <1>2, <1>4, WidthType DEF DivInv, InRange
<1>8. CASE k = 0
  <2>1. qbit = 1 /\ den = g
    BY <1>2, <1>3, <1>8, Powers DEF Shifted
  <2>2. qbit' = 0 /\ num' < g
    BY <1>1, <1>4, <2>1
  <2> QED
    BY <1>1, <1>2, <1>5, <1>6, <1>7, <2>2 DEF DivInv
<1>9. CASE k # 0
  <2>1. k - 1 \in 0..Bits-1 /\ (k - 1) + 1 = k /\ k - 1 \in 0..Bits
    BY <1>9, Powers
  <2>2. pow2[k] = 2 * pow2[k - 1] /\ pow2[k - 1] \in Int
    BY <2>1, Powers
  <2>3. qbit = 2 * pow2[k - 1]
    BY <1>3, <2>2 DEF Shifted
  <2>4. den = 2 * (g * pow2[k - 1]) /\ g * pow2[k - 1] \in Int
    BY <1>2, <1>3, <2>2 DEF Shifted
  <2>5. den' = g * pow2[k - 1] /\ qbit' = pow2[k - 1]
    BY <1>1, <2>2, <2>3, <2>4
  <2>6. Shifted(k - 1)' /\ num' < 2 * den'
    BY <1>1, <1>4, <2>4, <2>5 DEF Shifted
  <2> QED
    BY <1>1, <1>2, <1>5, <1>6, <1>7, <2>1, <2>6 DEF DivInv
<1> QED
  BY <1>8, <1>9

LEMMA DivNextInv == DivInv /\ [DivNext]_divvars => DivInv'
<1> SUFFICES ASSUME DivInv, [DivNext]_divvars PROVE DivInv'
  OBVIOUS
<1>1. CASE DivCall
  BY <1>1, DivCallInv
<1>2. CASE Justify
  BY <1>2, JustifyInv
<1>3. CASE Justified
  BY <1>3, JustifiedInv
<1>4. CASE Divide
  BY <1>4, DivideInv
<1>5. CASE Divided
  <2>1. qbit = 0 /\ dpc = "divide" /\ dpc' = "done" /\ UNCHANGED <<num, den, quot, qbit, given>>
    BY <1>5 DEF Divided
  <2>2. ~(\E k \in 0..Bits-1 : Shifted(k))
    BY <2>1, Powers DEF Shifted
  <2> QED
    BY <2>1, <2>2 DEF DivInv, Balance, InRange
<1>6. CASE DivReturn
  <2>1. InRange(0)
    BY WidthType DEF InRange
  <2> QED
    BY <1>6, <2>1 DEF DivReturn, DivInv
<1>7. CASE Trapped
  BY <1>7 DEF Trapped, divvars, DivInv, Balance, Shifted, InRange
<1>8. CASE UNCHANGED divvars
  BY <1>8 DEF divvars, DivInv, Balance, Shifted, InRange
<1> QED
  BY <1>1, <1>2, <1>3, <1>4, <1>5, <1>6, <1>7, <1>8 DEF DivNext

(* __udivmoddi4 returns quotient and remainder, and none of its shifts and *)
(* subtractions overflows, whatever the operands and the width.            *)
THEOREM Division == DivSpec => []DivisionRight
<1>1. DivInv => DivisionRight
  <2> SUFFICES ASSUME DivInv PROVE DivisionRight
    OBVIOUS
  <2>1. {num, den, quot, qbit} \subseteq 0..pow2[Bits]-1
    BY WidthType DEF DivInv, InRange, P
  <2>2. dpc = "done" => given[1] = quot * given[2] + num /\ num < given[2] /\ num >= 0
    BY DEF DivInv, Balance, InRange
  <2> QED
    BY <2>1, <2>2 DEF DivisionRight
<1> QED
  BY <1>1, DivInitInv, DivNextInv, PTL DEF DivSpec
-----------------------------------------------------------------------------
(* Sleep *)

Clock == lo + hi * Half

(* The counter goes from a to b in d ticks, around its end at most once. *)
After(a, b, d) == b = a + d \/ b = a + d - Modulus

SleepTypes ==
  /\ {lo, hi, low, asked} \subseteq 0..Half-1
  /\ oldcounter \in 0..Modulus-1 /\ rem \in Int
  /\ ticks \in 0..Enough
  /\ torn \in BOOLEAN
  /\ spc \in {"start", "ready", "dead", "oldlo", "oldhi", "hlt", "asleep", "lo", "hi", "returned"}

(* Of the ticks since the call, d came after the reading in oldcounter;    *)
(* no more than the others have been subtracted from rem.                  *)
Accounted(d) ==
  /\ After(oldcounter, Clock, d)
  /\ asked - (ticks - d) * Unit <= rem /\ rem <= asked

(* No carry and at most d ticks have come since the low half was read. *)
Whole(d) == low <= lo /\ lo - low <= d

SleepInv ==
  /\ SleepTypes
  /\ ~torn /\ ticks < Enough =>
       /\ spc \in {"oldlo", "oldhi"} => rem = asked
       /\ spc = "oldhi" => Whole(ticks)
       /\ spc \in {"hlt", "asleep", "lo", "hi", "returned"} =>
            \E d \in 0..ticks : Accounted(d) /\ (spc = "hi" => Whole(d))
       /\ spc = "returned" => rem <= 0
(* Remainders. *)
LEMMA ModSmall ==
  ASSUME NEW m \in Nat \ {0}, NEW x \in Int
  PROVE  /\ 0 <= x /\ x < m => x % m = x
         /\ x = m => x % m = 0
         /\ -m <= x /\ x < 0 => x % m = x + m
BY SMT

LEMMA ModShift ==
  ASSUME NEW m \in Nat \ {0}, NEW x \in Int, NEW k \in Int
  PROVE  (x + k * m) % m = x % m
<1> DEFINE q == x \div m
           r == x % m
<1>1. q \in Int /\ r \in Int /\ 0 <= r /\ r < m
  BY SMT
<1>2. x = q * m + r
  BY SMT
<1> HIDE DEF q, r
<1>3. x + k * m = (q + k) * m + r
  BY <1>1, <1>2, SMT
<1>4. ((q + k) * m + r) % m = r /\ q + k \in Int
  BY <1>1, SMT
<1> QED
  BY <1>3, <1>4 DEF r

(* The modulus of the 64-bit counter leaves room for any time asked for.   *)
LEMMA Room ==
  /\ Half \in Nat /\ Half >= 2 /\ Unit \in Nat /\ Unit >= 1
  /\ Modulus \in Nat /\ Modulus >= 2 * Half
  /\ Enough \in Nat /\ Enough <= Half + 1 /\ Enough * Unit > Half
  /\ (Enough - 1) * Unit <= Half
<1>1. Half \in Nat /\ Half >= 2 /\ Unit \in Nat /\ Unit >= 1
  BY SleepAssumption
<1>2. Modulus \in Nat /\ Modulus >= 2 * Half
  BY <1>1, SMT DEF Modulus
<1> DEFINE q == Half \div Unit
<1>3. q \in Nat /\ q * Unit <= Half /\ (q + 1) * Unit > Half
  BY <1>1, SMT
<1>4. Enough = q + 1
  BY DEF Enough
<1> HIDE DEF q
<1>5. q <= q * Unit
  BY <1>1, <1>3, SMT
<1>6. (Enough - 1) * Unit = q * Unit
  BY <1>1, <1>3, <1>4
<1> QED
  BY <1>1, <1>2, <1>3, <1>4, <1>5, <1>6

(* SignedLong gives back a number near 0 that went around the modulus.     *)
LEMMA SignedNear ==
  ASSUME NEW x \in Int, -Half <= x, x < Half, NEW k \in Int
  PROVE  SignedLong(x + k * Modulus) = x
<1>1. Modulus \in Nat \ {0} /\ Modulus >= 2 * Half /\ Half \in Nat
  BY Room
<1>2. (x + k * Modulus) % Modulus = x % Modulus
  BY <1>1, ModShift
<1>3. x % Modulus = IF x < 0 THEN x + Modulus ELSE x
  <2>1. x < 0 => x % Modulus = x + Modulus
    BY <1>1, ModSmall
  <2>2. x >= 0 => x % Modulus = x
    BY <1>1, ModSmall
  <2> QED
    BY <2>1, <2>2
<1> DEFINE h == Modulus \div 2
<1>4. h \in Int /\ 2 * h <= Modulus /\ Modulus <= 2 * h + 1 /\ Modulus \div 2 = h
  BY <1>1
<1> HIDE DEF h
<1>5. SignedLong(x + k * Modulus) =
        IF x % Modulus >= h THEN (x % Modulus) - Modulus ELSE x % Modulus
  BY <1>2, <1>4 DEF SignedLong
<1> QED
  BY <1>1, <1>3, <1>4, <1>5

LEMMA SignedType == ASSUME NEW x \in Int PROVE SignedLong(x) \in Int
<1>1. Modulus \in Nat \ {0}
  BY Room
<1>2. x % Modulus \in Int
  BY <1>1
<1> QED
  BY <1>1, <1>2 DEF SignedLong

(* A counter in two halves is in range, and a tick takes it to the next    *)
(* value or from the last one to 0.                                        *)
LEMMA HalvesRange ==
  ASSUME NEW a \in 0..Half-1, NEW b \in 0..Half-1
  PROVE  a + b * Half \in 0..Modulus-1
<1>1. Half \in Nat /\ b * Half \in Int /\ b * Half >= 0 /\ b * Half <= (Half - 1) * Half
  BY Room, SMT
<1>2. (Half - 1) * Half = Modulus - Half /\ Modulus \in Nat
  BY <1>1, Room, SMT DEF Modulus
<1> QED
  BY <1>1, <1>2

LEMMA Tick ==
  ASSUME SleepTypes, pit_handler
  PROVE  /\ lo' \in 0..Half-1 /\ hi' \in 0..Half-1
         /\ lo' = IF lo = Half - 1 THEN 0 ELSE lo + 1
         /\ After(Clock, Clock', 1)
<1>1. /\ lo \in 0..Half-1 /\ hi \in 0..Half-1 /\ Half \in Nat \ {0}
      /\ lo' = (lo + 1) % Half
      /\ hi' = IF lo = Half - 1 THEN (hi + 1) % Half ELSE hi
  BY Room DEF SleepTypes, pit_handler
<1>2. lo' = IF lo = Half - 1 THEN 0 ELSE lo + 1
  BY <1>1, ModSmall
<1>3. hi' = IF lo = Half - 1 THEN IF hi = Half - 1 THEN 0 ELSE hi + 1 ELSE hi
  BY <1>1, ModSmall
<1>4. (hi + 1) * Half = hi * Half + Half /\ (Half - 1) * Half = Modulus - Half
      /\ hi * Half \in Int /\ Modulus \in Nat /\ 0 * Half = 0
  BY <1>1, Room, SMT DEF Modulus
<1>5. CASE lo # Half - 1
  BY <1>1, <1>2, <1>3, <1>4, <1>5 DEF After, Clock
<1>6. CASE lo = Half - 1 /\ hi # Half - 1
  BY <1>1, <1>2, <1>3, <1>4, <1>6 DEF After, Clock
<1>7. CASE lo = Half - 1 /\ hi = Half - 1
  <2>1. Clock = Modulus - 1 /\ Clock' = 0
    BY <1>1, <1>2, <1>3, <1>4, <1>7 DEF Clock
  <2> QED
    BY <1>1, <1>2, <1>3, <1>4, <1>7, <2>1 DEF After
<1> QED
  BY <1>5, <1>6, <1>7

LEMMA AfterNext ==
  ASSUME NEW a \in 0..Modulus-1, NEW b \in 0..Modulus-1, NEW c \in 0..Modulus-1,
         NEW d \in Nat, d <= Half, After(a, b, d), After(b, c, 1)
  PROVE  After(a, c, d + 1)
<1>1. Modulus \in Nat /\ Half \in Nat /\ Half >= 2 /\ Modulus >= 2 * Half
  BY Room
<1> QED
  BY <1>1 DEF After

LEMMA SleepInitInv == SleepInit => SleepInv
<1> SUFFICES ASSUME SleepInit PROVE SleepInv
  OBVIOUS
<1>1. 0 \in 0..Half-1 /\ 0 \in 0..Modulus-1 /\ 0 \in 0..Enough
  BY Room
<1>2. torn \in BOOLEAN
  BY Zenon DEF SleepInit
<1> QED
  BY <1>1, <1>2 DEF SleepInit, SleepInv, SleepTypes

(* A tick is one more that the program has to account for.                 *)
LEMMA TickInv == SleepInv /\ pit_handler => SleepInv'
<1> SUFFICES ASSUME SleepInv, pit_handler PROVE SleepInv'
  OBVIOUS
<1>1. /\ UNCHANGED <<rem, oldcounter, low, asked>>
      /\ spc' = IF spc = "asleep" THEN "lo" ELSE spc
      /\ spc # "ready" => ticks' = IF ticks < Enough THEN ticks + 1 ELSE ticks
      /\ torn' = (torn \/ (spc \in {"oldhi", "hi"} /\ lo = Half - 1))
      /\ SleepTypes /\ ticks \in 0..Enough
  BY DEF pit_handler, locals, SleepInv, SleepTypes
<1>2. /\ lo' \in 0..Half-1 /\ hi' \in 0..Half-1
      /\ lo' = IF lo = Half - 1 THEN 0 ELSE lo + 1
      /\ After(Clock, Clock', 1)
  BY <1>1, Tick
<1>3. SleepTypes'
  <2>1. torn' \in BOOLEAN
    BY <1>1, Zenon DEF SleepTypes
  <2>2. ticks' \in 0..Enough
    BY Room DEF pit_handler, SleepInv, SleepTypes
  <2> QED
    BY <1>1, <1>2, <2>1, <2>2 DEF SleepTypes
<1>4. ASSUME ~torn', ticks' < Enough, spc # "ready"
      PROVE  ~torn /\ ticks < Enough /\ ticks' = ticks + 1
             /\ (spc \in {"oldhi", "hi"} => lo' = lo + 1)
  BY <1>1, <1>2, <1>4
<1>5. ASSUME ~torn', ticks' < Enough, spc \in {"hlt", "asleep", "lo", "hi", "returned"}
      PROVE  \E d \in 0..ticks' : Accounted(d)' /\ (spc = "hi" => Whole(d)')
  <2>1. PICK d \in 0..ticks : Accounted(d) /\ (spc = "hi" => Whole(d))
    BY <1>4, <1>5 DEF SleepInv
  <2>2. d + 1 \in 0..ticks'
    BY <1>1, <1>4, <1>5, Room
  <2>3. After(oldcounter, Clock', d + 1)
    <3>1. Clock \in 0..Modulus-1 /\ Clock' \in 0..Modulus-1 /\ oldcounter \in 0..Modulus-1
      BY <1>1, <1>2, HalvesRange DEF SleepTypes, Clock
    <3>2. d \in Nat /\ d <= Half
      BY <1>1, <1>4, <1>5, Room
    <3>3. After(oldcounter, Clock, d) /\ After(Clock, Clock', 1)
      BY <1>2, <2>1 DEF Accounted
    <3> QED
      BY <3>1, <3>2, <3>3, AfterNext
  <2>4. Accounted(d + 1)'
    <3>1. ticks' - (d + 1) = ticks - d
      BY <1>1, <1>4, <1>5, Room
    <3> QED
      BY <3>1, <1>1, <2>1, <2>3 DEF Accounted, After
  <2>5. spc = "hi" => Whole(d + 1)'
    BY <1>1, <1>2, <1>4, <1>5, <2>1, Room DEF Whole, SleepTypes
  <2> QED
    BY <2>2, <2>4, <2>5
<1>6. ASSUME ~torn', ticks' < Enough, spc = "oldhi" PROVE Whole(ticks)'
  BY <1>1, <1>4, <1>6, Room DEF Whole, SleepInv, SleepTypes
<1> QED
  BY <1>1, <1>3, <1>4, <1>5, <1>6 DEF SleepInv
(* The low half has not been read again since the carry came: what usleep  *)
(* puts together is the counter of lo - low ticks ago.                     *)
LEMMA ReadingInv ==
  ASSUME SleepInv, spc \in {"oldhi", "hi"}
  PROVE  /\ low + hi * Half \in 0..Modulus-1
         /\ Clock = (low + hi * Half) + (lo - low)
<1>1. {lo, hi, low} \subseteq 0..Half-1 /\ Half \in Nat
  BY Room DEF SleepInv, SleepTypes
<1>2. lo \in Int /\ low \in Int /\ hi * Half \in Int
  BY <1>1
<1>3. low + hi * Half \in 0..Modulus-1
  BY <1>1, HalvesRange
<1> QED
  BY <1>2, <1>3 DEF Clock

(* The first reading: the ticks before it are never subtracted.            *)
LEMMA ReadOldInv == SleepInv /\ ReadOld => SleepInv'
<1> SUFFICES ASSUME SleepInv, ReadOld PROVE SleepInv'
  OBVIOUS
<1>1. /\ spc = "oldhi" /\ spc' = Loop(rem) /\ oldcounter' = low + hi * Half
      /\ UNCHANGED <<lo, hi, rem, low, asked, ticks, torn>> /\ SleepTypes
  BY DEF ReadOld, SleepInv
<1>2. SleepTypes'
  BY <1>1, ReadingInv DEF SleepTypes, Loop
<1>3. rem \in Int /\ spc' \in {"hlt", "returned"} /\ (spc' = "returned" => rem <= 0)
  BY <1>1 DEF Loop, SleepTypes
<1>4. ASSUME ~torn', ticks' < Enough PROVE \E d \in 0..ticks' : Accounted(d)'
  <2>1. rem = asked /\ Whole(ticks)
    BY <1>1, <1>4 DEF SleepInv
  <2> PICK e \in 0..ticks : e = lo - low
    BY <1>1, <2>1, Room DEF Whole, SleepTypes
  <2>2. e \in 0..ticks /\ ticks \in Nat /\ asked \in Int
    BY <1>1, <2>1, Room DEF SleepTypes
  <2>3. Clock' = oldcounter' + e
    BY <1>1, ReadingInv DEF Clock
  <2>4. (ticks - e) * Unit \in Int /\ (ticks - e) * Unit >= 0
    BY <2>2, Room, SMT
  <2>5. Accounted(e)'
    BY <1>1, <2>1, <2>2, <2>3, <2>4 DEF Accounted, After
  <2> QED
    BY <1>1, <2>2, <2>5
<1> QED
  BY <1>1, <1>2, <1>3, <1>4 DEF SleepInv

(* A later reading: the difference may have gone around the modulus, what  *)
(* is left in rem does not.                                                *)
LEMMA CountInv == SleepInv /\ Count => SleepInv'
<1> SUFFICES ASSUME SleepInv, Count PROVE SleepInv'
  OBVIOUS
<1> DEFINE n == low + hi * Half
           e == lo - low
<1>1. /\ spc = "hi" /\ spc' = Loop(rem') /\ oldcounter' = n
      /\ rem' = SignedLong(rem - (n - oldcounter) * Unit)
      /\ UNCHANGED <<lo, hi, low, asked, ticks, torn>> /\ SleepTypes
  BY DEF Count, SleepInv, NextOld, Counter
<1>2. /\ n \in 0..Modulus-1 /\ Modulus \in Nat /\ Unit \in Nat /\ oldcounter \in Int
      /\ rem \in Int /\ e \in Int /\ Clock = n + e
  BY <1>1, ReadingInv, Room DEF SleepTypes
<1>3. rem' \in Int
  <2> HIDE DEF n
  <2>1. n \in Int
    BY <1>2
  <2>2. rem - (n - oldcounter) * Unit \in Int
    BY <1>2, <2>1
  <2> QED
    BY <1>1, <2>2, SignedType
<1>4. SleepTypes'
  BY <1>1, <1>2, <1>3 DEF SleepTypes, Loop
<1>5. spc' \in {"hlt", "returned"} /\ (spc' = "returned" => rem' <= 0)
  BY <1>1, <1>3 DEF Loop
<1>6. ASSUME ~torn', ticks' < Enough PROVE \E d \in 0..ticks' : Accounted(d)'
  <2>1. PICK d \in 0..ticks : Accounted(d) /\ Whole(d)
    BY <1>1, <1>6 DEF SleepInv
  <2>2. /\ ticks \in Nat /\ d \in Nat /\ d <= ticks /\ e >= 0 /\ e <= d
        /\ asked \in Int /\ 0 <= asked /\ asked < Half /\ ticks <= Enough - 1
    BY <1>1, <1>6, <2>1, Room DEF Whole, SleepTypes
  <2>3. /\ After(oldcounter, n + e, d)
        /\ asked - (ticks - d) * Unit <= rem /\ rem <= asked
    BY <1>2, <2>1 DEF Accounted
  <2>4. Clock' = n + e /\ e' = e
    BY <1>1, <1>2 DEF Clock
  <2>5. n \in Int /\ oldcounter' = n
    BY <1>1, <1>2
  <2> HIDE DEF n, e
  <2> DEFINE x == rem - (d - e) * Unit
  <2>6. x \in Int /\ asked - (ticks - e) * Unit <= x
    <3>1. (ticks - e) * Unit = (ticks - d) * Unit + (d - e) * Unit
      BY <1>2, <2>2
    <3>2. (ticks - e) * Unit \in Int /\ (ticks - d) * Unit \in Int /\ (d - e) * Unit \in Int
      BY <1>2, <2>2
    <3> QED
      BY <1>2, <2>2, <2>3, <3>1, <3>2
  <2>7. x <= asked
    <3>1. (d - e) * Unit \in Int /\ (d - e) * Unit >= 0
      BY <1>2, <2>2, SMT
    <3> QED
      BY <1>2, <2>2, <2>3, <3>1
  <2>8. -Half <= x /\ x < Half
    <3>1. (ticks - e) * Unit \in Int /\ (ticks - e) * Unit <= (Enough - 1) * Unit
      BY <1>2, <2>2, Room, SMT
    <3>2. (Enough - 1) * Unit \in Int /\ (Enough - 1) * Unit <= Half /\ Half \in Nat
      BY Room
    <3> QED
      BY <2>2, <2>6, <2>7, <3>1, <3>2
  <2>9. rem' = x
    <3>1. CASE n + e = oldcounter + d
      <4>1. n - oldcounter = d - e
        BY <1>2, <2>2, <2>5, <3>1
      <4>2. rem - (n - oldcounter) * Unit = x
        BY <4>1
      <4> HIDE DEF x
      <4>3. x = x + 0 * Modulus
        BY <1>2, <2>6
      <4>4. SignedLong(x + 0 * Modulus) = x
        BY <2>6, <2>8, SignedNear
      <4> QED
        BY <1>1, <4>2, <4>3, <4>4
    <3>2. CASE n + e = oldcounter + d - Modulus
      <4>1. n - oldcounter = (d - e) - Modulus
        BY <1>2, <2>2, <2>5, <3>2
      <4>2. rem - (n - oldcounter) * Unit = x + Unit * Modulus
        <5>1. ((d - e) - Modulus) * Unit = (d - e) * Unit - Unit * Modulus
          BY <1>2, <2>2, SMT
        <5>2. (d - e) * Unit \in Int /\ Unit * Modulus \in Int
          BY <1>2, <2>2
        <5> QED
          BY <4>1, <5>1, <5>2, <1>2
      <4> HIDE DEF x
      <4> QED
        BY <1>1, <1>2, <4>2, <2>6, <2>8, SignedNear
    <3> QED
      BY <2>3, <3>1, <3>2 DEF After
  <2>10. Accounted(e)'
    <3> HIDE DEF x
    <3>1. After(oldcounter', Clock', e')
      BY <1>2, <2>4, <2>5 DEF After
    <3> QED
      BY <3>1, <1>1, <2>4, <2>6, <2>7, <2>9 DEF Accounted
  <2>11. e \in 0..ticks'
    BY <1>1, <1>2, <2>2
  <2> QED
    BY <2>4, <2>10, <2>11
<1> QED
  BY <1>4, <1>5, <1>6 DEF SleepInv

LEMMA SleepNextInv == SleepInv /\ [SleepNext]_sleepvars => SleepInv'
<1> SUFFICES ASSUME SleepInv, [SleepNext]_sleepvars PROVE SleepInv'
  OBVIOUS
<1>1. SleepTypes /\ 0 \in 0..Half-1 /\ 0 \in 0..Modulus-1 /\ 0 \in 0..Enough
  BY Room DEF SleepInv
<1>2. CASE set_pit
  BY <1>1, <1>2 DEF set_pit, locals, SleepInv, SleepTypes
<1>3. CASE usleep
  <2>1. /\ rem' = asked' /\ asked' \in 0..Half-1 /\ rem' \in Int /\ ticks' = 0 /\ spc' = "oldlo"
        /\ UNCHANGED <<lo, hi, oldcounter, low>>
    BY <1>3, SleepAssumption DEF usleep
  <2>2. torn' \in BOOLEAN
    BY <1>3, Zenon DEF usleep
  <2> QED
    BY <1>1, <2>1, <2>2 DEF SleepInv, SleepTypes
<1>4. CASE ReadLow
  <2>1. /\ spc \in {"oldlo", "lo"} /\ low' = lo /\ spc' = IF spc = "lo" THEN "hi" ELSE "oldhi"
        /\ UNCHANGED <<lo, hi, rem, oldcounter, asked, ticks, torn>>
    BY <1>4 DEF ReadLow
  <2>2. SleepTypes'
    BY <1>1, <2>1 DEF SleepTypes
  <2>3. \A d \in Nat : Whole(d)'
    BY <1>1, <2>1, Room DEF Whole, SleepTypes
  <2>4. \A d : Accounted(d)' = Accounted(d)
    BY <2>1 DEF Accounted, After, Clock
  <2>5. ticks \in Nat
    BY <1>1, Room DEF SleepTypes
  <2>6. ASSUME ~torn, ticks < Enough, spc = "lo"
        PROVE  \E d \in 0..ticks' : Accounted(d)' /\ Whole(d)'
    <3>1. PICK d \in 0..ticks : Accounted(d)
      BY <2>6 DEF SleepInv
    <3> QED
      BY <3>1, <2>1, <2>3, <2>4, <2>5
  <2>7. Whole(ticks)'
    BY <2>1, <2>3, <2>5 DEF Whole
  <2> QED
    BY <2>1, <2>2, <2>6, <2>7 DEF SleepInv
<1>5. CASE ReadOld
  BY <1>5, ReadOldInv
<1>6. CASE Hlt \/ OtherIrq
  <2>1. /\ spc \in {"hlt", "asleep"} /\ spc' \in {"asleep", "lo"}
        /\ UNCHANGED <<lo, hi, rem, oldcounter, low, asked, ticks, torn>>
    BY <1>6 DEF Hlt, OtherIrq, locals
  <2>2. SleepTypes'
    BY <1>1, <2>1 DEF SleepTypes
  <2>3. \A d : Accounted(d)' = Accounted(d)
    BY <2>1 DEF Accounted, After, Clock
  <2> QED
    BY <2>1, <2>2, <2>3 DEF SleepInv
<1>7. CASE Count
  BY <1>7, CountInv
<1>8. CASE SleepReturn
  <2>1. torn' \in BOOLEAN
    BY <1>8, Zenon DEF SleepReturn
  <2> QED
    BY <1>1, <1>8, <2>1 DEF SleepReturn, SleepInv, SleepTypes
<1>9. CASE pit_handler
  BY <1>9, TickInv
<1>10. CASE UNCHANGED sleepvars
  <2>1. UNCHANGED <<lo, hi, spc, rem, oldcounter, low, asked, ticks, torn>>
    BY <1>10 DEF sleepvars, locals
  <2>2. SleepTypes' /\ (\A d : Accounted(d)' = Accounted(d)) /\ (\A d : Whole(d)' = Whole(d))
    BY <1>1, <2>1 DEF SleepTypes, Accounted, After, Clock, Whole
  <2>3. Whole(ticks)' = Whole(ticks)
    BY <2>1 DEF Whole
  <2> QED
    BY <2>1, <2>2, <2>3 DEF SleepInv
<1> QED
  BY <1>2, <1>3, <1>4, <1>5, <1>6, <1>7, <1>8, <1>9, <1>10 DEF SleepNext, SleepMain, Dead

(* usleep does not return before its time, however the timer interrupt     *)
(* falls between its steps, unless a carry into the high half came between *)
(* its two reads of pit_counter; and however often the counter wrapped.    *)
THEOREM NeverEarly == SleepSpec => []NotEarly
<1>1. SleepInv => NotEarly
  <2> SUFFICES ASSUME SleepInv, spc = "returned", ~torn PROVE ticks * Unit >= asked
    BY DEF NotEarly
  <2>1. /\ ticks \in Nat /\ ticks <= Enough /\ asked \in Nat /\ asked < Half /\ Unit \in Nat
        /\ Half \in Nat
    BY Room DEF SleepInv, SleepTypes
  <2>2. CASE ticks < Enough
    <3>1. PICK d \in 0..ticks : Accounted(d)
      BY <2>2 DEF SleepInv
    <3>2. rem \in Int /\ rem <= 0 /\ d \in Nat /\ d <= ticks
      BY <2>1, <2>2 DEF SleepInv, SleepTypes
    <3>3. (ticks - d) * Unit \in Int /\ (ticks - d) * Unit >= asked
      BY <2>1, <3>1, <3>2 DEF Accounted
    <3>4. ticks * Unit \in Int /\ (ticks - d) * Unit <= ticks * Unit
      BY <2>1, <3>2, SMT
    <3> QED
      BY <2>1, <3>3, <3>4
  <2>3. CASE ticks = Enough
    BY <2>1, <2>3, Room
  <2> QED
    BY <2>1, <2>2, <2>3, Room
<1> QED
  BY <1>1, SleepInitInv, SleepNextInv, PTL DEF SleepSpec

-----------------------------------------------------------------------------
(* The decoder *)

(* The values of kbd_state. *)
States == {0, \hE0, \hE1, \h1D, \h45, \h2E1, \h9D, \hE02A, \h2AE0}

(* The state behind a byte. *)
Then(s, c) ==
  CASE s = 0 /\ c \in {\hE0, \hE1}  -> c
    [] s = \hE1 /\ c = \h1D         -> \h1D
    [] s = \h1D /\ c = \h45         -> \h45
    [] s = \h45 /\ c = \hE1         -> \h2E1
    [] s = \h2E1 /\ c = \h9D        -> \h9D
    [] s = \hE0 /\ c = \h2A         -> \hE02A
    [] s = \hE02A /\ c = \hE0       -> \h2AE0
    [] s \notin {0, \hE0, \h45, \hE02A} /\ c \in {\hE0, \hE1} -> c
    [] s = \h45 /\ c = \hE0         -> c
    [] s = \hE02A /\ c = \hE1       -> c
    [] OTHER                        -> 0

(* A byte that the state expects moves on and has no effect. *)
LEMMA InStep ==
  ASSUME NEW c \in Nat, decode(c), \E t \in Steps : t[1] = kbd_state /\ t[2] = c
  PROVE  \E t \in Steps : t[1] = kbd_state /\ t[2] = c /\ kbd_state' = t[3] /\ Ignore
<1>1. ~(kbd_state = \h9D /\ c = \hC5) /\ ~(kbd_state = \h2AE0 /\ c = \h37)
      /\ ~(kbd_state = \hE0 /\ c # \h2A)
  BY DEF Steps
<1> DEFINE Known == \E t \in Steps : t[1] = kbd_state /\ t[2] = c
           Moves == \E t \in Steps : t[1] = kbd_state /\ t[2] = c /\ kbd_state' = t[3] /\ Ignore
<1>2. Known
  OBVIOUS
<1>3. (CASE Known                         -> Moves
        [] kbd_state = \h9D /\ c = \hC5   -> kbd_state' = 0 /\ ENQUEUE(PAUSE)
        [] kbd_state = \h2AE0 /\ c = \h37 -> kbd_state' = 0 /\ ENQUEUE(PRTSC)
        [] kbd_state = \hE0 /\ c # \h2A   -> kbd_state' = 0 /\ Extended(c)
        [] OTHER                          -> Start(c))
  BY DEF decode
<1> HIDE DEF Known, Moves
<1>4. Moves
  BY <1>1, <1>2, <1>3
<1> QED
  BY <1>4 DEF Moves

(* decode goes from state to state as Then says. *)
LEMMA StateStep ==
  ASSUME kbd_state \in States, NEW c \in Nat, decode(c)
  PROVE  kbd_state' = Then(kbd_state, c) /\ kbd_state' \in States
<1>1. CASE \E t \in Steps : t[1] = kbd_state /\ t[2] = c
  <2>1. \E t \in Steps : t[1] = kbd_state /\ t[2] = c /\ kbd_state' = t[3]
    BY <1>1, InStep
  <2> QED
    BY <2>1 DEF Steps, Then, States
<1>2. CASE ~\E t \in Steps : t[1] = kbd_state /\ t[2] = c
  <2>1. \/ kbd_state = \h9D /\ c = \hC5 /\ kbd_state' = 0
        \/ kbd_state = \h2AE0 /\ c = \h37 /\ kbd_state' = 0
        \/ kbd_state = \hE0 /\ c # \h2A /\ kbd_state' = 0
        \/ kbd_state # \hE0 /\ Start(c)
    BY <1>2 DEF decode, Steps
  <2>2. Start(c) => kbd_state' = IF c \in {\hE0, \hE1} THEN c ELSE 0
    BY DEF Start
  <2>3. ~(kbd_state = 0 /\ c \in {\hE0, \hE1}) /\ ~(kbd_state = \hE1 /\ c = \h1D)
        /\ ~(kbd_state = \h1D /\ c = \h45) /\ ~(kbd_state = \h45 /\ c = \hE1)
        /\ ~(kbd_state = \h2E1 /\ c = \h9D) /\ ~(kbd_state = \hE0 /\ c = \h2A)
        /\ ~(kbd_state = \hE02A /\ c = \hE0)
    BY <1>2 DEF Steps
  <2> QED
    BY <2>1, <2>2, <2>3 DEF Then, States
<1> QED
  BY <1>1, <1>2

(* The bytes that matter, each in any state. *)
LEMMA ThenIs ==
  ASSUME NEW s \in States
  PROVE  /\ Then(s, \hE0) = IF s = \hE0 THEN 0 ELSE IF s = \hE02A THEN \h2AE0 ELSE \hE0
         /\ Then(s, \hE1) = IF s = \hE0 THEN 0 ELSE IF s = \h45 THEN \h2E1 ELSE \hE1
         /\ Then(s, \h1D) = IF s = \hE1 THEN \h1D ELSE 0
         /\ Then(s, \h45) = IF s = \h1D THEN \h45 ELSE 0
         /\ Then(s, \h9D) = IF s = \h2E1 THEN \h9D ELSE 0
         /\ Then(s, \h2A) = IF s = \hE0 THEN \hE02A ELSE 0
         /\ \A c \in Nat : c \notin {\hE0, \hE1, \h1D, \h45, \h9D, \h2A} => Then(s, c) = 0
<1>1. Then(s, \hE0) = IF s = \hE0 THEN 0 ELSE IF s = \hE02A THEN \h2AE0 ELSE \hE0
  BY DEF Then, States
<1>2. Then(s, \hE1) = IF s = \hE0 THEN 0 ELSE IF s = \h45 THEN \h2E1 ELSE \hE1
  BY DEF Then, States
<1>3. Then(s, \h1D) = IF s = \hE1 THEN \h1D ELSE 0
  BY DEF Then, States
<1>4. Then(s, \h45) = IF s = \h1D THEN \h45 ELSE 0
  BY DEF Then, States
<1>5. Then(s, \h9D) = IF s = \h2E1 THEN \h9D ELSE 0
  BY DEF Then, States
<1>6. Then(s, \h2A) = IF s = \hE0 THEN \hE02A ELSE 0
  BY DEF Then, States
<1>7. \A c \in Nat : c \notin {\hE0, \hE1, \h1D, \h45, \h9D, \h2A} => Then(s, c) = 0
  BY DEF Then, States
<1> QED
  BY <1>1, <1>2, <1>3, <1>4, <1>5, <1>6, <1>7

(* The events by the number of their bytes. *)
Single == {"a", "ar", "f1", "f13", "num", "numr", "lshift", "lshiftr", "rshift", "rshiftr",
           "caps", "capsr", "ctrl", "ctrlr", "alt", "altr"}
Double == {"rctrl", "rctrlr", "ralt", "raltr", "up", "upr", "insert", "insertr"}
Fourfold == {"sup", "supr", "prtsc", "prtscr"}

LEMMA EventNames == DOMAIN Bytes = Single \cup Double \cup Fourfold \cup {"pause"}
BY DEF Bytes, Single, Double, Fourfold

(* The states that an event at rest passes, before each of its bytes. *)
Passed(e) ==
  IF e \in Single THEN <<0>>
  ELSE IF e = "pause" THEN <<0, \hE1, \h1D, \h45, \h2E1, \h9D>>
  ELSE IF e = "prtsc" THEN <<0, \hE0, \hE02A, \h2AE0>>
  ELSE IF e \in Double THEN <<0, \hE0>> ELSE <<0, \hE0, 0, \hE0>>

LEMMA PassedDouble ==
  ASSUME NEW e \in Double PROVE Passed(e) = <<0, \hE0>>
<1>1. e \notin Single /\ e # "pause" /\ e # "prtsc"
  BY DEF Single, Double
<1> QED
  BY <1>1 DEF Passed

LEMMA EventBytes ==
  ASSUME NEW e \in DOMAIN Bytes
  PROVE  /\ Bytes[e] \in Seq(Nat)
         /\ e \in Single => Len(Bytes[e]) = 1
         /\ e \in Double => Len(Bytes[e]) = 2 /\ Bytes[e][1] = \hE0
         /\ e \in Fourfold => Len(Bytes[e]) = 4
         /\ e = "pause" => Len(Bytes[e]) = 6
<1>1. CASE e \in Single
  <2>1. Bytes[e] = <<Bytes[e][1]>> /\ Bytes[e][1] \in Nat
    BY <1>1 DEF Bytes, Single
  <2>2. <<Bytes[e][1]>> \in Seq(Nat) /\ Len(<<Bytes[e][1]>>) = 1
    BY <2>1
  <2>3. e \notin Double /\ e \notin Fourfold /\ e # "pause"
    BY <1>1 DEF Single, Double, Fourfold
  <2> QED
    BY <2>1, <2>2, <2>3, Zenon
<1>2. CASE e \in Double
  <2>1. Bytes[e] = <<\hE0, Bytes[e][2]>> /\ Bytes[e][2] \in Nat
    BY <1>2 DEF Bytes, Double
  <2> DEFINE b == <<\hE0, Bytes[e][2]>>
  <2>2. b \in Seq(Nat) /\ Len(b) = 2 /\ b[1] = \hE0
    BY <2>1
  <2>3. e \notin Single /\ e \notin Fourfold /\ e # "pause"
    BY <1>2 DEF Single, Double, Fourfold
  <2> HIDE DEF b
  <2>4. Bytes[e] = b
    BY <2>1 DEF b
  <2> QED
    BY <2>2, <2>3, <2>4, Zenon
<1>3. CASE e \in Fourfold
  <2>1. /\ Bytes[e] = <<\hE0, Bytes[e][2], \hE0, Bytes[e][4]>>
        /\ Bytes[e][2] \in Nat /\ Bytes[e][4] \in Nat
    BY <1>3 DEF Bytes, Fourfold
  <2> DEFINE b == <<\hE0, Bytes[e][2], \hE0, Bytes[e][4]>>
  <2>2. b \in Seq(Nat) /\ Len(b) = 4
    BY <2>1
  <2>3. e \notin Single /\ e \notin Double /\ e # "pause"
    BY <1>3 DEF Single, Double, Fourfold
  <2> HIDE DEF b
  <2>4. Bytes[e] = b
    BY <2>1 DEF b
  <2> QED
    BY <2>2, <2>3, <2>4, Zenon
<1>4. CASE e = "pause"
  <2>1. Bytes[e] \in Seq(Nat) /\ Len(Bytes[e]) = 6
    BY <1>4 DEF Bytes
  <2>2. e \notin Single /\ e \notin Double /\ e \notin Fourfold
    BY <1>4 DEF Single, Double, Fourfold
  <2> QED
    BY <2>1, <2>2
<1> QED
  BY <1>1, <1>2, <1>3, <1>4, EventNames

(* Where whole events lead, the more of them the closer to rest. *)
Near(n) ==
  IF n = 0 THEN States
  ELSE IF n = 1 THEN {0, \h1D, \h45, \h9D, \hE02A}
  ELSE IF n = 2 THEN {0, \h45} ELSE {0}

(* What is known when the last byte of an event comes. *)
Ready(e, s, n) ==
  /\ e \in Single => s \in Near(n)
  /\ e \in {"rctrl", "rctrlr"} => s \in {0, \hE0, \h2AE0}

(* The last byte of a whole event brings the decoder one step closer to   *)
(* rest, but for the events that leave a sequence open.                    *)
LEMMA LastByte ==
  ASSUME NEW e \in DOMAIN Bytes, e \notin LeavesOpen, NEW n \in Nat, NEW s \in States,
         Ready(e, s, n)
  PROVE  Then(s, Bytes[e][Len(Bytes[e])]) \in Near(n + 1)
<1>1. 0 \in Near(n + 1)
  BY DEF Near, States
<1>2. e # "supr"
  BY DEF LeavesOpen
<1>3. CASE e \in Single \ {"num", "lshift", "ctrl", "ctrlr"}
  <2>1. Len(Bytes[e]) = 1 /\ Bytes[e][1] \in Nat
        /\ Bytes[e][1] \notin {\hE0, \hE1, \h1D, \h45, \h9D, \h2A}
    BY <1>3 DEF Bytes, Single
  <2> QED
    BY <1>1, <2>1, ThenIs
<1>4. CASE e \in {"num", "lshift", "ctrl", "ctrlr"}
  <2>1. s \in Near(n)
    BY <1>4 DEF Single, Ready
  <2>2. CASE e = "num"
    <3>1. Bytes[e][Len(Bytes[e])] = \h45
      BY <2>2 DEF Bytes
    <3>2. Then(s, \h45) = IF s = \h1D THEN \h45 ELSE 0
      BY ThenIs
    <3> QED
      BY <2>1, <3>1, <3>2 DEF Near, States
  <2>3. CASE e = "lshift"
    <3>1. Bytes[e][Len(Bytes[e])] = \h2A
      BY <2>3 DEF Bytes
    <3>2. Then(s, \h2A) = IF s = \hE0 THEN \hE02A ELSE 0
      BY ThenIs
    <3> QED
      BY <2>1, <3>1, <3>2 DEF Near, States
  <2>4. CASE e = "ctrl"
    <3>1. Bytes[e][Len(Bytes[e])] = \h1D
      BY <2>4 DEF Bytes
    <3>2. Then(s, \h1D) = IF s = \hE1 THEN \h1D ELSE 0
      BY ThenIs
    <3> QED
      BY <2>1, <3>1, <3>2 DEF Near, States
  <2>5. CASE e = "ctrlr"
    <3>1. Bytes[e][Len(Bytes[e])] = \h9D
      BY <2>5 DEF Bytes
    <3>2. Then(s, \h9D) = IF s = \h2E1 THEN \h9D ELSE 0
      BY ThenIs
    <3> QED
      BY <2>1, <3>1, <3>2 DEF Near, States
  <2> QED
    BY <1>4, <2>2, <2>3, <2>4, <2>5
<1>5. CASE e \in Double \ {"rctrl", "rctrlr"}
  <2>1. Len(Bytes[e]) = 2 /\ Bytes[e][2] \in Nat
        /\ Bytes[e][2] \notin {\hE0, \hE1, \h1D, \h45, \h9D, \h2A}
    BY <1>5 DEF Bytes, Double
  <2> QED
    BY <1>1, <2>1, ThenIs
<1>6. CASE e \in {"rctrl", "rctrlr"}
  <2>1. Len(Bytes[e]) = 2 /\ Bytes[e][2] \in {\h1D, \h9D}
    BY <1>6 DEF Bytes
  <2>2. s \in {0, \hE0, \h2AE0}
    BY <1>6 DEF Ready
  <2> QED
    BY <1>1, <2>1, <2>2, ThenIs
<1>7. CASE e \in Fourfold
  <2>1. Len(Bytes[e]) = 4 /\ Bytes[e][4] \in Nat
        /\ Bytes[e][4] \notin {\hE0, \hE1, \h1D, \h45, \h9D, \h2A}
    BY <1>2, <1>7 DEF Bytes, Fourfold
  <2> QED
    BY <1>1, <2>1, ThenIs
<1>8. CASE e = "pause"
  <2>1. Len(Bytes[e]) = 6 /\ Bytes[e][6] = \hC5
    BY <1>8 DEF Bytes
  <2> QED
    BY <1>1, <2>1, ThenIs
<1> QED
  BY <1>3, <1>4, <1>5, <1>6, <1>7, <1>8, EventNames

(* At rest the states are passed as listed. *)
LEMMA PassedStep ==
  ASSUME NEW e \in DOMAIN Bytes, NEW k \in Nat, 1 <= k, k < Len(Bytes[e])
  PROVE  Then(Passed(e)[k], Bytes[e][k]) = Passed(e)[k + 1]
<1>1. e \notin Single
  <2> SUFFICES ASSUME e \in Single PROVE FALSE
    OBVIOUS
  <2>1. Len(Bytes[e]) = 1
    BY EventBytes, Zenon
  <2> QED
    BY <2>1
<1>2. CASE e \in Double
  <2>1. k = 1 /\ Bytes[e][1] = \hE0
    <3>1. Len(Bytes[e]) = 2 /\ Bytes[e][1] = \hE0
      BY <1>2, EventBytes, Zenon
    <3> QED
      BY <3>1
  <2>2. Passed(e) = <<0, \hE0>>
    BY <1>2, PassedDouble
  <2> QED
    BY <2>1, <2>2 DEF Then
<1>3. CASE e \in Fourfold
  <2>1. k \in {1, 2, 3}
    <3>1. Len(Bytes[e]) = 4
      BY <1>3, EventBytes, Zenon
    <3> QED
      BY <3>1
  <2>2. CASE e = "sup"
    <3>1. Bytes[e] = <<\hE0, \hAA, \hE0, \h48>> /\ Passed(e) = <<0, \hE0, 0, \hE0>>
      BY <2>2 DEF Bytes, Passed, Single, Double
    <3> QED BY <2>1, <3>1 DEF Then
  <2>3. CASE e = "supr"
    <3>1. Bytes[e] = <<\hE0, \hC8, \hE0, \h2A>> /\ Passed(e) = <<0, \hE0, 0, \hE0>>
      BY <2>3 DEF Bytes, Passed, Single, Double
    <3> QED BY <2>1, <3>1 DEF Then
  <2>4. CASE e = "prtsc"
    <3>1. Bytes[e] = <<\hE0, \h2A, \hE0, \h37>> /\ Passed(e) = <<0, \hE0, \hE02A, \h2AE0>>
      BY <2>4 DEF Bytes, Passed, Single, Double
    <3> QED BY <2>1, <3>1 DEF Then
  <2>5. CASE e = "prtscr"
    <3>1. Bytes[e] = <<\hE0, \hB7, \hE0, \hAA>> /\ Passed(e) = <<0, \hE0, 0, \hE0>>
      BY <2>5 DEF Bytes, Passed, Single, Double
    <3> QED BY <2>1, <3>1 DEF Then
  <2> QED
    BY <1>3, <2>2, <2>3, <2>4, <2>5 DEF Fourfold
<1>4. CASE e = "pause"
  <2>1. k \in {1, 2, 3, 4, 5}
    <3>1. Len(Bytes[e]) = 6
      BY <1>4, EventBytes, Zenon
    <3> QED
      BY <3>1
  <2>2. Bytes[e] = <<\hE1, \h1D, \h45, \hE1, \h9D, \hC5>>
        /\ Passed(e) = <<0, \hE1, \h1D, \h45, \h2E1, \h9D>>
    BY <1>4 DEF Bytes, Passed, Single, Double
  <2> QED BY <2>1, <2>2 DEF Then
<1> QED
  BY <1>1, <1>2, <1>3, <1>4, EventNames

(* How many bytes of the event have come, this one included. *)
Place == Len(Bytes[event]) - Len(pending) + 1

(* The bytes to come are the rest of the event's. *)
Rest ==
  /\ event \in DOMAIN Bytes
  /\ Len(pending) <= Len(Bytes[event])
  /\ \A j \in 1..Len(pending) : pending[j] = Bytes[event][Len(Bytes[event]) - Len(pending) + j]

(* Between events the state is as near to rest as the count of whole      *)
(* events says.  Inside an event that is whole so far: at its first byte   *)
(* the same holds; the second byte of a right control key, whose code also *)
(* continues the pause sequence, does not find that sequence open; and an  *)
(* event that began at rest passes the states of its own sequence.         *)
DecodeInv ==
  /\ kbd_state \in States /\ clean \in 0..Lag /\ pending \in Seq(Nat)
  /\ pending = <<>> => kbd_state \in Near(clean)
  /\ pending # <<>> => Rest
  /\ pending # <<>> /\ ~broken =>
       /\ Len(pending) = Len(Bytes[event]) => kbd_state \in Near(clean)
       /\ event \in {"rctrl", "rctrlr"} /\ Len(pending) = 1 => kbd_state \in {0, \hE0, \h2AE0}
       /\ atrest => kbd_state = Passed(event)[Place]

LEMMA NearIn ==
  ASSUME NEW n \in Nat PROVE Near(n) \subseteq States /\ 0 \in Near(n)
BY DEF Near, States

LEMMA DecodeInit == Init => DecodeInv
<1> SUFFICES ASSUME Init PROVE DecodeInv
  OBVIOUS
<1>1. Lag \in Nat /\ 0 \in Near(Lag)
  BY EventAssumption, NearIn
<1>2. kbd_state \in States /\ clean \in 0..Lag /\ pending \in Seq(Nat)
  BY <1>1 DEF Init, States
<1>3. pending = <<>> /\ kbd_state \in Near(clean)
  BY <1>1 DEF Init
<1> QED
  BY <1>2, <1>3 DEF DecodeInv

LEMMA BeginInv ==
  ASSUME DecodeInv, NEW e \in Events, Begin(e)
  PROVE  DecodeInv'
<1>1. e \in DOMAIN Bytes
  BY EventAssumption
<1>2. /\ kbd_state \in States /\ clean \in 0..Lag /\ kbd_state \in Near(clean)
  BY DEF DecodeInv, Begin
<1>3. event' = e /\ pending' = Bytes[e] /\ (atrest' <=> kbd_state = 0)
      /\ kbd_state' = kbd_state /\ clean' = clean
  BY DEF Begin
<1>4. Bytes[e] \in Seq(Nat) /\ Len(Bytes[e]) \in {1, 2, 4, 6}
      /\ (e \in {"rctrl", "rctrlr"} => Len(Bytes[e]) = 2)
  <2>1. e \in {"rctrl", "rctrlr"} => e \in Double
    BY DEF Double
  <2> QED
    BY <1>1, <2>1, EventBytes, EventNames
<1>5. Passed(e)[1] = 0
  BY DEF Passed
<1> DEFINE b == Bytes[e]
<1> HIDE DEF b
<1>6. b \in Seq(Nat) /\ Len(b) \in Nat /\ Len(b) # 0 /\ Len(b) - Len(b) + 1 = 1
      /\ b # <<>> /\ \A j \in 1..Len(b) : Len(b) - Len(b) + j = j
  <2>1. b \in Seq(Nat) /\ Len(b) \in Nat /\ Len(b) # 0
    <3>1. b \in Seq(Nat) /\ Len(b) \in {1, 2, 4, 6}
      BY <1>4 DEF b
    <3> QED
      BY <3>1, SMTT(30)
  <2>2. b # <<>>
    BY <2>1
  <2>3. Len(b) - Len(b) + 1 = 1 /\ \A j \in 1..Len(b) : Len(b) - Len(b) + j = j
    BY <2>1
  <2> QED
    BY <2>1, <2>2, <2>3
<1>7. Rest'
  <2>1. Len(b) <= Len(b) /\ \A j \in 1..Len(b) : b[j] = b[Len(b) - Len(b) + j]
    BY <1>6
  <2> QED
    BY <1>1, <1>3, <2>1 DEF Rest, b
<1>8. Place' = 1
  BY <1>3, <1>6 DEF Place, b
<1> QED
  <2>1. (kbd_state \in States /\ clean \in 0..Lag /\ pending \in Seq(Nat))'
    BY <1>2, <1>3, <1>4
  <2>2. (pending # <<>>)' /\ (kbd_state \in Near(clean))'
    BY <1>2, <1>3, <1>6 DEF b
  <2>3. ~(event \in {"rctrl", "rctrlr"} /\ Len(pending) = 1)'
    <3>1. e \in {"rctrl", "rctrlr"} => Len(b) # 1
      <4>1. e \in {"rctrl", "rctrlr"} => Len(b) = 2
        BY <1>4, Zenon DEF b
      <4> QED
        BY <4>1
    <3> QED
      BY <1>3, <3>1 DEF b
  <2>4. (atrest => kbd_state = Passed(event)[Place])'
    BY <1>3, <1>5, <1>8
  <2> QED
    BY <1>7, <2>1, <2>2, <2>3, <2>4 DEF DecodeInv

LEMMA EmptyIs ==
  ASSUME NEW p \in Seq(Nat)
  PROVE  p = <<>> <=> Len(p) = 0
OBVIOUS

LEMMA TailOf ==
  ASSUME NEW p \in Seq(Nat), p # <<>>
  PROVE  /\ Len(p) \in Nat /\ Len(p) >= 1 /\ Head(p) = p[1] /\ Head(p) \in Nat
         /\ Tail(p) \in Seq(Nat) /\ Len(Tail(p)) = Len(p) - 1
         /\ (Tail(p) = <<>> <=> Len(p) = 1)
         /\ \A j \in 1..Len(p) - 1 : Tail(p)[j] = p[j + 1]
<1>1. Len(p) \in Nat /\ Len(p) >= 1 /\ Head(p) = p[1] /\ Head(p) \in Nat
  OBVIOUS
<1>2. Tail(p) \in Seq(Nat) /\ Len(Tail(p)) = Len(p) - 1
  OBVIOUS
<1>3. Tail(p) = <<>> <=> Len(p) = 1
  <2>1. Tail(p) = <<>> <=> Len(Tail(p)) = 0
    BY <1>2, EmptyIs
  <2> QED
    BY <1>1, <1>2, <2>1, SMTT(30)
<1>4. \A j \in 1..Len(p) - 1 : Tail(p)[j] = p[j + 1]
  OBVIOUS
<1> QED
  BY <1>1, <1>2, <1>3, <1>4

(* Taking a byte: the next one is the event's byte in this place. *)
LEMMA RestTail ==
  ASSUME DecodeInv, pending # <<>>, pending' = Tail(pending), event' = event
  PROVE  /\ Rest' /\ Place' = Place + 1 /\ Place \in 1..Len(Bytes[event])
         /\ Head(pending) = Bytes[event][Place] /\ Len(Bytes[event]) \in Nat
         /\ (Place = Len(Bytes[event]) <=> Len(pending) = 1)
<1> DEFINE b == Bytes[event]
           L == Len(b)
           p == pending
<1>1. p \in Seq(Nat) /\ Rest
  BY DEF DecodeInv
<1>2. L \in Nat
  BY <1>1, EventBytes DEF Rest
<1> HIDE DEF L
<1>3. /\ Len(p) \in Nat /\ Len(p) >= 1 /\ Head(p) = p[1] /\ Len(Tail(p)) = Len(p) - 1
      /\ \A j \in 1..Len(p) - 1 : Tail(p)[j] = p[j + 1]
  BY <1>1, TailOf
<1>4. Len(p) <= L /\ \A j \in 1..Len(p) : p[j] = b[L - Len(p) + j]
  BY <1>1 DEF Rest, L
<1> DEFINE q == Tail(p)
           n == Len(p)
<1> HIDE DEF q, b, p, n
<1>5. n \in Nat /\ n >= 1 /\ n <= L /\ Len(q) = n - 1 /\ Head(p) = p[1]
  BY <1>3, <1>4 DEF n, q
<1>6. Len(q) <= L /\ \A j \in 1..Len(q) : q[j] = b[L - Len(q) + j]
  <2>1. ASSUME NEW j \in 1..n - 1 PROVE q[j] = b[L - (n - 1) + j]
    <3>1. j + 1 \in 1..n /\ L - n + (j + 1) = L - (n - 1) + j
      BY <1>2, <1>5
    <3>2. q[j] = p[j + 1] /\ p[j + 1] = b[L - n + (j + 1)]
      BY <1>3, <1>4, <3>1 DEF n, q
    <3> QED
      BY <3>1, <3>2
  <2> QED
    BY <1>2, <1>5, <2>1
<1>7. Rest'
  <2>1. event \in DOMAIN Bytes
    BY <1>1 DEF Rest
  <2> QED
    BY <1>6, <2>1 DEF Rest, L, q, b, p
<1>8. Place = L - n + 1 /\ Place' = L - Len(q) + 1
  BY DEF Place, L, q, b, p, n
<1>9. p[1] = b[L - n + 1]
  BY <1>4, <1>5 DEF n
<1>10. Place' = Place + 1 /\ Place \in 1..L /\ (Place = L <=> n = 1) /\ Head(p) = b[Place]
  BY <1>2, <1>5, <1>8, <1>9
<1> QED
  BY <1>2, <1>7, <1>10 DEF L, b, p, n

LEMMA LoseInv ==
  ASSUME DecodeInv, Lose
  PROVE  DecodeInv'
<1>1. /\ pending # <<>> /\ pending' = Tail(pending) /\ event' = event
      /\ broken' /\ clean' = 0 /\ kbd_state' = kbd_state
  BY DEF Lose
<1>2. Rest'
  BY <1>1, RestTail
<1>3. kbd_state \in States /\ 0 \in 0..Lag /\ Tail(pending) \in Seq(Nat)
  BY <1>1, TailOf, EventAssumption DEF DecodeInv
<1>4. kbd_state \in Near(0)
  BY <1>3 DEF Near
<1> QED
  BY <1>1, <1>2, <1>3, <1>4 DEF DecodeInv

LEMMA HandlerInv ==
  ASSUME DecodeInv, kbd_handler
  PROVE  DecodeInv'
<1> DEFINE c == Head(pending)
           b == Bytes[event]
<1>1. /\ pending # <<>> /\ pending' = Tail(pending) /\ event' = event /\ decode(c)
      /\ clean' = (IF Len(pending) = 1 THEN Recovered ELSE clean)
      /\ atrest' = atrest /\ broken' = broken
  BY DEF kbd_handler
<1>2. /\ Rest' /\ Place' = Place + 1 /\ Place \in 1..Len(b)
      /\ c = b[Place] /\ Len(b) \in Nat
      /\ (Place = Len(b) <=> Len(pending) = 1)
  BY <1>1, RestTail
<1>3. /\ c \in Nat /\ Tail(pending) \in Seq(Nat) /\ (Tail(pending) = <<>> <=> Len(pending) = 1)
      /\ Len(Tail(pending)) = Len(pending) - 1 /\ Len(pending) \in Nat /\ Len(pending) >= 1
  BY <1>1, TailOf DEF DecodeInv
<1>4. kbd_state \in States /\ clean \in 0..Lag /\ Lag \in Nat /\ Lag >= 3 /\ clean \in Nat
  BY EventAssumption DEF DecodeInv
<1>5. kbd_state' = Then(kbd_state, c) /\ kbd_state' \in States
  BY <1>1, <1>3, <1>4, StateStep
<1>6. event \in DOMAIN Bytes /\ Len(pending) <= Len(b)
  BY <1>1 DEF DecodeInv, Rest
<1> HIDE DEF c, b
<1>7. CASE Len(pending) = 1
  <2>1. pending' = <<>> /\ clean' = Recovered
    BY <1>1, <1>3, <1>7
  <2>2. CASE broken \/ event \in LeavesOpen
    <3>1. clean' = 0
      BY <2>1, <2>2 DEF Recovered
    <3>2. kbd_state' \in Near(0)
      BY <1>5 DEF Near
    <3> QED
      BY <1>4, <1>5, <2>1, <3>1, <3>2 DEF DecodeInv
  <2>3. CASE ~broken /\ event \notin LeavesOpen
    <3>1. event \in Single => kbd_state \in Near(clean)
      <4>1. event \in Single => Len(b) = 1
        BY <1>6, EventBytes DEF b
      <4> QED
        BY <1>1, <1>7, <2>3, <4>1 DEF DecodeInv, b
    <3>2. event \in {"rctrl", "rctrlr"} => kbd_state \in {0, \hE0, \h2AE0}
      BY <1>1, <1>7, <2>3 DEF DecodeInv
    <3>3. Then(kbd_state, Bytes[event][Len(Bytes[event])]) \in Near(clean + 1)
      <4>1. Ready(event, kbd_state, clean)
        BY <3>1, <3>2 DEF Ready
      <4> QED
        BY <1>4, <1>6, <2>3, <4>1, LastByte
    <3>4. kbd_state' \in Near(clean + 1)
      BY <1>2, <1>5, <1>7, <3>3 DEF b
    <3>5. clean' \in 0..Lag /\ Near(clean + 1) = Near(clean')
      <4>1. CASE clean < Lag
        BY <1>4, <2>1, <2>3, <4>1 DEF Recovered
      <4>2. CASE clean = Lag
        <5>1. clean' = Lag
          BY <1>4, <2>1, <2>3, <4>2 DEF Recovered
        <5>2. Near(Lag + 1) = {0} /\ Near(Lag) = {0}
          BY <1>4 DEF Near
        <5> QED
          BY <1>4, <4>2, <5>1, <5>2
      <4> QED
        BY <1>4, <4>1, <4>2
    <3> QED
      BY <1>5, <2>1, <3>4, <3>5 DEF DecodeInv
  <2> QED
    BY <2>2, <2>3
<1>8. CASE Len(pending) # 1
  <2>1. pending' # <<>> /\ clean' = clean /\ Len(pending') = Len(pending) - 1
    BY <1>1, <1>3, <1>8
  <2>2. Len(pending') # Len(b)
    <3>1. Len(b) \in Nat /\ Len(pending) \in Nat /\ Len(pending) <= Len(b)
      BY <1>2, <1>3, <1>6
    <3>2. Len(pending) - 1 # Len(b)
      BY ONLY <3>1
    <3> QED
      BY <2>1, <3>2
  <2>3. ASSUME ~broken, event \in {"rctrl", "rctrlr"}, Len(pending') = 1
        PROVE  kbd_state' \in {0, \hE0, \h2AE0}
    <3>1. Len(b) = 2 /\ b[1] = \hE0
      <4>1. event \in Double
        BY <2>3 DEF Double
      <4> QED
        BY <1>6, <4>1, EventBytes DEF b
    <3>2. Place = 1
      BY <1>2, <1>8, <3>1
    <3>3. kbd_state' = Then(kbd_state, \hE0)
      BY <1>2, <1>5, <3>1, <3>2
    <3> QED
      BY <1>4, <3>3, ThenIs
  <2>4. ASSUME ~broken, atrest PROVE kbd_state' = Passed(event)[Place + 1]
    <3>1. kbd_state = Passed(event)[Place]
      BY <1>1, <2>4 DEF DecodeInv
    <3>2. Place \in Nat /\ 1 <= Place /\ Place < Len(b)
      BY <1>2, <1>8
    <3>3. Then(Passed(event)[Place], Bytes[event][Place]) = Passed(event)[Place + 1]
      BY <1>6, <3>2, PassedStep DEF b
    <3> QED
      BY <1>2, <1>5, <3>1, <3>3 DEF b
  <2> QED
    <3>1. (kbd_state \in States /\ clean \in 0..Lag /\ pending \in Seq(Nat))'
      BY <1>1, <1>3, <1>4, <1>5, <2>1
    <3>2. (Len(pending) # Len(Bytes[event]))'
      BY <1>1, <2>2 DEF b
    <3>3. (~broken /\ event \in {"rctrl", "rctrlr"} /\ Len(pending) = 1
             => kbd_state \in {0, \hE0, \h2AE0})'
      BY <1>1, <2>3
    <3>4. (~broken /\ atrest => kbd_state = Passed(event)[Place])'
      BY <1>1, <1>2, <2>4
    <3> QED
      BY <1>2, <2>1, <3>1, <3>2, <3>3, <3>4 DEF DecodeInv
<1> QED
  BY <1>7, <1>8

LEMMA DecodeStep == DecodeInv /\ [Next]_vars => DecodeInv'
<1> SUFFICES ASSUME DecodeInv, [Next]_vars PROVE DecodeInv'
  OBVIOUS
<1>1. CASE UNCHANGED vars
  BY <1>1 DEF vars, DecodeInv, Rest, Place
<1>2. CASE Next
  BY <1>2, HandlerInv, LoseInv, BeginInv DEF Next
<1> QED
  BY <1>1, <1>2

(* Resync for every set of the events and any losses: wherever bytes of    *)
(* decode() were lost, Lag (at least 3) whole events later kbd_state is 0. *)
THEOREM BackInStep == Spec => []Resync
<1>1. DecodeInv => Resync
  <2> SUFFICES ASSUME DecodeInv, pending = <<>>, clean >= Lag PROVE kbd_state = 0
    BY DEF Resync
  <2>1. kbd_state \in Near(clean) /\ clean \in 0..Lag /\ Lag \in Nat /\ Lag >= 3
    BY EventAssumption DEF DecodeInv
  <2> QED
    BY <2>1 DEF Near
<1> QED
  BY <1>1, DecodeInit, DecodeStep, PTL DEF Spec

(* What decode does with a byte that no sequence expects. *)
LEMMA OutOfStep ==
  ASSUME NEW c \in Nat, decode(c), ~\E t \in Steps : t[1] = kbd_state /\ t[2] = c
  PROVE  /\ kbd_state = 0 => Start(c)
         /\ kbd_state = \hE0 /\ c # \h2A => Extended(c)
         /\ kbd_state = \h9D /\ c = \hC5 => ENQUEUE(PAUSE)
         /\ kbd_state = \h2AE0 /\ c = \h37 => ENQUEUE(PRTSC)
<1>1. kbd_state = 0 => Start(c)
  BY DEF decode
<1>2. kbd_state = \hE0 /\ c # \h2A => Extended(c)
  BY DEF decode
<1>3. kbd_state = \h9D /\ c = \hC5 => ENQUEUE(PAUSE)
  BY DEF decode
<1>4. kbd_state = \h2AE0 /\ c = \h37 => ENQUEUE(PRTSC)
  BY DEF decode
<1> QED
  BY <1>1, <1>2, <1>3, <1>4

LEMMA PlainByte ==
  ASSUME NEW c \in Nat, decode(c), kbd_state = 0, c \notin {\hE0, \hE1}
  PROVE  IF c < \h80 THEN Make(c) ELSE Break(c - \h80)
<1>1. ~\E t \in Steps : t[1] = kbd_state /\ t[2] = c
  BY DEF Steps
<1>2. Start(c)
  BY <1>1, OutOfStep
<1> QED
  BY <1>2 DEF Start

LEMMA SecondByte ==
  ASSUME NEW c \in Nat, decode(c), kbd_state = \hE0, c # \h2A
  PROVE  Extended(c)
<1>1. ~\E t \in Steps : t[1] = kbd_state /\ t[2] = c
  BY DEF Steps
<1> QED
  BY <1>1, OutOfStep

(* Before its last byte an event has no effect. *)
LEMMA NoEffectYet ==
  ASSUME NEW e \in DOMAIN Bytes, NEW k \in Nat, 1 <= k, k < Len(Bytes[e]),
         kbd_state = Passed(e)[k], decode(Bytes[e][k])
  PROVE  Ignore
<1> DEFINE s == Passed(e)[k]
           c == Bytes[e][k]
<1>1. \/ s = 0 /\ c = \hE0
      \/ s = 0 /\ c = \hE1
      \/ s = \hE02A /\ c = \hE0
      \/ s = \hE1 /\ c = \h1D
      \/ s = \h1D /\ c = \h45
      \/ s = \h45 /\ c = \hE1
      \/ s = \h2E1 /\ c = \h9D
      \/ s = \hE0 /\ c = \h2A
      \/ s = \hE0 /\ c \in {\hAA, \hC8, \hB7}
  <2>1. e \notin Single
    <3> SUFFICES ASSUME e \in Single PROVE FALSE
      OBVIOUS
    <3>1. Len(Bytes[e]) = 1
      BY EventBytes, Zenon
    <3> QED
      BY <3>1
  <2>2. CASE e \in Double
    <3>1. Len(Bytes[e]) = 2 /\ Bytes[e][1] = \hE0
      BY <2>2, EventBytes, Zenon
    <3>2. k = 1
      BY <3>1
    <3>3. Passed(e) = <<0, \hE0>>
      BY <2>2, PassedDouble
    <3> QED
      BY <3>1, <3>2, <3>3
  <2>3. CASE e \in Fourfold
    <3>1. k \in {1, 2, 3}
      <4>1. Len(Bytes[e]) = 4
        BY <2>3, EventBytes, Zenon
      <4> QED
        BY <4>1
    <3>2. CASE e = "prtsc"
      <4>1. Bytes[e] = <<\hE0, \h2A, \hE0, \h37>> /\ Passed(e) = <<0, \hE0, \hE02A, \h2AE0>>
        BY <3>2 DEF Bytes, Passed, Single, Double
      <4> QED
        BY <3>1, <4>1
    <3>3. CASE e # "prtsc"
      <4>1. /\ Bytes[e][1] = \hE0 /\ Bytes[e][2] \in {\hAA, \hC8, \hB7} /\ Bytes[e][3] = \hE0
        <5>1. e = "sup" => Bytes[e] = <<\hE0, \hAA, \hE0, \h48>>
          BY DEF Bytes
        <5>2. e = "supr" => Bytes[e] = <<\hE0, \hC8, \hE0, \h2A>>
          BY DEF Bytes
        <5>3. e = "prtscr" => Bytes[e] = <<\hE0, \hB7, \hE0, \hAA>>
          BY DEF Bytes
        <5> QED
          BY <2>3, <3>3, <5>1, <5>2, <5>3 DEF Fourfold
      <4>2. Passed(e) = <<0, \hE0, 0, \hE0>>
        BY <2>3, <3>3 DEF Passed, Single, Double, Fourfold
      <4> QED
        BY <3>1, <4>1, <4>2
    <3> QED
      BY <3>2, <3>3
  <2>4. CASE e = "pause"
    <3>1. k \in {1, 2, 3, 4, 5}
      <4>1. Len(Bytes[e]) = 6
        BY <2>4, EventBytes, Zenon
      <4> QED
        BY <4>1
    <3>2. Bytes[e] = <<\hE1, \h1D, \h45, \hE1, \h9D, \hC5>>
          /\ Passed(e) = <<0, \hE1, \h1D, \h45, \h2E1, \h9D>>
      BY <2>4 DEF Bytes, Passed, Single, Double
    <3> QED
      BY <3>1, <3>2
  <2> QED
    BY <2>1, <2>2, <2>3, <2>4, EventNames
<1> HIDE DEF s, c
<1>2. kbd_state = s /\ decode(c)
  BY DEF s, c
<1>3. c \in Nat
  BY <1>1
<1>4. CASE s = \hE0 /\ c \in {\hAA, \hC8, \hB7}
  <2>1. Extended(c)
    BY <1>2, <1>3, <1>4, SecondByte
  <2>2. c \notin {\h1D, \h9D, \h38, \hB8, \h52} /\ c \notin ExtendedKeys
    BY <1>4 DEF ExtendedKeys
  <2> QED
    BY <2>1, <2>2 DEF Extended
<1>5. CASE ~(s = \hE0 /\ c \in {\hAA, \hC8, \hB7})
  <2>1. \E t \in Steps : t[1] = s /\ t[2] = c
    BY <1>1, <1>5 DEF Steps
  <2> QED
    BY <1>2, <1>3, <2>1, InStep
<1> QED
  BY <1>4, <1>5

(* What the decoder does with a key is what the key means. *)
LEMMA Deeds ==
  ASSUME NEW m
  PROVE  /\ Press(m) => Key!Event(Does("hold", m))
         /\ Release(m) => Key!Event(Does("drop", m))
         /\ Flip(m) => Key!Event(Does("toggle", m))
         /\ ENQUEUE(m) => Key!Event(Does("key", m))
         /\ Ignore => Key!Event(Does("nothing", "")) /\ Key!Nothing
<1>1. Press(m) => Key!Event(Does("hold", m))
  BY DEF Press, Does, Key!Event, Key!Hold
<1>2. Release(m) => Key!Event(Does("drop", m))
  BY DEF Release, Does, Key!Event, Key!Drop
<1>3. Flip(m) => Key!Event(Does("toggle", m))
  <2>1. Flip(m) => Key!Toggle(m)
    BY DEF Flip, Press, Release, Key!Toggle
  <2> QED
    BY <2>1 DEF Does, Key!Event
<1>4. ENQUEUE(m) => Key!Event(Does("key", m))
  BY DEF ENQUEUE, Does, Key!Event, Key!Produce
<1>5. Ignore => Key!Event(Does("nothing", "")) /\ Key!Nothing
  BY DEF Ignore, Does, Key!Event, Key!Nothing
<1> QED
  BY <1>1, <1>2, <1>3, <1>4, <1>5

(* Keys of one byte. *)
LEMMA SingleEffect ==
  ASSUME NEW e \in Single, kbd_state = 0, decode(Bytes[e][1])
  PROVE  Key!Event(Meaning(e))
<1> DEFINE c == Bytes[e][1]
<1>1. c \in Nat /\ c \notin {\hE0, \hE1}
  BY DEF Bytes, Single
<1>2. IF c < \h80 THEN Make(c) ELSE Break(c - \h80)
  BY <1>1, PlainByte
<1>3. CASE e = "a"
  <2>1. Make(\h1E)
    BY <1>2, <1>3 DEF Bytes
  <2>2. ENQUEUE(Character(\h1E))
    BY <2>1 DEF Make, Lookup, TableSize
  <2>3. Character(\h1E) = IF "SHIFT" \in kbd_shiftstate THEN Upper(\h1E) ELSE Lower(\h1E)
    BY DEF Character, SameInBoth
  <2>4. Meaning(e) = [kind |-> "case", arg |-> Lower(\h1E), upper |-> Upper(\h1E)]
    BY <1>3 DEF Meaning
  <2> QED
    BY <2>2, <2>3, <2>4 DEF ENQUEUE, Key!Event, Key!Produce
<1>4. CASE e \in {"f1", "num"}
  <2> DEFINE d == IF e = "f1" THEN \h3B ELSE \h45
  <2>1. Make(d) /\ d \in {\h3B, \h45}
    BY <1>2, <1>4 DEF Bytes
  <2> HIDE DEF d
  <2>2. ENQUEUE(Character(d))
    BY <2>1 DEF Make, Lookup, TableSize
  <2>3. Character(d) = Lower(d)
    BY <2>1 DEF Character, SameInBoth
  <2>4. Meaning(e) = Does("key", Lower(d))
    BY <1>4 DEF Meaning, d
  <2> QED
    BY <2>2, <2>3, <2>4, Deeds
<1>5. CASE e \in {"lshift", "rshift"}
  <2>1. Make(\h2A) \/ Make(\h36)
    BY <1>2, <1>5 DEF Bytes
  <2>2. Press("SHIFT")
    BY <2>1 DEF Make, Lookup, TableSize
  <2>3. Meaning(e) = Does("hold", "SHIFT")
    BY <1>5 DEF Meaning
  <2> QED
    BY <2>2, <2>3, Deeds
<1>6. CASE e = "caps"
  <2>1. Make(\h3A)
    BY <1>2, <1>6 DEF Bytes
  <2>2. Flip("SHIFT")
    BY <2>1 DEF Make, Lookup, TableSize
  <2>3. Meaning(e) = Does("toggle", "SHIFT")
    BY <1>6 DEF Meaning
  <2> QED
    BY <2>2, <2>3, Deeds
<1>7. CASE e = "ctrl"
  <2>1. Make(\h1D)
    BY <1>2, <1>7 DEF Bytes
  <2>2. Press("CTRL")
    BY <2>1 DEF Make, Lookup, TableSize
  <2>3. Meaning(e) = Does("hold", "CTRL")
    BY <1>7 DEF Meaning
  <2> QED
    BY <2>2, <2>3, Deeds
<1>8. CASE e = "alt"
  <2>1. Make(\h38)
    BY <1>2, <1>8 DEF Bytes
  <2>2. Press("ALT")
    BY <2>1 DEF Make, Lookup, TableSize
  <2>3. Meaning(e) = Does("hold", "ALT")
    BY <1>8 DEF Meaning
  <2> QED
    BY <2>2, <2>3, Deeds
<1>9. CASE e \in {"lshiftr", "rshiftr"}
  <2>1. Break(\h2A) \/ Break(\h36)
    BY <1>2, <1>9 DEF Bytes
  <2>2. Release("SHIFT")
    BY <2>1 DEF Break, Lookup, TableSize
  <2>3. Meaning(e) = Does("drop", "SHIFT")
    BY <1>9 DEF Meaning
  <2> QED
    BY <2>2, <2>3, Deeds
<1>10. CASE e = "ctrlr"
  <2>1. Break(\h1D)
    BY <1>2, <1>10 DEF Bytes
  <2>2. Release("CTRL")
    BY <2>1 DEF Break, Lookup, TableSize
  <2>3. Meaning(e) = Does("drop", "CTRL")
    BY <1>10 DEF Meaning
  <2> QED
    BY <2>2, <2>3, Deeds
<1>11. CASE e = "altr"
  <2>1. Break(\h38)
    BY <1>2, <1>11 DEF Bytes
  <2>2. Release("ALT")
    BY <2>1 DEF Break, Lookup, TableSize
  <2>3. Meaning(e) = Does("drop", "ALT")
    BY <1>11 DEF Meaning
  <2> QED
    BY <2>2, <2>3, Deeds
<1>12. CASE e \in {"ar", "numr", "capsr"}
  <2>1. Break(\h1E) \/ Break(\h45) \/ Break(\h3A)
    BY <1>2, <1>12 DEF Bytes
  <2>2. Ignore
    BY <2>1 DEF Break, Lookup, TableSize
  <2>3. Meaning(e) = Does("nothing", "")
    BY <1>12 DEF Meaning
  <2> QED
    BY <2>2, <2>3, Deeds
<1>13. CASE e = "f13"
  <2>1. Make(\h64)
    BY <1>2, <1>13 DEF Bytes
  <2>2. \/ Ignore \/ Press("CTRL") \/ ENQUEUE(Character(\h1E)) \/ Press("SHIFT") \/ Press("ALT")
        \/ Flip("SHIFT")
    <3>1. PICK d \in {0, \h1D, \h1E, \h2A, \h38, \h3A} :
            CASE d = \h1D                     -> Press("CTRL")
              [] d = \h3A                     -> Flip("SHIFT")
              [] d \in {\h2A, \h36}           -> Press("SHIFT")
              [] d = \h38                     -> Press("ALT")
              [] d \in {0, \h54, \h55, \h56}  -> Ignore
              [] OTHER                        -> ENQUEUE(Character(d))
      BY <2>1 DEF Make, Lookup, TableSize
    <3>2. CASE d = \h1E
      BY <3>1, <3>2
    <3>3. CASE d # \h1E
      BY <3>1, <3>3
    <3> QED
      BY <3>2, <3>3
  <2>3. Meaning(e) = Does("stray", "")
    BY <1>13 DEF Meaning
  <2>4. Character(\h1E) \in {Lower(\h1E), Upper(\h1E)}
    BY DEF Character
  <2>5. \/ Key!Nothing \/ Key!Toggle("SHIFT")
        \/ \E m \in {"SHIFT", "CTRL", "ALT"} : Key!Hold(m)
        \/ \E k \in {Lower(\h1E), Upper(\h1E)} : Key!Produce(k)
    <3>1. Ignore => Key!Nothing
      BY DEF Ignore, Key!Nothing
    <3>2. \A m : Press(m) => Key!Hold(m)
      BY DEF Press, Key!Hold
    <3>3. Flip("SHIFT") => Key!Toggle("SHIFT")
      BY DEF Flip, Press, Release, Key!Toggle
    <3>4. ENQUEUE(Character(\h1E)) => Key!Produce(Character(\h1E))
      BY DEF ENQUEUE, Key!Produce
    <3> QED
      BY <2>2, <2>4, <3>1, <3>2, <3>3, <3>4, Zenon
  <2>6. Meaning(e).kind = "stray"
    <3>1. Does("stray", "").kind = "stray"
      BY DEF Does
    <3> QED
      BY <2>3, <3>1, Zenon
  <2> QED
    BY <2>5, <2>6, Zenon DEF Key!Event
<1> QED
  BY <1>3, <1>4, <1>5, <1>6, <1>7, <1>8, <1>9, <1>10, <1>11, <1>12, <1>13 DEF Single

(* Keys whose last byte follows 0xE0. *)
LEMMA ExtendedEffect ==
  ASSUME NEW e \in Double \cup {"sup", "prtscr"}, kbd_state = \hE0,
         decode(Bytes[e][Len(Bytes[e])])
  PROVE  Key!Event(Meaning(e))
<1> DEFINE c == Bytes[e][Len(Bytes[e])]
<1>1. CASE e = "rctrl"
  <2>1. c = \h1D
    BY <1>1 DEF Bytes
  <2>2. Extended(\h1D)
    BY <2>1, SecondByte
  <2>3. Press("CTRL") /\ Meaning(e) = Does("hold", "CTRL")
    BY <1>1, <2>2 DEF Extended, Meaning, ExtendedKeys
  <2> QED
    BY <2>3, Deeds
<1>2. CASE e = "rctrlr"
  <2>1. c = \h9D
    BY <1>2 DEF Bytes
  <2>2. Extended(\h9D)
    BY <2>1, SecondByte
  <2>3. Release("CTRL") /\ Meaning(e) = Does("drop", "CTRL")
    BY <1>2, <2>2 DEF Extended, Meaning, ExtendedKeys
  <2> QED
    BY <2>3, Deeds
<1>3. CASE e = "ralt"
  <2>1. c = \h38
    BY <1>3 DEF Bytes
  <2>2. Extended(\h38)
    BY <2>1, SecondByte
  <2>3. Press("ALT") /\ Meaning(e) = Does("hold", "ALT")
    BY <1>3, <2>2 DEF Extended, Meaning, ExtendedKeys
  <2> QED
    BY <2>3, Deeds
<1>4. CASE e = "raltr"
  <2>1. c = \hB8
    BY <1>4 DEF Bytes
  <2>2. Extended(\hB8)
    BY <2>1, SecondByte
  <2>3. Release("ALT") /\ Meaning(e) = Does("drop", "ALT")
    BY <1>4, <2>2 DEF Extended, Meaning, ExtendedKeys
  <2> QED
    BY <2>3, Deeds
<1>5. CASE e = "insert"
  <2>1. c = \h52
    BY <1>5 DEF Bytes
  <2>2. Extended(\h52)
    BY <2>1, SecondByte
  <2>3. Flip("INSERT") /\ Meaning(e) = Does("toggle", "INSERT")
    BY <1>5, <2>2 DEF Extended, Meaning, ExtendedKeys
  <2> QED
    BY <2>3, Deeds
<1>6. CASE e \in {"up", "sup"}
  <2>1. c = \h48
    <3>1. e = "up" => c = \h48
      BY DEF Bytes
    <3>2. e = "sup" => c = \h48
      BY DEF Bytes
    <3> QED
      BY <1>6, <3>1, <3>2
  <2>2. Extended(\h48)
    BY <2>1, SecondByte
  <2>3. \h48 \in ExtendedKeys /\ \h48 \notin {\h1D, \h9D, \h38, \hB8, \h52}
    BY DEF ExtendedKeys
  <2>4. ENQUEUE(Ext(\h48))
    BY <2>2, <2>3 DEF Extended
  <2>5. Meaning(e) = Does("key", Ext(\h48))
    BY <1>6 DEF Meaning
  <2> QED
    BY <2>4, <2>5, Deeds
<1>7. CASE e \in {"upr", "insertr", "prtscr"}
  <2>1. c \in {\hC8, \hD2, \hAA}
    <3>1. e = "upr" => c = \hC8
      BY DEF Bytes
    <3>2. e = "insertr" => c = \hD2
      BY DEF Bytes
    <3>3. e = "prtscr" => c = \hAA
      BY DEF Bytes
    <3> QED
      BY <1>7, <3>1, <3>2, <3>3
  <2> HIDE DEF c
  <2>2. Extended(c)
    <3>1. c \in Nat /\ c # \h2A /\ decode(c)
      BY <2>1 DEF c
    <3> QED
      BY <3>1, SecondByte
  <2>3. c \notin {\h1D, \h9D, \h38, \hB8, \h52} /\ c \notin ExtendedKeys
    BY <2>1 DEF ExtendedKeys
  <2>4. Ignore
    BY <2>2, <2>3 DEF Extended
  <2>5. Meaning(e) = Does("nothing", "")
    BY <1>7 DEF Meaning
  <2> QED
    BY <2>4, <2>5, Deeds
<1> QED
  BY <1>1, <1>2, <1>3, <1>4, <1>5, <1>6, <1>7 DEF Double

(* With its last byte an event does what it means. *)
LEMMA LastEffect ==
  ASSUME NEW e \in DOMAIN Bytes, kbd_state = Passed(e)[Len(Bytes[e])],
         decode(Bytes[e][Len(Bytes[e])])
  PROVE  Key!Event(Meaning(e))
<1>1. CASE e \in Single
  <2>1. Len(Bytes[e]) = 1
    BY <1>1, EventBytes
  <2>2. Passed(e) = <<0>>
    BY <1>1 DEF Passed
  <2> QED
    BY <1>1, <2>1, <2>2, SingleEffect
<1>2. CASE e \in Double \cup {"sup", "prtscr"}
  <2>1. kbd_state = \hE0
    <3>1. CASE e \in Double
      <4>1. Len(Bytes[e]) = 2
        BY <3>1, EventBytes
      <4>2. Passed(e) = <<0, \hE0>>
        BY <3>1, PassedDouble
      <4> QED
        BY <4>1, <4>2
    <3>2. CASE e \in {"sup", "prtscr"}
      <4>1. Len(Bytes[e]) = 4
        BY <3>2, EventBytes DEF Fourfold
      <4>2. Passed(e) = <<0, \hE0, 0, \hE0>>
        BY <3>2, SMTT(30) DEF Passed, Single, Double
      <4> QED
        BY <4>1, <4>2
    <3> QED
      BY <1>2, <3>1, <3>2
  <2> QED
    BY <1>2, <2>1, ExtendedEffect
<1>3. CASE e = "supr"
  <2>1. Bytes[e] = <<\hE0, \hC8, \hE0, \h2A>> /\ Passed(e) = <<0, \hE0, 0, \hE0>>
    BY <1>3 DEF Bytes, Passed, Single, Double
  <2>2. kbd_state = \hE0 /\ decode(\h2A)
    BY <2>1
  <2>3. \E t \in Steps : t[1] = kbd_state /\ t[2] = \h2A
    BY <2>2 DEF Steps
  <2>4. Ignore
    BY <2>2, <2>3, InStep
  <2>5. Meaning(e) = Does("nothing", "")
    BY <1>3 DEF Meaning
  <2> QED
    BY <2>4, <2>5, Deeds
<1>4. CASE e = "prtsc"
  <2>1. Bytes[e] = <<\hE0, \h2A, \hE0, \h37>> /\ Passed(e) = <<0, \hE0, \hE02A, \h2AE0>>
    BY <1>4 DEF Bytes, Passed, Single, Double
  <2>2. kbd_state = \h2AE0 /\ decode(\h37)
    BY <2>1
  <2>3. ~\E t \in Steps : t[1] = kbd_state /\ t[2] = \h37
    BY <2>2 DEF Steps
  <2>4. ENQUEUE(PRTSC)
    BY <2>2, <2>3, OutOfStep
  <2>5. Meaning(e) = Does("key", PRTSC)
    BY <1>4 DEF Meaning
  <2> QED
    BY <2>4, <2>5, Deeds
<1>5. CASE e = "pause"
  <2>1. Bytes[e] = <<\hE1, \h1D, \h45, \hE1, \h9D, \hC5>>
        /\ Passed(e) = <<0, \hE1, \h1D, \h45, \h2E1, \h9D>>
    BY <1>5 DEF Bytes, Passed, Single, Double
  <2>2. kbd_state = \h9D /\ decode(\hC5)
    BY <2>1
  <2>3. ~\E t \in Steps : t[1] = kbd_state /\ t[2] = \hC5
    BY <2>2 DEF Steps
  <2>4. ENQUEUE(PAUSE)
    BY <2>2, <2>3, OutOfStep
  <2>5. Meaning(e) = Does("key", PAUSE)
    BY <1>5 DEF Meaning
  <2> QED
    BY <2>4, <2>5, Deeds
<1> QED
  BY <1>1, <1>2, <1>3, <1>4, <1>5, EventNames DEF Fourfold

(* EffectsExact for behaviours of any length: in decode() an event that    *)
(* begins at rest and arrives whole does what it means with its last byte, *)
(* and nothing before.                                                     *)
THEOREM KeyByKey == Spec => EffectsExact
<1>1. DecodeInv /\ [Next]_vars =>
        [kbd_handler /\ atrest /\ ~broken =>
           IF Len(pending) = 1 THEN Key!Event(Meaning(event)) ELSE Key!Nothing]_vars
  <2> SUFFICES ASSUME DecodeInv, kbd_handler, atrest, ~broken
               PROVE  IF Len(pending) = 1 THEN Key!Event(Meaning(event)) ELSE Key!Nothing
    OBVIOUS
  <2>1. pending # <<>> /\ pending' = Tail(pending) /\ event' = event /\ decode(Head(pending))
    BY DEF kbd_handler
  <2>2. /\ Place \in 1..Len(Bytes[event]) /\ Len(Bytes[event]) \in Nat
        /\ Head(pending) = Bytes[event][Place]
        /\ (Place = Len(Bytes[event]) <=> Len(pending) = 1)
    BY <2>1, RestTail
  <2>3. event \in DOMAIN Bytes /\ kbd_state = Passed(event)[Place]
    BY <2>1 DEF DecodeInv, Rest
  <2>4. CASE Len(pending) = 1
    BY <2>1, <2>2, <2>3, <2>4, LastEffect
  <2>5. CASE Len(pending) # 1
    <3>1. Place \in Nat /\ 1 <= Place /\ Place < Len(Bytes[event])
      BY <2>2, <2>5
    <3>2. Ignore
      BY <2>1, <2>2, <2>3, <3>1, NoEffectYet
    <3> QED
      BY <2>5, <3>2, Deeds
  <2> QED
    BY <2>4, <2>5
<1> QED
  BY <1>1, DecodeInit, DecodeStep, PTL DEF Spec, EffectsExact
=============================================================================
