--------------------------- MODULE KbdRingProofs ----------------------------
(***************************************************************************)
(* Proofs about KbdRing for every queue size, key set and key bound.       *)
(***************************************************************************)
EXTENDS KbdRing, TLAPS

-----------------------------------------------------------------------------
(* The index arithmetic of a ring of n slots, for every n *)

(* Inc, the "++p, back to 0 at n" of the rings, keeps an index in range.   *)
LEMMA IncType ==
  ASSUME NEW n \in Nat \ {0}, NEW p \in 0..n-1
  PROVE  Inc(n, p) \in 0..n-1
BY DEF Inc

(* Every count of increments up to n leads to a slot.                      *)
LEMMA SlotType ==
  ASSUME NEW n \in Nat \ {0}, NEW h \in 0..n-1, NEW k \in 0..n
  PROVE  Slot(n, h, k) \in 0..n-1
BY DEF Slot

(* Zero increments stay, and n increments come back round.                 *)
LEMMA SlotZero ==
  ASSUME NEW n \in Nat \ {0}, NEW h \in 0..n-1
  PROVE  Slot(n, h, 0) = h /\ Slot(n, h, n) = h
BY DEF Slot

(* One increment more, made at the far end or at the near one.             *)
LEMMA SlotInc ==
  ASSUME NEW n \in Nat \ {0}, NEW h \in 0..n-1, NEW k \in 0..n-1
  PROVE  /\ Inc(n, Slot(n, h, k)) = Slot(n, h, k + 1)
         /\ Slot(n, Inc(n, h), k) = Slot(n, h, k + 1)
BY DEF Slot, Inc

(* Fewer than n increments never meet: a ring of at most n entries has     *)
(* every entry in a slot of its own.                                       *)
LEMMA SlotInjective ==
  ASSUME NEW n \in Nat \ {0}, NEW h \in 0..n-1,
         NEW j \in 0..n-1, NEW k \in 0..n-1, Slot(n, h, j) = Slot(n, h, k)
  PROVE  j = k
BY DEF Slot

-----------------------------------------------------------------------------
(* The keys that StoreSize removed from the count. *)
Removed == Len(taken) + InHand

(* Between disable() and enable() no interrupt is taken, and enable() is   *)
(* unconditional.                                                          *)
CriticalSection ==
  /\ pc \in {"take", "load", "store", "sti"} => ~iflag
  /\ pc = "dispatch" => iflag

(* What kbd_isempty saw stays true until the key is removed: interrupts    *)
(* only add keys.                                                          *)
SeenNonEmpty ==
  /\ pc \in {"dequeue", "cli", "take", "load", "store"} => kbd_size > 0
  /\ pc = "store" => reg = kbd_size

(* The occupied slots run from the oldest key to kbd_tail... *)
Geometry == kbd_tail = Slot(N, Oldest, kbd_size)

(* ...and hold the keys accepted and not yet removed, oldest first. *)
Contents ==
  /\ Len(accepted) = Removed + kbd_size
  /\ \A i \in 0..kbd_size-1 :
       kbd_buffer[Slot(N, Oldest, i)] = accepted[Removed + i + 1]

(* The key in the loop's local is the next one to dispatch. *)
Holding ==
  pc \in {"load", "store", "sti", "dispatch"} => c = accepted[Len(taken) + 1]

TakenPrefix == \A i \in 1..Len(taken) : taken[i] = accepted[i]

LastIsCli == taken # <<>> /\ taken[Len(taken)] = CliKey

(* The flag is clear outside the critical section only because of 'c'. *)
FlagCleared ==
  /\ ~iflag /\ pc \in {"poll", "dequeue", "cli", "hlt", "asleep"} => LastIsCli
  /\ ~iflag /\ pc \in {"hlt", "asleep"} => kbd_size = 0

IInv ==
  /\ TypeOK
  /\ CriticalSection
  /\ SeenNonEmpty
  /\ Geometry
  /\ Contents
  /\ Holding
  /\ TakenPrefix
  /\ FlagCleared

-----------------------------------------------------------------------------

(* The queue has at least one slot.                                        *)
LEMMA NType == N \in Nat /\ N > 0
BY SizeAssumption DEF N

(* The slot of the oldest key is a slot, and TakeKey's increment leaves it *)
(* where it was.                                                           *)
LEMMA OldestType ==
  ASSUME TypeOK
  PROVE  Oldest \in 0..N-1
BY NType DEF TypeOK, Oldest

(* keyboard.c starts with an empty ring and cmain sets the flag.           *)
LEMMA InitInv == Init => IInv
<1> SUFFICES ASSUME Init PROVE IInv
  OBVIOUS
<1> USE NType DEF Init
<1>1. TypeOK
  BY KeyAssumption DEF TypeOK, Labels
<1>2. CriticalSection /\ SeenNonEmpty /\ Holding /\ TakenPrefix /\ FlagCleared
  BY DEF CriticalSection, SeenNonEmpty, Holding, TakenPrefix, FlagCleared
<1>3. Geometry
  BY DEF Geometry, Oldest, Slot
<1>4. Contents
  BY DEF Contents, Removed, InHand
<1> QED
  BY <1>1, <1>2, <1>3, <1>4 DEF IInv

(* Steps that touch neither the ring nor the histories, and neither enter  *)
(* nor leave the stretches in which a key is half removed or in hand, keep *)
(* the ring's part of the invariant.                                       *)
LEMMA QuietStep ==
  ASSUME IInv, UNCHANGED <<ringvars, accepted, taken>>,
         Oldest' = Oldest, InHand' = InHand
  PROVE  Geometry' /\ Contents' /\ TakenPrefix'
<1> USE DEF ringvars
<1>1. Geometry'
  BY DEF IInv, Geometry, Slot, N
<1>2. Contents'
  BY DEF IInv, Contents, Removed, Slot, N
<1>3. TakenPrefix'
  BY DEF IInv, TakenPrefix
<1> QED
  BY <1>1, <1>2, <1>3

(* kbd_enqueue writes the slot at kbd_tail, which holds no key that is     *)
(* still to be read.                                                       *)
LEMMA KbdIrqInv ==
  ASSUME IInv, NEW k \in Keys, KbdIrq(k)
  PROVE  IInv'
<1> USE NType
<1>0. TypeOK /\ Oldest \in 0..N-1
  BY OldestType DEF IInv
<1>1. /\ iflag /\ iflag' = iflag /\ kbd_head' = kbd_head /\ c' = c /\ reg' = reg /\ taken' = taken
      /\ pc' = IF pc = "asleep" THEN "poll" ELSE pc
      /\ pc \notin {"take", "load", "store", "sti"}
  BY DEF KbdIrq, Wake, IInv, CriticalSection
<1>2. Oldest = kbd_head /\ Oldest' = kbd_head /\ InHand' = InHand
  BY <1>1 DEF Oldest, InHand, IInv
<1>arr. arrivals' \in 0..MaxKeys
  BY <1>0, KeyAssumption DEF TypeOK, KbdIrq
<1>3. CASE kbd_size = N
  <2>1. UNCHANGED <<ringvars, accepted, taken>>
    BY <1>1, <1>3 DEF KbdIrq, kbd_enqueue, ringvars
  <2>2. Geometry' /\ Contents' /\ TakenPrefix'
    BY <1>2, <2>1, QuietStep
  <2>3. TypeOK'
    BY <1>0, <1>1, <1>arr, <2>1 DEF TypeOK, ringvars, Labels, N
  <2>4. CriticalSection' /\ SeenNonEmpty' /\ Holding' /\ FlagCleared'
    BY <1>1, <2>1 DEF IInv, CriticalSection, SeenNonEmpty, Holding, FlagCleared, ringvars
  <2> QED
    BY <2>2, <2>3, <2>4 DEF IInv
<1>4. CASE kbd_size # N
  <2>1. /\ kbd_size \in 0..N-1
        /\ kbd_buffer' = [kbd_buffer EXCEPT ![kbd_tail] = k]
        /\ kbd_tail' = Inc(N, kbd_tail)
        /\ kbd_size' = kbd_size + 1
        /\ accepted' = Append(accepted, k)
    BY <1>0, <1>4 DEF KbdIrq, kbd_enqueue, TypeOK
  <2>2. /\ Len(accepted') = Len(accepted) + 1
        /\ accepted'[Len(accepted) + 1] = k
        /\ \A i \in 1..Len(accepted) : accepted'[i] = accepted[i]
    BY <1>0, <2>1 DEF TypeOK
  <2>3. TypeOK'
    <3>1. kbd_tail' \in 0..N-1
      BY <1>0, <2>1, IncType DEF TypeOK
    <3>2. kbd_buffer' \in [0..N-1 -> Keys \cup {NoKey}]
      BY <1>0, <2>1 DEF TypeOK
    <3>3. accepted' \in Seq(Keys)
      BY <1>0, <2>1 DEF TypeOK
    <3> QED
      BY <1>0, <1>1, <2>1, <1>arr, <3>1, <3>2, <3>3 DEF TypeOK, Labels, N
  <2>4. CriticalSection' /\ FlagCleared'
    BY <1>1 DEF IInv, CriticalSection, FlagCleared
  <2>5. SeenNonEmpty'
    BY <1>0, <1>1, <2>1 DEF IInv, SeenNonEmpty, TypeOK
  <2>6. Geometry'
    BY <1>0, <1>2, <2>1, SlotInc DEF IInv, Geometry, N
  <2>7. Contents'
    <3>1. Removed' = Removed /\ Removed \in Nat /\ Len(accepted) = Removed + kbd_size
      BY <1>0, <1>1, <1>2 DEF Removed, InHand, IInv, Contents, TypeOK
    <3>2. Len(accepted') = Removed' + kbd_size'
      BY <1>0, <2>1, <2>2, <3>1 DEF TypeOK
    <3>3. ASSUME NEW i \in 0..kbd_size'-1
          PROVE  kbd_buffer'[Slot(N, Oldest, i)] = accepted'[Removed + i + 1]
      <4>1. CASE i = kbd_size
        <5>1. Slot(N, Oldest, i) = kbd_tail
          BY <4>1 DEF IInv, Geometry
        <5> QED
          BY <1>0, <2>1, <2>2, <3>1, <4>1, <5>1 DEF TypeOK
      <4>2. CASE i # kbd_size
        <5>1. i \in 0..kbd_size-1 /\ i \in 0..N-1
          BY <2>1, <4>2
        <5>2. Slot(N, Oldest, i) # kbd_tail
          BY <1>0, <2>1, <5>1, <4>2, SlotInjective DEF IInv, Geometry
        <5>3. Slot(N, Oldest, i) \in 0..N-1
          BY <1>0, <5>1, SlotType
        <5>4. kbd_buffer'[Slot(N, Oldest, i)] = kbd_buffer[Slot(N, Oldest, i)]
          BY <1>0, <2>1, <5>2, <5>3 DEF TypeOK
        <5>6. kbd_buffer[Slot(N, Oldest, i)] = accepted[Removed + i + 1]
          BY <5>1 DEF IInv, Contents
        <5>5. Removed + i + 1 \in 1..Len(accepted)
          BY <2>1, <3>1, <5>1
        <5> QED
          BY <2>2, <5>4, <5>5, <5>6
      <4> QED
        BY <4>1, <4>2
    <3> QED
      BY <1>2, <3>1, <3>2, <3>3 DEF Contents, N
  <2>8. Len(taken) \in Nat /\ Len(accepted) \in Nat /\ Len(taken) + InHand + kbd_size = Len(accepted)
    BY <1>0 DEF IInv, Contents, Removed, TypeOK
  <2>9. Holding'
    <3>1. CASE pc = "dispatch"
      <4>1. Len(taken) + 1 \in 1..Len(accepted)
        BY <2>8, <2>1, <3>1 DEF InHand
      <4> QED
        BY <1>1, <2>2, <3>1, <4>1 DEF IInv, Holding
    <3> QED
      BY <1>1, <3>1 DEF Holding
  <2>10. TakenPrefix'
    <3>1. \A i \in 1..Len(taken) : i \in 1..Len(accepted)
      BY <2>8, <2>1 DEF InHand
    <3> QED
      BY <1>1, <2>2, <3>1 DEF IInv, TakenPrefix
  <2> QED
    BY <2>3, <2>4, <2>5, <2>6, <2>7, <2>9, <2>10 DEF IInv
<1> QED
  BY <1>3, <1>4

(* The steps of the loop around the removal of a key, and the timer. *)
Quiet == kbd_isempty \/ DequeueTest \/ Disable \/ Enable \/ LoadSize \/ Hlt \/ PitIrq

(* Steps of the loop that leave the ring alone preserve the invariant.     *)
LEMMA QuietInv ==
  ASSUME IInv, Quiet
  PROVE  IInv'
<1> USE DEF Goto
<1>1. UNCHANGED <<ringvars, accepted, taken, arrivals>>
  BY DEF Quiet, kbd_isempty, DequeueTest, Disable, Enable, LoadSize, Hlt, PitIrq
<1>2. Oldest' = Oldest
  BY <1>1 DEF Quiet, kbd_isempty, DequeueTest, Disable, Enable, LoadSize, Hlt,
              PitIrq, Wake, Oldest, ringvars, N
<1>3. InHand' = InHand
  BY DEF Quiet, kbd_isempty, DequeueTest, Disable, Enable, LoadSize, Hlt,
         PitIrq, Wake, InHand, IInv, SeenNonEmpty
<1>4. Geometry' /\ Contents' /\ TakenPrefix'
  BY <1>1, <1>2, <1>3, QuietStep
<1>5. TypeOK'
  <2>1. TypeOK
    BY DEF IInv
  <2>2. pc' \in Labels
    BY <2>1 DEF TypeOK, Quiet, kbd_isempty, DequeueTest, Disable, Enable, LoadSize,
                Hlt, PitIrq, Wake, Labels
  <2>3. reg' \in 0..N /\ iflag' \in BOOLEAN /\ c' \in Keys \cup {NoKey}
    BY <2>1 DEF TypeOK, Quiet, kbd_isempty, DequeueTest, Disable, Enable, LoadSize,
                Hlt, PitIrq
  <2> QED
    BY <1>1, <2>1, <2>2, <2>3 DEF TypeOK, ringvars, N
<1>6. CriticalSection'
  BY <1>1 DEF IInv, CriticalSection, SeenNonEmpty, Quiet, kbd_isempty, DequeueTest,
              Disable, Enable, LoadSize, Hlt, PitIrq, Wake, ringvars
<1>7. SeenNonEmpty'
  <2>1. kbd_size \in Nat /\ kbd_size' = kbd_size
    BY <1>1, NType DEF IInv, TypeOK, ringvars
  <2> QED
    BY <2>1 DEF IInv, SeenNonEmpty, Quiet, kbd_isempty, DequeueTest, Disable,
                Enable, LoadSize, Hlt, PitIrq, Wake
<1>8. Holding'
  BY <1>1 DEF IInv, Holding, SeenNonEmpty, Quiet, kbd_isempty, DequeueTest,
              Disable, Enable, LoadSize, Hlt, PitIrq, Wake
<1>9. FlagCleared'
  <2>1. LastIsCli' = LastIsCli /\ kbd_size' = kbd_size
    BY <1>1 DEF LastIsCli, ringvars
  <2> QED
    BY <2>1 DEF IInv, FlagCleared, CriticalSection, Quiet, kbd_isempty, DequeueTest,
                Disable, Enable, LoadSize, Hlt, PitIrq, Wake
<1> QED
  BY <1>4, <1>5, <1>6, <1>7, <1>8, <1>9 DEF IInv

(* kbd_head moves on, but the slot it left counts as occupied until the    *)
(* size is written back.                                                   *)
LEMMA TakeKeyInv ==
  ASSUME IInv, TakeKey
  PROVE  IInv'
<1> USE NType DEF Goto
<1>0. TypeOK /\ kbd_size > 0 /\ Removed = Len(taken) /\ Oldest = kbd_head
  BY DEF IInv, SeenNonEmpty, TakeKey, Removed, InHand, Oldest, TypeOK
<1>1. /\ pc = "take" /\ pc' = "load" /\ c' = kbd_buffer[kbd_head] /\ kbd_head' = Inc(N, kbd_head)
      /\ UNCHANGED <<kbd_buffer, kbd_size, kbd_tail, iflag, reg, accepted, taken, arrivals>>
  BY DEF TakeKey
<1>2. Oldest' = kbd_head /\ kbd_head' \in 0..N-1
  BY <1>0, <1>1 DEF TypeOK, Oldest, Inc, N
<1>3. InHand = 0 /\ InHand' = 0 /\ Removed' = Removed
  BY <1>1 DEF InHand, Removed
<1>4. TypeOK'
  <2>1. c' \in Keys \cup {NoKey}
    BY <1>0, <1>1 DEF TypeOK
  <2> QED
    BY <1>0, <1>1, <1>2, <2>1 DEF TypeOK, Labels, N
<1>5. CriticalSection' /\ SeenNonEmpty' /\ TakenPrefix' /\ FlagCleared'
  BY <1>0, <1>1 DEF IInv, CriticalSection, SeenNonEmpty, TakenPrefix, FlagCleared
<1>6. Geometry'
  BY <1>0, <1>1, <1>2 DEF IInv, Geometry, Slot, N
<1>7. Contents'
  BY <1>0, <1>1, <1>2, <1>3 DEF IInv, Contents, Slot, N
<1>8. Holding'
  <2>1. kbd_buffer[Slot(N, Oldest, 0)] = accepted[Removed + 0 + 1]
    BY <1>0 DEF IInv, Contents, TypeOK
  <2>2. Slot(N, Oldest, 0) = kbd_head
    BY <1>0, SlotZero DEF TypeOK
  <2>3. Len(taken) \in Nat
    BY <1>0 DEF TypeOK
  <2> QED
    BY <1>0, <1>1, <2>1, <2>2, <2>3 DEF Holding
<1> QED
  BY <1>4, <1>5, <1>6, <1>7, <1>8 DEF IInv

(* With no interrupt since LoadSize, the size written back is the right    *)
(* one, and the key moves from the ring into the loop's hand.              *)
LEMMA StoreSizeInv ==
  ASSUME IInv, StoreSize
  PROVE  IInv'
<1> USE NType DEF Goto
<1>0. TypeOK /\ kbd_size \in 1..N /\ Len(taken) \in Nat
  BY DEF IInv, SeenNonEmpty, StoreSize, TypeOK
<1>1. /\ pc = "store" /\ pc' = "sti" /\ kbd_size' = kbd_size - 1
      /\ UNCHANGED <<kbd_buffer, kbd_head, kbd_tail, iflag, c, reg, accepted, taken, arrivals>>
  BY DEF StoreSize, IInv, SeenNonEmpty
<1>2. Oldest \in 0..N-1 /\ Oldest' = kbd_head /\ kbd_head = Inc(N, Oldest)
  BY <1>0, <1>1 DEF TypeOK, Oldest, Inc
<1>3. Removed = Len(taken) /\ Removed' = Len(taken) + 1
  BY <1>0, <1>1 DEF InHand, Removed
<1>4. TypeOK'
  BY <1>0, <1>1 DEF TypeOK, Labels, N
<1>5. CriticalSection' /\ SeenNonEmpty' /\ TakenPrefix' /\ FlagCleared' /\ Holding'
  BY <1>1 DEF IInv, CriticalSection, SeenNonEmpty, TakenPrefix, FlagCleared, Holding
<1>6. Geometry'
  <2>1. kbd_size - 1 \in 0..N-1
    BY <1>0
  <2>2. Slot(N, kbd_head, kbd_size - 1) = Slot(N, Oldest, kbd_size - 1 + 1)
    BY <1>2, <2>1, SlotInc
  <2>3. kbd_size - 1 + 1 = kbd_size
    BY <1>0
  <2>4. Slot(N, kbd_head, kbd_size - 1) = kbd_tail
    BY <2>2, <2>3 DEF IInv, Geometry
  <2> QED
    BY <1>1, <1>2, <2>4 DEF Geometry, N
<1>7. Contents'
  <2>1. Len(accepted') = Removed' + kbd_size'
    <3>1. Len(accepted) = Removed + kbd_size
      BY Zenon DEF IInv, Contents
    <3> QED
      BY <1>0, <1>1, <1>3, <3>1
  <2>2. ASSUME NEW i \in 0..kbd_size'-1
        PROVE  kbd_buffer[Slot(N, kbd_head, i)] = accepted[Removed' + i + 1]
    <3>1. i \in 0..N-1 /\ i + 1 \in 0..kbd_size-1
      BY <1>0, <1>1
    <3>2. Slot(N, kbd_head, i) = Slot(N, Oldest, i + 1)
      BY <1>2, <3>1, SlotInc
    <3>3. kbd_buffer[Slot(N, Oldest, i + 1)] = accepted[Removed + (i + 1) + 1]
      BY <3>1 DEF IInv, Contents
    <3> QED
      BY <1>0, <1>3, <3>2, <3>3
  <2> QED
    BY <1>1, <1>2, <2>1, <2>2 DEF Contents, N
<1> QED
  BY <1>4, <1>5, <1>6, <1>7 DEF IInv

(* The dispatched key is the one after the keys dispatched before it.      *)
LEMMA DispatchInv ==
  ASSUME IInv, Dispatch
  PROVE  IInv'
<1> USE NType DEF Goto
<1>0. TypeOK /\ kbd_size \in 0..N /\ Len(taken) \in Nat
  BY DEF IInv, TypeOK
<1>1. /\ pc = "dispatch" /\ pc' \in {"poll", "stopped"}
      /\ taken' = Append(taken, c)
      /\ UNCHANGED <<ringvars, c, reg, accepted, arrivals>>
      /\ iflag
      /\ iflag' = (pc' # "stopped" /\ c # CliKey)
  BY DEF Dispatch, IInv, CriticalSection
<1>2. /\ Len(taken') = Len(taken) + 1
      /\ taken'[Len(taken) + 1] = c
      /\ \A i \in 1..Len(taken) : taken'[i] = taken[i]
  BY <1>0, <1>1 DEF TypeOK
<1>3. Oldest' = Oldest /\ Removed' = Removed
  BY <1>0, <1>1, <1>2 DEF ringvars, InHand, Removed, Oldest, N
<1>4. TypeOK'
  <2>1. taken' \in Seq(Keys \cup {NoKey})
    BY <1>0, <1>1 DEF TypeOK
  <2>2. iflag' \in BOOLEAN
    BY <1>1
  <2> QED
    BY <1>0, <1>1, <2>1, <2>2 DEF TypeOK, Labels, N, ringvars
<1>5. CriticalSection' /\ SeenNonEmpty' /\ Holding'
  BY <1>1 DEF CriticalSection, SeenNonEmpty, Holding
<1>6. Geometry' /\ Contents'
  BY <1>1, <1>3 DEF IInv, Geometry, Contents, ringvars, N, Slot
<1>7. TakenPrefix'
  <2>1. c = accepted[Len(taken) + 1]
    BY <1>1 DEF IInv, Holding
  <2>2. \A i \in 1..Len(taken) : taken[i] = accepted[i]
    BY DEF IInv, TakenPrefix
  <2> QED
    BY <1>0, <1>1, <1>2, <2>1, <2>2 DEF TakenPrefix
<1>8. FlagCleared'
  <2>1. c = CliKey => LastIsCli'
    BY <1>0, <1>1, <1>2 DEF LastIsCli, TypeOK
  <2> QED
    BY <1>1, <2>1 DEF FlagCleared
<1> QED
  BY <1>4, <1>5, <1>6, <1>7, <1>8 DEF IInv

(* So does a step that changes nothing.                                    *)
LEMMA StutterInv ==
  ASSUME IInv, UNCHANGED vars
  PROVE  IInv'
<1>1. Oldest' = Oldest /\ InHand' = InHand
  BY DEF vars, ringvars, Oldest, InHand, N
<1>2. Geometry' /\ Contents' /\ TakenPrefix'
  BY <1>1, QuietStep DEF vars
<1>3. TypeOK'
  BY DEF IInv, TypeOK, vars, ringvars, N
<1>4. CriticalSection' /\ SeenNonEmpty' /\ Holding' /\ FlagCleared'
  BY DEF IInv, CriticalSection, SeenNonEmpty, Holding, FlagCleared, LastIsCli,
         vars, ringvars
<1> QED
  BY <1>2, <1>3, <1>4 DEF IInv

(* The inductive invariant is preserved by every step of the loop and of   *)
(* the interrupts.                                                         *)
LEMMA StepInv == IInv /\ [Next]_vars => IInv'
<1> SUFFICES ASSUME IInv, [Next]_vars PROVE IInv'
  OBVIOUS
<1>1. CASE Quiet
  BY <1>1, QuietInv
<1>2. CASE TakeKey
  BY <1>2, TakeKeyInv
<1>3. CASE StoreSize
  BY <1>3, StoreSizeInv
<1>4. CASE Dispatch
  BY <1>4, DispatchInv
<1>5. CASE \E k \in Keys : KbdIrq(k)
  BY <1>5, KbdIrqInv
<1>6. CASE UNCHANGED vars
  BY <1>6, StutterInv
<1> QED
  BY <1>1, <1>2, <1>3, <1>4, <1>5, <1>6 DEF Next, Command, Quiet

(* Every reachable state of the key ring satisfies the inductive invariant.*)
THEOREM Invariance == Spec => []IInv
BY InitInv, StepInv, PTL DEF Spec

(* The ring's indices, its size and the loop's locals keep their types,    *)
(* whatever the size of the queue: kbd_buffer is never indexed outside     *)
(* its bounds by kbd_enqueue or kbd_dequeue.                               *)
THEOREM TypeCorrect == Spec => []TypeOK
<1>1. IInv => TypeOK
  BY DEF IInv
<1> QED
  BY <1>1, Invariance, PTL

(* The loop dispatches the accepted keys in order, none lost or repeated,  *)
(* for every queue size and every interleaving with the IRQ 1 handler.     *)
THEOREM Delivery == Spec => []FifoDelivery
<1>1. IInv => FifoDelivery
  BY DEF IInv, Contents, TakenPrefix, FifoDelivery, Removed
<1> QED
  BY <1>1, Invariance, PTL

(* kbd_dequeue's early return of 0 is never taken by the command loop.     *)
THEOREM NoPhantom == Spec => []NoPhantomKey
<1>1. IInv => NoPhantomKey
  <2> SUFFICES ASSUME IInv, pc = "dispatch" PROVE c # NoKey
    BY DEF NoPhantomKey
  <2>1. Len(taken) + 1 \in 1..Len(accepted) /\ accepted \in Seq(Keys)
    BY NType DEF IInv, TypeOK, Contents, Removed, InHand
  <2>2. c = accepted[Len(taken) + 1]
    BY DEF IInv, Holding
  <2> QED
    BY <2>1, <2>2, KeyAssumption
<1> QED
  BY <1>1, Invariance, PTL

(* The processor sleeps with interrupts off only after the 'c' command,    *)
(* and then strands no key.                                                *)
THEOREM Wakeable == Spec => []SleepsWakeable
<1>1. IInv => SleepsWakeable
  BY DEF IInv, FlagCleared, LastIsCli, SleepsWakeable
<1> QED
  BY <1>1, Invariance, PTL

-----------------------------------------------------------------------------
(* Refinement *)

(* Two sequences are equal when they have the same length and elements.    *)
LEMMA SeqEqual ==
  ASSUME NEW S, NEW s \in Seq(S), NEW t \in Seq(S), Len(s) = Len(t),
         \A i \in 1..Len(s) : s[i] = t[i]
  PROVE  s = t
OBVIOUS

(* The ring read from its oldest slot is the accepted keys that are still  *)
(* to be removed.                                                          *)
Pending ==
  /\ kbd_size \in Nat /\ Removed \in Nat
  /\ QueueView \in Seq(Keys)
  /\ Len(QueueView) = kbd_size
  /\ \A i \in 1..kbd_size : QueueView[i] = accepted[Removed + i]

(* The invariant says so: the queue is read out of the ring in order.      *)
LEMMA ViewIsPending == IInv => Pending
<1> SUFFICES ASSUME IInv PROVE Pending
  OBVIOUS
<1>1. kbd_size \in Nat /\ Removed \in Nat /\ Len(accepted) = Removed + kbd_size /\ accepted \in Seq(Keys)
  BY NType DEF IInv, TypeOK, Contents, Removed, InHand
<1>2. ASSUME NEW i \in 1..kbd_size
      PROVE  /\ kbd_buffer[Slot(N, Oldest, i - 1)] = accepted[Removed + i]
             /\ accepted[Removed + i] \in Keys
  <2>1. i - 1 \in 0..kbd_size-1 /\ Removed + (i - 1) + 1 = Removed + i /\ Removed + i \in 1..Len(accepted)
    BY <1>1
  <2>2. kbd_buffer[Slot(N, Oldest, i - 1)] = accepted[Removed + (i - 1) + 1]
    BY <2>1 DEF IInv, Contents
  <2> QED
    BY <1>1, <2>1, <2>2
<1>3. QueueView \in [1..kbd_size -> Keys]
  BY <1>2 DEF QueueView
<1> QED
  BY <1>1, <1>2, <1>3 DEF QueueView, Pending

(* Every step of the ring is a step of the abstract queue or leaves it     *)
(* unchanged: kbd_enqueue is Arrive, the write-back of the size is Remove. *)
LEMMA StepRefines ==
  ASSUME IInv, IInv', [Next]_vars
  PROVE  [Queue!Next]_(Queue!qvars)
<1> USE DEF Goto
<1>p. Pending /\ Pending'
  BY ViewIsPending, PTL
<1>0. TypeOK /\ N \in Nat /\ N > 0 /\ Len(taken) \in Nat /\ Len(accepted) \in Nat
  BY NType DEF IInv, TypeOK
<1>1. ASSUME NEW k \in Keys, KbdIrq(k) PROVE Queue!Arrive(k)
  <2>1. OutView' = OutView /\ arrivals' = arrivals + 1 /\ InHand' = InHand /\ Removed' = Removed
    BY <1>1 DEF KbdIrq, Wake, OutView, InHand, Removed
  <2>2. CASE kbd_size = N
    <3>1. UNCHANGED <<kbd_buffer, kbd_size, kbd_head>> /\ Oldest' = Oldest
      BY <1>1, <2>2 DEF KbdIrq, kbd_enqueue, Oldest, Wake, N
    <3>2. QueueView' = QueueView
      BY <3>1 DEF QueueView, Slot, N
    <3> QED
      BY <1>p, <2>1, <2>2, <3>2 DEF Pending, Queue!Arrive
  <2>3. CASE kbd_size # N
    <3>1. kbd_size' = kbd_size + 1 /\ accepted' = Append(accepted, k) /\ kbd_size \in 0..N-1
      BY <1>0, <1>1, <2>3 DEF KbdIrq, kbd_enqueue, TypeOK
    <3>2. QueueView' \in Seq(Keys) /\ Len(QueueView') = kbd_size + 1
      BY <1>p, <3>1 DEF Pending
    <3>3. \A i \in 1..kbd_size' : QueueView'[i] = accepted'[Removed + i]
      BY <1>p, <2>1 DEF Pending
    <3>4. /\ accepted \in Seq(Keys) /\ Len(accepted) = Removed + kbd_size /\ Removed \in Nat
          /\ QueueView \in Seq(Keys) /\ Len(QueueView) = kbd_size
          /\ \A i \in 1..kbd_size : QueueView[i] = accepted[Removed + i]
      BY <1>0, <1>p DEF Pending, IInv, Contents, TypeOK
    <3>5. ASSUME NEW i \in 1..kbd_size+1
          PROVE  QueueView'[i] = Append(QueueView, k)[i]
      <4>1. CASE i = kbd_size + 1
        BY <3>1, <3>3, <3>4, <4>1
      <4>2. CASE i # kbd_size + 1
        <5>1. i \in 1..kbd_size /\ Removed + i \in 1..Len(accepted)
          BY <3>1, <3>4, <4>2
        <5>2. accepted'[Removed + i] = accepted[Removed + i]
          BY <3>1, <3>4, <5>1
        <5> QED
          BY <3>1, <3>3, <3>4, <5>1, <5>2
      <4> QED
        BY <4>1, <4>2
    <3>6. QueueView' = Append(QueueView, k)
      BY <3>1, <3>2, <3>4, <3>5, SeqEqual
    <3> QED
      BY <1>0, <2>1, <3>1, <3>4, <3>6 DEF Queue!Arrive
  <2> QED
    BY <2>2, <2>3
<1>2. CASE StoreSize
  <2>1. /\ InHand = 0 /\ InHand' = 1 /\ kbd_size > 0 /\ kbd_size' = kbd_size - 1 /\ accepted' = accepted
        /\ c' = c /\ taken' = taken /\ arrivals' = arrivals
    BY <1>2 DEF StoreSize, InHand, IInv, SeenNonEmpty
  <2>2. Removed = Len(taken) /\ Removed' = Removed + 1
    BY <1>0, <2>1 DEF Removed
  <2>3. /\ QueueView \in Seq(Keys) /\ Len(QueueView) = kbd_size /\ kbd_size \in Nat
        /\ \A i \in 1..kbd_size : QueueView[i] = accepted[Removed + i]
    BY <1>p DEF Pending
  <2>4. /\ QueueView' \in Seq(Keys) /\ Len(QueueView') = kbd_size'
        /\ \A i \in 1..kbd_size' : QueueView'[i] = accepted'[Removed' + i]
    BY <1>p DEF Pending
  <2>5. QueueView # <<>> /\ Head(QueueView) = c
    <3>1. c = accepted[Len(taken) + 1]
      BY <1>2 DEF IInv, Holding, StoreSize
    <3>2. 1 \in 1..kbd_size
      BY <2>1, <2>3
    <3>3. QueueView[1] = c
      BY <2>2, <2>3, <3>1, <3>2
    <3> QED
      BY <2>3, <3>2, <3>3
  <2>6. OutView' = Append(OutView, Head(QueueView))
    BY <2>1, <2>5 DEF OutView
  <2>7. QueueView' = Tail(QueueView)
    <3>1. ASSUME NEW i \in 1..kbd_size-1 PROVE QueueView'[i] = Tail(QueueView)[i]
      <4>1. QueueView'[i] = accepted[Removed + 1 + i]
        BY <2>1, <2>2, <2>4
      <4>2. i + 1 \in 1..kbd_size /\ Removed + (i + 1) = Removed + 1 + i
        BY <2>1, <2>2, <2>3, <1>0
      <4>3. QueueView[i + 1] = accepted[Removed + (i + 1)]
        BY <2>3, <4>2
      <4> QED
        BY <2>1, <2>3, <4>1, <4>2, <4>3
    <3> QED
      BY <2>1, <2>3, <2>4, <2>5, <3>1, SeqEqual
  <2> QED
    BY <2>1, <2>5, <2>6, <2>7 DEF Queue!Next, Queue!Remove
<1>3. CASE Dispatch
  <2>1. /\ pc = "dispatch" /\ pc' \in {"poll", "stopped"} /\ taken' = Append(taken, c)
        /\ UNCHANGED <<ringvars, c, reg, accepted, arrivals>>
    BY <1>3 DEF Dispatch
  <2>2. OutView' = OutView
    BY <2>1 DEF OutView, InHand
  <2>3. Oldest' = Oldest
    BY <2>1 DEF Oldest, ringvars, N
  <2>4. QueueView' = QueueView
    BY <2>1, <2>3 DEF QueueView, ringvars, Slot, N
  <2> QED
    BY <2>1, <2>2, <2>4 DEF Queue!qvars
<1>4. CASE TakeKey
  <2>1. Oldest' = Oldest
    BY <1>0, <1>4 DEF TakeKey, Oldest, Inc, TypeOK, N
  <2>2. QueueView' = QueueView /\ OutView' = OutView /\ arrivals' = arrivals
    BY <1>4, <2>1 DEF TakeKey, QueueView, OutView, InHand, Slot, N
  <2> QED
    BY <2>2 DEF Queue!qvars
<1>5. CASE Quiet
  <2>1. UNCHANGED <<ringvars, accepted, taken, arrivals>>
    BY <1>5 DEF Quiet, kbd_isempty, DequeueTest, Disable, Enable, LoadSize, Hlt, PitIrq
  <2>2. Oldest' = Oldest
    BY <1>5, <2>1 DEF Quiet, kbd_isempty, DequeueTest, Disable, Enable, LoadSize, Hlt,
                PitIrq, Wake, Oldest, ringvars, N
  <2>3. InHand' = InHand /\ (InHand = 1 => c' = c)
    BY <1>5 DEF Quiet, kbd_isempty, DequeueTest, Disable, Enable, LoadSize, Hlt,
           PitIrq, Wake, InHand, IInv, SeenNonEmpty
  <2>4. QueueView' = QueueView /\ OutView' = OutView
    BY <2>1, <2>2, <2>3 DEF QueueView, OutView, ringvars, Slot, N
  <2> QED
    BY <2>1, <2>4 DEF Queue!qvars
<1>6. CASE UNCHANGED vars
  BY <1>6 DEF vars, ringvars, Queue!qvars, QueueView, OutView, InHand, Oldest, Slot, N
<1> QED
  BY <1>1, <1>2, <1>3, <1>4, <1>5, <1>6 DEF Next, Command, Quiet, Queue!Next

(* The interrupt-driven ring implements the abstract bounded FIFO queue,   *)
(* for every queue size.                                                   *)
THEOREM Refinement == Spec => IsQueue
<1>1. Init => Queue!Init
  <2> SUFFICES ASSUME Init PROVE Queue!Init
    OBVIOUS
  <2>1. QueueView = <<>>
    BY DEF Init, QueueView
  <2>2. OutView = <<>> /\ arrivals = 0
    BY DEF Init, OutView, InHand
  <2> QED
    BY <2>1, <2>2 DEF Queue!Init
<1>2. IInv /\ IInv' /\ [Next]_vars => [Queue!Next]_(Queue!qvars)
  BY StepRefines
<1> QED
  BY <1>1, <1>2, Invariance, PTL DEF Spec, IsQueue, Queue!Spec
=============================================================================
