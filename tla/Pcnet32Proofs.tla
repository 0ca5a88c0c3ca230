--------------------------- MODULE Pcnet32Proofs ----------------------------
(***************************************************************************)
(* Proofs about Pcnet32 for rings and pools of every size.                 *)
(***************************************************************************)
EXTENDS Pcnet32, TLAPS

-----------------------------------------------------------------------------
(* The index arithmetic of a ring of n slots, for every n *)

(* Inc, the "++p, back to 0 at n" of the rings, keeps an index in range.   *)
LEMMA IncType ==
  ASSUME NEW n \in Nat \ {0}, NEW p \in 0..n-1
  PROVE  Inc(n, p) \in 0..n-1
BY DEF Inc

(* Every count of increments up to n leads to a slot.                      *)
LEMMA SlotType ==
  ASSUME NEW n \in Nat \ {0}, NEW h \in 0..n-1, NEW k \in 0..n
  PROVE  Slot(n, h, k) \in 0..n-1
BY DEF Slot

(* Zero increments stay, and n increments come back round.                 *)
LEMMA SlotZero ==
  ASSUME NEW n \in Nat \ {0}, NEW h \in 0..n-1
  PROVE  Slot(n, h, 0) = h /\ Slot(n, h, n) = h
BY DEF Slot

(* One increment more, made at the far end or at the near one.             *)
LEMMA SlotInc ==
  ASSUME NEW n \in Nat \ {0}, NEW h \in 0..n-1, NEW k \in 0..n-1
  PROVE  /\ Inc(n, Slot(n, h, k)) = Slot(n, h, k + 1)
         /\ Slot(n, Inc(n, h), k) = Slot(n, h, k + 1)
BY DEF Slot, Inc

(* Fewer than n increments never meet: a ring of at most n entries has     *)
(* every entry in a slot of its own.                                       *)
LEMMA SlotInjective ==
  ASSUME NEW n \in Nat \ {0}, NEW h \in 0..n-1,
         NEW j \in 0..n-1, NEW k \in 0..n-1, Slot(n, h, j) = Slot(n, h, k)
  PROVE  j = k
BY DEF Slot

-----------------------------------------------------------------------------
(* Descriptors the driver gave back so far: the frames taken but for the   *)
(* one in work.                                                            *)
Given == Len(got) - (IF pc \in Holding \ {"frame"} THEN 1 ELSE 0)

(* The driver's place on the receive ring, and how far the card is ahead.  *)
Base == IF Scanning THEN de_ptr ELSE rx_buffer_ptr
Out  == arrived - Given

Control ==
  /\ pc = "work" => needs_work
  /\ pc \in Holding => i < RX
  /\ pc \in Holding \ {"frame"} => got # <<>>
  /\ "INEA" \in csr0
  /\ irq = "ack" => "INEA" \in icsr0

(* The Out descriptors from Base on belong to the driver and hold the next *)
(* frames in order; the others belong to the card.                         *)
RxSlot(k) ==
  IF k < Out
    THEN /\ rown[Slot(RX, Base, k)] = "driver"
         /\ k > 0 \/ pc # "give" => rbuf[Slot(RX, Base, k)] = Given + k + 1
    ELSE rown[Slot(RX, Base, k)] = "card"

RxInv ==
  /\ Given \in Nat /\ Out \in 0..RX
  /\ crx = Slot(RX, Base, Out)
  /\ \A k \in 0..RX-1 : RxSlot(k)
  /\ pc \in Holding => Out > 0

(* The same for the transmit ring, from the card's place on. *)
Waiting == Len(queued) - Len(sent)

TxSlot(k) ==
  IF k < Waiting
    THEN /\ town[Slot(TX, ctx, k)] = "card"
         /\ tbuf[Slot(TX, ctx, k)] = queued[Len(sent) + k + 1]
         /\ tlen[Slot(TX, ctx, k)] = queued[Len(sent) + k + 1]
    ELSE town[Slot(TX, ctx, k)] = "driver"

TxInv ==
  /\ Waiting \in 0..TX
  /\ tx_buffer_ptr = Slot(TX, ctx, Waiting)
  /\ \A k \in 0..TX-1 : TxSlot(k)
  /\ pc \in {"txcopy", "txlen", "txown"} => Waiting < TX
  /\ pc \in {"txlen", "txown"} => tbuf[tx_buffer_ptr] = got[Len(got)]
  /\ pc = "txown" => tlen[tx_buffer_ptr] = got[Len(got)]

(* Nothing is going to make the driver look at the ring. *)
Idle == ~needs_work /\ irq # "ack" /\ cardpc # "wrote" /\ "RINT" \notin csr0

(* Then no frame waits, except those the scan in progress still reaches.   *)
WakeInv ==
  Idle => IF Scanning THEN arrived <= Given - i + RX ELSE arrived = Given

IInv ==
  /\ TypeOK /\ Control /\ RxInv /\ GotInOrder /\ WakeInv
  /\ TxInv /\ SentInOrder /\ PoolConserved

-----------------------------------------------------------------------------

(* What probe_pcnet32 leaves behind satisfies the invariant.               *)
LEMMA InitInv == Init => IInv
<1> SUFFICES ASSUME Init PROVE IInv
  OBVIOUS
<1> USE RingAssumption DEF Init
<1>0. RxType
  BY DEF RxType
<1>1. IrqType
  BY DEF IrqType, Bits
<1>2. TxType /\ WorkType /\ PoolType
  BY DEF TxType, WorkType, PoolType, Labels
<1>3. Control
  BY DEF Control, Holding
<1>4. RxInv
  <2>1. Given = 0 /\ Out = 0 /\ Base = 0 /\ pc \notin Holding
    BY DEF Given, Out, Base, Scanning, Holding
  <2> QED
    BY <2>1 DEF RxInv, RxSlot, Slot
<1>5. TxInv
  BY DEF TxInv, TxSlot, Waiting, Slot
<1>6. GotInOrder /\ SentInOrder /\ PoolConserved
  BY DEF GotInOrder, SentInOrder, PoolConserved
<1>7. WakeInv
  BY DEF WakeInv, Given, Scanning, Holding
<1> QED
  BY <1>0, <1>1, <1>2, <1>3, <1>4, <1>5, <1>6, <1>7 DEF IInv, TypeOK

-----------------------------------------------------------------------------
(* Which steps change what *)

RxSteps   == CardReceive \/ CardRaise \/ ClearBuffer \/ GiveBack
TxSteps   == CardTransmit \/ TxCopy \/ TxLength \/ TxOwn
IrqSteps  == CardRaise \/ CardMiss \/ CardTransmit \/ IrqRead \/ IrqAck \/ DoIrqWork
PoolSteps == FrameAnswered \/ TxTest \/ TxCopy
GotSteps  == FrameIgnored \/ FrameAnswered

(* Every step outside these groups leaves the corresponding state alone.   *)
LEMMA Footprints ==
  ASSUME Next
  PROVE  /\ RxSteps \/ UNCHANGED rxring
         /\ TxSteps \/ UNCHANGED <<txring, txside>>
         /\ IrqSteps \/ UNCHANGED <<csr0, handler, needs_work>>
         /\ PoolSteps \/ UNCHANGED pool
         /\ GotSteps \/ UNCHANGED got
<1>1. RxSteps \/ UNCHANGED rxring
  BY DEF Next, Main, RxSteps, CardReceive, CardRaise, CardMiss, CardTransmit, IrqRead, IrqAck, PitIrq,
              NetProcess, DoIrqWork, ScanNext, ScanEnd, FrameIgnored, FrameAnswered,
              TxTest, TxCopy, TxLength, TxOwn, ClearBuffer, GiveBack, Hlt
<1>2. TxSteps \/ UNCHANGED <<txring, txside>>
  BY DEF Next, Main, TxSteps, CardReceive, CardRaise, CardMiss, CardTransmit, IrqRead, IrqAck, PitIrq,
              NetProcess, DoIrqWork, ScanNext, ScanEnd, FrameIgnored, FrameAnswered,
              TxTest, TxCopy, TxLength, TxOwn, ClearBuffer, GiveBack, Hlt
<1>3. IrqSteps \/ UNCHANGED <<csr0, handler, needs_work>>
  BY DEF Next, Main, IrqSteps, CardReceive, CardRaise, CardMiss, CardTransmit, IrqRead, IrqAck, PitIrq,
              NetProcess, DoIrqWork, ScanNext, ScanEnd, FrameIgnored, FrameAnswered,
              TxTest, TxCopy, TxLength, TxOwn, ClearBuffer, GiveBack, Hlt
<1>4. PoolSteps \/ UNCHANGED pool
  BY DEF Next, Main, PoolSteps, CardReceive, CardRaise, CardMiss, CardTransmit, IrqRead, IrqAck, PitIrq,
              NetProcess, DoIrqWork, ScanNext, ScanEnd, FrameIgnored, FrameAnswered,
              TxTest, TxCopy, TxLength, TxOwn, ClearBuffer, GiveBack, Hlt
<1>5. GotSteps \/ UNCHANGED got
  BY DEF Next, Main, GotSteps, work, CardReceive, CardRaise, CardMiss, CardTransmit, IrqRead, IrqAck, PitIrq,
              NetProcess, DoIrqWork, ScanNext, ScanEnd, FrameIgnored, FrameAnswered,
              TxTest, TxCopy, TxLength, TxOwn, ClearBuffer, GiveBack, Hlt
<1> QED
  BY <1>1, <1>2, <1>3, <1>4, <1>5

(* The last frame taken is a number, while it is in work. *)
LEMMA LastGot ==
  ASSUME TypeOK, Control, pc \in Holding \ {"frame"}
  PROVE  Len(got) \in Nat /\ Len(got) > 0 /\ got[Len(got)] \in Nat
<1>1. got \in Seq(Nat) /\ got # <<>>
  BY DEF TypeOK, WorkType, Control
<1> QED
  BY <1>1

(* Types are preserved by every step.                                      *)
LEMMA TypeStep ==
  ASSUME TypeOK, Control, Next
  PROVE  TypeOK'
<1> USE RingAssumption DEF TypeOK
<1>1. RxType'
  <2>1. CASE CardReceive
    <3>1. crx' \in 0..RX-1
      BY <2>1, IncType DEF CardReceive, RxType
    <3> QED
      BY <2>1, <3>1 DEF CardReceive, RxType
  <2>2. CASE CardRaise
    BY <2>2 DEF CardRaise, RxType
  <2>3. CASE ClearBuffer
    BY <2>3 DEF ClearBuffer, RxType
  <2>4. CASE GiveBack
    BY <2>4 DEF GiveBack, RxType
  <2>5. CASE UNCHANGED rxring
    BY <2>5 DEF rxring, RxType
  <2> QED
    BY <2>1, <2>2, <2>3, <2>4, <2>5, Footprints DEF RxSteps
<1>2. TxType'
  <2>1. CASE CardTransmit
    <3>1. ctx' \in 0..TX-1
      BY <2>1, IncType DEF CardTransmit, TxType
    <3>2. sent' \in Seq(Nat)
      BY <2>1 DEF CardTransmit, OnWire, TxType
    <3> QED
      BY <2>1, <3>1, <3>2 DEF CardTransmit, TxType, txside
  <2>2. CASE TxCopy
    <3>1. got[Len(got)] \in Nat
      BY <2>2, LastGot DEF TxCopy, Goto, Holding
    <3> QED
      BY <2>2, <3>1 DEF TxCopy, TxType, txside
  <2>3. CASE TxOwn
    <3>1. got[Len(got)] \in Nat
      BY <2>3, LastGot DEF TxOwn, Goto, Holding
    <3>2. queued' \in Seq(Nat)
      BY <2>3, <3>1 DEF TxOwn, TxType
    <3>3. tx_buffer_ptr' \in 0..TX-1
      BY <2>3, IncType DEF TxOwn, TxType
    <3> QED
      BY <2>3, <3>2, <3>3 DEF TxOwn, TxType
  <2>4. CASE TxLength
    <3>1. got[Len(got)] \in Nat
      BY <2>4, LastGot DEF TxLength, Goto, Holding
    <3> QED
      BY <2>4, <3>1 DEF TxLength, TxType, txside
  <2>5. CASE UNCHANGED <<txring, txside>>
    BY <2>5 DEF txring, txside, TxType
  <2> QED
    BY <2>1, <2>2, <2>3, <2>4, <2>5, Footprints DEF TxSteps
<1>3. IrqType'
  <2>1. CASE IrqSteps
    BY <2>1 DEF IrqType, IrqSteps, CardRaise, CardMiss, CardTransmit, IrqRead, IrqAck,
                DoIrqWork, WriteCsr0, handler, Bits, Status
  <2>2. CASE UNCHANGED <<csr0, handler, needs_work>>
    BY <2>2 DEF IrqType, handler
  <2> QED
    BY <2>1, <2>2, Footprints
<1>4. WorkType'
  <2>1. pc' \in Labels
    BY DEF WorkType, Labels, Next, Main, Goto, Wake, CardReceive, CardRaise, CardMiss, CardTransmit, IrqRead, IrqAck, PitIrq,
              NetProcess, DoIrqWork, ScanNext, ScanEnd, FrameIgnored, FrameAnswered,
              TxTest, TxCopy, TxLength, TxOwn, ClearBuffer, GiveBack, Hlt
  <2>2. rx_buffer_ptr' \in 0..RX-1
    BY DEF WorkType, Next, Main, work, CardReceive, CardRaise, CardMiss, CardTransmit, IrqRead, IrqAck, PitIrq,
              NetProcess, DoIrqWork, ScanNext, ScanEnd, FrameIgnored, FrameAnswered,
              TxTest, TxCopy, TxLength, TxOwn, ClearBuffer, GiveBack, Hlt
  <2>3. de_ptr' \in 0..RX-1
    <3>1. CASE GiveBack
      BY <3>1, IncType DEF WorkType, GiveBack
    <3>2. CASE ~GiveBack
      BY <3>2 DEF WorkType, Next, Main, work, CardReceive, CardRaise, CardMiss, CardTransmit, IrqRead, IrqAck, PitIrq,
              NetProcess, DoIrqWork, ScanNext, ScanEnd, FrameIgnored, FrameAnswered,
              TxTest, TxCopy, TxLength, TxOwn, ClearBuffer, GiveBack, Hlt
    <3> QED
      BY <3>1, <3>2
  <2>4. i' \in 0..RX
    <3>1. CASE GiveBack
      BY <3>1 DEF WorkType, GiveBack, Control, Holding, Goto
    <3>2. CASE ~GiveBack
      BY <3>2 DEF WorkType, Next, Main, work, CardReceive, CardRaise, CardMiss, CardTransmit, IrqRead, IrqAck, PitIrq,
              NetProcess, DoIrqWork, ScanNext, ScanEnd, FrameIgnored, FrameAnswered,
              TxTest, TxCopy, TxLength, TxOwn, ClearBuffer, GiveBack, Hlt
    <3> QED
      BY <3>1, <3>2
  <2>5. got' \in Seq(Nat)
    <3>1. CASE GotSteps
      <4>1. rbuf[de_ptr] \in Nat
        BY DEF RxType, WorkType
      <4>2. got' = Append(got, rbuf[de_ptr])
        BY <3>1 DEF GotSteps, FrameIgnored, FrameAnswered
      <4> QED
        BY <4>1, <4>2 DEF WorkType
    <3>2. CASE UNCHANGED got
      BY <3>2 DEF WorkType
    <3> QED
      BY <3>1, <3>2, Footprints
  <2> QED
    BY <2>1, <2>2, <2>3, <2>4, <2>5 DEF WorkType
<1>5. PoolType'
  <2>1. CASE PoolSteps
    BY <2>1 DEF PoolType, PoolSteps, FrameAnswered, TxTest, TxCopy, net_alloc
  <2>2. CASE UNCHANGED pool
    BY <2>2 DEF PoolType, pool
  <2> QED
    BY <2>1, <2>2, Footprints
<1> QED
  BY <1>1, <1>2, <1>3, <1>4, <1>5

(* The control facts are preserved by every step.                          *)
LEMMA ControlStep ==
  ASSUME TypeOK, Control, Next
  PROVE  Control'
<1>1. (pc = "work" => needs_work)'
  BY DEF Control, TypeOK, IrqType, Next, Main, Goto, Wake, CardReceive, CardRaise, CardMiss, CardTransmit, IrqRead, IrqAck, PitIrq,
              NetProcess, DoIrqWork, ScanNext, ScanEnd, FrameIgnored, FrameAnswered,
              TxTest, TxCopy, TxLength, TxOwn, ClearBuffer, GiveBack, Hlt
<1>2. (pc \in Holding => i < RX)'
  BY DEF Control, Holding, work, Next, Main, Goto, Wake, CardReceive, CardRaise, CardMiss, CardTransmit, IrqRead, IrqAck, PitIrq,
              NetProcess, DoIrqWork, ScanNext, ScanEnd, FrameIgnored, FrameAnswered,
              TxTest, TxCopy, TxLength, TxOwn, ClearBuffer, GiveBack, Hlt
<1>3. (pc \in Holding \ {"frame"} => got # <<>>)'
  <2>1. CASE GotSteps
    <3>1. got' = Append(got, rbuf[de_ptr])
      BY <2>1 DEF GotSteps, FrameIgnored, FrameAnswered
    <3>2. rbuf[de_ptr] \in Nat /\ got \in Seq(Nat)
      BY DEF TypeOK, RxType, WorkType
    <3> QED
      BY <3>1, <3>2
  <2>2. CASE ~GotSteps
    <3>1. got' = got
      BY <2>2, Footprints
    <3>2. pc' \in Holding \ {"frame"} => pc \in Holding \ {"frame"}
      BY <2>2 DEF GotSteps, Holding, Next, Main, Goto, Wake, CardReceive, CardRaise, CardMiss, CardTransmit, IrqRead, IrqAck, PitIrq,
              NetProcess, DoIrqWork, ScanNext, ScanEnd, FrameIgnored, FrameAnswered,
              TxTest, TxCopy, TxLength, TxOwn, ClearBuffer, GiveBack, Hlt
    <3> QED
      BY <3>1, <3>2 DEF Control
  <2> QED
    BY <2>1, <2>2
<1>4. ("INEA" \in csr0 /\ (irq = "ack" => "INEA" \in icsr0))'
  <2>1. CASE IrqSteps
    BY <2>1 DEF Control, IrqSteps, CardRaise, CardMiss, CardTransmit, IrqRead, IrqAck,
                DoIrqWork, WriteCsr0, handler, Status
  <2>2. CASE UNCHANGED <<csr0, handler, needs_work>>
    BY <2>2 DEF Control, handler
  <2> QED
    BY <2>1, <2>2, Footprints
<1> QED
  BY <1>1, <1>2, <1>3, <1>4 DEF Control

-----------------------------------------------------------------------------
(* The receive ring *)

LEMMA BaseType ==
  ASSUME TypeOK
  PROVE  Base \in 0..RX-1 /\ Len(got) \in Nat /\ arrived \in Nat /\ RX \in Nat \ {0}
BY RingAssumption DEF TypeOK, WorkType, RxType, Base

(* At its place on the ring the driver sees the next frame, or the card's  *)
(* ownership if there is none.                                             *)
LEMMA AtBase ==
  ASSUME TypeOK, RxInv
  PROVE  IF Out > 0
           THEN /\ rown[Base] = "driver"
                /\ pc # "give" => rbuf[Base] = Given + 1
           ELSE rown[Base] = "card"
<1>1. RxSlot(0) /\ Slot(RX, Base, 0) = Base /\ Given \in Nat
  BY BaseType, SlotZero DEF RxInv
<1>2. Given + 0 + 1 = Given + 1
  BY <1>1
<1> QED
  BY <1>1, <1>2 DEF RxSlot

(* Steps that leave the descriptors and the driver's place alone.          *)
LEMMA RxQuiet ==
  ASSUME TypeOK, RxInv, UNCHANGED <<rown, rbuf, crx, arrived>>,
         Given' = Given, Base' = Base, pc = "give" => pc' = "give",
         pc' \in Holding => Out > 0
  PROVE  RxInv'
<1>1. Out' = Out
  BY DEF Out
<1>2. ASSUME NEW k \in 0..RX-1 PROVE RxSlot(k)'
  <2>1. RxSlot(k)
    BY DEF RxInv
  <2> QED
    BY <1>1, <2>1 DEF RxSlot, Slot
<1> QED
  BY <1>1, <1>2 DEF RxInv, Slot, Holding

(* The card takes the slot just behind the driver's frames.                *)
LEMMA CardReceiveRx ==
  ASSUME TypeOK, RxInv, CardReceive
  PROVE  RxInv'
<1>1. /\ rbuf' = [rbuf EXCEPT ![crx] = arrived + 1] /\ rown' = [rown EXCEPT ![crx] = "driver"]
      /\ crx' = Inc(RX, crx) /\ arrived' = arrived + 1 /\ rown[crx] = "card"
      /\ UNCHANGED <<work, pc>>
  BY DEF CardReceive
<1>2. Given' = Given /\ Base' = Base /\ Given \in Nat /\ Out \in 0..RX /\ crx = Slot(RX, Base, Out)
  BY <1>1 DEF Given, Base, Scanning, work, RxInv, Holding
<1>3. Base \in 0..RX-1 /\ arrived \in Nat /\ RX \in Nat \ {0}
  BY BaseType
<1>4. Out' = Out + 1 /\ arrived = Given + Out
  BY <1>1, <1>2, <1>3 DEF Out
<1>5. Out \in 0..RX-1
  <2>1. Out # RX
    <3> SUFFICES ASSUME Out = RX PROVE FALSE
      OBVIOUS
    <3>1. crx = Base /\ Out > 0
      BY <1>2, <1>3, SlotZero
    <3> QED
      BY <1>1, <3>1, AtBase
  <2> QED
    BY <1>2, <1>3, <2>1
<1>6. crx' = Slot(RX, Base, Out + 1)
  BY <1>1, <1>2, <1>3, <1>5, SlotInc
<1>7. ASSUME NEW k \in 0..RX-1 PROVE RxSlot(k)'
  <2> DEFINE s == Slot(RX, Base, k)
  <2>1. s \in 0..RX-1 /\ s = Slot(RX, Base, k)'
    BY <1>2, <1>3, SlotType DEF Slot
  <2>2. RxSlot(k)
    BY DEF RxInv
  <2>3. CASE k = Out
    <3>1. s = crx
      BY <1>2, <2>3
    <3>2. rown'[s] = "driver" /\ rbuf'[s] = arrived + 1
      BY <1>1, <2>1, <3>1 DEF TypeOK, RxType
    <3> QED
      BY <1>2, <1>3, <1>4, <2>1, <2>3, <3>2 DEF RxSlot
  <2>4. CASE k # Out
    <3>1. s # crx
      BY <1>2, <1>3, <1>5, <2>4, SlotInjective
    <3>2. rown'[s] = rown[s] /\ rbuf'[s] = rbuf[s]
      BY <1>1, <2>1, <3>1 DEF TypeOK, RxType
    <3>3. k < Out + 1 <=> k < Out
      BY <1>5, <2>4
    <3> QED
      BY <1>1, <1>2, <1>4, <2>1, <2>2, <3>2, <3>3 DEF RxSlot
  <2> QED
    BY <2>3, <2>4
<1> QED
  BY <1>1, <1>2, <1>3, <1>4, <1>5, <1>6, <1>7 DEF RxInv, Slot

(* Only the buffer at the driver's place is cleared. *)
LEMMA ClearBufferRx ==
  ASSUME TypeOK, Control, RxInv, ClearBuffer
  PROVE  RxInv'
<1>1. /\ rbuf' = [rbuf EXCEPT ![de_ptr] = 0] /\ pc = "clear" /\ pc' = "give"
      /\ UNCHANGED <<rown, crx, arrived, work>>
  BY DEF ClearBuffer, Goto
<1>2. /\ Given' = Given /\ Base' = Base /\ Base = de_ptr /\ Given \in Nat
      /\ Out' = Out /\ Out \in 0..RX /\ Out > 0
  BY <1>1 DEF Given, Base, Scanning, work, RxInv, Holding, Out
<1>3. Base \in 0..RX-1 /\ RX \in Nat \ {0} /\ Slot(RX, Base, 0) = Base
  BY BaseType, SlotZero
<1>4. ASSUME NEW k \in 0..RX-1 PROVE RxSlot(k)'
  <2> DEFINE s == Slot(RX, Base, k)
  <2>1. s \in 0..RX-1 /\ s = Slot(RX, Base, k)'
    BY <1>2, <1>3, SlotType DEF Slot
  <2>2. RxSlot(k)
    BY DEF RxInv
  <2>3. CASE k = 0
    BY <1>1, <1>2, <2>1, <2>2, <2>3 DEF RxSlot
  <2>4. CASE k # 0
    <3>1. s # de_ptr
      BY <1>2, <1>3, <2>4, SlotInjective
    <3>2. rbuf'[s] = rbuf[s]
      BY <1>1, <2>1, <3>1 DEF TypeOK, RxType
    <3> QED
      BY <1>1, <1>2, <2>1, <2>2, <2>4, <3>2 DEF RxSlot
  <2> QED
    BY <2>3, <2>4
<1> QED
  BY <1>1, <1>2, <1>4 DEF RxInv, Slot

(* The driver's place moves on by one, and so does the count of frames.    *)
LEMMA GiveBackRx ==
  ASSUME TypeOK, Control, RxInv, GiveBack
  PROVE  RxInv'
<1>1. /\ rown' = [rown EXCEPT ![de_ptr] = "card"] /\ pc = "give" /\ pc' = "scan"
      /\ de_ptr' = Inc(RX, de_ptr) /\ UNCHANGED <<rbuf, crx, arrived, got>>
  BY DEF GiveBack, Goto
<1>2. Base \in 0..RX-1 /\ RX \in Nat \ {0} /\ Slot(RX, Base, 0) = Base /\ Len(got) \in Nat /\ arrived \in Nat
  BY BaseType, SlotZero
<1>3. /\ Base = de_ptr /\ Base' = Inc(RX, Base) /\ Given \in Nat /\ Given' = Given + 1
      /\ Out \in 1..RX /\ Out' = Out - 1 /\ crx = Slot(RX, Base, Out)
  BY <1>1, <1>2 DEF Given, Base, Scanning, RxInv, Holding, Out
<1>4. crx' = Slot(RX, Base', Out')
  <2>1. Out - 1 \in 0..RX-1 /\ Out - 1 + 1 = Out
    BY <1>2, <1>3
  <2>2. Slot(RX, Inc(RX, Base), Out - 1) = Slot(RX, Base, Out - 1 + 1)
    BY <1>2, <2>1, SlotInc
  <2> QED
    BY <1>1, <1>3, <2>1, <2>2
<1>5. ASSUME NEW k \in 0..RX-1 PROVE RxSlot(k)'
  <2> DEFINE s == Slot(RX, Base, k + 1)
  <2>1. s = Slot(RX, Base', k) /\ s \in 0..RX-1
    <3>1. k + 1 \in 0..RX
      BY <1>2
    <3> QED
      BY <1>2, <1>3, <3>1, SlotInc, SlotType
  <2>2. CASE k = RX - 1
    <3>1. s = Base
      BY <1>2, <2>2, SlotZero
    <3>2. rown'[s] = "card"
      BY <1>1, <1>3, <2>1, <3>1 DEF TypeOK, RxType
    <3>3. ~(k < Out')
      BY <1>2, <1>3, <2>2
    <3> QED
      BY <2>1, <3>2, <3>3 DEF RxSlot, Slot
  <2>3. CASE k # RX - 1
    <3>1. k + 1 \in 0..RX-1
      BY <1>2, <2>3
    <3>2. s # Base
      BY <1>2, <3>1, SlotInjective
    <3>3. rown'[s] = rown[s] /\ rbuf'[s] = rbuf[s]
      BY <1>1, <1>3, <2>1, <3>2 DEF TypeOK, RxType
    <3>4. RxSlot(k + 1)
      BY <3>1 DEF RxInv
    <3>5. /\ k + 1 < Out <=> k < Out'
          /\ k + 1 > 0
          /\ Given + (k + 1) + 1 = Given' + k + 1
      BY <1>3
    <3>6. IF k < Out' THEN rown'[s] = "driver" /\ rbuf'[s] = Given' + k + 1
                      ELSE rown'[s] = "card"
      BY <3>3, <3>4, <3>5 DEF RxSlot
    <3> QED
      BY <2>1, <3>6 DEF RxSlot, Slot
  <2> QED
    BY <2>2, <2>3
<1> QED
  BY <1>1, <1>2, <1>3, <1>4, <1>5 DEF RxInv, Slot, Holding

(* Only GiveBack adds to the descriptors given back. *)
LEMMA GivenKept ==
  ASSUME TypeOK, Next, ~GiveBack
  PROVE  Given' = Given
<1>1. Len(got) \in Nat
  BY BaseType
<1>2. CASE GotSteps
  <2>1. got' = Append(got, rbuf[de_ptr]) /\ pc = "frame" /\ pc' \in Holding \ {"frame"}
    BY <1>2 DEF GotSteps, FrameIgnored, FrameAnswered, Goto, Holding
  <2>2. Len(got') = Len(got) + 1
    BY <2>1 DEF TypeOK, WorkType, RxType
  <2> QED
    BY <1>1, <2>1, <2>2 DEF Given
<1>3. CASE ~GotSteps
  <2>1. got' = got
    BY <1>3, Footprints
  <2>2. pc' \in Holding \ {"frame"} <=> pc \in Holding \ {"frame"}
    BY <1>3 DEF GotSteps, Holding, Next, Main, Goto, Wake, CardReceive, CardRaise, CardMiss, CardTransmit, IrqRead, IrqAck, PitIrq,
              NetProcess, DoIrqWork, ScanNext, ScanEnd, FrameIgnored, FrameAnswered,
              TxTest, TxCopy, TxLength, TxOwn, ClearBuffer, GiveBack, Hlt
  <2> QED
    BY <2>1, <2>2 DEF Given
<1> QED
  BY <1>2, <1>3

(* The receive ring's invariant is preserved by every step.                *)
LEMMA RxStep ==
  ASSUME TypeOK, Control, RxInv, Next
  PROVE  RxInv'
<1>1. CASE CardReceive
  BY <1>1, CardReceiveRx
<1>2. CASE ClearBuffer
  BY <1>2, ClearBufferRx
<1>3. CASE GiveBack
  BY <1>3, GiveBackRx
<1>4. CASE ~(CardReceive \/ ClearBuffer \/ GiveBack)
  <2>1. UNCHANGED <<rown, rbuf, crx, arrived>>
    BY <1>4, Footprints DEF RxSteps, CardRaise, rxring
  <2>2. Base' = Base
    BY <1>4 DEF Base, Scanning, Holding, work, Next, Main, Goto, Wake, CardReceive, CardRaise, CardMiss, CardTransmit, IrqRead, IrqAck, PitIrq,
              NetProcess, DoIrqWork, ScanNext, ScanEnd, FrameIgnored, FrameAnswered,
              TxTest, TxCopy, TxLength, TxOwn, ClearBuffer, GiveBack, Hlt
  <2>3. Given' = Given
    BY <1>4, GivenKept
  <2>4. pc = "give" => pc' = "give"
    BY <1>4 DEF Next, Main, Goto, Wake, CardReceive, CardRaise, CardMiss, CardTransmit, IrqRead, IrqAck, PitIrq,
              NetProcess, DoIrqWork, ScanNext, ScanEnd, FrameIgnored, FrameAnswered,
              TxTest, TxCopy, TxLength, TxOwn, ClearBuffer, GiveBack, Hlt
  <2>5. pc' \in Holding => Out > 0
    <3>1. CASE ScanNext
      <4>1. Base = de_ptr /\ rown[de_ptr] = "driver"
        BY <3>1 DEF ScanNext, Goto, Base, Scanning, pcnet32_driverowns
      <4> QED
        BY <4>1, AtBase
    <3>2. CASE ~ScanNext
      <4>1. pc' \in Holding => pc \in Holding
        BY <3>2 DEF Holding, Next, Main, Goto, Wake, CardReceive, CardRaise, CardMiss, CardTransmit, IrqRead, IrqAck, PitIrq,
              NetProcess, DoIrqWork, ScanNext, ScanEnd, FrameIgnored, FrameAnswered,
              TxTest, TxCopy, TxLength, TxOwn, ClearBuffer, GiveBack, Hlt
      <4> QED
        BY <4>1 DEF RxInv
    <3> QED
      BY <3>1, <3>2
  <2> QED
    BY <2>1, <2>2, <2>3, <2>4, <2>5, RxQuiet
<1> QED
  BY <1>1, <1>2, <1>3, <1>4

(* The frame taken is the next one. *)
LEMMA GotStep ==
  ASSUME TypeOK, Control, RxInv, GotInOrder, Next
  PROVE  GotInOrder'
<1>1. CASE GotSteps
  <2>1. got' = Append(got, rbuf[de_ptr]) /\ pc = "frame"
    BY <1>1 DEF GotSteps, FrameIgnored, FrameAnswered, Goto
  <2>2. Base = de_ptr /\ Given = Len(got) /\ Out > 0 /\ Len(got) \in Nat
    BY <2>1, BaseType DEF Base, Given, Scanning, Holding, RxInv
  <2>3. rbuf[de_ptr] = Len(got) + 1
    BY <2>1, <2>2, AtBase
  <2>4. got \in Seq(Nat) /\ \A n \in 1..Len(got) : got[n] = n
    BY DEF TypeOK, WorkType, GotInOrder
  <2> QED
    BY <2>1, <2>2, <2>3, <2>4 DEF GotInOrder
<1>2. CASE UNCHANGED got
  BY <1>2 DEF GotInOrder
<1> QED
  BY <1>1, <1>2, Footprints

-----------------------------------------------------------------------------
(* Wake-ups *)

(* Clearing the request before the scan, and not after it, is what keeps a *)
(* frame that arrives during the scan from being forgotten.                *)
LEMMA WakeStep ==
  ASSUME TypeOK, Control, RxInv, WakeInv, Next
  PROVE  WakeInv'
<1> SUFFICES ASSUME Idle'
             PROVE  IF Scanning' THEN arrived' <= Given' - i' + RX ELSE arrived' = Given'
  BY DEF WakeInv
<1>0. /\ Len(got) \in Nat /\ arrived \in Nat /\ RX \in Nat \ {0} /\ i \in 0..RX
      /\ Given \in Nat /\ Out \in 0..RX /\ Out = arrived - Given
  BY BaseType DEF TypeOK, WorkType, RxInv, Out
<1>1. ~CardReceive /\ ~CardRaise /\ ~IrqAck
  BY DEF Idle, CardReceive, CardRaise, IrqAck
<1>2. arrived' = arrived
  BY <1>1, Footprints DEF RxSteps, rxring, ClearBuffer, GiveBack
<1>3. CASE DoIrqWork
  <2>1. i' = 0 /\ Scanning'
    BY <1>3 DEF DoIrqWork, Goto, Scanning
  <2>2. Given' = Given
    BY <1>3, GivenKept DEF DoIrqWork, GiveBack, Goto
  <2> QED
    BY <1>0, <1>2, <2>1, <2>2
<1>4. CASE ~DoIrqWork
  <2>1. Idle
    <3>1. "RINT" \notin csr0 /\ cardpc # "wrote"
      BY <1>1, <1>4, Footprints DEF Idle, RxSteps, IrqSteps, rxring, ClearBuffer, GiveBack,
                                    CardMiss, CardTransmit, IrqRead
    <3>2. ~needs_work /\ irq # "ack"
      BY <1>1, <1>4, Footprints DEF Idle, IrqSteps, handler, CardMiss, CardTransmit, IrqRead
    <3> QED
      BY <3>1, <3>2 DEF Idle
  <2>2. CASE GiveBack
    <3>1. pc = "give" /\ pc' = "scan" /\ i' = i + 1 /\ got' = got
      BY <2>2 DEF GiveBack, Goto
    <3>2. Given' = Given + 1 /\ Scanning /\ Scanning'
      BY <1>0, <3>1 DEF Given, Scanning, Holding
    <3> QED
      BY <1>0, <1>2, <2>1, <3>1, <3>2 DEF WakeInv
  <2>3. CASE ScanEnd
    <3>1. /\ pc = "scan" /\ pc' = "hlt" /\ ~(i < RX /\ rown[de_ptr] = "driver")
      BY <2>3 DEF ScanEnd, Goto, pcnet32_driverowns
    <3>2. Scanning /\ ~Scanning' /\ Base = de_ptr
      BY <3>1 DEF Scanning, Holding, Base
    <3>3. Given' = Given
      BY <2>3, <3>1, GivenKept DEF GiveBack, Goto
    <3>4. CASE i < RX
      <4>1. Out = 0
        BY <1>0, <3>1, <3>2, <3>4, AtBase
      <4> QED
        BY <1>0, <1>2, <3>2, <3>3, <4>1
    <3>5. CASE ~(i < RX)
      BY <1>0, <1>2, <2>1, <3>2, <3>3, <3>5 DEF WakeInv
    <3> QED
      BY <3>4, <3>5
  <2>4. CASE ~GiveBack /\ ~ScanEnd
    <3>1. Given' = Given
      BY <2>4, GivenKept
    <3>2. Scanning' = Scanning
      BY <1>4, <2>4 DEF Scanning, Holding, Next, Main, Goto, Wake, CardReceive, CardRaise, CardMiss, CardTransmit, IrqRead, IrqAck, PitIrq,
              NetProcess, DoIrqWork, ScanNext, ScanEnd, FrameIgnored, FrameAnswered,
              TxTest, TxCopy, TxLength, TxOwn, ClearBuffer, GiveBack, Hlt
    <3>3. i' = i
      BY <1>4, <2>4 DEF work, Next, Main, CardReceive, CardRaise, CardMiss, CardTransmit, IrqRead, IrqAck, PitIrq,
              NetProcess, DoIrqWork, ScanNext, ScanEnd, FrameIgnored, FrameAnswered,
              TxTest, TxCopy, TxLength, TxOwn, ClearBuffer, GiveBack, Hlt
    <3> QED
      BY <1>2, <2>1, <3>1, <3>2, <3>3 DEF WakeInv
  <2> QED
    BY <2>2, <2>3, <2>4
<1> QED
  BY <1>3, <1>4

-----------------------------------------------------------------------------
(* The buffer pool *)

LEMMA PoolStep ==
  ASSUME TypeOK, PoolConserved, Next
  PROVE  PoolConserved'
<1>0. nfree \in Nat /\ pools \in Nat /\ leaked \in Nat /\ PoolSize \in Nat
  BY RingAssumption DEF TypeOK, PoolType
<1>1. CASE FrameAnswered
  <2>1. pc = "frame" /\ pc' = "txtest" /\ leaked' = leaked
    BY <1>1 DEF FrameAnswered, net_alloc, Goto
  <2>2. CASE nfree > 0
    <3>1. nfree' = nfree - 1 /\ pools' = pools
      BY <1>1, <2>2 DEF FrameAnswered, net_alloc
    <3> QED
      BY <1>0, <2>1, <3>1 DEF PoolConserved
  <2>3. CASE ~(nfree > 0)
    <3>1. nfree' = PoolSize - 1 /\ pools' = pools + 1 /\ nfree = 0
      BY <1>0, <1>1, <2>3 DEF FrameAnswered, net_alloc
    <3>2. (pools + 1) * PoolSize = pools * PoolSize + PoolSize
      BY <1>0
    <3> QED
      BY <1>0, <2>1, <3>1, <3>2 DEF PoolConserved
  <2> QED
    BY <2>2, <2>3
<1>2. CASE TxTest
  BY <1>0, <1>2 DEF TxTest, Goto, PoolConserved
<1>3. CASE TxCopy
  BY <1>0, <1>3 DEF TxCopy, Goto, PoolConserved
<1>4. CASE ~PoolSteps
  <2>1. UNCHANGED pool
    BY <1>4, Footprints
  <2>2. pc' \in {"txtest", "txcopy"} <=> pc \in {"txtest", "txcopy"}
    BY <1>4 DEF PoolSteps, Next, Main, Goto, Wake, CardReceive, CardRaise, CardMiss, CardTransmit, IrqRead, IrqAck, PitIrq,
              NetProcess, DoIrqWork, ScanNext, ScanEnd, FrameIgnored, FrameAnswered,
              TxTest, TxCopy, TxLength, TxOwn, ClearBuffer, GiveBack, Hlt
  <2> QED
    BY <2>1, <2>2 DEF pool, PoolConserved
<1> QED
  BY <1>1, <1>2, <1>3, <1>4 DEF PoolSteps

-----------------------------------------------------------------------------
(* The transmit ring *)

LEMMA TxFacts ==
  ASSUME TypeOK, TxInv
  PROVE  /\ TX \in Nat \ {0} /\ ctx \in 0..TX-1 /\ Waiting \in 0..TX
         /\ sent \in Seq(Nat) /\ Len(sent) \in Nat
         /\ queued \in Seq(Nat) /\ Len(queued) = Len(sent) + Waiting
         /\ tx_buffer_ptr = Slot(TX, ctx, Waiting)
         /\ Slot(TX, ctx, 0) = ctx /\ Slot(TX, ctx, TX) = ctx
<1>1. TX \in Nat \ {0} /\ ctx \in 0..TX-1 /\ sent \in Seq(Nat) /\ queued \in Seq(Nat)
  BY RingAssumption DEF TypeOK, TxType
<1>2. Waiting \in 0..TX /\ tx_buffer_ptr = Slot(TX, ctx, Waiting)
  BY DEF TxInv
<1>3. Slot(TX, ctx, 0) = ctx /\ Slot(TX, ctx, TX) = ctx
  BY <1>1, SlotZero
<1> QED
  BY <1>1, <1>2, <1>3 DEF Waiting

(* At its place on the ring the card sees the next reply, if there is one. *)
LEMMA AtCtx ==
  ASSUME TypeOK, TxInv
  PROVE  IF Waiting > 0
           THEN /\ town[ctx] = "card" /\ tbuf[ctx] = queued[Len(sent) + 1]
                /\ tlen[ctx] = queued[Len(sent) + 1]
           ELSE town[ctx] = "driver"
<1>1. TxSlot(0)
  BY TxFacts DEF TxInv
<1>2. Slot(TX, ctx, 0) = ctx /\ Len(sent) + 0 + 1 = Len(sent) + 1
  BY TxFacts
<1> QED
  BY <1>1, <1>2 DEF TxSlot

(* A descriptor of the driver's at tx_buffer_ptr means the ring has room.  *)
LEMMA Room ==
  ASSUME TypeOK, TxInv, town[tx_buffer_ptr] = "driver"
  PROVE  Waiting < TX
<1> SUFFICES ASSUME Waiting = TX PROVE FALSE
  BY TxFacts
<1>1. tx_buffer_ptr = ctx /\ Waiting > 0
  BY TxFacts
<1> QED
  BY <1>1, AtCtx

(* The card sends the oldest waiting reply and hands its descriptor back.  *)
LEMMA CardTransmitTx ==
  ASSUME TypeOK, TxInv, CardTransmit
  PROVE  TxInv' /\ sent' = Append(sent, queued[Len(sent) + 1]) /\ Waiting > 0
<1>1. /\ town[ctx] = "card" /\ town' = [town EXCEPT ![ctx] = "driver"]
      /\ sent' = Append(sent, OnWire) /\ ctx' = Inc(TX, ctx)
      /\ UNCHANGED <<tbuf, tlen, pc, tx_buffer_ptr, queued, got>>
  BY DEF CardTransmit, txside, work
<1>2. Waiting \in 1..TX /\ OnWire = tbuf[ctx] /\ OnWire = queued[Len(sent) + 1]
  BY <1>1, AtCtx, TxFacts DEF OnWire
<1>3. Len(sent') = Len(sent) + 1 /\ Waiting' = Waiting - 1
  <2>1. OnWire \in Nat
    BY DEF TypeOK, TxType, OnWire
  <2>2. Len(sent') = Len(sent) + 1
    BY <1>1, <2>1, TxFacts
  <2> QED
    BY <1>1, <1>2, <2>2, TxFacts DEF Waiting
<1>4. tx_buffer_ptr' = Slot(TX, ctx', Waiting')
  <2>0. TX \in Nat \ {0} /\ Waiting \in 1..TX
    BY <1>2, TxFacts
  <2>1. Waiting - 1 \in 0..TX-1 /\ Waiting - 1 + 1 = Waiting
    BY ONLY <2>0
  <2>2. Slot(TX, Inc(TX, ctx), Waiting - 1) = Slot(TX, ctx, Waiting - 1 + 1)
    BY <2>1, SlotInc, TxFacts
  <2> QED
    BY <1>1, <1>3, <2>1, <2>2, TxFacts
<1>5. ASSUME NEW k \in 0..TX-1 PROVE TxSlot(k)'
  <2> DEFINE s == Slot(TX, ctx, k + 1)
  <2>0. k + 1 \in 0..TX
    BY TxFacts
  <2>1. s = Slot(TX, ctx', k) /\ s \in 0..TX-1
    BY <1>1, <2>0, SlotInc, SlotType, TxFacts
  <2>2. CASE k = TX - 1
    <3>1. s = ctx
      BY <2>2, TxFacts
    <3>2. town'[s] = "driver" /\ ~(k < Waiting')
      <4>1. ~(k < Waiting')
        BY <1>2, <1>3, <2>2, TxFacts
      <4>2. town'[s] = "driver"
        BY <1>1, <2>1, <3>1 DEF TypeOK, TxType
      <4> QED
        BY <4>1, <4>2
    <3> QED
      BY <2>1, <3>2 DEF TxSlot, Slot
  <2>3. CASE k # TX - 1
    <3>1. k + 1 \in 0..TX-1
      BY <2>3, TxFacts
    <3>2. s # ctx
      BY <3>1, SlotInjective, TxFacts
    <3>3. town'[s] = town[s] /\ tbuf'[s] = tbuf[s] /\ tlen'[s] = tlen[s]
      BY <1>1, <2>1, <3>2 DEF TypeOK, TxType
    <3>4. TxSlot(k + 1)
      BY <3>1 DEF TxInv
    <3>5. /\ k + 1 < Waiting <=> k < Waiting'
          /\ Len(sent) + (k + 1) + 1 = Len(sent') + k + 1
      BY <1>2, <1>3, TxFacts
    <3>6. IF k < Waiting' THEN /\ town'[s] = "card"
                               /\ tbuf'[s] = queued'[Len(sent') + k + 1]
                               /\ tlen'[s] = queued'[Len(sent') + k + 1]
                          ELSE town'[s] = "driver"
      BY <1>1, <3>3, <3>4, <3>5 DEF TxSlot
    <3> QED
      BY <2>1, <3>6 DEF TxSlot, Slot
  <2> QED
    BY <2>2, <2>3
<1>6. Waiting' \in 0..TX /\ Waiting' < TX
  BY <1>2, <1>3, TxFacts
<1>7. TxInv'
  BY <1>1, <1>4, <1>5, <1>6 DEF TxInv, Slot
<1> QED
  BY <1>1, <1>2, <1>7

(* The copy goes to a buffer behind all those that wait. *)
LEMMA TxCopyTx ==
  ASSUME TypeOK, TxInv, TxCopy
  PROVE  TxInv'
<1>1. /\ pc = "txcopy" /\ pc' = "txlen" /\ tbuf' = [tbuf EXCEPT ![tx_buffer_ptr] = got[Len(got)]]
      /\ UNCHANGED <<town, tlen, ctx, sent, tx_buffer_ptr, queued, got>>
  BY DEF TxCopy, Goto, txside, work
<1>2. Waiting' = Waiting /\ Waiting \in 0..TX-1
  BY <1>1, TxFacts DEF Waiting, TxInv
<1>3. ASSUME NEW k \in 0..TX-1 PROVE TxSlot(k)'
  <2> DEFINE s == Slot(TX, ctx, k)
  <2>1. s \in 0..TX-1 /\ s = Slot(TX, ctx, k)'
    BY <1>1, SlotType, TxFacts DEF Slot
  <2>2. TxSlot(k)
    BY DEF TxInv
  <2>3. CASE k < Waiting
    <3>1. s # tx_buffer_ptr
      BY <1>2, <2>3, SlotInjective, TxFacts
    <3>2. tbuf'[s] = tbuf[s]
      BY <1>1, <2>1, <3>1 DEF TypeOK, TxType
    <3> QED
      BY <1>1, <1>2, <2>1, <2>2, <3>2 DEF TxSlot
  <2>4. CASE ~(k < Waiting)
    BY <1>1, <1>2, <2>1, <2>2, <2>4 DEF TxSlot
  <2> QED
    BY <2>3, <2>4
<1>4. tbuf'[tx_buffer_ptr] = got[Len(got)]
  BY <1>1 DEF TypeOK, TxType
<1>5. tx_buffer_ptr' = Slot(TX, ctx', Waiting')
  BY <1>1, <1>2, TxFacts
<1> QED
  BY <1>1, <1>2, <1>3, <1>4, <1>5, TxFacts DEF TxInv, Slot

(* So does the length, which joins a reply already copied.                 *)
LEMMA TxLengthTx ==
  ASSUME TypeOK, TxInv, TxLength
  PROVE  TxInv'
<1>1. /\ pc = "txlen" /\ pc' = "txown" /\ tlen' = [tlen EXCEPT ![tx_buffer_ptr] = got[Len(got)]]
      /\ UNCHANGED <<town, tbuf, ctx, sent, tx_buffer_ptr, queued, got>>
  BY DEF TxLength, Goto, txside, work
<1>2. Waiting' = Waiting /\ Waiting \in 0..TX-1
  BY <1>1, TxFacts DEF Waiting, TxInv
<1>3. ASSUME NEW k \in 0..TX-1 PROVE TxSlot(k)'
  <2> DEFINE s == Slot(TX, ctx, k)
  <2>1. s \in 0..TX-1 /\ s = Slot(TX, ctx, k)'
    BY <1>1, SlotType, TxFacts DEF Slot
  <2>2. TxSlot(k)
    BY DEF TxInv
  <2>3. CASE k < Waiting
    <3>1. s # tx_buffer_ptr
      BY <1>2, <2>3, SlotInjective, TxFacts
    <3>2. tlen'[s] = tlen[s]
      BY <1>1, <2>1, <3>1 DEF TypeOK, TxType
    <3> QED
      BY <1>1, <1>2, <2>1, <2>2, <3>2 DEF TxSlot
  <2>4. CASE ~(k < Waiting)
    BY <1>1, <1>2, <2>1, <2>2, <2>4 DEF TxSlot
  <2> QED
    BY <2>3, <2>4
<1>4. tlen'[tx_buffer_ptr] = got[Len(got)]
  BY <1>1 DEF TypeOK, TxType
<1>5. tx_buffer_ptr' = Slot(TX, ctx', Waiting')
  BY <1>1, <1>2, TxFacts
<1> QED
  BY <1>1, <1>2, <1>3, <1>4, <1>5, TxFacts DEF TxInv, Slot

(* pcnet32_tx_packet adds one reply behind those that wait.                *)
LEMMA TxOwnTx ==
  ASSUME TypeOK, Control, TxInv, TxOwn
  PROVE  /\ TxInv'
         /\ \A n \in 1..Len(queued) : queued'[n] = queued[n]
         /\ Len(queued') = Len(queued) + 1
<1>1. /\ pc = "txown" /\ pc' = "clear" /\ town' = [town EXCEPT ![tx_buffer_ptr] = "card"]
      /\ queued' = Append(queued, got[Len(got)]) /\ tx_buffer_ptr' = Inc(TX, tx_buffer_ptr)
      /\ UNCHANGED <<tbuf, tlen, ctx, sent>>
  BY DEF TxOwn, Goto
<1>2. got[Len(got)] \in Nat
  BY <1>1, LastGot DEF Holding
<1>3. /\ Len(queued') = Len(queued) + 1
      /\ queued'[Len(queued) + 1] = got[Len(got)]
      /\ \A n \in 1..Len(queued) : queued'[n] = queued[n]
  BY <1>1, <1>2, TxFacts
<1>4. /\ Waiting \in 0..TX-1 /\ Waiting' = Waiting + 1
      /\ tbuf[tx_buffer_ptr] = got[Len(got)] /\ tlen[tx_buffer_ptr] = got[Len(got)]
  BY <1>1, <1>3, TxFacts DEF Waiting, TxInv
<1>5. tx_buffer_ptr' = Slot(TX, ctx', Waiting')
  BY <1>1, <1>4, SlotInc, TxFacts
<1>6. ASSUME NEW k \in 0..TX-1 PROVE TxSlot(k)'
  <2> DEFINE s == Slot(TX, ctx, k)
  <2>0. s \in 0..TX-1
    BY SlotType, TxFacts
  <2>1. s \in 0..TX-1 /\ s = Slot(TX, ctx, k)'
    BY <1>1, <2>0 DEF Slot
  <2>2. TxSlot(k)
    BY DEF TxInv
  <2>3. CASE k = Waiting
    <3>1. s = tx_buffer_ptr
      BY <2>3, TxFacts
    <3>2. town'[s] = "card"
      BY <1>1, <2>1, <3>1 DEF TypeOK, TxType
    <3>3. /\ tbuf'[s] = queued'[Len(sent') + k + 1]
          /\ tlen'[s] = queued'[Len(sent') + k + 1]
      BY <1>1, <1>3, <1>4, <2>3, <3>1, TxFacts
    <3> QED
      BY <1>4, <2>1, <2>3, <3>2, <3>3 DEF TxSlot
  <2>4. CASE k # Waiting
    <3>1. s # tx_buffer_ptr
      BY <1>4, <2>4, SlotInjective, TxFacts
    <3>2. town'[s] = town[s]
      BY <1>1, <2>1, <3>1 DEF TypeOK, TxType
    <3>3. k < Waiting' <=> k < Waiting
      BY <1>4, <2>4
    <3>4. k < Waiting => queued'[Len(sent) + k + 1] = queued[Len(sent) + k + 1]
      BY <1>3, TxFacts, SMTT(30)
    <3> QED
      BY <1>1, <2>1, <2>2, <3>2, <3>3, <3>4 DEF TxSlot
  <2> QED
    BY <2>3, <2>4
<1>7. TxInv'
  BY <1>1, <1>4, <1>5, <1>6, TxFacts DEF TxInv, Slot
<1> QED
  BY <1>3, <1>7

(* The transmit ring's invariant is preserved by every step, and with it   *)
(* the order of the replies.                                               *)
LEMMA TxStep ==
  ASSUME TypeOK, Control, TxInv, SentInOrder, Next
  PROVE  TxInv' /\ SentInOrder'
<1>1. CASE CardTransmit
  <2>1. TxInv' /\ sent' = Append(sent, queued[Len(sent) + 1]) /\ Waiting > 0
    BY <1>1, CardTransmitTx
  <2>2. queued' = queued /\ sent \in Seq(Nat) /\ Len(sent) + 1 \in 1..Len(queued) /\ Len(sent) \in Nat
    BY <1>1, <2>1, TxFacts DEF CardTransmit, txside
  <2>3. Len(sent') = Len(sent) + 1 /\ sent'[Len(sent) + 1] = queued[Len(sent) + 1]
        /\ \A n \in 1..Len(sent) : sent'[n] = sent[n]
    <3>1. queued[Len(sent) + 1] \in Nat
      BY <2>2, TxFacts
    <3> QED
      BY <2>1, <2>2, <3>1
  <2>4. SentInOrder'
    <3>1. \A n \in 1..Len(sent) : sent[n] = queued[n]
      BY DEF SentInOrder
    <3>2. \A n \in 1..Len(sent') : sent'[n] = queued[n]
      BY <2>2, <2>3, <3>1
    <3>3. Len(sent') <= Len(queued)
      BY <2>2, <2>3
    <3> QED
      BY <2>2, <3>2, <3>3 DEF SentInOrder
  <2> QED
    BY <2>1, <2>4
<1>2. CASE TxCopy
  <2>1. SentInOrder'
    BY <1>2 DEF TxCopy, txside, SentInOrder
  <2> QED
    BY <1>2, <2>1, TxCopyTx
<1>3. CASE TxLength
  <2>1. SentInOrder'
    BY <1>3 DEF TxLength, txside, SentInOrder
  <2> QED
    BY <1>3, <2>1, TxLengthTx
<1>4. CASE TxOwn
  <2>1. TxInv' /\ Len(queued') = Len(queued) + 1 /\ \A n \in 1..Len(queued) : queued'[n] = queued[n]
    BY <1>4, TxOwnTx
  <2>2. sent' = sent
    BY <1>4 DEF TxOwn
  <2>3. SentInOrder'
    BY <2>1, <2>2, TxFacts DEF SentInOrder
  <2> QED
    BY <2>1, <2>3
<1>5. CASE ~TxSteps
  <2>1. UNCHANGED <<town, tbuf, tlen, ctx, sent, tx_buffer_ptr, queued>>
    BY <1>5, Footprints DEF txring, txside
  <2>2. Waiting' = Waiting
    BY <2>1 DEF Waiting
  <2>3. \A k \in 0..TX-1 : TxSlot(k)'
    BY <2>1, <2>2 DEF TxInv, TxSlot, Slot
  <2>4. pc' \in {"txcopy", "txlen", "txown"} => Waiting < TX
    <3>1. CASE TxTest
      <4>1. pc' \in {"txcopy", "txlen", "txown"} => town[tx_buffer_ptr] = "driver"
        BY <3>1 DEF TxTest, Goto, pcnet32_driverowns
      <4> QED
        BY <4>1, Room
    <3>2. CASE ~TxTest
      <4>1. pc' \in {"txcopy", "txlen", "txown"} => pc \in {"txcopy", "txlen", "txown"}
        BY <1>5, <3>2 DEF Next, Main, Goto, Wake, CardReceive, CardRaise, CardMiss, CardTransmit, IrqRead, IrqAck, PitIrq,
              NetProcess, DoIrqWork, ScanNext, ScanEnd, FrameIgnored, FrameAnswered,
              TxTest, TxCopy, TxLength, TxOwn, ClearBuffer, GiveBack, Hlt
      <4> QED
        BY <4>1 DEF TxInv
    <3> QED
      BY <3>1, <3>2
  <2>5. pc' \in {"txlen", "txown"} => pc' = pc /\ got' = got
    <3>1. pc' \in {"txlen", "txown"} => pc' = pc /\ ~GotSteps
      BY <1>5 DEF TxSteps, GotSteps, Next, Main, Goto, Wake, CardReceive, CardRaise, CardMiss, CardTransmit, IrqRead, IrqAck, PitIrq,
              NetProcess, DoIrqWork, ScanNext, ScanEnd, FrameIgnored, FrameAnswered,
              TxTest, TxCopy, TxLength, TxOwn, ClearBuffer, GiveBack, Hlt
    <3> QED
      BY <3>1, Footprints
  <2>6. TxInv'
    BY <2>1, <2>2, <2>3, <2>4, <2>5 DEF TxInv, Slot
  <2>7. SentInOrder'
    BY <2>1 DEF SentInOrder
  <2> QED
    BY <2>6, <2>7
<1> QED
  BY <1>1, <1>2, <1>3, <1>4, <1>5 DEF TxSteps

-----------------------------------------------------------------------------
(* Theorems *)

LEMMA StutterInv ==
  ASSUME IInv, UNCHANGED vars
  PROVE  IInv'
<1> USE DEF vars, rxring, txring, handler, work, txside, pool, IInv
<1>1. TypeOK'
  BY DEF TypeOK, RxType, TxType, IrqType, WorkType, PoolType
<1>2. Control' /\ GotInOrder' /\ SentInOrder' /\ PoolConserved'
  BY DEF Control, GotInOrder, SentInOrder, PoolConserved
<1>3. Given' = Given /\ Base' = Base /\ Out' = Out /\ Waiting' = Waiting /\ Idle' = Idle
  BY DEF Given, Base, Scanning, Out, Waiting, Idle
<1>4. RxInv'
  BY <1>3 DEF RxInv, RxSlot, Slot
<1>5. TxInv'
  BY <1>3 DEF TxInv, TxSlot, Slot
<1>6. WakeInv'
  BY <1>3 DEF WakeInv, Scanning
<1> QED
  BY <1>1, <1>2, <1>4, <1>5, <1>6

(* Every reachable state of card, handler and driver satisfies the         *)
(* inductive invariant, for rings of every size.                           *)
THEOREM Invariance == Spec => []IInv
<1>1. ASSUME IInv, [Next]_vars PROVE IInv'
  <2>1. CASE Next
    BY <1>1, <2>1, TypeStep, ControlStep, RxStep, GotStep, WakeStep, TxStep, PoolStep DEF IInv
  <2>2. CASE UNCHANGED vars
    BY <1>1, <2>2, StutterInv
  <2> QED
    BY <1>1, <2>1, <2>2
<1> QED
  BY <1>1, InitInv, PTL DEF Spec

(* Both sides stay inside the rings, and every variable keeps its type.    *)
THEOREM TypeCorrect == Spec => []TypeOK
<1>1. IInv => TypeOK
  BY DEF IInv
<1> QED
  BY <1>1, Invariance, PTL

(* Frames reach the protocol code in order, each once.                     *)
THEOREM ReceiveOrder == Spec => []GotInOrder
<1>1. IInv => GotInOrder
  BY DEF IInv
<1> QED
  BY <1>1, Invariance, PTL

(* The wire carries the replies that tx_packet queued, in order.           *)
THEOREM TransmitOrder == Spec => []SentInOrder
<1>1. IInv => SentInOrder
  BY DEF IInv
<1> QED
  BY <1>1, Invariance, PTL

(* The driver touches a descriptor or a buffer only while it owns it.      *)
THEOREM OwnershipKept == Spec => []Ownership
<1>1. IInv => Ownership
  <2> SUFFICES ASSUME IInv PROVE Ownership
    OBVIOUS
  <2>1. pc \in Holding => rown[de_ptr] = "driver"
    BY AtBase DEF IInv, RxInv, Base, Scanning
  <2>2. pc \in {"txcopy", "txlen", "txown"} => town[tx_buffer_ptr] = "driver"
    <3> SUFFICES ASSUME Waiting < TX PROVE town[tx_buffer_ptr] = "driver"
      BY DEF IInv, TxInv
    <3>1. Waiting \in 0..TX-1 /\ tx_buffer_ptr = Slot(TX, ctx, Waiting)
      BY TxFacts DEF IInv
    <3>2. TxSlot(Waiting)
      BY <3>1 DEF IInv, TxInv
    <3> QED
      BY <3>1, <3>2 DEF TxSlot
  <2> QED
    BY <2>1, <2>2 DEF Ownership
<1> QED
  BY <1>1, Invariance, PTL

(* No frame in the ring is forgotten: a wake-up is always on its way.      *)
THEOREM NoFrameStranded == Spec => []NoStrandedFrame
<1>1. IInv => NoStrandedFrame
  <2> SUFFICES ASSUME IInv, ~Scanning, Len(got) < arrived, Idle PROVE FALSE
    BY DEF NoStrandedFrame, Idle, IInv, Control
  <2>1. arrived = Given
    BY DEF IInv, WakeInv
  <2>2. Given = Len(got) /\ Len(got) \in Nat /\ arrived \in Nat
    BY BaseType DEF IInv, Given, Scanning
  <2> QED
    BY <2>1, <2>2
<1> QED
  BY <1>1, Invariance, PTL

(* No buffer of the pool is counted twice or disappears but by the refusal *)
(* of a reply.                                                             *)
THEOREM PoolAccounts == Spec => []PoolConserved
<1>1. IInv => PoolConserved
  BY DEF IInv
<1> QED
  BY <1>1, Invariance, PTL
=============================================================================
