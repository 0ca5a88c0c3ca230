------------------------------ MODULE Pcnet32 -------------------------------
(***************************************************************************)
(* The network path of the kernel: the PCnet card, the interrupt handler,  *)
(* the main loop of cmain.c with net_process, pcnet32_do_irq_work and      *)
(* pcnet32_tx_packet, and the buffer pool of net.c.                        *)
(*                                                                         *)
(* Card and driver share two descriptor rings without a lock: the OWN bit  *)
(* of a descriptor says whose turn it is.  The handler and the main loop   *)
(* share needs_work.  The card runs in parallel with the processor; the    *)
(* handler interrupts the main loop between any two of its steps.          *)
(*                                                                         *)
(* A frame is the number of its arrival, 0 is an empty buffer.  What the   *)
(* protocol modules do with a frame is reduced to whether they answer it.  *)
(***************************************************************************)
EXTENDS Integers, Sequences, Ring

CONSTANTS
  RX,          \* rx_buffer_count: 64 in the code
  TX,          \* tx_buffer_count: 16 in the code
  PoolSize,    \* buffers in one pool of net_alloc: 32 in the code
  MaxPools,    \* bound: pools the heap can supply
  MaxFrames,   \* bound: frames the card accepts in one behaviour
  MissIrq      \* whether a frame dropped for want of a descriptor sets MISS

ASSUME RingAssumption ==
  /\ RX \in Nat \ {0} /\ TX \in Nat \ {0} /\ PoolSize \in Nat \ {0}
  /\ MaxPools \in Nat /\ MaxFrames \in Nat /\ MissIrq \in BOOLEAN

VARIABLES
  \* the receive ring and the card's side of it
  rown,            \* who owns each descriptor: "card" or "driver"
  rbuf,            \* the frame in each receive buffer
  crx,             \* the descriptor the card uses next
  cardpc,          \* "wrote": OWN is cleared but RINT is not set yet
  arrived,         \* history: number of frames the card accepted
  \* the transmit ring and the card's side of it
  town, tbuf,
  tlen,            \* the frame whose length each descriptor holds
  ctx,
  sent,            \* history: the frames the card put on the wire
  \* the card's status register, as the set of its bits that are one
  csr0,
  \* the interrupt handler
  irq,             \* "none", or "ack" between its read and its write of CSR0
  icsr0,           \* its local csr0
  \* the driver in the main loop
  needs_work, rx_buffer_ptr, tx_buffer_ptr,
  de_ptr, i,       \* locals of pcnet32_do_irq_work
  pc,
  got,             \* history: frames given to ether_process_frame
  queued,          \* history: replies given to the card
  \* the pool of net.c
  nfree, pools, leaked

rxring  == <<rown, rbuf, crx, cardpc, arrived>>
txring  == <<town, tbuf, tlen, ctx, sent>>
handler == <<irq, icsr0>>
work    == <<rx_buffer_ptr, de_ptr, i, got>>
txside  == <<tx_buffer_ptr, queued>>
pool    == <<nfree, pools, leaked>>
vars    == <<rxring, txring, csr0, handler, needs_work, work, pc, txside, pool>>

Status == {"RINT", "TINT", "MISS"}
Bits   == Status \cup {"INEA"}

Labels == {"net", "work", "scan", "frame", "txtest", "txcopy", "txlen",
           "txown", "clear", "give", "hlt", "asleep"}

(* As probe_pcnet32 leaves things: every receive descriptor belongs to the *)
(* card, every transmit descriptor to the driver, interrupts are enabled.  *)
Init ==
  /\ rown = [s \in 0..RX-1 |-> "card"] /\ rbuf = [s \in 0..RX-1 |-> 0]
  /\ crx = 0 /\ cardpc = "idle" /\ arrived = 0
  /\ town = [s \in 0..TX-1 |-> "driver"] /\ tbuf = [s \in 0..TX-1 |-> 0]
  /\ tlen = [s \in 0..TX-1 |-> 0]
  /\ ctx = 0 /\ sent = <<>>
  /\ csr0 = {"INEA"}
  /\ irq = "none" /\ icsr0 = {}
  /\ needs_work = FALSE /\ rx_buffer_ptr = 0 /\ tx_buffer_ptr = 0
  /\ de_ptr = 0 /\ i = 0 /\ pc = "net"
  /\ got = <<>> /\ queued = <<>>
  /\ nfree = 0 /\ pools = 0 /\ leaked = 0

-----------------------------------------------------------------------------
(* The card *)

(* A frame arrives: into the buffer and OWN cleared, the interrupt bit     *)
(* later.                                                                  *)
CardReceive ==
  /\ cardpc = "idle" /\ arrived < MaxFrames
  /\ rown[crx] = "card"
  /\ rbuf' = [rbuf EXCEPT ![crx] = arrived + 1]
  /\ rown' = [rown EXCEPT ![crx] = "driver"]
  /\ crx' = Inc(RX, crx)
  /\ arrived' = arrived + 1
  /\ cardpc' = "wrote"
  /\ UNCHANGED <<txring, csr0, handler, needs_work, work, pc, txside, pool>>

CardRaise ==
  /\ cardpc = "wrote"
  /\ cardpc' = "idle"
  /\ csr0' = csr0 \cup {"RINT"}
  /\ UNCHANGED <<rown, rbuf, crx, arrived, txring, handler, needs_work, work,
                 pc, txside, pool>>

(* A frame arrives and finds no descriptor. *)
CardMiss ==
  /\ MissIrq /\ cardpc = "idle"
  /\ rown[crx] = "driver"
  /\ csr0' = csr0 \cup {"MISS"}
  /\ UNCHANGED <<rxring, txring, handler, needs_work, work, pc, txside, pool>>

(* The card sends as many bytes as the descriptor says: a frame under the  *)
(* length of another one is none of the replies, 0.                        *)
OnWire == IF tlen[ctx] = tbuf[ctx] THEN tbuf[ctx] ELSE 0

CardTransmit ==
  /\ town[ctx] = "card"
  /\ sent' = Append(sent, OnWire)
  /\ town' = [town EXCEPT ![ctx] = "driver"]
  /\ ctx' = Inc(TX, ctx)
  /\ csr0' = csr0 \cup {"TINT"}
  /\ UNCHANGED <<tbuf, tlen, rxring, handler, needs_work, work, pc, txside, pool>>

(* A write of w to CSR0: a status bit written as one is cleared, INEA is   *)
(* set to the value written.                                               *)
WriteCsr0(w) == csr0' = ((csr0 \cap Status) \ w) \cup (w \cap {"INEA"})

-----------------------------------------------------------------------------
(* Interrupts: the line is level-triggered *)

(* Any interrupt ends a hlt. *)
Wake == pc' = IF pc = "asleep" THEN "net" ELSE pc

(* pcnet32_irq_handler reads CSR0.  Without RINT and TINT it prints a line *)
(* and returns, with the line still raised.                                *)
IrqRead ==
  /\ irq = "none"
  /\ "INEA" \in csr0 /\ csr0 \cap Status # {}
  /\ icsr0' = csr0
  /\ irq' = IF csr0 \cap {"RINT", "TINT"} # {} THEN "ack" ELSE "none"
  /\ Wake
  /\ UNCHANGED <<rxring, txring, csr0, needs_work, work, txside, pool>>

(* Faulty: the handler writes the two bits alone. *)
IrqAckAlone ==
  /\ irq = "ack"
  /\ WriteCsr0({"RINT", "TINT"})
  /\ needs_work' = TRUE
  /\ irq' = "none"
  /\ UNCHANGED <<rxring, txring, icsr0, work, pc, txside, pool>>

(* It writes back what it read with RINT and TINT added, which clears them *)
(* even when the card set them only after the read.                        *)
IrqAck ==
  /\ irq = "ack"
  /\ WriteCsr0(icsr0 \cup {"RINT", "TINT"})
  /\ needs_work' = TRUE
  /\ irq' = "none"
  /\ UNCHANGED <<rxring, txring, icsr0, work, pc, txside, pool>>

PitIrq ==
  /\ irq = "none" /\ pc = "asleep"
  /\ Wake
  /\ UNCHANGED <<rxring, txring, csr0, handler, needs_work, work, txside, pool>>

-----------------------------------------------------------------------------
(* The main loop, which runs while no handler does *)

Goto(from, to) == irq = "none" /\ pc = from /\ pc' = to

pcnet32_driverowns(own, idx) == own[idx] = "driver"

(* net_process *)
NetProcess ==
  /\ Goto("net", IF needs_work THEN "work" ELSE "hlt")
  /\ UNCHANGED <<rxring, txring, csr0, handler, needs_work, work, txside, pool>>

(* pcnet32_do_irq_work clears the request before it looks at the ring. *)
DoIrqWork ==
  /\ Goto("work", "scan")
  /\ needs_work' = FALSE
  /\ de_ptr' = rx_buffer_ptr
  /\ i' = 0
  /\ UNCHANGED <<rxring, txring, csr0, handler, rx_buffer_ptr, got, txside, pool>>

(* Faulty: the whole ring is scanned without a look at OWN. *)
ScanAll ==
  /\ i < RX
  /\ Goto("scan", "frame")
  /\ UNCHANGED <<rxring, txring, csr0, handler, needs_work, work, txside, pool>>

ScanNext ==
  /\ i < RX /\ pcnet32_driverowns(rown, de_ptr)
  /\ Goto("scan", "frame")
  /\ UNCHANGED <<rxring, txring, csr0, handler, needs_work, work, txside, pool>>

(* Faulty ways to end the scan: the request is cleared only now; the place *)
(* it ended at is not kept.                                                *)
ScanEndClears ==
  /\ ~(i < RX /\ pcnet32_driverowns(rown, de_ptr))
  /\ Goto("scan", "hlt")
  /\ rx_buffer_ptr' = de_ptr
  /\ needs_work' = FALSE
  /\ UNCHANGED <<rxring, txring, csr0, handler, de_ptr, i, got, txside, pool>>

ScanEndForgets ==
  /\ ~(i < RX /\ pcnet32_driverowns(rown, de_ptr))
  /\ Goto("scan", "hlt")
  /\ UNCHANGED <<rxring, txring, csr0, handler, needs_work, work, txside, pool>>

ScanEnd ==
  /\ ~(i < RX /\ pcnet32_driverowns(rown, de_ptr))
  /\ Goto("scan", "hlt")
  /\ rx_buffer_ptr' = de_ptr
  /\ UNCHANGED <<rxring, txring, csr0, handler, needs_work, de_ptr, i, got, txside, pool>>

(* net_alloc takes the first buffer of the list, after it made a new pool  *)
(* from the heap if the list is empty.                                     *)
net_alloc ==
  /\ nfree > 0 \/ pools < MaxPools
  /\ nfree' = IF nfree > 0 THEN nfree - 1 ELSE PoolSize - 1
  /\ pools' = IF nfree > 0 THEN pools ELSE pools + 1
  /\ UNCHANGED leaked

(* ether_process_frame on a frame that nobody answers, *)
FrameIgnored ==
  /\ Goto("frame", "clear")
  /\ got' = Append(got, rbuf[de_ptr])
  /\ UNCHANGED <<rxring, txring, csr0, handler, needs_work, rx_buffer_ptr, de_ptr, i,
                 txside, pool>>

(* and on an ARP or an ICMP request, when there is a buffer for the reply. *)
FrameAnswered ==
  /\ Goto("frame", "txtest")
  /\ got' = Append(got, rbuf[de_ptr])
  /\ net_alloc
  /\ UNCHANGED <<rxring, txring, csr0, handler, needs_work, rx_buffer_ptr, de_ptr, i,
                 txside>>

(* Faulty: pcnet32_tx_packet does not look at OWN. *)
TxTestMissing ==
  /\ Goto("txtest", "txcopy")
  /\ UNCHANGED <<rxring, txring, csr0, handler, needs_work, work, txside, pool>>

(* pcnet32_tx_packet.  On a full ring it returns 0; its callers ignore     *)
(* that, and nobody gives the reply's buffer back.                         *)
TxTest ==
  /\ Goto("txtest", IF pcnet32_driverowns(town, tx_buffer_ptr) THEN "txcopy" ELSE "clear")
  /\ leaked' = IF pcnet32_driverowns(town, tx_buffer_ptr) THEN leaked ELSE leaked + 1
  /\ UNCHANGED <<rxring, txring, csr0, handler, needs_work, work, txside, nfree, pools>>

(* Faulty: net_free is not called. *)
TxCopyNoFree ==
  /\ Goto("txcopy", "txlen")
  /\ tbuf' = [tbuf EXCEPT ![tx_buffer_ptr] = got[Len(got)]]
  /\ UNCHANGED <<rxring, town, tlen, ctx, sent, csr0, handler, needs_work, work, txside,
                 pool>>

(* The reply, to the frame just taken, is copied and its buffer freed. *)
TxCopy ==
  /\ Goto("txcopy", "txlen")
  /\ tbuf' = [tbuf EXCEPT ![tx_buffer_ptr] = got[Len(got)]]
  /\ nfree' = nfree + 1
  /\ UNCHANGED <<rxring, town, tlen, ctx, sent, csr0, handler, needs_work, work, txside,
                 pools, leaked>>

(* Faulty: the descriptor keeps the length of the reply before. *)
TxLengthMissing ==
  /\ Goto("txlen", "txown")
  /\ UNCHANGED <<rxring, txring, csr0, handler, needs_work, work, txside, pool>>

(* The descriptor gets the bits of a whole packet and the reply's length,  *)
(* before the card may look at it.                                         *)
TxLength ==
  /\ Goto("txlen", "txown")
  /\ tlen' = [tlen EXCEPT ![tx_buffer_ptr] = got[Len(got)]]
  /\ UNCHANGED <<rxring, town, tbuf, ctx, sent, csr0, handler, needs_work, work, txside,
                 pool>>

(* Faulty: OWN is not set. *)
TxOwnNever ==
  /\ Goto("txown", "clear")
  /\ queued' = Append(queued, got[Len(got)])
  /\ tx_buffer_ptr' = Inc(TX, tx_buffer_ptr)
  /\ UNCHANGED <<rxring, txring, csr0, handler, needs_work, work, pool>>

TxOwn ==
  /\ Goto("txown", "clear")
  /\ town' = [town EXCEPT ![tx_buffer_ptr] = "card"]
  /\ queued' = Append(queued, got[Len(got)])
  /\ tx_buffer_ptr' = Inc(TX, tx_buffer_ptr)
  /\ UNCHANGED <<rxring, tbuf, tlen, ctx, sent, csr0, handler, needs_work, work, pool>>

(* memset of the received bytes *)
ClearBuffer ==
  /\ Goto("clear", "give")
  /\ rbuf' = [rbuf EXCEPT ![de_ptr] = 0]
  /\ UNCHANGED <<rown, crx, cardpc, arrived, txring, csr0, handler, needs_work, work,
                 txside, pool>>

GiveBack ==
  /\ Goto("give", "scan")
  /\ rown' = [rown EXCEPT ![de_ptr] = "card"]
  /\ de_ptr' = Inc(RX, de_ptr)
  /\ i' = i + 1
  /\ UNCHANGED <<rbuf, crx, cardpc, arrived, txring, csr0, handler, needs_work,
                 rx_buffer_ptr, got, txside, pool>>

Hlt ==
  /\ Goto("hlt", "asleep")
  /\ UNCHANGED <<rxring, txring, csr0, handler, needs_work, work, txside, pool>>

Main == NetProcess \/ DoIrqWork \/ ScanNext \/ ScanEnd \/ FrameIgnored
          \/ FrameAnswered \/ TxTest \/ TxCopy \/ TxLength \/ TxOwn
          \/ ClearBuffer \/ GiveBack \/ Hlt

Next == CardReceive \/ CardRaise \/ CardMiss \/ CardTransmit
          \/ IrqRead \/ IrqAck \/ PitIrq \/ Main

Spec == Init /\ [][Next]_vars

(* The processor and the card keep running, a raised interrupt is taken    *)
(* and the timer keeps ticking; nothing says that frames arrive.           *)
FairSpec ==
  /\ Spec
  /\ WF_vars(Main) /\ WF_vars(IrqRead) /\ WF_vars(IrqAck) /\ WF_vars(PitIrq)
  /\ WF_vars(CardRaise) /\ WF_vars(CardTransmit)

-----------------------------------------------------------------------------
(* Properties *)

RxType ==
  /\ rown \in [0..RX-1 -> {"card", "driver"}] /\ rbuf \in [0..RX-1 -> Nat]
  /\ crx \in 0..RX-1 /\ cardpc \in {"idle", "wrote"} /\ arrived \in 0..MaxFrames
TxType ==
  /\ town \in [0..TX-1 -> {"card", "driver"}] /\ tbuf \in [0..TX-1 -> Nat]
  /\ tlen \in [0..TX-1 -> Nat]
  /\ ctx \in 0..TX-1 /\ sent \in Seq(Nat)
  /\ tx_buffer_ptr \in 0..TX-1 /\ queued \in Seq(Nat)
IrqType ==
  /\ csr0 \subseteq Bits /\ irq \in {"none", "ack"} /\ icsr0 \subseteq Bits
  /\ needs_work \in BOOLEAN
WorkType ==
  /\ rx_buffer_ptr \in 0..RX-1 /\ de_ptr \in 0..RX-1 /\ i \in 0..RX
  /\ pc \in Labels /\ got \in Seq(Nat)
PoolType == nfree \in Nat /\ pools \in 0..MaxPools /\ leaked \in Nat

(* Indices stay inside the two rings and every variable keeps its type.    *)
TypeOK == RxType /\ TxType /\ IrqType /\ WorkType /\ PoolType

(* The protocol code sees the frames in the order of their arrival, each   *)
(* once and none overwritten or cleared before it was read, although card  *)
(* and driver wrap around the ring at their own pace.                      *)
GotInOrder == \A n \in 1..Len(got) : got[n] = n

(* What the card puts on the wire is what tx_packet queued, in that order: *)
(* no reply is overwritten, skipped, repeated, sent half copied or with    *)
(* the length of another.                                                  *)
SentInOrder ==
  /\ Len(sent) <= Len(queued)
  /\ \A n \in 1..Len(sent) : sent[n] = queued[n]

Holding == {"frame", "txtest", "txcopy", "txlen", "txown", "clear", "give"}

(* The main loop reads and writes only buffers and descriptors that the    *)
(* card has handed over, at every step and not only at the test of OWN.    *)
Ownership ==
  /\ pc \in Holding => rown[de_ptr] = "driver"
  /\ pc \in {"txcopy", "txlen", "txown"} => town[tx_buffer_ptr] = "driver"

Scanning == pc \in Holding \cup {"scan"}

(* A frame in the ring is never forgotten: outside the scan, something is  *)
(* still going to make the driver look: the request flag, a handler in     *)
(* progress, or a receive interrupt raised (with the enable bit intact) or *)
(* about to be.                                                            *)
NoStrandedFrame ==
  ~Scanning /\ Len(got) < arrived =>
    \/ needs_work \/ irq = "ack" \/ cardpc = "wrote"
    \/ {"RINT", "INEA"} \subseteq csr0

(* Every buffer of every pool is on the free list, in use for the reply    *)
(* being built, or lost to a reply refused by a full transmit ring.        *)
PoolConserved ==
  nfree + leaked + (IF pc \in {"txtest", "txcopy"} THEN 1 ELSE 0) = pools * PoolSize

(* Every accepted frame reaches the protocol code, also one whose          *)
(* interrupt falls between the test of needs_work and the hlt, or between  *)
(* the handler's read and write of CSR0.                                   *)
FramesProcessed == \A n \in 1..MaxFrames : (arrived >= n) ~> (Len(got) >= n)

(* Every queued reply is put on the wire. *)
RepliesSent == \A n \in 1..MaxFrames : (Len(queued) >= n) ~> (Len(sent) >= n)
=============================================================================
