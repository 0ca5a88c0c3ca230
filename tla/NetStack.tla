------------------------------ MODULE NetStack ------------------------------
(***************************************************************************)
(* What the kernel does with a received frame: ether.c, arp.c, ipv4.c and  *)
(* icmp.c, the buffers of net.c in which they build their replies, and the *)
(* hand-over to the driver.  All of it runs in the main loop, so a frame   *)
(* is one step.                                                            *)
(*                                                                         *)
(* A payload is its sequence of 16-bit words, as a little-endian processor *)
(* reads them; a hardware address is three of them, an IPv4 address two.   *)
(* Buffers are numbered from 1; 0 is the null pointer.                     *)
(***************************************************************************)
EXTENDS Integers, Sequences, SequencesExt

CONSTANTS
  Frames,       \* the frames that arrive: [dest, src, type, len, body]
  HwAddr,       \* dev->hw_addr
  IpAddr,       \* dev->ipv4_addr
  Words,        \* bound: words of a payload (a buffer has room for 993)
  PoolSize,     \* buffers in one pool: 32 in the code
  MaxPools,     \* bound: pools the heap can supply
  MaxRefused    \* bound: replies refused by a full transmit ring

ASSUME BufferAssumption ==
  /\ Words \in Nat /\ PoolSize \in Nat \ {0} /\ MaxPools \in Nat /\ MaxRefused \in Nat
  /\ \A f \in Frames : Len(f.body) = Words /\ f.len \in 46..2*Words

Word16 == 0..2^16-1

(* No IPv4 option has type 8, so that the options of a header, which the   *)
(* kernel takes for the message, are never taken for an echo request.      *)
ASSUME FrameAssumption ==
  /\ Words <= 993
  /\ HwAddr \in Seq(Word16) /\ Len(HwAddr) = 3 /\ IpAddr \in Seq(Word16) /\ Len(IpAddr) = 2
  /\ \A f \in Frames :
       /\ f.src \in Seq(Word16) /\ Len(f.src) = 3 /\ f.type \in Word16
       /\ f.body \in Seq(Word16)
       /\ LET ihl == f.body[1] % 16
          IN  f.type = 8 /\ ihl > 5 /\ 4 * ihl <= f.len => f.body[11] % 256 # 8

VARIABLES
  stock,     \* the buffers: [head, link, mem, pools]
  last,      \* history: the frame processed last
  outcome,   \* history: what came of it
  wire,      \* history: the reply given to the card, with its length
  refused

vars == <<stock, last, outcome, wire, refused>>

Nothing == <<>>
Ids     == 1..PoolSize * MaxPools
Trash   == -1     \* a link that has been overwritten

Filled(w) == [dest |-> <<w, w, w>>, src |-> <<w, w, w>>, type |-> w,
              body |-> [k \in 1..Words |-> w]]
Zero      == Filled(0)

(* buffers is 0.  What the heap will supply has arbitrary contents. *)
Init ==
  /\ stock = [head |-> 0, link |-> [b \in Ids |-> Trash],
              mem |-> [b \in Ids |-> Filled(1)], pools |-> 0]
  /\ last = Nothing /\ outcome = "none" /\ wire = Nothing /\ refused = 0

-----------------------------------------------------------------------------
(* Words and bytes *)

Lo(w) == w % 256
Hi(w) == w \div 256
Word(lo, hi) == lo + 256 * hi
htons(w) == Word(Hi(w), Lo(w))
ntohs(w) == htons(w)

(* The loop over the words: what the first k of n come to, for each k. *)
Sums(prev, buff, n) ==
  LET sum[k \in 0..n] == IF k = 0 THEN prev ELSE sum[k - 1] + buff[k] IN sum

(* The first len bytes of a buffer: an odd one counts alone. *)
Total(prev, buff, len) ==
  Sums(prev, buff, len \div 2)[len \div 2]
    + IF len % 2 = 1 THEN Lo(buff[len \div 2 + 1]) ELSE 0

(* The carries are added until none is left. *)
carry[s \in Nat] == IF s < 65536 THEN s ELSE carry[(s % 65536) + (s \div 65536)]

ip_cksum(prev, buff, len) == 65535 - carry[Total(prev, buff, len)]

(* memcpy of len bytes, to a place behind the first at words. *)
Copy(to, at, from, len) ==
  LET n == len \div 2 IN
  [k \in DOMAIN to |->
     IF k \in at + 1..at + n          THEN from[k - at]                     ELSE
     IF k = at + n + 1 /\ len % 2 = 1 THEN Word(Lo(from[n + 1]), Hi(to[k])) ELSE to[k]]

Stored(buff, k, w) == [j \in DOMAIN buff |-> IF j = k THEN w ELSE buff[j]]

-----------------------------------------------------------------------------
(* The buffers of net.c *)

(* Faulty: the last buffer of a pool is linked to the one behind it. *)
NewPoolLong(s) ==
  LET first == s.pools * PoolSize + 1
      ids   == first..first + PoolSize - 1
  IN  [head  |-> first,
       link  |-> [b \in Ids |-> IF b \in ids THEN b + 1 ELSE s.link[b]],
       mem   |-> [b \in Ids |-> IF b \in ids THEN Zero ELSE s.mem[b]],
       pools |-> s.pools + 1]

(* 32 buffers of the heap, cleared and chained. *)
NewPool(s) ==
  LET first == s.pools * PoolSize + 1
      end   == first + PoolSize - 1
  IN  [head  |-> first,
       link  |-> [b \in Ids |-> IF b = end THEN 0
                                ELSE IF b \in first..end THEN b + 1 ELSE s.link[b]],
       mem   |-> [b \in Ids |-> IF b \in first..end THEN Zero ELSE s.mem[b]],
       pools |-> s.pools + 1]

Refilled(s) == IF s.head = 0 /\ s.pools < MaxPools THEN NewPool(s) ELSE s

(* Faulty: the buffer keeps its contents. *)
net_free_dirty(s, b) == [s EXCEPT !.link[b] = s.head, !.head = b]

net_free(s, b) == [s EXCEPT !.mem[b] = Zero, !.link[b] = s.head, !.head = b]

(* The buffer is taken from the list and the reply built in it; its first  *)
(* bytes, the link, become part of the destination address.                *)
Take(s, frame) ==
  [s EXCEPT !.head = s.link[s.head], !.link[s.head] = Trash, !.mem[s.head] = frame]

(* What the buffer that net_alloc returns contains. *)
Contents == LET s == Refilled(stock) IN IF s.head = 0 THEN Zero ELSE s.mem[s.head]

(* net_alloc and ether_sendframe, around a frame built on these contents:  *)
(* the driver copies it and frees the buffer, or refuses it, and then      *)
(* nobody frees it.                                                        *)
Reply(frame, len) ==
  LET s == Refilled(stock)
      b == s.head
      t == Take(s, frame)
  IN  \/ /\ b = 0
         /\ outcome' = "no memory"
         /\ UNCHANGED <<stock, refused>> /\ wire' = Nothing
      \/ /\ b # 0
         /\ outcome' = "sent"
         /\ wire' = [frame |-> t.mem[b], len |-> len]
         /\ stock' = net_free(t, b)
         /\ UNCHANGED refused
      \/ /\ b # 0 /\ refused < MaxRefused
         /\ outcome' = "refused" /\ wire' = Nothing
         /\ stock' = t
         /\ refused' = refused + 1

Ignore == outcome' = "none" /\ wire' = Nothing /\ UNCHANGED <<stock, refused>>

-----------------------------------------------------------------------------
(* The protocols *)

Sub(s, from, n) == SubSeq(s, from, from + n - 1)
Put(to, at, from) == Copy(to, at - 1, from, 2 * Len(from))

arp_reply(f, buff) ==
  [dest |-> f.src, src |-> HwAddr, type |-> htons(\h0806),
   body |-> Put(buff.body, 1,
              <<htons(1), htons(\h0800), Word(6, 4), htons(2)>> \o HwAddr
                \o Sub(f.body, 13, 2) \o f.src \o Sub(f.body, 8, 2))]

arp_process_packet(f) ==
  IF /\ ntohs(f.body[1]) = 1 /\ ntohs(f.body[2]) = \h0800
     /\ Lo(f.body[3]) = 6 /\ Hi(f.body[3]) = 4
     /\ ntohs(f.body[4]) = 1 /\ Sub(f.body, 13, 2) = IpAddr
    THEN Reply(arp_reply(f, Contents), 14 + 28)
    ELSE Ignore

(* The header is written field by field: tos, frag_off and check are left  *)
(* as they are in the buffer, and the checksum is taken over all of them.  *)
ip_header(f, old, len) ==
  LET hdr == << Word(\h45, Hi(old[1])), htons(20 + len), f.body[3], old[4],
                Word(64, 1), old[6], f.body[9], f.body[10], f.body[7], f.body[8] >>
  IN  Stored(hdr, 6, ip_cksum(0, hdr, 20))

icmp_message(old, icmp, len) ==
  LET copied  == Copy(old, 0, icmp, len)
      cleared == Stored(Stored(copied, 2, 0), 1, Word(0, Hi(copied[1])))
  IN  Stored(cleared, 2, ip_cksum(0, cleared, len))

icmp_reply(f, icmp, len, buff) ==
  [dest |-> f.src, src |-> f.dest, type |-> htons(\h0800),
   body |-> ip_header(f, buff.body, len)
              \o icmp_message(SubSeq(buff.body, 11, Words), icmp, len)]

icmp_process_packet(f, icmp, len) ==
  IF Lo(icmp[1]) = 8
    THEN Reply(icmp_reply(f, icmp, len, Contents), len + 20 + 14)
    ELSE Ignore

(* Faulty: a header is accepted without its checksum. *)
ipv4_unchecked(f) ==
  LET version == Lo(f.body[1]) \div 16
      ihl     == Lo(f.body[1]) % 16
  IN  IF /\ version = 4 /\ ihl >= 5 /\ ihl * 4 <= f.len
         /\ Hi(f.body[5]) = 1
        THEN icmp_process_packet(f, SubSeq(f.body, 11, Words), f.len - 4 * ihl)
        ELSE Ignore

(* The message is taken behind 20 bytes, whatever the header's length. *)
ipv4_process_packet(f) ==
  LET version == Lo(f.body[1]) \div 16
      ihl     == Lo(f.body[1]) % 16
  IN  IF /\ version = 4 /\ ihl >= 5 /\ ihl * 4 <= f.len
         /\ ip_cksum(0, f.body, 4 * ihl) = 0
         /\ Hi(f.body[5]) = 1
        THEN icmp_process_packet(f, SubSeq(f.body, 11, Words), f.len - 4 * ihl)
        ELSE Ignore

(* len is what is left of the frame without header and check sequence.     *)
ether_process_frame(f) ==
  CASE ntohs(f.type) = \h0800 -> ipv4_process_packet(f)
    [] ntohs(f.type) = \h0806 -> arp_process_packet(f)
    [] OTHER                  -> Ignore

Process(f) == ether_process_frame(f) /\ last' = f

Next == \E f \in Frames : Process(f)

Spec == Init /\ [][Next]_vars

-----------------------------------------------------------------------------
(* Properties *)

(* The Internet checksum by its definition: the one's complement sum of    *)
(* everything, checksum included, is minus zero.                           *)
Verifies(buff, len) ==
  LET sum == Total(0, buff, len) IN sum # 0 /\ sum % 65535 = 0

(* What the kernel is to answer: an ARP request for its address, and an    *)
(* echo request under an intact IPv4 header without options.               *)
IsArpRequest(f) ==
  /\ f.type = Word(8, 6)
  /\ SubSeq(f.body, 1, 4) = <<Word(0, 1), Word(8, 0), Word(6, 4), Word(0, 1)>>
  /\ Sub(f.body, 13, 2) = IpAddr
IsEchoRequest(f) ==
  /\ f.type = Word(8, 0)
  /\ Lo(f.body[1]) = \h45 /\ Hi(f.body[5]) = 1
  /\ Verifies(f.body, 20)
  /\ Lo(f.body[11]) = 8

(* Exactly the requests are answered, except when the ring or the heap has *)
(* no room: no early return of the four layers rejects or admits too much. *)
AnswersRequests ==
  last # Nothing =>
    (IsArpRequest(last) \/ IsEchoRequest(last) <=> outcome # "none")

ArpAnswer(f, r) ==
  /\ r.frame.dest = f.src /\ r.frame.src = HwAddr /\ r.frame.type = f.type
  /\ SubSeq(r.frame.body, 1, 4) = [SubSeq(f.body, 1, 4) EXCEPT ![4] = Word(0, 2)]
  /\ SubSeq(r.frame.body, 5, 14) = HwAddr \o IpAddr \o f.src \o Sub(f.body, 8, 2)
  /\ r.len = 42

(* Both checksums verify; length, addresses and identification are right,  *)
(* service and fragment fields are zero, and the data comes back.          *)
EchoAnswer(f, r) ==
  LET b == r.frame.body IN
  /\ r.frame.dest = f.src /\ r.frame.src = f.dest /\ r.frame.type = f.type
  /\ b[1] = \h45 /\ b[3] = f.body[3] /\ b[4] = 0
  /\ ntohs(b[2]) = f.len /\ r.len = f.len + 14
  /\ Sub(b, 7, 4) = Sub(f.body, 9, 2) \o Sub(f.body, 7, 2)
  /\ Verifies(b, 20) /\ Verifies(SubSeq(b, 11, Words), f.len - 20)
  /\ b[11] = f.body[11] - 8
  /\ \A k \in 13..f.len \div 2 : b[k] = f.body[k]
  /\ f.len % 2 = 1 => Lo(b[f.len \div 2 + 1]) = Lo(f.body[f.len \div 2 + 1])

(* Whatever the buffer was used for before, the reply put in it is the     *)
(* answer to its request, complete, with checksums that verify by their    *)
(* definition and without a trace of an earlier reply.                     *)
ReplyRight ==
  outcome = "sent" =>
    IF IsArpRequest(last) THEN ArpAnswer(last, wire) ELSE EchoAnswer(last, wire)

(* The free list: the smallest set of buffers that holds its head and the  *)
(* successor of each of its members.                                       *)
Closed(S) ==
  stock.head \in S \cup {0} /\ \A b \in S : stock.link[b] \in S \cup {0}
FreeList == {b \in Ids : \A S \in SUBSET Ids : Closed(S) => b \in S}

(* The list is not circular and ends with a null pointer, it holds all the *)
(* buffers of the pools but the ones that a full ring has cost, and what   *)
(* is on it is clean.                                                      *)
FreeListSound ==
  /\ Closed(FreeList)
  /\ \A S \in SUBSET FreeList : S # {} => \E b \in S : stock.link[b] \notin S
  /\ FreeList \subseteq 1..stock.pools * PoolSize
  /\ Cardinality(FreeList) = stock.pools * PoolSize - refused
  /\ \A b \in FreeList : stock.mem[b] = Zero
=============================================================================
