--------------------------- MODULE NetStackProofs ---------------------------
(***************************************************************************)
(* Proofs about NetStack, for pools of every size, any number of them, and *)
(* all frames: the buffer list stays sound, exactly the requests are       *)
(* answered, and each reply is the right one, checksums included.          *)
(*                                                                         *)
(* The driver frees the buffer it has copied before another one is taken,  *)
(* so the list is never shuffled: it is what is left of the newest pool,   *)
(* from the head on, and all the buffers before the head are lost.         *)
(***************************************************************************)
EXTENDS NetStack, FiniteSetTheorems, WellFoundedInduction, TLAPS

Rest(s, lost) ==
  LET end == s.pools * PoolSize IN
  /\ s = [head |-> s.head, link |-> s.link, mem |-> s.mem, pools |-> s.pools]
  /\ s.pools \in 0..MaxPools /\ s.head \in Nat /\ lost \in Nat
  /\ DOMAIN s.link = Ids /\ DOMAIN s.mem = Ids
  /\ s.head = 0 => lost = end
  /\ s.head # 0 =>
       /\ s.head \in 1..end /\ lost = s.head - 1
       /\ s.link[end] = 0
       /\ \A b \in s.head..end-1 : s.link[b] = b + 1
       /\ \A b \in s.head..end : s.mem[b] = Zero

BufferInv == Rest(stock, refused)

-----------------------------------------------------------------------------

LEMMA PoolBounds ==
  ASSUME NEW n \in 0..MaxPools
  PROVE  /\ n * PoolSize \in Nat /\ n * PoolSize <= PoolSize * MaxPools
         /\ (n + 1) * PoolSize = n * PoolSize + PoolSize
         /\ n < MaxPools => n * PoolSize + PoolSize <= PoolSize * MaxPools
<1>1. PoolSize \in Nat /\ PoolSize > 0 /\ MaxPools \in Nat
  BY BufferAssumption
<1>2. /\ n * PoolSize \in Nat /\ MaxPools * PoolSize = PoolSize * MaxPools
      /\ (n + 1) * PoolSize = n * PoolSize + PoolSize
  BY <1>1, SMT
<1>3. n * PoolSize <= MaxPools * PoolSize
  BY <1>1, <1>2, SMT
<1>4. n < MaxPools => (n + 1) * PoolSize <= MaxPools * PoolSize
  BY <1>1, <1>2, SMT
<1> QED
  BY <1>2, <1>3, <1>4

LEMMA RefillKeeps ==
  ASSUME NEW s, NEW lost, Rest(s, lost)
  PROVE  Rest(Refilled(s), lost)
<1>1. CASE ~(s.head = 0 /\ s.pools < MaxPools)
  BY <1>1 DEF Refilled
<1>2. CASE s.head = 0 /\ s.pools < MaxPools
  <2> DEFINE first == s.pools * PoolSize + 1
             end   == first + PoolSize - 1
             t     == NewPool(s)
  <2>1. PoolSize \in Nat /\ PoolSize > 0 /\ MaxPools \in Nat
    BY BufferAssumption
  <2>2. /\ s.pools \in 0..MaxPools /\ lost = s.pools * PoolSize /\ lost \in Nat
    BY <1>2 DEF Rest
  <2>3. /\ s.pools * PoolSize \in Nat /\ s.pools * PoolSize + PoolSize <= PoolSize * MaxPools
        /\ (s.pools + 1) * PoolSize = s.pools * PoolSize + PoolSize
    BY <1>2, <2>2, PoolBounds
  <2>4. /\ t.head = first /\ t.pools = s.pools + 1
        /\ t = [head |-> t.head, link |-> t.link, mem |-> t.mem, pools |-> t.pools]
        /\ t.link = [b \in Ids |-> IF b = end THEN 0
                                   ELSE IF b \in first..end THEN b + 1 ELSE s.link[b]]
        /\ t.mem  = [b \in Ids |-> IF b \in first..end THEN Zero ELSE s.mem[b]]
    BY DEF NewPool
  <2>5. t = Refilled(s)
    BY <1>2 DEF Refilled
  <2>6. end = t.pools * PoolSize /\ first \in 1..end /\ end \in Ids
    BY <2>1, <2>3, <2>4, SMTT(30) DEF Ids
  <2>7. \A b \in first..end : b \in Ids
    BY <2>1, <2>3 DEF Ids
  <2> HIDE DEF t
  <2>8. /\ t.pools \in 0..MaxPools /\ t.head \in Nat /\ t.head # 0
        /\ t.head \in 1..t.pools * PoolSize /\ lost = t.head - 1
    BY <1>2, <2>1, <2>2, <2>3, <2>4, <2>6
  <2>9. DOMAIN t.link = Ids /\ DOMAIN t.mem = Ids
    BY <2>4
  <2>10. t.link[end] = 0
    BY <2>4, <2>6
  <2>11. \A b \in first..end-1 : t.link[b] = b + 1
    BY <2>1, <2>3, <2>4, <2>7
  <2>12. \A b \in first..end : t.mem[b] = Zero
    BY <2>4, <2>7
  <2>13. Rest(t, lost)
    BY <2>2, <2>4, <2>6, <2>8, <2>9, <2>10, <2>11, <2>12 DEF Rest
  <2> QED
    BY <2>5, <2>13
<1> QED
  BY <1>1, <1>2

(* The operations on the list, field by field. *)
LEMMA TakeOf ==
  ASSUME NEW s, NEW frame,
         s = [head |-> s.head, link |-> s.link, mem |-> s.mem, pools |-> s.pools]
  PROVE  Take(s, frame) =
           [head  |-> s.link[s.head], link |-> [s.link EXCEPT ![s.head] = Trash],
            mem   |-> [s.mem EXCEPT ![s.head] = frame], pools |-> s.pools]
<1> DEFINE t == Take(s, frame)
<1>1. DOMAIN s = {"head", "link", "mem", "pools"}
  OBVIOUS
<1>2. t.head = s.link[s.head] /\ t.pools = s.pools
  BY <1>1 DEF Take
<1>3. t.link = [s.link EXCEPT ![s.head] = Trash]
  BY <1>1 DEF Take
<1>4. t.mem = [s.mem EXCEPT ![s.head] = frame]
  BY <1>1 DEF Take
<1>5. t = [k \in {"head", "link", "mem", "pools"} |-> t[k]]
  BY <1>1 DEF Take
<1> HIDE DEF t
<1>6. t = [head  |-> s.link[s.head], link |-> [s.link EXCEPT ![s.head] = Trash],
           mem   |-> [s.mem EXCEPT ![s.head] = frame], pools |-> s.pools]
  BY <1>2, <1>3, <1>4, <1>5
<1> QED
  BY <1>6 DEF t

LEMMA FreeOf ==
  ASSUME NEW s, NEW b,
         s = [head |-> s.head, link |-> s.link, mem |-> s.mem, pools |-> s.pools]
  PROVE  net_free(s, b) =
           [head  |-> b, link |-> [s.link EXCEPT ![b] = s.head],
            mem   |-> [s.mem EXCEPT ![b] = Zero], pools |-> s.pools]
<1> DEFINE t == net_free(s, b)
<1>1. DOMAIN s = {"head", "link", "mem", "pools"}
  OBVIOUS
<1>2. t.head = b /\ t.pools = s.pools
  BY <1>1 DEF net_free
<1>3. t.link = [s.link EXCEPT ![b] = s.head]
  BY <1>1 DEF net_free
<1>4. t.mem = [s.mem EXCEPT ![b] = Zero]
  BY <1>1 DEF net_free
<1>5. t = [k \in {"head", "link", "mem", "pools"} |-> t[k]]
  BY <1>1 DEF net_free
<1> HIDE DEF t
<1>6. t = [head  |-> b, link |-> [s.link EXCEPT ![b] = s.head],
           mem   |-> [s.mem EXCEPT ![b] = Zero], pools |-> s.pools]
  BY <1>2, <1>3, <1>4, <1>5
<1> QED
  BY <1>6 DEF t

(* The buffer of a reply that was refused is not on the list any more. *)
LEMMA TakeLoses ==
  ASSUME NEW s, NEW lost, Rest(s, lost), s.head # 0, NEW frame
  PROVE  Rest(Take(s, frame), lost + 1)
<1> DEFINE t   == Take(s, frame)
           end == s.pools * PoolSize
<1>1. /\ s = [head |-> s.head, link |-> s.link, mem |-> s.mem, pools |-> s.pools]
      /\ s.pools \in 0..MaxPools /\ s.head \in Nat /\ lost \in Nat
      /\ DOMAIN s.link = Ids /\ DOMAIN s.mem = Ids
      /\ s.head \in 1..end /\ lost = s.head - 1
      /\ s.link[end] = 0
      /\ \A b \in s.head..end-1 : s.link[b] = b + 1
      /\ \A b \in s.head..end : s.mem[b] = Zero
  BY DEF Rest
<1>2. end \in Nat /\ end <= PoolSize * MaxPools
  BY <1>1, PoolBounds
<1>3. \A b \in s.head..end : b \in Ids
  BY <1>1, <1>2, BufferAssumption DEF Ids
<1>4. t = [head  |-> s.link[s.head], link |-> [s.link EXCEPT ![s.head] = Trash],
           mem   |-> [s.mem EXCEPT ![s.head] = frame], pools |-> s.pools]
  BY <1>1, TakeOf
<1> HIDE DEF t, end
<1>5. /\ t.head = s.link[s.head] /\ t.pools = s.pools
      /\ t.link = [s.link EXCEPT ![s.head] = Trash]
      /\ t.mem  = [s.mem EXCEPT ![s.head] = frame]
      /\ t = [head |-> t.head, link |-> t.link, mem |-> t.mem, pools |-> t.pools]
  BY <1>4
<1>6. DOMAIN t.link = Ids /\ DOMAIN t.mem = Ids
  BY <1>1, <1>5
<1>7. \A b \in s.head+1..end : t.link[b] = s.link[b] /\ t.mem[b] = Zero
  BY <1>1, <1>2, <1>3, <1>5
<1>8. CASE s.head = end
  <2>1. t.head = 0 /\ lost + 1 = end
    BY <1>1, <1>2, <1>5, <1>8
  <2> QED
    BY <1>1, <1>2, <1>5, <1>6, <2>1 DEF Rest, t, end
<1>9. CASE s.head # end
  <2>1. t.head = s.head + 1 /\ t.head \in 1..end /\ lost + 1 = t.head - 1
    BY <1>1, <1>2, <1>5, <1>9
  <2>2. t.link[end] = 0 /\ \A b \in t.head..end : t.mem[b] = Zero
    BY <1>1, <1>2, <1>7, <2>1
  <2>3. \A b \in t.head..end-1 : t.link[b] = b + 1
    BY <1>1, <1>2, <1>7, <2>1
  <2> QED
    BY <1>1, <1>2, <1>5, <1>6, <2>1, <2>2, <2>3 DEF Rest, t, end
<1> QED
  BY <1>8, <1>9

(* The buffer of a reply that was sent is back, and clean. *)
LEMMA FreeReturns ==
  ASSUME NEW s, NEW lost, Rest(s, lost), s.head # 0, NEW frame
  PROVE  Rest(net_free(Take(s, frame), s.head), lost)
<1> DEFINE t   == net_free(Take(s, frame), s.head)
           end == s.pools * PoolSize
<1>1. /\ s = [head |-> s.head, link |-> s.link, mem |-> s.mem, pools |-> s.pools]
      /\ s.pools \in 0..MaxPools /\ s.head \in Nat /\ lost \in Nat
      /\ DOMAIN s.link = Ids /\ DOMAIN s.mem = Ids
      /\ s.head \in 1..end /\ lost = s.head - 1
      /\ s.link[end] = 0
      /\ \A b \in s.head..end-1 : s.link[b] = b + 1
      /\ \A b \in s.head..end : s.mem[b] = Zero
  BY DEF Rest
<1>2. end \in Nat /\ end <= PoolSize * MaxPools
  BY <1>1, PoolBounds
<1>3. \A b \in s.head..end : b \in Ids
  BY <1>1, <1>2, BufferAssumption DEF Ids
<1>4. Take(s, frame) =
        [head  |-> s.link[s.head], link |-> [s.link EXCEPT ![s.head] = Trash],
         mem   |-> [s.mem EXCEPT ![s.head] = frame], pools |-> s.pools]
  BY <1>1, TakeOf
<1>5. t = [head  |-> s.head,
           link  |-> [[s.link EXCEPT ![s.head] = Trash] EXCEPT ![s.head] = s.link[s.head]],
           mem   |-> [[s.mem EXCEPT ![s.head] = frame] EXCEPT ![s.head] = Zero],
           pools |-> s.pools]
  <2> DEFINE u == Take(s, frame)
  <2>1. /\ u.head = s.link[s.head] /\ u.link = [s.link EXCEPT ![s.head] = Trash]
        /\ u.mem = [s.mem EXCEPT ![s.head] = frame] /\ u.pools = s.pools
        /\ u = [head |-> u.head, link |-> u.link, mem |-> u.mem, pools |-> u.pools]
    BY <1>4
  <2> HIDE DEF u
  <2>2. net_free(u, s.head) =
           [head  |-> s.head, link |-> [u.link EXCEPT ![s.head] = u.head],
            mem   |-> [u.mem EXCEPT ![s.head] = Zero], pools |-> u.pools]
    BY <2>1, FreeOf
  <2> QED
    BY <2>1, <2>2 DEF u
<1> HIDE DEF t, end
<1>6. /\ t.head = s.head /\ t.pools = s.pools
      /\ t.link = [[s.link EXCEPT ![s.head] = Trash] EXCEPT ![s.head] = s.link[s.head]]
      /\ t.mem  = [[s.mem EXCEPT ![s.head] = frame] EXCEPT ![s.head] = Zero]
      /\ t = [head |-> t.head, link |-> t.link, mem |-> t.mem, pools |-> t.pools]
  BY <1>5
<1>7. DOMAIN t.link = Ids /\ DOMAIN t.mem = Ids
  BY <1>1, <1>6
<1>8. \A b \in s.head..end : t.link[b] = s.link[b]
  BY <1>1, <1>3, <1>6
<1>9. \A b \in s.head..end : t.mem[b] = Zero
  BY <1>1, <1>3, <1>6
<1>10. /\ t.link[end] = 0 /\ \A b \in t.head..end-1 : t.link[b] = b + 1
       /\ \A b \in t.head..end : t.mem[b] = Zero
  BY <1>1, <1>2, <1>6, <1>8, <1>9
<1> QED
  BY <1>1, <1>6, <1>7, <1>10 DEF Rest, t, end

(* Whatever reply is built, and whatever becomes of it.                    *)
LEMMA ReplyKeeps ==
  ASSUME BufferInv, NEW frame, NEW len, Reply(frame, len)
  PROVE  BufferInv'
<1> DEFINE s == Refilled(stock)
<1>1. Rest(s, refused)
  BY RefillKeeps DEF BufferInv
<1>2. \/ stock' = stock /\ refused' = refused
      \/ s.head # 0 /\ stock' = net_free(Take(s, frame), s.head) /\ refused' = refused
      \/ s.head # 0 /\ stock' = Take(s, frame) /\ refused' = refused + 1
  BY DEF Reply
<1> HIDE DEF s
<1>3. Rest(stock', refused')
  BY <1>1, <1>2, FreeReturns, TakeLoses DEF BufferInv
<1> QED
  BY <1>3 DEF BufferInv

LEMMA BufferStep == BufferInv /\ [Next]_vars => BufferInv'
<1> SUFFICES ASSUME BufferInv, [Next]_vars PROVE BufferInv'
  OBVIOUS
<1>1. CASE UNCHANGED vars
  BY <1>1 DEF vars, BufferInv
<1>2. CASE Next
  <2>1. PICK f \in Frames : ether_process_frame(f)
    BY <1>2 DEF Next, Process
  <2>2. Ignore \/ \E frame, len : Reply(frame, len)
    BY <2>1 DEF ether_process_frame, ipv4_process_packet, arp_process_packet,
       icmp_process_packet
  <2>3. CASE Ignore
    BY <2>3 DEF Ignore, BufferInv
  <2> QED
    BY <2>2, <2>3, ReplyKeeps
<1> QED
  BY <1>1, <1>2

LEMMA BufferInit == Init => BufferInv
<1> SUFFICES ASSUME Init PROVE BufferInv
  OBVIOUS
<1>1. PoolSize \in Nat /\ MaxPools \in Nat
  BY BufferAssumption
<1>2. /\ stock.head = 0 /\ stock.pools = 0 /\ refused = 0
      /\ DOMAIN stock.link = Ids /\ DOMAIN stock.mem = Ids
      /\ stock = [head |-> stock.head, link |-> stock.link, mem |-> stock.mem,
                  pools |-> stock.pools]
  BY DEF Init
<1>3. 0 * PoolSize = 0
  BY <1>1
<1> QED
  BY <1>1, <1>2, <1>3 DEF BufferInv, Rest

(* Every set of numbers has a smallest and, if it is bounded, a largest.   *)
LEMMA Smallest ==
  ASSUME NEW T \in SUBSET Nat, T # {}
  PROVE  \E m \in T : \A k \in T : m <= k
<1>1. IsWellFoundedOn(OpToRel(<, Nat), Nat)
  BY NatLessThanWellFounded
<1>2. PICK m \in T : \A k \in T : ~(<<k, m>> \in OpToRel(<, Nat))
  BY <1>1, WFMin
<1>3. \A k \in T : ~(k < m)
  BY <1>2 DEF OpToRel
<1> QED
  BY <1>3

LEMMA Largest ==
  ASSUME NEW T \in SUBSET Nat, T # {}, NEW n \in Nat, \A k \in T : k <= n
  PROVE  \E m \in T : \A k \in T : k <= m
<1> DEFINE U == {k \in Nat : n - k \in T}
<1>1. \A k \in T : n - k \in U
  OBVIOUS
<1>2. U \in SUBSET Nat /\ U # {}
  BY <1>1
<1>3. PICK m \in U : \A k \in U : m <= k
  <2> HIDE DEF U
  <2> QED BY <1>2, Smallest
<1>4. n - m \in T /\ \A k \in T : k <= n - m
  BY <1>1, <1>3
<1> QED
  BY <1>4

(* What the list leads to is the rest of the newest pool. *)
LEMMA ListIsRest ==
  ASSUME BufferInv
  PROVE  LET end == stock.pools * PoolSize IN
         FreeList = IF stock.head = 0 THEN {} ELSE stock.head..end
<1> DEFINE end == stock.pools * PoolSize
           F == IF stock.head = 0 THEN {} ELSE stock.head..end
<1>1. end \in Nat /\ end <= PoolSize * MaxPools /\ stock.head \in Nat
  BY PoolBounds DEF BufferInv, Rest
<1>2. stock.head # 0 => /\ stock.head \in 1..end /\ stock.link[end] = 0
                        /\ \A b \in stock.head..end-1 : stock.link[b] = b + 1
  BY DEF BufferInv, Rest
<1> HIDE DEF end
<1>3. F \in SUBSET Ids
  BY <1>1, <1>2, BufferAssumption DEF Ids
<1>4. Closed(F)
  BY <1>1, <1>2 DEF Closed
<1>5. ASSUME NEW S \in SUBSET Ids, Closed(S) PROVE F \subseteq S
  <2> SUFFICES ASSUME stock.head # 0, ~(stock.head..end \subseteq S) PROVE FALSE
    OBVIOUS
  <2> DEFINE T == {b \in stock.head..end : b \notin S}
  <2>1. T \in SUBSET Nat /\ T # {}
    BY <1>1
  <2>2. PICK m \in T : \A k \in T : m <= k
    <3> HIDE DEF T
    <3> QED BY <2>1, Smallest
  <2>3. stock.head \in S
    BY <1>5 DEF Closed
  <2>4. m # stock.head /\ m \in stock.head..end /\ m \notin S
    BY <2>2, <2>3
  <2>5. m - 1 \in stock.head..end-1 /\ m - 1 \notin T
    BY <1>1, <2>2, <2>4
  <2>6. m - 1 \in S /\ stock.link[m - 1] = m
    BY <1>1, <1>2, <2>4, <2>5
  <2>7. m \in S \cup {0}
    BY <1>5, <2>6 DEF Closed
  <2> QED
    BY <1>1, <1>2, <2>4, <2>7
<1> HIDE DEF F
<1>6. FreeList = F
  BY <1>3, <1>4, <1>5, Zenon DEF FreeList
<1> QED
  BY <1>6 DEF F, end

(* The free list is sound at all times, whatever arrives, is sent or is    *)
(* refused: it ends, it is clean, and a buffer leaves it for good only     *)
(* with a reply that the driver refused.                                   *)
THEOREM BuffersKept == Spec => []FreeListSound
<1>1. ASSUME BufferInv PROVE FreeListSound
  <2> DEFINE end == stock.pools * PoolSize
  <2>1. FreeList = IF stock.head = 0 THEN {} ELSE stock.head..end
    BY <1>1, ListIsRest
  <2>2. end \in Nat /\ stock.head \in Nat /\ refused \in Nat
    BY <1>1, PoolBounds DEF BufferInv, Rest
  <2>3. /\ stock.head = 0 => refused = end
        /\ stock.head # 0 => /\ stock.head \in 1..end /\ refused = stock.head - 1
                             /\ stock.link[end] = 0
                             /\ \A b \in stock.head..end-1 : stock.link[b] = b + 1
                             /\ \A b \in stock.head..end : stock.mem[b] = Zero
    BY <1>1 DEF BufferInv, Rest
  <2> HIDE DEF end
  <2>4. Closed(FreeList)
    BY <2>1, <2>2, <2>3 DEF Closed
  <2>5. ASSUME NEW S \in SUBSET FreeList, S # {}
        PROVE  \E b \in S : stock.link[b] \notin S
    <3>1. stock.head # 0 /\ S \in SUBSET Nat /\ \A b \in S : b \in stock.head..end
      BY <2>1, <2>2, <2>5
    <3>2. PICK m \in S : \A k \in S : k <= m
      <4>1. \A k \in S : k <= end
        BY <2>2, <3>1
      <4> QED
        BY <2>2, <2>5, <3>1, <4>1, Largest, Zenon
    <3>3. stock.link[m] = 0 \/ stock.link[m] = m + 1
      BY <2>2, <2>3, <3>1
    <3>4. 0 \notin S /\ m + 1 \notin S
      BY <2>2, <2>3, <3>1, <3>2
    <3> QED
      BY <3>3, <3>4
  <2>6. FreeList \subseteq 1..end /\ \A b \in FreeList : stock.mem[b] = Zero
    BY <2>1, <2>2, <2>3
  <2>7. Cardinality(FreeList) = end - refused
    <3>1. CASE stock.head = 0
      BY <2>1, <2>2, <2>3, <3>1, FS_EmptySet
    <3>2. CASE stock.head # 0
      <4>1. Cardinality(stock.head..end) = end - stock.head + 1
        <5>1. stock.head \in Int /\ end \in Int /\ ~(stock.head > end)
          BY <2>2, <2>3, <3>2
        <5>2. Cardinality(stock.head..end) =
                IF stock.head > end THEN 0 ELSE end - stock.head + 1
          BY <5>1, FS_Interval, Zenon
        <5> QED
          BY <5>1, <5>2
      <4> QED
        BY <2>1, <2>2, <2>3, <3>2, <4>1
    <3> QED
      BY <3>1, <3>2
  <2> QED
    BY <2>4, <2>5, <2>6, <2>7 DEF FreeListSound, end
<1> QED
  BY <1>1, BufferInit, BufferStep, PTL DEF Spec

-----------------------------------------------------------------------------
(* The checksum *)

(* What is left when all carries are added: the one's complement sum. *)
Folded(s) == IF s = 0 THEN 0 ELSE IF s % 65535 = 0 THEN 65535 ELSE s % 65535

LEMMA FoldOnce ==
  ASSUME NEW s \in Nat, s >= 65536
  PROVE  LET r == (s % 65536) + (s \div 65536) IN r \in Nat /\ r < s /\ Folded(r) = Folded(s)
<1> DEFINE q == s \div 65536
           p == s % 65536
<1>1. p \in Nat /\ p < 65536 /\ q \in Nat /\ q >= 1 /\ s = 65536 * q + p
  <2>1. p \in Nat /\ p < 65536
    BY SMTT(30)
  <2>2. q \in Nat /\ q >= 1
    BY SMTT(30)
  <2>3. s = 65536 * q + p
    BY SMTT(30)
  <2> HIDE DEF p, q
  <2> QED
    BY <2>1, <2>2, <2>3
<1> HIDE DEF p, q
<1>2. p + q \in Nat /\ p + q < s /\ p + q > 0 /\ s = 65535 * q + (p + q)
  BY <1>1
<1>3. (p + q) % 65535 = s % 65535
  BY <1>1, <1>2
<1>4. Folded(p + q) = Folded(s)
  BY <1>2, <1>3 DEF Folded
<1> QED
  BY <1>2, <1>4 DEF p, q

LEMMA FoldSmall ==
  ASSUME NEW s \in Nat
  PROVE  Folded(s) \in 0..2^16-1 /\ (s < 65536 => Folded(s) = s)
BY DEF Folded

(* The loop's equation has a solution, so carry satisfies it... *)
LEMMA CarryLoop ==
  carry = [s \in Nat |-> IF s < 65536 THEN s ELSE carry[(s % 65536) + (s \div 65536)]]
<1> DEFINE Loop(g) == g = [s \in Nat |-> IF s < 65536 THEN s ELSE g[(s % 65536) + (s \div 65536)]]
           F == [s \in Nat |-> Folded(s)]
<1>1. ASSUME NEW s \in Nat
      PROVE  F[s] = IF s < 65536 THEN s ELSE F[(s % 65536) + (s \div 65536)]
  BY FoldOnce, FoldSmall
<1>2. Loop(F)
  BY <1>1
<1>3. carry = CHOOSE g : Loop(g)
  BY DEF carry
<1> HIDE DEF F, Loop
<1>4. Loop(carry)
  BY <1>2, <1>3, Zenon
<1> QED
  BY <1>4 DEF Loop

(* ...and no other function does. *)
LEMMA CarryFolds == \A s \in Nat : carry[s] = Folded(s)
<1> DEFINE T == {s \in Nat : carry[s] # Folded(s)}
<1> SUFFICES ASSUME T # {} PROVE FALSE
  OBVIOUS
<1>1. PICK m \in T : \A k \in T : m <= k
  <2>1. T \in SUBSET Nat
    OBVIOUS
  <2> HIDE DEF T
  <2> QED BY <2>1, Smallest
<1>2. m \in Nat /\ carry[m] # Folded(m)
  BY <1>1
<1>3. carry[m] = IF m < 65536 THEN m ELSE carry[(m % 65536) + (m \div 65536)]
  BY <1>2, CarryLoop
<1>4. m >= 65536
  BY <1>2, <1>3, FoldSmall
<1> DEFINE r == (m % 65536) + (m \div 65536)
<1>5. r \in Nat /\ r < m /\ Folded(r) = Folded(m)
  BY <1>2, <1>4, FoldOnce
<1>6. carry[m] = carry[r]
  BY <1>2, <1>3, <1>4
<1> HIDE DEF r
<1>7. r \in T
  BY <1>2, <1>5, <1>6
<1> QED
  BY <1>1, <1>2, <1>5, <1>7

(* The partial sums exist for every length, and are what the loop adds up. *)
LEMMA SumsLoop ==
  ASSUME NEW prev \in Nat, NEW buff, NEW n \in Nat, \A k \in 1..n : buff[k] \in Nat
  PROVE  LET S == Sums(prev, buff, n) IN
         /\ S[0] = prev /\ \A k \in 1..n : S[k] = S[k - 1] + buff[k]
         /\ \A k \in 0..n : S[k] \in Nat
<1> DEFINE Loop(g, m) == g = [k \in 0..m |-> IF k = 0 THEN prev ELSE g[k - 1] + buff[k]]
           T == {m \in Nat : ~(\E g : Loop(g, m))}
           S == Sums(prev, buff, n)
<1>1. T = {}
  <2> SUFFICES ASSUME T # {} PROVE FALSE
    OBVIOUS
  <2>1. PICK m \in T : \A k \in T : m <= k
    <3>1. T \in SUBSET Nat
      OBVIOUS
    <3> HIDE DEF T
    <3> QED BY <3>1, Smallest
  <2>2. m \in Nat /\ ~(\E g : Loop(g, m))
    BY <2>1
  <2>3. CASE m = 0
    <3> DEFINE g == [k \in 0..0 |-> prev]
    <3>1. \A k \in 0..0 : k = 0
      OBVIOUS
    <3>2. g = [k \in 0..0 |-> IF k = 0 THEN prev ELSE g[k - 1] + buff[k]]
      BY <3>1
    <3>3. Loop(g, m)
      BY <2>3, <3>2
    <3> QED
      BY <2>2, <3>3
  <2>4. CASE m # 0
    <3>1. m - 1 \in Nat /\ m - 1 < m
      BY <2>2, <2>4
    <3>2. m - 1 \notin T
      <4> HIDE DEF T
      <4> QED BY <2>1, <2>2, <3>1
    <3>3. PICK h : Loop(h, m - 1)
      BY <3>1, <3>2
    <3> DEFINE g == [k \in 0..m |-> IF k = m THEN h[m - 1] + buff[m] ELSE h[k]]
    <3>4. ASSUME NEW k \in 0..m
          PROVE  g[k] = IF k = 0 THEN prev ELSE g[k - 1] + buff[k]
      <4>1. CASE k = m
        <5>1. k - 1 \in 0..m /\ k - 1 # m /\ k # 0
          BY <2>2, <2>4, <4>1
        <5> QED
          BY <4>1, <5>1
      <4>2. CASE k # m
        <5>1. k \in 0..m-1 /\ g[k] = h[k]
          BY <2>2, <4>2
        <5>2. h[k] = IF k = 0 THEN prev ELSE h[k - 1] + buff[k]
          BY <3>3, <5>1
        <5>3. k # 0 => k - 1 \in 0..m /\ k - 1 # m
          BY <2>2, <4>2
        <5> QED
          BY <5>1, <5>2, <5>3
      <4> QED
        BY <4>1, <4>2
    <3>5. g = [k \in 0..m |-> g[k]]
      OBVIOUS
    <3> HIDE DEF g
    <3>6. Loop(g, m)
      BY <3>4, <3>5
    <3> QED
      BY <2>2, <3>6
  <2> QED
    BY <2>3, <2>4
<1>2. \E g : Loop(g, n)
  BY <1>1
<1>3. S = CHOOSE g : Loop(g, n)
  BY DEF Sums
<1>4. Loop(S, n)
  <2> HIDE DEF Loop, S
  <2> QED BY <1>2, <1>3, Zenon
<1> HIDE DEF S
<1>5. S[0] = prev /\ \A k \in 1..n : S[k] = S[k - 1] + buff[k]
  <2>1. 0 \in 0..n /\ \A k \in 1..n : k \in 0..n /\ k # 0
    OBVIOUS
  <2> QED
    BY <1>4, <2>1
<1>6. ASSUME NEW k \in 0..n, S[k] \notin Nat PROVE FALSE
  <2> DEFINE U == {j \in 0..n : S[j] \notin Nat}
  <2>1. U \in SUBSET Nat /\ U # {}
    BY <1>6
  <2>2. PICK m \in U : \A j \in U : m <= j
    <3> HIDE DEF U
    <3> QED BY <2>1, Smallest
  <2>3. m # 0
    BY <1>5, <2>2
  <2>4. m \in 1..n /\ m - 1 \in 0..n /\ ~(m <= m - 1)
    BY <2>2, <2>3
  <2>5. S[m - 1] \in Nat
    BY <2>2, <2>4
  <2> QED
    BY <1>5, <2>2, <2>4, <2>5
<1> QED
  BY <1>5, <1>6 DEF S

(* One word more by v: the sum is more by v. *)
More(n, x, y, j, v) ==
  \A k \in 1..n : x[k] \in Nat /\ y[k] = x[k] + (IF k = j THEN v ELSE 0)

LEMMA SumsStored ==
  ASSUME NEW n \in Nat, NEW x, NEW y, NEW j \in 1..n, NEW v \in Nat, More(n, x, y, j, v)
  PROVE  Sums(0, y, n)[n] = Sums(0, x, n)[n] + v
<1> DEFINE X == Sums(0, x, n)
           Y == Sums(0, y, n)
           Good(k) == Y[k] = X[k] + (IF k >= j THEN v ELSE 0)
           T == {k \in 0..n : ~Good(k)}
<1>1. 0 \in Nat /\ \A k \in 1..n : x[k] \in Nat /\ y[k] \in Nat
  BY DEF More
<1>2. X[0] = 0 /\ (\A k \in 1..n : X[k] = X[k - 1] + x[k]) /\ \A k \in 0..n : X[k] \in Nat
  BY <1>1, SumsLoop
<1>3. Y[0] = 0 /\ (\A k \in 1..n : Y[k] = Y[k - 1] + y[k]) /\ \A k \in 0..n : Y[k] \in Nat
  BY <1>1, SumsLoop
<1> HIDE DEF X, Y
<1>4. T = {}
  <2> SUFFICES ASSUME T # {} PROVE FALSE
    OBVIOUS
  <2>1. T \in SUBSET Nat
    OBVIOUS
  <2>2. PICK m \in T : \A k \in T : m <= k
    <3> HIDE DEF T
    <3> QED BY <2>1, Smallest
  <2>3. m \in 0..n /\ ~Good(m)
    BY <2>2
  <2>4. m # 0
    BY <1>2, <1>3, <2>3
  <2>5. m \in 1..n /\ m - 1 \in 0..n /\ ~(m <= m - 1)
    BY <2>3, <2>4
  <2>6. Good(m - 1)
    BY <2>2, <2>5
  <2>7. X[m] = X[m - 1] + x[m] /\ Y[m] = Y[m - 1] + y[m] /\ X[m - 1] \in Nat /\ x[m] \in Nat
    BY <1>1, <1>2, <1>3, <2>5
  <2>8. y[m] = x[m] + (IF m = j THEN v ELSE 0)
    BY <2>5 DEF More
  <2>9. Good(m)
    <3>1. CASE m < j
      BY <2>5, <2>6, <2>7, <2>8, <3>1
    <3>2. CASE m = j
      BY <2>5, <2>6, <2>7, <2>8, <3>2
    <3>3. CASE m > j
      BY <2>5, <2>6, <2>7, <2>8, <3>3
    <3> QED
      BY <2>5, <3>1, <3>2, <3>3
  <2> QED
    BY <2>3, <2>9
<1>5. n \in 0..n /\ n >= j
  OBVIOUS
<1>6. Good(n)
  BY <1>4, <1>5
<1> QED
  BY <1>5, <1>6 DEF X, Y

LEMMA TotalStored ==
  ASSUME NEW len \in Nat, NEW x, NEW y, NEW j \in 1..len \div 2, NEW v \in Nat,
         More(len \div 2, x, y, j, v),
         len % 2 = 1 => x[len \div 2 + 1] \in Nat
                        /\ Lo(y[len \div 2 + 1]) = Lo(x[len \div 2 + 1])
  PROVE  Total(0, x, len) \in Nat /\ Total(0, y, len) = Total(0, x, len) + v
<1> DEFINE n == len \div 2
           a == Sums(0, x, n)[n]
           b == Sums(0, y, n)[n]
           o == IF len % 2 = 1 THEN Lo(x[n + 1]) ELSE 0
<1>1. /\ n \in Nat /\ n \in 0..n /\ 0 \in Nat /\ j \in 1..n
      /\ More(n, x, y, j, v) /\ \A k \in 1..n : x[k] \in Nat
  BY DEF More
<1>2. b = a + v
  <2> HIDE DEF n
  <2>1. Sums(0, y, n)[n] = Sums(0, x, n)[n] + v
    BY <1>1, SumsStored
  <2> QED
    BY <2>1
<1>3. a \in Nat
  <2> HIDE DEF n
  <2> QED BY <1>1, SumsLoop
<1>4. o \in Nat
  BY DEF Lo
<1>5. Total(0, x, len) = a + o /\ Total(0, y, len) = b + o
  BY DEF Total
<1> HIDE DEF a, b, o
<1> QED
  BY <1>2, <1>3, <1>4, <1>5

(* The sum that the checksum completes is minus zero. *)
LEMMA Completes ==
  ASSUME NEW s \in Nat
  PROVE  LET c == 65535 - carry[s] IN
         c \in Nat /\ c < 65536 /\ s + c # 0 /\ (s + c) % 65535 = 0
<1> DEFINE c == 65535 - carry[s]
           r == s % 65535
           q == s \div 65535
<1>1. carry[s] = Folded(s)
  BY CarryFolds
<1>2. r \in Nat /\ r < 65535 /\ q \in Nat /\ s = 65535 * q + r
  OBVIOUS
<1>3. CASE s = 0
  BY <1>1, <1>3 DEF Folded
<1>4. CASE s # 0 /\ r = 0
  <2>1. c = 0
    BY <1>1, <1>4 DEF Folded
  <2> QED
    BY <1>4, <2>1
<1>5. CASE r # 0
  <2>1. c = 65535 - r
    BY <1>1, <1>2, <1>5 DEF Folded
  <2> HIDE DEF r, q, c
  <2>2. s + c = 65535 * (q + 1) /\ c \in Nat /\ c < 65536
    BY <1>2, <1>5, <2>1
  <2>3. (65535 * (q + 1)) % 65535 = 0
    BY <1>2
  <2> QED
    BY <1>2, <1>5, <2>2, <2>3 DEF c
<1> QED
  BY <1>3, <1>4, <1>5

(* A checksum of zero is what the definition asks for. *)
LEMMA ZeroVerifies ==
  ASSUME NEW buff, NEW len \in Nat, Total(0, buff, len) \in Nat
  PROVE  ip_cksum(0, buff, len) = 0 <=> Verifies(buff, len)
<1> DEFINE s == Total(0, buff, len)
<1>1. carry[s] = Folded(s)
  BY CarryFolds
<1>2. ip_cksum(0, buff, len) = 65535 - Folded(s)
  BY <1>1 DEF ip_cksum
<1>3. Folded(s) \in Nat
  BY FoldSmall
<1> HIDE DEF s
<1>4. s \in Nat
  BY DEF s
<1>5. s % 65535 \in Nat /\ s % 65535 < 65535
  BY <1>4
<1>6. Folded(s) = 65535 <=> s # 0 /\ s % 65535 = 0
  BY <1>4, <1>5 DEF Folded
<1>7. 65535 - Folded(s) = 0 <=> Folded(s) = 65535
  BY <1>3
<1> QED
  BY <1>2, <1>6, <1>7 DEF Verifies, s

-----------------------------------------------------------------------------
(* Requests *)

LEMMA Elements ==
  ASSUME NEW S, NEW s \in Seq(S)
  PROVE  Len(s) \in Nat /\ \A k \in 1..Len(s) : s[k] \in S
OBVIOUS

LEMMA Sixteen ==
  ASSUME NEW w \in Word16
  PROVE  w \in Nat /\ w < 65536
BY DEF Word16

(* What is assumed of a frame, for each word. *)
LEMMA FrameWords ==
  ASSUME NEW f \in Frames
  PROVE  /\ Words \in Nat /\ 23 <= Words /\ Words <= 993
         /\ f.len \in Nat /\ 46 <= f.len /\ f.len <= 2 * Words
         /\ f.body \in Seq(Word16) /\ Len(f.body) = Words
         /\ \A k \in 1..Words : f.body[k] \in Nat /\ f.body[k] < 65536
         /\ f.type \in Nat /\ f.type < 65536
<1>1. Words \in Nat /\ Words <= 993 /\ Len(f.body) = Words /\ f.len \in 46..2*Words
  BY BufferAssumption, FrameAssumption
<1>2. f.body \in Seq(Word16) /\ f.type \in Word16
  BY FrameAssumption
<1>3. \A k \in 1..Words : f.body[k] \in Word16
  BY <1>1, <1>2, Elements, Zenon
<1>4. \A k \in 1..Words : f.body[k] \in Nat /\ f.body[k] < 65536
  BY <1>3, Sixteen
<1>5. f.type \in Nat /\ f.type < 65536
  BY <1>2, Sixteen
<1>6. 23 <= Words /\ f.len \in Nat /\ 46 <= f.len /\ f.len <= 2 * Words
  BY ONLY <1>1
<1> QED
  BY <1>1, <1>2, <1>4, <1>5, <1>6

LEMMA Halves ==
  ASSUME NEW w \in Nat, w < 65536
  PROVE  /\ Lo(w) \in Nat /\ Lo(w) < 256 /\ Hi(w) \in Nat /\ Hi(w) < 256
         /\ w = Word(Lo(w), Hi(w)) /\ htons(w) = Word(Hi(w), Lo(w))
<1>1. Lo(w) \in Nat /\ Lo(w) < 256 /\ Hi(w) \in Nat /\ Hi(w) < 256 /\ w = Lo(w) + 256 * Hi(w)
  BY DEF Lo, Hi
<1> QED
  BY <1>1 DEF Word, htons

LEMMA WordIs ==
  ASSUME NEW a \in Nat, a < 256, NEW b \in Nat, b < 256
  PROVE  /\ Word(a, b) \in Nat /\ Word(a, b) < 65536
         /\ Lo(Word(a, b)) = a /\ Hi(Word(a, b)) = b /\ htons(Word(a, b)) = Word(b, a)
<1>1. a + 256 * b \in Nat /\ a + 256 * b < 65536
  OBVIOUS
<1>2. (a + 256 * b) % 256 = a
  OBVIOUS
<1>3. (a + 256 * b) \div 256 = b
  OBVIOUS
<1> QED
  BY <1>1, <1>2, <1>3 DEF Word, Lo, Hi, htons

LEMMA FirstFour ==
  ASSUME NEW S, NEW s \in Seq(S), Len(s) >= 4
  PROVE  SubSeq(s, 1, 4) = <<s[1], s[2], s[3], s[4]>>
<1>1. Len(SubSeq(s, 1, 4)) = 4 /\ SubSeq(s, 1, 4) \in Seq(S)
  OBVIOUS
<1>2. \A k \in 1..4 : SubSeq(s, 1, 4)[k] = s[k]
  OBVIOUS
<1>3. SubSeq(s, 1, 4) = [k \in 1..4 |-> s[k]]
  BY <1>1, <1>2
<1>4. <<s[1], s[2], s[3], s[4]>> = [k \in 1..4 |-> s[k]]
  OBVIOUS
<1> QED
  BY <1>3, <1>4

(* ntohs(w) = c, for the two bytes of c. *)
LEMMA Swapped ==
  ASSUME NEW w \in Nat, w < 65536, NEW a \in Nat, a < 256, NEW b \in Nat, b < 256
  PROVE  ntohs(w) = Word(a, b) <=> w = Word(b, a)
<1>1. ntohs(w) = Hi(w) + 256 * Lo(w) /\ w = Lo(w) + 256 * Hi(w)
  BY Halves DEF ntohs, Word
<1>2. Lo(w) \in Nat /\ Lo(w) < 256 /\ Hi(w) \in Nat /\ Hi(w) < 256
  BY Halves
<1> QED
  BY <1>1, <1>2 DEF Word

(* The tests of arp_process_packet are those of an ARP request. *)
LEMMA ArpAccepted ==
  ASSUME NEW f \in Frames, f.type = Word(8, 6)
  PROVE  IsArpRequest(f) <=>
           /\ ntohs(f.body[1]) = 1 /\ ntohs(f.body[2]) = \h0800
           /\ Lo(f.body[3]) = 6 /\ Hi(f.body[3]) = 4
           /\ ntohs(f.body[4]) = 1 /\ Sub(f.body, 13, 2) = IpAddr
<1> DEFINE b == f.body
<1>1. /\ Words \in Nat /\ 23 <= Words /\ Len(b) = Words /\ b \in Seq(Word16)
      /\ \A k \in 1..Words : b[k] \in Nat /\ b[k] < 65536
  BY FrameWords
<1> HIDE DEF b
<1>2. \A k \in 1..4 : b[k] \in Nat /\ b[k] < 65536
  BY <1>1
<1>3. SubSeq(b, 1, 4) = <<b[1], b[2], b[3], b[4]>>
  BY <1>1, FirstFour
<1>4. 1 = Word(1, 0) /\ \h0800 = Word(0, 8)
  BY DEF Word
<1>5. /\ ntohs(b[1]) = Word(1, 0) <=> b[1] = Word(0, 1)
      /\ ntohs(b[2]) = Word(0, 8) <=> b[2] = Word(8, 0)
      /\ ntohs(b[4]) = Word(1, 0) <=> b[4] = Word(0, 1)
  BY <1>2, Swapped
<1>6. Lo(b[3]) = 6 /\ Hi(b[3]) = 4 <=> b[3] = Word(6, 4)
  <2>1. b[3] = Word(Lo(b[3]), Hi(b[3]))
    BY <1>2, Halves
  <2>2. Lo(Word(6, 4)) = 6 /\ Hi(Word(6, 4)) = 4
    BY WordIs
  <2> QED
    BY <2>1, <2>2
<1>7. SubSeq(b, 1, 4) = <<Word(0, 1), Word(8, 0), Word(6, 4), Word(0, 1)>>
        <=> b[1] = Word(0, 1) /\ b[2] = Word(8, 0) /\ b[3] = Word(6, 4) /\ b[4] = Word(0, 1)
  BY <1>3
<1> QED
  BY <1>4, <1>5, <1>6, <1>7 DEF IsArpRequest, b
(* The tests of ipv4_process_packet and icmp_process_packet are those of   *)
(* an echo request. *)
LEMMA EchoAccepted ==
  ASSUME NEW f \in Frames, f.type = Word(8, 0)
  PROVE  LET version == Lo(f.body[1]) \div 16
             ihl     == Lo(f.body[1]) % 16
         IN  IsEchoRequest(f) <=>
               /\ version = 4 /\ ihl >= 5 /\ ihl * 4 <= f.len
               /\ ip_cksum(0, f.body, 4 * ihl) = 0
               /\ Hi(f.body[5]) = 1
               /\ Lo(SubSeq(f.body, 11, Words)[1]) = 8
<1> DEFINE b == f.body
           l == Lo(b[1])
           version == l \div 16
           ihl == l % 16
<1>1. /\ Words \in Nat /\ 23 <= Words /\ Len(b) = Words /\ b \in Seq(Word16)
      /\ \A k \in 1..Words : b[k] \in Nat /\ b[k] < 65536
      /\ f.len \in Nat /\ 46 <= f.len
  BY FrameWords
<1>2. f.type = 8 /\ (b[1] % 16 > 5 /\ 4 * (b[1] % 16) <= f.len => b[11] % 256 # 8)
  <2>1. f.type = 8
    BY DEF Word
  <2> QED
    BY <2>1, FrameAssumption
<1> HIDE DEF b
<1>3. SubSeq(b, 11, Words)[1] = b[11]
  BY <1>1
<1>4. b[1] \in Nat /\ b[1] < 65536 /\ 1 \in 1..Words /\ 11 \in 1..Words
  BY <1>1
<1>5. l \in Nat /\ l < 256 /\ b[1] % 16 = ihl
  BY <1>4 DEF Lo
<1> HIDE DEF l
<1>6. ihl \in Nat /\ version \in Nat /\ l = 16 * version + ihl /\ ihl < 16
  BY <1>5
<1>7. l = \h45 <=> version = 4 /\ ihl = 5
  BY <1>6
<1>8. ihl > 5 /\ 4 * ihl <= f.len => Lo(b[11]) # 8
  BY <1>2, <1>5 DEF Lo
<1>9. Total(0, b, 20) \in Nat
  <2>1. 20 \div 2 = 10 /\ 20 % 2 = 0
    OBVIOUS
  <2>2. 10 \in Nat /\ 0 \in Nat /\ 10 \in 0..10 /\ \A k \in 1..10 : b[k] \in Nat
    BY <1>1
  <2>3. Sums(0, b, 10)[10] \in Nat
    BY <2>2, SumsLoop
  <2>4. Total(0, b, 20) = Sums(0, b, 10)[10] + 0
    BY <2>1 DEF Total
  <2> QED
    BY <2>3, <2>4
<1>10. ip_cksum(0, b, 20) = 0 <=> Verifies(b, 20)
  BY <1>9, ZeroVerifies
<1>11. IsEchoRequest(f) <=> l = \h45 /\ Hi(b[5]) = 1 /\ Verifies(b, 20) /\ Lo(b[11]) = 8
  BY DEF IsEchoRequest, b, l
<1> HIDE DEF version, ihl
<1>12. CASE ihl = 5
  <2>1. ihl * 4 <= f.len /\ 4 * ihl = 20 /\ ihl >= 5
    BY <1>1, <1>12
  <2> QED
    BY <1>3, <1>7, <1>10, <1>11, <1>12, <2>1 DEF b, l, version, ihl
<1>13. CASE ihl # 5
  <2>1. ~IsEchoRequest(f)
    BY <1>7, <1>11, <1>13
  <2>2. ihl >= 5 /\ ihl * 4 <= f.len => Lo(SubSeq(b, 11, Words)[1]) # 8
    BY <1>1, <1>3, <1>6, <1>8, <1>13
  <2> QED
    BY <2>1, <2>2 DEF b, l, version, ihl
<1> QED
  BY <1>12, <1>13

(* The cases of ether_process_frame. *)
LEMMA Types ==
  ASSUME NEW f \in Frames
  PROVE  /\ ntohs(f.type) = \h0800 <=> f.type = Word(8, 0)
         /\ ntohs(f.type) = \h0806 <=> f.type = Word(8, 6)
         /\ Word(8, 0) # Word(8, 6)
<1>1. f.type \in Nat /\ f.type < 65536
  BY FrameWords
<1>2. \h0800 = Word(0, 8) /\ \h0806 = Word(6, 8) /\ Word(8, 0) # Word(8, 6)
  BY DEF Word
<1>3. /\ ntohs(f.type) = Word(0, 8) <=> f.type = Word(8, 0)
      /\ ntohs(f.type) = Word(6, 8) <=> f.type = Word(8, 6)
  BY <1>1, Swapped
<1> QED
  BY <1>2, <1>3

(* Each frame is either ignored or answered, and it is answered when it is *)
(* a request. *)
LEMMA Processed ==
  ASSUME NEW f \in Frames, ether_process_frame(f)
  PROVE  \/ /\ ~IsArpRequest(f) /\ ~IsEchoRequest(f) /\ Ignore
         \/ /\ IsArpRequest(f) /\ ~IsEchoRequest(f)
            /\ Reply(arp_reply(f, Contents), 42)
         \/ /\ IsEchoRequest(f) /\ ~IsArpRequest(f)
            /\ Reply(icmp_reply(f, SubSeq(f.body, 11, Words), f.len - 20, Contents), f.len + 14)
<1>1. CASE f.type = Word(8, 0)
  <2> DEFINE version == Lo(f.body[1]) \div 16
             ihl     == Lo(f.body[1]) % 16
             message == SubSeq(f.body, 11, Words)
  <2>1. ipv4_process_packet(f) /\ ~IsArpRequest(f)
    BY <1>1, Types DEF ether_process_frame, IsArpRequest
  <2>2. CASE IsEchoRequest(f)
    <3>1. /\ version = 4 /\ ihl >= 5 /\ ihl * 4 <= f.len
          /\ ip_cksum(0, f.body, 4 * ihl) = 0
          /\ Hi(f.body[5]) = 1
          /\ Lo(message[1]) = 8
      BY <1>1, <2>2, EchoAccepted
    <3>2. ihl = 5
      <4>1. Lo(f.body[1]) = \h45
        BY <2>2 DEF IsEchoRequest
      <4> QED
        BY <4>1
    <3>3. f.len \in Nat /\ f.len - 4 * ihl = f.len - 20 /\ (f.len - 20) + 20 + 14 = f.len + 14
      BY <3>2, FrameWords
    <3>4. icmp_process_packet(f, message, f.len - 4 * ihl)
      BY <2>1, <3>1 DEF ipv4_process_packet
    <3>5. icmp_process_packet(f, message, f.len - 20)
      BY <3>3, <3>4
    <3>6. Reply(icmp_reply(f, message, f.len - 20, Contents), (f.len - 20) + 20 + 14)
      BY <3>1, <3>5 DEF icmp_process_packet
    <3> QED
      BY <2>1, <2>2, <3>3, <3>6
  <2>3. CASE ~IsEchoRequest(f)
    <3>1. ~(/\ version = 4 /\ ihl >= 5 /\ ihl * 4 <= f.len
            /\ ip_cksum(0, f.body, 4 * ihl) = 0
            /\ Hi(f.body[5]) = 1
            /\ Lo(message[1]) = 8)
      BY <1>1, <2>3, EchoAccepted
    <3>2. Ignore
      BY <2>1, <3>1 DEF ipv4_process_packet, icmp_process_packet
    <3> QED
      BY <2>1, <2>3, <3>2
  <2> QED
    BY <2>2, <2>3
<1>2. CASE f.type = Word(8, 6)
  <2>1. arp_process_packet(f) /\ ~IsEchoRequest(f)
    BY <1>2, Types DEF ether_process_frame, IsEchoRequest
  <2>2. 14 + 28 = 42
    OBVIOUS
  <2>3. CASE IsArpRequest(f)
    BY <1>2, <2>1, <2>2, <2>3, ArpAccepted DEF arp_process_packet
  <2>4. CASE ~IsArpRequest(f)
    BY <1>2, <2>1, <2>4, ArpAccepted DEF arp_process_packet
  <2> QED
    BY <2>3, <2>4
<1>3. CASE f.type # Word(8, 0) /\ f.type # Word(8, 6)
  BY <1>3, Types DEF ether_process_frame, IsEchoRequest, IsArpRequest
<1> QED
  BY <1>1, <1>2, <1>3

LEMMA ReplyOutcome ==
  ASSUME NEW frame, NEW len, Reply(frame, len)
  PROVE  outcome' # "none"
BY DEF Reply

(* For every frame, the four layers answer it exactly if it is an ARP      *)
(* request for the kernel's address or an echo request under an intact     *)
(* header: the checksum loop accepts what the definition of the Internet   *)
(* checksum accepts, for every sum.                                        *)
THEOREM RequestsAnswered == Spec => []AnswersRequests
<1>1. Init => AnswersRequests
  BY DEF Init, AnswersRequests
<1>2. ASSUME AnswersRequests, [Next]_vars PROVE AnswersRequests'
  <2>1. CASE UNCHANGED vars
    BY <1>2, <2>1 DEF vars, AnswersRequests, IsArpRequest, IsEchoRequest
  <2>2. CASE Next
    <3>1. PICK f \in Frames : ether_process_frame(f) /\ last' = f
      BY <2>2 DEF Next, Process
    <3>2. IsArpRequest(f) \/ IsEchoRequest(f) <=> outcome' # "none"
      BY <3>1, Processed, ReplyOutcome DEF Ignore
    <3>3. (IsArpRequest(last) \/ IsEchoRequest(last))' <=> outcome' # "none"
      BY <3>1, <3>2 DEF IsArpRequest, IsEchoRequest
    <3> QED
      BY <3>3 DEF AnswersRequests
  <2> QED
    BY <1>2, <2>1, <2>2
<1> QED
  BY <1>1, <1>2, PTL DEF Spec

-----------------------------------------------------------------------------
(* Replies *)

(* Every reply is built in a clean buffer, and is given to the card as it  *)
(* was built. *)
LEMMA ReplySent ==
  ASSUME BufferInv, NEW frame, NEW len, Reply(frame, len), outcome' = "sent"
  PROVE  Contents = Zero /\ wire' = [frame |-> frame, len |-> len]
<1> DEFINE s == Refilled(stock)
           t == Take(s, frame)
           end == s.pools * PoolSize
<1>1. s.head # 0 /\ wire' = [frame |-> t.mem[s.head], len |-> len]
  BY DEF Reply
<1>2. Rest(s, refused)
  BY RefillKeeps DEF BufferInv
<1>3. Contents = s.mem[s.head]
  BY <1>1 DEF Contents
<1> HIDE DEF s
<1>4. /\ s = [head |-> s.head, link |-> s.link, mem |-> s.mem, pools |-> s.pools]
      /\ s.pools \in 0..MaxPools /\ DOMAIN s.mem = Ids /\ s.head \in 1..end
      /\ \A b \in s.head..end : s.mem[b] = Zero
  BY <1>1, <1>2 DEF Rest
<1>5. end \in Nat /\ end <= PoolSize * MaxPools
  BY <1>4, PoolBounds
<1>6. s.head \in s.head..end /\ s.head \in Ids
  BY <1>4, <1>5, BufferAssumption DEF Ids
<1>7. t.mem = [s.mem EXCEPT ![s.head] = frame]
  <2>1. t = [head  |-> s.link[s.head], link |-> [s.link EXCEPT ![s.head] = Trash],
             mem   |-> [s.mem EXCEPT ![s.head] = frame], pools |-> s.pools]
    BY <1>4, TakeOf
  <2> QED
    BY <2>1
<1>8. t.mem[s.head] = frame
  BY <1>4, <1>6, <1>7
<1> QED
  BY <1>1, <1>3, <1>4, <1>6, <1>8

Data == Seq(Word16)

Sized(x, n) == x \in Data /\ Len(x) = n

LEMMA DataWords ==
  ASSUME NEW x \in Data
  PROVE  Len(x) \in Nat /\ \A k \in 1..Len(x) : x[k] \in Word16
BY DEF Data

LEMMA Associative ==
  ASSUME NEW x \in Data, NEW y \in Data, NEW z \in Data
  PROVE  (x \o y) \o z = x \o (y \o z)
BY DEF Data

LEMMA Joined ==
  ASSUME NEW x \in Data, NEW y \in Data
  PROVE  /\ x \o y \in Data /\ Len(x \o y) = Len(x) + Len(y)
         /\ \A k \in 1..Len(x) : (x \o y)[k] = x[k]
         /\ \A k \in 1..Len(y) : (x \o y)[Len(x) + k] = y[k]
<1>1. x \o y \in Data /\ Len(x \o y) = Len(x) + Len(y)
  BY DEF Data
<1>2. \A k \in 1..Len(x) : (x \o y)[k] = x[k]
  BY DEF Data
<1>3. \A k \in 1..Len(y) : (x \o y)[Len(x) + k] = y[k]
  BY DEF Data
<1> QED
  BY <1>1, <1>2, <1>3

(* A part of a sequence that is word for word another one. *)
LEMMA Part ==
  ASSUME NEW s \in Data, NEW p \in Data, NEW from \in Nat, NEW to \in Nat,
         1 <= from, from <= to, to <= Len(s), Len(p) = to - from + 1,
         \A k \in 1..Len(p) : s[from + k - 1] = p[k]
  PROVE  SubSeq(s, from, to) = p
<1> DEFINE q == SubSeq(s, from, to)
<1>1. q \in Data /\ Len(q) = Len(p)
  BY DEF Data
<1>2. \A k \in 1..Len(p) : q[k] = s[from + k - 1]
  BY DEF Data
<1> HIDE DEF q
<1>3. \A k \in 1..Len(p) : q[k] = p[k]
  BY <1>2
<1>4. q = p
  BY <1>1, <1>3 DEF Data
<1> QED
  BY <1>4 DEF q

LEMMA Pair ==
  ASSUME NEW s \in Data, Len(s) >= 9
  PROVE  SubSeq(s, 8, 9) \in Data /\ Len(SubSeq(s, 8, 9)) = 2
BY DEF Data

Grouped(pre, h, i, s, d) ==
  \E r, from \in Data :
     /\ r = h \o i \o s \o d /\ from = pre \o h \o i \o s \o d
     /\ Len(r) = 10 /\ Len(from) = 14
     /\ \A k \in 1..4 : from[k] = pre[k]
     /\ \A k \in 1..10 : from[4 + k] = r[k]

LEMMA Five ==
  ASSUME NEW pre, NEW h, NEW i, NEW s, NEW d,
         Sized(pre, 4), Sized(h, 3), Sized(i, 2), Sized(s, 3), Sized(d, 2)
  PROVE  Grouped(pre, h, i, s, d)
<1> pre \in Data /\ h \in Data /\ i \in Data /\ s \in Data /\ d \in Data
  BY DEF Sized
<1> Len(pre) = 4 /\ Len(h) = 3 /\ Len(i) = 2 /\ Len(s) = 3 /\ Len(d) = 2
  BY DEF Sized
<1>9. \A x, y \in Data : (pre \o x) \o y = pre \o (x \o y)
  BY Associative, Zenon
<1>1. PICK u : u \in Data /\ u = h \o i /\ Len(u) = Len(h) + Len(i) /\ (pre \o h) \o i = pre \o u
  <2>1. h \o i \in Data /\ Len(h \o i) = Len(h) + Len(i)
    BY Joined, Zenon
  <2>2. (pre \o h) \o i = pre \o (h \o i)
    BY Associative, Zenon
  <2> QED
    BY <2>1, <2>2, Zenon
<1>2. PICK v : v \in Data /\ v = u \o s /\ Len(v) = Len(u) + Len(s) /\ (pre \o u) \o s = pre \o v
  <2>1. u \o s \in Data /\ Len(u \o s) = Len(u) + Len(s)
    BY <1>1, Joined, Zenon
  <2>2. (pre \o u) \o s = pre \o (u \o s)
    <3>1. u \in Data
      BY <1>1
    <3> QED
      BY ONLY s \in Data, <1>9, <3>1
  <2> QED
    BY <2>1, <2>2, Zenon
<1>3. PICK r : r \in Data /\ r = v \o d /\ Len(r) = Len(v) + Len(d) /\ (pre \o v) \o d = pre \o r
  <2>1. v \o d \in Data /\ Len(v \o d) = Len(v) + Len(d)
    BY <1>2, Joined, Zenon
  <2>2. (pre \o v) \o d = pre \o (v \o d)
    <3>1. v \in Data
      BY <1>2
    <3> QED
      BY ONLY d \in Data, <1>9, <3>1
  <2> QED
    BY <2>1, <2>2, Zenon
<1>4. Len(r) = 10
  BY <1>1, <1>2, <1>3
<1> DEFINE from == pre \o r
<1>5. /\ from \in Data /\ Len(from) = Len(pre) + Len(r)
      /\ \A k \in 1..Len(pre) : from[k] = pre[k]
      /\ \A k \in 1..Len(r) : from[Len(pre) + k] = r[k]
  BY <1>3, Joined, Zenon
<1> HIDE DEF from
<1>6. /\ Len(from) = 14
      /\ \A k \in 1..4 : from[k] = pre[k]
      /\ \A k \in 1..10 : from[4 + k] = r[k]
  <2>1. Len(from) = 4 + 10
    BY <1>4, <1>5, Zenon
  <2>2. \A k \in 1..4 : from[k] = pre[k]
    BY <1>5, Zenon
  <2>3. \A k \in 1..10 : from[4 + k] = r[k]
    BY <1>4, <1>5, Zenon
  <2> QED
    BY <2>1, <2>2, <2>3
<1>7. pre \o h \o i \o s \o d = from
  BY <1>1, <1>2, <1>3, Zenon DEF from
<1>8. h \o i \o s \o d = r
  BY <1>1, <1>2, <1>3, Zenon
<1> QED
  BY <1>3, <1>4, <1>5, <1>6, <1>7, <1>8, Zenon DEF Grouped

(* The 14 words of an ARP reply in a clean buffer. *)
LEMMA ArpReply ==
  ASSUME NEW f \in Frames, IsArpRequest(f)
  PROVE  ArpAnswer(f, [frame |-> arp_reply(f, Zero), len |-> 42])
<1> DEFINE w == f.body
           i == Sub(w, 13, 2)
           d == Sub(w, 8, 2)
<1>1. /\ Words \in Nat /\ 23 <= Words /\ Len(w) = Words /\ w \in Data
  BY FrameWords DEF Data
<1>2. /\ HwAddr \in Data /\ Len(HwAddr) = 3 /\ IpAddr \in Data /\ Len(IpAddr) = 2
      /\ f.src \in Data /\ Len(f.src) = 3
  BY FrameAssumption DEF Data
<1>3. i = IpAddr
  BY DEF IsArpRequest
<1>4. d \in Data /\ Len(d) = 2
  <2> HIDE DEF w
  <2>1. Sub(w, 8, 2) = SubSeq(w, 8, 9) /\ Len(w) >= 9
    BY <1>1 DEF Sub
  <2> QED
    BY <1>1, <2>1, Pair
<1>5. <<htons(1), htons(\h0800), Word(6, 4), htons(2)>>
        = <<Word(0, 1), Word(8, 0), Word(6, 4), Word(0, 2)>>
  <2>1. 1 = Word(1, 0) /\ \h0800 = Word(0, 8) /\ 2 = Word(2, 0)
    BY DEF Word
  <2>2. /\ htons(Word(1, 0)) = Word(0, 1) /\ htons(Word(0, 8)) = Word(8, 0)
        /\ htons(Word(2, 0)) = Word(0, 2)
    BY WordIs
  <2> QED
    BY <2>1, <2>2
<1>6. PICK pre \in Data : /\ pre = <<Word(0, 1), Word(8, 0), Word(6, 4), Word(0, 2)>>
                               /\ Len(pre) = 4
  <2>1. /\ Word(0, 1) \in Word16 /\ Word(8, 0) \in Word16 /\ Word(6, 4) \in Word16
        /\ Word(0, 2) \in Word16
    BY DEF Word, Word16
  <2> DEFINE e == <<Word(0, 1), Word(8, 0), Word(6, 4), Word(0, 2)>>
  <2>2. e \in Data /\ Len(e) = 4
    BY <2>1 DEF Data
  <2> QED
    BY <2>2, Zenon
<1>7. PICK r \in Data, from \in Data :
        /\ r = HwAddr \o IpAddr \o f.src \o d /\ from = pre \o HwAddr \o i \o f.src \o d
        /\ Len(r) = 10 /\ Len(from) = 14
        /\ \A k \in 1..4 : from[k] = pre[k]
        /\ \A k \in 1..10 : from[4 + k] = r[k]
  <2>1. Sized(pre, 4) /\ Sized(HwAddr, 3) /\ Sized(IpAddr, 2) /\ Sized(f.src, 3) /\ Sized(d, 2)
    BY <1>2, <1>4, <1>6 DEF Sized
  <2>2. Grouped(pre, HwAddr, IpAddr, f.src, d)
    BY ONLY <2>1, Five
  <2> QED
    BY <1>3, <2>2, Zenon DEF Grouped
<1> HIDE DEF d, i, w
<1> DEFINE b == Put(Zero.body, 1, from)
<1>9. b = [k \in 1..Words |-> IF k \in 1..14 THEN from[k] ELSE 0]
  <2>1. Zero.body = [k \in 1..Words |-> 0]
    BY DEF Zero, Filled
  <2>2. (2 * 14) \div 2 = 14 /\ (2 * 14) % 2 = 0 /\ 1 - 1 = 0 /\ 0 + 1 = 1 /\ 0 + 14 = 14
    OBVIOUS
  <2>3. b = Copy(Zero.body, 0, from, 2 * 14)
    BY <1>7, <2>2 DEF Put
  <2>4. Copy(Zero.body, 0, from, 2 * 14) = [k \in 1..Words |-> IF k \in 1..14 THEN from[k - 0] ELSE 0]
    BY <2>1, <2>2 DEF Copy
  <2>5. \A k \in 1..14 : k - 0 = k
    OBVIOUS
  <2> QED
    BY <2>3, <2>4, <2>5
<1> HIDE DEF b
<1>10. b \in Data /\ Len(b) = Words /\ \A k \in 1..14 : b[k] = from[k]
  <2>1. 0 \in Word16
    BY DEF Word16
  <2>2. \A k \in 1..14 : from[k] \in Word16
    BY <1>7, DataWords
  <2>3. \A k \in 1..Words : b[k] \in Word16
    BY <1>9, <2>1, <2>2
  <2>4. b \in Data /\ Len(b) = Words
    BY <1>1, <1>9, <2>3 DEF Data
  <2>5. \A k \in 1..14 : k \in 1..Words
    BY <1>1
  <2> QED
    BY <1>9, <2>4, <2>5
<1>11. SubSeq(b, 1, 4) = pre
  <2>1. \A k \in 1..Len(pre) : b[1 + k - 1] = pre[k]
    <3>1. \A k \in 1..4 : 1 + k - 1 = k /\ k \in 1..14
      OBVIOUS
    <3> QED
      BY <1>6, <1>7, <1>10, <3>1
  <2>2. 1 \in Nat /\ 4 \in Nat /\ 1 <= 1 /\ 1 <= 4 /\ 4 <= Len(b) /\ Len(pre) = 4 - 1 + 1
    BY <1>1, <1>6, <1>10
  <2> QED
    BY <1>6, <1>10, <2>1, <2>2, Part
<1>12. SubSeq(b, 5, 14) = r
  <2>1. \A k \in 1..Len(r) : b[5 + k - 1] = r[k]
    <3>1. \A k \in 1..10 : 5 + k - 1 = 4 + k /\ 4 + k \in 1..14
      OBVIOUS
    <3> QED
      <4>1. Len(r) = 10 /\ \A k \in 1..10 : from[4 + k] = r[k]
        BY <1>7
      <4>2. \A k \in 1..14 : b[k] = from[k]
        BY <1>10
      <4>3. \A k \in 1..10 : b[4 + k] = r[k]
        BY ONLY <3>1, <4>1, <4>2
      <4> QED
        BY ONLY <3>1, <4>1, <4>3
  <2>2. 5 \in Nat /\ 14 \in Nat /\ 1 <= 5 /\ 5 <= 14 /\ 14 <= Len(b) /\ Len(r) = 14 - 5 + 1
    <3>1. Len(b) = Words /\ Len(r) = 10
      BY <1>7, <1>10, Zenon
    <3>2. Words \in Nat /\ Words >= 14
      BY <1>1
    <3> QED
      BY ONLY <3>1, <3>2
  <2> QED
    <3>1. b \in Data
      BY <1>10
    <3> QED
      BY ONLY r \in Data, <3>1, <2>1, <2>2, Part
<1>13. pre = [SubSeq(w, 1, 4) EXCEPT ![4] = Word(0, 2)]
  <2>1. SubSeq(w, 1, 4) = <<Word(0, 1), Word(8, 0), Word(6, 4), Word(0, 1)>>
    BY DEF IsArpRequest, w
  <2> QED
    BY <1>6, <2>1
<1>14. htons(\h0806) = f.type
  <2>1. \h0806 = Word(6, 8) /\ htons(Word(6, 8)) = Word(8, 6)
    <3>1. htons(Word(6, 8)) = Word(8, 6)
      BY WordIs
    <3> QED
      BY <3>1 DEF Word
  <2> QED
    BY <2>1 DEF IsArpRequest
<1>15. arp_reply(f, Zero) = [dest |-> f.src, src |-> HwAddr, type |-> f.type, body |-> b]
  <2>1. pre = <<htons(1), htons(\h0800), Word(6, 4), htons(2)>>
    BY <1>5, <1>6
  <2>2. from = pre \o HwAddr \o Sub(f.body, 13, 2) \o f.src \o Sub(f.body, 8, 2)
    BY <1>7 DEF i, d, w
  <2>3. b = Put(Zero.body, 1, <<htons(1), htons(\h0800), Word(6, 4), htons(2)>> \o HwAddr
                               \o Sub(f.body, 13, 2) \o f.src \o Sub(f.body, 8, 2))
    BY <2>1, <2>2 DEF b
  <2> QED
    BY ONLY <1>14, <2>3 DEF arp_reply
<1>16. Sub(f.body, 8, 2) = d /\ SubSeq(f.body, 1, 4) = SubSeq(w, 1, 4)
  BY DEF d, w
<1>17. HwAddr \o IpAddr \o f.src \o d = r
  BY <1>7
<1> DEFINE fr == arp_reply(f, Zero)
<1>18. fr.dest = f.src /\ fr.src = HwAddr /\ fr.type = f.type /\ fr.body = b
  BY <1>15
<1> HIDE DEF fr
<1> DEFINE e == [frame |-> fr, len |-> 42]
<1>19. e.frame = fr /\ e.len = 42
  OBVIOUS
<1> HIDE DEF e
<1>20. ArpAnswer(f, e)
  BY <1>11, <1>12, <1>13, <1>16, <1>17, <1>18, <1>19 DEF ArpAnswer
<1> QED
  BY <1>20 DEF e, fr

(* One word of a buffer is overwritten. *)
LEMMA StoredWords ==
  ASSUME NEW x \in Data, NEW j \in 1..Len(x), NEW w \in Word16
  PROVE  /\ Stored(x, j, w) \in Data /\ Len(Stored(x, j, w)) = Len(x) /\ Stored(x, j, w)[j] = w
         /\ \A k \in 1..Len(x) : k # j => Stored(x, j, w)[k] = x[k]
<1>1. Len(x) \in Nat /\ DOMAIN x = 1..Len(x) /\ \A k \in 1..Len(x) : x[k] \in Word16
  BY DEF Data
<1> DEFINE y == Stored(x, j, w)
<1>2. y = [k \in 1..Len(x) |-> IF k = j THEN w ELSE x[k]]
  BY <1>1 DEF Stored
<1> HIDE DEF y
<1>3. \A k \in 1..Len(x) : y[k] \in Word16
  BY <1>1, <1>2
<1>4. y \in Data /\ Len(y) = Len(x)
  BY <1>1, <1>2, <1>3 DEF Data
<1>5. y[j] = w /\ \A k \in 1..Len(x) : k # j => y[k] = x[k]
  BY <1>2
<1> QED
  BY <1>4, <1>5 DEF y

(* A buffer whose checksum field was zero verifies when the checksum is   *)
(* stored there. *)
LEMMA ChecksumVerifies ==
  ASSUME NEW x \in Data, NEW len \in Nat, len <= 2 * Len(x),
         NEW j \in 1..len \div 2, x[j] = 0
  PROVE  /\ ip_cksum(0, x, len) \in Word16
         /\ Verifies(Stored(x, j, ip_cksum(0, x, len)), len)
<1> DEFINE n == len \div 2
           c == ip_cksum(0, x, len)
           t == Total(0, x, len)
           y == Stored(x, j, c)
<1>1. /\ Len(x) \in Nat /\ \A k \in 1..Len(x) : x[k] \in Nat
  <2>1. Len(x) \in Nat /\ \A k \in 1..Len(x) : x[k] \in Word16
    BY DataWords
  <2> QED
    BY <2>1, Sixteen
<1>2. n \in Nat /\ n <= Len(x) /\ (len % 2 = 1 => n + 1 <= Len(x)) /\ j \in 1..n
  BY <1>1
<1>3. (len % 2 = 1 => x[n + 1] \in Nat) /\ \A k \in 1..n : x[k] \in Nat
  BY <1>1, <1>2
<1>4. t \in Nat
  <2>1. More(n, x, x, j, 0)
    <3> HIDE DEF n
    <3> QED BY <1>3 DEF More
  <2>2. 0 \in Nat /\ (len % 2 = 1 => x[n + 1] \in Nat /\ Lo(x[n + 1]) = Lo(x[n + 1]))
    BY <1>3
  <2> QED
    BY <2>1, <2>2, TotalStored
<1>5. c \in Nat /\ c < 65536 /\ t + c # 0 /\ (t + c) % 65535 = 0
  <2>1. c = 65535 - carry[t]
    BY DEF ip_cksum
  <2> HIDE DEF t, c
  <2> QED
    BY <1>4, <2>1, Completes
<1>6. c \in Word16
  <2> HIDE DEF c
  <2> QED BY <1>5 DEF Word16
<1> HIDE DEF c
<1>7. j \in 1..Len(x)
  BY <1>1, <1>2
<1>8. y[j] = c /\ \A k \in 1..Len(x) : k # j => y[k] = x[k]
  BY <1>6, <1>7, StoredWords
<1> HIDE DEF y
<1>9. More(n, x, y, j, c)
  <2> HIDE DEF n
  <2>1. ASSUME NEW k \in 1..n PROVE x[k] \in Nat /\ y[k] = x[k] + (IF k = j THEN c ELSE 0)
    <3>1. x[k] \in Nat /\ k \in 1..Len(x)
      BY <1>1, <1>2, <1>3
    <3> QED
      BY <1>5, <1>8, <3>1
  <2> QED
    BY <2>1 DEF More
<1>10. len % 2 = 1 => x[n + 1] \in Nat /\ Lo(y[n + 1]) = Lo(x[n + 1])
  <2> HIDE DEF n
  <2> SUFFICES ASSUME len % 2 = 1 PROVE x[n + 1] \in Nat /\ Lo(y[n + 1]) = Lo(x[n + 1])
    OBVIOUS
  <2>1. n + 1 # j /\ n + 1 \in 1..Len(x)
    BY <1>1, <1>2
  <2> QED
    BY <1>3, <1>8, <2>1
<1>11. Total(0, y, len) = t + c
  <2>1. c \in Nat
    BY <1>5
  <2>2. Total(0, y, len) = Total(0, x, len) + c
    BY ONLY len \in Nat, j \in 1..len \div 2, <2>1, <1>9, <1>10, TotalStored
  <2> QED
    BY <2>2
<1> HIDE DEF t
<1>12. Verifies(y, len)
  BY <1>5, <1>11 DEF Verifies
<1> QED
  BY <1>6, <1>12 DEF c, y


LEMMA CleanWords ==
  ASSUME Words \in Nat, 23 <= Words
  PROVE  /\ Zero.body = [k \in 1..Words |-> 0]
         /\ SubSeq(Zero.body, 11, Words) = [k \in 1..Words - 10 |-> 0]
<1>1. Zero.body = [k \in 1..Words |-> 0]
  BY DEF Zero, Filled
<1> DEFINE z == [k \in 1..Words |-> 0]
<1>2. z \in Seq(Nat) /\ Len(z) = Words
  OBVIOUS
<1>3. SubSeq(z, 11, Words) = [k \in 1..Words - 10 |-> 0]
  <2>1. /\ SubSeq(z, 11, Words) \in Seq(Nat) /\ Len(SubSeq(z, 11, Words)) = Words - 10
        /\ \A k \in 1..Words - 10 : SubSeq(z, 11, Words)[k] = z[k + 10]
    BY <1>2
  <2>2. \A k \in 1..Words - 10 : z[k + 10] = 0
    OBVIOUS
  <2> QED
    BY <2>1, <2>2
<1> QED
  BY <1>1, <1>3

(* The header of a reply, in a clean buffer. *)
LEMMA EchoHeader ==
  ASSUME NEW f \in Frames
  PROVE  LET H == ip_header(f, Zero.body, f.len - 20) IN
         /\ H \in Data /\ Len(H) = 10 /\ Verifies(H, 20)
         /\ H[1] = \h45 /\ ntohs(H[2]) = f.len /\ H[3] = f.body[3] /\ H[4] = 0
         /\ H[7] = f.body[9] /\ H[8] = f.body[10] /\ H[9] = f.body[7] /\ H[10] = f.body[8]
<1> DEFINE w == f.body
           H == ip_header(f, Zero.body, f.len - 20)
<1>1. /\ Words \in Nat /\ 23 <= Words /\ Words <= 993 /\ Len(w) = Words /\ w \in Data
      /\ f.len \in Nat /\ 46 <= f.len /\ f.len <= 2 * Words
  BY FrameWords DEF Data
<1>2. /\ w[3] \in Word16 /\ w[7] \in Word16 /\ w[8] \in Word16
      /\ w[9] \in Word16 /\ w[10] \in Word16
  <2> HIDE DEF w
  <2> QED BY <1>1, DataWords
<1>3. Zero.body[1] = 0 /\ Zero.body[4] = 0 /\ Zero.body[6] = 0
  BY <1>1, CleanWords
<1>4. Word(\h45, Hi(0)) = \h45 /\ \h45 \in Word16
  BY DEF Word, Hi, Word16
<1>5. /\ htons(20 + (f.len - 20)) \in Word16
      /\ ntohs(htons(20 + (f.len - 20))) = f.len
  <2>1. 20 + (f.len - 20) = f.len /\ f.len \in Nat /\ f.len < 65536
    BY <1>1
  <2>2. /\ Lo(f.len) \in Nat /\ Lo(f.len) < 256 /\ Hi(f.len) \in Nat /\ Hi(f.len) < 256
        /\ f.len = Word(Lo(f.len), Hi(f.len)) /\ htons(f.len) = Word(Hi(f.len), Lo(f.len))
    BY <2>1, Halves
  <2>3. /\ Word(Hi(f.len), Lo(f.len)) \in Nat /\ Word(Hi(f.len), Lo(f.len)) < 65536
        /\ htons(Word(Hi(f.len), Lo(f.len))) = Word(Lo(f.len), Hi(f.len))
    BY <2>2, WordIs
  <2>4. Word(Hi(f.len), Lo(f.len)) \in Word16
    BY <2>3 DEF Word16
  <2> QED
    <3>1. htons(f.len) \in Word16
      BY <2>2, <2>4
    <3>2. ntohs(htons(f.len)) = f.len
      <4>1. htons(htons(f.len)) = f.len
        BY ONLY <2>2, <2>3
      <4> QED
        BY <4>1 DEF ntohs
    <3> QED
      BY <2>1, <3>1, <3>2
<1>6. Word(64, 1) \in Word16 /\ 0 \in Word16
  BY DEF Word, Word16
<1> DEFINE two == htons(20 + (f.len - 20))
           e == <<\h45, two, w[3], 0, Word(64, 1), 0, w[9], w[10], w[7], w[8]>>
<1> HIDE DEF w, two
<1>7. PICK hdr \in Data :
        /\ Len(hdr) = 10 /\ hdr = e
        /\ hdr[1] = \h45 /\ hdr[2] = two /\ hdr[3] = w[3] /\ hdr[4] = 0 /\ hdr[6] = 0
        /\ hdr[7] = w[9] /\ hdr[8] = w[10] /\ hdr[9] = w[7] /\ hdr[10] = w[8]
  <2>1. two \in Word16
    BY <1>5 DEF two
  <2>2. e \in Data /\ Len(e) = 10
    BY <1>2, <1>4, <1>6, <2>1 DEF Data
  <2>3. /\ e[1] = \h45 /\ e[2] = two /\ e[3] = w[3] /\ e[4] = 0 /\ e[6] = 0
        /\ e[7] = w[9] /\ e[8] = w[10] /\ e[9] = w[7] /\ e[10] = w[8]
    OBVIOUS
  <2> HIDE DEF e
  <2> QED
    BY <2>2, <2>3
<1>8. H = Stored(hdr, 6, ip_cksum(0, hdr, 20))
  BY <1>3, <1>4, <1>7 DEF ip_header, two, w
<1> HIDE DEF H, e
<1>9. ip_cksum(0, hdr, 20) \in Word16 /\ Verifies(Stored(hdr, 6, ip_cksum(0, hdr, 20)), 20)
  <2>1. 20 \in Nat /\ 20 <= 2 * Len(hdr) /\ 6 \in 1..20 \div 2 /\ hdr[6] = 0
    BY <1>7
  <2> QED
    BY ONLY hdr \in Data, <2>1, ChecksumVerifies
<1>10. /\ H \in Data /\ Len(H) = 10
       /\ \A k \in 1..10 : k # 6 => H[k] = hdr[k]
  <2>1. 6 \in 1..Len(hdr)
    BY <1>7
  <2>2. /\ H \in Data /\ Len(H) = Len(hdr)
        /\ \A k \in 1..Len(hdr) : k # 6 => H[k] = hdr[k]
    BY ONLY hdr \in Data, <2>1, <1>8, <1>9, StoredWords
  <2> QED
    BY <1>7, <2>2
<1>11. /\ H[1] = \h45 /\ H[2] = two /\ H[3] = w[3] /\ H[4] = 0
       /\ H[7] = w[9] /\ H[8] = w[10] /\ H[9] = w[7] /\ H[10] = w[8]
  BY <1>7, <1>10
<1>12. Verifies(H, 20)
  BY <1>8, <1>9
<1>13. ntohs(H[2]) = f.len
  BY <1>5, <1>11 DEF two
<1> QED
  BY <1>10, <1>11, <1>12, <1>13 DEF H, w

Clean(z, n) == z = [k \in 1..n |-> 0]

IsReplyTo(M, icmp, len) ==
  /\ M \in Data /\ Len(M) = Len(icmp) /\ Verifies(M, len)
  /\ M[1] = icmp[1] - 8
  /\ \A k \in 3..len \div 2 : M[k] = icmp[k]
  /\ len % 2 = 1 => Lo(M[len \div 2 + 1]) = Lo(icmp[len \div 2 + 1])

(* The message of a reply, in a clean buffer: the request's with another   *)
(* type and checksum. *)
LEMMA EchoMessage ==
  ASSUME NEW z, NEW icmp \in Data, NEW len \in Nat, 26 <= len, len <= 2 * Len(icmp),
         Clean(z, Len(icmp)), Lo(icmp[1]) = 8
  PROVE  IsReplyTo(icmp_message(z, icmp, len), icmp, len)
<1> DEFINE n == len \div 2
           m == Len(icmp)
           copied == Copy(z, 0, icmp, len)
           one == Stored(copied, 2, 0)
           first == Word(0, Hi(copied[1]))
           cleared == Stored(one, 1, first)
           c == ip_cksum(0, cleared, len)
           M == icmp_message(z, icmp, len)
<1>1. m \in Nat /\ \A k \in 1..m : icmp[k] \in Word16 /\ icmp[k] \in Nat /\ icmp[k] < 65536
  <2>1. m \in Nat /\ \A k \in 1..m : icmp[k] \in Word16
    BY DataWords
  <2> QED
    BY <2>1, Sixteen
<1> HIDE DEF m
<1>2. n \in Nat /\ 13 <= n /\ n <= m /\ (len % 2 = 1 => n + 1 <= m)
  BY <1>1 DEF m
<1> DEFINE odd == len % 2 = 1
<1>3. copied = [k \in 1..m |-> IF k \in 1..n THEN icmp[k]
                               ELSE IF k = n + 1 /\ odd THEN Word(Lo(icmp[n + 1]), Hi(0)) ELSE 0]
  <2>1. z = [k \in 1..m |-> 0] /\ DOMAIN z = 1..m
    BY DEF m, Clean
  <2> HIDE DEF n, odd
  <2> DEFINE L(k) == IF k \in 0 + 1..0 + n THEN icmp[k - 0]
                     ELSE IF k = 0 + n + 1 /\ odd THEN Word(Lo(icmp[n + 1]), Hi(z[k])) ELSE z[k]
             G(k) == IF k \in 1..n THEN icmp[k]
                     ELSE IF k = n + 1 /\ odd THEN Word(Lo(icmp[n + 1]), Hi(0)) ELSE 0
  <2>2. copied = [k \in 1..m |-> L(k)]
    BY <2>1 DEF Copy, n, odd
  <2>3. ASSUME NEW k \in 1..m PROVE L(k) = G(k)
    <3>1. z[k] = 0 /\ k - 0 = k /\ 0 + 1 = 1 /\ 0 + n = n /\ 0 + n + 1 = n + 1
      BY <1>1, <1>2, <2>1
    <3> QED
      BY ONLY <3>1
  <2> HIDE DEF L, G
  <2>4. copied = [k \in 1..m |-> G(k)]
    BY <2>2, <2>3
  <2> QED
    BY <2>4 DEF G
<1> HIDE DEF copied, n
<1>4. odd => /\ Word(Lo(icmp[n + 1]), Hi(0)) \in Word16
             /\ Lo(Word(Lo(icmp[n + 1]), Hi(0))) = Lo(icmp[n + 1])
  <2> SUFFICES ASSUME odd
               PROVE  /\ Word(Lo(icmp[n + 1]), Hi(0)) \in Word16
                      /\ Lo(Word(Lo(icmp[n + 1]), Hi(0))) = Lo(icmp[n + 1])
    OBVIOUS
  <2>1. n + 1 \in 1..m
    BY <1>1, <1>2 DEF n
  <2>2. icmp[n + 1] \in Nat /\ icmp[n + 1] < 65536
    BY <1>1, <2>1
  <2> DEFINE x == icmp[n + 1]
  <2> HIDE DEF x
  <2>7. x \in Nat /\ x < 65536
    BY <2>2 DEF x
  <2>3. Lo(x) \in Nat /\ Lo(x) < 256
    BY ONLY <2>7, Halves
  <2>4. Hi(0) = 0
    BY DEF Hi
  <2>5. /\ Word(Lo(x), 0) \in Nat /\ Word(Lo(x), 0) < 65536 /\ Lo(Word(Lo(x), 0)) = Lo(x)
    BY <2>3, WordIs
  <2>6. Word(Lo(x), 0) \in Word16
    BY <2>5 DEF Word16
  <2> QED
    BY <2>4, <2>5, <2>6 DEF x
<1>5. /\ copied \in Data /\ Len(copied) = m /\ \A k \in 1..n : copied[k] = icmp[k]
      /\ odd => Lo(copied[n + 1]) = Lo(icmp[n + 1])
  <2>1. 0 \in Word16
    BY DEF Word16
  <2> HIDE DEF odd
  <2>2. \A k \in 1..m : copied[k] \in Word16
    BY <1>1, <1>3, <1>4, <2>1
  <2>3. copied \in Data /\ Len(copied) = m
    BY <1>1, <1>3, <2>2 DEF Data
  <2>4. \A k \in 1..n : copied[k] = icmp[k]
    BY <1>1, <1>2, <1>3
  <2>5. odd => copied[n + 1] = Word(Lo(icmp[n + 1]), Hi(0))
    BY <1>1, <1>2, <1>3 DEF odd, n
  <2> QED
    BY <1>4, <2>3, <2>4, <2>5
<1>6. first \in Word16 /\ first = icmp[1] - 8
  <2>1. 1 \in 1..n /\ 1 \in 1..m
    BY <1>1, <1>2
  <2>2. copied[1] = icmp[1] /\ icmp[1] \in Nat /\ icmp[1] < 65536
    BY <1>1, <1>5, <2>1
  <2> DEFINE x == icmp[1]
  <2> HIDE DEF x
  <2>7. x \in Nat /\ x < 65536 /\ Lo(x) = 8
    BY <2>2 DEF x
  <2>3. Hi(x) \in Nat /\ Hi(x) < 256 /\ x = Word(Lo(x), Hi(x)) /\ Lo(x) = 8
    BY <2>7, Halves
  <2>4. Word(0, Hi(x)) \in Nat /\ Word(0, Hi(x)) < 65536
    BY <2>3, WordIs
  <2>5. Word(0, Hi(x)) \in Word16
    BY <2>4 DEF Word16
  <2>6. Word(0, Hi(x)) = x - 8
    BY <2>3 DEF Word
  <2> QED
    BY <2>2, <2>5, <2>6 DEF x
<1> HIDE DEF first, one, cleared, c, M, odd
<1>7. /\ one \in Data /\ Len(one) = m /\ one[2] = 0
      /\ \A k \in 1..m : k # 2 => one[k] = copied[k]
  <2>1. copied \in Data /\ 2 \in 1..Len(copied) /\ 0 \in Word16
    BY <1>1, <1>2, <1>5 DEF Word16
  <2>2. /\ one \in Data /\ Len(one) = Len(copied) /\ one[2] = 0
        /\ \A k \in 1..Len(copied) : k # 2 => one[k] = copied[k]
    BY ONLY <2>1, StoredWords DEF one
  <2> QED
    BY <1>5, <2>2
<1>8. /\ cleared \in Data /\ Len(cleared) = m /\ cleared[1] = first /\ cleared[2] = 0
      /\ \A k \in 1..m : k # 1 /\ k # 2 => cleared[k] = copied[k]
  <2>1. one \in Data /\ 1 \in 1..Len(one) /\ first \in Word16
    BY <1>1, <1>2, <1>6, <1>7
  <2>2. /\ cleared \in Data /\ Len(cleared) = Len(one) /\ cleared[1] = first
        /\ \A k \in 1..Len(one) : k # 1 => cleared[k] = one[k]
    BY ONLY <2>1, StoredWords DEF cleared
  <2>3. 2 \in 1..m
    BY <1>1, <1>2
  <2> QED
    BY <1>7, <2>2, <2>3
<1>9. M = Stored(cleared, 2, c)
  BY DEF M, icmp_message, cleared, c, one, first, copied
<1>10. c \in Word16 /\ Verifies(M, len)
  <2>1. cleared \in Data /\ len <= 2 * Len(cleared) /\ 2 \in 1..len \div 2 /\ cleared[2] = 0
    BY <1>2, <1>8 DEF m, n
  <2>2. ip_cksum(0, cleared, len) \in Word16 /\ Verifies(Stored(cleared, 2, ip_cksum(0, cleared, len)), len)
    BY ONLY len \in Nat, <2>1, ChecksumVerifies
  <2> QED
    BY <1>9, <2>2 DEF c
<1>11. /\ M \in Data /\ Len(M) = m /\ \A k \in 1..m : k # 2 => M[k] = cleared[k]
  <2>1. cleared \in Data /\ 2 \in 1..Len(cleared) /\ c \in Word16
    BY <1>1, <1>2, <1>8, <1>10
  <2>2. /\ M \in Data /\ Len(M) = Len(cleared)
        /\ \A k \in 1..Len(cleared) : k # 2 => M[k] = cleared[k]
    BY ONLY <2>1, <1>9, StoredWords
  <2> QED
    BY <1>8, <2>2
<1>12. M[1] = icmp[1] - 8
  BY <1>1, <1>2, <1>6, <1>8, <1>11
<1>13. \A k \in 3..n : M[k] = icmp[k]
  BY <1>1, <1>2, <1>5, <1>8, <1>11
<1>14. odd => Lo(M[n + 1]) = Lo(icmp[n + 1])
  <2>1. odd => n + 1 \in 1..m /\ n + 1 # 1 /\ n + 1 # 2
    BY <1>1, <1>2 DEF odd
  <2>2. odd => M[n + 1] = copied[n + 1]
    BY <1>8, <1>11, <2>1
  <2> QED
    BY <1>5, <2>2
<1> QED
  BY <1>10, <1>11, <1>12, <1>13, <1>14 DEF M, m, n, odd, IsReplyTo

LEMMA Quarter ==
  ASSUME NEW s \in Data, Len(s) >= 10
  PROVE  LET p == Sub(s, 9, 2) \o Sub(s, 7, 2) IN
         /\ p \in Data /\ Len(p) = 4
         /\ p[1] = s[9] /\ p[2] = s[10] /\ p[3] = s[7] /\ p[4] = s[8]
<1>1. Sub(s, 9, 2) = SubSeq(s, 9, 10) /\ Sub(s, 7, 2) = SubSeq(s, 7, 8)
  BY DEF Sub
<1>2. PICK a \in Data : /\ a = SubSeq(s, 9, 10) /\ Len(a) = 2 /\ a[1] = s[9] /\ a[2] = s[10]
  <2> DEFINE q == SubSeq(s, 9, 10)
  <2>1. q \in Data /\ Len(q) = 2 /\ q[1] = s[9] /\ q[2] = s[10]
    BY DEF Data
  <2> QED
    BY <2>1, Zenon
<1>3. PICK b \in Data : /\ b = SubSeq(s, 7, 8) /\ Len(b) = 2 /\ b[1] = s[7] /\ b[2] = s[8]
  <2> DEFINE q == SubSeq(s, 7, 8)
  <2>1. q \in Data /\ Len(q) = 2 /\ q[1] = s[7] /\ q[2] = s[8]
    BY DEF Data
  <2> QED
    BY <2>1, Zenon
<1> DEFINE p == a \o b
<1>4. p \in Data /\ Len(p) = 4 /\ p[1] = a[1] /\ p[2] = a[2] /\ p[3] = b[1] /\ p[4] = b[2]
  BY <1>2, <1>3 DEF Data
<1>5. p = Sub(s, 9, 2) \o Sub(s, 7, 2)
  BY <1>1, <1>2, <1>3, Zenon
<1> HIDE DEF p
<1> QED
  BY <1>2, <1>3, <1>4, <1>5

(* Header and message together are the answer. *)
LEMMA EchoReply ==
  ASSUME NEW f \in Frames, IsEchoRequest(f)
  PROVE  EchoAnswer(f, [frame |-> icmp_reply(f, SubSeq(f.body, 11, Words), f.len - 20, Zero),
                        len   |-> f.len + 14])
<1> DEFINE w == f.body
           icmp == SubSeq(w, 11, Words)
           z == SubSeq(Zero.body, 11, Words)
           len == f.len - 20
           fr == icmp_reply(f, icmp, len, Zero)
           e == [frame |-> fr, len |-> f.len + 14]
<1>1. /\ Words \in Nat /\ 23 <= Words /\ Len(w) = Words /\ w \in Data
      /\ f.len \in Nat /\ 46 <= f.len /\ f.len <= 2 * Words
  BY FrameWords DEF Data
<1>2. f.type = Word(8, 0) /\ Lo(w[11]) = 8
  BY DEF IsEchoRequest
<1> HIDE DEF w
<1>3. icmp \in Data /\ Len(icmp) = Words - 10 /\ \A k \in 1..Words - 10 : icmp[k] = w[10 + k]
  BY <1>1 DEF Data
<1>4. PICK H \in Data :
         /\ H = ip_header(f, Zero.body, len) /\ Len(H) = 10 /\ Verifies(H, 20)
         /\ H[1] = \h45 /\ ntohs(H[2]) = f.len /\ H[3] = w[3] /\ H[4] = 0
         /\ H[7] = w[9] /\ H[8] = w[10] /\ H[9] = w[7] /\ H[10] = w[8]
  BY EchoHeader DEF w
<1> HIDE DEF icmp, z, len
<1>5. PICK M \in Data :
         /\ M = icmp_message(z, icmp, len) /\ Len(M) = Words - 10 /\ Verifies(M, len)
         /\ M[1] = icmp[1] - 8
         /\ \A k \in 3..len \div 2 : M[k] = icmp[k]
         /\ len % 2 = 1 => Lo(M[len \div 2 + 1]) = Lo(icmp[len \div 2 + 1])
  <2>1. icmp \in Data /\ len \in Nat /\ 26 <= len /\ len <= 2 * Len(icmp)
    BY <1>1, <1>3 DEF len
  <2>2. Clean(z, Len(icmp))
    BY <1>1, <1>3, CleanWords DEF z, Clean
  <2>3. Lo(icmp[1]) = 8
    BY <1>1, <1>2, <1>3
  <2>4. IsReplyTo(icmp_message(z, icmp, len), icmp, len)
    BY ONLY <2>1, <2>2, <2>3, EchoMessage
  <2>5. Len(icmp) = Words - 10
    BY <1>3
  <2> QED
    BY <2>4, <2>5, Zenon DEF IsReplyTo
<1>6. PICK b \in Data : /\ b = H \o M /\ Len(b) = Words
                        /\ \A k \in 1..10 : b[k] = H[k]
                        /\ \A k \in 1..Words - 10 : b[10 + k] = M[k]
  <2> DEFINE h == H \o M
  <2>1. /\ h \in Data /\ Len(h) = Len(H) + Len(M)
        /\ \A k \in 1..Len(H) : h[k] = H[k]
        /\ \A k \in 1..Len(M) : h[Len(H) + k] = M[k]
    BY Joined, Zenon
  <2> HIDE DEF h
  <2>2. Len(H) = 10 /\ Len(M) = Words - 10
    BY <1>4, <1>5
  <2>3. /\ Len(h) = Words
        /\ \A k \in 1..10 : h[k] = H[k]
        /\ \A k \in 1..Words - 10 : h[10 + k] = M[k]
    <3>1. Len(H) + Len(M) = Words
      BY ONLY <2>2, <1>1
    <3> QED
      BY <2>1, <2>2, <3>1, Zenon
  <2>4. h = H \o M
    BY DEF h
  <2> QED
    BY <2>1, <2>3, <2>4, Zenon
<1>7. SubSeq(b, 11, Words) = M
  <2>1. \A k \in 1..Len(M) : b[11 + k - 1] = M[k]
    <3>1. \A k \in 1..Words - 10 : 11 + k - 1 = 10 + k
      BY <1>1
    <3> QED
      BY <1>5, <1>6, <3>1
  <2>2. 11 \in Nat /\ Words \in Nat /\ 1 <= 11 /\ 11 <= Words /\ Words <= Len(b)
        /\ Len(M) = Words - 11 + 1
    BY <1>1, <1>5, <1>6
  <2> QED
    BY ONLY b \in Data, M \in Data, <2>1, <2>2, Part
<1>8. Sub(b, 7, 4) = Sub(w, 9, 2) \o Sub(w, 7, 2)
  <2>1. PICK p \in Data : /\ p = Sub(w, 9, 2) \o Sub(w, 7, 2) /\ Len(p) = 4
                          /\ p[1] = w[9] /\ p[2] = w[10] /\ p[3] = w[7] /\ p[4] = w[8]
    <3> DEFINE q == Sub(w, 9, 2) \o Sub(w, 7, 2)
    <3>1. w \in Data /\ Len(w) >= 10
      BY <1>1
    <3>2. /\ q \in Data /\ Len(q) = 4
          /\ q[1] = w[9] /\ q[2] = w[10] /\ q[3] = w[7] /\ q[4] = w[8]
      BY ONLY <3>1, Quarter
    <3> QED
      BY <3>2, Zenon
  <2>2. b[7] = p[1] /\ b[8] = p[2] /\ b[9] = p[3] /\ b[10] = p[4]
    <3>1. \A k \in 1..10 : b[k] = H[k]
      BY <1>6
    <3>2. H[7] = w[9] /\ H[8] = w[10] /\ H[9] = w[7] /\ H[10] = w[8]
      BY <1>4
    <3>3. p[1] = w[9] /\ p[2] = w[10] /\ p[3] = w[7] /\ p[4] = w[8]
      BY <2>1
    <3> QED
      BY ONLY <3>1, <3>2, <3>3
  <2>3. \A k \in 1..Len(p) : b[7 + k - 1] = p[k]
    <3>1. \A k \in 1..4 : k = 1 \/ k = 2 \/ k = 3 \/ k = 4
      OBVIOUS
    <3>2. Len(p) = 4
      BY <2>1
    <3> QED
      BY ONLY <2>2, <3>1, <3>2
  <2>4. 7 \in Nat /\ 10 \in Nat /\ 1 <= 7 /\ 7 <= 10 /\ 10 <= Len(b) /\ Len(p) = 10 - 7 + 1
    BY <1>1, <1>6, <2>1
  <2>5. SubSeq(b, 7, 10) = p
    BY ONLY b \in Data, p \in Data, <2>3, <2>4, Part
  <2>6. Sub(b, 7, 4) = SubSeq(b, 7, 10)
    BY DEF Sub
  <2> QED
    BY <2>1, <2>5, <2>6
<1>9. Verifies(b, 20)
  <2>1. 20 \div 2 = 10 /\ 20 % 2 = 0
    OBVIOUS
  <2>2. \A k \in 1..10 : H[k] \in Nat
    <3>1. \A k \in 1..10 : H[k] \in Word16
      BY <1>4, DataWords
    <3> QED
      BY <3>1, Sixteen
  <2>3. More(10, H, b, 1, 0)
    <3>1. \A k \in 1..10 : b[k] = H[k]
      BY <1>6
    <3>2. ASSUME NEW k \in 1..10 PROVE H[k] \in Nat /\ b[k] = H[k] + (IF k = 1 THEN 0 ELSE 0)
      BY ONLY <2>2, <3>1, k \in 1..10
    <3> QED
      BY <3>2, Zenon DEF More
  <2>4. 20 \in Nat /\ 1 \in 1..20 \div 2 /\ 0 \in Nat /\ More(20 \div 2, H, b, 1, 0) /\ 20 % 2 # 1
    BY <2>1, <2>3
  <2>5. Total(0, H, 20) \in Nat /\ Total(0, b, 20) = Total(0, H, 20) + 0
    BY ONLY <2>4, TotalStored
  <2>6. Total(0, b, 20) = Total(0, H, 20)
    BY <2>5
  <2> QED
    BY <1>4, <2>6 DEF Verifies
<1>10. b[1] = \h45 /\ b[3] = w[3] /\ b[4] = 0 /\ ntohs(b[2]) = f.len
  BY <1>4, <1>6, SMTT(30)
<1>11. b[11] = w[11] - 8
  <2>1. 1 \in 1..Words - 10 /\ 10 + 1 = 11
    BY <1>1
  <2> QED
    BY <1>3, <1>5, <1>6, <2>1
<1>12. /\ len \div 2 = f.len \div 2 - 10 /\ len % 2 = f.len % 2 /\ f.len \div 2 \in Nat
       /\ f.len \div 2 <= Words /\ (f.len % 2 = 1 => f.len \div 2 + 1 <= Words)
       /\ 23 <= f.len \div 2
  <2> DEFINE l == f.len
  <2>1. l \in Nat /\ 46 <= l /\ l <= 2 * Words /\ Words \in Nat
    BY <1>1
  <2> HIDE DEF l
  <2>2. l \div 2 \in Nat /\ l = 2 * (l \div 2) + (l % 2) /\ l % 2 \in 0..1
    BY <2>1
  <2>3. (l - 20) \div 2 = l \div 2 - 10 /\ (l - 20) % 2 = l % 2
    BY <2>1
  <2>4. l \div 2 <= Words /\ (l % 2 = 1 => l \div 2 + 1 <= Words) /\ 23 <= l \div 2
    BY <2>1, <2>2
  <2> QED
    BY <2>2, <2>3, <2>4 DEF len, l
<1> DEFINE n == f.len \div 2
<1> HIDE DEF n
<1>13. \A k \in 13..n : b[k] = w[k]
  <2> TAKE k \in 13..n
  <2>1. n \in Nat /\ n <= Words /\ len \div 2 = n - 10
    BY <1>12 DEF n
  <2>2. k - 10 \in 3..len \div 2 /\ k - 10 \in 1..Words - 10 /\ 10 + (k - 10) = k
    BY <1>1, <2>1
  <2>3. b[10 + (k - 10)] = M[k - 10] /\ M[k - 10] = icmp[k - 10] /\ icmp[k - 10] = w[10 + (k - 10)]
    BY <1>3, <1>5, <1>6, <2>2
  <2> QED
    BY <2>2, <2>3
<1>14. f.len % 2 = 1 => Lo(b[n + 1]) = Lo(w[n + 1])
  <2> SUFFICES ASSUME f.len % 2 = 1 PROVE Lo(b[n + 1]) = Lo(w[n + 1])
    OBVIOUS
  <2>1. n \in Nat /\ 23 <= n /\ n + 1 <= Words /\ len \div 2 = n - 10 /\ len % 2 = 1
    BY <1>12 DEF n
  <2>2. len \div 2 + 1 = n - 9 /\ n - 9 \in 1..Words - 10 /\ 10 + (n - 9) = n + 1
    BY <1>1, <2>1
  <2>3. b[10 + (n - 9)] = M[n - 9] /\ icmp[n - 9] = w[10 + (n - 9)]
    BY <1>3, <1>6, <2>2
  <2>4. Lo(M[n - 9]) = Lo(icmp[n - 9])
    BY <1>5, <2>1, <2>2
  <2> QED
    BY <2>2, <2>3, <2>4
<1>15. htons(\h0800) = f.type
  <2>1. htons(Word(0, 8)) = Word(8, 0)
    BY WordIs
  <2>2. \h0800 = Word(0, 8)
    BY DEF Word
  <2> QED
    BY <1>2, <2>1, <2>2
<1>16. fr.dest = f.src /\ fr.src = f.dest /\ fr.type = f.type /\ fr.body = b
  <2>1. b = ip_header(f, Zero.body, len) \o icmp_message(SubSeq(Zero.body, 11, Words), icmp, len)
    BY <1>4, <1>5, <1>6, Zenon DEF z
  <2>2. fr = [dest |-> f.src, src |-> f.dest, type |-> htons(\h0800), body |-> b]
    <3> DEFINE c == ip_header(f, Zero.body, len) \o icmp_message(SubSeq(Zero.body, 11, Words), icmp, len)
    <3>1. fr = [dest |-> f.src, src |-> f.dest, type |-> htons(\h0800), body |-> c]
      BY ONLY Zenon DEF icmp_reply, fr
    <3>2. b = c
      BY <2>1
    <3> HIDE DEF c, fr
    <3> QED
      BY ONLY <3>1, <3>2
  <2> HIDE DEF fr
  <2> QED
    BY ONLY <1>15, <2>2
<1> HIDE DEF fr
<1>17. e.frame = fr /\ e.len = f.len + 14
  OBVIOUS
<1> HIDE DEF e
<1>18. Verifies(SubSeq(b, 11, Words), f.len - 20)
  BY <1>5, <1>7 DEF len
<1>19. EchoAnswer(f, e)
  BY <1>8, <1>9, <1>10, <1>11, <1>13, <1>14, <1>16, <1>17, <1>18 DEF EchoAnswer, w, n
<1> QED
  BY <1>19 DEF e, fr, icmp, len, w

(* Every reply that reaches the card is the answer to the frame it was     *)
(* built from: the checksums that ip_cksum puts into header and message    *)
(* verify by their definition, for every payload and every length, and no  *)
(* word of an earlier reply is left in the buffer.                         *)
THEOREM RepliesRight == Spec => []ReplyRight
<1> DEFINE I == BufferInv /\ ReplyRight
<1>1. Init => I
  <2>1. Init => BufferInv
    BY BufferInit
  <2> QED
    BY <2>1 DEF Init, ReplyRight
<1>2. I /\ [Next]_vars => I'
  <2> SUFFICES ASSUME BufferInv, ReplyRight, [Next]_vars PROVE I'
    OBVIOUS
  <2>1. BufferInv'
    BY BufferStep
  <2>2. CASE UNCHANGED vars
    BY <2>1, <2>2 DEF vars, ReplyRight, IsArpRequest, ArpAnswer, EchoAnswer
  <2>3. CASE Next
    <3>1. PICK f \in Frames : ether_process_frame(f) /\ last' = f
      BY <2>3 DEF Next, Process
    <3>2. ASSUME outcome' = "sent"
          PROVE  IF IsArpRequest(f) THEN ArpAnswer(f, wire') ELSE EchoAnswer(f, wire')
      <4>1. ~Ignore
        BY <3>2 DEF Ignore
      <4>2. CASE IsArpRequest(f)
        <5>1. Reply(arp_reply(f, Contents), 42)
          BY <3>1, <4>1, <4>2, Processed
        <5>2. Contents = Zero /\ wire' = [frame |-> arp_reply(f, Contents), len |-> 42]
          BY <3>2, <5>1, ReplySent
        <5> QED
          BY <4>2, <5>2, ArpReply
      <4>3. CASE ~IsArpRequest(f)
        <5> DEFINE fr == icmp_reply(f, SubSeq(f.body, 11, Words), f.len - 20, Contents)
        <5>1. IsEchoRequest(f) /\ Reply(fr, f.len + 14)
          BY <3>1, <4>1, <4>3, Processed
        <5>2. Contents = Zero /\ wire' = [frame |-> fr, len |-> f.len + 14]
          <6> HIDE DEF fr
          <6> QED BY <3>2, <5>1, ReplySent
        <5> QED
          BY <4>3, <5>1, <5>2, EchoReply
      <4> QED
        BY <4>2, <4>3
    <3>3. ReplyRight'
      BY <3>1, <3>2 DEF ReplyRight, IsArpRequest, ArpAnswer, EchoAnswer
    <3> QED
      BY <2>1, <3>3
  <2> QED
    BY <2>2, <2>3
<1> QED
  BY <1>1, <1>2, PTL DEF Spec
=============================================================================
