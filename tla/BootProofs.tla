----------------------------- MODULE BootProofs -----------------------------
(***************************************************************************)
(* Proofs about Memory and about Boot, which starts it.                    *)
(*                                                                         *)
(* The heap: for every heap, every set of request sizes and all alignments *)
(* up to 16.  The inductive invariant says what the general list           *)
(* degenerates to: one free block that ends where the heap ends, behind    *)
(* everything handed out.                                                  *)
(*                                                                         *)
(* Boot: for every size of the page tables, every place of the kernel's    *)
(* window and of the tables, and whatever the boot loader hands over.  The *)
(* invariant says which words of the directory and of the tables are       *)
(* written at each place of boot.S.  The rest is arithmetic: the processor *)
(* and get_physaddr take an address apart and come upon those words.       *)
(***************************************************************************)
EXTENDS Boot, TLAPS

-----------------------------------------------------------------------------
(* The heap *)

(* The address in high_mem. *)
Top == free[1].addr

OneBlock ==
  /\ free = <<[addr |-> Top, size |-> HeapEnd - Top]>>
  /\ Top \in Nat /\ Top % 16 = 0
  /\ HeapStart <= Top /\ Top + 16 <= HeapEnd

NatBlocks == [addr : Nat, size : Nat]

Below(b, top) ==
  /\ b \in NatBlocks
  /\ b.addr % 16 = 0
  /\ HeapStart <= b.addr /\ b.addr + b.size <= top

LiveInv ==
  /\ live \in Seq(NatBlocks)
  /\ \A g \in 1..Len(live) : Below(live[g], Top)

LiveApart == \A g \in 1..Len(live) : \A j \in 1..g-1 : Apart(live[g], live[j])

RetInv == ret \in [request : 0..W-1, addr : 0..W-1]

(* The free block begins right behind the newest block in use... *)
Ends == {HeapStart} \cup {live[g].addr + live[g].size : g \in 1..Len(live)}
Packed == \E e \in Ends : Top - e <= 15

(* ...and a failed request would not have left room for a header in it. *)
FailInv == ret.request # 0 /\ ret.addr = 0 => HeapEnd - Top <= ret.request + 15

IInv == OneBlock /\ LiveInv /\ LiveApart /\ RetInv /\ Packed /\ FailInv

-----------------------------------------------------------------------------

(* A multiple of 16 is its own round_up, for every alignment up to 16.     *)
LEMMA RoundUpFixed ==
  ASSUME NEW x \in Nat, x + 16 <= W, x % 16 = 0, NEW al \in {1, 2, 4, 8, 16}
  PROVE  round_up(x, al) = x
<1> USE SpaceAssumption DEF round_up, Add
<1>1. CASE al = 1
  BY <1>1
<1>2. CASE al = 2
  BY <1>2
<1>3. CASE al = 4
  BY <1>3
<1>4. CASE al = 8
  BY <1>4
<1>5. CASE al = 16
  BY <1>5
<1> QED
  BY <1>1, <1>2, <1>3, <1>4, <1>5

(* Two multiples of 16 that differ do so by at least 16. *)
LEMMA MultiplesGap ==
  ASSUME NEW x \in Nat, NEW y \in Nat, x % 16 = 0, y % 16 = 0, y < x
  PROVE  x - y >= 16
OBVIOUS

(* Rounding to 16 gives the next multiple of 16.                           *)
LEMMA RoundUp16 ==
  ASSUME NEW n \in Nat, n + 16 <= W
  PROVE  /\ round_up(n, 16) \in Nat /\ round_up(n, 16) % 16 = 0
         /\ n <= round_up(n, 16) /\ round_up(n, 16) <= n + 15
BY SpaceAssumption DEF round_up, Add

(* init_mem starts the heap at a multiple of 16 behind the kernel.         *)
LEMMA HeapStartType ==
  /\ HeapStart \in Nat /\ HeapStart % 16 = 0
  /\ 0 < HeapStart /\ HeapStart + 16 <= HeapEnd
<1>1. KernelEnd \in Nat /\ KernelEnd + 16 <= W
  BY SpaceAssumption
<1>2. /\ HeapStart \in Nat /\ HeapStart % 16 = 0
      /\ KernelEnd <= HeapStart /\ HeapStart <= KernelEnd + 15
  BY <1>1, RoundUp16 DEF HeapStart
<1> QED
  BY <1>1, <1>2, SpaceAssumption

(* init_mem makes one free block of the whole heap.                        *)
LEMMA InitInv == init_mem => IInv
<1> SUFFICES ASSUME init_mem PROVE IInv
  OBVIOUS
<1>1. Sub(HeapEnd, HeapStart) = HeapEnd - HeapStart
  BY HeapStartType, SpaceAssumption DEF Sub
<1>2. OneBlock
  <2>1. free = <<[addr |-> HeapStart, size |-> HeapEnd - HeapStart]>>
    BY <1>1 DEF init_mem
  <2>2. Top = HeapStart
    BY <2>1 DEF Top
  <2> QED
    BY <2>1, <2>2, HeapStartType DEF OneBlock
<1>3. LiveInv /\ LiveApart /\ RetInv
  BY SpaceAssumption DEF init_mem, LiveInv, LiveApart, RetInv
<1>4. Packed /\ FailInv
  <2>1. Top = HeapStart
    BY DEF Top, init_mem
  <2> QED
    BY <2>1, HeapStartType DEF init_mem, Packed, Ends, FailInv
<1> QED
  BY <1>2, <1>3, <1>4 DEF IInv

(* A request that fits is cut off the front of the only free block.        *)
LEMMA AllocOkInv ==
  ASSUME IInv, NEW n \in Requests, NEW al \in Aligns, AllocOk(n, al)
  PROVE  IInv'
<1> DEFINE size == round_up(n, 16)
           blk  == [addr |-> Top, size |-> HeapEnd - Top]
           new  == [addr |-> Top + size, size |-> HeapEnd - (Top + size)]
<1>1. n \in Nat /\ 1 <= n /\ n + 16 <= W /\ al \in {1, 2, 4, 8, 16}
  BY RequestAssumption, SpaceAssumption
<1>2. size \in Nat /\ size % 16 = 0 /\ n <= size /\ size <= n + 15
  BY <1>1, RoundUp16
<1>3. /\ Len(free) = 1 /\ free[1] = blk
      /\ Top \in Nat /\ Top % 16 = 0 /\ HeapStart <= Top /\ Top + 16 <= HeapEnd
  BY DEF IInv, OneBlock
<1>4. Lost(blk, al) = 0
  <2>1. round_up(Top, al) = Top
    BY <1>1, <1>3, RoundUpFixed, SpaceAssumption
  <2>2. blk.addr = Top
    OBVIOUS
  <2> QED
    BY <1>3, <2>1, <2>2 DEF Lost, Sub
<1>5. AllocOk(n, al) <=>
        /\ \E k \in 1..1 : Fits(free[k], size, al)
        /\ LET r == Cut(FirstFit(size, al), size, al) IN
             /\ free' = r.list
             /\ live' = Append(live, [addr |-> r.addr, size |-> n])
             /\ ret' = [request |-> n, addr |-> r.addr]
  BY <1>3 DEF AllocOk
<1> HIDE DEF size
<1>6. Fits(free[1], size, al) /\ HeapEnd - Top > size
  <2>1. Fits(blk, size, al) /\ Fits(free[1], size, al)
    BY <1>3, <1>5
  <2>2. blk.size = HeapEnd - Top /\ HeapEnd - Top \in Nat
    BY <1>3, SpaceAssumption
  <2> QED
    BY <1>4, <2>1, <2>2 DEF Fits, Sub
<1>7. FirstFit(size, al) = 1
  BY <1>3, <1>6 DEF FirstFit
<1>8. Cut(1, size, al).list = <<new>> /\ Cut(1, size, al).addr = Top
  <2>1. Rest(blk, size) = new
    BY <1>2, <1>3, <1>6, SpaceAssumption DEF Rest, Add, Sub
  <2>2. SubSeq(free, 1 + 1, Len(free)) = <<>>
    BY <1>3
  <2>3. Cut(1, size, al) = [list |-> <<new>> \o <<>>, addr |-> blk.addr]
    BY <1>3, <1>4, <2>1, <2>2 DEF Cut
  <2> QED
    BY <2>3
<1>9. /\ free' = <<new>>
      /\ live' = Append(live, [addr |-> Top, size |-> n])
      /\ ret' = [request |-> n, addr |-> Top]
  BY <1>5, <1>7, <1>8
<1>10. /\ Top' = Top + size /\ Top' \in Nat /\ Top' % 16 = 0
       /\ Top' + 16 <= HeapEnd /\ HeapStart <= Top'
  <2>1. Top' = Top + size
    BY <1>9 DEF Top
  <2>2. Top + size \in Nat /\ (Top + size) % 16 = 0 /\ Top + size < HeapEnd
    BY <1>2, <1>3, <1>6, SpaceAssumption
  <2>3. HeapEnd - (Top + size) >= 16
    BY <2>2, MultiplesGap, SpaceAssumption
  <2> QED
    BY <1>2, <1>3, <2>1, <2>2, <2>3, HeapStartType, SpaceAssumption
<1>11. HeapStart' = HeapStart
  BY DEF HeapStart, round_up, Add
<1>12. OneBlock'
  BY <1>9, <1>10, <1>11 DEF OneBlock
<1>a. /\ live \in Seq(NatBlocks)
      /\ \A g \in 1..Len(live) : Below(live[g], Top)
  BY DEF IInv, LiveInv
<1>b. /\ live' \in Seq(NatBlocks) /\ Len(live') = Len(live) + 1
      /\ live'[Len(live) + 1] = [addr |-> Top, size |-> n]
      /\ \A g \in 1..Len(live) : live'[g] = live[g]
  <2>1. [addr |-> Top, size |-> n] \in NatBlocks
    BY <1>1, <1>3 DEF NatBlocks
  <2> QED
    BY <1>9, <1>a, <2>1
<1>13. LiveInv'
  <2>1. ASSUME NEW g \in 1..Len(live') PROVE Below(live'[g], Top + size)
    <3>1. CASE g = Len(live) + 1
      <4>1. Below([addr |-> Top, size |-> n], Top + size)
        BY <1>1, <1>2, <1>3 DEF Below, NatBlocks
      <4> QED
        BY <1>b, <3>1, <4>1
    <3>2. CASE g # Len(live) + 1
      <4>1. g \in 1..Len(live)
        BY <1>a, <1>b, <3>2
      <4>2. live'[g] = live[g] /\ Below(live[g], Top)
        BY <1>a, <1>b, <4>1
      <4> QED
        BY <1>2, <1>3, <4>2, SMTT(30) DEF Below, NatBlocks
    <3> QED
      BY <3>1, <3>2
  <2> QED
    BY <1>10, <1>11, <1>b, <2>1 DEF LiveInv, Below
<1>14. LiveApart'
  <2>1. ASSUME NEW g \in 1..Len(live'), NEW j \in 1..g-1 PROVE Apart(live'[g], live'[j])
    <3>1. CASE g = Len(live) + 1
      <4>1. j \in 1..Len(live)
        BY <1>a, <3>1
      <4>2. live'[j] = live[j] /\ Below(live[j], Top)
        BY <1>a, <1>b, <4>1
      <4> QED
        BY <1>b, <3>1, <4>2 DEF Below, NatBlocks, Apart
    <3>2. CASE g # Len(live) + 1
      <4>1. g \in 1..Len(live) /\ j \in 1..Len(live)
        BY <1>a, <1>b, <3>2
      <4> QED
        BY <1>b, <4>1 DEF IInv, LiveApart
    <3> QED
      BY <3>1, <3>2
  <2> QED
    BY <2>1 DEF LiveApart, Apart
<1>15. RetInv'
  <2>1. n \in 0..W-1 /\ Top \in 0..W-1
    BY <1>1, <1>3, SpaceAssumption
  <2> QED
    BY <1>9, <2>1 DEF RetInv
<1>16. Packed'
  <2>1. Top + n \in Ends'
    <3>1. Len(live) + 1 \in 1..Len(live')
      BY <1>a, <1>b
    <3>2. live'[Len(live) + 1].addr + live'[Len(live) + 1].size = Top + n
      BY <1>b
    <3> QED
      BY <3>1, <3>2 DEF Ends
  <2>2. Top' - (Top + n) <= 15
    BY <1>1, <1>2, <1>3, <1>10
  <2> QED
    BY <2>1, <2>2 DEF Packed
<1>17. FailInv'
  BY <1>3, <1>9, HeapStartType DEF FailInv
<1> QED
  BY <1>12, <1>13, <1>14, <1>15, <1>16, <1>17 DEF IInv

(* A call that returns 0 changes no block.                                 *)
LEMMA AllocFailsInv ==
  ASSUME IInv, NEW n \in Requests, NEW al \in Aligns, AllocFails(n, al)
  PROVE  IInv'
<1>1. free' = free /\ live' = live /\ ret' = [request |-> n, addr |-> 0]
  BY DEF AllocFails
<1>2. HeapStart' = HeapStart
  BY DEF HeapStart, round_up, Add
<1>3. OneBlock' /\ LiveInv' /\ LiveApart'
  BY <1>1, <1>2 DEF IInv, OneBlock, Top, LiveInv, Below, LiveApart, Apart
<1>4. RetInv'
  BY <1>1, RequestAssumption, SpaceAssumption DEF RetInv
<1>5. Packed'
  BY <1>1, <1>2 DEF IInv, Packed, Ends, Top
<1>6. FailInv'
  <2> DEFINE size == round_up(n, 16)
             blk  == [addr |-> Top, size |-> HeapEnd - Top]
  <2>1. n \in Nat /\ n + 16 <= W /\ al \in {1, 2, 4, 8, 16}
    BY RequestAssumption, SpaceAssumption
  <2>2. size \in Nat /\ size <= n + 15
    BY <2>1, RoundUp16
  <2>3. /\ Len(free) = 1 /\ free[1] = blk
        /\ Top \in Nat /\ Top % 16 = 0 /\ Top + 16 <= HeapEnd
    BY DEF IInv, OneBlock
  <2>4. Lost(blk, al) = 0
    <3>1. round_up(Top, al) = Top
      BY <2>1, <2>3, RoundUpFixed, SpaceAssumption
    <3>2. blk.addr = Top
      OBVIOUS
    <3> QED
      BY <2>3, <3>1, <3>2 DEF Lost, Sub
  <2>5. ~Fits(blk, size, al)
    BY <2>3 DEF AllocFails
  <2> HIDE DEF size
  <2>6. HeapEnd - Top <= size
    <3>1. blk.size = HeapEnd - Top /\ HeapEnd - Top \in Nat
      BY <2>3, SpaceAssumption
    <3> QED
      BY <2>2, <2>4, <2>5, <3>1 DEF Fits, Sub
  <2>7. Top' = Top
    BY <1>1 DEF Top
  <2> QED
    BY <1>1, <2>1, <2>2, <2>3, <2>6, <2>7, SpaceAssumption DEF FailInv
<1> QED
  BY <1>3, <1>4, <1>5, <1>6 DEF IInv

(* Every reachable heap is one free block behind all the blocks in use.    *)
THEOREM Invariance == Spec => []IInv
<1>1. ASSUME IInv, [Next]_memvars PROVE IInv'
  <2>1. CASE Next
    BY <1>1, <2>1, AllocOkInv, AllocFailsInv DEF Next, alloc
  <2>2. CASE UNCHANGED memvars
    <3>1. HeapStart' = HeapStart
      BY DEF HeapStart, round_up, Add
    <3> QED
      BY <1>1, <2>2, <3>1 DEF memvars, IInv, OneBlock, Top, LiveInv, Below, LiveApart, Apart, RetInv,
                                Packed, Ends, FailInv
  <2> QED
    BY <1>1, <2>1, <2>2
<1> QED
  BY <1>1, InitInv, PTL DEF Spec

(* Blocks handed out by alloc never overlap and never leave the heap.      *)
THEOREM Disjointness == Spec => []LiveDisjoint
<1>1. IInv => LiveDisjoint
  <2> SUFFICES ASSUME IInv, NEW g \in 1..Len(live)
               PROVE  /\ HeapStart <= live[g].addr /\ live[g].addr + live[g].size <= HeapEnd
                      /\ \A j \in 1..g-1 : Apart(live[g], live[j])
    BY DEF LiveDisjoint
  <2>1. Below(live[g], Top)
    BY DEF IInv, LiveInv
  <2>2. Top \in Nat /\ Top + 16 <= HeapEnd
    BY DEF IInv, OneBlock
  <2>3. HeapStart <= live[g].addr /\ live[g].addr + live[g].size <= HeapEnd
    BY <2>1, <2>2, SpaceAssumption DEF Below, NatBlocks
  <2> QED
    BY <2>3 DEF IInv, LiveApart
<1> QED
  BY <1>1, Invariance, PTL

(* The header alloc writes behind a block stays in the heap and out of     *)
(* every block handed out.                                                 *)
THEOREM HeaderSafety == Spec => []HeadersSafe
<1>1. IInv => HeadersSafe
  <2> SUFFICES ASSUME IInv PROVE HeadersSafe
    OBVIOUS
  <2> DEFINE hdr == [addr |-> Top, size |-> 8]
  <2>1. /\ Len(free) = 1 /\ free[1].addr = Top
        /\ Top \in Nat /\ HeapStart <= Top /\ Top + 16 <= HeapEnd
    BY DEF IInv, OneBlock
  <2>2. HeapStart <= hdr.addr /\ hdr.addr + hdr.size <= HeapEnd
    BY <2>1, SpaceAssumption
  <2>3. ASSUME NEW j \in 1..Len(live) PROVE Apart(live[j], hdr)
    BY DEF IInv, LiveInv, Below, Apart
  <2> QED
    BY <2>1, <2>2, <2>3 DEF HeadersSafe
<1> QED
  BY <1>1, Invariance, PTL

(* Every block is aligned to 16 bytes, whatever alignment was asked for.   *)
THEOREM Alignment == Spec => []LiveAligned
<1>1. IInv => LiveAligned
  BY DEF IInv, LiveInv, Below, LiveAligned
<1> QED
  BY <1>1, Invariance, PTL

(* alloc returns 0 only when the request and one more header no longer fit *)
(* behind the blocks in use: earlier calls leave no holes.                 *)
THEOREM FailsOnlyWhenFull == Spec => []NoEarlyFailure
<1>1. IInv => NoEarlyFailure
  <2> SUFFICES ASSUME IInv, ret.request # 0, ret.addr = 0
               PROVE  \E e \in Ends : HeapEnd - e <= ret.request + 30
    BY DEF NoEarlyFailure, Ends
  <2>1. PICK e \in Ends : Top - e <= 15
    BY DEF IInv, Packed
  <2>2. e \in Nat
    BY HeapStartType DEF Ends, IInv, LiveInv, Below, NatBlocks
  <2>3. HeapEnd - Top <= ret.request + 15 /\ Top \in Nat /\ ret.request \in Nat
    BY SpaceAssumption DEF IInv, FailInv, OneBlock, RetInv
  <2> QED
    BY <2>1, <2>2, <2>3, SpaceAssumption
<1> QED
  BY <1>1, Invariance, PTL

(* Addresses and sizes stay in the 32-bit range: no wrap-around happens.   *)
THEOREM TypeCorrect == Spec => []TypeOK
<1>1. IInv => TypeOK
  <2> SUFFICES ASSUME IInv PROVE TypeOK
    OBVIOUS
  <2>1. /\ free = <<[addr |-> Top, size |-> HeapEnd - Top]>>
        /\ Top \in Nat /\ Top + 16 <= HeapEnd
    BY DEF IInv, OneBlock
  <2>2. free \in Seq(Blocks)
    <3>1. [addr |-> Top, size |-> HeapEnd - Top] \in Blocks
      BY <2>1, SpaceAssumption DEF Blocks
    <3> QED
      BY <2>1, <3>1
  <2>3. live \in Seq(Blocks)
    <3>1. ASSUME NEW g \in 1..Len(live) PROVE live[g] \in Blocks
      <4>1. Below(live[g], Top)
        BY DEF IInv, LiveInv
      <4>2. /\ live[g].addr \in 0..W-1 /\ live[g].size \in 0..W-1
            /\ live[g] = [addr |-> live[g].addr, size |-> live[g].size]
        BY <2>1, <4>1, SpaceAssumption DEF Below, NatBlocks
      <4> QED
        BY <4>2 DEF Blocks
    <3> QED
      BY <3>1 DEF IInv, LiveInv
  <2> QED
    BY <2>2, <2>3 DEF TypeOK, IInv, RetInv
<1> QED
  BY <1>1, Invariance, PTL

-----------------------------------------------------------------------------
(* Boot and paging *)

(* The entries of a directory that boot.S writes. *)
Slots == {0, Window, Window + 1, Window + 2, E - 1}

Written(base, last) == \A e \in Slots : ram[base + e] = Entry(Windows(last)[e])
Blank(base)         == \A e \in 0..E-1 : e \notin Slots => ram[base + e] = 0

BootInv ==
  /\ info \in Infos
  /\ pc \in {"entry", "exit", "directory", "fill", "high", "paging", "main", "info"}
  /\ ram \in [0..6*E-1 -> Nat]
  /\ i \in 0..3*E
  /\ pc \in {"entry", "directory"} => i = 0
  /\ pc = "fill" => i < 3*E
  /\ pc \in {"high", "paging", "main", "info"} => i = 3*E
  /\ pc \in {"fill", "high", "paging", "main", "info"} =>
       /\ Written(E, High)
       /\ \A k \in 0..i-1 : ram[2*E + k] = Entry(k)
  /\ pc \in {"paging", "main", "info"} => Written(5*E, Directory)
  /\ pc \in {"main", "info"} => cr3 = Directory
  /\ Fit => Blank(E) /\ Blank(5*E)

-----------------------------------------------------------------------------
(* Arithmetic *)

LEMMA Sizes ==
  /\ E \in Nat /\ E >= 5 /\ Window \in Nat /\ 1 <= Window /\ Window <= E - 4
  /\ InfoFrame \in Nat /\ Page \in Nat /\ Page = 4 * E /\ Page >= 20
BY LayoutAssumption DEF Page

LEMMA DivMod ==
  ASSUME NEW m \in Nat \ {0}, NEW q \in Int, NEW r \in Int, 0 <= r, r < m
  PROVE  (q * m + r) \div m = q /\ (q * m + r) % m = r
<1>1. (q * m + r) \div m = q
  BY SMT
<1>2. (q * m + r) % m = r
  BY SMT
<1> QED
  BY <1>1, <1>2

LEMMA Divided ==
  ASSUME NEW m \in Nat \ {0}, NEW n \in Nat
  PROVE  /\ n \div m \in Nat /\ n % m \in 0..m-1
         /\ n = (n \div m) * m + (n % m)
<1>1. n \div m \in Nat
  BY SMT
<1>2. n % m \in 0..m-1
  BY SMT
<1>3. n = (n \div m) * m + (n % m)
  BY SMT
<1> QED
  BY <1>1, <1>2, <1>3

(* An address as directory entry, table entry and offset.                  *)
Address(d, t, off) == (d * E + t) * Page + off

LEMMA Split ==
  ASSUME NEW d \in Nat, NEW t \in 0..E-1, NEW off \in 0..Page-1
  PROVE  LET va == Address(d, t, off) IN
         /\ va \div (E * Page) = d
         /\ (va \div Page) % E = t
         /\ va % Page = off
<1> DEFINE va == Address(d, t, off)
           F == E * Page
           r == t * Page + off
<1>1. E \in Nat \ {0} /\ Page \in Nat \ {0} /\ d * E + t \in Int /\ F \in Nat \ {0}
  <2>1. E \in Nat \ {0} /\ Page \in Nat \ {0}
    BY Sizes
  <2> QED
    BY <2>1, SMT
<1>2. va \div Page = d * E + t /\ va % Page = off
  <2>1. va = (d * E + t) * Page + off
    BY DEF Address
  <2> HIDE DEF va
  <2> QED
    BY <1>1, <2>1, DivMod
<1>3. (d * E + t) % E = t
  BY <1>1, DivMod
<1>4. va = d * F + r /\ r \in Int /\ 0 <= r /\ r < F
  <2>1. (d * E + t) * Page = d * F + t * Page
    BY <1>1, SMT
  <2>2. t * Page \in Int /\ 0 <= t * Page /\ t * Page <= (E - 1) * Page
    BY <1>1, SMT
  <2>3. (E - 1) * Page = F - Page
    BY <1>1, SMT
  <2>4. d * F \in Int /\ (d * E + t) * Page \in Int
    BY <1>1, SMT
  <2> QED
    BY <1>1, <2>1, <2>2, <2>3, <2>4 DEF Address
<1>5. va \div F = d
  <2> HIDE DEF va, F, r
  <2> QED
    BY <1>1, <1>4, DivMod
<1> QED
  BY <1>2, <1>3, <1>5

(* Every page number has a directory entry and a table entry.              *)
LEMMA PageNumber ==
  ASSUME NEW n \in Nat
  PROVE  /\ n \div E \in Nat /\ n % E \in 0..E-1
         /\ n = (n \div E) * E + (n % E)
<1>1. E \in Nat \ {0}
  BY Sizes
<1> QED
  BY <1>1, Divided

(* An entry gives back the page it was made from.                          *)
LEMMA EntryParts ==
  ASSUME NEW f \in Nat
  PROVE  /\ Entry(f) \in Nat /\ Entry(f) \div Page = f /\ Entry(f) % 2 = 1
         /\ Entry(f) - (Entry(f) % Page) = f * Page
<1>1. Page \in Nat \ {0} /\ 3 < Page /\ f * Page \in Nat /\ E \in Nat /\ f * E \in Nat
  BY Sizes, SMT
<1>2. Entry(f) \in Nat /\ Entry(f) = f * Page + 3
  BY <1>1 DEF Entry
<1>3. (f * Page + 3) \div Page = f /\ (f * Page + 3) % Page = 3
  BY <1>1, DivMod
<1>4. f * Page + 3 = (2 * (f * E) + 1) * 2 + 1
  BY <1>1, Sizes, SMT
<1>5. ((2 * (f * E) + 1) * 2 + 1) % 2 = 1
  BY <1>1, DivMod
<1> QED
  BY <1>1, <1>2, <1>3, <1>4, <1>5

(* Where the tables are in ram.                                            *)
LEMMA Places ==
  /\ \A k \in Int : At(Directory, k) = E + k /\ At(High, k) = 5 * E + k
  /\ \A q \in 0..2, k \in Int : At(Table(q), k) = 2 * E + (q * E + k)
  /\ Directory \in Nat /\ High \in Nat /\ \A q \in 0..2 : Table(q) \in Nat
<1>1. E \in Int /\ InfoFrame \in Nat
  BY Sizes
<1>2. Directory - InfoFrame = 1 /\ High - InfoFrame = 5
  BY <1>1 DEF Directory, High
<1>3. \A k \in Int : At(Directory, k) = E + k /\ At(High, k) = 5 * E + k
  BY <1>1, <1>2 DEF At
<1>4. ASSUME NEW q \in 0..2, NEW k \in Int PROVE At(Table(q), k) = 2 * E + (q * E + k)
  <2>1. Table(q) - InfoFrame = 2 + q
    BY <1>1 DEF Table
  <2>2. (2 + q) * E = 2 * E + q * E /\ q * E \in Int
    BY <1>1
  <2> QED
    BY <1>1, <2>1, <2>2 DEF At
<1>5. Directory \in Nat /\ High \in Nat /\ \A q \in 0..2 : Table(q) \in Nat
  BY <1>1 DEF Directory, High, Table
<1> QED
  BY <1>3, <1>4, <1>5

LEMMA SlotsApart ==
  /\ Slots \subseteq 0..E-1
  /\ \A last : /\ Windows(last)[0] = Table(0)
               /\ \A q \in 0..2 : Windows(last)[Window + q] = Table(q)
               /\ Windows(last)[E - 1] = last
               /\ DOMAIN Windows(last) = Slots
<1>1. /\ 0 # Window /\ 0 # Window + 1 /\ 0 # Window + 2 /\ 0 # E - 1
      /\ Window # Window + 1 /\ Window # Window + 2 /\ Window + 1 # Window + 2
      /\ Window # E - 1 /\ Window + 1 # E - 1 /\ Window + 2 # E - 1 /\ Window + 0 = Window
  BY Sizes
<1>2. Slots \subseteq 0..E-1
  BY Sizes DEF Slots
<1>3. \A last : /\ Windows(last)[0] = Table(0) /\ Windows(last)[Window] = Table(0)
                /\ Windows(last)[Window + 1] = Table(1) /\ Windows(last)[Window + 2] = Table(2)
                /\ Windows(last)[E - 1] = last /\ DOMAIN Windows(last) = Slots
  BY <1>1 DEF Windows, Slots
<1>4. \A q \in 0..2 : q = 0 \/ q = 1 \/ q = 2
  OBVIOUS
<1> QED
  BY <1>1, <1>2, <1>3, <1>4
-----------------------------------------------------------------------------
(* boot.S *)

LEMMA BootInitInv == BootInit => BootInv
<1> SUFFICES ASSUME BootInit PROVE BootInv
  OBVIOUS
<1>1. /\ info \in Infos /\ pc = "entry" /\ i = 0 /\ ram = [k \in 0..6*E-1 |-> 0]
  BY DEF BootInit
<1>2. ram \in [0..6*E-1 -> Nat] /\ i \in 0..3*E
  BY <1>1, Sizes
<1>3. \A e \in 0..E-1 : ram[E + e] = 0 /\ ram[5*E + e] = 0
  BY <1>1, Sizes
<1> QED
  BY <1>1, <1>2, <1>3 DEF BootInv, Blank

(* What a Set leaves in a page of ram, and elsewhere.                      *)
LEMMA SetWords ==
  ASSUME ram \in [0..6*E-1 -> Nat], NEW last \in Nat,
         NEW frame, NEW base \in {E, 5*E}, At(frame, 0) = base,
         ram' = Set(frame, Windows(last))
  PROVE  /\ ram' \in [0..6*E-1 -> Nat]
         /\ \A e \in Slots : ram'[base + e] = Entry(Windows(last)[e])
         /\ \A k \in 0..6*E-1 : k - base \notin Slots => ram'[k] = ram[k]
<1>1. DOMAIN Windows(last) = Slots /\ Slots \subseteq 0..E-1
  BY SlotsApart
<1>2. ram' = [k \in 0..6*E-1 |->
                IF k - base \in Slots THEN Entry(Windows(last)[k - base]) ELSE ram[k]]
  BY <1>1 DEF Set
<1>3. \A e \in Slots : Entry(Windows(last)[e]) \in Nat
  <2>1. \A q \in 0..2 : Table(q) \in Nat
    BY Places
  <2>2. \A e \in Slots : Windows(last)[e] \in Nat
    BY <2>1 DEF Windows, Slots
  <2> QED
    BY <2>2, EntryParts
<1>4. E \in Nat /\ base \in Nat
  BY Sizes
<1>5. ASSUME NEW e \in Slots PROVE base + e \in 0..6*E-1 /\ (base + e) - base = e
  BY <1>1, <1>4, Sizes
<1> QED
  BY <1>2, <1>3, <1>4, <1>5

LEMMA BootStepInv == BootInv /\ [BootNext]_<<bootvars, memvars>> => BootInv'
<1> SUFFICES ASSUME BootInv, [BootNext]_<<bootvars, memvars>> PROVE BootInv'
  OBVIOUS
<1>1. ram \in [0..6*E-1 -> Nat] /\ i \in 0..3*E /\ info \in Infos /\ Slots \subseteq 0..E-1
  BY SlotsApart DEF BootInv
<1>2. ASSUME UNCHANGED <<info, ram, i>>,
             UNCHANGED <<pc, cr3>> \/ (pc = "entry" /\ pc' = "exit")
               \/ (UNCHANGED cr3 /\ {pc, pc'} \subseteq {"main", "info"})
               \/ (pc = "paging" /\ pc' = "main" /\ cr3' = Directory)
      PROVE  BootInv'
  BY <1>2 DEF BootInv, Written, Blank, Fit
<1>3. CASE WrongMagic
  BY <1>2, <1>3 DEF WrongMagic
<1>4. CASE CopyInfo
  <2>1. /\ pc = "entry" /\ pc' = "directory" /\ UNCHANGED <<info, i>>
        /\ ram' = [k \in 0..6*E-1 |-> IF k < Len(info.words) THEN info.words[k + 1] ELSE ram[k]]
    BY <1>1, <1>4 DEF CopyInfo
  <2>2. info.words \in Seq(Nat) /\ Len(info.words) \in Nat
    BY <1>1, InfoAssumption
  <2>3. ram' \in [0..6*E-1 -> Nat]
    BY <1>1, <2>1, <2>2
  <2>4. ASSUME Fit PROVE \A k \in E..6*E-1 : ram'[k] = ram[k]
    BY <2>1, <2>2, <2>4, Sizes DEF Fit
  <2>5. ASSUME Fit, NEW e \in 0..E-1 PROVE ram'[E + e] = ram[E + e] /\ ram'[5*E + e] = ram[5*E + e]
    BY <2>4, <2>5, Sizes
  <2>6. Fit => Blank(E)' /\ Blank(5*E)'
    BY <2>1, <2>5 DEF BootInv, Blank
  <2> QED
    BY <2>1, <2>3, <2>6 DEF BootInv, Fit
<1>5. CASE SetDirectory
  <2>1. pc = "directory" /\ pc' = "fill" /\ UNCHANGED <<info, i>> /\ i = 0
    BY <1>5 DEF SetDirectory, BootInv
  <2>2. /\ ram' \in [0..6*E-1 -> Nat]
        /\ \A e \in Slots : ram'[E + e] = Entry(Windows(High)[e])
        /\ \A k \in 0..6*E-1 : k - E \notin Slots => ram'[k] = ram[k]
    <3>1. At(Directory, 0) = E /\ High \in Nat /\ ram' = Set(Directory, Windows(High))
      BY <1>5, Places, Sizes DEF SetDirectory
    <3> QED
      BY <1>1, <3>1, SetWords
  <2>3. ASSUME NEW e \in 0..E-1
        PROVE  /\ e \notin Slots => ram'[E + e] = ram[E + e]
               /\ ram'[5*E + e] = ram[5*E + e]
    <3>1. E + e \in 0..6*E-1 /\ (E + e) - E = e /\ 5*E + e \in 0..6*E-1 /\ (5*E + e) - E \notin 0..E-1
      BY Sizes
    <3> QED
      BY <1>1, <2>2, <3>1
  <2>4. Fit => Blank(E)' /\ Blank(5*E)'
    BY <2>3 DEF BootInv, Blank
  <2>5. Written(E, High)'
    BY <2>2 DEF Written, Windows, Table, Entry, High, Page
  <2>6. i' < 3*E /\ i' \in 0..3*E /\ 0..i'-1 = {}
    BY <2>1, Sizes
  <2> QED
    BY <2>1, <2>2, <2>4, <2>5, <2>6 DEF BootInv, Fit
<1>6. CASE FillEntry
  <2>1. /\ pc = "fill" /\ pc' = (IF i + 1 = 3*E THEN "high" ELSE "fill") /\ i' = i + 1
        /\ UNCHANGED info /\ i \in 0..3*E-1
        /\ ram' = [ram EXCEPT ![At(Table(0), i)] = Entry(i)]
    BY <1>6, Sizes DEF FillEntry, Filled, BootInv
  <2>2. At(Table(0), i) = 2*E + i /\ Entry(i) \in Nat
    <3>1. i \in Nat /\ i \in Int /\ 0 \in 0..2 /\ 0 * E + i = i
      BY <2>1, Sizes
    <3>2. At(Table(0), i) = 2*E + (0 * E + i)
      BY <3>1, Places
    <3> QED
      BY <3>1, <3>2, EntryParts
  <2>3. /\ ram' \in [0..6*E-1 -> Nat] /\ ram'[2*E + i] = Entry(i)
        /\ \A k \in 0..6*E-1 : k # 2*E + i => ram'[k] = ram[k]
    <3>1. 2*E + i \in 0..6*E-1
      BY <2>1, Sizes
    <3> QED
      BY <1>1, <2>1, <2>2, <3>1
  <2>4. ASSUME NEW e \in 0..E-1 PROVE ram'[E + e] = ram[E + e] /\ ram'[5*E + e] = ram[5*E + e]
    BY <2>1, <2>3, Sizes
  <2>5. \A k \in 0..i'-1 : ram'[2*E + k] = Entry(k)
    <3> SUFFICES ASSUME NEW k \in 0..i'-1 PROVE ram'[2*E + k] = Entry(k)
      OBVIOUS
    <3>1. CASE k = i
      BY <2>3, <3>1
    <3>2. CASE k # i
      <4>1. k \in 0..i-1 /\ 2*E + k \in 0..6*E-1 /\ 2*E + k # 2*E + i
        BY <2>1, <3>2, Sizes
      <4> QED
        BY <2>1, <2>3, <4>1 DEF BootInv
    <3> QED
      BY <3>1, <3>2
  <2>6. Fit => Blank(E)' /\ Blank(5*E)'
    BY <2>4 DEF BootInv, Blank
  <2>7. Written(E, High)'
    BY <1>1, <2>1, <2>4 DEF BootInv, Written, Windows, Table, Entry, High, Page
  <2>8. i' \in 0..3*E /\ (pc' = "fill" => i' < 3*E) /\ (pc' = "high" => i' = 3*E)
    BY <2>1, Sizes
  <2> QED
    BY <1>1, <2>1, <2>3, <2>5, <2>6, <2>7, <2>8 DEF BootInv, Fit, Entry, Page
<1>7. CASE SetHigh
  <2>1. pc = "high" /\ pc' = "paging" /\ UNCHANGED <<info, i>> /\ i = 3*E
    BY <1>7 DEF SetHigh, BootInv
  <2>2. /\ ram' \in [0..6*E-1 -> Nat]
        /\ \A e \in Slots : ram'[5*E + e] = Entry(Windows(Directory)[e])
        /\ \A k \in 0..6*E-1 : k - 5*E \notin Slots => ram'[k] = ram[k]
    <3>1. At(High, 0) = 5*E /\ Directory \in Nat /\ ram' = Set(High, Windows(Directory))
      BY <1>7, Places, Sizes DEF SetHigh
    <3> QED
      BY <1>1, <3>1, SetWords
  <2>3. ASSUME NEW e \in 0..E-1
        PROVE  /\ e \notin Slots => ram'[5*E + e] = ram[5*E + e]
               /\ ram'[E + e] = ram[E + e]
    <3>1. /\ E + e \in 0..6*E-1 /\ (5*E + e) - 5*E = e /\ 5*E + e \in 0..6*E-1
          /\ (E + e) - 5*E \notin 0..E-1
      BY Sizes
    <3> QED
      BY <1>1, <2>2, <3>1
  <2>4. ASSUME NEW k \in 0..3*E-1 PROVE ram'[2*E + k] = ram[2*E + k]
    <3>1. 2*E + k \in 0..6*E-1 /\ (2*E + k) - 5*E \notin 0..E-1
      BY Sizes
    <3> QED
      BY <1>1, <2>2, <3>1
  <2>5. Fit => Blank(E)' /\ Blank(5*E)'
    BY <2>3 DEF BootInv, Blank
  <2>6. Written(E, High)'
    BY <1>1, <2>1, <2>3 DEF BootInv, Written, Windows, Table, Entry, High, Page
  <2>7. Written(5*E, Directory)'
    BY <2>2 DEF Written, Windows, Table, Entry, Directory, Page
  <2>8. \A k \in 0..i'-1 : ram'[2*E + k] = Entry(k)
    BY <2>1, <2>4 DEF BootInv
  <2> QED
    BY <1>1, <2>1, <2>2, <2>5, <2>6, <2>7, <2>8 DEF BootInv, Fit, Entry, Page
<1>8. CASE EnablePaging
  BY <1>2, <1>8 DEF EnablePaging
<1>9. CASE print_info
  BY <1>2, <1>9 DEF print_info, PrintStart, PrintTag, PrintEnd
<1>10. CASE UNCHANGED bootvars
  BY <1>2, <1>10 DEF bootvars
<1> QED
  BY <1>3, <1>4, <1>5, <1>6, <1>7, <1>8, <1>9, <1>10 DEF BootNext, Boots, Kernel, Halted
-----------------------------------------------------------------------------
(* The processor and get_physaddr *)

LEMMA WordAt ==
  ASSUME BootInv
  PROVE  /\ \A k \in 0..E-1 : /\ Word(Directory, k) = ram[E + k]
                              /\ Word(High, k) = ram[5*E + k]
         /\ \A q \in 0..2, k \in 0..E-1 : Word(Table(q), k) = ram[2*E + (q*E + k)]
<1>1. DOMAIN ram = 0..6*E-1 /\ E \in Nat
  BY Sizes DEF BootInv
<1>2. ASSUME NEW k \in 0..E-1
      PROVE  Word(Directory, k) = ram[E + k] /\ Word(High, k) = ram[5*E + k]
  <2>1. At(Directory, k) = E + k /\ At(High, k) = 5*E + k
    BY Places
  <2>2. E + k \in 0..6*E-1 /\ 5*E + k \in 0..6*E-1
    BY <1>1
  <2> QED
    BY <1>1, <2>1, <2>2 DEF Word
<1>3. ASSUME NEW q \in 0..2, NEW k \in 0..E-1
      PROVE  Word(Table(q), k) = ram[2*E + (q*E + k)]
  <2>1. At(Table(q), k) = 2*E + (q*E + k)
    BY Places
  <2>2. 2*E + (q*E + k) \in 0..6*E-1
    BY <1>1
  <2> QED
    BY <1>1, <2>1, <2>2 DEF Word
<1> QED
  BY <1>2, <1>3

(* A walk through two entries that are present.                            *)
LEMMA WalkThrough ==
  ASSUME NEW d \in Nat, NEW t \in 0..E-1, NEW off \in 0..Page-1,
         NEW f \in Nat, Word(cr3, d) = Entry(f),
         NEW g \in Nat, Word(f, t) = Entry(g)
  PROVE  Walk(Address(d, t, off)) = g * Page + off
<1> DEFINE va == Address(d, t, off)
<1>1. va \div (E * Page) = d /\ (va \div Page) % E = t /\ va % Page = off
  BY Split
<1> HIDE DEF va
<1>2. Entry(f) \div Page = f /\ Entry(f) % 2 = 1
  BY EntryParts
<1>3. Entry(g) % 2 = 1 /\ Entry(g) - (Entry(g) % Page) = g * Page
  BY EntryParts
<1>4. Walk(va) = Entry(g) - (Entry(g) % Page) + (va % Page)
  BY <1>1, <1>2, <1>3 DEF Walk
<1> QED
  BY <1>1, <1>3, <1>4 DEF va

(* A walk that meets an entry that is not present.                         *)
LEMMA WalkFaults ==
  ASSUME NEW d \in Nat, NEW t \in 0..E-1, NEW off \in 0..Page-1,
         \/ Word(cr3, d) = 0
         \/ \E f \in Nat : Word(cr3, d) = Entry(f) /\ Word(f, t) = 0
  PROVE  Walk(Address(d, t, off)) = Fault
<1> DEFINE va == Address(d, t, off)
<1>1. va \div (E * Page) = d /\ (va \div Page) % E = t
  BY Split
<1> HIDE DEF va
<1>2. CASE Word(cr3, d) = 0
  BY <1>1, <1>2 DEF Walk, va
<1>3. CASE \E f \in Nat : Word(cr3, d) = Entry(f) /\ Word(f, t) = 0
  <2>1. PICK f \in Nat : Word(cr3, d) = Entry(f) /\ Word(f, t) = 0
    BY <1>3
  <2>2. Entry(f) \div Page = f
    BY EntryParts
  <2> QED
    BY <1>1, <2>1, <2>2 DEF Walk, va
<1> QED
  BY <1>2, <1>3

(* A word of a page that is mapped.                                        *)
LEMMA LoadThrough ==
  ASSUME NEW d \in Nat, NEW t \in 0..E-1, NEW k \in 0..E-1,
         NEW f \in Nat, Word(cr3, d) = Entry(f),
         NEW g \in Nat, Word(f, t) = Entry(g)
  PROVE  Load(Address(d, t, 4 * k)) = Word(g, k)
<1>1. Page \in Nat \ {0} /\ 4 * k \in 0..Page-1 /\ g * Page \in Nat
  BY Sizes
<1>2. Walk(Address(d, t, 4 * k)) = g * Page + 4 * k
  BY <1>1, WalkThrough
<1> DEFINE r == 4 * k
<1>3. (g * Page + r) \div Page = g /\ (g * Page + r) % Page = r
  <2>1. r \in Int /\ 0 <= r /\ r < Page /\ g \in Int /\ Page \in Nat \ {0}
    BY <1>1
  <2> HIDE DEF r
  <2> QED
    BY ONLY <2>1, DivMod
<1>4. (4 * k) \div 4 = k
  OBVIOUS
<1>5. g * Page + 4 * k # Fault
  BY <1>1 DEF Fault
<1> QED
  BY <1>2, <1>3, <1>4, <1>5 DEF Load

(* What the processor finds in the tables once paging is on.               *)
LEMMA Tables ==
  ASSUME BootInv, pc \in {"main", "info"}
  PROVE  /\ Word(cr3, 0) = Entry(Table(0)) /\ Word(High, 0) = Entry(Table(0))
         /\ \A q \in 0..2 : /\ Word(cr3, Window + q) = Entry(Table(q))
                            /\ Word(High, Window + q) = Entry(Table(q))
         /\ Word(cr3, E - 1) = Entry(High) /\ Word(High, E - 1) = Entry(Directory)
         /\ \A q \in 0..2, k \in 0..E-1 : Word(Table(q), k) = Entry(q*E + k)
<1>1. /\ cr3 = Directory /\ i = 3*E
      /\ \A e \in Slots : ram[E + e] = Entry(Windows(High)[e])
      /\ \A e \in Slots : ram[5*E + e] = Entry(Windows(Directory)[e])
      /\ \A k \in 0..3*E-1 : ram[2*E + k] = Entry(k)
  BY DEF BootInv, Written
<1>2. E \in Nat /\ {0, E - 1} \subseteq Slots /\ \A q \in 0..2 : Window + q \in Slots
  BY Sizes DEF Slots
<1>3. Slots \subseteq 0..E-1
  BY SlotsApart
<1>4. \A e \in Slots : Word(cr3, e) = Entry(Windows(High)[e]) /\ Word(High, e) = Entry(Windows(Directory)[e])
  BY <1>1, <1>3, WordAt
<1>5. ASSUME NEW q \in 0..2, NEW k \in 0..E-1 PROVE Word(Table(q), k) = Entry(q*E + k)
  <2>1. q*E + k \in 0..3*E-1
    BY <1>2
  <2> QED
    BY <1>1, <2>1, WordAt
<1> QED
  BY <1>2, <1>4, <1>5, SlotsApart
(* The two addresses that get_physaddr reads: the directory is the last    *)
(* page of the address space, and page_table_high its last 4 MB.           *)
LEMMA Mirror ==
  ASSUME NEW d \in 0..E-1, NEW t \in 0..E-1
  PROVE  /\ W - Page + 4 * d = Address(E - 1, E - 1, 4 * d)
         /\ W - E * Page + Page * d + 4 * t = Address(E - 1, d, 4 * t)
<1>1. E \in Nat /\ Page \in Nat /\ W = (E * E) * Page
  BY Sizes, LayoutAssumption
<1>2. ((E - 1) * E + (E - 1)) * Page = (E * E) * Page - Page
  BY <1>1, SMT
<1>3. ((E - 1) * E + d) * Page = (E * E) * Page - E * Page + Page * d
  BY <1>1, SMT
<1>4. (E * E) * Page \in Int /\ E * Page \in Int /\ Page * d \in Int
  BY <1>1, SMT
<1> QED
  BY <1>1, <1>2, <1>3, <1>4 DEF Address

(* What get_physaddr returns, from the directory's entry and the word it   *)
(* takes for the table's entry.                                            *)
LEMMA Phys ==
  ASSUME BootInv, pc \in {"main", "info"},
         NEW d \in 0..E-1, NEW t \in 0..E-1, NEW off \in 0..Page-1,
         NEW pte, Load(Address(E - 1, d, 4 * t)) = pte
  PROVE  LET va == Address(d, t, off) IN
         /\ Word(cr3, d) = 0 => get_physaddr(va) = 0
         /\ \A f \in Nat : Word(cr3, d) = Entry(f) =>
              /\ pte = 0 => get_physaddr(va) = 0
              /\ \A g \in Nat : pte = Entry(g) => get_physaddr(va) = g * Page + off
<1> DEFINE va == Address(d, t, off)
<1>1. va \div (E * Page) = d /\ (va \div Page) % E = t /\ va % Page = off
  BY Split
<1> HIDE DEF va
<1>2. Load(W - E * Page + Page * d + 4 * t) = pte
  BY Mirror
<1>3. Load(W - Page + 4 * d) = Word(cr3, d)
  <2>1. E - 1 \in Nat /\ E - 1 \in 0..E-1 /\ High \in Nat /\ Directory \in Nat /\ cr3 = Directory
    BY Sizes, Places DEF BootInv
  <2>2. Word(cr3, E - 1) = Entry(High) /\ Word(High, E - 1) = Entry(Directory)
    BY Tables
  <2>3. Load(Address(E - 1, E - 1, 4 * d)) = Word(Directory, d)
    BY <2>1, <2>2, LoadThrough
  <2> QED
    BY <2>1, <2>3, Mirror
<1>4. \A f \in Nat : Entry(f) % 2 = 1 /\ Entry(f) # Fault /\ Entry(f) - (Entry(f) % Page) = f * Page
  BY EntryParts DEF Fault
<1>5. Word(cr3, d) = 0 => get_physaddr(va) = 0
  BY <1>1, <1>2, <1>3 DEF get_physaddr, Fault
<1>6. ASSUME NEW f \in Nat, Word(cr3, d) = Entry(f), pte = 0 PROVE get_physaddr(va) = 0
  BY <1>1, <1>2, <1>3, <1>4, <1>6 DEF get_physaddr, Fault
<1>7. ASSUME NEW f \in Nat, Word(cr3, d) = Entry(f), NEW g \in Nat, pte = Entry(g)
      PROVE  get_physaddr(va) = g * Page + off
  BY <1>1, <1>2, <1>3, <1>4, <1>7 DEF get_physaddr
<1> QED
  BY <1>5, <1>6, <1>7 DEF va

(* The window, and the first 4 MB at their own place.                      *)
LEMMA Mapped ==
  ASSUME BootInv, pc \in {"main", "info"},
         NEW q \in 0..2, NEW d, d = Window + q \/ (d = 0 /\ q = 0),
         NEW t \in 0..E-1, NEW off \in 0..Page-1
  PROVE  /\ Walk(Address(d, t, off)) = (q * E + t) * Page + off
         /\ get_physaddr(Address(d, t, off)) = (q * E + t) * Page + off
<1>1. /\ d \in 0..E-1 /\ d \in Nat /\ E - 1 \in Nat /\ q * E + t \in Nat
      /\ Table(q) \in Nat /\ High \in Nat
  BY Sizes, Places
<1>2. /\ Word(cr3, d) = Entry(Table(q)) /\ Word(High, d) = Entry(Table(q))
      /\ Word(cr3, E - 1) = Entry(High) /\ Word(Table(q), t) = Entry(q * E + t)
  BY Tables
<1>3. Walk(Address(d, t, off)) = (q * E + t) * Page + off
  BY <1>1, <1>2, WalkThrough
<1>4. Load(Address(E - 1, d, 4 * t)) = Entry(q * E + t)
  BY <1>1, <1>2, LoadThrough
<1>5. get_physaddr(Address(d, t, off)) = (q * E + t) * Page + off
  BY <1>1, <1>2, <1>4, Phys
<1> QED
  BY <1>3, <1>5

(* Every address of the window is one of those.                            *)
LEMMA InWindow ==
  ASSUME NEW x \in Nat, x < 3 * E * Page
  PROVE  \E q \in 0..2, t \in 0..E-1, off \in 0..Page-1 :
           /\ Offset + x = Address(Window + q, t, off)
           /\ x = (q * E + t) * Page + off
<1>1. E \in Nat \ {0} /\ Page \in Nat \ {0} /\ Window \in Nat
  BY Sizes
<1> DEFINE n == x \div Page
           off == x % Page
<1>2. n \in Nat /\ off \in 0..Page-1 /\ x = n * Page + off
  BY <1>1, Divided
<1> HIDE DEF n, off
<1> DEFINE q == n \div E
           t == n % E
<1>3. q \in Nat /\ t \in 0..E-1 /\ n = q * E + t
  BY <1>1, <1>2, Divided
<1> HIDE DEF q, t
<1>4. n < 3 * E
  <2> SUFFICES ASSUME n >= 3 * E PROVE FALSE
    BY <1>1, <1>2
  <2>1. n * Page >= (3 * E) * Page /\ n * Page \in Int /\ (3 * E) * Page \in Int
    BY <1>1, <1>2, SMT
  <2> QED
    BY <1>1, <1>2, <2>1
<1>5. q <= 2
  <2> SUFFICES ASSUME q >= 3 PROVE FALSE
    BY <1>3
  <2>1. q * E >= 3 * E /\ q * E \in Int
    BY <1>1, <1>3, SMT
  <2> QED
    BY <1>1, <1>3, <1>4, <2>1
<1>6. Offset + x = Address(Window + q, t, off)
  <2>1. ((Window + q) * E + t) * Page = (Window * E) * Page + (q * E + t) * Page
    BY <1>1, <1>3, SMT
  <2>2. (Window * E) * Page \in Int /\ (q * E + t) * Page \in Int
    BY <1>1, <1>3, SMT
  <2> QED
    BY <1>2, <1>3, <2>1, <2>2 DEF Address, Offset
<1> QED
  BY <1>2, <1>3, <1>5, <1>6
-----------------------------------------------------------------------------
(* The theorems *)

(* Booting, print_info and the halt leave the heap alone: what is proved   *)
(* of Memory holds in the running kernel.                                  *)
THEOREM BootImplementsMemory == BootSpec => Spec
<1>1. BootInit => init_mem
  BY DEF BootInit
<1>2. [BootNext]_<<bootvars, memvars>> => [Next]_memvars
  BY DEF BootNext, Kernel, Halted, memvars
<1> QED
  BY <1>1, <1>2, PTL DEF BootSpec, Spec

THEOREM BootInvariance == BootSpec => [](BootInv /\ IInv)
BY BootInitInv, BootStepInv, BootImplementsMemory, Invariance, PTL DEF BootSpec

(* When cmain runs, the kernel's window leads to the first memory page by  *)
(* page, and the first 4 MB are also where they were: for every page size, *)
(* every place of the kernel and any boot information, also one that ran   *)
(* over the tables before they were filled.                                *)
THEOREM KernelIsMapped == BootSpec => []KernelMapped
<1>1. BootInv => KernelMapped
  <2> SUFFICES ASSUME BootInv, pc = "main" PROVE KernelMapped
    BY DEF KernelMapped, Running
  <2>1. E \in Nat /\ Page \in Nat /\ 0 \in 0..Page-1 /\ Window \in Nat
    BY Sizes
  <2>2. ASSUME NEW n \in 0..3*E-1 PROVE Walk(Offset + n * Page) = n * Page
    <3>1. n * Page \in Nat /\ n * Page < 3 * E * Page
      <4>1. n * Page \in Nat /\ n * Page <= (3 * E - 1) * Page
        BY <2>1, SMT
      <4>2. (3 * E - 1) * Page = 3 * E * Page - Page /\ 3 * E * Page \in Int /\ Page > 0
        BY <2>1, Sizes, SMT
      <4> QED
        BY <2>1, <4>1, <4>2
    <3>2. PICK q \in 0..2, t \in 0..E-1, off \in 0..Page-1 :
            /\ Offset + n * Page = Address(Window + q, t, off)
            /\ n * Page = (q * E + t) * Page + off
      BY <3>1, InWindow
    <3> QED
      BY <3>2, Mapped
  <2>3. ASSUME NEW n \in 0..E-1 PROVE Walk(n * Page) = n * Page
    <3>1. Address(0, n, 0) = n * Page /\ (0 * E + n) * Page + 0 = n * Page
      BY <2>1 DEF Address
    <3>2. Walk(Address(0, n, 0)) = (0 * E + n) * Page + 0
      BY <2>1, Mapped
    <3> QED
      BY <3>1, <3>2
  <2> QED
    BY <2>2, <2>3 DEF KernelMapped
<1> QED
  BY <1>1, BootInvariance, PTL

(* get_physaddr is right for every byte of every block that alloc handed   *)
(* out, and with boot information that fits its page it agrees with the    *)
(* processor about the whole address space but its last page.              *)
THEOREM PhysAddrRight == BootSpec => []PhysRight
<1>1. BootInv /\ IInv => PhysRight
  <2> SUFFICES ASSUME BootInv, IInv, pc = "main" PROVE PhysRight
    BY DEF PhysRight, Running
  <2>1. /\ E \in Nat /\ E >= 5 /\ Page \in Nat /\ 0 \in 0..Page-1 /\ Page \in Nat \ {0}
        /\ E - 1 \in Nat /\ E - 1 \in 0..E-1 /\ High \in Nat /\ Directory \in Nat
        /\ cr3 = Directory
    BY Sizes, Places DEF BootInv
  <2>2. ASSUME NEW b \in Range(live), NEW a \in b.addr..b.addr + b.size - 1
        PROVE  get_physaddr(a) = a - Offset /\ get_physaddr(a) = Walk(a)
    <3>1. PICK j \in 1..Len(live) : b = live[j]
      BY DEF Range, IInv, LiveInv
    <3>2. Below(live[j], Top) /\ Top + 16 <= HeapEnd /\ Top \in Nat
      BY DEF IInv, LiveInv, OneBlock
    <3>3. b.addr \in Nat /\ b.size \in Nat /\ HeapStart <= b.addr /\ b.addr + b.size <= HeapEnd
      <4>1. b \in NatBlocks /\ HeapStart <= b.addr /\ b.addr + b.size <= Top
        BY <3>1, <3>2 DEF Below
      <4>2. b.addr \in Nat /\ b.size \in Nat /\ HeapEnd \in Nat
        BY <4>1, SpaceAssumption DEF NatBlocks
      <4> QED
        BY <3>2, <4>1, <4>2
    <3>4. a \in Nat /\ HeapStart <= a /\ a < HeapEnd
      BY <3>3, HeapStartType, SpaceAssumption, SMTT(30)
    <3>5. /\ Offset \in Nat /\ 3 * E * Page \in Nat /\ HeapEnd = Offset + 3 * E * Page
          /\ Offset <= HeapStart
      <4>1. Window * E * Page \in Nat /\ 3 * E * Page \in Nat /\ (InfoFrame + 6) * Page \in Nat
        BY Sizes, SMT
      <4>2. KernelEnd \in Nat /\ KernelEnd + 16 <= W
        BY SpaceAssumption
      <4>3. KernelEnd <= HeapStart
        BY <4>2, RoundUp16 DEF HeapStart
      <4>4. Offset + (InfoFrame + 6) * Page <= KernelEnd
        BY LayoutAssumption
      <4>5. HeapEnd = Offset + 3 * E * Page
        BY LayoutAssumption, Zenon
      <4>6. Offset \in Nat
        BY <4>1 DEF Offset
      <4>7. KernelEnd \in Nat /\ HeapStart \in Nat
        BY <4>2, HeapStartType
      <4>8. Offset <= HeapStart
        <5> DEFINE z == (InfoFrame + 6) * Page
        <5>1. z \in Nat /\ Offset + z <= KernelEnd
          BY <4>1, <4>4
        <5> HIDE DEF z
        <5> QED
          BY ONLY <4>3, <4>6, <4>7, <5>1
      <4> QED
        BY <4>1, <4>5, <4>6, <4>8, Zenon
    <3>6. a - Offset \in Nat /\ a - Offset < 3 * E * Page /\ Offset + (a - Offset) = a
      BY <3>4, <3>5, HeapStartType
    <3>7. PICK q \in 0..2, t \in 0..E-1, off \in 0..Page-1 :
            /\ Offset + (a - Offset) = Address(Window + q, t, off)
            /\ a - Offset = (q * E + t) * Page + off
      BY <3>6, InWindow
    <3> QED
      BY <3>6, <3>7, Mapped
  <2>3. ASSUME Fit, NEW n \in 0..E*E-2
        PROVE  get_physaddr(n * Page) = IF Walk(n * Page) = Fault THEN 0 ELSE Walk(n * Page)
    <3>1. n \in Nat /\ n <= E * E - 2 /\ E * E \in Nat
      BY <2>1, SMT
    <3> DEFINE d == n \div E
               t == n % E
    <3>2. d \in Nat /\ t \in 0..E-1 /\ n = d * E + t
      BY <3>1, PageNumber
    <3> HIDE DEF d, t
    <3>3. d <= E - 1 /\ (d = E - 1 => t <= E - 2)
      <4>1. ASSUME d >= E PROVE FALSE
        <5>1. d * E >= E * E /\ d * E \in Int
          BY <2>1, <3>2, <4>1, SMT
        <5> QED
          BY <3>1, <3>2, <5>1
      <4>2. ASSUME d = E - 1 PROVE t <= E - 2
        <5>1. d * E = E * E - E
          BY <2>1, <4>2, SMT
        <5> QED
          BY <2>1, <3>1, <3>2, <5>1
      <4> QED
        BY <2>1, <3>2, <4>1, <4>2
    <3>4. d \in 0..E-1
      BY <2>1, <3>2, <3>3
    <3>5. n * Page = Address(d, t, 0)
      <4>1. (d * E + t) * Page \in Int
        BY <2>1, <3>2, SMT
      <4> QED
        BY <3>2, <4>1 DEF Address
    <3>6. \A k \in 0..E-1 : k \notin Slots => Word(cr3, k) = 0 /\ Word(High, k) = 0
      BY <2>1, <2>3, WordAt DEF BootInv, Blank
    <3>7. CASE d \notin Slots
      <4>1. Word(cr3, d) = 0
        BY <3>4, <3>6, <3>7
      <4>2. Walk(Address(d, t, 0)) = Fault
        BY <2>1, <3>2, <4>1, WalkFaults
      <4>3. get_physaddr(Address(d, t, 0)) = 0
        BY <2>1, <3>2, <3>4, <4>1, Phys
      <4> QED
        BY <3>5, <4>2, <4>3
    <3>8. CASE d \in Slots /\ d # E - 1
      <4>1. PICK q \in 0..2 : d = Window + q \/ (d = 0 /\ q = 0)
        <5>1. d = 0 \/ d = Window + 0 \/ d = Window + 1 \/ d = Window + 2
          BY <3>8, Sizes DEF Slots
        <5>2. 0 \in 0..2 /\ 1 \in 0..2 /\ 2 \in 0..2
          OBVIOUS
        <5> QED
          BY <5>1, <5>2
      <4>2. Walk(Address(d, t, 0)) = get_physaddr(Address(d, t, 0))
        BY <2>1, <3>2, <4>1, Mapped
      <4>3. Walk(Address(d, t, 0)) # Fault
        <5>1. Walk(Address(d, t, 0)) = (q * E + t) * Page + 0
          BY <2>1, <3>2, <4>1, Mapped
        <5>2. (q * E + t) * Page \in Nat
          BY <2>1, <3>2, SMT
        <5> QED
          BY <5>1, <5>2 DEF Fault
      <4> QED
        BY <3>5, <4>2, <4>3
    <3>9. CASE d = E - 1
      <4>1. /\ Word(cr3, E - 1) = Entry(High) /\ Word(High, E - 1) = Entry(Directory)
        BY Tables
      <4>2. Load(Address(E - 1, d, 4 * t)) = Word(cr3, t)
        BY <2>1, <3>2, <3>9, <4>1, LoadThrough
      <4>3. t # E - 1
        BY <2>1, <3>2, <3>3, <3>9
      <4>4. CASE t \notin Slots
        <5>1. Word(cr3, t) = 0 /\ Word(High, t) = 0
          BY <3>2, <3>6, <4>4
        <5>2. Walk(Address(d, t, 0)) = Fault
          BY <2>1, <3>2, <3>9, <4>1, <5>1, WalkFaults
        <5>3. get_physaddr(Address(d, t, 0)) = 0
          BY <2>1, <3>2, <3>4, <3>9, <4>1, <4>2, <5>1, Phys
        <5> QED
          BY <3>5, <5>2, <5>3
      <4>5. CASE t \in Slots
        <5>1. PICK q \in 0..2 : t = Window + q \/ (t = 0 /\ q = 0)
          <6>1. t = 0 \/ t = Window + 0 \/ t = Window + 1 \/ t = Window + 2
            BY <4>3, <4>5, Sizes DEF Slots
          <6>2. 0 \in 0..2 /\ 1 \in 0..2 /\ 2 \in 0..2
            OBVIOUS
          <6> QED
            BY <6>1, <6>2
        <5>2. Word(cr3, t) = Entry(Table(q)) /\ Word(High, t) = Entry(Table(q)) /\ Table(q) \in Nat
          BY <5>1, Tables, Places
        <5>3. Walk(Address(d, t, 0)) = Table(q) * Page + 0
          BY <2>1, <3>2, <3>9, <4>1, <5>2, WalkThrough
        <5>4. get_physaddr(Address(d, t, 0)) = Table(q) * Page + 0
          BY <2>1, <3>2, <3>4, <3>9, <4>1, <4>2, <5>2, Phys
        <5>5. Table(q) * Page + 0 # Fault
          <6>1. Table(q) * Page \in Nat
            BY <2>1, <5>2
          <6> QED
            BY <6>1 DEF Fault
        <5> QED
          BY <3>5, <5>3, <5>4, <5>5
      <4> QED
        BY <4>4, <4>5
    <3> QED
      BY <3>7, <3>8, <3>9
  <2> QED
    BY <2>2, <2>3 DEF PhysRight
<1> QED
  BY <1>1, BootInvariance, PTL
-----------------------------------------------------------------------------
(* print_info *)

(* The copy in the first page is the loader's structure as long as it fits *)
(* there, and print_info has shown the tags in front of idx.               *)
Copied == \A k \in 0..Len(info.words)-1 : ram[k] = info.words[k + 1]

TagInv ==
  Fit => /\ pc \notin {"entry", "exit"} => Copied
         /\ pc \notin {"main", "info"} => shown = <<>>
         /\ pc = "main" => shown = <<>> \/ shown = info.tags
         /\ pc = "info" => /\ Len(shown) \in 0..Len(info.tags)
                           /\ shown = SubSeq(info.tags, 1, Len(shown))
                           /\ idx = info.at[Len(shown) + 1]

LEMMA FirstOnes ==
  ASSUME NEW S, NEW s \in Seq(S), NEW n \in 0..Len(s)
  PROVE  /\ Len(SubSeq(s, 1, n)) = n /\ SubSeq(s, 1, Len(s)) = s /\ SubSeq(s, 1, 0) = <<>>
         /\ SubSeq(SubSeq(s, 1, n), 1, n) = SubSeq(s, 1, n)
         /\ n < Len(s) => Append(SubSeq(s, 1, n), s[n + 1]) = SubSeq(s, 1, n + 1)
<1>1. Len(SubSeq(s, 1, n)) = n
  OBVIOUS
<1>2. SubSeq(s, 1, Len(s)) = s
  OBVIOUS
<1>3. SubSeq(s, 1, 0) = <<>>
  OBVIOUS
<1>4. ASSUME n < Len(s) PROVE Append(SubSeq(s, 1, n), s[n + 1]) = SubSeq(s, 1, n + 1)
  BY <1>4
<1>5. SubSeq(SubSeq(s, 1, n), 1, n) = SubSeq(s, 1, n)
  OBVIOUS
<1> QED
  BY <1>1, <1>2, <1>3, <1>4, <1>5

LEMMA Elements ==
  ASSUME NEW S, NEW s \in Seq(S)
  PROVE  Len(s) \in Nat /\ \A k \in 1..Len(s) : s[k] \in S
OBVIOUS

(* (size+7)&~7 *)
LEMMA RoundUp8 ==
  ASSUME NEW n \in Nat, n + 8 <= W
  PROVE  TagStep(n) = 8 * ((n + 7) \div 8)
BY SpaceAssumption DEF TagStep, round_up, Add

(* What print_info reads of the structure, through the window.             *)
LEMMA InfoRead ==
  ASSUME BootInv, TagInv, Fit, pc \in {"main", "info"}, NEW k \in 0..Len(info.words)-1
  PROVE  InfoWord(4 * k) = info.words[k + 1]
<1>1. /\ E \in Nat /\ E >= 5 /\ Page \in Nat \ {0} /\ Page = 4 * E
      /\ InfoFrame \in Nat /\ Window \in Nat
  BY Sizes
<1>2. Len(info.words) \in Nat /\ Len(info.words) <= E /\ k \in 0..E-1 /\ k \in Nat
  <2>1. info.words \in Seq(Nat)
    BY InfoAssumption DEF BootInv
  <2>2. Len(info.words) \in Nat
    BY <2>1
  <2> QED
    BY <1>1, <2>2 DEF Fit
<1> DEFINE x == InfoFrame * Page + 4 * k
<1>3. x \in Nat /\ x < 3 * E * Page
  <2>1. InfoFrame * Page \in Nat /\ 3 * E * Page \in Nat /\ Offset \in Int
    <3>1. Window * E * Page \in Int /\ 3 * E * Page \in Nat /\ InfoFrame * Page \in Nat
      BY <1>1, SMT
    <3> QED
      BY <3>1 DEF Offset
  <2>2. Offset + (InfoFrame + 6) * Page <= Offset + 3 * E * Page
    <3>1. KernelEnd <= HeapEnd /\ KernelEnd \in Int /\ HeapEnd \in Int
      BY SpaceAssumption
    <3>2. Offset + (InfoFrame + 6) * Page <= KernelEnd /\ HeapEnd = Offset + 3 * E * Page
      BY LayoutAssumption
    <3>3. (InfoFrame + 6) * Page \in Int
      BY <1>1, SMT
    <3> QED
      BY <2>1, <3>1, <3>2, <3>3
  <2>3. (InfoFrame + 6) * Page = InfoFrame * Page + 6 * Page
    BY <1>1, SMT
  <2> HIDE DEF Page, Offset
  <2> QED
    BY <1>1, <1>2, <2>1, <2>2, <2>3
<1>4. PICK q \in 0..2, t \in 0..E-1, off \in 0..Page-1 :
        /\ Offset + x = Address(Window + q, t, off)
        /\ x = (q * E + t) * Page + off
  <2> HIDE DEF x
  <2> QED
    BY <1>3, InWindow
<1>5. off = 4 * k /\ q * E + t = InfoFrame
  <2> DEFINE n == q * E + t
             r == 4 * k
  <2>1. n \in Int /\ off \in Int /\ 0 <= off /\ off < Page
    BY <1>1
  <2>2. r \in Int /\ 0 <= r /\ r < Page
    BY <1>1, <1>2
  <2>3. x = n * Page + off /\ x = InfoFrame * Page + r
    BY <1>4
  <2> HIDE DEF n, r, x
  <2>4. x \div Page = n /\ x % Page = off
    BY ONLY <1>1, <2>1, <2>3, DivMod
  <2>5. x \div Page = InfoFrame /\ x % Page = r
    <3>1. InfoFrame \in Int
      BY <1>1
    <3> QED
      BY ONLY <1>1, <2>2, <2>3, <3>1, DivMod
  <2>6. n = InfoFrame /\ off = r
    BY <2>4, <2>5
  <2> QED
    BY <2>6 DEF n, r
<1>6. Load(Address(Window + q, t, 4 * k)) = Word(InfoFrame, k)
  <2>1. Window + q \in Nat
    BY <1>1
  <2>2. Table(q) \in Nat
    BY Places
  <2>3. Word(cr3, Window + q) = Entry(Table(q)) /\ Word(Table(q), t) = Entry(InfoFrame)
    BY <1>5, Tables
  <2> QED
    BY <1>1, <1>2, <2>1, <2>2, <2>3, LoadThrough
<1>7. Word(InfoFrame, k) = ram[k]
  <2>1. At(InfoFrame, k) = k
    <3>1. InfoFrame - InfoFrame = 0 /\ 0 * E = 0 /\ 0 + k = k
      BY <1>1, <1>2
    <3> QED
      BY <3>1 DEF At
  <2>2. k \in 0..6*E-1 /\ DOMAIN ram = 0..6*E-1
    BY <1>1, <1>2 DEF BootInv
  <2> QED
    BY <2>1, <2>2 DEF Word
<1>8. InfoWord(4 * k) = Load(Offset + x)
  <2>1. Offset + InfoFrame * Page + 4 * k = Offset + x
    <3>1. Window * E * Page \in Int /\ InfoFrame * Page \in Int
      BY <1>1, SMT
    <3>2. Offset \in Int
      BY <3>1 DEF Offset
    <3> QED
      BY <1>2, <3>1, <3>2
  <2> QED
    BY <2>1 DEF InfoWord
<1>9. ram[k] = info.words[k + 1]
  BY DEF TagInv, Copied
<1> QED
  BY <1>4, <1>5, <1>6, <1>7, <1>8, <1>9
(* At the beginning of a tag print_info reads what the loader put there.   *)
LEMMA TagRead ==
  ASSUME BootInv, TagInv, Fit, pc = "info", Len(shown) < Len(info.tags)
  PROVE  /\ idx \in Nat /\ InfoWord(0) \in Nat /\ idx < InfoWord(0)
         /\ Shown(idx) = info.tags[Len(shown) + 1]
         /\ Add(idx, TagStep(InfoWord(idx + 4))) = info.at[Len(shown) + 2]
<1> DEFINE x == info
           L == Len(x.words)
           m == Len(x.tags)
           n == Len(shown) + 1
           a == x.at[n]
           t == x.tags[n]
           w(b) == x.words[b \div 4 + 1]
           step == w(a + 8)
<1>1. /\ x \in Infos /\ x.words \in Seq(Nat) /\ x.words[1] = 4 * L /\ L <= E /\ LaidOut(x)
  BY InfoAssumption, TagAssumption DEF BootInv, Fit
<1>2. /\ x.tags \in Seq([type : Nat, size : Nat, entries : Seq(Nat)])
      /\ x.at \in Seq({b \in 8..4 * L : b % 8 = 0}) /\ Len(x.at) = m + 1
  BY <1>1 DEF LaidOut
<1>3. L \in Nat /\ m \in Nat /\ n \in 1..m /\ idx = a /\ n + 1 = Len(shown) + 2
  <2>1. L \in Nat /\ m \in Nat
    BY <1>1, <1>2, Elements, Zenon
  <2>2. Len(shown) \in 0..m /\ idx = a
    BY DEF TagInv
  <2> QED
    BY <2>1, <2>2
<1>4. a \in 8..4*L /\ a % 8 = 0 /\ x.at[n + 1] \in 8..4*L /\ x.at[n + 1] % 8 = 0
  <2>1. n \in 1..Len(x.at) /\ n + 1 \in 1..Len(x.at)
    <3> HIDE DEF n, m, x
    <3>1. Len(x.at) = m + 1 /\ m \in Nat /\ n \in 1..m
      BY <1>2, <1>3, Zenon
    <3> QED
      BY ONLY <3>1
  <2> HIDE DEF n
  <2>2. x.at[n] \in {b \in 8..4 * L : b % 8 = 0} /\ x.at[n + 1] \in {b \in 8..4 * L : b % 8 = 0}
    BY <1>2, <2>1, Elements, Zenon
  <2> HIDE DEF x, L
  <2> QED
    BY <2>2
<1>5. t \in [type : Nat, size : Nat, entries : Seq(Nat)]
  <2> HIDE DEF n
  <2> QED
    BY <1>2, <1>3, Elements, Zenon
<1>6. /\ t.type = w(a) /\ t.size = w(a + 4) /\ t.size >= 8
      /\ x.at[n + 1] = a + 8 * ((t.size + 7) \div 8)
      /\ t.type = Mmap =>
           /\ t.size >= 16 /\ step > 0 /\ step % 8 = 0
           /\ t.size = 16 + Len(t.entries) * step
           /\ \A e \in 1..Len(t.entries) : t.entries[e] = w(a + 16 + (e - 1) * step)
      /\ t.type # Mmap => t.entries = <<>>
  <2> HIDE DEF n, L
  <2> QED
    BY <1>1, <1>3 DEF LaidOut
<1>7. \A b \in Nat : b % 4 = 0 /\ b < 4 * L => InfoWord(b) = w(b)
  <2> SUFFICES ASSUME NEW b \in Nat, b % 4 = 0, b < 4 * L PROVE InfoWord(b) = w(b)
    OBVIOUS
  <2>1. b = 4 * (b \div 4) /\ b \div 4 \in 0..L-1
    BY <1>3
  <2>2. InfoWord(4 * (b \div 4)) = x.words[b \div 4 + 1]
    BY <2>1, InfoRead
  <2> QED
    BY <2>1, <2>2
<1> HIDE DEF x, L, m, n, a, t, w
<1>8. InfoWord(0) = 4 * L /\ a < 4 * L
  <2>1. 0 % 4 = 0 /\ 0 < 4 * L /\ 0 \div 4 + 1 = 1
    BY <1>3, <1>4
  <2>2. InfoWord(0) = w(0)
    BY <1>7, <2>1
  <2>3. w(0) = x.words[1]
    BY <2>1 DEF w
  <2>4. t.size \in Nat
    BY <1>5
  <2>5. (t.size + 7) \div 8 >= 1
    BY <1>6, <2>4
  <2> QED
    BY <1>1, <1>3, <1>4, <1>6, <2>2, <2>3, <2>4, <2>5
<1>9. /\ a % 4 = 0 /\ (a + 4) % 4 = 0 /\ (a + 8) % 4 = 0
      /\ a + 4 < 4 * L /\ a + t.size <= x.at[n + 1]
  <2>1. t.size \in Nat /\ (t.size + 7) \div 8 \in Nat /\ 8 * ((t.size + 7) \div 8) >= t.size
    BY <1>5
  <2>2. a \in Nat /\ a % 8 = 0 /\ L \in Nat /\ a < 4 * L
    BY <1>3, <1>4, <1>8
  <2>3. a % 4 = 0 /\ (a + 4) % 4 = 0 /\ (a + 8) % 4 = 0
    BY <2>2
  <2>4. x.at[n + 1] = a + 8 * ((t.size + 7) \div 8) /\ t.size >= 8
    BY <1>6
  <2>5. a + t.size <= x.at[n + 1]
    BY <2>1, <2>2, <2>4
  <2>6. x.at[n + 1] \in Nat /\ x.at[n + 1] <= 4 * L
    BY <1>3, <1>4
  <2>7. a + 4 < 4 * L
    BY <2>1, <2>2, <2>4, <2>5, <2>6
  <2> QED
    BY <2>3, <2>5, <2>7
<1>10. InfoWord(a) = t.type /\ InfoWord(a + 4) = t.size
  <2>1. a \in Nat /\ a + 4 \in Nat /\ a < 4 * L
    BY <1>4, <1>8
  <2>2. InfoWord(a) = w(a) /\ InfoWord(a + 4) = w(a + 4)
    BY <1>7, <1>9, <2>1
  <2> QED
    BY <1>6, <2>2
<1>11. Add(a, TagStep(t.size)) = x.at[n + 1]
  <2>1. W \in Nat /\ 4 * E + 16 <= W
    <3>1. E \in Nat /\ E >= 5 /\ W = E * E * (4 * E)
      BY Sizes, LayoutAssumption
    <3>2. E * E >= 5 * E /\ E * E \in Nat
      BY <3>1, SMT
    <3>3. E * E * (4 * E) >= (5 * E) * (4 * E) /\ (5 * E) * (4 * E) = 20 * (E * E)
      BY <3>1, <3>2, SMT
    <3>4. W \in Nat
      BY SpaceAssumption
    <3> QED
      BY <3>1, <3>2, <3>3, <3>4
  <2>2. t.size \in Nat /\ t.size + 8 <= W
    <3>1. t.size \in Nat
      BY <1>5
    <3>2. a \in Nat /\ x.at[n + 1] \in Nat /\ x.at[n + 1] <= 4 * L /\ L \in Nat /\ L <= E /\ E \in Nat
      BY <1>1, <1>3, <1>4, Sizes
    <3> QED
      BY <1>9, <2>1, <3>1, <3>2
  <2>3. TagStep(t.size) = 8 * ((t.size + 7) \div 8)
    BY <2>2, RoundUp8
  <2>4. x.at[n + 1] < W /\ x.at[n + 1] \in Nat /\ a \in Nat
    BY <1>1, <1>3, <1>4, <2>1, Sizes
  <2> QED
    BY <1>6, <2>1, <2>3, <2>4 DEF Add
<1>12. t.type = Mmap => Entries(a, t.size, InfoWord(a + 8)) = t.entries
  <2> SUFFICES ASSUME t.type = Mmap PROVE Entries(a, t.size, InfoWord(a + 8)) = t.entries
    OBVIOUS
  <2> DEFINE c == Len(t.entries)
  <2>1. t.size \in Nat /\ t.entries \in Seq(Nat) /\ c \in Nat /\ a \in Nat /\ L \in Nat
    BY <1>3, <1>4, <1>5
  <2>2. a + 8 < 4 * L
    BY <1>3, <1>4, <1>6, <1>9, <2>1
  <2>3. InfoWord(a + 8) = step
    BY <1>7, <1>9, <2>1, <2>2 DEF step
  <2>4. step \in Nat \ {0} /\ step % 8 = 0 /\ t.size = 16 + c * step
    <3>1. step \in Nat
      <4>1. (a + 8) \div 4 + 1 \in 1..L
        BY <1>9, <2>1, <2>2
      <4> QED
        BY <1>1, <4>1 DEF w, L, step
    <3> QED
      BY <1>6, <3>1
  <2> HIDE DEF c, step
  <2>5. c * step \in Nat
    BY <2>1, <2>4, SMT
  <2>6. (IF t.size > 16 THEN (t.size - 16 + step - 1) \div step ELSE 0) = c
    <3>1. (c * step + (step - 1)) \div step = c
      <4> DEFINE r == step - 1
      <4>1. c \in Int /\ r \in Int /\ 0 <= r /\ r < step
        BY <2>1, <2>4
      <4> HIDE DEF r
      <4>2. (c * step + r) \div step = c
        BY <2>4, <4>1, DivMod
      <4> QED
        BY <4>2 DEF r
    <3>2. t.size - 16 + step - 1 = c * step + (step - 1)
      BY <2>4, <2>5
    <3>3. c # 0 => c * step >= step
      BY <2>1, <2>4, SMT
    <3>4. CASE c = 0
      BY <2>4, <2>5, <3>4
    <3>5. CASE c # 0
      BY <2>4, <2>5, <3>1, <3>2, <3>3, <3>5
    <3> QED
      BY <3>4, <3>5
  <2>7. ASSUME NEW e \in 1..c
        PROVE  InfoWord(a + 16 + (e - 1) * step) = t.entries[e]
    <3> DEFINE p == (e - 1) * step
    <3>1. p \in Nat /\ p + step <= c * step
      <4>1. (e - 1) * step + step = e * step /\ e * step <= c * step /\ (e - 1) * step \in Nat
        BY <2>1, <2>4, SMT
      <4> QED
        BY <4>1
    <3>2. p % 4 = 0
      <4>1. step = 4 * (2 * (step \div 8)) /\ step \div 8 \in Nat
        BY <2>4
      <4> DEFINE h == 2 * (step \div 8)
      <4>2. h \in Int /\ step = 4 * h
        BY <4>1
      <4> HIDE DEF h
      <4>3. (e - 1) * (4 * h) = ((e - 1) * h) * 4 + 0 /\ (e - 1) * h \in Int
        BY <4>2, SMT
      <4>4. (((e - 1) * h) * 4 + 0) % 4 = 0
        BY <4>3, DivMod
      <4> QED
        BY <4>2, <4>3, <4>4
    <3> HIDE DEF p
    <3>3. a + 16 + p \in Nat /\ (a + 16 + p) % 4 = 0 /\ a + 16 + p < 4 * L
      <4>1. x.at[n + 1] <= 4 * L /\ x.at[n + 1] \in Nat
        BY <1>4
      <4>2. a + 16 + p + step <= a + t.size
        BY <2>1, <2>4, <2>5, <3>1
      <4>3. a + 16 + p < 4 * L
        BY <1>9, <2>1, <2>4, <3>1, <4>1, <4>2
      <4>4. a % 4 = 0
        BY <1>9
      <4> QED
        BY <2>1, <3>1, <3>2, <4>3, <4>4
    <3>4. InfoWord(a + 16 + p) = w(a + 16 + p)
      BY <1>7, <3>3
    <3>5. t.entries[e] = w(a + 16 + p)
      BY <1>6 DEF c, p
    <3> QED
      BY <3>4, <3>5 DEF p
  <2>8. Entries(a, t.size, step) = [e \in 1..c |-> InfoWord(a + 16 + (e - 1) * step)]
    BY <2>6 DEF Entries
  <2>9. t.entries = [e \in 1..c |-> t.entries[e]]
    BY <2>1 DEF c
  <2> QED
    BY <2>3, <2>7, <2>8, <2>9
<1>13. Shown(a) = t
  <2>1. Shown(a) = [type |-> t.type, size |-> t.size, entries |-> t.entries]
    BY <1>6, <1>10, <1>12 DEF Shown
  <2> QED
    BY <1>5, <2>1
<1> QED
  <2>1. a \in Nat /\ 4 * L \in Nat
    BY <1>3, <1>4
  <2> QED
    BY <1>3, <1>8, <1>10, <1>11, <1>13, <2>1 DEF x, n, t
LEMMA TagInitInv == BootInit => TagInv
BY DEF BootInit, TagInv

LEMMA TagStepInv ==
  BootInv /\ BootInv' /\ TagInv /\ [BootNext]_<<bootvars, memvars>> => TagInv'
<1> SUFFICES ASSUME BootInv, BootInv', TagInv, [BootNext]_<<bootvars, memvars>>, Fit'
             PROVE  TagInv'
  BY DEF TagInv
<1>1. UNCHANGED info
  BY DEF BootNext, Boots, WrongMagic, CopyInfo, SetDirectory, FillEntry, SetHigh, EnablePaging,
         print_info, PrintStart, PrintTag, PrintEnd, Kernel, Halted, bootvars
<1>2. Fit /\ info \in Infos /\ LaidOut(info) /\ Len(info.tags) <= MaxShown /\ Len(info.words) <= E
  BY <1>1, TagAssumption DEF BootInv, Fit
<1>3. /\ info.words \in Seq(Nat) /\ Len(info.words) \in Nat
      /\ info.tags \in Seq([type : Nat, size : Nat, entries : Seq(Nat)]) /\ Len(info.tags) \in Nat
  BY <1>2, InfoAssumption, Elements, Zenon DEF LaidOut
<1>4. DOMAIN ram = 0..6*E-1 /\ E \in Nat /\ ram \in [0..6*E-1 -> Nat]
  BY Sizes DEF BootInv
<1>5. ASSUME NEW base \in {E, 5*E}, NEW last \in Nat, NEW frame, At(frame, 0) = base,
             ram' = Set(frame, Windows(last)), Copied
      PROVE  Copied'
  <2>1. \A k \in 0..6*E-1 : k - base \notin Slots => ram'[k] = ram[k]
    BY <1>4, <1>5, SetWords
  <2>2. ASSUME NEW k \in 0..Len(info.words)-1 PROVE ram'[k] = ram[k]
    <3>1. k \in 0..6*E-1 /\ k - base \notin 0..E-1
      BY <1>2, <1>3, <1>4, Sizes
    <3> QED
      BY <2>1, <3>1, SlotsApart
  <2> QED
    BY <1>1, <1>5, <2>2 DEF Copied
<1>6. CASE WrongMagic
  BY <1>1, <1>2, <1>6 DEF WrongMagic, TagInv
<1>7. CASE CopyInfo
  <2>1. pc = "entry" /\ pc' = "directory" /\ UNCHANGED shown
    BY <1>7 DEF CopyInfo
  <2>2. ram' = [k \in 0..6*E-1 |-> IF k < Len(info.words) THEN info.words[k + 1] ELSE ram[k]]
    BY <1>4, <1>7 DEF CopyInfo
  <2>3. ASSUME NEW k \in 0..Len(info.words)-1 PROVE ram'[k] = info.words[k + 1]
    <3>1. k \in 0..6*E-1 /\ k < Len(info.words)
      BY <1>2, <1>3, <1>4
    <3> QED
      BY <2>2, <3>1
  <2>4. Copied'
    BY <1>1, <2>3 DEF Copied
  <2> QED
    BY <1>2, <2>1, <2>4 DEF TagInv
<1>8. CASE SetDirectory
  <2>1. /\ pc = "directory" /\ pc' = "fill" /\ UNCHANGED shown
        /\ ram' = Set(Directory, Windows(High))
    BY <1>8 DEF SetDirectory
  <2>2. At(Directory, 0) = E /\ High \in Nat
    BY Places, Sizes
  <2>3. Copied'
    BY <1>2, <1>5, <2>1, <2>2 DEF TagInv
  <2> QED
    BY <1>2, <2>1, <2>3 DEF TagInv
<1>9. CASE FillEntry
  <2>1. /\ pc = "fill" /\ pc' \in {"fill", "high"} /\ UNCHANGED shown
        /\ ram' = [ram EXCEPT ![At(Table(0), i)] = Entry(i)] /\ i \in 0..3*E-1
    BY <1>9, <1>4 DEF FillEntry, BootInv
  <2>2. At(Table(0), i) = 2*E + i
    <3>1. i \in Int /\ 0 \in 0..2 /\ 0 * E + i = i
      BY <1>4, <2>1
    <3>2. At(Table(0), i) = 2*E + (0 * E + i)
      BY <3>1, Places
    <3> QED
      BY <3>1, <3>2
  <2>3. ASSUME NEW k \in 0..Len(info.words)-1 PROVE ram'[k] = ram[k]
    <3>1. k \in 0..6*E-1 /\ k # 2*E + i
      BY <1>2, <1>3, <1>4, <2>1
    <3> QED
      BY <1>4, <2>1, <2>2, <3>1
  <2>4. Copied
    BY <1>2, <2>1 DEF TagInv
  <2>5. Copied'
    BY <1>1, <2>3, <2>4 DEF Copied
  <2> QED
    BY <1>2, <2>1, <2>5 DEF TagInv
<1>10. CASE SetHigh
  <2>1. /\ pc = "high" /\ pc' = "paging" /\ UNCHANGED shown
        /\ ram' = Set(High, Windows(Directory))
    BY <1>10 DEF SetHigh
  <2>2. At(High, 0) = 5*E /\ Directory \in Nat
    BY Places, Sizes
  <2>3. Copied'
    BY <1>2, <1>5, <2>1, <2>2 DEF TagInv
  <2> QED
    BY <1>2, <2>1, <2>3 DEF TagInv
<1>11. CASE EnablePaging
  BY <1>1, <1>2, <1>11 DEF EnablePaging, TagInv, Copied
<1>12. CASE PrintStart
  <2>1. /\ pc = "main" /\ pc' = "info" /\ UNCHANGED ram /\ shown' = <<>> /\ idx' = 8
    BY <1>12 DEF PrintStart
  <2>2. info.at[1] = 8
    BY <1>2 DEF LaidOut
  <2>3. Len(shown') = 0 /\ 0 \in 0..Len(info.tags) /\ 0 + 1 = 1 /\ <<>> = SubSeq(info.tags, 1, 0)
    BY <1>3, <2>1
  <2>4. Copied'
    BY <1>1, <1>2, <2>1 DEF TagInv, Copied
  <2> QED
    BY <1>1, <2>1, <2>2, <2>3, <2>4, Zenon DEF TagInv
<1>13. CASE PrintTag
  <2> DEFINE n == Len(shown)
  <2>1. /\ pc = "info" /\ idx < InfoWord(0) /\ UNCHANGED <<pc, ram>>
        /\ idx' = Add(idx, TagStep(InfoWord(idx + 4)))
        /\ shown' = IF Len(shown) < MaxShown THEN Append(shown, Shown(idx)) ELSE shown
    BY <1>13 DEF PrintTag
  <2>2. n \in 0..Len(info.tags) /\ shown = SubSeq(info.tags, 1, n) /\ idx = info.at[n + 1] /\ Copied
    BY <1>2, <2>1 DEF TagInv
  <2>3. InfoWord(0) = 4 * Len(info.words)
    <3>1. 0 \in 0..Len(info.words)-1
      <4>1. info.words[1] = 4 * Len(info.words) /\ info.at[1] = 8
            /\ info.at \in Seq({a \in 8..4 * Len(info.words) : a % 8 = 0}) /\ Len(info.at) = Len(info.tags) + 1
        BY <1>2, InfoAssumption DEF LaidOut
      <4>2. 1 \in 1..Len(info.at)
        BY <1>3, <4>1
      <4>3. info.at[1] \in {a \in 8..4 * Len(info.words) : a % 8 = 0}
        BY <4>1, <4>2, Elements, Zenon
      <4> QED
        BY <1>3, <4>1, <4>3
    <3>2. InfoWord(4 * 0) = info.words[0 + 1]
      BY <1>2, <2>1, <3>1, InfoRead
    <3> QED
      BY <1>2, <3>2, InfoAssumption
  <2>4. n < Len(info.tags)
    <3>1. n # Len(info.tags)
      <4>1. info.at[Len(info.tags) + 1] = 4 * Len(info.words)
        BY <1>2 DEF LaidOut
      <4>2. n = Len(info.tags) => idx = InfoWord(0)
        <5>1. idx = info.at[n + 1]
          BY <2>2
        <5> QED
          BY <2>3, <4>1, <5>1, Zenon
      <4>3. Len(info.words) \in Nat
        BY <1>3
      <4>4. InfoWord(0) \in Nat /\ idx < InfoWord(0)
        BY <2>1, <2>3, <4>3
      <4> QED
        BY ONLY <4>2, <4>4
    <3> QED
      BY <1>3, <2>2, <3>1
  <2>5. Shown(idx) = info.tags[n + 1] /\ idx' = info.at[n + 2]
    BY <1>2, <2>1, <2>4, TagRead
  <2>6. shown' = Append(SubSeq(info.tags, 1, n), info.tags[n + 1])
    <3>1. n < MaxShown
      BY <1>2, <1>3, <2>2, <2>4, TagAssumption
    <3> QED
      BY <2>1, <2>2, <2>5, <3>1
  <2>7. shown' = SubSeq(info.tags, 1, n + 1) /\ Len(shown') = n + 1
    <3> HIDE DEF n
    <3>1. n + 1 \in 0..Len(info.tags)
      BY <1>3, <2>2, <2>4
    <3> QED
      <4> DEFINE all == info.tags
                 T == [type : Nat, size : Nat, entries : Seq(Nat)]
      <4>1. all \in Seq(T) /\ n \in 0..Len(all) /\ n < Len(all) /\ n + 1 \in 0..Len(all)
        BY <1>3, <2>2, <2>4, <3>1
      <4> HIDE DEF all, T
      <4>2. Append(SubSeq(all, 1, n), all[n + 1]) = SubSeq(all, 1, n + 1)
        BY <4>1, FirstOnes
      <4>3. Len(SubSeq(all, 1, n + 1)) = n + 1
        BY <4>1, FirstOnes
      <4> QED
        BY <2>6, <4>2, <4>3, Zenon DEF all
  <2>8. n + 1 \in 0..Len(info.tags) /\ n + 2 = (n + 1) + 1
    BY <1>3, <2>2, <2>4
  <2>9. Copied'
    BY <1>1, <2>1, <2>2 DEF Copied
  <2> QED
    BY <1>1, <2>1, <2>5, <2>7, <2>8, <2>9, Zenon DEF TagInv
<1>14. CASE PrintEnd
  <2> DEFINE n == Len(shown)
  <2>1. /\ pc = "info" /\ idx >= InfoWord(0) /\ pc' = "main" /\ UNCHANGED <<ram, shown>>
    BY <1>14 DEF PrintEnd
  <2>2. n \in 0..Len(info.tags) /\ shown = SubSeq(info.tags, 1, n) /\ Copied
    BY <1>2, <2>1 DEF TagInv
  <2>3. n = Len(info.tags)
    <3>1. ASSUME n < Len(info.tags)
          PROVE  idx \in Nat /\ InfoWord(0) \in Nat /\ idx < InfoWord(0)
      BY <1>2, <2>1, <3>1, TagRead
    <3>2. ~(n < Len(info.tags))
      BY <2>1, <3>1
    <3> QED
      BY <1>3, <2>2, <3>2
  <2>4. shown = info.tags
    BY <1>3, <2>2, <2>3, FirstOnes
  <2>5. Copied'
    BY <1>1, <2>1, <2>2 DEF Copied
  <2> QED
    BY <1>1, <2>1, <2>4, <2>5 DEF TagInv
<1>15. CASE UNCHANGED bootvars
  BY <1>2, <1>15 DEF bootvars, TagInv, Copied
<1> QED
  BY <1>6, <1>7, <1>8, <1>9, <1>10, <1>11, <1>12, <1>13, <1>14, <1>15
     DEF BootNext, Boots, Kernel, Halted, print_info

(* For every page size and every structure that fits its page, print_info  *)
(* shows the loader's tags in order, each memory map with all its entries, *)
(* and stops behind the last.                                              *)
THEOREM TagsAreShown == BootSpec => []TagsShown
<1>1. BootInv /\ TagInv => TagsShown
  <2> SUFFICES ASSUME BootInv, TagInv, Fit
               PROVE  /\ IsPrefix(shown, info.tags)
                      /\ pc = "main" /\ shown # <<>> => shown = info.tags
    BY DEF TagsShown
  <2>1. info.tags \in Seq([type : Nat, size : Nat, entries : Seq(Nat)])
    BY TagAssumption DEF BootInv, Fit, LaidOut
  <2>2. Len(info.tags) \in Nat
    BY <2>1
  <2>3. \E n \in 0..Len(info.tags) : shown = SubSeq(info.tags, 1, n)
    <3>1. 0 \in 0..Len(info.tags) /\ Len(info.tags) \in 0..Len(info.tags)
      BY <2>2
    <3>2. <<>> = SubSeq(info.tags, 1, 0) /\ info.tags = SubSeq(info.tags, 1, Len(info.tags))
      BY <2>1, <3>1, FirstOnes
    <3> QED
      BY <3>1, <3>2 DEF TagInv
  <2>4. PICK n \in 0..Len(info.tags) : shown = SubSeq(info.tags, 1, n)
    BY <2>3
  <2>5. Len(shown) = n /\ SubSeq(shown, 1, Len(shown)) = shown
    BY <2>1, <2>4, FirstOnes
  <2>6. IsPrefix(shown, info.tags)
    BY <2>2, <2>4, <2>5 DEF IsPrefix
  <2> QED
    BY <2>6 DEF TagInv
<1> QED
  BY <1>1, TagInitInv, TagStepInv, BootInvariance, BootInitInv, BootStepInv, PTL DEF BootSpec
=============================================================================
