------------------------------- MODULE Memory -------------------------------
(***************************************************************************)
(* The kernel heap of memory.c: a list of free blocks, each with an        *)
(* eight-byte header in its first bytes, from which alloc cuts blocks that *)
(* are never given back.  All callers run on the main thread of control,   *)
(* so alloc is one step.                                                   *)
(*                                                                         *)
(* The list behind high_mem is the sequence free; W stands for 2^32, the   *)
(* size of the address space, scaled down for model checking.              *)
(***************************************************************************)
EXTENDS Integers, Sequences

CONSTANTS
  W,            \* 2^32: addresses and sizes are uint32_t
  KernelEnd,    \* the linker's symbol
  HeapEnd,      \* 0xC0C00000, the end of the mapped memory
  Requests,     \* sizes the callers ask for
  Aligns        \* alignments the callers ask for (the code has only 1)

ASSUME SpaceAssumption ==
  /\ W \in Nat /\ KernelEnd \in Nat \ {0} /\ HeapEnd \in Nat
  /\ HeapEnd % 16 = 0
  /\ KernelEnd + 31 <= HeapEnd
  /\ HeapEnd + 16 <= W
ASSUME RequestAssumption ==
  /\ Requests \subseteq 1..W-16
  /\ Aligns \subseteq {1, 2, 4, 8, 16}

VARIABLES
  free,    \* the blocks from high_mem on: [addr, size]
  live,    \* history: the blocks handed out, in order
  ret      \* history: the latest call, [request, addr], addr 0 for failure

memvars == <<free, live, ret>>

(* uint32_t addition and subtraction. *)
Add(x, y) == IF x + y < W THEN x + y ELSE x + y - W
Sub(x, y) == IF x >= y THEN x - y ELSE x - y + W

(* Faulty: rounds a multiple of size up to the next one. *)
RoundPast(addr, size) == LET y == Add(addr, size) IN y - (y % size)

(* (addr+(size-1))&~(size-1), for size a power of two *)
round_up(addr, size) == LET y == Add(addr, size - 1) IN y - (y % size)

HeapStart == round_up(KernelEnd, 16)

init_mem ==
  /\ free = <<[addr |-> HeapStart, size |-> Sub(HeapEnd, HeapStart)]>>
  /\ live = <<>>
  /\ ret = [request |-> 0, addr |-> 0]

Lost(b, align) == Sub(round_up(b.addr, align), b.addr)

(* Faulty: a block that the request fills exactly is taken too. *)
FitsExactly(b, size, align) ==
  b.size >= size /\ Sub(b.size, Lost(b, align)) >= size

(* The two tests a block must pass; the second is strict, so that a header *)
(* fits behind the block cut off.                                          *)
Fits(b, size, align) ==
  b.size >= size /\ Sub(b.size, Lost(b, align)) > size

(* The block that the walk from high_mem stops at. *)
FirstFit(size, align) ==
  CHOOSE k \in 1..Len(free) :
    /\ Fits(free[k], size, align)
    /\ \A j \in 1..k-1 : ~Fits(free[j], size, align)

(* Faulty: the remainder keeps the size of the block it was cut from. *)
RestUnshrunk(b, cut) == [addr |-> Add(b.addr, cut), size |-> b.size]

(* What is left of block b behind its first cut bytes. *)
Rest(b, cut) == [addr |-> Add(b.addr, cut), size |-> Sub(b.size, cut)]

(* With at least 16 bytes lost to alignment the block is split in three    *)
(* and its front stays in the list.  Otherwise the remainder becomes       *)
(* high_mem itself, and the address returned is the old high_mem.          *)
Cut(k, size, align) ==
  LET b    == free[k]
      lost == Lost(b, align)
      tail == SubSeq(free, k + 1, Len(free))
  IN  IF lost >= 16
        THEN [list |-> SubSeq(free, 1, k - 1)
                         \o <<[b EXCEPT !.size = lost], Rest(b, lost + size)>> \o tail,
              addr |-> Add(b.addr, lost)]
        ELSE [list |-> <<Rest(b, size)>> \o tail,
              addr |-> free[1].addr]

AllocOk(n, align) ==
  LET size == round_up(n, 16) IN
  /\ \E k \in 1..Len(free) : Fits(free[k], size, align)
  /\ LET r == Cut(FirstFit(size, align), size, align) IN
       /\ free' = r.list
       /\ live' = Append(live, [addr |-> r.addr, size |-> n])
       /\ ret' = [request |-> n, addr |-> r.addr]

AllocFails(n, align) ==
  /\ \A k \in 1..Len(free) : ~Fits(free[k], round_up(n, 16), align)
  /\ ret' = [request |-> n, addr |-> 0]
  /\ UNCHANGED <<free, live>>

alloc(n, align) == AllocOk(n, align) \/ AllocFails(n, align)

Next == \E n \in Requests, align \in Aligns : alloc(n, align)

Spec == init_mem /\ [][Next]_memvars

-----------------------------------------------------------------------------
(* Properties *)

Blocks == [addr : 0..W-1, size : 0..W-1]

TypeOK ==
  /\ free \in Seq(Blocks)
  /\ live \in Seq(Blocks)
  /\ ret \in [request : 0..W-1, addr : 0..W-1]

Apart(b, d) == b.addr + b.size <= d.addr \/ d.addr + d.size <= b.addr

(* No two blocks handed out overlap, and none reaches past the end of the  *)
(* mapped heap or below its start.                                         *)
LiveDisjoint ==
  \A i \in 1..Len(live) :
    /\ HeapStart <= live[i].addr /\ live[i].addr + live[i].size <= HeapEnd
    /\ \A j \in 1..i-1 : Apart(live[i], live[j])

(* alloc writes the header of the remainder inside the heap and never into *)
(* a block it handed out, however many calls came before: the next alloc   *)
(* reads that header back.                                                 *)
HeadersSafe ==
  \A i \in 1..Len(free) :
    LET hdr == [addr |-> free[i].addr, size |-> 8] IN
    /\ HeapStart <= hdr.addr /\ hdr.addr + hdr.size <= HeapEnd
    /\ \A j \in 1..Len(live) : Apart(live[j], hdr)

(* Every block starts at a multiple of 16, so of every alignment a caller  *)
(* can ask for.                                                            *)
LiveAligned == \A i \in 1..Len(live) : live[i].addr % 16 = 0

(* A call fails only when what is left could not hold the request and one  *)
(* more header: no memory is lost to earlier calls.                        *)
NoEarlyFailure ==
  ret.request # 0 /\ ret.addr = 0 =>
    \E e \in {HeapStart} \cup {live[i].addr + live[i].size : i \in 1..Len(live)} :
      HeapEnd - e <= ret.request + 30
=============================================================================
