-------------------------------- MODULE Boot --------------------------------
(***************************************************************************)
(* The entry of boot.S: the boot loader's information is copied into the   *)
(* page before the page tables, the tables are filled and paging is        *)
(* turned on.  Then the kernel runs, and with it the three pieces of code  *)
(* that depend on this layout: alloc of module Memory, whose blocks lie in *)
(* the window mapped here; get_physaddr of paging.c, which finds for the   *)
(* network card where a block is; and print_info of print_info.c, which    *)
(* walks the copied information.                                           *)
(*                                                                         *)
(* Addresses are bytes and a word has four of them; E stands for 1024 and  *)
(* scales the page and the address space.  The six pages from              *)
(* multiboot_info on are kept word by word in ram; the stack behind them,  *)
(* which nobody uses yet, is not kept.                                     *)
(***************************************************************************)
EXTENDS Memory, SequencesExt

CONSTANTS
  E,          \* entries of a page table
  Window,     \* 0x300, the directory entry of the kernel's first page table
  InfoFrame,  \* the physical page of multiboot_info
  Infos,      \* what a boot loader can hand over: [words, tags, at]
  MaxShown    \* bound: tags of a spoilt structure that are remembered

Page   == 4 * E
Offset == Window * E * Page

ASSUME LayoutAssumption ==
  /\ E \in Nat /\ Window \in 1..E-4
  /\ W = E * E * Page /\ HeapEnd = Offset + 3 * E * Page
  /\ InfoFrame \in Nat /\ Offset + (InfoFrame + 6) * Page <= KernelEnd

(* The size in the first word is the size of the structure, and the copy   *)
(* ends at the latest in the stack, which is 16 pages long.                *)
ASSUME InfoAssumption ==
  \A x \in Infos :
    x.words \in Seq(Nat) /\ x.words[1] = 4 * Len(x.words) /\ Len(x.words) <= 22 * E

Mmap == 6

(* A structure as a multiboot loader lays it out: tag n is at byte at[n],  *)
(* each at the next multiple of eight behind the one before it, and the    *)
(* last ends the structure.  A tag begins with its type and its size; the  *)
(* third word of a memory map is the size of an entry, and its entries     *)
(* begin at byte 16.                                                       *)
LaidOut(x) ==
  LET n    == Len(x.tags)
      w(a) == x.words[a \div 4 + 1]
  IN  /\ x.tags \in Seq([type : Nat, size : Nat, entries : Seq(Nat)])
      /\ x.at \in Seq({a \in 8..4 * Len(x.words) : a % 8 = 0})
      /\ Len(x.at) = n + 1 /\ x.at[1] = 8 /\ x.at[n + 1] = 4 * Len(x.words)
      /\ \A k \in 1..n :
           LET a == x.at[k] t == x.tags[k] step == w(a + 8) IN
           /\ t.type = w(a) /\ t.size = w(a + 4) /\ t.size >= 8
           /\ x.at[k + 1] = a + 8 * ((t.size + 7) \div 8)
           /\ IF t.type = Mmap
                THEN /\ t.size >= 16 /\ step > 0 /\ step % 8 = 0
                     /\ t.size = 16 + Len(t.entries) * step
                     /\ \A e \in 1..Len(t.entries) :
                          t.entries[e] = w(a + 16 + (e - 1) * step)
                ELSE t.entries = <<>>

(* A structure that fits its page is whole when print_info walks it. *)
ASSUME TagAssumption ==
  /\ MaxShown \in Nat
  /\ \A x \in Infos : Len(x.words) <= E => LaidOut(x) /\ Len(x.tags) <= MaxShown

VARIABLES
  pc,      \* where the processor is
  info,    \* the structure at %ebx
  ram,     \* the words from multiboot_info on
  i,       \* the round of the loop that fills the page tables
  cr3,     \* the page of the directory, once paging is on
  idx,     \* print_info's local
  shown    \* history: what print_info printed of each tag

bootvars == <<pc, info, ram, i, cr3, idx, shown>>

-----------------------------------------------------------------------------
(* The tables *)

Directory == InfoFrame + 1     \* page_directory
Table(n)  == InfoFrame + 2 + n \* page_table0, page_table1, page_table2
High      == InfoFrame + 5     \* page_table_high

(* Present and writable. *)
Entry(frame) == frame * Page + 3

At(frame, k) == (frame - InfoFrame) * E + k

(* The words of a table that the boot code sets one by one. *)
Set(frame, entries) ==
  [k \in DOMAIN ram |->
     LET e == k - At(frame, 0) IN
     IF e \in DOMAIN entries THEN Entry(entries[e]) ELSE ram[k]]

Windows(last) ==
  [e \in {0, Window, Window + 1, Window + 2, E - 1} |->
     CASE e \in {0, Window} -> Table(0)
       [] e = Window + 1    -> Table(1)
       [] e = Window + 2    -> Table(2)
       [] OTHER             -> last]

(* Faulty: the tables of the window are not entered in page_table_high. *)
SetHighShort ==
  /\ pc = "high" /\ pc' = "paging"
  /\ ram' = Set(High, 0 :> Table(0) @@ (E - 1) :> Directory)
  /\ UNCHANGED <<info, i, cr3, idx, shown>>

-----------------------------------------------------------------------------
(* The processor's memory management *)

Fault == -1

(* A word of physical memory.  What lies outside the six pages is read     *)
(* only where a spoilt directory leads, and no property looks there.       *)
Word(frame, k) == IF At(frame, k) \in DOMAIN ram THEN ram[At(frame, k)] ELSE 0

Walk(va) ==
  LET pde == Word(cr3, va \div (E * Page))
      pte == Word(pde \div Page, (va \div Page) % E)
  IN  IF pde % 2 = 0 \/ pte % 2 = 0 THEN Fault
      ELSE pte - (pte % Page) + (va % Page)

Load(va) ==
  LET p == Walk(va)
  IN  IF p = Fault THEN Fault ELSE Word(p \div Page, (p % Page) \div 4)

-----------------------------------------------------------------------------
(* boot.S *)

BootInit ==
  /\ init_mem  \* what cmain will assign; nothing before it looks there
  /\ pc = "entry" /\ info \in Infos
  /\ ram = [k \in 0..6*E-1 |-> 0]
  /\ i = 0 /\ cr3 = 0 /\ idx = 0 /\ shown = <<>>

(* Not started by a multiboot loader: cli, hlt. *)
WrongMagic ==
  /\ pc = "entry" /\ pc' = "exit"
  /\ UNCHANGED <<info, ram, i, cr3, idx, shown>>

(* rep movsb, as many bytes as the first word says *)
CopyInfo ==
  /\ pc = "entry" /\ pc' = "directory"
  /\ ram' = [k \in DOMAIN ram |-> IF k < Len(info.words) THEN info.words[k + 1] ELSE ram[k]]
  /\ UNCHANGED <<info, i, cr3, idx, shown>>

SetDirectory ==
  /\ pc = "directory" /\ pc' = "fill"
  /\ ram' = Set(Directory, Windows(High))
  /\ UNCHANGED <<info, i, cr3, idx, shown>>

(* Faulty: two tables instead of three. *)
FilledTwo == i + 1 = 2 * E

(* dec %ecx, jnz *)
Filled == i + 1 = 3 * E

FillEntry ==
  /\ pc = "fill" /\ pc' = IF Filled THEN "high" ELSE "fill"
  /\ ram' = [ram EXCEPT ![At(Table(0), i)] = Entry(i)]
  /\ i' = i + 1
  /\ UNCHANGED <<info, cr3, idx, shown>>

SetHigh ==
  /\ pc = "high" /\ pc' = "paging"
  /\ ram' = Set(High, Windows(Directory))
  /\ UNCHANGED <<info, i, cr3, idx, shown>>

(* cr3, cr0, the jump into the window and the call of cmain *)
EnablePaging ==
  /\ pc = "paging" /\ pc' = "main"
  /\ cr3' = Directory
  /\ UNCHANGED <<info, ram, i, idx, shown>>

-----------------------------------------------------------------------------
(* paging.c *)

get_physaddr(va) ==
  LET pdidx == va \div (E * Page)
      ptidx == (va \div Page) % E
      pde   == Load(W - Page + 4 * pdidx)
      pte   == Load(W - E * Page + Page * pdidx + 4 * ptidx)
  IN  IF pde = Fault THEN Fault      ELSE
      IF pde % 2 = 0 THEN 0          ELSE
      IF pte = Fault THEN Fault      ELSE
      IF pte % 2 = 0 THEN 0          ELSE pte - (pte % Page) + (va % Page)

-----------------------------------------------------------------------------
(* print_info.c *)

InfoWord(at) == Load(Offset + InfoFrame * Page + at)

(* Faulty: tags are taken to follow each other without padding. *)
TagStepBare(size) == size

(* (tag_size+7)&~7 *)
TagStep(size) == round_up(size, 8)

(* The first words of the entries that lie in the tag of a memory map. *)
Entries(at, size, step) ==
  LET n == IF size > 16 THEN (size - 16 + step - 1) \div step ELSE 0
  IN  [k \in 1..n |-> InfoWord(at + 16 + (k - 1) * step)]

Shown(at) ==
  [type |-> InfoWord(at), size |-> InfoWord(at + 4),
   entries |-> IF InfoWord(at) = Mmap
                 THEN Entries(at, InfoWord(at + 4), InfoWord(at + 8)) ELSE <<>>]

PrintStart ==
  /\ pc = "main" /\ pc' = "info"
  /\ idx' = 8 /\ shown' = <<>>
  /\ UNCHANGED <<info, ram, i, cr3>>

PrintTag ==
  /\ pc = "info" /\ idx < InfoWord(0)
  /\ idx' = Add(idx, TagStep(InfoWord(idx + 4)))
  /\ shown' = IF Len(shown) < MaxShown THEN Append(shown, Shown(idx)) ELSE shown
  /\ UNCHANGED <<pc, info, ram, i, cr3>>

PrintEnd ==
  /\ pc = "info" /\ idx >= InfoWord(0)
  /\ pc' = "main"
  /\ UNCHANGED <<info, ram, i, cr3, idx, shown>>

print_info == PrintStart \/ PrintTag \/ PrintEnd

-----------------------------------------------------------------------------
Kernel == pc = "main" /\ Next /\ UNCHANGED bootvars

Boots == WrongMagic \/ CopyInfo \/ SetDirectory \/ FillEntry \/ SetHigh \/ EnablePaging

Halted == pc = "exit" /\ UNCHANGED <<bootvars, memvars>>

BootNext ==
  \/ (Boots \/ print_info) /\ UNCHANGED memvars
  \/ Kernel
  \/ Halted

BootSpec == BootInit /\ [][BootNext]_<<bootvars, memvars>>

-----------------------------------------------------------------------------
(* Properties *)

Running == pc = "main"            \* cmain and what it calls
Fit     == Len(info.words) <= E   \* the information fits its page

(* The kernel's window is mapped, page for page, to the first memory, and  *)
(* its first 4 MB also where they were before paging (the next instruction *)
(* runs there, and cmain reads 0x46c), however large the boot information  *)
(* was and whatever it left in the tables that boot.S does not clear.      *)
KernelMapped ==
  Running =>
    /\ \A n \in 0..3*E-1 : Walk(Offset + n * Page) = n * Page
    /\ \A n \in 0..E-1   : Walk(n * Page) = n * Page

(* Every byte of a block that alloc handed out is where get_physaddr says: *)
(* the block is contiguous for the card too.  With boot information that   *)
(* fits its page get_physaddr agrees with the processor about every page   *)
(* but the last: 0 for what is not mapped, and its own reads never fault.  *)
PhysRight ==
  Running =>
    /\ \A b \in Range(live) :
         \A a \in b.addr..b.addr + b.size - 1 :
           LET p == get_physaddr(a) IN p = a - Offset /\ p = Walk(a)
    /\ Fit => \A n \in 0..E*E-2 :
         LET p == Walk(n * Page)
         IN  get_physaddr(n * Page) = IF p = Fault THEN 0 ELSE p

(* print_info shows the boot loader's tags one after the other, the memory *)
(* map with all its entries, and stops behind the last, if the information *)
(* fits its page: the tables built behind it leave it alone.               *)
TagsShown ==
  Fit => /\ IsPrefix(shown, info.tags)
         /\ pc = "main" /\ shown # <<>> => shown = info.tags
=============================================================================
