# FrogOS in TLA+

FrogOS is a small 32-bit x86 kernel (C and assembly): it boots through
multiboot, sets up interrupts, a heap, a keyboard driver and a PCnet network
driver that answers ARP and ping, and then runs a command loop in `cmain`.
There is one processor and one thread of control. Everything concurrent comes
from interrupt handlers, which run between any two instructions of the main
program while the interrupt flag is set, and from the network card, which works
on memory in parallel with the processor.

This directory holds TLA+ models of the kernel's parts, TLC configurations that
check them on small instances, and proofs, checked by TLAPS, that hold for every
size of the rings, queues, heap and machine word.

## The system

| Part | State | Operations | Models |
|---|---|---|---|
| Key queue and command loop (`keyboard.c`, `cmain.c`) | `kbd_buffer`, `kbd_size`, `kbd_head`, `kbd_tail`, interrupt flag | `kbd_enqueue` (in the handler), `kbd_isempty`, `kbd_dequeue`, the loop with `hlt` | `KbdRing`, `KbdQueue` |
| Scan code decoder (`keyboard.c`) | `kbd_state`, `kbd_shiftstate` | `decode`, one byte for each interrupt | `KbdDecode`, `KeyEvents` |
| Interrupts (`irq.c`, `irq_asm.S`) | handler lists, mask registers | install, uninstall, dispatch, end of interrupt, `int $48` | `Irq` |
| Kernel heap (`memory.c`) | free list inside the blocks | `init_mem`, `alloc` | `Memory` |
| Network driver (`pcnet32.c`, `net.c`) | two descriptor rings, CSR0, `needs_work`, buffer pool | interrupt handler, `pcnet32_do_irq_work`, `pcnet32_tx_packet`, `net_process` | `Pcnet32` |
| Console (`lib/conio.c`) | video memory, `csr_x`, `csr_y` | `cls`, `putch`, `scroll`, `move_csr`, `puts` | `Console`, `Terminal` |
| Protocols (`ether.c`, `arp.c`, `ipv4.c`, `icmp.c`) | none but the frame and a reply buffer | dispatch, replies, `ip_cksum` | `NetStack` |
| Driver probe (`pcnet32.c`) | card registers, initialisation block | reset, chip version, INIT, STOP, START | `Probe` |
| PCI (`pci.c`) | `pcidevs`, `numdevs`, configuration registers | configuration accesses, recursive scan, probe of each PCnet | `Pci` (extends `Probe` and `PciConfig`) |
| Boot, paging (`boot.S`, `paging.c`) | copied boot information, page tables, CR3 | entry, set-up, `get_physaddr` | `Boot` (extends `Memory`) |
| Boot information (`print_info.c`) | the copy | `print_info` | `Boot` |
| Timer (`pit.c`, `lib/sleep.c`) | `pit_counter` | `set_pit`, tick, `usleep` | `Sleep` |
| 64-bit division (`lib/gcc.c`) | none | `__udivmoddi4` and its wrappers | `Udivmod` |
| printf (`lib/printf.c`) | the caller's buffer | the `printf` family | `Printf`, `CFormat` |

**How the parts interact.** `irq.c` dispatches each interrupt to a list of
handlers. The keyboard's handler decodes one byte and may enqueue a key; the
network handler acknowledges the card and sets `needs_work`; the timer's counts.
The main loop polls the key queue and `needs_work`, does all the real work, and
halts until the next interrupt. `net_process` calls the driver, which calls the
protocol code for every received frame, which takes a buffer of the pool and
calls the driver back to send a reply. The pool and the driver's structures come
from the heap, and the card is told their physical addresses by `get_physaddr`,
which reads the page tables that `boot.S` built. Everyone prints through `putch`, a
handler among them.

**What is hard here.** Queues shared by a handler and the main loop, with and
without `cli`; a sleep (`hlt`) that can begin just after the event it should wait
for; descriptor rings shared with hardware through one OWN bit; a status register
acknowledged by writing ones; handler lists changed while interrupts are on;
byte sequences whose position is kept in a variable between interrupts; an
allocator at exhaustion; non-reentrant output called from a handler; a 64-bit
counter read in two halves under interrupts; tables that are read back through
the mapping they define; numbers at the ends of their range. There is no
persistent state, so there is no crash recovery. `PROJECT.json` lists each hazard
at its line with the properties that cover it.

## The modules

### KbdRing, KbdQueue, Ring

`KbdRing` has the four variables of the ring, the interrupt flag and the place
of the command loop, one action for each statement: `kbd_isempty` (the poll),
`DequeueTest` (the test before `disable()`), `Disable`, `TakeKey`, `LoadSize` and
`StoreSize` (`--kbd_size`, as a read and a write), `Enable`, `Dispatch`, `Hlt`. The
handler (`KbdIrq`) is one step, because an interrupt gate clears the flag, and is
enabled whenever the flag is set. Commands are kept as far as they change
control: `c` clears the flag, `h` leaves the loop, `r` and `z` may or may not stop
the machine. What a command prints is left out.

`KbdQueue` is the promise: a FIFO queue of bounded capacity that discards a key
only when full. `KbdRing` implements it under the mapping that reads the ring
from its oldest slot (`QueueView`) and counts a key as removed when the size is
written back. `Ring` has the index arithmetic used by all the rings.

The accesses are modelled in source order. `disable()` and `enable()`
(`include/system.h`) do not tell the compiler that memory changes, so the
language would allow another order; the code that gcc produces at the Makefile's
`-O3` keeps it for `kbd_dequeue`, `install_irq_handler`,
`pcnet32_do_irq_work`, `pcnet32_tx_packet` and `putch`.

### KbdDecode, KeyEvents

`decode` with its states, one action (`kbd_handler`) for each byte. The keyboard
is the environment: a table of 29 key events and their bytes in scan code set 1.
`Lose` drops a byte anywhere in a sequence, which is what the ERROR branch of `decode`
is there for; it is the environment's doing, not the kernel's (a byte that comes
between unmasking and linking is not dropped but blocks the controller, see `Irq`).
`Lookup` models the unchecked index: codes from 0x59 on read whatever lies behind
the table, so for such a key (F13) nothing is claimed but that it does at most one
thing. `KeyEvents` says what events mean, key by key instead of byte by byte.

Two habits of keyboards are misread by the code. The fake shift at the end of a
shifted arrow's release (E0 C8 **E0 2A**) is taken for the start of Print Screen;
the model has this event, and `Resync` shows that it stops to matter after a few
events. The arrow sent as E0 2A E0 48 while NumLock is on is read as the keypad's 8;
this event is left out of the table. The kernel's input is any subset of the table
(`EventAssumption`).

### Irq

The lists (`irq_handlers` and the `next` fields), both 8259 controllers as far as
the code depends on them (mask, request and in-service registers, priorities,
the cascade, edge and level triggering, the non-specific end of interrupt), the
dispatcher handler by handler, `install_irq_handler` and
`uninstall_irq_handler` statement by statement, `int $48` and exceptions. The
handlers on a line (`Chain`) are the smallest set that holds the head of its list
and is closed under `next`; written this way, without recursion, the lists can be
reasoned about. A device that is not a
pulse keeps its line up until its handler has run, and an edge-triggered line
gives no second edge meanwhile. That level-triggered devices are quiet while they
have no handler is assumed, as `probe_pcnet32` installs before it starts the card.

### Memory

`alloc` over the list of free blocks, with 32-bit arithmetic modulo `W`. Every
caller runs in the main program, so a call is one step. Both branches are there:
the split in three after a loss to alignment, and the other one, which returns
the address of the list's head rather than of the block it found. The second is
right only while the head is the block found. The proof shows that it is, for
alignments up to 16; all callers use 1.

### Boot

`Boot` puts the start of the machine in front of `Memory`: the copy of the boot
information (`CopyInfo`), the page directory (`SetDirectory`), the loop that fills
three tables (`FillEntry`), the second level for reading tables back
(`SetHigh`), CR3; then the kernel, that is `alloc` of `Memory` and `print_info`. The six
pages from `multiboot_info` on are kept word by word, because the copy takes as many
bytes as the loader says: a long structure runs over the tables, and `boot.S`
clears none of the words it does not set. `Walk` is the processor's translation
(external); `get_physaddr` reads the directory and the tables through it, at the
addresses the code uses, and `print_info` reads the copy through it. `E` scales the
1024 entries of a table, and with it page and address space.

`get_physaddr` is right about all pages but the last of the address space: there
the window shows `page_table_high` where the processor uses `page_directory`, and the
function gives the page of the former. Nobody asks for that page. With boot
information longer than a page, leftover words look like entries and
`get_physaddr` may fault outside the kernel's window; inside it is always right.

What `print_info` is to show is stated from the loader's side: `LaidOut` says where the
multiboot specification puts each tag (`at`), its type, its size and the entries of a
memory map, and the code's own walk by sizes has to find them. Structures that fit
their page are assumed to be laid out so (`TagAssumption`); longer ones are arbitrary.

### Pcnet32

Four parties: the card's receiver and transmitter, the interrupt handler (its
read and its write of CSR0 are two steps, between which the card may set bits),
and the main loop (`net_process`, `pcnet32_do_irq_work` descriptor by descriptor,
`pcnet32_tx_packet` by test, copy, length and OWN). The card sends what the
descriptor says at the moment it looks, so a reply handed over before its copy or
its length is complete would not be the reply that was queued. CSR0 is the set of its bits; a status
bit is cleared by writing it, so the handler also clears a bit that was set after
its read. Frames are numbered by arrival; whether a frame is answered is chosen
freely. The pool is counted, with the buffer that is lost when the ring is full.

### Console, Terminal

`putch` by its stores: the cell, `csr_x`, the wrap, `csr_y`, the scroll's copy, its
blank line, the reset of `csr_y`, the hardware cursor. The copy and the blanking
are one step each. A handler that prints (`pcnet32_irq_handler` does) runs
between any two steps. The cursor variables are not volatile, so each use may
take the value loaded at the start or the one in memory. `Terminal` is the
reference: what a terminal with rows and columns does with a character. Control
characters that `putch` ignores are left out.

### NetStack

From a received frame to the reply on the wire: `ether_process_frame`, ARP, IPv4,
ICMP, the buffer list of `net.c` and the hand-over to the driver. All of it runs
in the main loop, so a frame is one step. Payloads are sequences of 16-bit words
in the real layout, because checksums, byte order and left-over contents are what
can go wrong. A buffer keeps its contents: fields that the code does not write
(`tos`, `frag_off`, the checksum before it is computed) are those of its last use,
and the heap's memory is not clean. `Reply` chooses freely whether the transmit
ring has room (module `Pcnet32` says when) and leaves the buffer with nobody if
not. The reference for the checksum is arithmetic modulo 65535, not the code's loop
(`Sums` adds the words, `carry` folds the carries back until none is left).

`FrameAssumption` says that fields are words of 16 bits and a payload fits a buffer, so
that the 32-bit sum cannot overflow, and one thing more. The code accepts a header with
options but takes the message at byte 20, where the options are. An option of type 8
there would be answered as an echo request; the standard defines no such option
(the stream identifier, number 8, has type 136), and frames with one are assumed away.

### Probe, PciConfig, Pci

`Probe` is `probe_pcnet32` with the card working in parallel and every allocation
free to fail; steps that concern neither the card nor shared tables are joined.
What it leaves behind when it succeeds, with an initialised card, is the initial
state of `Pcnet32`. `PciConfig` has the address and data registers of the
configuration space, the fields read through them, and `pci_adjust`; registers are
plain storage, although the status bits that `pci_adjust` writes back would be
cleared in a card: nobody looks at them. `Pci` adds the
recursion of `pci.c`, as a stack of places in the loops of `checkBus` and
`checkDevice`, and the call of `pci_adjust` in the probe. A machine is the contents of
its registers. A function that is absent reads as 0xFFFF everywhere, also as
"multifunction", so the order of the tests matters. `Configured` is what the scan takes
for granted: the firmware has numbered the buses, each bridge's differently and none
0; a PCnet card's first base address register is the port of its own card; and the
functions of the machine fit the table `pcidevs`, whose index the code does not check
(one of the hazards without a property). `FindsEachOnce` compares the table with the
machine itself, whose functions and bridges are defined without the accessors of `pci.c`.
The loop of `checkAllBuses` for
host bridges with several functions (`function>8`) never runs; the model says so.

### Sleep, Udivmod, Printf, CFormat

`Sleep` has `set_pit`, the tick and `usleep`, whose reads of the 64-bit counter are two
steps, low half first, as gcc emits them at `-O3 -m32`; the tick may come between.
`ticked` states that two ticks are not closer than the steps of the program. The
call subtracts 10 for each tick of 10 ms, so it counts in milliseconds, whatever
its name says. `set_pit` writes the mode byte to port 0x42 instead of the command
port 0x43.

`Udivmod` is `__udivmoddi4`, one step per turn of each of its two loops. A divisor
of 0 ends in the trap the code provokes.

`Printf` is `_vsnprintf` and the functions it calls, one step for each turn of its loop,
with the buffer filled backwards and then reversed as the code does it. Arguments
are the words that `va_arg` takes from the stack, so that a directive that takes
too many or too few spoils the next. The values of `%f` are multiples of 1/8,
whose binary form is exact. `CFormat` is the reference: what the C standard says
of a directive, computed from its parts rather than from text. The model was also
compared with the compiled `printf.c`, its buffers reduced to the model's 8
characters, on about 33,300 directives; they agree.

`Formatted` is claimed for the directives `CFormat` calls `Conforming`. The others
are modelled but differ from the standard: `%-5.3d` prints no zeros for the
precision; `%#3x` of 0xabc prints `0xc`, since the prefix takes the place of digits
when the width equals their number; `%#06b` is one character too long and `%#.5o`
has a zero too many; a negative precision given by `*` counts as 0 instead of as
absent; numbers longer than the 32-character buffer are cut. Two places are
outside the model: a format that ends with `%` is read behind its end, and `%f`
with a precision of 42 or more indexes `pow10` behind its end, in spite of the
comment "limit precision to 9", since the loop that reduces the precision also stops
when the buffer is full.

## The runs

| Run | What it checks | Bounds |
|---|---|---|
| `kbd_ring` | FIFO delivery, no phantom key, sleeping safely, refinement of `KbdQueue`, every accepted key dispatched | 2 slots, 4 keys: the ring fills, overflows and wraps |
| `kbd_decode` | `EffectsExact`: each event that starts at rest and arrives whole does what it means, all with its last byte; `Resync`: in step again after at most 3 whole events | all 29 events, 4 in a row, 5 lost bytes |
| `irq` | sound lists, safe walks, masks, end of interrupt, lost requests, service | timer, keyboard, two cards on one slave line, `int $48`; 4 calls, 2 requests |
| `memory` | from `boot.S` on: the kernel stays mapped, `get_physaddr` is right for every block, `print_info` shows the loader's tags; disjoint blocks, safe headers, failure only when full | tables of 16 entries, boot information that fits its page exactly, less, and twice too long; a heap of 112 bytes with unaligned start, requests below, at and above 16, to exhaustion |
| `pcnet32` | order, ownership, no stranded frame, pool accounting | 2+2 descriptors, 5 frames: both rings fill and wrap twice; 2 pools of 2 |
| `pcnet32_live` | every frame processed, every reply sent | 2+1 descriptors, 3 frames |
| `console` | the screen of a terminal; writes stay near the screen | 2 rows of 4, tab stop 2, 5 characters, 2 interrupting messages of a letter and a newline |
| `console_reentrant` | violated: see the findings | 1 interrupting character |
| `netstack` | answers exactly the requests, right replies from reused buffers, sound free list | 4 frames to answer, 14 that each fail one test; 2 pools of 2 buffers, 4 refused replies: the heap runs out |
| `pci` | each function found once, the scan ends, running cards are prepared | buses of 32 devices with 8 functions; 4 machines with bridges inside devices and behind bridges; 4 cards, one of an unknown model and one with another chip, a device table of 2 |
| `pci_idon` | violated: see the findings | the same |
| `lib` | printf gives what the standard says and cuts off where it should; quotient and remainder are right; `usleep` returns, and not early | every set of flags, with widths and precisions around the length of the number and values at the ends of their types, buffers of 8; all pairs of 5-bit operands; counter halves of 3 bits, so that both carry |

*Why the bounds are enough.* A ring of two slots already has every relation of
head, tail and size (empty, partly full, full, wrapped), and the proofs
remove the bound for safety. Requests and calls of `irq` cover every pair of
overlapping operations; four calls reach the removal of the first and the last of
two handlers and a second installation. For `Resync`, a `Lag` of 2 is
refuted (Pause broken in its middle, then Ctrl, then NumLock, whose codes
continue the sequence), so the bound 3 is exact and is reached. In `console`
five characters wrap a row of four, and the handler's newlines scroll the
screen twice while the main program is inside `putch`; the limit of one row
behind the screen is also reached. The frames of `netstack` include a message whose
sum has a carry in its carry, an odd length, and non-zero `tos` and `frag_off`, so
that each reuse of a buffer and each line of `ip_cksum` matters. In `memory` one
structure of boot information ends inside the first page table and one covers all six
pages, both with words that look like entries; with `E` = 16 the window of three
tables, the directory's own entry and the unmapped rest are all there. The
proof removes the bound on the division's operands.

*Deadlock* is not checked where the system may stop: after the halt command or an
exception, and where the bounded environment has nothing more to send. It is
checked for `memory`, `netstack`, `lib` and both `pcnet32` runs; there the places where
the machine stops on purpose (a wrong magic number, a division by zero, a timer
without memory for its handler) are steps that repeat.

*Fairness.* `KbdRing`: weak fairness of the command loop (the processor executes)
and of the timer (the PIT runs from boot and nothing stops it); no key has to
arrive. `Pcnet32`: the same, and a raised line is taken, the handler completes,
and the card finishes what it began; no frame has to arrive. The run leaves out
frames missed for want of a descriptor (`MissIrq = FALSE`): an interrupt for
MISS alone is never acknowledged, and the handler then runs for ever. It also
supposes that interrupts stay on, that is that nobody enters `c` or `h`. `Irq`: calls
that began are completed, offered interrupts are taken. `Pci`: the processor
executes and the timer, installed before `pci_init`, ticks; cards may do nothing. `Sleep`,
in `lib`: the timer ticks and the processor executes. All are weak: each
of these actions stays enabled until it is taken.

## What is proved

All for every value of the constants under the named assumptions of the modules:
rings and queues have at least one entry; the heap's end is a multiple of 16 with
room for a header behind the kernel's end, and requests are at least 1 and do not
wrap around the address space; tables, window and heap lie as `boot.S` lays them
out (`LayoutAssumption`), the loader's structure states its own size
(`InfoAssumption`) and, if it fits its page, is laid out as the multiboot
specification says (`TagAssumption`); only level-triggered lines are shared
(`LineAssumption`); frames are as above (`FrameAssumption`); the firmware has
configured the machine (`MachineAssumption`) and the chip of a card is one of the three
the probe tells apart (`CardAssumption`); a half of the tick counter is more than a bit
wide and the time asked for fits it (`SleepAssumption`); a row of the screen is a
multiple of the tab stop, as 80 is of 8 (`SizeAssumption`); for the division, `pow2` is
the table of the powers of two; the keyboard sends the events of the table, and the
`Lag` after a loss is at least 3 (`EventAssumption`).

* **`KbdRingProofs`**: `TypeCorrect`, `Delivery`, `NoPhantom`, `Wakeable`, and
  `Refinement` (the ring implements `KbdQueue`). Delivery is not inductive: that the
  dispatched keys are a prefix of the accepted ones says nothing of what is in the
  ring. The invariant `IInv` adds that the flag is clear between `cli` and `sti`
  (`CriticalSection`), that a queue seen non-empty stays so and that the
  register holds the size between load and store (`SeenNonEmpty`), that the tail is
  `kbd_size` slots after the oldest key (`Geometry`), that these slots hold the
  accepted keys not yet removed (`Contents`), and where the key in hand comes
  from (`Holding`). The refinement maps `StoreSize` to the removal and every other
  step of the loop to a stutter.
* **`Pcnet32Proofs`**: `TypeCorrect`, `ReceiveOrder`, `TransmitOrder`,
  `OwnershipKept`, `NoFrameStranded`, `PoolAccounts`. `RxInv` describes the whole
  receive ring from the driver's place: the next `Out` descriptors belong to the
  driver and hold consecutive frames, the rest to the card. `TxInv` is its mirror
  from the card's place, where a waiting descriptor holds both the reply and its length. `WakeInv` is what makes the lost-interrupt argument
  inductive: if nothing is going to make the driver look, then no frame waits, or,
  during a scan, none beyond what the scan still reaches.
* **`IrqProofs`**: `IrqListsSound`, `IrqWalkSafe`, `IrqMaskMatches`, `IrqEoiBalanced`,
  `IrqLostOnlyEarly`, `IrqOthersStay`, `IrqTypes`, for any set of handlers and lines.
  The lemmas say what one store to a head or a `next` field does to the set
  of nodes a list leads to. `ListInv` keeps the lists apart, free of cycles and
  without two nodes that share a successor (without the last, removing a node
  could drop others). `CallInv` is what install and uninstall know of their
  argument at each statement, `FlagInv` that a list is changed or walked only with
  the flag clear, `MaskInv` that a line is open exactly while it has a handler or is
  between the two halves of a call, and `LostInv` that a request that is neither
  latched nor early is the one in hand.
* **`BootProofs`**, the heap: `Disjointness`, `HeaderSafety`, `Alignment`,
  `FailsOnlyWhenFull`, `TypeCorrect`. The core of `IInv` is `OneBlock`: with
  alignments up to 16 the list always has a single block that reaches to the end
  of the heap, so the head that `alloc` returns is the block it found. Blocks in
  use lie below it, and it begins within 15 bytes of the newest (`Packed`).
* **`BootProofs`**, the start: `KernelIsMapped`, `PhysAddrRight`, and `BootImplementsMemory`: the
  booting kernel takes only steps of `Memory` or none, so the theorems on the heap
  hold in it. `BootInv` says which words of the directory and the tables are written
  at each place of `boot.S`, whatever the copied information left there; the theorems
  follow by taking addresses apart. `PhysAddrRight` needs the heap's invariant
  too: blocks lie in the window. `TagsAreShown`: as the copy fits its page no table is
  disturbed, each word read through the window is the loader's, and so the walk is
  always at the beginning of the tag it has to show next (`TagInv`).
* **`ConsoleProofs`**: `NoWildWrite` and `ConsoleIsTerminal`. For the first, `ConInv` gives
  for each place of `putch` where the cursor and the registers can be. The main
  program's registers may be stale, and it is this that has to be bounded: if
  they call for a scroll the cursor is at least on the last row, a handler finds
  the cursor at most one column or one row off the screen but never both, and it
  can come to be two rows off itself. For the second, `TermInv` states at each
  place what the rest of `putch` still has to do to the screen to make it the
  terminal's; the lemmas are that cells of different places differ, and that
  the tab of the code is the terminal's next tab stop.
* **`NetStackProofs`**, the buffers: `BuffersKept`. The list in general could be in any
  order, but the driver frees the buffer of a sent reply before another is taken. So
  the invariant (`Rest`) can say that the list is what remains of the newest pool,
  from the head to the pool's end, and that all the buffers before the head are the
  refused ones. That the list leads to exactly these is an argument by the
  smallest number it misses.
* **`NetStackProofs`**, the protocols: `RequestsAnswered` and `RepliesRight`. The first
  needs what the checksum loop computes: that a sum and its folded form agree modulo
  65535 and vanish together. The library's induction is of no use here, so the equations of
  `Sums` and `carry` are shown to have a solution (`carry` an explicit one) that no other
  function shares, by the smallest argument where two could differ. For the second,
  a checksum stored in a field that was zero makes the whole verify
  (`ChecksumVerifies`), and the fields that the code never writes are zero because the
  buffer comes clean from the list, which is `BufferInv`.
* **`PciProofs`**: `Enumeration` and `Running`, for every tree of bridges. `PciInv` fixes
  the machine and says that the scan's own writes change only command registers
  (`Same`); that the places on the stack are on different buses, each entered through a
  bridge already found (`StackInv`); that what was found on a bus lies before the scan's
  place there, and nothing is in the table twice (`FoundInv`); that what can be seen on the
  buses entered is found or still ahead (`CoverInv`); that a card has one entry in
  `net_devs` (`TableInv`); what the probe has prepared at each of its places (`StageInv`);
  and that a card that runs has its structures, its handler and the right to use the bus
  (`RunInv`). That nothing is found twice rests on the bus numbers: two bridges never
  lead to one bus.
* **`DecodeLibProofs`**, the decoder: `BackInStep` and `KeyByKey`. `DecodeInv` counts whole
  events: after none the decoder can be in any of its nine states, after one in five
  of them, after two in two, then at rest (`Near`). This is not inductive alone: the
  second byte of the right control key also continues the Pause sequence, so the invariant
  says that its first byte has closed it. For `KeyByKey` it says which states an event
  that begins at rest passes (`Passed`), byte by byte.
* **`DecodeLibProofs`**, the library: `Division`, for words of every width. `DivInv` says
  that after k shifts of the divisor the quotient bit is 2^k and the divisor has lost no
  bit (`Shifted`); that dividend, quotient so far and what is left add up to the
  operand (`Balance`); and that what is left is below twice the shifted divisor,
  without which the remainder could be too large at the end. And `NeverEarly`, for
  counters of every width: `SleepInv` says that, while no carry came between two
  reads and too few ticks have passed, some number d of them is not yet
  subtracted (`Accounted`), and that the half already read is at most d behind
  (`Whole`).

`TypeCorrect`, `IrqTypes` and `Alignment` have no run of their own: they are conjuncts of, or
follow from, the inductive invariants.

*Only model-checked*: the liveness properties (`KeysDispatched`, `Served`,
`FramesProcessed`, `RepliesSent`, `ScanEnds`, `SleepEnds`), since fairness is outside the
prover's reach; and `Formatted` and `CutOff` of `Printf`. The text of a number is a recursion
over its digits on both sides, the code's and the reference's, and that the two agree
for every number would be an induction over data, which the provers cannot do.

## What the checks found

* `src/lib/printf.c:27-28` says "These routines are thread safe and reentrant!".
  printf prints through `putch`, which is not: it writes the cell, then advances
  `csr_x`. The run `console_reentrant` shows a handler that prints in between; both
  characters go to one cell. The damage is limited: `StaysInMemory` holds.
* `install_irq_handler` unmasks the line, with interrupts on, before it links the
  handler. A byte of the keyboard that comes in this window is acknowledged and
  never read, and the keyboard raises no further edge. `LostOnlyEarly` shows
  that this window is the only place where a request is lost.
* `src/pcnet32.c:243`, under the comment "// Initialize the card": the wait for IDON
  never waits, since `==` binds tighter than `&`. The run `pci_idon` shows a card that
  needs time for its initialisation, is stopped in the middle of it, and is then
  started on rings whose addresses it never read. A card that initialises
  within the write to the register (as emulators do) is not affected, and
  `Pcnet32` starts from that case.
* Seen while modelling, with no document to hold them against: behind a host
  bridge with several functions nothing is scanned (`pci.c:165`); an IPv4 header with
  options is accepted but the ICMP message is then taken at offset 20; an echo
  reply takes its length from the frame, so it includes Ethernet padding, and its
  destination address is not compared with the device's; a probe that fails after
  `alloc_netdev` keeps its entry, so `net_ifconfig` may give the address to a dead
  device; a carry between the two reads of `pit_counter` ends a sleep early (once in
  497 days), and `NotEarly` shows that nothing else does; where printf leaves the
  standard is listed with its module.

## Order of the work, and what could follow

The order was by importance: the queue between handler and main loop, the
driver's rings and the heap, then the decoder, the interrupt dispatch, the console,
the protocols, the start of the machine and the library, each with its runs
first and its proofs when TLC agreed. Every safety property of the runs that pass is now also a
theorem, but for the two of printf. What could follow is a composition of `Irq` with
`KbdDecode` and `KbdRing`: from a byte at the keyboard to a command.

## Not modelled

The loader for the 64-bit entry (`src/loader/`, straight-line assembly, a program
of its own); the constants of the multiboot header and of the segment tables;
`%e` and `%g` of printf, whose results depend on rounding in floating point; the
texts that the commands, `net_print_stats` and `print_mem` print; and the byte loops of
`lib/`, which keep no state (`memcmp` returns 1 for equal contents, but nobody calls
it). `PROJECT.json` lists every part with its status.

## Running

    tlc -config MCKbdRing.cfg MCKbdRing
    tlapm KbdRingProofs.tla

and likewise for the other configurations (`MCPcnet32Live.cfg` belongs
to `MCPcnet32`, `MCConsoleReentrant.cfg` to `MCConsole`, `MCPciIdon.cfg` to `MCPci`) and the other `*Proofs` modules.
