------------------------------- MODULE Probe --------------------------------
(***************************************************************************)
(* probe_pcnet32: how the driver takes over a PCnet card, with the device  *)
(* table of net.c.  The card works in parallel: it reads the               *)
(* initialisation block some time after INIT was written, and uses its     *)
(* rings some time after STRT.  An allocation may fail at any time.        *)
(*                                                                         *)
(* Steps that touch neither the card nor the device table nor the handler  *)
(* lists (reading the address, SWSTYLE) are joined with their neighbours.  *)
(* pci_adjust, which goes through the configuration space, is in Pci.      *)
(***************************************************************************)
EXTENDS Integers, Sequences, FiniteSets

CONSTANTS
  Cards,           \* the PCnet cards of the machine
  NET_NUM_DEVS,    \* entries of net_devs: 16 in the code
  ChipOf           \* "none": CSR88 is not a PCnet; "old": unknown model; "fast"

ASSUME CardAssumption ==
  /\ NET_NUM_DEVS \in Nat
  /\ ChipOf \in [Cards -> {"none", "old", "fast"}]

VARIABLES
  pc,         \* where the probe is; "idle" outside
  card,       \* the card being probed
  net_devs,   \* the device table: [card, memory, ready]
  handlers,   \* cards whose handler is linked
  csr,        \* for each card: "stop", "init" (INIT written), "idon", "run"
  block,      \* cards that have read their initialisation block
  strayed     \* history: cards that used rings they had not been told of

probevars == <<pc, card, net_devs, handlers, csr, block, strayed>>

(* rx_buffers, tx_buffers, rdes and tdes, in this order. *)
Allocations == 4

ProbeInit ==
  /\ pc = "idle" /\ card = CHOOSE k \in Cards : TRUE
  /\ net_devs = <<>> /\ handlers = {}
  /\ csr = [k \in Cards |-> "stop"] /\ block = {} /\ strayed = {}

Goto(from, to) == pc = from /\ pc' = to

(* The entry made by the alloc_netdev of this probe. *)
Mine == Len(net_devs)

-----------------------------------------------------------------------------
(* The card *)

(* It has read the block and sets IDON. *)
CardInitialises(k) ==
  /\ csr[k] = "init"
  /\ csr' = [csr EXCEPT ![k] = "idon"]
  /\ block' = block \cup {k}
  /\ UNCHANGED <<pc, card, net_devs, handlers, strayed>>

(* A frame arrives or the transmit ring is polled. *)
CardRuns(k) ==
  /\ csr[k] = "run"
  /\ strayed' = IF k \in block THEN strayed ELSE strayed \cup {k}
  /\ UNCHANGED <<pc, card, net_devs, handlers, csr, block>>

-----------------------------------------------------------------------------
(* The probe *)

Call(k) ==
  /\ Goto("idle", "reset")
  /\ card' = k
  /\ UNCHANGED <<net_devs, handlers, csr, block, strayed>>

(* pcnet32_reset, then a wait for the next tick of the timer *)
Reset ==
  /\ Goto("reset", "tick")
  /\ csr' = [csr EXCEPT ![card] = "stop"]
  /\ block' = block \ {card}
  /\ UNCHANGED <<card, net_devs, handlers, strayed>>

(* Faulty: the wait compares the counter with itself. *)
PitTickStuck ==
  /\ Goto("tick", "tick")
  /\ UNCHANGED <<card, net_devs, handlers, csr, block, strayed>>

PitTick ==
  /\ Goto("tick", "version")
  /\ UNCHANGED <<card, net_devs, handlers, csr, block, strayed>>

(* CSR 88 says whether the chip is a PCnet. *)
Version ==
  /\ pc = "version"
  /\ pc' = IF ChipOf[card] = "none" THEN "idle" ELSE "alloc"
  /\ UNCHANGED <<card, net_devs, handlers, csr, block, strayed>>

(* The table is full or the heap exhausted, or there is a new entry.       *)
alloc_netdev ==
  /\ \/ Goto("alloc", "idle") /\ UNCHANGED net_devs
     \/ /\ Goto("alloc", "model") /\ Len(net_devs) # NET_NUM_DEVS
        /\ net_devs' = Append(net_devs, [card |-> card, memory |-> 0, ready |-> FALSE])
  /\ UNCHANGED <<card, handlers, csr, block, strayed>>

(* The switch on the model: an unknown one ends the probe, and its entry   *)
(* stays in the table.                                                     *)
Model ==
  /\ pc = "model"
  /\ pc' = IF ChipOf[card] = "fast" THEN "adjust" ELSE "idle"
  /\ UNCHANGED <<card, net_devs, handlers, csr, block, strayed>>

(* Faulty: a failed allocation does not end the probe. *)
AllocateCareless ==
  /\ Goto("memory", "descriptors")
  /\ \E n \in 0..Allocations : net_devs' = [net_devs EXCEPT ![Mine].memory = n]
  /\ UNCHANGED <<card, handlers, csr, block, strayed>>

(* The first allocation that fails ends the probe. *)
Allocate ==
  /\ pc = "memory"
  /\ \E n \in 0..Allocations :
       /\ net_devs' = [net_devs EXCEPT ![Mine].memory = n]
       /\ pc' = IF n = Allocations THEN "descriptors" ELSE "idle"
  /\ UNCHANGED <<card, handlers, csr, block, strayed>>

(* Descriptors and initialisation block are filled, CSR 1, 2 and 4 written *)
Prepare ==
  /\ Goto("descriptors", "init")
  /\ net_devs' = [net_devs EXCEPT ![Mine].ready = TRUE]
  /\ UNCHANGED <<card, handlers, csr, block, strayed>>

(* dwio_write_csr(ioaddr,0,1) *)
WriteInit ==
  /\ Goto("init", "poll")
  /\ csr' = [csr EXCEPT ![card] = "init"]
  /\ UNCHANGED <<card, net_devs, handlers, block, strayed>>

(* while(dwio_read_csr(ioaddr,0)&0x100==0); the condition is csr0 & (0x100 *)
(* == 0), which is 0: the loop ends at once.                               *)
PollIdon ==
  /\ Goto("poll", "stop")
  /\ UNCHANGED <<card, net_devs, handlers, csr, block, strayed>>

(* dwio_write_csr(ioaddr,0,(1<<2)): what the card was doing is abandoned *)
WriteStop ==
  /\ Goto("stop", "install")
  /\ csr' = [csr EXCEPT ![card] = "stop"]
  /\ UNCHANGED <<card, net_devs, handlers, block, strayed>>

Install ==
  /\ Goto("install", "start")
  /\ handlers' = handlers \cup {card}
  /\ UNCHANGED <<card, net_devs, csr, block, strayed>>

(* dwio_write_csr(ioaddr,0,(1<<1)|(1<<6)) *)
WriteStart ==
  /\ Goto("start", "idle")
  /\ csr' = [csr EXCEPT ![card] = "run"]
  /\ UNCHANGED <<card, net_devs, handlers, block, strayed>>

probe_pcnet32 == Reset \/ Version \/ alloc_netdev \/ Model \/ Allocate \/ Prepare
                   \/ WriteInit \/ PollIdon \/ WriteStop \/ Install \/ WriteStart

CardSteps == \E k \in Cards : CardInitialises(k) \/ CardRuns(k)

-----------------------------------------------------------------------------
(* Properties *)

EntriesOf(k) == {n \in DOMAIN net_devs : net_devs[n].card = k}

(* A card has one entry of its own inside the table, all its memory,       *)
(* prepared descriptors, and a handler for its interrupts.                 *)
Prepared(k) ==
  /\ k \in handlers
  /\ \E n \in EntriesOf(k) :
       /\ EntriesOf(k) = {n} /\ n <= NET_NUM_DEVS
       /\ net_devs[n].memory = Allocations /\ net_devs[n].ready

(* The card is initialised when it is started: it never works on rings     *)
(* whose addresses it has not read.                                        *)
StartsInitialised == strayed = {}
=============================================================================
