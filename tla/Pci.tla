-------------------------------- MODULE Pci ---------------------------------
(***************************************************************************)
(* The enumeration of pci.c, checkAllBuses, checkBus, checkDevice and      *)
(* checkFunction, which calls probe_pcnet32 (module Probe) for each PCnet  *)
(* card it meets and descends into bridges.                                *)
(*                                                                         *)
(* The recursion is a stack of places, the innermost first: the bus, and   *)
(* the device and function to look at next.  What the scan knows of a      *)
(* function it reads from its registers (module PciConfig).                *)
(***************************************************************************)
EXTENDS Probe, PciConfig

CONSTANTS
  Machines,    \* configuration spaces
  CardAt,      \* the card behind each port address
  Devices,     \* devices on a bus: 32 in the code
  Functions,   \* functions of a device: 8 in the code
  TableSize    \* entries of pcidevs: 20 in the code

(* A machine as it is, without the accesses of pci.c: the bridges and the  *)
(* buses behind them, the PCnet cards, and the functions that can be seen, *)
(* function 0 and the others of a device whose function 0 announces them.  *)
Bridge(m, p)     == Held(m, p, \hA) = \h604
Behind(m, p)     == Held(m, p, \h18) \div 256
PcnetCard(m, p)  == Held(m, p, 0) = \h1022 /\ Held(m, p, 2) \in {\h2000, \h2001}
Several(m, b, d) == <<b, d, 0>> \in DOMAIN m /\ Held(m, <<b, d, 0>>, \hE) % 256 >= \h80
Seen(m, p)       == p[3] = 0 \/ Several(m, p[1], p[2])

(* What the scan relies on without looking: the index of pcidevs is not    *)
(* checked, the host bridge is the first function of bus 0, the firmware   *)
(* has given every bridge a bus number of its own, and the first base      *)
(* address register of a PCnet card is a port with its card behind it.     *)
Configured(m) ==
  /\ IsFiniteSet(DOMAIN m) /\ Cardinality(DOMAIN m) <= TableSize
  /\ <<0, 0, 0>> \in DOMAIN m
  /\ DOMAIN m \subseteq (0..255) \X (0..Devices-1) \X (0..Functions-1)
  /\ \A p \in DOMAIN m :
       /\ \A off \in DOMAIN m[p] : m[p][off] \in 0..2^16-1
       /\ Held(m, p, 0) # NoFunction
       /\ Bridge(m, p) => Behind(m, p) # 0
       /\ PcnetCard(m, p) => Held(m, p, \h10) - 1 \in DOMAIN CardAt
  /\ \A p, q \in DOMAIN m :
       /\ Bridge(m, p) /\ Bridge(m, q) /\ Behind(m, p) = Behind(m, q) => p = q
       /\ /\ PcnetCard(m, p) /\ PcnetCard(m, q)
          /\ CardAt[Held(m, p, \h10) - 1] = CardAt[Held(m, q, \h10) - 1]
          => p = q

ASSUME MachineAssumption ==
  /\ Devices \in 1..32 /\ Functions \in 1..8
  /\ \A port \in DOMAIN CardAt : port \in Nat /\ port % 4 = 0 /\ CardAt[port] \in Cards
  /\ \A m \in Machines : Configured(m)

VARIABLES
  stack,
  pcidevs      \* the table, of length numdevs

vars == <<probevars, space, stack, pcidevs>>

Present(p)  == getVendorId(p.bus, p.dev, p.fun) # NoFunction
Multi(b, d) == getHeaderType(b, d, 0) >= \h80

Start(b) == [bus |-> b, dev |-> 0, fun |-> 0]

(* checkAllBuses: behind a host bridge with several functions the loop's   *)
(* condition, function>8, is false at once and nothing is scanned.         *)
Init ==
  /\ ProbeInit
  /\ space \in Machines
  /\ stack = IF Multi(0, 0) THEN <<>> ELSE <<Start(0)>>
  /\ pcidevs = <<>>

(* The loops of checkBus and checkDevice. *)
NextDevice(p) == [p EXCEPT !.dev = @ + 1, !.fun = 0]

(* Faulty: the other functions of a device are always skipped. *)
NextFunctionNever(p) == NextDevice(p)

NextFunction(p) ==
  IF p.fun + 1 < Functions THEN [p EXCEPT !.fun = @ + 1] ELSE NextDevice(p)

(* Nothing there, or a single function: the next device.  The order of the *)
(* tests matters: the header of an absent function reads as multifunction. *)
Further(p) ==
  IF p.fun = 0 /\ (~Present(p) \/ ~Multi(p.bus, p.dev)) THEN NextDevice(p) ELSE NextFunction(p)

Scanning == pc = "idle" /\ stack # <<>>
Top      == Head(stack)

(* Vendor 0xFFFF *)
Absent ==
  /\ Scanning /\ Top.dev < Devices /\ ~Present(Top)
  /\ stack' = <<Further(Top)>> \o Tail(stack)
  /\ UNCHANGED <<probevars, space, pcidevs>>

IsBridge(b, d, f) == getBaseClass(b, d, f) = 6 /\ getSubClass(b, d, f) = 4
IsPcnet(b, d, f)  == /\ getVendorId(b, d, f) = \h1022
                     /\ getDeviceId(b, d, f) \in {\h2000, \h2001}

(* The I/O address in the first base address register, & 0xFFFC *)
Port(b, d, f) == LET bar == pciConfigReadWord(b, d, f, \h10) IN bar - (bar % 4)

(* A card is probed before the scan goes on; the bus behind a bridge is    *)
(* scanned before the next function.                                       *)
checkFunction ==
  LET b == Top.bus d == Top.dev f == Top.fun IN
  /\ Scanning /\ d < Devices /\ Present(Top)
  /\ pcidevs' = Append(pcidevs, <<b, d, f>>)
  /\ stack' = (IF IsBridge(b, d, f) THEN <<Start(getSecondaryBus(b, d, f))>> ELSE <<>>)
                 \o <<Further(Top)>> \o Tail(stack)
  /\ IF IsPcnet(b, d, f) THEN Call(CardAt[Port(b, d, f)]) ELSE UNCHANGED probevars
  /\ UNCHANGED space

(* The probe hands the entry that checkFunction is making to pci_adjust. *)
Adjust ==
  /\ Goto("adjust", "memory")
  /\ pci_adjust(pcidevs[Len(pcidevs)])
  /\ UNCHANGED <<card, net_devs, handlers, csr, block, strayed, stack, pcidevs>>

(* The end of checkBus *)
Return ==
  /\ Scanning /\ Top.dev = Devices
  /\ stack' = Tail(stack)
  /\ UNCHANGED <<probevars, space, pcidevs>>

Scan == Absent \/ checkFunction \/ Return

Probing == \/ (probe_pcnet32 \/ PitTick) /\ UNCHANGED <<space, stack, pcidevs>>
           \/ Adjust

Next == Scan \/ Probing \/ (CardSteps /\ UNCHANGED <<space, stack, pcidevs>>)

(* The processor keeps executing and the timer keeps ticking: the handler  *)
(* of the timer is installed before pci_init.  The cards may do nothing.   *)
FairSpec ==
  /\ Init /\ [][Next]_vars
  /\ WF_vars(Scan)
  /\ WF_vars(Probing)

-----------------------------------------------------------------------------
(* Properties *)

(* The buses that bridges lead to from bus 0: the smallest set with bus 0  *)
(* and the bus behind each bridge that can be seen on a bus of the set.    *)
Bridges(m)   == {p \in DOMAIN m : Bridge(m, p) /\ Seen(m, p)}
Numbers(m)   == {0} \cup {Behind(m, p) : p \in Bridges(m)}
Closed(m, S) == 0 \in S /\ \A p \in Bridges(m) : p[1] \in S => Behind(m, p) \in S
Buses(m)     == {b \in Numbers(m) : \A S \in SUBSET Numbers(m) : Closed(m, S) => b \in S}

(* What is there to be found. *)
There(m) == {p \in DOMAIN m : p[1] \in Buses(m) /\ Seen(m, p)}

(* Whatever allocation failed on the way and however many cards there are, *)
(* a card that runs has all that the driver needs, and the function that   *)
(* it is, wherever it stands, may use the bus.                             *)
RunsPrepared ==
  \A k \in Cards : csr[k] = "run" =>
    /\ Prepared(k)
    /\ \E p \in DOMAIN space :
         /\ \E port \in DOMAIN CardAt : CardAt[port] = k /\ Register(p, \h10) = port + 1
         /\ Register(p, 4) % 8 = 7

Done == stack = <<>> /\ pc = "idle"

(* Behind a host bridge of one function, the recursion finds every         *)
(* function once and none twice, wherever bridges stand among the          *)
(* functions of a device.                                                  *)
FindsEachOnce ==
  Done /\ ~Several(space, 0, 0) =>
    /\ {pcidevs[n] : n \in DOMAIN pcidevs} = There(space)
    /\ Len(pcidevs) = Cardinality(There(space))

(* The scan comes to its end, with every probe in it. *)
ScanEnds == <>Done
=============================================================================
