------------------------------ MODULE PciProofs -----------------------------
(***************************************************************************)
(* Proofs about the enumeration and the probes in it, for every machine    *)
(* whose firmware has configured it: any tree of bridges, any functions,   *)
(* any number of cards and any size of the device table.                   *)
(*                                                                         *)
(* The scan has no record of where it has been.  That it comes nowhere     *)
(* twice follows from the stack: each of its places is on a bus of its     *)
(* own, everything found on that bus lies before the place, and a bus is   *)
(* entered through the one bridge that leads to it, at the moment when     *)
(* that bridge is found.  A card is therefore probed once, so that its     *)
(* entry of the device table is its only one.                              *)
(***************************************************************************)
EXTENDS Pci, FiniteSetTheorems, TLAPS

(* The machine as the scan found it: only the command and the status       *)
(* register, 4 and 6, of a function are written.                           *)
Same(m) ==
  /\ DOMAIN space = DOMAIN m
  /\ \A p \in DOMAIN m :
       /\ \A off \in Nat \ {4, 6} : Held(space, p, off) = Held(m, p, off)
       /\ Held(space, p, 4) \in Nat

Place == [bus : Nat, dev : 0..Devices, fun : 0..Functions-1]

(* The scan of the bus of s has passed function x of this bus. *)
Before(x, s) == x[2] < s.dev \/ (x[2] = s.dev /\ x[3] < s.fun)

Found == {pcidevs[n] : n \in DOMAIN pcidevs}

(* Bus b has been entered when the functions in table have been found. *)
Opened(m, table, b) ==
  b = 0 \/ \E n \in DOMAIN table : Bridge(m, table[n]) /\ Behind(m, table[n]) = b

StackInv(m) ==
  /\ stack \in Seq(Place)
  /\ \A i, j \in DOMAIN stack : stack[i].bus = stack[j].bus => i = j
  /\ \A j \in DOMAIN stack :
       /\ Opened(m, pcidevs, stack[j].bus) /\ stack[j].bus \in Buses(m)
       /\ stack[j].fun # 0 => Several(m, stack[j].bus, stack[j].dev)

FoundInv(m) ==
  /\ pcidevs \in Seq(DOMAIN m)
  /\ \A i, j \in DOMAIN pcidevs : pcidevs[i] = pcidevs[j] => i = j
  /\ \A n \in DOMAIN pcidevs :
       /\ Opened(m, pcidevs, pcidevs[n][1]) /\ pcidevs[n] \in There(m)
       /\ \A j \in DOMAIN stack :
            pcidevs[n][1] = stack[j].bus => Before(pcidevs[n], stack[j])

(* What can be seen on the buses entered is found or still to come. *)
CoverInv(m) ==
  ~Several(m, 0, 0) =>
    \A x \in DOMAIN m : Seen(m, x) /\ Opened(m, pcidevs, x[1]) =>
      \/ x \in Found
      \/ \E j \in DOMAIN stack : stack[j].bus = x[1] /\ ~Before(x, stack[j])

ScanInv(m) == StackInv(m) /\ FoundInv(m) /\ CoverInv(m)

-----------------------------------------------------------------------------
(* The probe *)

CardOf(m, p) == CardAt[Held(m, p, \h10) - 1]

(* The function that is being probed, and whether it may use the bus. *)
Last       == pcidevs[Len(pcidevs)]
Enabled(p) == Held(space, p, 4) % 8 = 7

Started   == {"start"}
Readied   == {"init", "poll", "stop", "install", "start"}
Supplied  == Readied \cup {"descriptors"}
Adjusted  == Supplied \cup {"memory"}
Entered   == Adjusted \cup {"model", "adjust"}
Entering  == {"reset", "tick", "version", "alloc"}

Entry == [card : Cards, memory : 0..Allocations, ready : BOOLEAN]

TableInv(m) ==
  /\ net_devs \in Seq(Entry)
  /\ Len(net_devs) <= NET_NUM_DEVS
  /\ \A i, j \in DOMAIN net_devs : net_devs[i].card = net_devs[j].card => i = j
  /\ \A i \in DOMAIN net_devs : \E n \in DOMAIN pcidevs :
       PcnetCard(m, pcidevs[n]) /\ net_devs[i].card = CardOf(m, pcidevs[n])

StageInv(m) ==
  /\ pc \in Entered \cup Entering \cup {"idle"}
  /\ csr \in [Cards -> {"stop", "init", "idon", "run"}]
  /\ pc # "idle" => Len(pcidevs) > 0 /\ PcnetCard(m, Last) /\ card = CardOf(m, Last)
  /\ pc \in Entering => \A i \in DOMAIN net_devs : net_devs[i].card # card
  /\ pc \in Entered => Len(net_devs) > 0 /\ net_devs[Mine].card = card /\ csr[card] # "run"
  /\ pc \in {"tick", "version", "alloc"} => csr[card] # "run"
  /\ pc \in Adjusted => Enabled(Last)
  /\ pc \in Supplied => net_devs[Mine].memory = Allocations
  /\ pc \in Readied => net_devs[Mine].ready
  /\ pc \in Started => card \in handlers

RunInv(m) ==
  \A k \in Cards : csr[k] = "run" =>
    /\ Prepared(k)
    /\ \E p \in DOMAIN m : PcnetCard(m, p) /\ CardOf(m, p) = k /\ Enabled(p)

PciInv ==
  \E m \in Machines :
    Same(m) /\ ScanInv(m) /\ TableInv(m) /\ StageInv(m) /\ RunInv(m)

-----------------------------------------------------------------------------
(* Reading the configuration space *)

(* The address of a register is taken apart again as it was put together.  *)
LEMMA AddressOf ==
  ASSUME NEW b \in Nat, NEW d \in 0..31, NEW f \in 0..7, NEW o \in 0..255
  PROVE  /\ Selected(Address(b, d, f, o)) = <<b, d, f>>
         /\ Address(b, d, f, o) % 2^8 = o - (o % 4)
<1>1. 2^16 = 65536 /\ 2^11 = 2048 /\ 2^8 = 256
  BY SMT
<1> DEFINE a == b * 65536 + d * 2048 + f * 256 + (o - (o % 4))
<1>2. Address(b, d, f, o) = a
  BY <1>1 DEF Address
<1>3. a \div 65536 = b
  BY SMT
<1>4. a \div 2048 = b * 32 + d
  BY SMT
<1>5. a \div 256 = (b * 32 + d) * 8 + f
  BY SMT
<1>6. a % 256 = o - (o % 4)
  BY SMT
<1>7. (b * 32 + d) % 32 = d
  BY SMT
<1>8. ((b * 32 + d) * 8 + f) % 8 = f
  BY SMT
<1> QED
  BY <1>1, <1>2, <1>3, <1>4, <1>5, <1>6, <1>7, <1>8 DEF Selected

(* A word that is read is the register, or ones where nothing is.          *)
LEMMA ReadWord ==
  ASSUME NEW b \in Nat, NEW d \in 0..31, NEW f \in 0..7,
         NEW o \in {0, 2, \hA, \hE, \h10, \h18}
  PROVE  pciConfigReadWord(b, d, f, o) =
           IF <<b, d, f>> \in DOMAIN space THEN Held(space, <<b, d, f>>, o) ELSE NoFunction
<1> DEFINE a == Address(b, d, f, o)
           r == o - (o % 4)
<1>0. o \in 0..255
  OBVIOUS
<1>1. Selected(a) = <<b, d, f>> /\ a % 2^8 = r
  BY <1>0, AddressOf
<1>2. r \in Nat /\ \/ o % 4 = 0 /\ o = r /\ 1 + (o % 4) \div 2 = 1
                   \/ o % 4 = 2 /\ o = r + 2 /\ 1 + (o % 4) \div 2 = 2
  BY SMT
<1> HIDE DEF a, r
<1>3. Data(a) = IF <<b, d, f>> \in DOMAIN space
                  THEN <<Held(space, <<b, d, f>>, r), Held(space, <<b, d, f>>, r + 2)>>
                  ELSE <<NoFunction, NoFunction>>
  BY <1>1 DEF Data, Register
<1>4. pciConfigReadWord(b, d, f, o) = Data(a)[1 + (o % 4) \div 2]
  BY DEF pciConfigReadWord, a
<1>5. Data(a)[1] = (IF <<b, d, f>> \in DOMAIN space
                      THEN Held(space, <<b, d, f>>, r) ELSE NoFunction)
      /\ Data(a)[2] = (IF <<b, d, f>> \in DOMAIN space
                      THEN Held(space, <<b, d, f>>, r + 2) ELSE NoFunction)
  BY <1>3
<1>6. CASE o = r /\ 1 + (o % 4) \div 2 = 1
  BY <1>4, <1>5, <1>6
<1>7. CASE o = r + 2 /\ 1 + (o % 4) \div 2 = 2
  BY <1>4, <1>5, <1>7
<1> QED
  BY <1>2, <1>6, <1>7

LEMMA Configuration ==
  ASSUME NEW m \in Machines
  PROVE  /\ IsFiniteSet(DOMAIN m) /\ <<0, 0, 0>> \in DOMAIN m
         /\ DOMAIN m \subseteq (0..255) \X (0..Devices-1) \X (0..Functions-1)
         /\ \A p \in DOMAIN m :
              /\ \A off \in DOMAIN m[p] : m[p][off] \in 0..2^16-1
              /\ Held(m, p, 0) # NoFunction
              /\ Bridge(m, p) => Behind(m, p) # 0
              /\ PcnetCard(m, p) => Held(m, p, \h10) - 1 \in DOMAIN CardAt
         /\ \A p, q \in DOMAIN m :
              /\ Bridge(m, p) /\ Bridge(m, q) /\ Behind(m, p) = Behind(m, q) => p = q
              /\ PcnetCard(m, p) /\ PcnetCard(m, q) /\ CardOf(m, p) = CardOf(m, q) => p = q
<1>1. Configured(m)
  BY MachineAssumption, Zenon
<1> QED
  BY <1>1, Zenon DEF Configured, CardOf

(* A function stands at a place that the scan can come to.                 *)
LEMMA PlaceOf ==
  ASSUME NEW m \in Machines, NEW p \in DOMAIN m
  PROVE  /\ p = <<p[1], p[2], p[3]>>
         /\ p[1] \in 0..255 /\ p[2] \in 0..Devices-1 /\ p[3] \in 0..Functions-1
<1>1. p \in (0..255) \X (0..Devices-1) \X (0..Functions-1)
  BY Configuration, Zenon
<1> QED
  BY <1>1

LEMMA HeldType ==
  ASSUME NEW m \in Machines, NEW p \in DOMAIN m, NEW o
  PROVE  Held(m, p, o) \in Nat
<1>1. \A off \in DOMAIN m[p] : m[p][off] \in 0..2^16-1
  BY Configuration, Zenon
<1> QED
  BY <1>1 DEF Held

(* What the scan learns of a place by reading its registers.               *)
LEMMA Reads ==
  ASSUME NEW m \in Machines, Same(m), NEW b \in Nat, NEW d \in 0..31, NEW f \in 0..7
  PROVE  LET p == <<b, d, f>> IN
         /\ getVendorId(b, d, f) # NoFunction <=> p \in DOMAIN m
         /\ <<b, d, 0>> \in DOMAIN m => (Multi(b, d) <=> Several(m, b, d))
         /\ p \in DOMAIN m =>
              /\ IsBridge(b, d, f) <=> Bridge(m, p)
              /\ getSecondaryBus(b, d, f) = Behind(m, p)
              /\ IsPcnet(b, d, f) <=> PcnetCard(m, p)
              /\ PcnetCard(m, p) => CardAt[Port(b, d, f)] = CardOf(m, p)
<1> DEFINE p == <<b, d, f>>
<1>1. \A x \in DOMAIN m : \A o \in {0, 2, \hA, \hE, \h10, \h18} :
        Held(space, x, o) = Held(m, x, o) /\ Held(m, x, o) \in Nat
  BY HeldType DEF Same
<1>2. DOMAIN space = DOMAIN m
  BY DEF Same
<1>3. \A o \in {0, 2, \hA, \hE, \h10, \h18} : pciConfigReadWord(b, d, f, o) =
           IF p \in DOMAIN m THEN Held(m, p, o) ELSE NoFunction
  BY <1>1, <1>2, ReadWord
<1>4. getVendorId(b, d, f) # NoFunction <=> p \in DOMAIN m
  <2>1. p \in DOMAIN m => Held(m, p, 0) # NoFunction
    BY Configuration, Zenon
  <2> QED
    BY <1>3, <2>1 DEF getVendorId
<1>5. ASSUME <<b, d, 0>> \in DOMAIN m
      PROVE  Multi(b, d) <=> Several(m, b, d)
  <2>1. pciConfigReadWord(b, d, 0, \hE) =
          IF <<b, d, 0>> \in DOMAIN space THEN Held(space, <<b, d, 0>>, \hE) ELSE NoFunction
    <3>1. 0 \in 0..7 /\ \hE \in {0, 2, \hA, \hE, \h10, \h18}
      OBVIOUS
    <3> QED
      BY <3>1, ReadWord, Zenon
  <2>2. pciConfigReadWord(b, d, 0, \hE) = Held(m, <<b, d, 0>>, \hE)
    BY <1>1, <1>2, <1>5, <2>1
  <2> QED
    BY <1>5, <2>2 DEF Multi, Several, getHeaderType
<1>6. ASSUME p \in DOMAIN m
      PROVE  /\ IsBridge(b, d, f) <=> Bridge(m, p)
             /\ getSecondaryBus(b, d, f) = Behind(m, p)
             /\ IsPcnet(b, d, f) <=> PcnetCard(m, p)
  <2>1. \A w \in Nat : w \div 256 = 6 /\ w % 256 = 4 <=> w = \h604
    BY SMT
  <2>2. IsBridge(b, d, f) <=> Bridge(m, p)
    BY <1>1, <1>3, <1>6, <2>1 DEF IsBridge, getBaseClass, getSubClass, Bridge
  <2>3. getSecondaryBus(b, d, f) = Behind(m, p)
    BY <1>3, <1>6 DEF getSecondaryBus, Behind
  <2>4. IsPcnet(b, d, f) <=> PcnetCard(m, p)
    BY <1>3, <1>6 DEF IsPcnet, getVendorId, getDeviceId, PcnetCard
  <2> QED
    BY <2>2, <2>3, <2>4
<1>7. ASSUME p \in DOMAIN m, PcnetCard(m, p)
      PROVE  CardAt[Port(b, d, f)] = CardOf(m, p)
  <2> DEFINE bar == Held(m, p, \h10)
  <2>1. bar - 1 \in DOMAIN CardAt
    BY <1>7, Configuration, Zenon
  <2>2. bar \in Nat /\ bar - 1 \in Nat /\ (bar - 1) % 4 = 0
    BY <1>1, <1>7, <2>1, MachineAssumption
  <2>3. pciConfigReadWord(b, d, f, \h10) = bar
    BY <1>3, <1>7
  <2> HIDE DEF bar
  <2>4. bar % 4 = 1
    BY <2>2, SMT
  <2> QED
    BY <2>3, <2>4 DEF Port, CardOf, bar
<1> QED
  BY <1>4, <1>5, <1>6, <1>7

-----------------------------------------------------------------------------
(* The buses *)

(* Bus 0 is reached, and with a bus what is behind its bridges.            *)
LEMMA BusesClosed ==
  ASSUME NEW m
  PROVE  /\ 0 \in Buses(m)
         /\ \A p \in Bridges(m) : p[1] \in Buses(m) => Behind(m, p) \in Buses(m)
<1>1. 0 \in Buses(m)
  BY DEF Buses, Numbers, Closed
<1>2. ASSUME NEW p \in Bridges(m), p[1] \in Buses(m)
      PROVE  Behind(m, p) \in Buses(m)
  <2>1. Behind(m, p) \in Numbers(m)
    BY DEF Numbers
  <2>2. ASSUME NEW S \in SUBSET Numbers(m), Closed(m, S)
        PROVE  Behind(m, p) \in S
    BY <1>2, <2>2 DEF Buses, Closed
  <2> QED
    BY <2>1, <2>2 DEF Buses
<1> QED
  BY <1>1, <1>2

(* Nothing else is reached.                                                *)
LEMMA BusesLeast ==
  ASSUME NEW m, NEW S, Closed(m, S)
  PROVE  Buses(m) \subseteq S
<1> DEFINE T == S \cap Numbers(m)
<1>1. T \in SUBSET Numbers(m)
  OBVIOUS
<1>2. Closed(m, T)
  BY DEF Closed, Numbers
<1> QED
  BY <1>1, <1>2 DEF Buses

(* What there is to be found does not depend on the command registers.     *)
LEMMA Topology ==
  ASSUME NEW m, NEW w, DOMAIN w = DOMAIN m,
         \A p \in DOMAIN m : \A off \in Nat \ {4, 6} : Held(w, p, off) = Held(m, p, off)
  PROVE  /\ There(w) = There(m)
         /\ \A b, d : Several(w, b, d) <=> Several(m, b, d)
<1>1. \A p \in DOMAIN m : /\ Bridge(w, p) <=> Bridge(m, p)
                          /\ Behind(w, p) = Behind(m, p)
  BY DEF Bridge, Behind
<1>2. \A b, d : Several(w, b, d) <=> Several(m, b, d)
  BY DEF Several
<1>3. \A p : Seen(w, p) <=> Seen(m, p)
  BY <1>2 DEF Seen
<1>4. Bridges(w) = Bridges(m)
  BY <1>1, <1>3 DEF Bridges
<1>5. Numbers(w) = Numbers(m)
  BY <1>1, <1>4 DEF Numbers, Bridges
<1>6. \A S : Closed(w, S) <=> Closed(m, S)
  BY <1>1, <1>4 DEF Closed, Bridges
<1>7. Buses(w) = Buses(m)
  BY <1>5, <1>6 DEF Buses
<1> QED
  BY <1>2, <1>3, <1>7 DEF There

-----------------------------------------------------------------------------
(* The next place *)

(* Further passes the function at s, and besides it only what is not seen. *)
LEMMA FurtherOf ==
  ASSUME NEW m \in Machines, Same(m), NEW s \in Place, s.dev < Devices,
         s.fun # 0 => Several(m, s.bus, s.dev)
  PROVE  LET q == Further(s)
             p == <<s.bus, s.dev, s.fun>>
         IN  /\ Present(s) <=> p \in DOMAIN m
             /\ q \in Place /\ q.bus = s.bus
             /\ q.fun # 0 => Several(m, q.bus, q.dev)
             /\ p \in DOMAIN m => Seen(m, p)
             /\ \A x \in DOMAIN m :
                  /\ Before(x, s) => Before(x, q)
                  /\ x = p => Before(x, q) /\ ~Before(x, s)
                  /\ x[1] = s.bus /\ Seen(m, x) /\ Before(x, q) /\ ~Before(x, s) => x = p
<1> DEFINE q == Further(s)
           p == <<s.bus, s.dev, s.fun>>
<1>1. /\ s.bus \in Nat /\ s.dev \in 0..Devices-1 /\ s.fun \in 0..Functions-1
      /\ s = [bus |-> s.bus, dev |-> s.dev, fun |-> s.fun]
      /\ Devices \in 1..32 /\ Functions \in 1..8
  BY MachineAssumption DEF Place
<1>2. s.dev \in 0..31 /\ s.fun \in 0..7
  BY <1>1
<1>3. Present(s) <=> p \in DOMAIN m
  BY <1>1, <1>2, Reads DEF Present
<1>4. <<s.bus, s.dev, 0>> \in DOMAIN m => (Multi(s.bus, s.dev) <=> Several(m, s.bus, s.dev))
  BY <1>1, <1>2, Reads
<1>5. \A x \in DOMAIN m : /\ x = <<x[1], x[2], x[3]>>
                          /\ x[2] \in 0..Devices-1 /\ x[3] \in 0..Functions-1
  BY PlaceOf
<1>6. p \in DOMAIN m => Seen(m, p)
  BY DEF Seen
<1>7. CASE s.fun = 0 /\ (~Present(s) \/ ~Multi(s.bus, s.dev))
  <2>1. q = [bus |-> s.bus, dev |-> s.dev + 1, fun |-> 0]
    BY <1>1, <1>7 DEF Further, NextDevice
  <2>2. q \in Place /\ q.bus = s.bus /\ q.dev = s.dev + 1 /\ q.fun = 0
    BY <1>1, <2>1 DEF Place
  <2>3. ASSUME NEW x \in DOMAIN m
        PROVE  /\ Before(x, s) => Before(x, q)
               /\ x = p => Before(x, q) /\ ~Before(x, s)
    BY <1>1, <1>5, <2>2 DEF Before
  <2>4. ASSUME NEW x \in DOMAIN m, x[1] = s.bus, Seen(m, x), Before(x, q), ~Before(x, s)
        PROVE  x = p
    <3>1. x[2] = s.dev
      BY <1>1, <1>5, <2>2, <2>4 DEF Before
    <3>2. ~Several(m, s.bus, s.dev)
      BY <1>3, <1>4, <1>7 DEF Several
    <3> QED
      BY <1>5, <1>7, <2>4, <3>1, <3>2 DEF Seen
  <2> QED
    BY <1>3, <1>6, <2>2, <2>3, <2>4
<1>8. CASE ~(s.fun = 0 /\ (~Present(s) \/ ~Multi(s.bus, s.dev)))
  <2>1. q = NextFunction(s)
    BY <1>8 DEF Further
  <2>2. Several(m, s.bus, s.dev)
    BY <1>3, <1>4, <1>8
  <2>3. CASE s.fun + 1 < Functions
    <3>1. q = [bus |-> s.bus, dev |-> s.dev, fun |-> s.fun + 1]
      BY <1>1, <2>1, <2>3 DEF NextFunction
    <3>2. q \in Place /\ q.bus = s.bus /\ q.dev = s.dev /\ q.fun = s.fun + 1
      BY <1>1, <2>3, <3>1 DEF Place
    <3>3. ASSUME NEW x \in DOMAIN m
          PROVE  /\ Before(x, s) => Before(x, q)
                 /\ x = p => Before(x, q) /\ ~Before(x, s)
                 /\ x[1] = s.bus /\ Before(x, q) /\ ~Before(x, s) => x = p
      BY <1>1, <1>5, <3>2 DEF Before
    <3> QED
      BY <1>3, <1>6, <2>2, <3>2, <3>3
  <2>4. CASE ~(s.fun + 1 < Functions)
    <3>1. q = [bus |-> s.bus, dev |-> s.dev + 1, fun |-> 0]
      BY <1>1, <2>1, <2>4 DEF NextFunction, NextDevice
    <3>2. q \in Place /\ q.bus = s.bus /\ q.dev = s.dev + 1 /\ q.fun = 0
      BY <1>1, <3>1 DEF Place
    <3>3. ASSUME NEW x \in DOMAIN m
          PROVE  /\ Before(x, s) => Before(x, q)
                 /\ x = p => Before(x, q) /\ ~Before(x, s)
                 /\ x[1] = s.bus /\ Before(x, q) /\ ~Before(x, s) => x = p
      BY <1>1, <1>5, <2>4, <3>2 DEF Before
    <3> QED
      BY <1>3, <1>6, <2>2, <3>2, <3>3
  <2> QED
    BY <2>3, <2>4
<1> QED
  BY <1>7, <1>8

-----------------------------------------------------------------------------
(* The steps of the scan *)

LEMMA Replaced ==
  ASSUME NEW S, NEW s \in Seq(S), s # <<>>, NEW x \in S
  PROVE  /\ 1 \in DOMAIN s /\ Head(s) = s[1] /\ s[1] \in S
         /\ DOMAIN s = 1..Len(s) /\ Len(s) \in Nat
         /\ LET t == <<x>> \o Tail(s) IN
            /\ t \in Seq(S) /\ Len(t) = Len(s)
            /\ t[1] = x /\ \A j \in 2..Len(s) : t[j] = s[j]
OBVIOUS

LEMMA Joined ==
  ASSUME NEW S, NEW u \in Seq(S), NEW r \in Seq(S)
  PROVE  /\ u \o r \in Seq(S) /\ Len(u \o r) = Len(u) + Len(r)
         /\ Len(u) \in Nat /\ Len(r) \in Nat
         /\ \A j \in 1..Len(u) : (u \o r)[j] = u[j]
         /\ \A j \in Len(u)+1..Len(u)+Len(r) : (u \o r)[j] = r[j - Len(u)]
OBVIOUS

LEMMA Pushed ==
  ASSUME NEW S, NEW s \in Seq(S), s # <<>>, NEW x \in S, NEW y \in S
  PROVE  LET t == <<y>> \o <<x>> \o Tail(s) IN
         /\ t \in Seq(S) /\ Len(t) = Len(s) + 1
         /\ t[1] = y /\ t[2] = x /\ \A j \in 2..Len(s) : t[j + 1] = s[j]
<1> DEFINE u == <<y>> \o <<x>>
<1>1. u \in Seq(S) /\ Len(u) = 2 /\ u[1] = y /\ u[2] = x
  OBVIOUS
<1>2. LET t == u \o Tail(s) IN
      /\ t \in Seq(S) /\ Len(t) = Len(s) + 1
      /\ t[1] = y /\ t[2] = x /\ \A j \in 2..Len(s) : t[j + 1] = s[j]
  <2> DEFINE r == Tail(s)
  <2>1. r \in Seq(S) /\ Len(r) = Len(s) - 1 /\ Len(s) \in Nat /\ \A j \in 2..Len(s) : r[j - 1] = s[j]
    OBVIOUS
  <2> HIDE DEF u, r
  <2>2. /\ u \o r \in Seq(S) /\ Len(u \o r) = Len(u) + Len(r)
        /\ \A j \in 1..Len(u) : (u \o r)[j] = u[j]
        /\ \A j \in Len(u)+1..Len(u)+Len(r) : (u \o r)[j] = r[j - Len(u)]
    <3>1. u \in Seq(S) /\ r \in Seq(S)
      BY <1>1, <2>1, Zenon
    <3> QED
      BY ONLY <3>1, Joined, ZenonT(30)
  <2> DEFINE t == u \o r
  <2> HIDE DEF t
  <2>3. /\ t \in Seq(S) /\ Len(t) = Len(u) + Len(r)
        /\ \A j \in 1..Len(u) : t[j] = u[j]
        /\ \A j \in Len(u)+1..Len(u)+Len(r) : t[j] = r[j - Len(u)]
    BY <2>2 DEF t
  <2>4. /\ t \in Seq(S) /\ Len(t) = Len(s) + 1 /\ t[1] = y /\ t[2] = x
    BY <1>1, <2>1, <2>3
  <2>5. ASSUME NEW j \in 2..Len(s)
        PROVE  t[j + 1] = s[j]
    <3>1. j + 1 \in Len(u)+1..Len(u)+Len(r) /\ (j + 1) - Len(u) = j - 1
      BY <1>1, <2>1
    <3> QED
      BY <2>1, <2>3, <3>1
  <2> QED
    BY <2>4, <2>5 DEF t, r
<1> QED
  BY <1>2

LEMMA Appended ==
  ASSUME NEW S, NEW s \in Seq(S), NEW x \in S
  PROVE  LET t == Append(s, x) IN
         /\ t \in Seq(S) /\ Len(t) = Len(s) + 1 /\ Len(s) \in Nat
         /\ DOMAIN s = 1..Len(s) /\ DOMAIN t = 1..Len(s) + 1
         /\ t[Len(s) + 1] = x /\ \A n \in 1..Len(s) : t[n] = s[n]
OBVIOUS

(* What Absent and checkFunction do to the stack and to the table: h says  *)
(* whether the bus behind a bridge comes to the front.                     *)
Shape(m, s, q, h) ==
  LET p == <<s.bus, s.dev, s.fun>> IN
  /\ 1 \in DOMAIN stack /\ s = stack[1] /\ s.dev < Devices
  /\ q = Further(s)
  /\ stack' \in Seq(Place) /\ Len(stack') = Len(stack) + h
  /\ stack'[1 + h] = q /\ \A j \in 2..Len(stack) : stack'[j + h] = stack[j]
  /\ \/ p \in DOMAIN m /\ pcidevs' = Append(pcidevs, p)
     \/ p \notin DOMAIN m /\ pcidevs' = pcidevs
  /\ h = 1 <=> p \in DOMAIN m /\ Bridge(m, p)
  /\ h = 1 => stack'[1] = Start(Behind(m, p))

LEMMA ScanShape ==
  ASSUME NEW m \in Machines, Same(m), ScanInv(m), Absent \/ checkFunction
  PROVE  \E s, q \in Place : \E h \in {0, 1} : Shape(m, s, q, h)
<1> DEFINE s == stack[1]
           q == Further(s)
           p == <<s.bus, s.dev, s.fun>>
<1>1. stack \in Seq(Place) /\ stack # <<>> /\ Top.dev < Devices
  BY DEF ScanInv, StackInv, Absent, checkFunction, Scanning
<1>2. 1 \in DOMAIN stack /\ Top = s /\ s \in Place /\ Len(stack) \in Nat
  BY <1>1 DEF Top
<1>3. s.fun # 0 => Several(m, s.bus, s.dev)
  BY <1>2 DEF ScanInv, StackInv
<1>4. /\ Present(s) <=> p \in DOMAIN m
      /\ q \in Place
  BY <1>1, <1>2, <1>3, FurtherOf
<1>5. CASE Absent
  <2>1. stack' = <<q>> \o Tail(stack) /\ pcidevs' = pcidevs /\ p \notin DOMAIN m
    BY <1>2, <1>4, <1>5 DEF Absent
  <2>2. /\ stack' \in Seq(Place) /\ Len(stack') = Len(stack) + 0
        /\ stack'[1 + 0] = q /\ \A j \in 2..Len(stack) : stack'[j + 0] = stack[j]
    <3> HIDE DEF q
    <3> QED
      BY <1>1, <1>2, <1>4, <2>1, Replaced
  <2>3. Shape(m, s, q, 0)
    BY <1>1, <1>2, <1>4, <2>1, <2>2 DEF Shape
  <2> QED
    BY <1>2, <1>4, <2>3
<1>6. CASE checkFunction
  <2>1. p \in DOMAIN m /\ pcidevs' = Append(pcidevs, p)
    BY <1>2, <1>4, <1>6 DEF checkFunction
  <2>2. stack' = (IF IsBridge(s.bus, s.dev, s.fun)
                    THEN <<Start(getSecondaryBus(s.bus, s.dev, s.fun))>> ELSE <<>>)
                   \o <<q>> \o Tail(stack)
    BY <1>2, <1>6 DEF checkFunction
  <2>3. s.bus \in Nat /\ s.dev \in 0..31 /\ s.fun \in 0..7
    <3>1. s \in Place /\ s.dev < Devices
      BY <1>1, <1>2
    <3>2. Devices \in 1..32 /\ Functions \in 1..8
      BY MachineAssumption
    <3> HIDE DEF s
    <3> QED
      BY <3>1, <3>2 DEF Place
  <2>4. /\ IsBridge(s.bus, s.dev, s.fun) <=> Bridge(m, p)
        /\ getSecondaryBus(s.bus, s.dev, s.fun) = Behind(m, p)
    BY <2>1, <2>3, Reads
  <2>5. CASE ~Bridge(m, p)
    <3>1. stack' = <<q>> \o Tail(stack)
      <4> HIDE DEF q, p
      <4>1. stack' = <<>> \o <<q>> \o Tail(stack)
        BY <2>2, <2>4, <2>5
      <4>2. <<>> \o <<q>> = <<q>>
        OBVIOUS
      <4> QED
        BY <4>1, <4>2
    <3>2. /\ stack' \in Seq(Place) /\ Len(stack') = Len(stack) + 0
          /\ stack'[1 + 0] = q /\ \A j \in 2..Len(stack) : stack'[j + 0] = stack[j]
      <4> HIDE DEF q, p
      <4> QED
        BY <1>1, <1>2, <1>4, <3>1, Replaced
    <3>3. Shape(m, s, q, 0)
      BY <1>1, <1>2, <1>4, <2>1, <2>5, <3>2 DEF Shape
    <3> QED
      BY <1>2, <1>4, <3>3
  <2>6. CASE Bridge(m, p)
    <3>1. Start(Behind(m, p)) \in Place
      <4>1. Held(m, p, \h18) \in Nat
        BY <2>1, HeldType
      <4>2. Behind(m, p) \in Nat
        BY <4>1 DEF Behind
      <4> QED
        BY <4>2, MachineAssumption DEF Place, Start
    <3>2. stack' = <<Start(Behind(m, p))>> \o <<q>> \o Tail(stack)
      <4> HIDE DEF q, p
      <4> QED
        BY <2>2, <2>4, <2>6
    <3>3. /\ stack' \in Seq(Place) /\ Len(stack') = Len(stack) + 1
          /\ stack'[1] = Start(Behind(m, p))
          /\ stack'[1 + 1] = q /\ \A j \in 2..Len(stack) : stack'[j + 1] = stack[j]
      <4> DEFINE y == Start(Behind(m, p))
      <4> HIDE DEF q, p, y
      <4>1. stack' = <<y>> \o <<q>> \o Tail(stack) /\ y \in Place
        BY <3>1, <3>2 DEF y
      <4>2. /\ stack' \in Seq(Place) /\ Len(stack') = Len(stack) + 1
            /\ stack'[1] = y
            /\ stack'[2] = q /\ \A j \in 2..Len(stack) : stack'[j + 1] = stack[j]
        BY <1>1, <1>2, <1>4, <4>1, Pushed
      <4> QED
        BY <4>2 DEF y
    <3>4. Shape(m, s, q, 1)
      BY <1>1, <1>2, <1>4, <2>1, <2>6, <3>3 DEF Shape
    <3> QED
      BY <1>2, <1>4, <3>4
  <2> QED
    BY <2>5, <2>6
<1> QED
  BY <1>5, <1>6

LEMMA ScanStep ==
  ASSUME NEW m \in Machines, Same(m), ScanInv(m), Absent \/ checkFunction
  PROVE  ScanInv(m)'
<1>1. PICK s \in Place, q \in Place, h \in {0, 1} : Shape(m, s, q, h)
  BY ScanShape
<1> DEFINE p == <<s.bus, s.dev, s.fun>>
           B == Behind(m, p)
<1>2. /\ 1 \in DOMAIN stack /\ s = stack[1] /\ s.dev < Devices /\ q = Further(s)
      /\ stack' \in Seq(Place) /\ Len(stack') = Len(stack) + h
      /\ stack'[1 + h] = q /\ \A j \in 2..Len(stack) : stack'[j + h] = stack[j]
      /\ \/ p \in DOMAIN m /\ pcidevs' = Append(pcidevs, p)
         \/ p \notin DOMAIN m /\ pcidevs' = pcidevs
      /\ h = 1 <=> p \in DOMAIN m /\ Bridge(m, p)
      /\ h = 1 => stack'[1] = Start(B)
  BY <1>1 DEF Shape
<1>3. /\ stack \in Seq(Place) /\ DOMAIN stack = 1..Len(stack) /\ Len(stack) \in Nat
      /\ DOMAIN stack' = 1..Len(stack) + h /\ Len(stack) >= 1
  BY <1>2 DEF ScanInv, StackInv
<1>4. s.fun # 0 => Several(m, s.bus, s.dev)
  BY <1>2 DEF ScanInv, StackInv
<1>5. /\ q.bus = s.bus
      /\ q.fun # 0 => Several(m, q.bus, q.dev)
      /\ p \in DOMAIN m => Seen(m, p)
      /\ \A x \in DOMAIN m :
           /\ Before(x, s) => Before(x, q)
           /\ x = p => Before(x, q) /\ ~Before(x, s)
           /\ x[1] = s.bus /\ Seen(m, x) /\ Before(x, q) /\ ~Before(x, s) => x = p
  BY <1>2, <1>4, FurtherOf
<1>6. p[1] = s.bus
  OBVIOUS
<1>7. /\ h = 1 => Start(B).bus = B /\ Start(B).dev = 0 /\ Start(B).fun = 0
      /\ h = 0 \/ h = 1
  BY DEF Start
<1> HIDE DEF p, B
(* The new stack: the bus behind the bridge, the next place, the old rest. *)
<1>8. ASSUME NEW j \in DOMAIN stack'
      PROVE  \/ h = 1 /\ j = 1 /\ stack'[j] = Start(B)
             \/ j = 1 + h /\ stack'[j] = q
             \/ j - h \in 2..Len(stack) /\ j - h \in DOMAIN stack /\ stack'[j] = stack[j - h]
  <2>1. \/ h = 1 /\ j = 1
        \/ j = 1 + h
        \/ j - h \in 2..Len(stack) /\ (j - h) + h = j
    BY <1>3, <1>7
  <2> QED
    BY <1>2, <1>3, <2>1
<1>9. ASSUME NEW j \in DOMAIN stack, j # 1
      PROVE  j + h \in DOMAIN stack' /\ stack'[j + h] = stack[j]
  BY <1>2, <1>3, <1>9
<1>10. 1 + h \in DOMAIN stack' /\ (h = 1 => 1 \in DOMAIN stack')
  BY <1>3
(* The new table. *)
<1>11. pcidevs \in Seq(DOMAIN m)
  BY DEF ScanInv, FoundInv
<1>12. /\ pcidevs' \in Seq(DOMAIN m)
       /\ \A n \in DOMAIN pcidevs : n \in DOMAIN pcidevs' /\ pcidevs'[n] = pcidevs[n]
       /\ \A n \in DOMAIN pcidevs' :
            \/ n \in DOMAIN pcidevs /\ pcidevs'[n] = pcidevs[n]
            \/ p \in DOMAIN m /\ n = Len(pcidevs) + 1 /\ pcidevs'[n] = p
       /\ p \in DOMAIN m => \E n \in DOMAIN pcidevs' : pcidevs'[n] = p
  <2>1. CASE p \in DOMAIN m /\ pcidevs' = Append(pcidevs, p)
    BY <1>11, <2>1, Appended
  <2>2. CASE p \notin DOMAIN m /\ pcidevs' = pcidevs
    BY <1>11, <2>2
  <2> QED
    BY <1>2, <2>1, <2>2
<1>13. \A b : Opened(m, pcidevs, b) => Opened(m, pcidevs', b)
  BY <1>12 DEF Opened
<1>14. h = 1 => Opened(m, pcidevs', B)
  BY <1>2, <1>12 DEF Opened, B
<1>15. \A b : Opened(m, pcidevs', b) => Opened(m, pcidevs, b) \/ (h = 1 /\ b = B)
  BY <1>2, <1>12 DEF Opened, B
(* The function at the place is new, and so is the bus behind it. *)
<1>16. ASSUME p \in DOMAIN m
       PROVE  \A n \in DOMAIN pcidevs : pcidevs[n] # p
  <2> SUFFICES ASSUME NEW n \in DOMAIN pcidevs, pcidevs[n] = p
               PROVE  FALSE
    OBVIOUS
  <2>1. Before(p, s)
    BY <1>2, <1>6 DEF ScanInv, FoundInv
  <2> QED
    BY <1>5, <1>16, <2>1
<1>17. h = 1 => ~Opened(m, pcidevs, B)
  <2> SUFFICES ASSUME h = 1, Opened(m, pcidevs, B)
               PROVE  FALSE
    OBVIOUS
  <2>1. p \in DOMAIN m /\ Bridge(m, p) /\ B # 0
    <3>1. p \in DOMAIN m /\ Bridge(m, p)
      BY <1>2
    <3> QED
      BY <3>1, Configuration, Zenon DEF B
  <2>2. PICK n \in DOMAIN pcidevs : Bridge(m, pcidevs[n]) /\ Behind(m, pcidevs[n]) = B
    BY <2>1 DEF Opened
  <2>3. pcidevs[n] \in DOMAIN m
    BY <1>11
  <2>4. pcidevs[n] = p
    BY <2>1, <2>2, <2>3, Configuration, Zenon DEF B
  <2> QED
    BY <1>16, <2>1, <2>4
<1>18. /\ \A j \in DOMAIN stack : Opened(m, pcidevs, stack[j].bus) /\ stack[j].bus \in Buses(m)
       /\ \A n \in DOMAIN pcidevs : Opened(m, pcidevs, pcidevs[n][1])
       /\ Opened(m, pcidevs, s.bus) /\ s.bus \in Buses(m)
  BY <1>2 DEF ScanInv, StackInv, FoundInv
<1>19. StackInv(m)'
  <2>1. ASSUME NEW i \in DOMAIN stack', NEW j \in DOMAIN stack', stack'[i].bus = stack'[j].bus
        PROVE  i = j
    <3>1. ASSUME NEW k \in DOMAIN stack'
          PROVE  \/ h = 1 /\ k = 1 /\ stack'[k].bus = B
                 \/ \E l \in DOMAIN stack : k = l + h /\ stack'[k].bus = stack[l].bus
      <4>1. CASE h = 1 /\ k = 1 /\ stack'[k] = Start(B)
        BY <1>7, <4>1
      <4>2. CASE k = 1 + h /\ stack'[k] = q
        BY <1>2, <1>5, <4>2
      <4>3. CASE k - h \in DOMAIN stack /\ stack'[k] = stack[k - h]
        <5>1. k = (k - h) + h
          BY <1>3
        <5> QED
          BY <4>3, <5>1
      <4> QED
        BY <1>8, <4>1, <4>2, <4>3
    <3>2. \A k, l \in DOMAIN stack : stack[k].bus = stack[l].bus => k = l
      BY DEF ScanInv, StackInv
    <3> QED
      BY <1>7, <1>17, <1>18, <2>1, <3>1, <3>2
  <2>2. ASSUME NEW j \in DOMAIN stack'
        PROVE  /\ Opened(m, pcidevs', stack'[j].bus) /\ stack'[j].bus \in Buses(m)
               /\ stack'[j].fun # 0 => Several(m, stack'[j].bus, stack'[j].dev)
    <3>1. CASE h = 1 /\ stack'[j] = Start(B)
      <4>1. p \in Bridges(m) /\ p[1] \in Buses(m)
        BY <1>2, <1>5, <1>6, <1>18, <3>1 DEF Bridges
      <4>2. B \in Buses(m)
        BY <4>1, BusesClosed DEF B
      <4> QED
        BY <1>7, <1>14, <3>1, <4>2
    <3>2. CASE stack'[j] = q
      BY <1>5, <1>13, <1>18, <3>2
    <3>3. CASE j - h \in DOMAIN stack /\ stack'[j] = stack[j - h]
      BY <1>13, <1>18, <3>3 DEF ScanInv, StackInv
    <3> QED
      BY <1>8, <3>1, <3>2, <3>3
  <2> QED
    BY <1>2, <2>1, <2>2 DEF StackInv
<1>20. FoundInv(m)'
  <2>1. ASSUME NEW i \in DOMAIN pcidevs', NEW j \in DOMAIN pcidevs', pcidevs'[i] = pcidevs'[j]
        PROVE  i = j
    BY <1>12, <1>16, <2>1 DEF ScanInv, FoundInv
  <2>2. ASSUME NEW n \in DOMAIN pcidevs'
        PROVE  Opened(m, pcidevs', pcidevs'[n][1]) /\ pcidevs'[n] \in There(m)
    <3>1. p \in DOMAIN m => p \in There(m)
      BY <1>5, <1>6, <1>18 DEF There
    <3> QED
      BY <1>6, <1>12, <1>13, <1>18, <3>1 DEF ScanInv, FoundInv
  <2>3. ASSUME NEW n \in DOMAIN pcidevs', NEW j \in DOMAIN stack',
               pcidevs'[n][1] = stack'[j].bus
        PROVE  Before(pcidevs'[n], stack'[j])
    <3> DEFINE x == pcidevs'[n]
    <3>1. x \in DOMAIN m
      BY <1>12
    <3>2. \/ n \in DOMAIN pcidevs /\ x = pcidevs[n]
          \/ p \in DOMAIN m /\ x = p
      BY <1>12
    <3>3. Opened(m, pcidevs, x[1])
      BY <1>6, <1>18, <3>2
    <3> HIDE DEF x
    <3>4. ~(h = 1 /\ stack'[j] = Start(B))
      BY <1>7, <1>17, <2>3, <3>3 DEF x
    <3>5. CASE stack'[j] = q
      <4>1. n \in DOMAIN pcidevs /\ x = pcidevs[n] => Before(x, s)
        BY <1>2, <1>5, <2>3, <3>5 DEF ScanInv, FoundInv, x
      <4> QED
        BY <1>5, <3>1, <3>2, <3>5, <4>1 DEF x
    <3>6. CASE j - h \in 2..Len(stack) /\ j - h \in DOMAIN stack /\ stack'[j] = stack[j - h]
      <4>1. x # p
        <5> SUFFICES ASSUME x = p
                     PROVE  FALSE
          OBVIOUS
        <5>1. stack[j - h].bus = stack[1].bus
          BY <1>2, <1>6, <2>3, <3>6 DEF x
        <5>2. j - h = 1
          BY <1>2, <3>6, <5>1 DEF ScanInv, StackInv
        <5> QED
          BY <3>6, <5>2
      <4> QED
        BY <2>3, <3>2, <3>6, <4>1 DEF ScanInv, FoundInv, x
    <3> QED
      BY <1>8, <3>4, <3>5, <3>6
  <2> QED
    BY <1>12, <2>1, <2>2, <2>3 DEF FoundInv
<1>21. CoverInv(m)'
  <2> SUFFICES ASSUME ~Several(m, 0, 0), NEW x \in DOMAIN m, Seen(m, x), Opened(m, pcidevs', x[1])
               PROVE  \/ x \in Found'
                      \/ \E j \in DOMAIN stack' : stack'[j].bus = x[1] /\ ~Before(x, stack'[j])
    BY DEF CoverInv
  <2>1. /\ x \in Found => x \in Found'
        /\ p \in DOMAIN m => p \in Found'
    BY <1>12 DEF Found
  <2>2. CASE h = 1 /\ x[1] = B
    <3>1. x[2] \in Nat /\ x[3] \in Nat
      BY PlaceOf
    <3>2. ~Before(x, Start(B))
      BY <3>1 DEF Before, Start
    <3> QED
      BY <1>2, <1>7, <1>10, <2>2, <3>2
  <2>3. CASE Opened(m, pcidevs, x[1])
    <3>1. x \in Found \/ \E j \in DOMAIN stack : stack[j].bus = x[1] /\ ~Before(x, stack[j])
      BY <2>3 DEF ScanInv, CoverInv
    <3>2. ASSUME NEW j \in DOMAIN stack, j # 1, stack[j].bus = x[1], ~Before(x, stack[j])
          PROVE  \E k \in DOMAIN stack' : stack'[k].bus = x[1] /\ ~Before(x, stack'[k])
      BY <1>9, <3>2
    <3>3. ASSUME s.bus = x[1], ~Before(x, s)
          PROVE  \/ x \in Found'
                 \/ \E k \in DOMAIN stack' : stack'[k].bus = x[1] /\ ~Before(x, stack'[k])
      <4>1. CASE Before(x, q)
        BY <1>5, <2>1, <3>3, <4>1
      <4>2. CASE ~Before(x, q)
        BY <1>2, <1>5, <1>10, <3>3, <4>2
      <4> QED
        BY <4>1, <4>2
    <3> QED
      BY <1>2, <2>1, <3>1, <3>2, <3>3
  <2> QED
    BY <1>15, <2>2, <2>3
<1> QED
  BY <1>19, <1>20, <1>21 DEF ScanInv

(* The end of a bus: everything on it lies before the place.               *)
LEMMA ReturnStep ==
  ASSUME NEW m \in Machines, ScanInv(m), Return
  PROVE  ScanInv(m)'
<1>1. /\ stack \in Seq(Place) /\ stack # <<>> /\ Head(stack).dev = Devices
      /\ stack' = Tail(stack) /\ pcidevs' = pcidevs
  BY DEF ScanInv, StackInv, Return, Scanning, Top
<1>2. /\ stack' \in Seq(Place) /\ DOMAIN stack = 1..Len(stack) /\ Len(stack) \in Nat
      /\ DOMAIN stack' = 1..Len(stack)-1 /\ Head(stack) = stack[1]
      /\ \A j \in DOMAIN stack' : stack'[j] = stack[j + 1]
  BY <1>1
<1>3. \A j \in DOMAIN stack' : j + 1 \in DOMAIN stack /\ stack'[j] = stack[j + 1]
  BY <1>2
<1>4. \A j \in DOMAIN stack : j # 1 => j - 1 \in DOMAIN stack' /\ stack'[j - 1] = stack[j]
  <2>1. \A j \in DOMAIN stack : j # 1 => j - 1 \in DOMAIN stack' /\ (j - 1) + 1 = j
    BY <1>2
  <2> QED
    BY <1>2, <2>1
<1>5. StackInv(m)'
  <2>1. ASSUME NEW i \in DOMAIN stack', NEW j \in DOMAIN stack', stack'[i].bus = stack'[j].bus
        PROVE  i = j
    <3>1. i + 1 = j + 1
      BY <1>3, <2>1 DEF ScanInv, StackInv
    <3> QED
      BY <1>2, <3>1
  <2>2. ASSUME NEW j \in DOMAIN stack'
        PROVE  /\ Opened(m, pcidevs', stack'[j].bus) /\ stack'[j].bus \in Buses(m)
               /\ stack'[j].fun # 0 => Several(m, stack'[j].bus, stack'[j].dev)
    BY <1>1, <1>3 DEF ScanInv, StackInv
  <2> QED
    BY <1>2, <2>1, <2>2 DEF StackInv
<1>6. FoundInv(m)'
  BY <1>1, <1>3 DEF ScanInv, FoundInv
<1>7. CoverInv(m)'
  <2> SUFFICES ASSUME ~Several(m, 0, 0), NEW x \in DOMAIN m, Seen(m, x),
                      Opened(m, pcidevs', x[1])
               PROVE  \/ x \in Found'
                      \/ \E j \in DOMAIN stack' : stack'[j].bus = x[1] /\ ~Before(x, stack'[j])
    BY DEF CoverInv
  <2>1. x \in Found \/ \E j \in DOMAIN stack : stack[j].bus = x[1] /\ ~Before(x, stack[j])
    BY <1>1 DEF ScanInv, CoverInv
  <2>2. Before(x, stack[1])
    <3>1. x[2] \in 0..Devices-1
      BY PlaceOf
    <3> QED
      BY <1>1, <1>2, <3>1, MachineAssumption DEF Before
  <2>3. Found' = Found
    BY <1>1 DEF Found
  <2> QED
    BY <1>4, <2>1, <2>2, <2>3
<1> QED
  BY <1>5, <1>6, <1>7 DEF ScanInv

(* At first, and when the end is reached.                                  *)
LEMMA ScanFirst ==
  ASSUME NEW m \in Machines, Same(m), Init
  PROVE  ScanInv(m)
<1>1. pcidevs = <<>> /\ stack = IF Multi(0, 0) THEN <<>> ELSE <<Start(0)>>
  BY DEF Init
<1>2. DOMAIN pcidevs = {} /\ pcidevs \in Seq(DOMAIN m)
  BY <1>1
<1>3. FoundInv(m)
  BY <1>2 DEF FoundInv
<1>4. Start(0) \in Place
  BY MachineAssumption DEF Start, Place
<1>5. Start(0).bus = 0 /\ Start(0).dev = 0 /\ Start(0).fun = 0
  BY DEF Start
<1>6. CASE Multi(0, 0)
  <2>1. stack = <<>> /\ DOMAIN stack = {} /\ stack \in Seq(Place)
    BY <1>1, <1>6
  <2>2. StackInv(m)
    BY <2>1 DEF StackInv
  <2>3. CoverInv(m)
    <3>1. <<0, 0, 0>> \in DOMAIN m
      BY Configuration, Zenon
    <3>2. 0 \in Nat /\ 0 \in 0..31 /\ 0 \in 0..7
      OBVIOUS
    <3>3. <<0, 0, 0>> \in DOMAIN m => (Multi(0, 0) <=> Several(m, 0, 0))
      BY <3>2, Reads
    <3> QED
      BY <1>6, <3>1, <3>3 DEF CoverInv
  <2> QED
    BY <1>3, <2>2, <2>3 DEF ScanInv
<1>7. CASE ~Multi(0, 0)
  <2> DEFINE s == Start(0)
  <2> HIDE DEF s
  <2>1. stack = <<s>> /\ DOMAIN stack = {1} /\ stack[1] = s /\ stack \in Seq(Place)
    <3>1. stack = <<s>> /\ s \in Place
      BY <1>1, <1>4, <1>7 DEF s
    <3> QED
      BY <3>1
  <2>2. s.bus = 0 /\ s.dev = 0 /\ s.fun = 0
    BY <1>5 DEF s
  <2>3. 0 \in Buses(m)
    BY BusesClosed
  <2>4. StackInv(m)
    BY <2>1, <2>2, <2>3 DEF StackInv, Opened
  <2>5. CoverInv(m)
    <3> SUFFICES ASSUME ~Several(m, 0, 0), NEW x \in DOMAIN m, Seen(m, x),
                        Opened(m, pcidevs, x[1])
                 PROVE  \E j \in DOMAIN stack : stack[j].bus = x[1] /\ ~Before(x, stack[j])
      BY DEF CoverInv
    <3>1. x[1] = 0
      BY <1>2 DEF Opened
    <3>2. x[2] \in Nat /\ x[3] \in Nat
      BY PlaceOf
    <3> QED
      BY <2>1, <2>2, <3>1, <3>2 DEF Before
  <2> QED
    BY <1>3, <2>4, <2>5 DEF ScanInv
<1> QED
  BY <1>6, <1>7

LEMMA ScanLast ==
  ASSUME NEW m \in Machines, Same(m), ScanInv(m)
  PROVE  FindsEachOnce
<1> SUFFICES ASSUME Done, ~Several(space, 0, 0)
             PROVE  Found = There(space) /\ Len(pcidevs) = Cardinality(There(space))
  BY DEF FindsEachOnce, Found
<1>1. There(space) = There(m) /\ ~Several(m, 0, 0)
  <2>1. /\ DOMAIN space = DOMAIN m
        /\ \A p \in DOMAIN m : \A off \in Nat \ {4, 6} : Held(space, p, off) = Held(m, p, off)
    BY DEF Same
  <2> QED
    BY <2>1, Topology
<1>2. stack = <<>> /\ DOMAIN stack = {}
  BY DEF Done
<1>3. Found \subseteq There(m)
  BY DEF Found, ScanInv, FoundInv
<1>4. \A x \in DOMAIN m : Seen(m, x) /\ Opened(m, pcidevs, x[1]) => x \in Found
  BY <1>1, <1>2 DEF ScanInv, CoverInv
<1>5. There(m) \subseteq Found
  <2> DEFINE S == {b \in Numbers(m) : Opened(m, pcidevs, b)}
  <2>1. 0 \in S
    BY DEF Opened, Numbers
  <2>2. ASSUME NEW p \in Bridges(m), p[1] \in S
        PROVE  Behind(m, p) \in S
    <3>1. p \in Found /\ Bridge(m, p)
      BY <1>4, <2>2 DEF Bridges
    <3>2. Behind(m, p) \in Numbers(m)
      BY DEF Numbers
    <3> QED
      BY <3>1, <3>2 DEF Found, Opened
  <2>3. Closed(m, S)
    BY <2>1, <2>2 DEF Closed
  <2>4. Buses(m) \subseteq S
    BY <2>3, BusesLeast
  <2> QED
    BY <1>4, <2>4 DEF There
<1>6. Len(pcidevs) = Cardinality(Found)
  <2>1. pcidevs \in Seq(DOMAIN m) /\ \A i, j \in DOMAIN pcidevs : pcidevs[i] = pcidevs[j] => i = j
    BY DEF ScanInv, FoundInv
  <2>2. Len(pcidevs) \in Nat /\ DOMAIN pcidevs = 1..Len(pcidevs)
    BY <2>1
  <2>3. pcidevs \in [1..Len(pcidevs) -> Found]
    BY <2>1, <2>2 DEF Found
  <2>4. pcidevs \in Bijection(1..Len(pcidevs), Found)
    BY <2>1, <2>2, <2>3 DEF Bijection, Injection, Surjection, IsInjective, Found
  <2>5. ExistsBijection(1..Len(pcidevs), Found)
    BY <2>4 DEF ExistsBijection
  <2> QED
    BY <2>2, <2>5, FS_CountingElements
<1>7. Found = There(m)
  BY <1>3, <1>5
<1> QED
  BY <1>1, <1>6, <1>7, Zenon

-----------------------------------------------------------------------------
(* The steps of the probe *)

LEMMA CardType ==
  ASSUME NEW m \in Machines, NEW p \in DOMAIN m, PcnetCard(m, p)
  PROVE  CardOf(m, p) \in Cards
<1>1. Held(m, p, \h10) - 1 \in DOMAIN CardAt
  BY Configuration, Zenon
<1> QED
  BY <1>1, MachineAssumption DEF CardOf

LEMMA Probed ==
  ASSUME NEW m \in Machines, FoundInv(m), StageInv(m), pc # "idle"
  PROVE  card \in Cards /\ Last \in DOMAIN m
<1>1. Last \in DOMAIN m
  BY DEF FoundInv, StageInv, Last
<1> QED
  BY <1>1, CardType DEF StageInv

(* pci_adjust writes the command register of the function being probed and *)
(* nothing else.                                                           *)
LEMMA AdjustSpace ==
  ASSUME NEW m \in Machines, Same(m), FoundInv(m), StageInv(m), Adjust
  PROVE  /\ Same(m)'
         /\ Held(space', Last, 4) % 8 = 7
         /\ \A p \in DOMAIN m : Held(space, p, 4) % 8 = 7 => Held(space', p, 4) % 8 = 7
<1> DEFINE dev == Last
           a   == Address(dev[1], dev[2], dev[3], 4)
           c   == Held(space, dev, 4)
           e   == Held(space, dev, 6)
           new == [o \in DOMAIN space[dev] \cup {4, 6} |->
                     IF o = 4 THEN c - (c % 8) + 7 ELSE IF o = 6 THEN e ELSE space[dev][o]]
<1>1. pc = "adjust" /\ dev \in DOMAIN m /\ pci_adjust(dev)
  BY Probed DEF Adjust, Goto, Last
<1>2. /\ dev = <<dev[1], dev[2], dev[3]>>
      /\ dev[1] \in Nat /\ dev[2] \in 0..31 /\ dev[3] \in 0..7
  <2>1. /\ dev = <<dev[1], dev[2], dev[3]>>
        /\ dev[1] \in 0..255 /\ dev[2] \in 0..Devices-1 /\ dev[3] \in 0..Functions-1
    BY <1>1, PlaceOf
  <2>2. Devices \in 1..32 /\ Functions \in 1..8
    BY MachineAssumption
  <2> QED
    BY <2>1, <2>2
<1>3. DOMAIN space = DOMAIN m /\ dev \in DOMAIN space /\ c \in Nat
  BY <1>1 DEF Same
<1>4. Selected(a) = dev /\ a % 2^8 = 4
  <2>1. 4 \in 0..255 /\ 4 - (4 % 4) = 4
    OBVIOUS
  <2> QED
    BY <1>2, <2>1, AddressOf
<1> HIDE DEF a
<1>5. Data(a) = <<c, e>>
  BY <1>3, <1>4 DEF Data, Register
<1>6. space' = [space EXCEPT ![dev] = new]
  <2> DEFINE conf == <<c - (c % 8) + 7, e>>
  <2>1. pciConfigReadDword(dev[1], dev[2], dev[3], 4) = <<c, e>>
    BY <1>5 DEF pciConfigReadDword, a
  <2>2. space' = pciConfigWriteDword(dev[1], dev[2], dev[3], 4, conf)
    BY <1>1, <2>1 DEF pci_adjust
  <2>3. conf[1] = c - (c % 8) + 7 /\ conf[2] = e
    OBVIOUS
  <2> HIDE DEF conf
  <2>4. pciConfigWriteDword(dev[1], dev[2], dev[3], 4, conf) =
          [space EXCEPT ![dev] = [o \in DOMAIN space[dev] \cup {4, 4 + 2} |->
             IF o = 4 THEN conf[1] ELSE IF o = 4 + 2 THEN conf[2] ELSE space[dev][o]]]
    <3> HIDE DEF dev
    <3> QED
      BY <1>3, <1>4 DEF pciConfigWriteDword, a
  <2>5. 4 + 2 = 6
    OBVIOUS
  <2> HIDE DEF dev, c, e
  <2> QED
    BY <2>2, <2>3, <2>4, <2>5
<1> HIDE DEF dev, c
<1>7. DOMAIN space' = DOMAIN m /\ space'[dev] = new
      /\ \A p \in DOMAIN m : p # dev => space'[p] = space[p]
  BY <1>3, <1>6
<1>8. \A off \in Nat \ {4, 6} : Held(space', dev, off) = Held(space, dev, off)
  BY <1>7 DEF Held
<1>9. Held(space', dev, 4) = c - (c % 8) + 7
  BY <1>7 DEF Held
<1>10. (c - (c % 8) + 7) % 8 = 7 /\ c - (c % 8) + 7 \in Nat
  BY <1>3
<1>11. \A p \in DOMAIN m : p # dev => \A off : Held(space', p, off) = Held(space, p, off)
  BY <1>7 DEF Held
<1>12. Same(m)'
  BY <1>7, <1>8, <1>9, <1>10, <1>11 DEF Same
<1>13. \A p \in DOMAIN m : Held(space, p, 4) % 8 = 7 => Held(space', p, 4) % 8 = 7
  BY <1>9, <1>10, <1>11
<1> QED
  BY <1>9, <1>10, <1>12, <1>13 DEF dev

(* The last entry of the table is written.                                 *)
LEMMA Changed ==
  ASSUME NEW R, NEW s \in Seq(R), Len(s) > 0, NEW r \in R
  PROVE  LET t == [s EXCEPT ![Len(s)] = r] IN
         /\ t \in Seq(R) /\ Len(t) = Len(s) /\ DOMAIN t = DOMAIN s
         /\ Len(s) \in DOMAIN s /\ t[Len(s)] = r
         /\ \A i \in DOMAIN s : i # Len(s) => t[i] = s[i]
OBVIOUS

LEMMA OneMore ==
  ASSUME NEW k \in Nat, NEW n \in Nat, n = k \/ n = k + 1, NEW i
  PROVE  /\ i \in 1..n /\ i # n => i \in 1..k
         /\ i \in 1..k => i \in 1..n /\ (n = k \/ i # n) /\ i # k + 1
         /\ n # k => n = k + 1
OBVIOUS

(* A card that runs keeps what it has while the entry of another one is    *)
(* made or filled in.                                                      *)
LEMMA OthersKept ==
  ASSUME NEW m \in Machines, TableInv(m), RunInv(m), csr' = csr, csr[card] # "run",
         UNCHANGED <<space, handlers>>,
         net_devs' \in Seq(Entry), Len(net_devs') <= NET_NUM_DEVS,
         Len(net_devs') \in {Len(net_devs), Len(net_devs) + 1},
         net_devs'[Len(net_devs')].card = card,
         \A i \in DOMAIN net_devs : i # Len(net_devs') => net_devs'[i] = net_devs[i],
         Len(net_devs') = Len(net_devs) => net_devs[Len(net_devs')].card = card
  PROVE  RunInv(m)'
<1> SUFFICES ASSUME NEW k \in Cards, csr[k] = "run"
             PROVE  /\ Prepared(k)'
                    /\ \E p \in DOMAIN m : PcnetCard(m, p) /\ CardOf(m, p) = k /\ Enabled(p)'
  BY DEF RunInv
<1>1. k # card
  OBVIOUS
<1>2. /\ DOMAIN net_devs = 1..Len(net_devs) /\ Len(net_devs) \in Nat
      /\ DOMAIN net_devs' = 1..Len(net_devs') /\ Len(net_devs') \in Nat
      /\ Len(net_devs') = Len(net_devs) \/ Len(net_devs') = Len(net_devs) + 1
  BY DEF TableInv
<1>3. ASSUME NEW i \in DOMAIN net_devs', net_devs'[i].card = k
      PROVE  i \in DOMAIN net_devs /\ net_devs'[i] = net_devs[i]
  <2>1. i # Len(net_devs')
    BY <1>1, <1>3
  <2>2. i \in DOMAIN net_devs
    BY <1>2, <2>1, OneMore, Zenon
  <2> QED
    BY <2>1, <2>2
<1>4. ASSUME NEW i \in DOMAIN net_devs, net_devs[i].card = k
      PROVE  i \in DOMAIN net_devs' /\ net_devs'[i] = net_devs[i]
  <2>1. Len(net_devs') = Len(net_devs) \/ i # Len(net_devs')
    <3>1. i \in 1..Len(net_devs)
      BY <1>2, Zenon
    <3>2. i # Len(net_devs) + 1
      BY <1>2, <3>1, OneMore, Zenon
    <3> QED
      BY <1>2, <3>2, Zenon
  <2>2. i # Len(net_devs')
    BY <1>1, <1>4, <2>1
  <2>3. i \in DOMAIN net_devs'
    BY <1>2, OneMore, Zenon
  <2> QED
    BY <2>2, <2>3
<1>5. EntriesOf(k)' = EntriesOf(k)
  BY <1>3, <1>4 DEF EntriesOf
<1>6. PICK n \in EntriesOf(k) : /\ EntriesOf(k) = {n} /\ n <= NET_NUM_DEVS
                                /\ net_devs[n].memory = Allocations /\ net_devs[n].ready
  BY DEF RunInv, Prepared
<1>7. net_devs'[n] = net_devs[n]
  BY <1>4 DEF EntriesOf
<1>8. k \in handlers'
  BY DEF RunInv, Prepared
<1>9. Prepared(k)'
  BY <1>5, <1>6, <1>7, <1>8 DEF Prepared
<1> QED
  BY <1>9 DEF RunInv, Enabled

(* What the other steps leave alone.                                       *)
LEMMA RunKept ==
  ASSUME NEW m \in Machines, RunInv(m), UNCHANGED net_devs, handlers \subseteq handlers',
         \A k \in Cards : csr'[k] = "run" => csr[k] = "run",
         \A p \in DOMAIN m : Enabled(p) => Enabled(p)'
  PROVE  RunInv(m)'
<1> SUFFICES ASSUME NEW k \in Cards, csr'[k] = "run"
             PROVE  /\ Prepared(k)'
                    /\ \E p \in DOMAIN m : PcnetCard(m, p) /\ CardOf(m, p) = k /\ Enabled(p)'
  BY DEF RunInv
<1>1. /\ Prepared(k)
      /\ \E p \in DOMAIN m : PcnetCard(m, p) /\ CardOf(m, p) = k /\ Enabled(p)
  BY DEF RunInv
<1>2. Prepared(k)'
  BY <1>1 DEF Prepared, EntriesOf
<1> QED
  BY <1>1, <1>2

(* A step of the probe that leaves the table alone: what remains is what   *)
(* it says of the stage it leads to.                                       *)
LEMMA ResetStep ==
  ASSUME NEW m \in Machines, ScanInv(m), TableInv(m), StageInv(m), RunInv(m),
         Reset, UNCHANGED <<space, stack, pcidevs>>
  PROVE  TableInv(m)' /\ StageInv(m)' /\ RunInv(m)'
<1>1. /\ pc = "reset" /\ pc' = "tick" /\ csr' = [csr EXCEPT ![card] = "stop"]
      /\ UNCHANGED <<card, net_devs, handlers, space, pcidevs>>
  BY DEF Reset, Goto
<1>2. card \in Cards /\ csr \in [Cards -> {"stop", "init", "idon", "run"}]
  BY <1>1, Probed DEF ScanInv, StageInv
<1>3. /\ csr' \in [Cards -> {"stop", "init", "idon", "run"}] /\ csr'[card] # "run"
      /\ \A k \in Cards : csr'[k] = "run" => csr[k] = "run"
  BY <1>1, <1>2
<1>4. TableInv(m)'
  BY <1>1 DEF TableInv
<1>5. StageInv(m)'
  BY <1>1, <1>3 DEF StageInv, Last, Entered, Entering, Adjusted, Supplied, Readied, Started
<1>6. RunInv(m)'
  BY <1>1, <1>3, RunKept DEF Enabled
<1> QED
  BY <1>4, <1>5, <1>6

(* The steps that change neither the card nor the table.                   *)
LEMMA QuietStep ==
  ASSUME NEW m \in Machines, ScanInv(m), TableInv(m), StageInv(m), RunInv(m),
         PitTick \/ Version \/ Model \/ PollIdon, UNCHANGED <<space, stack, pcidevs>>
  PROVE  TableInv(m)' /\ StageInv(m)' /\ RunInv(m)'
<1>1. /\ UNCHANGED <<card, net_devs, handlers, csr, space, pcidevs>>
      /\ \/ pc = "tick" /\ pc' = "version"
         \/ pc = "version" /\ pc' \in {"alloc", "idle"}
         \/ pc = "model" /\ pc' \in {"adjust", "idle"}
         \/ pc = "poll" /\ pc' = "stop"
  BY DEF PitTick, Version, Model, PollIdon, Goto
<1>2. TableInv(m)'
  BY <1>1 DEF TableInv
<1>3. StageInv(m)'
  BY <1>1 DEF StageInv, Mine, Last, Enabled, Entered, Entering, Adjusted, Supplied,
              Readied, Started
<1>4. RunInv(m)'
  BY <1>1, RunKept DEF Enabled
<1> QED
  BY <1>2, <1>3, <1>4

(* INIT and STOP are written: the card does not run.                       *)
LEMMA WriteStep ==
  ASSUME NEW m \in Machines, ScanInv(m), TableInv(m), StageInv(m), RunInv(m),
         WriteInit \/ WriteStop, UNCHANGED <<space, stack, pcidevs>>
  PROVE  TableInv(m)' /\ StageInv(m)' /\ RunInv(m)'
<1>1. /\ UNCHANGED <<card, net_devs, handlers, space, pcidevs>>
      /\ \/ pc = "init" /\ pc' = "poll" /\ csr' = [csr EXCEPT ![card] = "init"]
         \/ pc = "stop" /\ pc' = "install" /\ csr' = [csr EXCEPT ![card] = "stop"]
  BY DEF WriteInit, WriteStop, Goto
<1>2. card \in Cards /\ csr \in [Cards -> {"stop", "init", "idon", "run"}]
  BY <1>1, Probed DEF ScanInv, StageInv
<1>3. /\ csr' \in [Cards -> {"stop", "init", "idon", "run"}] /\ csr'[card] # "run"
      /\ \A k \in Cards : csr'[k] = "run" => csr[k] = "run"
  BY <1>1, <1>2
<1>4. TableInv(m)'
  BY <1>1 DEF TableInv
<1>5. StageInv(m)'
  BY <1>1, <1>3 DEF StageInv, Mine, Last, Enabled, Entered, Entering, Adjusted, Supplied,
                    Readied, Started
<1>6. RunInv(m)'
  BY <1>1, <1>3, RunKept DEF Enabled
<1> QED
  BY <1>4, <1>5, <1>6

LEMMA InstallStep ==
  ASSUME NEW m \in Machines, ScanInv(m), TableInv(m), StageInv(m), RunInv(m),
         Install, UNCHANGED <<space, stack, pcidevs>>
  PROVE  TableInv(m)' /\ StageInv(m)' /\ RunInv(m)'
<1>1. /\ UNCHANGED <<card, net_devs, csr, space, pcidevs>>
      /\ pc = "install" /\ pc' = "start" /\ handlers' = handlers \cup {card}
  BY DEF Install, Goto
<1>2. TableInv(m)'
  BY <1>1 DEF TableInv
<1>3. StageInv(m)'
  BY <1>1 DEF StageInv, Mine, Last, Enabled, Entered, Entering, Adjusted, Supplied,
              Readied, Started
<1>4. RunInv(m)'
  BY <1>1, RunKept DEF Enabled
<1> QED
  BY <1>2, <1>3, <1>4

(* The card is started: its entry is the last one, and its only one.       *)
LEMMA StartStep ==
  ASSUME NEW m \in Machines, ScanInv(m), TableInv(m), StageInv(m), RunInv(m),
         WriteStart, UNCHANGED <<space, stack, pcidevs>>
  PROVE  TableInv(m)' /\ StageInv(m)' /\ RunInv(m)'
<1>1. /\ UNCHANGED <<card, net_devs, handlers, space, pcidevs>>
      /\ pc = "start" /\ pc' = "idle" /\ csr' = [csr EXCEPT ![card] = "run"]
  BY DEF WriteStart, Goto
<1>2. /\ card \in Cards /\ csr \in [Cards -> {"stop", "init", "idon", "run"}]
      /\ Last \in DOMAIN m /\ PcnetCard(m, Last) /\ card = CardOf(m, Last)
  BY <1>1, Probed DEF ScanInv, StageInv
<1>3. /\ csr' \in [Cards -> {"stop", "init", "idon", "run"}]
      /\ \A k \in Cards : csr'[k] = "run" => csr[k] = "run" \/ k = card
  BY <1>1, <1>2
<1>4. TableInv(m)'
  BY <1>1 DEF TableInv
<1>5. StageInv(m)'
  BY <1>1, <1>3 DEF StageInv, Entered, Entering, Adjusted, Supplied, Readied, Started
<1>6. Prepared(card) /\ Enabled(Last)
  <2>1. /\ Len(net_devs) > 0 /\ net_devs[Mine].card = card
        /\ net_devs[Mine].memory = Allocations /\ net_devs[Mine].ready
        /\ card \in handlers /\ Enabled(Last)
    BY <1>1 DEF StageInv, Entered, Adjusted, Supplied, Readied, Started
  <2>2. Mine \in DOMAIN net_devs /\ Mine <= NET_NUM_DEVS
    BY <2>1 DEF TableInv, Mine
  <2>3. EntriesOf(card) = {Mine}
    BY <2>1, <2>2 DEF TableInv, EntriesOf
  <2> QED
    BY <2>1, <2>2, <2>3 DEF Prepared
<1>7. ASSUME NEW k \in Cards, csr'[k] = "run"
      PROVE  /\ Prepared(k)'
             /\ \E p \in DOMAIN m : PcnetCard(m, p) /\ CardOf(m, p) = k /\ Enabled(p)'
  <2>1. /\ Prepared(k)
        /\ \E p \in DOMAIN m : PcnetCard(m, p) /\ CardOf(m, p) = k /\ Enabled(p)
    BY <1>2, <1>3, <1>6, <1>7 DEF RunInv
  <2>2. Prepared(k)'
    BY <1>1, <2>1 DEF Prepared, EntriesOf
  <2> QED
    BY <1>1, <2>1, <2>2 DEF Enabled
<1>8. RunInv(m)'
  BY <1>7 DEF RunInv
<1> QED
  BY <1>4, <1>5, <1>8

(* alloc_netdev: the card has no entry yet, so the new one is its only one. *)
LEMMA AllocStep ==
  ASSUME NEW m \in Machines, ScanInv(m), TableInv(m), StageInv(m), RunInv(m),
         alloc_netdev, UNCHANGED <<space, stack, pcidevs>>
  PROVE  TableInv(m)' /\ StageInv(m)' /\ RunInv(m)'
<1>1. pc = "alloc" /\ UNCHANGED <<card, handlers, csr, space, pcidevs>>
  BY DEF alloc_netdev, Goto
<1>2. CASE pc' = "idle" /\ UNCHANGED net_devs
  <2>1. TableInv(m)'
    BY <1>1, <1>2 DEF TableInv
  <2>2. StageInv(m)'
    BY <1>1, <1>2 DEF StageInv, Entered, Entering, Adjusted, Supplied, Readied, Started
  <2>3. RunInv(m)'
    BY <1>1, <1>2, RunKept DEF Enabled
  <2> QED
    BY <2>1, <2>2, <2>3
<1>3. CASE /\ pc' = "model" /\ Len(net_devs) # NET_NUM_DEVS
           /\ net_devs' = Append(net_devs, [card |-> card, memory |-> 0, ready |-> FALSE])
  <2> DEFINE e == [card |-> card, memory |-> 0, ready |-> FALSE]
             n == Len(net_devs)
  <2>1. /\ card \in Cards /\ csr[card] # "run" /\ Len(pcidevs) > 0
        /\ Last \in DOMAIN m /\ PcnetCard(m, Last) /\ card = CardOf(m, Last)
        /\ \A i \in DOMAIN net_devs : net_devs[i].card # card
    BY <1>1, Probed DEF ScanInv, StageInv, Entering
  <2>2. e \in Entry /\ e.card = card
    BY <2>1 DEF Entry, Allocations
  <2>3. net_devs \in Seq(Entry) /\ n <= NET_NUM_DEVS /\ NET_NUM_DEVS \in Nat
    BY CardAssumption DEF TableInv
  <2> HIDE DEF e
  <2>4. /\ net_devs' \in Seq(Entry) /\ Len(net_devs') = n + 1 /\ n \in Nat
        /\ DOMAIN net_devs = 1..n /\ DOMAIN net_devs' = 1..n + 1
        /\ net_devs'[n + 1] = e /\ \A i \in 1..n : net_devs'[i] = net_devs[i]
    BY <1>3, <2>2, <2>3, Appended DEF e
  <2> HIDE DEF n
  <2>5. n + 1 <= NET_NUM_DEVS
    <3>1. n # NET_NUM_DEVS
      BY <1>3 DEF n
    <3> QED
      BY <2>3, <2>4, <3>1
  <2>6. \A i \in DOMAIN net_devs' :
          \/ i \in DOMAIN net_devs /\ net_devs'[i] = net_devs[i]
          \/ i = n + 1 /\ net_devs'[i].card = card
    BY <2>2, <2>4
  <2>7. TableInv(m)'
    <3>1. ASSUME NEW i \in DOMAIN net_devs', NEW j \in DOMAIN net_devs',
                 net_devs'[i].card = net_devs'[j].card
          PROVE  i = j
      BY <2>1, <2>6, <3>1 DEF TableInv
    <3>2. ASSUME NEW i \in DOMAIN net_devs'
          PROVE  \E k \in DOMAIN pcidevs :
                   PcnetCard(m, pcidevs[k]) /\ net_devs'[i].card = CardOf(m, pcidevs[k])
      <4>1. CASE i \in DOMAIN net_devs /\ net_devs'[i] = net_devs[i]
        BY <4>1 DEF TableInv
      <4>2. CASE net_devs'[i].card = card
        <5>1. Len(pcidevs) \in DOMAIN pcidevs
          BY <2>1 DEF ScanInv, FoundInv
        <5> QED
          BY <2>1, <4>2, <5>1 DEF Last
      <4> QED
        BY <2>6, <4>1, <4>2
    <3> QED
      BY <1>1, <2>4, <2>5, <3>1, <3>2 DEF TableInv
  <2>8. StageInv(m)'
    <3>1. Len(net_devs') > 0 /\ net_devs'[Len(net_devs')].card = card
      BY <2>2, <2>4
    <3> QED
      BY <1>1, <1>3, <2>1, <3>1 DEF StageInv, Mine, Last, Entered, Entering, Adjusted,
                                    Supplied, Readied, Started
  <2>9. RunInv(m)'
    <3>1. /\ csr' = csr /\ csr[card] # "run" /\ UNCHANGED <<space, handlers>>
          /\ Len(net_devs') <= NET_NUM_DEVS
          /\ Len(net_devs') \in {Len(net_devs), Len(net_devs) + 1}
          /\ net_devs'[Len(net_devs')].card = card
          /\ \A i \in DOMAIN net_devs : i # Len(net_devs') => net_devs'[i] = net_devs[i]
      BY <1>1, <2>1, <2>2, <2>4, <2>5 DEF n
    <3>2. Len(net_devs') # Len(net_devs)
      <4>1. n # n + 1
        BY <2>4
      <4> QED
        BY <2>4, <4>1 DEF n
    <3> QED
      BY <2>4, <3>1, <3>2, OthersKept
  <2> QED
    BY <2>7, <2>8, <2>9
<1> QED
  BY <1>2, <1>3 DEF alloc_netdev, Goto

(* The last entry, the one of the card, is filled in.                      *)
LEMMA FillStep ==
  ASSUME NEW m \in Machines, ScanInv(m), TableInv(m), StageInv(m), RunInv(m),
         Allocate \/ Prepare, UNCHANGED <<space, stack, pcidevs>>
  PROVE  TableInv(m)' /\ StageInv(m)' /\ RunInv(m)'
<1> DEFINE n == Len(net_devs)
           e == net_devs[n]
<1>1. /\ UNCHANGED <<card, handlers, csr, space, pcidevs>>
      /\ pc \in {"memory", "descriptors"}
  BY DEF Allocate, Prepare, Goto
<1>2. /\ card \in Cards /\ csr[card] # "run" /\ Enabled(Last)
      /\ Len(net_devs) > 0 /\ net_devs[Mine].card = card
      /\ Len(pcidevs) > 0 /\ PcnetCard(m, Last) /\ card = CardOf(m, Last)
      /\ csr \in [Cards -> {"stop", "init", "idon", "run"}]
  BY <1>1, Probed DEF ScanInv, StageInv, Entered, Adjusted, Supplied
<1>3. /\ net_devs \in Seq(Entry) /\ n > 0 /\ n <= NET_NUM_DEVS /\ n \in Nat
      /\ e.card = card /\ e \in Entry /\ n \in DOMAIN net_devs
  BY <1>2 DEF TableInv, Mine
<1>4. \E r \in Entry :
        /\ r.card = card /\ net_devs' = [net_devs EXCEPT ![n] = r]
        /\ \/ pc' = "idle"
           \/ pc' = "descriptors" /\ r.memory = Allocations
           \/ pc' = "init" /\ r.memory = Allocations /\ r.ready
  <2>1. CASE Allocate
    <3>1. PICK k \in 0..Allocations :
            /\ net_devs' = [net_devs EXCEPT ![Mine].memory = k]
            /\ pc' = IF k = Allocations THEN "descriptors" ELSE "idle"
      BY <2>1 DEF Allocate
    <3> DEFINE r == [e EXCEPT !.memory = k]
    <3>2. r = [card |-> e.card, memory |-> k, ready |-> e.ready]
      BY <1>3 DEF Entry
    <3>3. r \in Entry /\ r.card = card /\ r.memory = k
      BY <1>3, <3>2 DEF Entry
    <3>4. net_devs' = [net_devs EXCEPT ![n] = r]
      BY <3>1 DEF Mine
    <3> QED
      BY <3>1, <3>3, <3>4
  <2>2. CASE Prepare
    <3>1. /\ net_devs' = [net_devs EXCEPT ![Mine].ready = TRUE]
          /\ pc = "descriptors" /\ pc' = "init"
      BY <2>2 DEF Prepare, Goto
    <3> DEFINE r == [e EXCEPT !.ready = TRUE]
    <3>2. r = [card |-> e.card, memory |-> e.memory, ready |-> TRUE]
      <4> HIDE DEF e
      <4>1. e = [card |-> e.card, memory |-> e.memory, ready |-> e.ready]
        BY <1>3 DEF Entry
      <4>2. DOMAIN e = {"card", "memory", "ready"}
        BY <4>1
      <4>3. r.card = e.card /\ r.memory = e.memory
        BY <4>2
      <4>4. r.ready = TRUE
        BY <4>2, Zenon
      <4>5. r = [k \in {"card", "memory", "ready"} |-> r[k]]
        BY <4>2
      <4> HIDE DEF r
      <4> QED
        BY <4>3, <4>4, <4>5
    <3>3. r \in Entry /\ r.card = card /\ r.memory = e.memory /\ r.ready
      BY <1>3, <3>2 DEF Entry
    <3>4. net_devs' = [net_devs EXCEPT ![n] = r]
      BY <3>1 DEF Mine
    <3>5. e.memory = Allocations
      BY <3>1 DEF StageInv, Supplied, Mine
    <3> QED
      BY <3>1, <3>3, <3>4, <3>5
  <2> QED
    BY <2>1, <2>2
<1>5. PICK r \in Entry :
        /\ r.card = card /\ net_devs' = [net_devs EXCEPT ![n] = r]
        /\ \/ pc' = "idle"
           \/ pc' = "descriptors" /\ r.memory = Allocations
           \/ pc' = "init" /\ r.memory = Allocations /\ r.ready
  BY <1>4
<1>6. /\ net_devs' \in Seq(Entry) /\ Len(net_devs') = n
      /\ DOMAIN net_devs' = DOMAIN net_devs
      /\ n \in DOMAIN net_devs /\ net_devs'[n] = r
      /\ \A i \in DOMAIN net_devs : i # n => net_devs'[i] = net_devs[i]
  BY <1>3, <1>5, Changed
<1> HIDE DEF n
<1>7. \A i \in DOMAIN net_devs : net_devs'[i].card = net_devs[i].card
  BY <1>3, <1>5, <1>6
<1>8. TableInv(m)'
  <2>1. ASSUME NEW i \in DOMAIN net_devs', NEW j \in DOMAIN net_devs',
               net_devs'[i].card = net_devs'[j].card
        PROVE  i = j
    BY <1>6, <1>7, <2>1 DEF TableInv
  <2>2. ASSUME NEW i \in DOMAIN net_devs'
        PROVE  \E k \in DOMAIN pcidevs :
                 PcnetCard(m, pcidevs[k]) /\ net_devs'[i].card = CardOf(m, pcidevs[k])
    BY <1>6, <1>7 DEF TableInv
  <2> QED
    BY <1>1, <1>3, <1>6, <2>1, <2>2 DEF TableInv
<1>9. StageInv(m)'
  <2>1. Len(net_devs') > 0 /\ net_devs'[Len(net_devs')] = r
    BY <1>3, <1>6
  <2> QED
    BY <1>1, <1>2, <1>5, <2>1 DEF StageInv, Mine, Last, Enabled, Entered, Entering, Adjusted,
                                  Supplied, Readied, Started
<1>10. RunInv(m)'
  <2>1. /\ csr' = csr /\ csr[card] # "run" /\ UNCHANGED <<space, handlers>>
        /\ Len(net_devs') <= NET_NUM_DEVS
        /\ Len(net_devs') \in {Len(net_devs), Len(net_devs) + 1}
        /\ net_devs'[Len(net_devs')].card = card
        /\ \A i \in DOMAIN net_devs : i # Len(net_devs') => net_devs'[i] = net_devs[i]
        /\ net_devs[Len(net_devs')].card = card
    BY <1>1, <1>2, <1>3, <1>5, <1>6 DEF n
  <2> QED
    BY <1>6, <2>1, OthersKept
<1> QED
  BY <1>8, <1>9, <1>10

LEMMA ProbeStep ==
  ASSUME NEW m \in Machines, ScanInv(m), TableInv(m), StageInv(m), RunInv(m),
         probe_pcnet32 \/ PitTick, UNCHANGED <<space, stack, pcidevs>>
  PROVE  TableInv(m)' /\ StageInv(m)' /\ RunInv(m)'
<1>1. CASE Reset
  BY <1>1, ResetStep
<1>2. CASE PitTick \/ Version \/ Model \/ PollIdon
  BY <1>2, QuietStep
<1>3. CASE WriteInit \/ WriteStop
  BY <1>3, WriteStep
<1>4. CASE Install
  BY <1>4, InstallStep
<1>5. CASE WriteStart
  BY <1>5, StartStep
<1>6. CASE alloc_netdev
  BY <1>6, AllocStep
<1>7. CASE Allocate \/ Prepare
  BY <1>7, FillStep
<1> QED
  BY <1>1, <1>2, <1>3, <1>4, <1>5, <1>6, <1>7 DEF probe_pcnet32

LEMMA AdjustStep ==
  ASSUME NEW m \in Machines, Same(m), ScanInv(m), TableInv(m), StageInv(m), RunInv(m), Adjust
  PROVE  Same(m)' /\ TableInv(m)' /\ StageInv(m)' /\ RunInv(m)'
<1>1. /\ UNCHANGED <<card, net_devs, handlers, csr, pcidevs>>
      /\ pc = "adjust" /\ pc' = "memory"
  BY DEF Adjust, Goto
<1>2. /\ Same(m)' /\ Held(space', Last, 4) % 8 = 7
      /\ \A p \in DOMAIN m : Held(space, p, 4) % 8 = 7 => Held(space', p, 4) % 8 = 7
  BY AdjustSpace DEF ScanInv
<1>3. TableInv(m)'
  BY <1>1 DEF TableInv
<1>4. Last' = Last /\ Enabled(Last)'
  BY <1>1, <1>2 DEF Enabled, Last
<1>5. StageInv(m)'
  BY <1>1, <1>4 DEF StageInv, Mine, Entered, Entering, Adjusted, Supplied, Readied, Started
<1>6. RunInv(m)'
  BY <1>1, <1>2, RunKept DEF Enabled
<1> QED
  BY <1>2, <1>3, <1>5, <1>6

(* A card works for itself.                                                *)
LEMMA CardStep ==
  ASSUME NEW m \in Machines, FoundInv(m), TableInv(m), StageInv(m), RunInv(m),
         CardSteps, UNCHANGED <<space, stack, pcidevs>>
  PROVE  TableInv(m)' /\ StageInv(m)' /\ RunInv(m)'
<1>1. UNCHANGED <<pc, card, net_devs, handlers, space, pcidevs>>
  BY DEF CardSteps, CardInitialises, CardRuns
<1>2. /\ csr' \in [Cards -> {"stop", "init", "idon", "run"}]
      /\ \A k \in Cards : csr'[k] = "run" => csr[k] = "run"
  <2>1. csr \in [Cards -> {"stop", "init", "idon", "run"}]
    BY DEF StageInv
  <2>2. csr' = csr \/ \E k \in Cards : csr' = [csr EXCEPT ![k] = "idon"]
    BY DEF CardSteps, CardInitialises, CardRuns
  <2> QED
    BY <2>1, <2>2
<1>3. TableInv(m)'
  BY <1>1 DEF TableInv
<1>4. StageInv(m)'
  <2>1. pc # "idle" => card \in Cards
    BY Probed
  <2>2. pc \in Entered \cup {"tick", "version", "alloc"} => pc # "idle"
    BY DEF Entered, Adjusted, Supplied, Readied
  <2> QED
    BY <1>1, <1>2, <2>1, <2>2 DEF StageInv, Mine, Last, Enabled
<1>5. RunInv(m)'
  BY <1>1, <1>2, RunKept DEF Enabled
<1> QED
  BY <1>3, <1>4, <1>5

(* The scan leaves the cards alone, but for the call of the probe: the     *)
(* function that it found last is new, and so is its card.                 *)
LEMMA FindStep ==
  ASSUME NEW m \in Machines, Same(m), ScanInv(m), TableInv(m), StageInv(m), RunInv(m),
         Absent \/ checkFunction \/ Return, ScanInv(m)'
  PROVE  TableInv(m)' /\ StageInv(m)' /\ RunInv(m)'
<1>1. UNCHANGED <<net_devs, handlers, csr, space>> /\ pc = "idle"
  BY DEF Absent, checkFunction, Return, Scanning, Call, probevars
<1>2. RunInv(m)'
  BY <1>1, RunKept DEF Enabled
<1>3. CASE UNCHANGED <<pc, pcidevs>>
  <2>1. TableInv(m)'
    BY <1>1, <1>3 DEF TableInv
  <2>2. StageInv(m)'
    BY <1>1, <1>3 DEF StageInv, Entered, Entering, Adjusted, Supplied, Readied, Started
  <2> QED
    BY <1>2, <2>1, <2>2
<1>4. CASE checkFunction
  <2> DEFINE s == Top
             p == <<s.bus, s.dev, s.fun>>
  <2>1. /\ pcidevs' = Append(pcidevs, p)
        /\ IF IsPcnet(s.bus, s.dev, s.fun)
             THEN pc' = "reset" /\ card' = CardAt[Port(s.bus, s.dev, s.fun)]
             ELSE pc' = pc
        /\ s.dev < Devices /\ Present(s)
    BY <1>4 DEF checkFunction, Call, Goto, probevars
  <2>2. s \in Place
    <3>1. stack \in Seq(Place) /\ stack # <<>>
      BY <1>4 DEF checkFunction, Scanning, ScanInv, StackInv
    <3> QED
      BY <3>1 DEF Top
  <2> HIDE DEF s
  <2>3. s.bus \in Nat /\ s.dev \in 0..31 /\ s.fun \in 0..7
    <3>1. Devices \in 1..32 /\ Functions \in 1..8
      BY MachineAssumption
    <3>2. s.dev < Devices
      BY <2>1
    <3> QED
      BY <2>2, <3>1, <3>2 DEF Place
  <2>4. p \in DOMAIN m
    BY <2>1, <2>3, Reads DEF Present
  <2>5. /\ IsPcnet(s.bus, s.dev, s.fun) <=> PcnetCard(m, p)
        /\ PcnetCard(m, p) => CardAt[Port(s.bus, s.dev, s.fun)] = CardOf(m, p)
    BY <2>3, <2>4, Reads
  <2> HIDE DEF p
  <2>6. /\ Len(pcidevs') = Len(pcidevs) + 1 /\ Len(pcidevs) \in Nat
        /\ DOMAIN pcidevs = 1..Len(pcidevs) /\ DOMAIN pcidevs' = 1..Len(pcidevs) + 1
        /\ pcidevs'[Len(pcidevs) + 1] = p
        /\ \A n \in 1..Len(pcidevs) : pcidevs'[n] = pcidevs[n]
    BY <2>1, <2>4, Appended DEF ScanInv, FoundInv
  <2>7. \A n \in DOMAIN pcidevs : n \in DOMAIN pcidevs' /\ pcidevs'[n] = pcidevs[n]
    BY <2>6
  <2>8. TableInv(m)'
    BY <1>1, <2>7 DEF TableInv
  <2>9. Last' = p /\ Len(pcidevs') > 0
    BY <2>6 DEF Last
  <2>10. StageInv(m)'
    <3>1. CASE ~PcnetCard(m, p)
      BY <1>1, <2>1, <2>5, <3>1 DEF StageInv, Entered, Entering, Adjusted, Supplied, Readied,
                                    Started
    <3>2. CASE PcnetCard(m, p)
      <4>1. pc' = "reset" /\ card' = CardOf(m, p)
        BY <2>1, <2>5, <3>2
      <4>2. ASSUME NEW i \in DOMAIN net_devs, net_devs[i].card = CardOf(m, p)
            PROVE  FALSE
        <5>1. PICK n \in DOMAIN pcidevs :
                PcnetCard(m, pcidevs[n]) /\ net_devs[i].card = CardOf(m, pcidevs[n])
          BY DEF TableInv
        <5>2. pcidevs[n] \in DOMAIN m
          BY DEF ScanInv, FoundInv
        <5>3. pcidevs[n] = p
          BY <2>4, <3>2, <4>2, <5>1, <5>2, Configuration, Zenon
        <5>4. n \in DOMAIN pcidevs' /\ Len(pcidevs) + 1 \in DOMAIN pcidevs'
              /\ pcidevs'[n] = pcidevs'[Len(pcidevs) + 1] /\ n # Len(pcidevs) + 1
          BY <2>6, <2>7, <5>3
        <5> QED
          BY <5>4 DEF ScanInv, FoundInv
      <4> QED
        BY <1>1, <2>9, <3>2, <4>1, <4>2 DEF StageInv, Entered, Entering, Adjusted, Supplied,
                                            Readied, Started
    <3> QED
      BY <3>1, <3>2
  <2> QED
    BY <1>2, <2>8, <2>10
<1> QED
  BY <1>3, <1>4 DEF Absent, Return, probevars

-----------------------------------------------------------------------------
(* The theorems *)

LEMMA PciFirst == Init => PciInv
<1> SUFFICES ASSUME Init
             PROVE  PciInv
  OBVIOUS
<1>1. space \in Machines
  BY DEF Init
<1>2. Same(space)
  BY <1>1, HeldType DEF Same
<1>3. ScanInv(space)
  BY <1>1, <1>2, ScanFirst
<1>4. net_devs = <<>> /\ pc = "idle" /\ csr = [k \in Cards |-> "stop"]
  BY DEF Init, ProbeInit
<1>5. TableInv(space)
  <2>1. DOMAIN net_devs = {} /\ net_devs \in Seq(Entry) /\ Len(net_devs) = 0
    BY <1>4
  <2> QED
    BY <2>1, CardAssumption DEF TableInv
<1>6. StageInv(space)
  BY <1>4 DEF StageInv, Entered, Entering, Adjusted, Supplied, Readied, Started
<1>7. RunInv(space)
  BY <1>4 DEF RunInv
<1> QED
  BY <1>1, <1>2, <1>3, <1>5, <1>6, <1>7 DEF PciInv

LEMMA PciStep == PciInv /\ [Next]_vars => PciInv'
<1> SUFFICES ASSUME PciInv, [Next]_vars
             PROVE  PciInv'
  OBVIOUS
<1>1. PICK m \in Machines :
        Same(m) /\ ScanInv(m) /\ TableInv(m) /\ StageInv(m) /\ RunInv(m)
  BY DEF PciInv
<1> SUFFICES Same(m)' /\ ScanInv(m)' /\ TableInv(m)' /\ StageInv(m)' /\ RunInv(m)'
  BY DEF PciInv
<1>2. UNCHANGED space => Same(m)'
  BY <1>1 DEF Same
<1>3. UNCHANGED <<stack, pcidevs>> => ScanInv(m)'
  BY <1>1 DEF ScanInv, StackInv, FoundInv, CoverInv, Found
<1>4. CASE Absent \/ checkFunction
  <2>1. ScanInv(m)'
    BY <1>1, <1>4, ScanStep
  <2>2. UNCHANGED space
    BY <1>4 DEF Absent, checkFunction
  <2> QED
    BY <1>1, <1>2, <1>4, <2>1, <2>2, FindStep
<1>5. CASE Return
  <2>1. ScanInv(m)'
    BY <1>1, <1>5, ReturnStep
  <2>2. UNCHANGED space
    BY <1>5 DEF Return
  <2> QED
    BY <1>1, <1>2, <1>5, <2>1, <2>2, FindStep
<1>6. CASE (probe_pcnet32 \/ PitTick) /\ UNCHANGED <<space, stack, pcidevs>>
  BY <1>1, <1>2, <1>3, <1>6, ProbeStep
<1>7. CASE Adjust
  BY <1>1, <1>3, <1>7, AdjustStep DEF Adjust
<1>8. CASE CardSteps /\ UNCHANGED <<space, stack, pcidevs>>
  <2>1. FoundInv(m)
    BY <1>1 DEF ScanInv
  <2> QED
    BY <1>1, <1>2, <1>3, <1>8, <2>1, CardStep
<1>9. CASE UNCHANGED vars
  <2>1. UNCHANGED <<pc, card, net_devs, handlers, csr, space, stack, pcidevs>>
    BY <1>9 DEF vars, probevars
  <2>2. TableInv(m)'
    BY <1>1, <2>1 DEF TableInv
  <2>3. StageInv(m)'
    BY <1>1, <2>1 DEF StageInv, Mine, Last, Enabled
  <2>4. RunInv(m)'
    BY <1>1, <2>1, RunKept DEF Enabled
  <2> QED
    BY <1>2, <1>3, <2>1, <2>2, <2>3, <2>4
<1> QED
  BY <1>4, <1>5, <1>6, <1>7, <1>8, <1>9 DEF Next, Scan, Probing

(* A card that runs has its handler, its one entry of the table, all its   *)
(* memory and its descriptors, and its function may use the bus, whatever  *)
(* allocation failed before (probe_pcnet32, pci_adjust).                   *)
THEOREM Running == FairSpec => []RunsPrepared
<1>1. PciInv => RunsPrepared
  <2> SUFFICES ASSUME PciInv, NEW k \in Cards, csr[k] = "run"
               PROVE  /\ Prepared(k)
                      /\ \E p \in DOMAIN space :
                           /\ \E port \in DOMAIN CardAt :
                                CardAt[port] = k /\ Register(p, \h10) = port + 1
                           /\ Register(p, 4) % 8 = 7
    BY DEF RunsPrepared
  <2>1. PICK m \in Machines : Same(m) /\ RunInv(m)
    BY DEF PciInv
  <2>2. /\ Prepared(k)
        /\ \E p \in DOMAIN m : PcnetCard(m, p) /\ CardOf(m, p) = k /\ Enabled(p)
    BY <2>1 DEF RunInv
  <2>3. PICK p \in DOMAIN m : PcnetCard(m, p) /\ CardOf(m, p) = k /\ Enabled(p)
    BY <2>2
  <2> DEFINE port == Held(m, p, \h10) - 1
  <2>4. port \in DOMAIN CardAt
    BY <2>3, Configuration, Zenon
  <2>5. p \in DOMAIN space /\ Held(space, p, \h10) = Held(m, p, \h10) /\ Held(m, p, \h10) \in Nat
    BY <2>1, HeldType DEF Same
  <2>6. CardAt[port] = k /\ Register(p, \h10) = port + 1 /\ Register(p, 4) % 8 = 7
    BY <2>3, <2>5 DEF CardOf, Register, Enabled
  <2> QED
    BY <2>2, <2>4, <2>5, <2>6
<1> QED
  BY <1>1, PciFirst, PciStep, PTL DEF FairSpec

(* The recursion of pci.c without a record of the buses it has been on     *)
(* finds everything that bridges lead to, and nothing twice, on every      *)
(* machine whose bridges have bus numbers of their own.                    *)
THEOREM Enumeration == FairSpec => []FindsEachOnce
<1>1. PciInv => FindsEachOnce
  BY ScanLast DEF PciInv
<1> QED
  BY <1>1, PciFirst, PciStep, PTL DEF FairSpec
=============================================================================
