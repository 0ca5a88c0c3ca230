------------------------------ MODULE PciConfig -----------------------------
(***************************************************************************)
(* The accesses to the PCI configuration space at the beginning of pci.c:  *)
(* the address register 0xCF8, the data register 0xCFC, and the fields     *)
(* that the scan reads through them.  An access is not interrupted by      *)
(* another one, since only the scan makes them.                            *)
(*                                                                         *)
(* The enable bit, set in every address, is left out; the fields of an     *)
(* address do not overlap, so | is +.  Registers keep what is written: the *)
(* error bits of a status register, which the ones that pci_adjust writes  *)
(* back would clear in a card, are looked at by nobody.                    *)
(***************************************************************************)
EXTENDS Integers

VARIABLE space   \* <<bus, device, function>> -> byte offset -> 16-bit word

NoFunction == \hFFFF   \* what a read of an empty place gives

(* Register off of function p of machine m; what is not listed holds 0. *)
Held(m, p, off) == IF off \in DOMAIN m[p] THEN m[p][off] ELSE 0

Register(p, off) == Held(space, p, off)

(* The bridge of the host takes the address apart. *)
Selected(address) ==
  <<address \div 2^16, (address \div 2^11) % 32, (address \div 2^8) % 8>>

Data(address) ==
  LET p == Selected(address) off == address % 2^8 IN
  IF p \in DOMAIN space THEN <<Register(p, off), Register(p, off + 2)>>
  ELSE <<NoFunction, NoFunction>>

Address(bus, slot, func, offset) ==
  bus * 2^16 + slot * 2^11 + func * 2^8 + (offset - (offset % 4))

(* (inportl(0xCFC) >> ((offset & 2) * 8)) & 0xffff *)
pciConfigReadWord(bus, slot, func, offset) ==
  Data(Address(bus, slot, func, offset))[1 + (offset % 4) \div 2]

pciConfigReadDword(bus, slot, func, offset) == Data(Address(bus, slot, func, offset))

pciConfigWriteDword(bus, slot, func, offset, conf) ==
  LET a == Address(bus, slot, func, offset) p == Selected(a) off == a % 2^8 IN
  IF p \in DOMAIN space
    THEN [space EXCEPT ![p] = [o \in DOMAIN @ \cup {off, off + 2} |->
            IF o = off THEN conf[1] ELSE IF o = off + 2 THEN conf[2] ELSE @[o]]]
    ELSE space

getVendorId(b, d, f)     == pciConfigReadWord(b, d, f, 0)
getDeviceId(b, d, f)     == pciConfigReadWord(b, d, f, 2)
getHeaderType(b, d, f)   == pciConfigReadWord(b, d, f, \hE) % 256
getBaseClass(b, d, f)    == pciConfigReadWord(b, d, f, \hA) \div 256
getSubClass(b, d, f)     == pciConfigReadWord(b, d, f, \hA) % 256
getSecondaryBus(b, d, f) == pciConfigReadWord(b, d, f, \h18) \div 256

(* conf |= 7: memory, ports and bus master are switched on *)
pci_adjust(dev) ==
  LET conf == pciConfigReadDword(dev[1], dev[2], dev[3], 4) IN
  space' = pciConfigWriteDword(dev[1], dev[2], dev[3], 4,
             <<conf[1] - (conf[1] % 8) + 7, conf[2]>>)
=============================================================================
