-------------------------------- MODULE Pci ---------------------------------
(***************************************************************************)
(* Enumeration of PCI functions, system/PCI/pci.cpp, through the memory    *)
(* mapped configuration space of the MCFG table.  The scan through the     *)
(* ports 0xcf8 and 0xcfc (lines 229-274) is never reached.  cfg is the     *)
(* configuration space: a function from the places <<bus, dev, func>>      *)
(* where there is a device to its header, a record of the fields of        *)
(* PCIdevice_t the code looks at.                                          *)
(***************************************************************************)
EXTENDS PciNames, SequencesExt

CONSTANTS
  NumDev,   \* 32 in the source
  NumFunc   \* 8

ASSUME PciAssumption == NumDev \in 1 .. 32 /\ NumFunc \in 1 .. 8

Absent == [vendorID |-> \hFFFF, deviceID |-> \hFFFF, classID |-> \hFF, subclass |-> \hFF,
           progIF |-> \hFF]

Header(cfg, bdf) == IF bdf \in DOMAIN cfg THEN cfg[bdf] ELSE Absent

\* Memory mapped: an address names a function (lines 152, 172, 188).
EcamAddress(bus, dev, func) == bus * 2^20 + dev * 2^15 + func * 2^12
EcamRead(cfg, a) == Header(cfg, <<a \div 2^20, (a \div 2^15) % 32, (a \div 2^12) % 8>>)

\* Outside deviceClasses the pointer is whatever lies behind the array.
ClassStr(classID) == IF classID \in deviceClasses THEN classID ELSE "wild"

translate(device, bus, dev, func) ==
  [device |-> device,
   vendorStr |-> getVendor(device.vendorID),
   deviceStr |-> getDeviceName(device.vendorID, device.deviceID),
   progIFStr |-> getProgIFName(device.classID, device.subclass, device.progIF),
   subclassStr |-> getSubclassName(device.classID, device.subclass),
   classStr |-> ClassStr(device.classID),
   bus |-> bus, dev |-> dev, func |-> func]

Missing(h) == h.deviceID \in {0, \hFFFF}

\* Concatenation of F(i) for i = 0 .. n - 1.
Each(F(_), n) == FoldLeft(LAMBDA acc, i : acc \o F(i - 1), << >>, [i \in 1 .. n |-> i])

enumfunc(cfg, devAddress, bus, dev, func) ==
  LET h == EcamRead(cfg, devAddress + func * 2^12)
  IN  IF Missing(h) THEN << >> ELSE <<translate(h, bus, dev, func)>>

enumdevice(cfg, busAddress, bus, dev) ==
  LET devAddress == busAddress + dev * 2^15
  IN  IF Missing(EcamRead(cfg, devAddress)) THEN << >>
      ELSE Each(LAMBDA func : enumfunc(cfg, devAddress, bus, dev, func), NumFunc)

enumbus(cfg, bus) ==
  IF Missing(EcamRead(cfg, EcamAddress(bus, 0, 0))) THEN << >>
  ELSE Each(LAMBDA dev : enumdevice(cfg, EcamAddress(bus, 0, 0), bus, dev), NumDev)

\* Mutant: every bus is taken for bus 0 of its segment.
enumSegmentFirst(cfg, startbus, endbus) ==
  Each(LAMBDA i : enumbus(cfg, 0), endbus - startbus)

\* Lines 224-226, one entry of the MCFG table: the last bus is left out.
enumSegment(cfg, startbus, endbus) ==
  Each(LAMBDA i : enumbus(cfg, startbus + i), endbus - startbus)

\* No assignment makes it true: not line 13, and not line 214 without an MCFG.
legacy == FALSE

(***************************************************************************)
(* pci_init: the devices found, mcfg being the entries of the MCFG table,  *)
(* [startbus, endbus] each.  Without the table (mcfghdr, null) line 221    *)
(* follows the null pointer: fault.                                        *)
(***************************************************************************)
pci_init(cfg, mcfghdr, mcfg) ==
  IF ~legacy /\ ~mcfghdr THEN [fault |-> TRUE, devices |-> << >>]
  ELSE [fault |-> FALSE,
        devices |-> Each(LAMBDA i : enumSegment(cfg, mcfg[i + 1].startbus, mcfg[i + 1].endbus), Len(mcfg))]

-----------------------------------------------------------------------------
(* Searching the list.  keys[i] is what the comparisons read of device i:  *)
(* class, subclass and progIF, or vendor and device.                       *)
ClassKey(d) == <<d.device.classID, d.device.subclass, d.device.progIF>>
VendorKey(d) == <<d.device.vendorID, d.device.deviceID>>
ClassKeys(list) == [i \in DOMAIN list |-> ClassKey(list[i])]
VendorKeys(list) == [i \in DOMAIN list |-> VendorKey(list[i])]

\* The position of the device, or 0 for nullptr.
SearchBy(keys, key, skip) ==
  FoldLeft(LAMBDA acc, i : IF acc.found # 0 \/ keys[i] # key THEN acc
                           ELSE IF acc.skip > 0 THEN [acc EXCEPT !.skip = @ - 1]
                           ELSE [acc EXCEPT !.found = i],
           [skip |-> skip, found |-> 0], [i \in DOMAIN keys |-> i]).found

CountBy(keys, key) == FoldLeft(LAMBDA n, k : IF k = key THEN n + 1 ELSE n, 0, keys)

searchClass(list, key, skip) == SearchBy(ClassKeys(list), key, skip)
searchVendor(list, key, skip) == SearchBy(VendorKeys(list), key, skip)
countVendor(list, key) == CountBy(VendorKeys(list), key)
countClass(list, key) == CountBy(ClassKeys(list), key)

-----------------------------------------------------------------------------
(***************************************************************************)
(* pci_init lists, once and in the order of their addresses, the functions *)
(* that exist on a bus with a device 0 and on a device with a function 0,  *)
(* on the buses of the table except the last of each entry; searchVendor   *)
(* and searchClass find the device behind the skipped ones exactly while   *)
(* countVendor and countClass say there is one.  Without the table it      *)
(* faults.                                                                 *)
(***************************************************************************)
PciEnumerates(cfg, mcfghdr, mcfg) ==
  LET result == pci_init(cfg, mcfghdr, mcfg)
      list == result.devices
      Place(d) == <<d.bus, d.dev, d.func>>
      Exists(b) == b \in DOMAIN cfg /\ ~Missing(cfg[b])
      Reached(b) == /\ Exists(b) /\ Exists(<<b[1], 0, 0>>) /\ Exists(<<b[1], b[2], 0>>)
                    /\ \E i \in DOMAIN mcfg : b[1] \in mcfg[i].startbus .. mcfg[i].endbus - 1
      Address(b) == EcamAddress(b[1], b[2], b[3])
      Ranked(keys, key) == SetToSortSeq({ j \in DOMAIN keys : keys[j] = key }, <)
  IN  /\ result.fault <=> ~mcfghdr
      /\ mcfghdr => [i \in DOMAIN list |-> Place(list[i])]
                      = SetToSortSeq({ b \in DOMAIN cfg : Reached(b) }, LAMBDA b, c : Address(b) < Address(c))
      /\ \A i \in DOMAIN list : list[i].device = cfg[Place(list[i])]
      /\ \A i \in DOMAIN list : IsText(list[i].progIFStr) => IsText(list[i].subclassStr)
      /\ \A i \in DOMAIN list, skip \in 0 .. Len(list) :
           LET v == VendorKey(list[i])
               c == ClassKey(list[i])
           IN  /\ searchVendor(list, v, skip) =
                    IF skip < countVendor(list, v) THEN Ranked(VendorKeys(list), v)[skip + 1] ELSE 0
               /\ searchClass(list, c, skip) =
                    IF skip < countClass(list, c) THEN Ranked(ClassKeys(list), c)[skip + 1] ELSE 0
=============================================================================
