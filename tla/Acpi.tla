-------------------------------- MODULE Acpi --------------------------------
(***************************************************************************)
(* Reading the ACPI tables, system/ACPI/acpi.cpp: findtable over the root  *)
(* table, the walk over the MADT, the search of the DSDT for _S5_, and     *)
(* what shutdown and reboot then write.                                    *)
(***************************************************************************)
EXTENDS Integers, Sequences, FiniteSets, SequencesExt, FiniteSetsExt

Null == [null |-> TRUE]   \* a null pointer

-----------------------------------------------------------------------------
(* acpi::init chooses the root table: XSDT or RSDT, lines 218-227. *)
useXSTD(rsdp) == rsdp.revision >= 2 /\ rsdp.xsdtaddress # 0

(***************************************************************************)
(* entries are the pointers of the root table, Null or a table             *)
(* [signature, ...].  Null ones and ones with an empty signature are       *)
(* passed over; skip counts matches.                                       *)
(***************************************************************************)
findtable(entries, signature, skip) ==
  FoldLeft(LAMBDA acc, e :
             IF acc.found # Null \/ e = Null THEN acc
             ELSE IF e.signature = "" \/ e.signature # signature THEN acc
             ELSE IF acc.skip = 0 THEN [acc EXCEPT !.found = e]
             ELSE [acc EXCEPT !.skip = @ - 1],
           [skip |-> skip, found |-> Null], entries).found

-----------------------------------------------------------------------------
\* The MADT is a sequence of bytes.  Position p holds an entry's type, p + 1
\* its length.  The walk: all positions at which the loop of line 59 stands,
\* and Stuck if an entry has length 0.
Stuck == 0

\* Mutant: the length is taken to be that behind type and length.
WalkHeaderTwice(bytes) ==
  LET at[p \in 1 .. Len(bytes) + 300] ==
        IF p > Len(bytes) THEN << >>
        ELSE IF p = Len(bytes) \/ bytes[p + 1] = 0 THEN <<Stuck>>
        ELSE <<p>> \o at[p + bytes[p + 1] + 2]
  IN  at[1]

Walk(bytes) ==
  LET at[p \in 1 .. Len(bytes) + 300] ==
        IF p > Len(bytes) THEN << >>
        ELSE IF p = Len(bytes) \/ bytes[p + 1] = 0 THEN <<Stuck>>
        ELSE <<p>> \o at[p + bytes[p + 1]]
  IN  at[1]

\* What the switch of lines 60-84 does with an entry of each type.
madtInit(bytes) ==
  LET seen == Walk(bytes)
      OfType(t) == SelectSeq(seen, LAMBDA p : p # Stuck /\ bytes[p] = t)
  IN  [ends |-> Stuck \notin { seen[i] : i \in DOMAIN seen },
       lapics |-> OfType(0), ioapics |-> OfType(1), isos |-> OfType(2), nmis |-> OfType(4),
       \* lapicAddress: the header's, 0, or that of the last entry of type 5.
       lapicAddress |-> IF OfType(5) = << >> THEN 0 ELSE Last(OfType(5))]

-----------------------------------------------------------------------------
(***************************************************************************)
(* dsdtInit.  The DSDT's header is 36 bytes long; dsdtlength counts them   *)
(* too, so the search covers as many bytes behind the table.  mem holds    *)
(* the bytes from offset 36 on, S5 standing for the four bytes of the name *)
(* _S5_ and S5Like for those of another name that begins like it: memcmp   *)
(* ignores the last byte it compares.  dsdtlength is a uint64_t: a search  *)
(* that fails leaves 2^64 - 1.                                             *)
(***************************************************************************)
S5 == 1000
S5Like == 1001
Wrapped == -1   \* 2^64 - 1

\* Where S5Addr points after the loop of lines 94-99, and dsdtlength.
S5Search(mem, dsdtlength) ==
  LET hits == { k \in 1 .. dsdtlength : k <= Len(mem) /\ mem[k] \in {S5, S5Like} }
      k == CHOOSE h \in hits : \A j \in hits : h <= j
  IN  IF hits = {} THEN [at |-> dsdtlength + 1, left |-> Wrapped]
      ELSE [at |-> k, left |-> dsdtlength - k]

ByteAt(mem, k) == IF k \in DOMAIN mem THEN mem[k] ELSE 0

(***************************************************************************)
(* Lines 107-114: behind name and package opcode come the package length   *)
(* (whose two high bits count its further bytes), the number of elements   *)
(* and the first element, with or without a byte prefix.  A name is one     *)
(* element of mem, so the opcode is at k + 1.                              *)
(***************************************************************************)
PackageValue(mem, k) ==
  LET v == k + 2 + (ByteAt(mem, k + 2) \div 64) + 2
  IN  IF ByteAt(mem, v) = \h0A THEN ByteAt(mem, v + 1) ELSE ByteAt(mem, v)

IsS5Package(mem, k) ==
  /\ \/ ByteAt(mem, k - 1) = 8
     \/ ByteAt(mem, k - 2) = 8 /\ ByteAt(mem, k - 1) = 92   \* '\\'
  /\ ByteAt(mem, k + 1) = \h12

\* SLP_TYPa is assigned nowhere; SCI_EN is 0 before and after a failed parse.
dsdtInit(mem, dsdtlength) ==
  LET s == S5Search(mem, dsdtlength)
  IN  IF s.left = 0 THEN [SCI_EN |-> 0, SLP_TYPb |-> 0, log |-> "_S5 not present"]
      ELSE IF IsS5Package(mem, s.at)
        THEN [SCI_EN |-> 1, SLP_TYPb |-> (PackageValue(mem, s.at) * 1024) % 2^16, log |-> "none"]
      ELSE [SCI_EN |-> 0, SLP_TYPb |-> 0, log |-> "failed to parse"]

\* Bits 10 to 12 of a PM1 control register: the sleep type, an index 0 .. 7.
SleepType(value) == (value \div 1024) % 8

(***************************************************************************)
(* shutdown: the port writes, in order, [port, type] with the sleep type   *)
(* the register gets.  SLP_TYPb is shifted a second time in line 141.      *)
(***************************************************************************)
shutdown(dsdt, hasPM1b) ==
  IF dsdt.SCI_EN # 1 THEN << >>
  ELSE LET b == SleepType((dsdt.SLP_TYPb * 1024) % 2^16)
       IN  <<[port |-> "PM1a", type |-> 0]>>
             \o (IF hasPM1b THEN <<[port |-> "PM1b", type |-> b]>> ELSE << >>)
             \o <<[port |-> "PM1a", type |-> 0]>>
             \o (IF hasPM1b THEN <<[port |-> "PM1b", type |-> SleepType(dsdt.SLP_TYPb)]>>
                 ELSE << >>)

\* reboot: where the reset value goes.  A PCI address is dev << 32, func << 16, offset.
reboot(addressSpace, address) ==
  CASE addressSpace = 0 -> <<"mmio", address>>
    [] addressSpace = 1 -> <<"io", address>>
    [] addressSpace = 2 -> <<"pci", 0, address[1], address[2], address[3]>>
    [] OTHER -> <<"nothing">>

-----------------------------------------------------------------------------
\* The bytes of a MADT with these entries, whose contents are zero.
MadtBytes(entries) ==
  FoldLeft(LAMBDA bytes, e : bytes \o [i \in 1 .. e.length |-> IF i = 1 THEN e.type
                                                           ELSE IF i = 2 THEN e.length ELSE 0],
           << >>, entries)

\* An _S5_ package as iasl writes it, with extra bytes in its length.
S5Package(value, prefixed, extra) ==
  <<8, S5, \h12, 64 * extra>> \o [i \in 1 .. extra |-> 0] \o <<4>>
    \o (IF prefixed THEN <<\h0A, value>> ELSE <<value>>)

(***************************************************************************)
(* findtable returns the table of that signature behind the skipped ones,  *)
(* whatever null and unsigned entries lie between.                         *)
(***************************************************************************)
TableFound(entries, signature, skip) ==
  LET hits == SelectSeq(entries, LAMBDA e : e # Null /\ e.signature = signature)
  IN  findtable(entries, signature, skip)
        = IF skip < Len(hits) THEN hits[skip + 1] ELSE Null

(***************************************************************************)
(* The walk over a well formed MADT ends and puts every entry, once and in *)
(* order, into the list of its type.                                       *)
(***************************************************************************)
MadtWalked(entries) ==
  LET r == madtInit(MadtBytes(entries))
      Start(k) == 1 + FoldLeft(LAMBDA n, e : n + e.length, 0, SubSeq(entries, 1, k - 1))
      Starts(t) == { Start(k) : k \in { j \in DOMAIN entries : entries[j].type = t } }
      Lists(list, t) == ToSet(list) = Starts(t) /\ Len(list) = Cardinality(Starts(t))
  IN  /\ r.ends
      /\ Lists(r.lapics, 0) /\ Lists(r.ioapics, 1) /\ Lists(r.isos, 2) /\ Lists(r.nmis, 4)
      /\ IF Starts(5) = {} THEN r.lapicAddress = 0
         ELSE r.lapicAddress = Max(Starts(5))

(***************************************************************************)
(* An _S5_ package in the DSDT is found and its value becomes SLP_TYPb,    *)
(* unless another name that begins with _S5 comes before it.  On a machine *)
(* with a second control block that is the value shutdown writes there     *)
(* last; the first block is always told sleep type 0.                      *)
(***************************************************************************)
SleepTypeFound(before, value, prefixed, extra) ==
  LET mem == before \o S5Package(value, prefixed, extra)
      r == dsdtInit(mem, Len(mem) + 36)
      writes == shutdown(r, TRUE)
  IN  S5Like \notin ToSet(before) =>
        /\ r.SCI_EN = 1 /\ r.SLP_TYPb = value * 1024
        /\ Last(writes) = [port |-> "PM1b", type |-> value]
        /\ \A i \in DOMAIN writes : writes[i].port = "PM1a" => writes[i].type = 0
=============================================================================
