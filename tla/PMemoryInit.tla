---------------------------- MODULE PMemoryInit -----------------------------
(***************************************************************************)
(* pMemory::init, system/memory/pMemory/pMemory.cpp lines 106-155: three   *)
(* passes over the bootloader's memory map size the bitmap, place it in    *)
(* the first usable entry with enough room, and clear the bits of the      *)
(* usable pages.  Addresses and sizes are in pages (stivale2 aligns usable *)
(* entries); a map is a sequence of [base, length, usable].                *)
(***************************************************************************)
EXTENDS PageBitmap, FiniteSets, Sequences, FiniteSetsExt

CONSTANT PageBits   \* bitmap bits in one page: 8 * 0x1000

ASSUME PMemoryInitAssumption == PageBits \in Nat \ {0} /\ PageBits % 8 = 0

\* Lines 113-124, one entry.
MeasureEntry(a, e) ==
  IF ~e.usable THEN a
  ELSE [freeRam |-> a.freeRam + e.length, highPage |-> Max({a.highPage, e.base + e.length})]

Measure(memmap) ==
  LET after[i \in 0 .. Len(memmap)] ==
        IF i = 0 THEN [freeRam |-> 0, highPage |-> 0] ELSE MeasureEntry(after[i - 1], memmap[i])
  IN  after[Len(memmap)]

\* ALIGN_UP((highPage / 0x1000) / 8, 0x1000) in pages: the byte count is
\* rounded down, the page count up.
SizeInPages(top) == ((top \div 8) * 8 + PageBits - 1) \div PageBits

Fits(e, pages) == e.usable /\ e.length >= pages

\* Mutant: the bitmap's own pages are left in the entry.
TakeStartNot(memmap, k, pages) == memmap

\* Lines 133-140: the bitmap takes the start of entry k.
TakeStart(memmap, k, pages) ==
  [memmap EXCEPT ![k].base = @ + pages, ![k].length = @ - pages]

UsableOf(m) == UNION { Run(m[k].base, m[k].length) : k \in { k \in DOMAIN m : m[k].usable } }

\* If no entry has room, buffer stays nullptr and init goes on.
PMemory_init(memmap) ==
  LET measured == Measure(memmap)
      pages == SizeInPages(measured.highPage)
      fitting == { k \in DOMAIN memmap : Fits(memmap[k], pages) }
      left == IF fitting = {} THEN memmap ELSE TakeStart(memmap, Min(fitting), pages)
      set == UsableOf(left)   \* the pages of lines 143-151
  IN  [buffer |-> IF fitting = {} THEN 0 ELSE memmap[Min(fitting)].base,
       bitmapPages |-> pages,
       highPage |-> measured.highPage,
       freeRam |-> measured.freeRam - (IF fitting = {} THEN 0 ELSE pages),
       cleared |-> { p \in set : p < pages * PageBits },
       stray |-> { p \in set : p >= pages * PageBits }]   \* bits behind the bitmap's end

(***************************************************************************)
(* When init had room for the bitmap, the pages it made available are the  *)
(* usable ones outside the bitmap, none missing, freeRam counts them, and  *)
(* page 0, which alloc could not return, is not one of them: the state     *)
(* PMemory starts from.  The bitmap has a bit for every page, unless       *)
(* memory ends one to seven pages above a multiple of PageBits: then       *)
(* highPage / 0x1000 / 8, rounded down, leaves the last pages without one. *)
(***************************************************************************)
HandsOverUsablePages(memmap) ==
  LET r == PMemory_init(memmap)
  IN  /\ r.buffer # 0 =>
           /\ r.cleared \cup r.stray = UsableOf(memmap) \ Run(r.buffer, r.bitmapPages)
           /\ r.freeRam = Cardinality(r.cleared \cup r.stray)
           /\ Run(r.buffer, r.bitmapPages) \subseteq UsableOf(memmap)
           /\ 0 \notin r.cleared
      /\ r.highPage % PageBits \notin 1 .. 7 => r.stray = {}
=============================================================================
