----------------------------- MODULE MCLibrary ------------------------------
(***************************************************************************)
(* The kernel's sequential parts on bounded inputs.  case is one call of   *)
(* one of its functions with its arguments, or "mouse", "clock", "shell"   *)
(* or "mount", which run their machines.                                   *)
(***************************************************************************)
EXTENDS Strings, Printf, Pci, Acpi, Apic, Mouse, Clock, PMemoryInit, Shell, VFSMount

CONSTANTS MouseBytes   \* bytes the mouse sends and pixels of text, in all

VARIABLES case, bytesLeft

vars == <<case, bytesLeft, mouseVars, clockVars, shellVars>>

\* Two letters and the newline; up to n characters.
Text2(n) == UNION { [1 .. k -> {97, 98}] : k \in 0 .. n }
Lines(n) == UNION { [1 .. k -> {97, NL}] : k \in 0 .. n }

MCBytes ==
  { [sync |-> TRUE, xs |-> FALSE, ys |-> FALSE, xo |-> FALSE, yo |-> FALSE, button |-> 1, num |-> 1],
    [sync |-> TRUE, xs |-> TRUE, ys |-> FALSE, xo |-> FALSE, yo |-> TRUE, button |-> 0, num |-> 2],
    [sync |-> TRUE, xs |-> FALSE, ys |-> TRUE, xo |-> TRUE, yo |-> FALSE, button |-> 2, num |-> 3],
    [sync |-> FALSE, xs |-> FALSE, ys |-> FALSE, xo |-> FALSE, yo |-> FALSE, button |-> 4, num |-> 0] }

Storage == [vendorID |-> \h8086, deviceID |-> \h2922, classID |-> 1, subclass |-> 6, progIF |-> 1]
Bridge == [vendorID |-> \h8086, deviceID |-> \h29c0, classID |-> 6, subclass |-> 9, progIF |-> \h40]
NoDevice == [vendorID |-> \h8086, deviceID |-> 0, classID |-> 1, subclass |-> 6, progIF |-> 1]
Places == (0 .. 1) \X (0 .. NumDev - 1) \X (0 .. NumFunc - 1)

\* MCFG tables: none, one entry for both buses, one for each, and one of bus 0 alone.
Segments == { [there |-> FALSE, entries |-> << >>], [there |-> TRUE, entries |-> <<[startbus |-> 0, endbus |-> 2]>>],
              [there |-> TRUE, entries |-> <<[startbus |-> 0, endbus |-> 1], [startbus |-> 1, endbus |-> 2]>>],
              [there |-> TRUE, entries |-> <<[startbus |-> 0, endbus |-> 1]>>] }

Entries(n) == UNION { [1 .. k -> [type : {0, 1, 2, 4, 5, 9}, length : 2 .. 3]] : k \in 0 .. n }
Tables == {Null, [signature |-> "", n |-> 0], [signature |-> "APIC", n |-> 1],
           [signature |-> "APIC", n |-> 2], [signature |-> "HPET", n |-> 3]}

Overrides ==
  { << >>, <<[irqSource |-> 0, gsi |-> 2, flags |-> 0], [irqSource |-> 9, gsi |-> 9, flags |-> 13]>>,
    <<[irqSource |-> 12, gsi |-> 20, flags |-> 15]>>, <<[irqSource |-> 4, gsi |-> 23, flags |-> 0]>> }
Chips ==
  { <<[addr |-> 1, id |-> 0, gsib |-> 0, max |-> n - 1], [addr |-> 2, id |-> 1, gsib |-> n, max |-> 23 - n]>> :
    n \in {8, 12, 13, 16} }

\* HPET periods of 10 and 69 nanoseconds, and of two and a half microseconds.
Sources ==
  { [kind |-> "hpet", clock |-> c] : c \in {10, 69, 2500} }
    \cup { [kind |-> "pit", frequence |-> f] : f \in {100, 300, 1000} } \cup {[kind |-> "rtc"]}

MCWritten == {<<0, 1>>, <<1, 2>>}

MCNames == {"", "a", "b"}
MCPaths == { <<"", "">>, <<"..">>, <<".">>, <<"a", "">>, <<"a", "b">>, <<"..", "a">>, <<"", "", "">> }

Calls ==
  \/ \E s \in Text2(6), sub \in Text2(3) \ {<< >>} : case = <<"split", s, sub>>
  \/ \E s \in Lines(6), sub \in {<<97>>, <<97, 97>>, <<97, NL>>}, n \in 0 .. 2 : case = <<"lines", s, sub, n>>
  \/ \E n \in IntMin .. IntMax, s \in [1 .. OutSize -> {NUL, 55}] : case = <<"number", n, Append(s, NUL)>>
  \/ \E s \in [1 .. 5 -> {0, 1, 129}], q \in 1 .. 5, p \in 1 .. 5, n \in 0 .. 4 :
       p + n <= 6 /\ q + n <= 6 /\ case = <<"bytes", s, q, p, n>>
  \/ \E d \in [flags : SUBSET {"zeropad", "left", "plus", "space", "hash"}, width : {0, 2, 5, 33},
               precision : {NONE, 0, 1, 3}, length : {""}, spec : {"d", "u", "x", "X", "o"},
               arg : {-12, 0, 10, 255}] :
       /\ d.arg < 0 => d.spec = "d"
       /\ "zeropad" \in d.flags => d.width < PRINT_INTEGER_BUFFER_SIZE
       /\ ~(d.spec = "o" /\ "hash" \in d.flags)
       /\ case = <<"printf", d>>
  \/ \E there \in SUBSET Places, b \in Places, m \in Segments :
       case = <<"pci", [p \in there |-> IF p = b THEN NoDevice
                                        ELSE IF p[3] = 0 THEN Bridge ELSE Storage], m>>
  \/ \E e \in [1 .. 4 -> Tables], n \in 0 .. 2 : case = <<"table", e, n>>
  \/ \E e \in Entries(3) : case = <<"madt", e>>
  \/ \E b \in UNION { [1 .. k -> {0, 8, S5Like}] : k \in 0 .. 3 }, v \in 0 .. 7, pre \in BOOLEAN, x \in 0 .. 1 :
       case = <<"dsdt", b, v, pre, x>>
  \/ \E c \in Chips, o \in Overrides, sci \in {9, 10} : case = <<"irq", c, o, sci>>
  \/ \E dx \in -5 .. 5, dy \in -5 .. 5 : (dx # 0 \/ dy # 0) /\ case = <<"line", dx, dy>>
  \/ \E x \in 0 .. frm_width - 1, y \in 0 .. frm_height - 1, w \in 0 .. 5, h \in 0 .. 5 :
       case = <<"rectangle", x, y, w, h>>
  \/ \E a, b \in Sources, n \in 0 .. 200 : case = <<"wait", a, b, n>>
  \/ \E b \in 1 .. 2, l1, l2, l3 \in {0, 1, 3, 4, 5}, u1, u2, u3 \in BOOLEAN :
       case = <<"memmap", <<[base |-> b, length |-> l1, usable |-> u1],
                            [base |-> b + l1, length |-> l2, usable |-> u2],
                            [base |-> b + l1 + l2, length |-> l3, usable |-> u3]>>>>

Init ==
  /\ MouseInit /\ bytesLeft = MouseBytes
  /\ ClockInit
  /\ \/ Calls /\ now = 0 /\ arg = 0
     \/ case \in {<<"mouse">>, <<"shell">>} /\ now = 0 /\ arg = 0
     \/ case = <<"clock">>
     \/ case = <<"mount", << >>, mount(VfsInit, nullptr, <<"mnt">>)>> /\ now = 0 /\ arg = 0
  /\ ShellInit

MouseStep ==
  /\ case = <<"mouse">> /\ bytesLeft > 0 /\ bytesLeft' = bytesLeft - 1
  /\ MouseNext
  /\ UNCHANGED <<case, clockVars, shellVars>>

ClockStep(A) ==
  /\ case = <<"clock">>
  /\ A
  /\ UNCHANGED <<case, bytesLeft, mouseVars, shellVars>>

ShellStep ==
  /\ case = <<"shell">>
  /\ ShellNext
  /\ UNCHANGED <<case, bytesLeft, mouseVars, clockVars>>

\* The node mounted as "mnt".
MountPoint(t) == t[t[tfs_root].ptr].ptr

\* A caller of the file system creates one more name below the mount point:
\* case holds the names so far and the tree.
MountStep ==
  /\ case[1] = "mount"
  /\ \E n \in {"a", "b", "c"} \ { case[2][i] : i \in DOMAIN case[2] } :
       case' = <<"mount", Append(case[2], n), create(case[3], MountPoint(case[3]), <<n>>).t>>
  /\ UNCHANGED <<bytesLeft, mouseVars, clockVars, shellVars>>

Next ==
  \/ MouseStep \/ ShellStep \/ MountStep
  \/ ClockStep(Tick) \/ ClockStep(ReadRegister) \/ ClockStep(ReadSecond)

\* Time passes, and the caller of sleep runs.
Spec == Init /\ [][Next]_vars /\ WF_vars(ClockStep(Tick)) /\ WF_vars(ClockStep(ReadRegister \/ ReadSecond))

Of(kind) == case[1] = kind

-----------------------------------------------------------------------------
\* strstr, strrm and strsplit on every text of up to six letters, lstrstr
\* and getline on every text of up to six characters (StringsExact, LinesFound).
SearchesExact ==
  /\ Of("split") => StringsExact(case[2], case[3])
  /\ Of("lines") => LinesFound(case[2], case[3], case[4])

\* printi, int2string and intlen for every int (NumbersPrint).
EveryIntPrints == Of("number") => NumbersPrint(case[2], case[3])

\* memmove and memcmp for every overlap (BuffersExact).
BufferCalls == Of("bytes") => BuffersExact(case[2], case[3], case[4], case[5])

\* printf against the standard (PrintfStandard).
FormatsStandard == Of("printf") => PrintfStandard(case[2])

\* The PCI scan for every population of two buses (PciEnumerates).
ScanComplete == Of("pci") => PciEnumerates(case[2], case[3].there, case[3].entries)

\* findtable, the MADT and the DSDT (TableFound, MadtWalked, SleepTypeFound).
TablesRead ==
  /\ Of("table") => TableFound(case[2], "APIC", case[3])
  /\ Of("madt") => MadtWalked(case[2])
  /\ Of("dsdt") => SleepTypeFound(case[2], case[3], case[4], case[5])

\* Interrupt lines after the boot sequence (LinesDeliver).
InterruptsRouted == Of("irq") => LinesDeliver(case[2], case[3], case[4])

\* Diagonal lines and filled rectangles (LineEnds, RectangleExact).
DrawingExact ==
  /\ Of("line") => LineEnds(0, 0, case[2], case[3])
  /\ Of("rectangle") => RectangleExact(case[2], case[3], case[4], case[5])

\* HPET, PIT and RTC agree on how long a wait is (WaitsAgree).
SourcesAgree == Of("wait") => WaitsAgree(case[2], case[3], case[4], 37 * case[4], case[4] % 3)

\* Names that are mounted and created (MountedOpens).
MountedFound == Of("mount") => MountedOpens(case[3], MountPoint(case[3]), case[2])

\* pMemory::init over every memory map of three entries (HandsOverUsablePages).
InitHandsOver == Of("memmap") => HandsOverUsablePages(case[2])
=============================================================================
