# Turb-OS: models, checks and proofs

TLA+ models of the Turb-OS kernel, TLC runs over small instances of them, and TLAPS
proofs about its memory management, scheduler, start, keyboard, mouse, clocks, shell and
library. The parts in which several CPUs, interrupt handlers or long sequences of calls share state are machines; the sequential parts are
operators that are compared with reference definitions over bounded inputs. Paths
below are relative to `src/src/`.

## 1. The system

Turb-OS is a 64-bit kernel booted by Limine. `kernel/main.cpp` calls the `init` of
every part in a fixed order and then runs the shell. There are no tests; the
references for what the code is meant to do are its log messages, its help texts
and the README.

| Part | State | Operations | Used by |
|---|---|---|---|
| page bitmap (`system/memory/bitmap`) | bits, one per page | `get`, `set` | pMemory |
| pMemory (`system/memory/pMemory`) | bitmap, `last`, `usedRam`, `freeRam`, `mmLock` | `init`, `alloc`, `free`, `realloc` | heap, page tables |
| heap (`system/memory/heap`) | block list between `head` and `tail`, `expanded`, `lock` | `malloc`, `calloc`, `realloc`, `free`, `setsize` | everything |
| vMemory (`system/memory/vMemory`) | four-level tables, a lock per page map | `mapMem`, `remapMem`, `unmapMem`, `setflags` | SMP, scheduler |
| scheduler (`system/CPU/scheduling/scheduler`) | `proc_table`, threads, per CPU current and idle process, three locks | `createProc`, `createThread`, block, unblock, exit, `switchTask` | shell, timer |
| TurboVector (`lib/TurboVector`) | array and length | `push_back`, `remove`, `find`, ... | scheduler, VFS, IDT, PCI |
| spinlock (`lib/lock.cpp`) | one flag | `lock`, `unlock` | all of the above |
| SMP (`system/CPU/SMP`) | `cpusUp`, `cpus` | `init`, `cpu_init` | start |
| APIC, PIC, IDT, GDT | vectors, handlers, timer | vector allocation, dispatch, one-shot and periodic timer | scheduler, drivers |
| PIT, RTC, HPET, omtime | tick counters | `sleep`, `getTick` | APIC calibration, shell |
| keyboard (`drivers/devices/keyboard.cpp`) | `buff`, `retstr`, `gi`, `c`, flags, modifiers | `Keyboard_Handler`, `getchar`, `getLine` | shell |
| mouse (`drivers/devices/mouse.cpp`) | packet under assembly, position | handler | – |
| VFS (`drivers/fs/vfs`) | tree of nodes, `vfs_lock` | `open`, `create`, `mount`, `addChild`, `removeChild` | shell |
| shell (`apps/turboShell.cpp`) | current node, path | commands | – |
| ACPI (`system/ACPI`) | pointers to tables, lists of the MADT, sleep type | `findtable`, `madtInit`, `dsdtInit`, `shutdown`, `reboot` | APIC, PCI, HPET |
| PCI (`system/PCI`) | list of devices | `init`, `search`, `count` | shell |
| framebuffer (`drivers/display/framebuffer`) | pixels, what the cursor covers | lines, rectangles, circles, cursor | mouse |
| printf, terminal, serial | – | formatting, output | everything |
| string, math and memory library (`lib`) | – | pure functions | everything |

What is hard here:

* **Interleavings.** Every CPU picks from one process table; threads create
  threads with other locks than `switchTask` takes, and push to its vectors and write
  fields of threads and processes with no lock at all. The heap reads `data`, `head` and
  `tail` before it takes its lock and writes `expanded` after it released it;
  `pMemory::realloc` updates the counters without the lock.
* **Interrupts.** The keyboard handler runs between any two steps of `getLine`,
  and the timer between any two steps of everything else.
* **Early returns and retries.** `Heap::expand` and the VFS return with a lock
  held; `malloc` expands and calls itself.
* **Recycled and shared memory.** Freed threads and processes are handed out again while
  tables and CPUs still point to them; `expand` gives the heap new memory while
  callers hold pointers into the old; page maps copied from one another share
  their lower tables but not their lock; text and the cursor share the frame buffer.
* **Start.** CPUs come up one behind the other's lock, all of them through one TSS
  descriptor, and start timers whose vector the first one allocates.
* **Dropped results.** The recursion of `openNext` and `createNext` ignores what its calls return.
* **Boundaries.** The search of `alloc` wraps around; the bitmap's size is rounded
  twice; `retstr` has 1024 places; the last line of an I/O APIC; midnight.

What makes each part correct, in one line each: pMemory never hands out a page
twice and finds free memory when there is some; the heap's blocks tile the heap and
a block in use is never given away; a mapping takes effect and changes no other
address; a thread runs on one CPU at a time, a ready one runs, an exited one does
not; every CPU comes up with a TSS, a stack to run on and a timer of its own; a line read is the line
typed; a name opens the node of that name; a sleep lasts as long as asked; an interrupt
reaches the handler registered for it; the cursor leaves no trace behind it; a lock that is taken is
released. PROJECT.json lists the hazards with the line where each one bites.

## 2. The modules

| Module | Models | Checked by | Proved in |
|---|---|---|---|
| `PageBitmap` | the bitmap, the search of `alloc` as operators | (used below) | `PMemoryProofs` |
| `PageScan` | the loop of `ohMyAlloc`, one turn per step | `MCPageScan` | `PageScanProofs` |
| `PMemoryInit` | `pMemory::init` as operators | `MCLibrary` | `LibraryProofs` |
| `PageAllocator` | what a page allocator promises (abstract) | refined by `PMemory` | – |
| `PMemory` | `alloc`, `free`, `realloc` on any number of CPUs | `MCPMemory` | `PMemoryProofs` |
| `Heap` | the kernel heap on any number of CPUs | `MCHeap` | `HeapProofs` |
| `VMemory` | page maps on any number of CPUs | `MCVMemory` | `VMemoryProofs` |
| `TurboVector` | `find`, `remove`, `push_back` as operators | (used below) | – |
| `Scheduler` | threads, processes, `switchTask`, the shell's `nano` | `MCScheduler` | `SchedulerProofs` |
| `Boot` | `_start`, `main`, SMP, GDT and TSS, start of the timers | `MCBoot` | `BootProofs` |
| `Keyboard` | the handler, `getchar`, `getLine` | `MCKeyboard` | `KeyboardProofs` |
| `VFS` | node tree, `open`, `addDir`, `addFile`, `removeChild` | `MCLibrary`, `MCShell` | `LibraryProofs` |
| `VFSMount` | `create` and the mounts over `VFS` | `MCLibrary` | – |
| `Shell` | `ls`, `mkdir`, `touch`, `cd` over `VFS` | `MCLibrary`, `MCShell` | `LibraryProofs` |
| `Drawing`, `Mouse` | framebuffer; packets, clicks and cursor | `MCLibrary` | `LibraryProofs` |
| `Clock` | waits of PIT, HPET, RTC and omtime; `rtc::sleep` | `MCLibrary` | `LibraryProofs` |
| `Acpi`, `Apic`, `Pci`, `PciNames` | tables, interrupt lines, enumeration, names | `MCLibrary` | – |
| `Strings` | strings, numbers, buffers as operators | `MCLibrary` | `LibraryProofs` (buffers) |
| `Printf` | the formatter as operators | `MCLibrary` | – |

`MCLibrary` composes the sequential modules: its variable `case` holds one call with
its arguments, or names one of four machines (mouse, clock, shell, mount) that then
runs. The other MC modules hold only what TLC needs beyond constants: symmetry
sets, orders of LAPIC IDs, and in `MCShell` the last `cd`. Definitions whose comment
begins with "Mutant" are plausible faults; no action uses them. Each property is
shown to fail when the mutant named for it in PROJECT.json takes the place of the
definition behind it, so none holds by the shape of the model alone.

### PageBitmap, PageScan

A bitmap is a function from page numbers to BOOLEAN, TRUE for "in use".
`ohMyAlloc(bm, from, limit, count)` says in one formula what the loop of lines 20-37
does: it marks and returns the lowest run of `count` free pages between `from` and
`limit`, or nothing. `Search` is the two calls of `alloc`: from the cursor to the
end, then from 0 to where the first began. `PageScan` is the loop itself, with its
cursor and run counter, and is shown to compute the operator, so that `PMemory` may
use the operator in one step.

### PMemoryInit

`init` measures memory, sizes the bitmap, places it in the first entry with room (and
takes its pages out of that entry) and clears the bits of usable pages. Addresses are
pages; `PageBits` stands for the 32768 bits of a page. What it hands over is the
state `PMemory` starts from.

### PMemory

Variables: `bitmap`, `last`, `usedRam`, `freeRam`, `mmLock`, and for each
CPU where it is in its call. `live` is the set of blocks callers hold. A call is
locked, worked on and unlocked in separate steps; the counters are loaded and stored
in separate steps, because `realloc` moves them without the lock (lines 84-85). A
failed `alloc` zeroes memory from address 0 (line 48, `memset` on the null pointer), as many pages as
were asked for: `memset` clears whatever of the bitmap lies there, and `wiped` records that it did. The heap
asks for 512 pages and more, and the bitmap lies in low memory, so this is not far-fetched. From then on the
bitmap hands out anything, its own pages included; what callers write into those is not modelled. In the
abstract allocator the same event is `Break`. `realloc` frees one page of
the old block whatever its size (line 93), so pages leak; the abstract allocator
allows that.

### Heap

Units are `sizeof(HeapBlock)`. `blocks` maps header addresses to size and free
flag. Each turn of `find_best`, `split` and `coalescence` is a step under the lock;
what is read outside the lock is a step of its own. `expand` takes pages from
`supply`, abandons the old blocks and lays the heap out anew, as lines 151-158 do;
`gen` counts layouts, so that a pointer's layout is known.

### VMemory

Tables are arrays of entries in memory, of any depth and width; a page map is its top table and
a lock. A call walks from the top, a level per step, and allocates the tables it does not
find: `Follow`, `Allocate`; `at` is the level and table it has come to. `setAddress` and `setFlags` read the
whole entry and write it back (lines 109-132), so each is a load and a store, with the entry that was read in `at.seen`:
`LoadAddress`, `StoreAddress`, `LoadFlags`, and `LinkTable` or `LeafFlags`. A call in another map, under another lock,
may come between any two of them. What an address translates to, `Reach`, is
defined by the way through the tables (`Ways`), not by the walk. `newPagemap` and `clonePagemap` copy the
top table entry by entry, without a lock, so the maps share what lies below.
`remapMem` is two critical sections. When no page is left, `alloc` returns 0 and
the table at address 0 is used, by everyone, also as the top of a new map; `atNull` records that it was. `getFlag` tests the lowest
bit of its argument only, as the source does.

### Scheduler

Each CPU runs a context (its current thread, or the code it booted with) or is in
`switchTask`, which is split where another CPU may come in between: enter, pick,
clean, idle, commit. `createProc` and `createThread` are split at their locks and at
the unlocked `push_back` of lines 56 and 98, which is a read of the length and a store in two
steps: of two pushes at one time the second may store over the first, and the run reaches
this for threads (the shell's second thread over init's first one, which creates one itself) and for
processes. A vector is `data`, all that was ever stored, and `length`. Threads and processes are slots that the heap
hands out again, so a stale pointer sees what the slot holds now. `find` is 0
whatever is looked for and `remove` drops the last element when it should close a
gap: both are as TurboVector has them. `Turn` is a turn of the two loops of `clean_proc`, whose vector gets
shorter while the index goes up; `Passed` is the loop over the process table that calls it.

`block*`, `unblock` and `exit*` test and assign in one step. They run with
interrupts off, and the runs let threads call them on one CPU only.

### Boot

The boot CPU runs `_start` (which tags are missing is chosen in the initial state) and `main`'s
calls in their order; which ACPI tables exist (`found`), the position of the boot CPU and the LAPIC
IDs are chosen too. A tag or table that the code follows without a test (rsdp, FADT, MCFG) and that is
missing leads to "fault", of which nothing more is said. A stack is a block with a top and a bottom:
`target_stack` is a top (`smp.cpp` line 115), IST[0] and RSP[0] are bottoms (lines 108 and 113). `smp::init` fills a `cpu_t`, a TSS and a start address for each
CPU in turn; the started CPU takes `cpu_lock`, goes through `gdt::reloadAll` (lock,
descriptor, load), counts itself and goes on to `scheduler::init`, whose
test and allocation of the vector are separate, unlocked steps, and to the timer, which
is calibrated under a lock. `PitTick` is the tick of a PIT that was told to schedule because
there is no APIC.

### Keyboard

The handler is one step per key: the shell reads on the CPU that gets the
interrupt. `getLine` is split at every access to a shared variable. `gi` is not
volatile and the kernel is built with `-Ofast`, so the optimiser may reload it, load
it once per turn, or keep it in a register for the whole loop: `build` is chosen
once, in the initial state. `buff` is the set of places that hold a character,
because `clearBuffer` clears one place and this `strcat` writes no terminating NUL.

### VFS and Shell

A node is a record with name, flags, parent, children and target; a path is the
sequence of words `strsplit` makes of it, empty ones included. `openNext` and `createNext` recurse
as the source does: the results of the inner calls are dropped, and the loop goes on, after a
match, with the children of the node it matched. `openNext` is a recursive function on frames, so that
it can be proved about; `createNext` is a RECURSIVE operator, in a module of its own. `malloc` clears the memory
of a node (`heap.hpp` line 45). The shell's commands are one action
each; a pointer that is followed without a test faults or reads what lies at address 0.

### Mouse, Drawing, Clock

`Mouse_Handler` takes one byte: it processes the packet that is complete, then collects.
Bytes are what the two ways of reading them distinguish; movements have the width of a
byte. Shapes are sets of pixels, and a pixel beyond the right edge is one of the next
row. Between two bytes `WriteText` puts a pixel of text on the screen, wherever the cursor is; `canvas` is what was
drawn last by clicks and text, `touched` the text written under the cursor. Text has a colour of its own, so
that it can be told from the cursor; a writer on another CPU during the handler itself is not modelled. `Clock` runs `rtc::sleep` against a clock that ticks between the reads of its
three registers, in a day of a few seconds; the waits of the other sources are computed in
microseconds, that of the HPET from its period in femtoseconds (`PerUs`, 10^9, to a microsecond).

### Acpi, Apic, Pci, Strings, Printf

Operators with the source's names. A table is a sequence of bytes or entries, where the
source reads bytes or entries; the four characters of a signature are one value. Each is
compared with what the operation is for: the matches of a search, the
lists of a MADT, the devices that exist, the text the C standard prescribes. PCI's scan through ports
(`pci.cpp` lines 229-274) is not modelled: nothing ever sets `legacy`, and without an MCFG line 221
follows a null pointer. `int2string` returns what `strdup` finds from its array on, which has no NUL;
`memcmp` subtracts in eight bits.

## 3. The runs

| Run | Instance | Checks |
|---|---|---|
| `pagescan` | every bitmap of 5 pages, every cursor, limit and count up to 3 | `LoopIsOperator`, `Terminates` |
| `pmemory` | 2 CPUs, 5 pages of which 2 usable, the bitmap in page 2, calls of 1 to 3 pages, 2 live blocks | `TypeOK`, `NoDoubleAllocation`, `LockReleased`, `Refinement`, `OnePageComplete` |
| `heap` | 2 CPUs, 3 pages of 4 units, sizes 1 and 3, two live pointers | `Tiled`, `WalkReadsHeaders`, `LivePointersSafe` |
| `heap_uni` | 1 CPU, 7 pages | `RetryFinds`, `CallsReturnWhileMemoryLasts` |
| `vmemory` | 2 CPUs, 2 maps of two levels and two entries, 3 pages for tables, 3 calls, until `Lossy` or `atNull` | `MapTakesEffect`, `OnlyItsAddress` |
| `scheduler` | 2 CPUs, 5 thread slots, 3 process slots, creating threads | `SingleRunner`, `RunningIsCurrent`, `RunsWhereCreated` |
| `scheduler_uni` | 1 CPU, 4 thread slots, 2 process slots, every operation | `ExitedStaysDead`, `FreedHasExited` |
| `scheduler_nano` | 1 CPU, the threads of `nano` | `ReadyThreadsRun` – **violated** |
| `boot` | 3 CPUs, any of them the boot CPU, LAPIC IDs in order, shifted or with gaps, any ACPI tables, at most one tag missing | `CpusConfigured`, `BootCompletes` |
| `keyboard` | line and buffer of 3, ctrl, alt, caps lock, four keys | `LineTerminated`, `LineIsWhatWasTyped`, `EnterEndsLine` |
| `shell_cd` | two names | `EntersNamedDirectory` – **violated** |
| `library` | the table below | sixteen properties |

| Property of `library` | Inputs | Says |
|---|---|---|
| `SearchesExact` | texts of up to six characters | `strstr`, `strrm`, `strsplit`, `lstrstr`, `getline` find, remove and cut the right occurrences |
| `EveryIntPrints` | every int of 8 bits, every content of `int2string`'s stack | `printi`, `intlen`, `string2int` agree, the smallest int included; when `int2string` runs out of its array, and when its text ends where it should |
| `BufferCalls` | every overlap in five bytes of 0, 1 and 129 | `memmove` and `memcmp`, with the sign of an 8-bit difference |
| `FormatsStandard` | all flags, four widths, four precisions, five conversions | printed as the C standard says; `snprintf` keeps its limit |
| `InitHandsOver` | memory maps of three entries | `pMemory::init` hands over the usable pages outside the bitmap |
| `ScanComplete` | every population of two buses, four MCFG tables, none among them | enumeration complete and in order, a fault without a table, `search` as `count` |
| `TablesRead` | four entries; MADTs of three; DSDTs of three items before `_S5_` | the right table, list and sleep type |
| `InterruptsRouted` | four pairs of I/O APICs, four lists of overrides | a line reaches its handler and no other |
| `DrawingExact` | lines to every point within 5; rectangles on and beyond 4 by 3 | connected and complete; exact while on the screen |
| `BackgroundRestored` | 11 bytes of four kinds and pixels of text at two places, in any order | the cursor leaves no trace and erases only text written under it |
| `SourcesAgree` | waits of 0 to 200 units on every pair of seven clocks | two sources wait the same time, to the coarser grain; `sleep` and `uSleep` as long as asked |
| `SleepNotEarly`, `SleepEnds` | a day of 12 seconds, waits of up to 5 | `rtc::sleep` returns, and not before its time |
| `TreeShape`, `LockFree` | up to five nodes, names of one or no letter, seven paths | the shell keeps the tree a tree and never waits for `vfs_lock` |
| `MountedFound` | up to three names below a mount point | what was created last opens, also after a removal |

**Why the bounds are enough.** In `pmemory` two usable pages and two CPUs give
success, failure, wrap-around, `realloc` against `free`, a full memory, and a failed request of three
pages that reaches the bitmap; no property
there is about the values of the RAM counters, so `RamModulus` is 1 (the proofs have
any width). The smallest heap that splits twice, merges twice, expands twice and runs out has three
pages of four units. Two maps, two levels and three pages are enough for a table that
is shared, one that is lost and one at address 0; `Intact` stops the run behind the last two, which are for good and
which both properties except. Two init threads, two idle threads and one
more are what two CPUs need to be idle, busy and creating at once. Two started CPUs
next to the boot CPU contend for each lock of the start. A line of two characters and its NUL
overflows, is erased and leaves a tail in `buff`. Every text of six characters contains
overlapping occurrences of one of three. `MaxNodes` and `MouseBytes` bound how long the shell and
the mouse run: a tree with grandchildren, and three packets with one byte lost.

**Deadlock** is checked in `pmemory`, `scheduler_nano` and `keyboard`. `pagescan`,
`boot` and `library` end, `vmemory` after `MaxCalls` calls. The heap stops for good
when pages run out (`expand` keeps the lock), and the scheduler once a tick arrives while the
interrupted thread holds `proc_lock` or `thread_lock` and the CPU has no idle process yet
(line 402); the slots of an instance can run out too.

**Fairness.** `PMemory` and `Heap`: each CPU keeps executing (WF of its steps in
a call); nobody must call anything, and a spinlock guarantees its waiters nothing, so
no strong fairness: `LockReleased` speaks of the holder, the heap's liveness is
checked on one CPU. `Scheduler`: ticks keep coming, the handler runs to its end, and
an operation in progress advances although ticks interrupt it again and again (SF),
which the time slice of 5 ms justifies. `Boot`: every CPU keeps executing (WF each); every lock of
the start is taken once per CPU, so a waiter cannot be overtaken for ever. `Keyboard`: the shell keeps polling.
`Clock`: time passes and the caller of `sleep` runs.

### What the violated runs show

* `scheduler_nano`: `switchTask` looks for a thread behind
  `threadsVec.find(this_thread())`, which is 0 whatever the thread, and the loop that
  would wrap around is commented out. Of the two threads of `nano` one
  starves, although the help says the command proves multitasking.
* `shell_cd`: `openNext` drops what `notFound()` returns (`turboVFS.cpp` line 54) and
  returns the last child it looked at. `mkdir a`, then `cd b`, enters `a`; the message
  "No suche file or directory" (`turboShell.cpp` line 166) does not appear.

### What holds only with a condition

* `alloc` of several pages can fail although they are free: a run across the cursor
  is in neither scan. For one page the search is complete (`OnePageComplete`).
* A failed `alloc` zeroes low memory. `NoDoubleAllocation`, `OnePageComplete` and `Refinement`
  hold until it has zeroed a page of the bitmap (`wiped`), which takes a failed request of more pages than lie
  below it; from then on pages in use are handed out again. The run and the proofs include that case.
* `usedRam` and `freeRam` are not exact: `realloc` on two CPUs loses updates, and
  a failed `alloc` moves them too. Nothing reads them but the shell.
* When memory ends one to seven pages above a multiple of 32768 pages, the bitmap is a
  page short (line 126 rounds down first); `InitHandsOver` covers the other sizes.
* Once pages run out `expand` returns at line 152 with the lock held and every later
  call waits for it: `CallsReturnWhileMemoryLasts`.
* `RetryFinds` on one CPU; on two, another CPU's expansion makes a call give up.
* A pointer returned before an expansion is outside the heap afterwards, and `free`
  does nothing with it. `LivePointersSafe` speaks of pointers of the current layout; `gen` counts layouts.
* `MapTakesEffect` and `OnlyItsAddress` until two CPUs, in maps that share a table, each
  store a table in one entry (`Lossy`: the second store loses the first), or a table lies at
  address 0 (`atNull`). `MapTakesEffect` also not when a call in a second map has written the entry between lines
  59 and 60 (`Overtaken`): `setFlags` then keeps the other's page.
* The vectors of the scheduler lose elements: that every thread created is listed does not hold, with or
  without a second CPU, because a tick between the read and the store of a push is enough. What runs is
  still what its creator made READY, in its process (`RunsWhereCreated`).
* `SingleRunner` for threads that create and are preempted; with `exitThread` and
  `createThread`, or `blockThread` and `unblock`, on two CPUs a thread can be picked or
  its slot reused before its CPU has left it.
* `ExitedStaysDead` names its three exceptions: `blockThread(thread)`, which tests the
  caller's state; a creator that overwrites the state at line 61; and the idle process, whose first thread
  `switchTask` runs whatever its state.
* `FreedHasExited`: what `clean_proc` frees is KILLED or is listed in a process that is. That the thread
  is one of that process does not follow: `remove(find(thread))` (lines 249 and 274) removes position 0, so a freed thread may stay
  listed; its memory becomes a thread of another process, and the exit of the first process frees a thread that lives.
  The instance of the run is too small for it; the proof of the stronger property failed on it.
* `BootCompletes` with every tag, a FADT and an MCFG: `acpi::init` follows `rsdp_tag` and the FADT, `pci::init` the MCFG
  without a test (`acpi.cpp` lines 216 and 239, `pci.cpp` line 221), and waits for the firmware to enable ACPI (line 240), which is
  taken to happen. The timers start with a MADT and an HPET,
  because without a running clock the calibration never ends. Without a MADT an AP makes the
  PIT schedule, and its tick can take the boot CPU away before the shell starts.
* `CpusConfigured`: the addresses in RSP[0] are distinct if the boot CPU comes first (otherwise its
  TSS has none); with four CPUs the scheduler's vector can be allocated twice, and a timer then
  has no handler. A CPU whose LAPIC ID is not below the number of CPUs loads a TSS behind the array
  (`InArray`). IST[0] and RSP[0] are low ends of their blocks: what an interrupt pushes lands in the heap block
  beneath, so the property says whose addresses they are and not that the memory is the CPU's own.
* `LineIsWhatWasTyped` for a user who waits for `getLine`, does not use keys
  without a character and does not erase past the start of the line; one who does gets
  `gi` below 0, because `buff` still holds what earlier lines left in it.
* `MountedFound` for names that differ. A name that is not there opens the last child; a
  second new name of a path is not created; removing the first of two children frees it and
  keeps it in the list, removing the first of more loses the last one.
* `cd`, `cd /` and `cd ..` at the top leave the shell at a null node, from which it makes a
  new tree: `TreeShape` speaks of every node that has a parent.
* `SleepNotEarly`: a start read across a carry ends a wait of a minute or more early, a shorter
  one a day late. `SleepEnds`: an end behind midnight is never met.
* `SourcesAgree` compares the sources with each other: the unit of `mSleep` is a hundredth of a second in all
  of them, although its parameter and `MSEC_TO_US` (`omtime.hpp` line 8) say milliseconds.
* `BackgroundRestored` except for text written under the cursor, which goes when the cursor moves on.
* `EveryIntPrints`: `int2string` has ten places. Negative numbers of ten digits are written behind them, and no
  NUL follows any number: what is returned goes on with whatever the stack held.
* `InterruptsRouted`: the last line of a chip is not covered (`apic.cpp` line 122) and
  redirecting it follows a null pointer. The PIT's line is never redirected.
* `TablesRead`: a MADT entry of length 0 makes the walk endless; a name that begins with `_S5`
  hides the package (`memcmp` ignores the last byte); `SLP_TYPa` is never set. `ScanComplete`: the last
  bus of a segment is left out, and a bus without a device 0.
* `DrawingExact`: a rectangle that reaches below the screen is written behind the frame buffer.
* `FormatsStandard` without `#` in `%o` and for zero padding within the buffer of 32
  characters. `SearchesExact`: `getline` needs a newline on both sides; `strsplit` with an empty delimiter
  never ends. `BufferCalls`: `memcmp` does not see a difference in the last byte, and has the same sign both ways for
  bytes 128 apart.

## 4. The proofs

Each theorem holds for every value of the constants that its module's assumption allows:
any number of CPUs, pages, threads, maps or keys, any sequence of calls. The pattern is the same
everywhere: an inductive invariant (`IInv`; `CursorInv` for the mouse, `ClockInv` for the clock, `ShellInv` for the shell, `SoundInv` and
`PickedReady` for the scheduler with every operation, `RetryInv` for the heap on one CPU), one lemma per action
that the action keeps it, `Spec => []IInv`, and the properties as consequences. Each one was checked
by TLC on the instance of its run before it was proved. The theorems in the last part of the table are about operators: they state, for every argument, the
operator that an invariant of `library` applies to bounded ones.

| Theorem | States | Assumes |
|---|---|---|
| `PageScanProofs!LoopComputesOperator` | `Spec => []LoopIsOperator` | `ScanAssumption` |
| `PMemoryProofs!Invariance` | `Spec => []IInv` | `MachineAssumption` |
| `PMemoryProofs!TypeCorrect` | `Spec => []TypeOK` | the same |
| `PMemoryProofs!LockExcludes` | `Spec => []MutualExclusion` | the same |
| `PMemoryProofs!PagesAreExclusive` | `Spec => []NoDoubleAllocation` | the same |
| `PMemoryProofs!OnePageSearchIsComplete` | `Spec => OnePageComplete` | the same |
| `PMemoryProofs!ImplementsPageAllocator` | `Spec => Refinement` (the abstract allocator's specification, broken when `wiped`) | the same |
| `HeapProofs!HeapTypeCorrect` | `Spec => []TypeOK` | `HeapAssumption` |
| `HeapProofs!HeapLockExcludes` | `Spec => []MutualExclusion` | the same |
| `HeapProofs!BlocksTileHeap` | `Spec => []Tiled` | the same |
| `HeapProofs!WalksReadHeaders` | `Spec => []WalkReadsHeaders` | the same |
| `HeapProofs!PointersStaySafe` | `Spec => []LivePointersSafe` | the same |
| `HeapProofs!RetryNeverFails` | `Spec => RetryFinds` | the same, `OneCpu` |
| `VMemoryProofs!PageTablesShaped` | `Spec => []IInv` | `VMemoryAssumption` |
| `VMemoryProofs!MappingHolds` | `Spec => MapTakesEffect` | the same |
| `VMemoryProofs!OthersUntouched` | `Spec => OnlyItsAddress` | the same |
| `SchedulerProofs!SchedulerTypeCorrect` | `Spec => []TypeOK` | `SchedAssumption` |
| `SchedulerProofs!OnlyExitedFreed` | `Spec => FreedHasExited` | the same |
| `SchedulerProofs!DeadThreadsStayDead` | `Spec => ExitedStaysDead` | the same, `OneCpu` |
| `SchedulerProofs!OneCpuPerThread` | `Spec => []SingleRunner` | the same, `OnlyCreate` |
| `SchedulerProofs!NoThreadStranded` | `Spec => []RunningIsCurrent` | the same, `OnlyCreate` |
| `SchedulerProofs!ThreadsRunWhereCreated` | `Spec => []RunsWhereCreated` | the same, `OnlyCreate` |
| `BootProofs!NoCountLost` | `Spec => []AllCounted`: `cpusUp` is the number of CPUs that came up | `BootAssumption` |
| `BootProofs!EveryCpuConfigured` | `Spec => []CpusConfigured` | the same |
| `KeyboardProofs!KeyboardTypeCorrect` | `Spec => []TypeOK` | `KeyboardAssumption` |
| `KeyboardProofs!LineEndsInArray` | `Spec => []LineTerminated` | the same |
| `KeyboardProofs!CalmLineIsTyped` | `Spec => LineIsWhatWasTyped` | the same |
| `LibraryProofs!CursorLeavesNoTrace` | `MouseSpec => []BackgroundRestored` | `FrameAssumption`, `WrittenAssumption` |
| `LibraryProofs!SleepNeverEarly` | `SleepSpec => []SleepNotEarly` | `ClockAssumption` |
| `LibraryProofs!ShellTreeShape` | `ShellSpec => []TreeShape` | `ShellAssumption` |
| `LibraryProofs!ShellLockFree` | `ShellSpec => []LockFree` | the same |
| `LibraryProofs!WaitsAgreeAlways` | `WaitsAgree`: two sources wait the same time, to the coarser grain, `sleep` and `uSleep` as long as asked | every HPET period, every PIT frequency that is a multiple of 100 Hz |
| `LibraryProofs!RectangleAlwaysExact` | `RectangleExact` for every rectangle whose corner is on the screen | `FrameAssumption` |
| `LibraryProofs!LinesAlwaysEnd` | `LineEnds` for every start and direction | – |
| `LibraryProofs!BuffersAlwaysExact` | `BuffersExact`: `memmove` and `memcmp` | the two ranges lie in memory (`Ranges`) |
| `LibraryProofs!InitAlwaysHandsOver` | `HandsOverUsablePages` for every memory map | `PMemoryInitAssumption`, `MapOfMemory` |

**What is assumed.** Most assumptions say that numbers are positive and names distinct. The ones that say more:
`MachineAssumption` keeps page 0 out of the usable pages (`init` never frees it). `HeapAssumption` describes `BlockSizes`, the sizes `malloc` rounds
to: each is the double of another or the first, as powers of two are, and those of a page or more are whole pages.
`VMemoryAssumption`: `pMemory::alloc` never returns page 0 or the table CR3 holds at boot, and there are finitely many maps.
`BootAssumption`: no two CPUs have the same LAPIC ID. `FrameAssumption`: the screen has a pixel. `WrittenAssumption`: text is on it.
`ClockAssumption`: a minute has at least two seconds; a day is any number of hours, minutes and seconds.
`PMemoryInitAssumption`: a page holds whole bytes of the bitmap. `MapOfMemory`: usable entries of the memory map do not overlap and page 0 is in
none of them, as stivale2 has it; entries are any number and in any order.
`OneCpu`: the two theorems that need it are false with a second CPU, which can expand the heap, or end the thread another has picked.
`OnlyCreate` restricts the threads of `Scheduler` to creating threads and processes, which are the only operations the
kernel calls (`apps/turboShell.cpp` lines 48 and 49, and the scheduler itself); with the others `SingleRunner` is false (section 3).

**`PageScanProofs`.** The invariant `ScanInv` says that the last `run` pages before the cursor are free,
that no run of the wanted length ends earlier, and that the bitmap is untouched.

**`PMemoryProofs`.** `NoDoubleAllocation` is not inductive: that the pages about to be marked are free
does not follow from blocks being disjoint, and that a page about to be cleared
belongs to nobody else does not follow from the bitmap. `IInv` adds that a page that
is not marked is usable while the bitmap is intact (`FreeIsUsable`), that the local state of each call
fits its phase (`Phases`), that the block a call is freeing or returning is a live
one (`Pending`), and that no two calls own the same one (`Owned`). `SearchResult`, what the two scans of `alloc` do to any bitmap,
carries the searching step. The refinement maps `free` to the unmarked pages and `held` to
`live` and `broken` to `wiped`; only the step that marks, the one that clears and the `memset` over the bitmap are not
stuttering. What a call holds for itself (`Phases`, `Owned`) does not depend on the bitmap and holds after `wiped` too.

**`HeapProofs`.** That blocks tile the heap is not inductive: `split` and the merging loop write headers they reach through
`blk`, `tmp` and `best`, which were read turns ago. `Knows(c)` says, label by label, what these still mean: `tmp` is the block behind `blk`,
`best` is free, large enough and not behind `blk`. `expand` breaks all of it at once and is harmless because whoever
is inside holds the lock; the one that returns with the lock kept (line 152) leaves `Stuck`, in which nobody gets further. `Owned` (a pointer is
with one call at a time) is what makes `free` release a block somebody really held.

`RetryFinds` needs to know that nothing happens between the expansion and the search that follows it. `RetryInv` says where a call can be
while `expanded` is set, and that the heap is then one free block in which its request fits (`Fits`), unless the expansion failed and kept the lock. The pages `malloc` asks
for are always enough (`GrownHeapFits`), whatever the sizes of pages and blocks. With a second CPU all of it is lost as soon as the lock is released.

**`VMemoryProofs`.** A table is reached from several maps and several walks at once, so an invariant about "the tables of a map" is of
no use. `Shape(lv, ix)` gives every table a place instead, a level and the indices that lead to it, whichever map one comes
from: an entry above the last level leads to the place its index says (`Links`), a walk stands at the place of its address and
can name the way it came (`Walker`, `Leads`), a table about to be linked is empty and linked nowhere (`Storer`), the top of
a map being copied belongs to no map (`Copier`). Places are chosen as tables are allocated; the copying loop keeps them because it copies entry `i` to entry `i`.
If a walk finds, at lines 24 and 25, that its entry was filled since line 20, there must be a second map, because the lock of
its own was held (`Alone`: with one map a call finds its entry as it left it): then `lost` is set and nothing is promised from
there on (`Broken`), as in the two properties. `MapTakesEffect`
follows because ways are unique (`OneWay`) and the walk's own is one, and because at line 60 the entry that was read
still has the page of line 59 unless a second map came in between; `OnlyItsAddress`
because two addresses with the same entry at the same place are the same address.

**`SchedulerProofs`.** `SingleRunner` needs to know why `switchTask` cannot pick what another CPU runs: `CurInv` says that what a CPU runs
is RUNNING, except between `Enter` and `Commit`, when it is READY but `sched_lock` is held (`LockInv`);
`IdleInv` that an idle process belongs to one CPU and its threads never leave their loop; `VecInv` that a process has a
thread from its allocation on, also where a push stores over another; `JobInv` that an INITIAL thread has one creator, and that what a
creator is about to store is its own. `data` may list what was never meant to stay, but only threads of that process. That `clean_proc` then finds nothing to free is
proved turn by turn.

With every operation much of this is false, and the theorems rest on less. `SoundInv` is the type invariant with what an operation under way holds
(`JobsSound`), what a CPU in `switchTask` has picked (`CursSound`), and that an idle process, whose first thread is run whatever the length of its vector,
has one (`IdleSound`). What `clean_proc` frees and leaves alone is shown turn by turn, by induction over the positions of
`DropThreads` and `Passed` (`UpTo`): states of threads stay as they are, a process becomes KILLED only when it is cleaned, and a list only gets shorter.
`OnlyExitedFreed` follows for any number of CPUs. For `DeadThreadsStayDead`, `PickedReady` says that from pick to commit the thread `switchTask` is about to run is READY
or of the idle process: `clean_proc` between the two changes no state of a thread, and with one CPU nobody else does.

**`BootProofs`.** `MainInv` ties the steps the boot CPU may be at to `main`'s turn, `LockInv` the two locks to the steps of `cpu_init`, and
`CountInv` equates `cpusUp` with the CPUs whose increment is done, which needs the lock around load and store. `LoadedInv` and `TssInv` say what a CPU
has loaded by its step, and which ends of which blocks the loop has stored up to its turn. `VectorInv` is the
argument for three CPUs: the vector a timer was started with is registered, or a CPU is about to register it.

**`KeyboardProofs`.** `RoomForChar`: between the test of line 179 and the store, interrupts only lower the index, in each build of the optimiser
(`StoreIndex`). For `LineIsWhatWasTyped`, `CalmInv` relates `retstr`, `gi`, the one character under way and the length of the string in `buff`
at each label.

**`LibraryProofs`.** Every pixel of the cursor's border is one of its inside, so `clear` restores what `draw` covered, wherever the screen ends (`ClearRestores`). `CursorInv` adds that neither what was drawn last nor what `draw` saved has a colour of the cursor; a pixel whose saved value is
out of date is in `touched`. For the clock, a time
put together from registers read across a carry is too small by a minute or an hour (`TimeValue`); `PollInv` lists the three ends a `sleep` can
then have computed, and none is met early but the one the property names.

`TreeShape` is not inductive: nothing in it says that the node `mkdir` makes is not in some list of children already, or is not the parent some older node still names. `ShellInv` adds
(`Numbered`) that nodes are numbered as they are made, that parents are nodes that exist or null, and that children exist. For `LockFree`, `open` keeps
the lock only for "/" below a node, which the shell does not pass on, or when it has followed a wild pointer (`OpenHeld`); that holds whatever `openNext` returns.

The theorems about loops are inductions over their turns. The library's induction theorems cannot be instantiated, so `UpTo` takes a set
instead of a predicate and looks at the least number outside it (`WellFoundedInduction`); the set is that of the turns after which the state has a closed form. A diagonal line has moved
`Along` and `Down` by integer divisions of `i`, and its error term is what the division leaves; `memmove` has shifted the first or the last `i` bytes and
the bytes it still has to read are untouched; `Measure` has counted the usable pages of the first `i` entries and their highest end.

**Only model-checked.** Liveness (`Terminates`, `LockReleased`, `CallsReturnWhileMemoryLasts`, `BootCompletes`, `EnterEndsLine`,
`SleepEnds`) needs fairness and ENABLED, out of the prover's reach. `MountedFound` is about `createNext`, a RECURSIVE operator. `SearchesExact`, `EveryIntPrints`
and `FormatsStandard` compare nested recursions over texts and digits with their reference, `ScanComplete`, `TablesRead` and
`InterruptsRouted` folds and selections that take operators, which the provers cannot instantiate.
Of `DrawingExact`, the lines and rectangles are proved and the circles are not stated.

## 5. Not modelled

* **Vendored code**: `ssfn.h`, `stivale2.h`, the bootloader limine. They make up a good part of the
  repository's lines.
* **Output**: terminal (but `printi`), serial port and font rendering hand characters to hardware or to
  vendored code; nothing reads them back. Their locks in interrupt handlers
  (`COM1_Handler`) are listed as a hazard.
* **Floating point** in `printf.c`, out of TLC's reach.
* **Reports**: panic, UBSan, the text of exceptions, the shell's other commands.
* **Register access**: CPU features, PAT, MSRs, port handshakes of mouse and keyboard controllers.
* **Dead code**: PCI's scan through ports (`pci.cpp` lines 229-274).
* Within the modelled parts: nested ticks enabled by `this_thread()` (`sti` inside
  `switchTask`), registers, FPU state, the TLB, names, priorities and statistics; the memory
  beneath the blocks that IST[0] and RSP[0] point to; a vector that `realloc` moves under a reader, and orders of
  its stores other than the source's (its length is taken to stay in a register between read and store); what is written to pages that a wiped
  bitmap hands out; text written by another CPU while the mouse handler runs; the lengths of the shell's and the nodes' path buffers (128
  places, not checked by the source); the RTC's date.

## 6. Plan

Done: all modules of section 2 and the theorems of section 4. Left, in order of what matters most:

1. `Keyboard` with `Scheduler`: the shell may hold `getLine_lock` when the first tick takes its
   CPU away, and `nano`'s `getLine` then waits for ever.
2. The locks of terminal and serial port with the handler that takes them.
3. Proofs. `Pci` and `Apic`, with their folds written as recursive functions over turns as in `Strings` and `PMemoryInit`; `createNext`, in the form `openNext` has.
