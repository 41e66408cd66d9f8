-------------------------------- MODULE Boot --------------------------------
(***************************************************************************)
(* From the boot loader to the shell: kernel.cpp, main.cpp, smp.cpp,       *)
(* gdt.cpp, the timer part of apic.cpp and scheduler::init.                *)
(*                                                                         *)
(* CPUs are the positions 0 .. N - 1 in smp_info; ids gives their LAPIC    *)
(* IDs, which the TSS array is indexed with by a CPU, while smp::init      *)
(* fills it by position.  IDs may leave gaps.  The boot CPU runs main, one *)
(* component after the other; each other CPU runs cpu_init when its        *)
(* goto_address is set, all of it holding cpu_lock, and then starts its    *)
(* timer.                                                                  *)
(***************************************************************************)
EXTENDS Integers, Sequences, FiniteSets, SequencesExt

CONSTANTS
  N,          \* smp_tag->cpu_count
  LapicIds    \* the LAPIC IDs machines give their CPUs, by position

CPU == 0 .. N - 1

ASSUME BootAssumption ==
  N \in Nat \ {0} /\ \A p \in LapicIds : p \in [CPU -> Nat] /\ \A c, d \in CPU : p[c] = p[d] => c = d

Free == -1
None == -1
SYSCALL == \h69

(***************************************************************************)
(* Stacks.  Block b of STACK_SIZE bytes begins at Bottom(b), which is what *)
(* malloc returns, and ends at Top(b).  What is pushed goes below a stack  *)
(* pointer: from Top(b) into block b, from Bottom(b) into whatever memory  *)
(* lies beneath the block.                                                 *)
(***************************************************************************)
Bottom(b) == 2 * b
Top(b) == 2 * b + 1
IsTop(address) == address % 2 = 1

\* The blocks: the kernel's, and those smp::init allocates for CPU i.
kernelStack == 1
sched_stack(i) == 2 * i + 2
stack(i) == 2 * i + 3

VARIABLES
  ids, bsp,       \* LAPIC IDs by position; the boot CPU's position
  found,          \* the ACPI tables the machine has
  tags,           \* the tags the boot loader passes
  ready,          \* components whose isInit is set
  turn,           \* main's place in Order
  pc,             \* CPU -> step
  loop,           \* i of smp::init
  cpu_lock, gdt_lock, lapicTimerLock,
  gdtTss,         \* TSS of DefaultGDT.Tss; None before
  tss,            \* index -> [rsp, ist], RSP[0] and IST[0]
  target_stack,   \* CPU -> the stack it runs on
  cpu,            \* CPU -> [tr, gs, up, timer], the TSS loaded, the cpu_t and the timer's vector
  cpusUp, read,   \* and the value a CPU has read of it
  sched_vector, next_free,
  allocated,      \* ghost: how often allocVector was called
  handled,        \* vectors with switchTask and a descriptor for it
  tickCountInMS,  \* 0 until the timer is calibrated
  isScheduling    \* pit::isScheduling

hardware == <<ids, bsp, found, tags>>
locks == <<cpu_lock, gdt_lock, lapicTimerLock>>
tables == <<gdtTss, tss, cpu, target_stack>>
counters == <<cpusUp, read, loop>>
timers == <<sched_vector, next_free, allocated, handled, tickCountInMS, isScheduling>>
vars == <<hardware, ready, turn, pc, locks, tables, counters, timers>>

-----------------------------------------------------------------------------
Needed == {"cmdline", "framebuffer", "terminal", "smp", "memmap", "modules", "rsdp"}
Tables == {"madt", "hpet", "fadt", "mcfg"}

\* stivale2_get_tag: the first tag with the identifier, or null.
stivale2_get_tag(list, id) == SelectInSeq(list, LAMBDA t : t = id)

Init ==
  /\ ids \in LapicIds /\ bsp \in CPU
  /\ found \in SUBSET Tables
  /\ tags \in { SetToSeq(Needed \ {t}) : t \in Needed \cup {"none"} }
  /\ ready = {} /\ turn = 1 /\ pc = [c \in CPU |-> IF c = bsp THEN "_start" ELSE "parked"]
  /\ cpu_lock = Free /\ gdt_lock = Free /\ lapicTimerLock = Free
  /\ target_stack = [c \in CPU |-> IF c = bsp THEN Top(kernelStack) ELSE 0]
  /\ gdtTss = None /\ tss = [i \in CPU |-> [rsp |-> 0, ist |-> 0]]
  /\ cpu = [c \in CPU |-> [tr |-> None, gs |-> None, up |-> FALSE, timer |-> 0]]
  /\ cpusUp = 0 /\ read = [c \in CPU |-> 0] /\ loop = 0
  /\ sched_vector = 0 /\ next_free = 48 /\ allocated = 0 /\ handled = {} /\ tickCountInMS = 0 /\ isScheduling = FALSE

Goto(c, step) == pc' = [pc EXCEPT ![c] = step]
At(c, step) == pc[c] = step

(***************************************************************************)
(* _start and the first lines of main.  The command line is read before    *)
(* its tag is tested, the smp, memory map and modules tags without a test. *)
(* At "fault" a null pointer is followed; nothing is said of what follows. *)
(***************************************************************************)
Has(t) == stivale2_get_tag(tags, t) # 0

_start ==
  /\ At(bsp, "_start")
  /\ Goto(bsp, IF ~Has("cmdline") THEN "fault"
               ELSE IF ~Has("framebuffer") \/ ~Has("terminal") THEN "panic"
               ELSE IF ~Has("smp") \/ ~Has("memmap") \/ ~Has("modules") THEN "fault"
               ELSE "main")
  /\ UNCHANGED <<hardware, ready, turn, locks, tables, counters, timers>>

\* main's components, in its order.  gdt, smp and shell have steps of their own.
Order == <<"pMemory", "vMemory", "gdt", "idt", "acpi", "hpet", "pit", "pci", "apic", "smp",
           "keyboard", "mouse", "vfs", "shell">>

\* acpi::init follows rsdp_tag and the FADT without a test, pci::init the MCFG, for legacy is
\* false with or without it.
FollowsNull ==
  \/ Order[turn] = "acpi" /\ (~Has("rsdp") \/ "fadt" \notin found)
  \/ Order[turn] = "pci" /\ "mcfg" \notin found

InitFaults ==
  /\ At(bsp, "main") /\ FollowsNull
  /\ Goto(bsp, "fault")
  /\ UNCHANGED <<hardware, ready, turn, locks, tables, counters, timers>>

\* hpet and apic without their ACPI table return early, and main goes on.  acpi::init's wait for
\* the control block ends: the firmware enables ACPI.
InitComponent ==
  /\ At(bsp, "main") /\ Order[turn] \notin {"gdt", "smp", "shell"} /\ ~FollowsNull
  /\ ready' = CASE Order[turn] = "hpet" /\ "hpet" \notin found -> ready
                [] Order[turn] = "apic" /\ "madt" \notin found -> ready
                [] OTHER -> ready \cup {Order[turn]}
  /\ turn' = turn + 1
  /\ UNCHANGED <<hardware, pc, locks, tables, counters, timers>>

\* gdt::init, up to its call of reloadAll.
GdtInit ==
  /\ At(bsp, "main") /\ Order[turn] = "gdt"
  /\ Goto(bsp, "gdt lock")
  /\ UNCHANGED <<hardware, ready, turn, locks, tables, counters, timers>>

\* shell::run: the boot is over.
ShellRun ==
  /\ At(bsp, "main") /\ Order[turn] = "shell"
  /\ Goto(bsp, "shell") /\ ready' = ready \cup {"shell"}
  /\ UNCHANGED <<hardware, turn, locks, tables, counters, timers>>

-----------------------------------------------------------------------------
\* smp::init begins; one turn of its loop; its wait.
SmpInit ==
  /\ At(bsp, "main") /\ Order[turn] = "smp"
  /\ Goto(bsp, "smp loop") /\ loop' = 0
  /\ UNCHANGED <<hardware, ready, turn, locks, tables, cpusUp, read, timers>>

\* Mutant: the scheduler's stack goes into the first TSS.
SmpLoopFirst ==
  /\ At(bsp, "smp loop") /\ loop < N
  /\ tss' = [tss EXCEPT ![0].ist = Bottom(sched_stack(loop)),
                       ![loop].rsp = IF loop = bsp THEN @ ELSE Bottom(stack(loop))]
  /\ target_stack' = [target_stack EXCEPT ![loop] = IF loop = bsp THEN @ ELSE Top(stack(loop))]
  /\ pc' = IF loop = bsp THEN [pc EXCEPT ![bsp] = "cpu lock"] ELSE [pc EXCEPT ![loop] = "cpu lock"]
  /\ loop' = loop + 1
  /\ UNCHANGED <<hardware, ready, turn, locks, gdtTss, cpu, cpusUp, read, timers>>

\* IST[0] and RSP[0] get the bottoms of their blocks, target_stack the top of its own.
SmpLoop ==
  /\ At(bsp, "smp loop") /\ loop < N
  /\ tss' = [tss EXCEPT ![loop].ist = Bottom(sched_stack(loop)),
                       ![loop].rsp = IF loop = bsp THEN @ ELSE Bottom(stack(loop))]
  /\ target_stack' = [target_stack EXCEPT ![loop] = IF loop = bsp THEN @ ELSE Top(stack(loop))]
  /\ pc' = IF loop = bsp THEN [pc EXCEPT ![bsp] = "cpu lock"] ELSE [pc EXCEPT ![loop] = "cpu lock"]
  /\ loop' = loop + 1
  /\ UNCHANGED <<hardware, ready, turn, locks, gdtTss, cpu, cpusUp, read, timers>>

SmpWait ==
  /\ At(bsp, "smp loop") /\ loop = N /\ cpusUp >= N
  /\ Goto(bsp, "main") /\ ready' = ready \cup {"smp"} /\ turn' = turn + 1
  /\ UNCHANGED <<hardware, locks, tables, counters, timers>>

-----------------------------------------------------------------------------
CpuLock(c) ==
  /\ At(c, "cpu lock") /\ cpu_lock = Free
  /\ cpu_lock' = c /\ Goto(c, "gdt lock")
  /\ UNCHANGED <<hardware, ready, turn, gdt_lock, lapicTimerLock, tables, counters, timers>>

\* gdt::reloadAll: the lock, the one TSS descriptor of the one GDT, lgdt and
\* ltr, which takes the descriptor as it is then.
GdtLock(c) ==
  /\ At(c, "gdt lock") /\ gdt_lock = Free
  /\ gdt_lock' = c /\ Goto(c, "descriptor")
  /\ UNCHANGED <<hardware, ready, turn, cpu_lock, lapicTimerLock, tables, counters, timers>>

Descriptor(c) ==
  /\ At(c, "descriptor")
  /\ gdtTss' = ids[c] /\ Goto(c, "ltr")
  /\ UNCHANGED <<hardware, ready, turn, locks, tss, cpu, target_stack, counters, timers>>

\* Behind reloadAll, gdt::init sets the first TSS's stack; cpu_init goes on.
LoadTss(c) ==
  /\ At(c, "ltr")
  /\ cpu' = [cpu EXCEPT ![c].tr = gdtTss] /\ gdt_lock' = Free
  /\ IF "gdt" \in ready
       THEN Goto(c, "gs") /\ UNCHANGED <<tss, ready, turn>>
       ELSE /\ Goto(c, "main") /\ tss' = [tss EXCEPT ![0].rsp = Bottom(kernelStack)]
            /\ ready' = ready \cup {"gdt"} /\ turn' = turn + 1
  /\ UNCHANGED <<hardware, cpu_lock, lapicTimerLock, gdtTss, target_stack, counters, timers>>

\* Mutant: cpu_lock is released before the increment.
CpuInitUnlocks(c) ==
  /\ At(c, "gs")
  /\ cpu' = [cpu EXCEPT ![c].gs = c, ![c].up = TRUE] /\ cpu_lock' = Free
  /\ read' = [read EXCEPT ![c] = cpusUp] /\ Goto(c, "count")
  /\ UNCHANGED <<hardware, ready, turn, gdt_lock, lapicTimerLock, gdtTss, tss, target_stack, cpusUp, loop, timers>>

\* Lines 29-79: IDT, page map, GS, SSE to XSAVE, isUp; cpusUp is read.
CpuInit(c) ==
  /\ At(c, "gs")
  /\ cpu' = [cpu EXCEPT ![c].gs = c, ![c].up = TRUE]
  /\ read' = [read EXCEPT ![c] = cpusUp] /\ Goto(c, "count")
  /\ UNCHANGED <<hardware, ready, turn, locks, gdtTss, tss, target_stack, cpusUp, loop, timers>>

\* The rest of cpusUp++.
Count(c) ==
  /\ At(c, "count")
  /\ cpusUp' = read[c] + 1 /\ Goto(c, "cpu unlock")
  /\ UNCHANGED <<hardware, ready, turn, locks, tables, read, loop, timers>>

\* The boot CPU returns to its loop; the others start their timers, without
\* an APIC by handing the boot CPU's PIT to the scheduler.
CpuUnlock(c) ==
  /\ At(c, "cpu unlock")
  /\ cpu_lock' = Free
  /\ Goto(c, IF c = bsp THEN "smp loop" ELSE IF "apic" \in ready THEN "vector?" ELSE "halted")
  /\ isScheduling' = (isScheduling \/ (c # bsp /\ "apic" \notin ready))
  /\ UNCHANGED <<hardware, ready, turn, gdt_lock, lapicTimerLock, tables, counters,
                 sched_vector, next_free, allocated, handled, tickCountInMS>>

\* A PIT tick on the boot CPU, while the PIT schedules: switchTask takes the
\* CPU for the scheduler, which has no thread that leads back to main.
PitTick ==
  /\ isScheduling /\ pc[bsp] \notin {"shell", "taken"} /\ "idt" \in ready
  /\ Goto(bsp, "taken")
  /\ UNCHANGED <<hardware, ready, turn, locks, tables, counters, timers>>

-----------------------------------------------------------------------------
\* scheduler::init, lines 422-427, without a lock: the test, the allocation,
\* and the registration, which reads sched_vector again.
TestVector(c) ==
  /\ At(c, "vector?")
  /\ Goto(c, IF sched_vector = 0 THEN "allocate" ELSE "periodic")
  /\ UNCHANGED <<hardware, ready, turn, locks, tables, counters, timers>>

\* ++next_free, a uint8_t.
allocVector == LET Increment(v) == (v + 1) % 256
               IN  IF Increment(next_free) = SYSCALL THEN Increment(SYSCALL) ELSE Increment(next_free)

AllocateVector(c) ==
  /\ At(c, "allocate")
  /\ next_free' = allocVector /\ sched_vector' = allocVector /\ allocated' = allocated + 1
  /\ Goto(c, "register")
  /\ UNCHANGED <<hardware, ready, turn, locks, tables, counters, handled, tickCountInMS, isScheduling>>

RegisterVector(c) ==
  /\ At(c, "register")
  /\ handled' = handled \cup {sched_vector} /\ Goto(c, "periodic")
  /\ UNCHANGED <<hardware, ready, turn, locks, tables, counters, sched_vector, next_free, allocated, tickCountInMS, isScheduling>>

\* lapicPeriodic: its argument is read, then its lock is taken.
Periodic(c) ==
  /\ At(c, "periodic")
  /\ read' = [read EXCEPT ![c] = sched_vector] /\ Goto(c, "timer lock")
  /\ UNCHANGED <<hardware, ready, turn, locks, tables, cpusUp, loop, timers>>

TimerLock(c) ==
  /\ At(c, "timer lock") /\ lapicTimerLock = Free
  /\ lapicTimerLock' = c
  /\ Goto(c, IF tickCountInMS = 0 THEN "calibrate" ELSE "start timer")
  /\ UNCHANGED <<hardware, ready, turn, cpu_lock, gdt_lock, tables, counters, timers>>

\* lapicTimerInit: mSleep ends by the HPET's counter.  By the PIT's it does
\* not, whose line is not redirected (module Apic).
Calibrate(c) ==
  /\ At(c, "calibrate") /\ "hpet" \in ready
  /\ tickCountInMS' = 1 /\ Goto(c, "start timer")
  /\ UNCHANGED <<hardware, ready, turn, locks, tables, counters, sched_vector, next_free, allocated, handled, isScheduling>>

StartTimer(c) ==
  /\ At(c, "start timer")
  /\ cpu' = [cpu EXCEPT ![c].timer = read[c]]
  /\ lapicTimerLock' = Free /\ Goto(c, "scheduling")
  /\ UNCHANGED <<hardware, ready, turn, cpu_lock, gdt_lock, gdtTss, tss, target_stack, counters, timers>>

-----------------------------------------------------------------------------
Main == _start \/ InitComponent \/ InitFaults \/ GdtInit \/ SmpInit \/ SmpLoop \/ SmpWait \/ ShellRun
Cpu(c) ==
  \/ CpuLock(c) \/ GdtLock(c) \/ Descriptor(c) \/ LoadTss(c) \/ CpuInit(c) \/ Count(c) \/ CpuUnlock(c)
  \/ TestVector(c) \/ AllocateVector(c) \/ RegisterVector(c) \/ Periodic(c)
  \/ TimerLock(c) \/ Calibrate(c) \/ StartTimer(c)

Next == Main \/ PitTick \/ \E c \in CPU : Cpu(c)

\* CPUs run by themselves.
Spec == Init /\ [][Next]_vars /\ WF_vars(Main) /\ \A c \in CPU : WF_vars(Cpu(c))

-----------------------------------------------------------------------------
Complete == (\A t \in Needed : Has(t)) /\ {"fadt", "mcfg"} \subseteq found

(***************************************************************************)
(* With every tag, a FADT and an MCFG, the boot CPU reaches the shell: no  *)
(* increment of cpusUp is lost, and its wait ends.  With a MADT and an     *)
(* HPET every other CPU then has its timer.  Without a MADT and with a     *)
(* second CPU, the PIT may take the boot CPU away first.                   *)
(***************************************************************************)
BootCompletes ==
  /\ Complete /\ ("madt" \in found \/ N = 1) ~> At(bsp, "shell")
  /\ Complete /\ found = Tables ~> \A c \in CPU \ {bsp} : cpu[c].timer # 0

Distinct(f, S) == \A c, d \in S : f[c] = f[d] => c = d

\* CPUs whose ID is an index of the array gdt::init allocates; the others load a TSS behind it.
InArray == { c \in CPU : ids[c] < N }

(***************************************************************************)
(* When smp::init has ended, whatever the LAPIC IDs: each CPU has a TSS    *)
(* and a cpu_t of its own and runs at the top of a block of its own.  CPUs *)
(* whose TSS is in the array have there an address for the scheduler's     *)
(* interrupt that no other has, and if the boot CPU comes first, for       *)
(* RSP[0] too.  These addresses are bottoms: the property does not say     *)
(* that what interrupts push is the CPU's own.  A timer's vector has       *)
(* switchTask as its handler when all have started, unless a vector was    *)
(* allocated twice among three or more CPUs that started timers.           *)
(***************************************************************************)
CpusConfigured ==
  /\ "smp" \in ready =>
       /\ Distinct([c \in CPU |-> cpu[c].tr], CPU) /\ Distinct([c \in CPU |-> cpu[c].gs], CPU)
       /\ Distinct(target_stack, CPU) /\ \A c \in CPU : IsTop(target_stack[c])
       /\ Distinct([c \in InArray |-> tss[cpu[c].tr].ist], InArray)
       /\ \A c \in InArray : tss[cpu[c].tr].ist # 0
       /\ bsp = 0 => Distinct([c \in CPU |-> tss[c].rsp], CPU)
  /\ (\A c \in CPU \ {bsp} : At(c, "scheduling")) /\ (N <= 3 \/ allocated = 1) =>
       \A c \in CPU \ {bsp} : cpu[c].timer \in handled
=============================================================================
