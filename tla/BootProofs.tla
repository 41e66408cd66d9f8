----------------------------- MODULE BootProofs -----------------------------
(***************************************************************************)
(* Theorems about Boot for any number of CPUs, any distinct LAPIC IDs and  *)
(* the boot CPU at any position.                                           *)
(***************************************************************************)
EXTENDS Boot, FiniteSetTheorems, TLAPS

\* cpu_init, from its lock to its unlock; reloadAll under gdt_lock.
InCpuInit == {"gdt lock", "descriptor", "ltr", "gs", "count", "cpu unlock"}
InReload == {"descriptor", "ltr"}

\* What follows cpu_init on the other CPUs: scheduler::init and the timer.
Started == {"timer lock", "calibrate", "start timer", "scheduling"}
Behind == {"vector?", "allocate", "register", "periodic", "halted"} \cup Started

BspSteps == {"_start", "fault", "panic", "main", "smp loop", "cpu lock", "shell", "taken"} \cup InCpuInit
ApSteps == {"parked", "cpu lock"} \cup InCpuInit \cup Behind

TypeOK ==
  /\ ids \in LapicIds /\ bsp \in CPU /\ found \in SUBSET Tables
  /\ ready \in SUBSET { Order[i] : i \in 1 .. 14 } /\ turn \in 1 .. 14
  /\ pc \in [CPU -> BspSteps \cup ApSteps]
  /\ loop \in 0 .. N /\ cpusUp \in Nat /\ read \in [CPU -> Nat]
  /\ cpu_lock \in CPU \cup {Free} /\ gdt_lock \in CPU \cup {Free}
  /\ lapicTimerLock \in CPU \cup {Free}
  /\ gdtTss \in Nat \cup {None} /\ target_stack \in [CPU -> Nat]
  /\ tss \in [CPU -> [rsp : Nat, ist : Nat]]
  /\ cpu \in [CPU -> [tr : Nat \cup {None}, gs : CPU \cup {None}, up : BOOLEAN, timer : Nat]]
  /\ sched_vector \in Nat /\ next_free \in Nat /\ allocated \in Nat /\ handled \in SUBSET Nat
  /\ tickCountInMS \in {0, 1} /\ isScheduling \in BOOLEAN

\* The steps the boot CPU may be at, by main's turn: gdt is its third
\* component and smp its tenth.
BspMay(s) ==
  /\ s \in BspSteps
  /\ s = "_start" => turn = 1
  /\ s = "main" /\ turn = 10 => loop = 0
  /\ s \in InReload \cup {"gdt lock"} => turn \in {3, 10}
  /\ s \in {"smp loop", "cpu lock", "gs", "count", "cpu unlock"} => turn = 10
  /\ s \in InCpuInit \cup {"cpu lock"} /\ turn = 10 => loop = bsp + 1

\* Where main is, and what it has started by then.  A CPU that smp::init has
\* not come to is parked.
MainInv ==
  /\ BspMay(pc[bsp]) /\ \A c \in CPU \ {bsp} : pc[c] \in ApSteps
  /\ ("gdt" \in ready <=> turn > 3) /\ ("smp" \in ready <=> turn > 10)
  /\ turn < 10 => loop = 0
  /\ turn > 10 => loop = N
  /\ \A c \in CPU \ {bsp} : c >= loop => pc[c] = "parked"

\* The two locks are held where the code says, and ltr loads the descriptor
\* of its own CPU.  In gdt::init the boot CPU is alone and takes gdt_lock only.
LockInv ==
  \A c \in CPU :
    /\ pc[c] \in InCpuInit /\ turn >= 10 => cpu_lock = c
    /\ pc[c] \in InReload => gdt_lock = c
    /\ pc[c] = "ltr" => gdtTss = ids[c]

\* The CPUs whose increment of cpusUp is done.
HasCounted(c) ==
  IF c = bsp THEN pc[c] = "cpu unlock" \/ (pc[c] = "smp loop" /\ loop > bsp)
  ELSE pc[c] \in Behind \cup {"cpu unlock"}
Counted == { c \in CPU : HasCounted(c) }

\* No increment is lost, as long as the boot CPU waits for them.
CountInv ==
  /\ turn <= 10 /\ pc[bsp] # "taken" => cpusUp = Cardinality(Counted)
  /\ \A c \in CPU : pc[c] = "count" => read[c] = cpusUp

\* What a CPU has loaded behind its reloadAll and behind cpu_init.
Reloaded(c) ==
  \/ turn > 10
  \/ IF c = bsp THEN turn > 3 ELSE pc[c] \in Behind \cup {"gs", "count", "cpu unlock"}
LoadedInv ==
  \A c \in CPU :
    /\ Reloaded(c) => cpu[c].tr = ids[c]
    /\ turn > 10 \/ HasCounted(c) \/ pc[c] = "count" => cpu[c].gs = c

\* What smp::init and gdt::init have put into the TSSs.
TssInv ==
  /\ \A i \in CPU : i < loop =>
       /\ tss[i].ist = Bottom(sched_stack(i))
       /\ i # bsp => tss[i].rsp = Bottom(stack(i)) /\ target_stack[i] = Top(stack(i))
  /\ turn > 3 => tss[0].rsp = Bottom(kernelStack) \/ bsp # 0
  /\ target_stack[bsp] = Top(kernelStack)

Registering == \E d \in CPU \ {bsp} : pc[d] = "register"
VectorOf(c) == IF pc[c] = "scheduling" THEN cpu[c].timer ELSE read[c]

\* A vector a CPU has taken is handled, or is the current one and some CPU is
\* about to register the current one.
VectorInv ==
  /\ allocated = 0 => sched_vector = 0
  /\ \A c \in CPU : pc[c] \in Started \cup {"register", "periodic"} => allocated # 0
  /\ allocated = 0 \/ sched_vector \in handled \/ Registering
  /\ N <= 3 \/ allocated <= 1 =>
       \A c \in CPU : pc[c] \in Started =>
         VectorOf(c) \in handled \/ (VectorOf(c) = sched_vector /\ Registering)

IInv == TypeOK /\ MainInv /\ LockInv /\ CountInv /\ LoadedInv /\ TssInv /\ VectorInv

-----------------------------------------------------------------------------
USE BootAssumption DEF CPU

\* main's order, as far as the proofs need it.
LEMMA OrderIs ==
  \A i \in 1 .. 14 : /\ (Order[i] = "gdt" <=> i = 3) /\ (Order[i] = "smp" <=> i = 10)
                     /\ (Order[i] = "shell" <=> i = 14)
<1> SUFFICES ASSUME NEW i \in 1 .. 14
             PROVE  /\ (Order[i] = "gdt" <=> i = 3) /\ (Order[i] = "smp" <=> i = 10)
                    /\ (Order[i] = "shell" <=> i = 14)
  OBVIOUS
<1>1. i \in {1, 2, 3, 4, 5, 6, 7, 8, 9, 10, 11, 12, 13, 14}
  OBVIOUS
<1> QED
  BY <1>1 DEF Order

-----------------------------------------------------------------------------
(* What a move of one CPU, from one step to the next, leaves as it is. *)

\* CPU c goes on to step s, and all others stay.
Moves(c, s) ==
  /\ pc'[c] = s /\ \A d \in CPU : d # c => pc'[d] = pc[d]

LEMMA MoveMain ==
  ASSUME TypeOK, MainInv, NEW c \in CPU, NEW s, Moves(c, s),
         bsp' = bsp, ready' = ready, turn' = turn, loop' = loop,
         IF c = bsp THEN BspMay(s) ELSE s \in ApSteps /\ pc[c] # "parked"
  PROVE  MainInv'
<1>1. bsp \in CPU
  BY DEF TypeOK
<1>2. CASE c = bsp
  <2>1. pc'[bsp] = s /\ \A d \in CPU \ {bsp} : pc'[d] = pc[d]
    BY <1>2 DEF Moves
  <2>2. BspMay(s)
    BY <1>2
  <2>3. BspMay(pc[bsp])'
    BY <2>1, <2>2 DEF BspMay
  <2> QED
    BY <2>1, <2>3 DEF MainInv
<1>3. CASE c # bsp
  <2>1. pc'[bsp] = pc[bsp] /\ pc'[c] = s /\ \A d \in CPU \ {bsp, c} : pc'[d] = pc[d]
    BY <1>3, <1>1 DEF Moves
  <2>2. s \in ApSteps /\ ~(c >= loop)
    BY <1>3 DEF MainInv
  <2>3. \A d \in CPU \ {bsp} : pc'[d] \in ApSteps
    BY <2>1, <2>2 DEF MainInv
  <2>4. \A d \in CPU \ {bsp} : d >= loop => pc'[d] = "parked"
    BY <2>1, <2>2 DEF MainInv
  <2>5. BspMay(pc[bsp])'
    BY <2>1 DEF MainInv, BspMay
  <2> QED
    BY <2>1, <2>3, <2>4, <2>5 DEF MainInv
<1> QED
  BY <1>2, <1>3

LEMMA MoveLock ==
  ASSUME TypeOK, LockInv, NEW c \in CPU, NEW s, Moves(c, s),
         ids' = ids, turn' = turn, cpu_lock' = cpu_lock, gdt_lock' = gdt_lock, gdtTss' = gdtTss,
         s \in InCpuInit /\ turn >= 10 => pc[c] \in InCpuInit,
         s \notin InReload
  PROVE  LockInv'
<1> SUFFICES ASSUME NEW d \in CPU
             PROVE  /\ pc'[d] \in InCpuInit /\ turn >= 10 => cpu_lock = d
                    /\ pc'[d] \in InReload => gdt_lock = d
                    /\ pc'[d] = "ltr" => gdtTss = ids[d]
  BY DEF LockInv
<1>1. CASE d = c
  BY <1>1 DEF Moves, LockInv, InReload
<1>2. CASE d # c
  BY <1>2 DEF Moves, LockInv
<1> QED
  BY <1>1, <1>2

LEMMA MoveCount ==
  ASSUME TypeOK, CountInv, NEW c \in CPU, NEW s, Moves(c, s),
         bsp' = bsp, turn' = turn, loop' = loop, cpusUp' = cpusUp,
         \A d \in CPU : d # c => read'[d] = read[d],
         HasCounted(c)' <=> HasCounted(c), s # "count", c = bsp => pc[bsp] # "taken"
  PROVE  CountInv'
<1>1. \A d \in CPU : HasCounted(d)' <=> HasCounted(d)
  <2> SUFFICES ASSUME NEW d \in CPU, d # c PROVE HasCounted(d)' <=> HasCounted(d)
    OBVIOUS
  <2> QED
    BY DEF HasCounted, Moves
<1>2. Counted' = Counted
  BY <1>1 DEF Counted
<1>3. bsp \in CPU
  BY DEF TypeOK
<1>4. \A d \in CPU : pc'[d] = "count" => read'[d] = cpusUp
  BY DEF CountInv, Moves
<1>5. pc'[bsp] # "taken" => pc[bsp] # "taken"
  BY <1>3 DEF Moves
<1> QED
  BY <1>2, <1>4, <1>5 DEF CountInv

LEMMA MoveLoaded ==
  ASSUME TypeOK, LoadedInv, NEW c \in CPU, NEW s, Moves(c, s),
         ids' = ids, bsp' = bsp, turn' = turn, loop' = loop,
         \A d \in CPU : cpu'[d].tr = cpu[d].tr /\ cpu'[d].gs = cpu[d].gs,
         c # bsp /\ s \in Behind \cup {"gs", "count", "cpu unlock"}
           => pc[c] \in Behind \cup {"gs", "count", "cpu unlock"},
         HasCounted(c)' \/ s = "count" => HasCounted(c) \/ pc[c] = "count"
  PROVE  LoadedInv'
<1> SUFFICES ASSUME NEW d \in CPU
             PROVE  /\ Reloaded(d)' => cpu[d].tr = ids[d]
                    /\ turn > 10 \/ HasCounted(d)' \/ pc'[d] = "count" => cpu[d].gs = d
  BY DEF LoadedInv, Reloaded
<1>1. CASE d = c
  BY <1>1 DEF Moves, LoadedInv, Reloaded
<1>2. CASE d # c
  BY <1>2 DEF Moves, LoadedInv, Reloaded, HasCounted
<1> QED
  BY <1>1, <1>2

LEMMA SameTss ==
  ASSUME TssInv, bsp' = bsp, turn' = turn, loop' = loop, tss' = tss, target_stack' = target_stack
  PROVE  TssInv'
BY DEF TssInv

LEMMA MoveVector ==
  ASSUME TypeOK, VectorInv, NEW c \in CPU, NEW s, Moves(c, s),
         bsp' = bsp, sched_vector' = sched_vector, allocated' = allocated, handled' = handled,
         \A d \in CPU : d # c => cpu'[d].timer = cpu[d].timer /\ read'[d] = read[d],
         s \notin {"register", "periodic"}, pc[c] # "register",
         s \in Started => pc[c] \in Started /\ VectorOf(c)' = VectorOf(c)
  PROVE  VectorInv'
<1>1. Registering' <=> Registering
  BY DEF Registering, Moves
<1>2. \A d \in CPU : pc'[d] \in Started \cup {"register", "periodic"} => allocated # 0
  BY DEF VectorInv, Moves
<1>3. ASSUME NEW d \in CPU, N <= 3 \/ allocated <= 1, pc'[d] \in Started
      PROVE  VectorOf(d)' \in handled \/ (VectorOf(d)' = sched_vector /\ Registering)
  <2>1. CASE d = c
    BY <1>3, <2>1 DEF VectorInv, Moves
  <2>2. CASE d # c
    <3>1. VectorOf(d)' = VectorOf(d) /\ pc[d] \in Started
      BY <1>3, <2>2 DEF VectorOf, Moves
    <3> QED
      BY <1>3, <3>1 DEF VectorInv
  <2> QED
    BY <2>1, <2>2
<1> QED
  BY <1>1, <1>2, <1>3 DEF VectorInv

-----------------------------------------------------------------------------
(* scheduler::init and the timers: behind cpu_init only VectorInv is at    *)
(* stake.                                                                  *)

LEMMA BehindKeeps ==
  ASSUME IInv, NEW c \in CPU, NEW s \in Behind, pc[c] \in Behind, Moves(c, s),
         ids' = ids, bsp' = bsp, ready' = ready, turn' = turn, loop' = loop,
         cpu_lock' = cpu_lock, gdt_lock' = gdt_lock, gdtTss' = gdtTss, tss' = tss, target_stack' = target_stack, cpusUp' = cpusUp,
         \A d \in CPU : d # c => read'[d] = read[d],
         \A d \in CPU : cpu'[d].tr = cpu[d].tr /\ cpu'[d].gs = cpu[d].gs,
         TypeOK', VectorInv'
  PROVE  IInv'
<1>1. TypeOK /\ MainInv /\ LockInv /\ CountInv /\ LoadedInv /\ TssInv
  BY DEF IInv
<1>2. c # bsp
  BY <1>1 DEF MainInv, BspMay, BspSteps, InCpuInit, Behind, Started
<1>3. s \notin InCpuInit /\ s \notin InReload /\ s # "count" /\ s \in ApSteps /\ pc[c] # "parked"
  BY DEF InCpuInit, InReload, Behind, Started, ApSteps
<1>4. HasCounted(c) /\ HasCounted(c)'
  BY <1>2 DEF HasCounted, Moves
<1>5. MainInv'
  BY <1>1, <1>2, <1>3, MoveMain
<1>6. LockInv'
  BY <1>1, <1>3, MoveLock
<1>7. CountInv'
  BY <1>1, <1>2, <1>3, <1>4, MoveCount
<1>8. LoadedInv'
  BY <1>1, <1>4, MoveLoaded
<1>9. TssInv'
  BY <1>1, SameTss
<1> QED
  BY <1>5, <1>6, <1>7, <1>8, <1>9 DEF IInv

LEMMA TestVectorKeeps ==
  ASSUME IInv, NEW c \in CPU, TestVector(c)
  PROVE  IInv'
<1> DEFINE s == IF sched_vector = 0 THEN "allocate" ELSE "periodic"
<1> USE DEF hardware, locks, tables, counters, timers
<1>1. s \in Behind /\ pc[c] \in Behind /\ pc[c] = "vector?"
  BY DEF TestVector, At, Behind
<1>2. Moves(c, s)
  BY DEF TestVector, Goto, Moves, IInv, TypeOK
<1>3. TypeOK'
  BY DEF TestVector, Goto, IInv, TypeOK, ApSteps, Behind
<1>4. VectorInv'
  <2>1. Registering' <=> Registering
    BY <1>1, <1>2 DEF Registering, Moves, TestVector
  <2>2. \A d \in CPU : pc'[d] \in Started => pc[d] \in Started /\ VectorOf(d)' = VectorOf(d)
    BY <1>2 DEF Moves, Started, VectorOf, TestVector
  <2>3. \A d \in CPU : pc'[d] \in Started \cup {"register", "periodic"} => allocated # 0
    BY <1>2 DEF Moves, Started, IInv, VectorInv
  <2> QED
    BY <2>1, <2>2, <2>3 DEF VectorInv, IInv, TestVector
<1> HIDE DEF s
<1> QED
  BY <1>1, <1>2, <1>3, <1>4, BehindKeeps DEF TestVector

LEMMA FourCpus ==
  ASSUME NEW b \in CPU, NEW c \in CPU, NEW d \in CPU, NEW e \in CPU,
         b # c, b # d, b # e, c # d, c # e, d # e
  PROVE  ~(N <= 3)
OBVIOUS

LEMMA AllocateVectorKeeps ==
  ASSUME IInv, NEW c \in CPU, AllocateVector(c)
  PROVE  IInv'
<1> USE DEF hardware, locks, tables, counters
<1>0. TypeOK /\ MainInv /\ VectorInv
  BY DEF IInv
<1>1. pc[c] = "allocate" /\ pc[c] \in Behind /\ "register" \in Behind
  BY DEF AllocateVector, At, Behind
<1>2. Moves(c, "register")
  BY DEF AllocateVector, Goto, Moves, IInv, TypeOK
<1>3. next_free \in Nat /\ allocated \in Nat
  BY <1>0 DEF TypeOK
<1>4. allocVector \in Nat
  BY <1>3 DEF allocVector, SYSCALL
<1>5. /\ next_free' = allocVector /\ sched_vector' = allocVector /\ handled' = handled /\ bsp' = bsp
      /\ allocated' = allocated + 1
  BY DEF AllocateVector
<1>n. allocated' \in Nat /\ allocated' # 0 /\ (allocated' <= 1 => allocated = 0)
  BY <1>3, <1>5
<1>6. TypeOK'
  <2>1. pc' \in [CPU -> BspSteps \cup ApSteps]
    BY <1>0 DEF AllocateVector, Goto, TypeOK, ApSteps, Behind
  <2> QED
    BY <2>1, <1>0, <1>4, <1>5, <1>n DEF AllocateVector, TypeOK
<1>7. c # bsp
  BY <1>0, <1>1 DEF MainInv, BspMay, BspSteps, InCpuInit
<1>8. Registering'
  BY <1>2, <1>5, <1>7 DEF Registering, Moves
<1>9. ASSUME NEW d \in CPU, N <= 3 \/ allocated' <= 1, pc'[d] \in Started
      PROVE  VectorOf(d)' \in handled
  <2>1. d # c /\ pc[d] \in Started
    BY <1>2, <1>9 DEF Moves, Started
  <2>2. VectorOf(d)' = VectorOf(d)
    BY <2>1, <1>2 DEF VectorOf, Moves, AllocateVector
  <2>3. allocated # 0
    BY <2>1, <1>0 DEF VectorInv
  <2>5. N <= 3
    BY <2>3, <1>n, <1>9
  <2>6. ~Registering
    <3> SUFFICES ASSUME NEW e \in CPU \ {bsp}, pc[e] = "register" PROVE FALSE
      BY DEF Registering
    <3>1. d # bsp /\ e # d /\ e # c
      BY <1>0, <1>1, <2>1 DEF MainInv, BspMay, BspSteps, InCpuInit, Started
    <3>2. bsp \in CPU /\ c # d /\ e # bsp
      BY <1>0, <2>1 DEF TypeOK
    <3> QED
      BY <3>1, <3>2, <1>7, <2>5, FourCpus
  <2> QED
    BY <2>1, <2>2, <2>5, <2>6, <1>0 DEF VectorInv
<1>10. VectorInv'
  BY <1>n, <1>8, <1>9, <1>5 DEF VectorInv
<1> QED
  BY <1>1, <1>2, <1>6, <1>10, BehindKeeps DEF AllocateVector

LEMMA RegisterVectorKeeps ==
  ASSUME IInv, NEW c \in CPU, RegisterVector(c)
  PROVE  IInv'
<1> USE DEF hardware, locks, tables, counters
<1>0. TypeOK /\ VectorInv
  BY DEF IInv
<1>1. pc[c] = "register" /\ pc[c] \in Behind /\ "periodic" \in Behind
  BY DEF RegisterVector, At, Behind
<1>2. Moves(c, "periodic")
  BY DEF RegisterVector, Goto, Moves, IInv, TypeOK
<1>3. handled' = handled \cup {sched_vector} /\ sched_vector' = sched_vector /\ allocated' = allocated
  BY DEF RegisterVector
<1>4. TypeOK'
  <2>1. pc' \in [CPU -> BspSteps \cup ApSteps]
    BY <1>0 DEF RegisterVector, Goto, TypeOK, ApSteps, Behind
  <2> QED
    BY <2>1, <1>0, <1>3 DEF RegisterVector, TypeOK
<1>5. \A d \in CPU : pc'[d] \in Started => pc[d] \in Started /\ VectorOf(d)' = VectorOf(d)
  BY <1>2 DEF Moves, Started, VectorOf, RegisterVector
<1>6. \A d \in CPU : pc'[d] \in Started \cup {"register", "periodic"} => allocated # 0
  BY <1>0, <1>1, <1>2 DEF Moves, Started, VectorInv
<1>7. VectorInv'
  BY <1>0, <1>3, <1>5, <1>6 DEF VectorInv
<1> QED
  BY <1>1, <1>2, <1>4, <1>7, BehindKeeps DEF RegisterVector

LEMMA PeriodicKeeps ==
  ASSUME IInv, NEW c \in CPU, Periodic(c)
  PROVE  IInv'
<1> USE DEF hardware, locks, tables, counters, timers
<1>0. TypeOK /\ VectorInv
  BY DEF IInv
<1>1. pc[c] = "periodic" /\ pc[c] \in Behind /\ "timer lock" \in Behind
  BY DEF Periodic, At, Behind, Started
<1>2. Moves(c, "timer lock")
  BY DEF Periodic, Goto, Moves, IInv, TypeOK
<1>3. read'[c] = sched_vector /\ \A d \in CPU : d # c => read'[d] = read[d]
  BY <1>0 DEF Periodic, TypeOK
<1>4. TypeOK'
  <2>1. pc' \in [CPU -> BspSteps \cup ApSteps] /\ read' \in [CPU -> Nat]
    BY <1>0 DEF Periodic, Goto, TypeOK, ApSteps, Behind, Started
  <2> QED
    BY <2>1, <1>0 DEF Periodic, TypeOK
<1>5. Registering' <=> Registering
  BY <1>1, <1>2 DEF Registering, Moves, Periodic
<1>6. \A d \in CPU : pc'[d] \in Started /\ d # c => pc[d] \in Started /\ VectorOf(d)' = VectorOf(d)
  BY <1>2, <1>3 DEF Moves, VectorOf, Periodic
<1>7. VectorOf(c)' = sched_vector
  BY <1>2, <1>3 DEF Moves, VectorOf
<1>8. \A d \in CPU : pc'[d] \in Started \cup {"register", "periodic"} => allocated # 0
  BY <1>0, <1>1, <1>2 DEF Moves, VectorInv
<1>9. allocated # 0
  BY <1>0, <1>1 DEF VectorInv
<1>10. VectorInv'
  <2>1. sched_vector' = sched_vector /\ allocated' = allocated /\ handled' = handled
    BY DEF Periodic
  <2>2. ASSUME NEW d \in CPU, N <= 3 \/ allocated <= 1, pc'[d] \in Started
        PROVE  VectorOf(d)' \in handled \/ (VectorOf(d)' = sched_vector /\ Registering)
    <3>1. CASE d = c
      BY <3>1, <1>0, <1>7, <1>9 DEF VectorInv
    <3>2. CASE d # c
      BY <3>2, <2>2, <1>0, <1>6 DEF VectorInv
    <3> QED
      BY <3>1, <3>2
  <2> QED
    BY <2>1, <2>2, <1>0, <1>5, <1>8 DEF VectorInv
<1> QED
  BY <1>1, <1>2, <1>3, <1>4, <1>10, BehindKeeps DEF Periodic

LEMMA TimerLockKeeps ==
  ASSUME IInv, NEW c \in CPU, TimerLock(c)
  PROVE  IInv'
<1> DEFINE s == IF tickCountInMS = 0 THEN "calibrate" ELSE "start timer"
<1> USE DEF hardware, tables, counters, timers
<1>0. TypeOK /\ VectorInv
  BY DEF IInv
<1>1. pc[c] = "timer lock" /\ pc[c] \in Behind /\ s \in Behind /\ s \in Started \ {"scheduling"} /\ pc[c] \in Started
  BY DEF TimerLock, At, Behind, Started
<1>2. Moves(c, s)
  BY DEF TimerLock, Goto, Moves, IInv, TypeOK
<1>3. TypeOK'
  BY <1>0 DEF TimerLock, Goto, TypeOK, ApSteps, Behind, Started
<1> HIDE DEF s
<1>4. VectorOf(c)' = VectorOf(c)
  BY <1>1, <1>2 DEF VectorOf, Moves, TimerLock
<1>5. s \notin {"register", "periodic"}
  BY <1>1 DEF Started
<1>6. VectorInv'
  BY <1>0, <1>1, <1>2, <1>4, <1>5, MoveVector DEF TimerLock
<1> QED
  BY <1>1, <1>2, <1>3, <1>6, BehindKeeps DEF TimerLock

LEMMA CalibrateKeeps ==
  ASSUME IInv, NEW c \in CPU, Calibrate(c)
  PROVE  IInv'
<1> USE DEF hardware, locks, tables, counters
<1>0. TypeOK /\ VectorInv
  BY DEF IInv
<1>1. /\ pc[c] = "calibrate" /\ pc[c] \in Behind /\ "start timer" \in Behind
      /\ "start timer" \in Started /\ pc[c] \in Started
  BY DEF Calibrate, At, Behind, Started
<1>2. Moves(c, "start timer")
  BY DEF Calibrate, Goto, Moves, IInv, TypeOK
<1>3. TypeOK'
  BY <1>0 DEF Calibrate, Goto, TypeOK, ApSteps, Behind, Started
<1>4. VectorOf(c)' = VectorOf(c)
  BY <1>1, <1>2 DEF VectorOf, Moves, Calibrate
<1>5. VectorInv'
  BY <1>0, <1>1, <1>2, <1>4, MoveVector DEF Calibrate
<1> QED
  BY <1>1, <1>2, <1>3, <1>5, BehindKeeps DEF Calibrate

LEMMA StartTimerKeeps ==
  ASSUME IInv, NEW c \in CPU, StartTimer(c)
  PROVE  IInv'
<1> USE DEF hardware, counters, timers
<1>0. TypeOK /\ VectorInv
  BY DEF IInv
<1>1. /\ pc[c] = "start timer" /\ pc[c] \in Behind /\ "scheduling" \in Behind
      /\ "scheduling" \in Started /\ pc[c] \in Started
  BY DEF StartTimer, At, Behind, Started
<1>2. Moves(c, "scheduling")
  BY DEF StartTimer, Goto, Moves, IInv, TypeOK
<1>3. cpu' = [cpu EXCEPT ![c].timer = read[c]] /\ read[c] \in Nat
  BY <1>0 DEF StartTimer, TypeOK
<1>4. /\ cpu' \in [CPU -> [tr : Nat \cup {None}, gs : CPU \cup {None}, up : BOOLEAN, timer : Nat]]
      /\ cpu'[c].timer = read[c]
      /\ \A d \in CPU : d # c => cpu'[d].timer = cpu[d].timer
      /\ \A d \in CPU : cpu'[d].tr = cpu[d].tr /\ cpu'[d].gs = cpu[d].gs
  <2> DEFINE Entry == [tr : Nat \cup {None}, gs : CPU \cup {None}, up : BOOLEAN, timer : Nat]
             new == [cpu[c] EXCEPT !.timer = read[c]]
  <2>1. cpu \in [CPU -> Entry]
    BY <1>0 DEF TypeOK
  <2>2. cpu[c] \in Entry
    BY <2>1
  <2>3. new \in Entry /\ new.timer = read[c] /\ new.tr = cpu[c].tr /\ new.gs = cpu[c].gs
    BY <2>2, <1>3
  <2>4. cpu' = [cpu EXCEPT ![c] = new]
    BY <1>3
  <2> HIDE DEF Entry, new
  <2>5. cpu' \in [CPU -> Entry] /\ cpu'[c] = new /\ \A d \in CPU : d # c => cpu'[d] = cpu[d]
    BY <2>1, <2>3, <2>4
  <2> QED
    BY <2>3, <2>5 DEF Entry
<1>5. TypeOK'
  <2>1. pc' \in [CPU -> BspSteps \cup ApSteps] /\ lapicTimerLock' \in CPU \cup {Free}
    BY <1>0 DEF StartTimer, Goto, TypeOK, ApSteps, Behind, Started
  <2> QED
    BY <2>1, <1>0, <1>4 DEF StartTimer, TypeOK
<1>6. VectorOf(c)' = VectorOf(c)
  BY <1>1, <1>2, <1>4 DEF VectorOf, Moves, StartTimer
<1>7. VectorInv'
  BY <1>0, <1>1, <1>2, <1>4, <1>6, MoveVector DEF StartTimer
<1> QED
  BY <1>1, <1>2, <1>4, <1>5, <1>7, BehindKeeps DEF StartTimer

-----------------------------------------------------------------------------
(* main on the boot CPU. *)

LEMMA InitHolds == Init => IInv
<1> SUFFICES ASSUME Init PROVE IInv
  OBVIOUS
<1>0. bsp \in CPU /\ 0 \in CPU
  BY DEF Init
<1>1. TypeOK
  <2>1. pc \in [CPU -> BspSteps \cup ApSteps]
    BY DEF Init, BspSteps, ApSteps
  <2>2. /\ tss \in [CPU -> [rsp : Nat, ist : Nat]]
        /\ cpu \in [CPU -> [tr : Nat \cup {None}, gs : CPU \cup {None}, up : BOOLEAN, timer : Nat]]
    BY DEF Init
  <2>3. found \in SUBSET Tables /\ ready = {}
    BY DEF Init
  <2>4. turn \in 1 .. 14 /\ loop \in 0 .. N /\ cpusUp \in Nat /\ read \in [CPU -> Nat]
    BY DEF Init
  <2>5. /\ sched_vector \in Nat /\ next_free \in Nat /\ allocated \in Nat /\ handled \in SUBSET Nat
        /\ tickCountInMS \in {0, 1} /\ isScheduling \in BOOLEAN /\ ids \in LapicIds
    BY DEF Init
  <2>6. /\ cpu_lock \in CPU \cup {Free} /\ gdt_lock \in CPU \cup {Free}
        /\ lapicTimerLock \in CPU \cup {Free} /\ gdtTss \in Nat \cup {None}
    BY DEF Init
  <2>7. target_stack \in [CPU -> Nat]
    BY DEF Init, Top, kernelStack
  <2> QED
    BY <2>1, <2>2, <2>3, <2>4, <2>5, <2>6, <2>7, <1>0 DEF TypeOK
<1>2. pc[bsp] = "_start" /\ \A c \in CPU \ {bsp} : pc[c] = "parked"
  BY <1>0 DEF Init
<1>3. turn = 1 /\ loop = 0 /\ ready = {} /\ \A c \in CPU : pc[c] \in {"_start", "parked"}
  BY <1>2 DEF Init
<1>4. MainInv
  <2>1. \A c \in CPU \ {bsp} : pc[c] \in ApSteps
    BY <1>2 DEF ApSteps
  <2>2. BspMay("_start")
    BY <1>3 DEF BspMay, BspSteps, InCpuInit, InReload
  <2> QED
    BY <1>2, <1>3, <2>1, <2>2 DEF MainInv
<1>5. LockInv
  BY <1>3 DEF LockInv, InCpuInit, InReload
<1>6. \A c \in CPU : ~HasCounted(c)
  BY <1>3 DEF HasCounted, Behind, Started
<1>7. CountInv
  <2>1. Counted = {}
    BY <1>6 DEF Counted
  <2> QED
    BY <2>1, <1>3, FS_EmptySet DEF Init, CountInv
<1>8. LoadedInv
  <2>1. \A c \in CPU : pc[c] \notin Behind \cup {"gs", "count", "cpu unlock"}
    BY <1>3 DEF Behind, Started
  <2>2. ~(turn > 3) /\ ~(turn > 10)
    BY <1>3
  <2> QED
    BY <2>1, <2>2, <1>6 DEF LoadedInv, Reloaded
<1>9. TssInv
  <2>1. target_stack[bsp] = Top(kernelStack) /\ ~(turn > 3) /\ \A i \in CPU : ~(i < loop)
    BY <1>0, <1>3 DEF Init
  <2> QED
    BY <2>1 DEF TssInv
<1>10. VectorInv
  BY <1>3 DEF Init, VectorInv, Started
<1> QED
  BY <1>1, <1>4, <1>5, <1>7, <1>8, <1>9, <1>10 DEF IInv

\* A step of main that touches no table, lock or counter.
LEMMA MainKeeps ==
  ASSUME IInv, NEW s \in BspSteps, Moves(bsp, s), BspMay(s),
         s \notin InCpuInit, pc[bsp] # "taken",
         s # "taken" => (HasCounted(bsp)' <=> HasCounted(bsp)),
         ids' = ids, bsp' = bsp, ready' = ready, turn' = turn, loop' = loop,
         cpu_lock' = cpu_lock, gdt_lock' = gdt_lock, gdtTss' = gdtTss, tss' = tss, target_stack' = target_stack, cpu' = cpu,
         cpusUp' = cpusUp, read' = read,
         sched_vector' = sched_vector, allocated' = allocated, handled' = handled, TypeOK'
  PROVE  IInv'
<1>1. TypeOK /\ MainInv /\ LockInv /\ CountInv /\ LoadedInv /\ TssInv /\ VectorInv /\ bsp \in CPU
  BY DEF IInv, TypeOK
<1>2. s \notin InReload /\ s # "count" /\ s \notin Started /\ s \notin {"register", "periodic"}
      /\ pc[bsp] # "register"
  BY <1>1 DEF InCpuInit, InReload, BspSteps, Started, MainInv, BspMay
<1>3. MainInv'
  BY <1>1, MoveMain
<1>4. LockInv'
  BY <1>1, <1>2, MoveLock
<1>5. CountInv'
  <2>1. CASE s = "taken"
    <3>1. pc'[bsp] = "taken" /\ \A d \in CPU : pc'[d] = "count" => pc[d] = "count"
      BY <2>1, <1>1 DEF Moves
    <3> QED
      BY <3>1, <1>1 DEF CountInv
  <2>2. CASE s # "taken"
    BY <2>2, <1>1, <1>2, MoveCount
  <2> QED
    BY <2>1, <2>2
<1>6. LoadedInv'
  <2>1. HasCounted(bsp)' => HasCounted(bsp)
    <3>1. CASE s = "taken"
      BY <3>1, <1>1 DEF HasCounted, Moves
    <3> QED
      BY <3>1
  <2> QED
    BY <2>1, <1>1, <1>2, MoveLoaded
<1>7. TssInv'
  BY <1>1, SameTss
<1>8. VectorInv'
  BY <1>1, <1>2, MoveVector
<1> QED
  BY <1>3, <1>4, <1>5, <1>6, <1>7, <1>8 DEF IInv

LEMMA StartKeeps ==
  ASSUME IInv, _start
  PROVE  IInv'
<1> USE DEF hardware, locks, tables, counters, timers
<1>1. TypeOK /\ MainInv /\ pc[bsp] = "_start" /\ bsp \in CPU
  BY DEF IInv, TypeOK, _start, At
<1>2. PICK s \in {"fault", "panic", "main"} : pc' = [pc EXCEPT ![bsp] = s]
  BY DEF _start, Goto
<1>3. Moves(bsp, s)
  BY <1>1, <1>2 DEF Moves, TypeOK
<1>4. s \in BspSteps /\ BspMay(s) /\ s \notin InCpuInit
  <2>1. turn # 10
    BY <1>1 DEF MainInv, BspMay
  <2> QED
    BY <2>1 DEF BspMay, BspSteps, InCpuInit, InReload
<1>5. ~HasCounted(bsp)' /\ ~HasCounted(bsp)
  BY <1>1, <1>3 DEF HasCounted, Moves, _start
<1>6. TypeOK'
  <2>1. pc' \in [CPU -> BspSteps \cup ApSteps]
    BY <1>1, <1>2, <1>4 DEF TypeOK
  <2> QED
    BY <2>1, <1>1 DEF TypeOK, _start
<1> QED
  BY <1>1, <1>3, <1>4, <1>5, <1>6, MainKeeps DEF _start

LEMMA InitFaultsKeeps ==
  ASSUME IInv, InitFaults
  PROVE  IInv'
<1> USE DEF hardware, locks, tables, counters, timers
<1>1. TypeOK /\ MainInv /\ pc[bsp] = "main" /\ bsp \in CPU
  BY DEF IInv, TypeOK, InitFaults, At
<1>2. Moves(bsp, "fault")
  BY <1>1 DEF Moves, TypeOK, InitFaults, Goto
<1>3. "fault" \in BspSteps /\ BspMay("fault") /\ "fault" \notin InCpuInit
  BY DEF BspMay, BspSteps, InCpuInit, InReload
<1>4. ~HasCounted(bsp)' /\ ~HasCounted(bsp)
  BY <1>1, <1>2 DEF HasCounted, Moves, InitFaults
<1>5. TypeOK'
  <2>1. pc' \in [CPU -> BspSteps \cup ApSteps]
    BY <1>1, <1>3 DEF TypeOK, InitFaults, Goto
  <2> QED
    BY <2>1, <1>1 DEF TypeOK, InitFaults
<1> QED
  BY <1>1, <1>2, <1>3, <1>4, <1>5, MainKeeps DEF InitFaults

LEMMA PitTickKeeps ==
  ASSUME IInv, PitTick
  PROVE  IInv'
<1> USE DEF hardware, locks, tables, counters, timers
<1>1. TypeOK /\ pc[bsp] # "taken" /\ bsp \in CPU
  BY DEF IInv, TypeOK, PitTick
<1>2. Moves(bsp, "taken")
  BY <1>1 DEF Moves, TypeOK, PitTick, Goto
<1>3. "taken" \in BspSteps /\ BspMay("taken") /\ "taken" \notin InCpuInit
  BY DEF BspMay, BspSteps, InCpuInit, InReload
<1>4. TypeOK'
  <2>1. pc' \in [CPU -> BspSteps \cup ApSteps]
    BY <1>1, <1>3 DEF TypeOK, PitTick, Goto
  <2> QED
    BY <2>1, <1>1 DEF TypeOK, PitTick
<1> QED
  BY <1>1, <1>2, <1>3, <1>4, MainKeeps DEF PitTick

LEMMA GdtInitKeeps ==
  ASSUME IInv, GdtInit
  PROVE  IInv'
<1> USE DEF hardware, locks, tables, counters, timers
<1>1. TypeOK /\ MainInv /\ LockInv /\ CountInv /\ LoadedInv /\ TssInv /\ VectorInv /\ bsp \in CPU
  BY DEF IInv, TypeOK
<1>2. pc[bsp] = "main" /\ turn = 3
  BY <1>1, OrderIs DEF GdtInit, At, TypeOK
<1>3. Moves(bsp, "gdt lock")
  BY <1>1 DEF Moves, TypeOK, GdtInit, Goto
<1>4. BspMay("gdt lock")
  <2>1. turn # 10 /\ turn \in {3, 10}
    BY <1>2
  <2> QED
    BY <2>1 DEF BspMay, BspSteps, InCpuInit
<1>5. ~HasCounted(bsp)' /\ ~HasCounted(bsp)
  BY <1>1, <1>2, <1>3 DEF HasCounted, Moves, GdtInit
<1>6. TypeOK'
  <2>1. pc' \in [CPU -> BspSteps \cup ApSteps]
    BY <1>1, <1>4 DEF TypeOK, GdtInit, Goto, BspMay
  <2> QED
    BY <2>1, <1>1 DEF TypeOK, GdtInit
<1>7. MainInv'
  BY <1>1, <1>3, <1>4, MoveMain DEF GdtInit
<1>8. LockInv'
  <2>1. ~(turn >= 10)
    BY <1>2
  <2> QED
    BY <2>1, <1>1, <1>3, MoveLock DEF GdtInit, InReload
<1>9. CountInv'
  BY <1>1, <1>2, <1>3, <1>5, MoveCount DEF GdtInit
<1>10. LoadedInv'
  BY <1>1, <1>3, <1>5, MoveLoaded DEF GdtInit
<1>11. TssInv'
  BY <1>1, SameTss DEF GdtInit
<1>12. VectorInv'
  BY <1>1, <1>2, <1>3, MoveVector DEF GdtInit, Started
<1> QED
  BY <1>6, <1>7, <1>8, <1>9, <1>10, <1>11, <1>12 DEF IInv

LEMMA SmpInitKeeps ==
  ASSUME IInv, SmpInit
  PROVE  IInv'
<1> USE DEF hardware, locks, tables, timers
<1>1. TypeOK /\ MainInv /\ bsp \in CPU
  BY DEF IInv, TypeOK
<1>2. pc[bsp] = "main" /\ turn = 10
  BY <1>1, OrderIs DEF SmpInit, At, TypeOK
<1>3. loop = 0 /\ loop' = loop
  BY <1>1, <1>2 DEF SmpInit, MainInv, BspMay
<1>4. Moves(bsp, "smp loop")
  BY <1>1 DEF Moves, TypeOK, SmpInit, Goto
<1>5. "smp loop" \in BspSteps /\ BspMay("smp loop") /\ "smp loop" \notin InCpuInit
  BY <1>2 DEF BspMay, BspSteps, InCpuInit, InReload
<1>6. ~HasCounted(bsp)
  BY <1>2 DEF HasCounted
<1>7. ~HasCounted(bsp)'
  <2>1. ~(loop > bsp)
    BY <1>1, <1>3
  <2> QED
    BY <2>1, <1>3, <1>4 DEF HasCounted, Moves, SmpInit
<1>8. TypeOK'
  <2>1. pc' \in [CPU -> BspSteps \cup ApSteps]
    BY <1>1, <1>5 DEF TypeOK, SmpInit, Goto
  <2> QED
    BY <2>1, <1>1, <1>3 DEF TypeOK, SmpInit
<1> QED
  BY <1>1, <1>2, <1>3, <1>4, <1>5, <1>6, <1>7, <1>8, MainKeeps DEF SmpInit

LEMMA ShellRunKeeps ==
  ASSUME IInv, ShellRun
  PROVE  IInv'
<1> USE DEF hardware, locks, tables, counters, timers
<1>1. TypeOK /\ MainInv /\ LockInv /\ CountInv /\ LoadedInv /\ TssInv /\ VectorInv /\ bsp \in CPU
  BY DEF IInv, TypeOK
<1>2. pc[bsp] = "main" /\ turn = 14 /\ Order[turn] = "shell"
  BY <1>1, OrderIs DEF ShellRun, At, TypeOK
<1>3. Moves(bsp, "shell")
  BY <1>1 DEF Moves, TypeOK, ShellRun, Goto
<1>4. BspMay("shell")
  BY DEF BspMay, BspSteps, InCpuInit, InReload
<1>5. ~HasCounted(bsp)' /\ ~HasCounted(bsp)
  BY <1>1, <1>2, <1>3 DEF HasCounted, Moves, ShellRun
<1>6. ("gdt" \in ready' <=> "gdt" \in ready) /\ ("smp" \in ready' <=> "smp" \in ready)
  BY DEF ShellRun
<1>7. TypeOK'
  <2>1. pc' \in [CPU -> BspSteps \cup ApSteps]
    BY <1>1, <1>4 DEF TypeOK, ShellRun, Goto, BspMay
  <2>2. ready' \in SUBSET { Order[i] : i \in 1 .. 14 }
    <3>1. Order[14] = "shell" /\ 14 \in 1 .. 14
      BY OrderIs
    <3>2. "shell" \in { Order[i] : i \in 1 .. 14 }
      BY <3>1
    <3>3. ready' = ready \cup {"shell"}
      BY DEF ShellRun
    <3> QED
      BY <3>2, <3>3, <1>1 DEF TypeOK
  <2> QED
    BY <2>1, <2>2, <1>1 DEF TypeOK, ShellRun
<1>8. MainInv'
  <2>1. BspMay(pc[bsp])'
    BY <1>3, <1>4 DEF BspMay, Moves, ShellRun
  <2>2. \A c \in CPU \ {bsp} : pc'[c] = pc[c]
    BY <1>3 DEF Moves
  <2> QED
    BY <2>1, <2>2, <1>1, <1>6 DEF MainInv, ShellRun
<1>9. LockInv'
  BY <1>1, <1>3, MoveLock DEF ShellRun, InReload, InCpuInit
<1>10. CountInv'
  BY <1>1, <1>2, <1>3, <1>5, MoveCount DEF ShellRun
<1>11. LoadedInv'
  BY <1>1, <1>3, <1>5, MoveLoaded DEF ShellRun
<1>12. TssInv'
  BY <1>1, SameTss DEF ShellRun
<1>13. VectorInv'
  BY <1>1, <1>2, <1>3, MoveVector DEF ShellRun, Started
<1> QED
  BY <1>7, <1>8, <1>9, <1>10, <1>11, <1>12, <1>13 DEF IInv

\* Before smp::init nobody but the boot CPU runs.
LEMMA AloneBefore ==
  ASSUME TypeOK, MainInv, ~(turn >= 10)
  PROVE  loop = 0 /\ \A c \in CPU \ {bsp} : pc[c] = "parked"
<1>1. turn < 10
  BY DEF TypeOK
<1>2. loop = 0
  BY <1>1 DEF MainInv
<1> QED
  BY <1>2 DEF MainInv

LEMMA InitComponentKeeps ==
  ASSUME IInv, InitComponent
  PROVE  IInv'
<1> USE DEF hardware, locks, tables, counters, timers
<1>1. TypeOK /\ MainInv /\ LockInv /\ CountInv /\ LoadedInv /\ TssInv /\ VectorInv /\ bsp \in CPU
  BY DEF IInv, TypeOK
<1>2. turn \in 1 .. 14 /\ turn # 3 /\ turn # 10 /\ turn # 14
  BY <1>1, OrderIs DEF InitComponent, TypeOK
<1>3. pc[bsp] = "main" /\ turn' = turn + 1 /\ pc' = pc /\ loop' = loop /\ bsp' = bsp
  BY DEF InitComponent, At
<1>4. ("gdt" \in ready' <=> "gdt" \in ready) /\ ("smp" \in ready' <=> "smp" \in ready)
  BY DEF InitComponent
<1>5. TypeOK'
  <2>1. ready' \in SUBSET { Order[i] : i \in 1 .. 14 }
    BY <1>1, <1>2 DEF TypeOK, InitComponent
  <2>2. turn' \in 1 .. 14
    BY <1>2, <1>3
  <2> QED
    BY <2>1, <2>2, <1>1 DEF TypeOK, InitComponent
<1>6. (turn' > 3 <=> turn > 3) /\ (turn' > 10 <=> turn > 10) /\ (turn' <= 10 <=> turn <= 10)
      /\ (turn' = 10 => turn < 10) /\ (turn' < 10 => turn < 10)
  BY <1>2, <1>3
<1>7. MainInv'
  <2>1. BspMay("main")'
    BY <1>1, <1>3, <1>6 DEF BspMay, MainInv, BspSteps, InCpuInit, InReload
  <2> QED
    BY <2>1, <1>1, <1>3, <1>4, <1>6 DEF MainInv
<1>8. LockInv'
  <2>1. \A c \in CPU : pc[c] \in InCpuInit => turn >= 10
    <3>1. ASSUME ~(turn >= 10), NEW c \in CPU PROVE pc[c] \notin InCpuInit
      BY <3>1, <1>1, <1>3, AloneBefore DEF InCpuInit
    <3> QED
      BY <3>1
  <2> QED
    BY <2>1, <1>1, <1>3 DEF LockInv, InitComponent
<1>9. \A c \in CPU : HasCounted(c)' <=> HasCounted(c)
  BY <1>3 DEF HasCounted
<1>10. CountInv'
  <2>1. Counted' = Counted
    BY <1>9 DEF Counted
  <2> QED
    BY <2>1, <1>1, <1>3, <1>6 DEF CountInv, InitComponent
<1>11. LoadedInv'
  BY <1>1, <1>3, <1>6, <1>9 DEF LoadedInv, Reloaded, InitComponent
<1>12. TssInv'
  BY <1>1, <1>6, <1>3 DEF TssInv, InitComponent
<1>13. VectorInv'
  BY <1>1, <1>3 DEF VectorInv, VectorOf, Registering, InitComponent
<1> QED
  BY <1>5, <1>7, <1>8, <1>10, <1>11, <1>12, <1>13 DEF IInv

LEMMA SmpLoopKeeps ==
  ASSUME IInv, SmpLoop
  PROVE  IInv'
<1> USE DEF hardware, locks, timers
<1>1. TypeOK /\ MainInv /\ LockInv /\ CountInv /\ LoadedInv /\ TssInv /\ VectorInv /\ bsp \in CPU
  BY DEF IInv, TypeOK
<1>2. /\ pc[bsp] = "smp loop" /\ bsp' = bsp /\ turn' = turn
      /\ ready' = ready /\ ids' = ids /\ cpu' = cpu /\ read' = read /\ cpusUp' = cpusUp
  BY DEF SmpLoop, At
<1>n. loop \in 0 .. N /\ loop < N /\ loop' = loop + 1
  BY <1>1 DEF SmpLoop, TypeOK
<1>3. loop \in CPU /\ turn = 10
  <2>1. loop \in CPU
    BY <1>n
  <2>2. turn = 10
    BY <1>1, <1>2 DEF MainInv, BspMay
  <2> QED
    BY <2>1, <2>2
<1>m. bsp \in CPU /\ loop \in CPU /\ loop' = loop + 1
  BY <1>1, <1>3, <1>n
<1>4. Moves(loop, "cpu lock")
  BY <1>1, <1>2, <1>3 DEF Moves, TypeOK, SmpLoop
<1>5. pc[loop] = IF loop = bsp THEN "smp loop" ELSE "parked"
  <2>1. loop >= loop
    BY <1>m
  <2> QED
    BY <2>1, <1>1, <1>2, <1>3 DEF MainInv
<1>6. /\ tss' \in [CPU -> [rsp : Nat, ist : Nat]]
      /\ tss'[loop].ist = Bottom(sched_stack(loop))
      /\ loop # bsp => tss'[loop].rsp = Bottom(stack(loop))
      /\ loop = bsp => tss'[loop].rsp = tss[loop].rsp
      /\ \A i \in CPU : i # loop => tss'[i] = tss[i]
  <2> DEFINE new == [[tss[loop] EXCEPT !.ist = Bottom(sched_stack(loop))] EXCEPT
                       !.rsp = IF loop = bsp THEN @ ELSE Bottom(stack(loop))]
  <2>1. tss \in [CPU -> [rsp : Nat, ist : Nat]] /\ tss[loop] \in [rsp : Nat, ist : Nat]
    BY <1>1, <1>3 DEF TypeOK
  <2>2. Bottom(sched_stack(loop)) \in Nat /\ Bottom(stack(loop)) \in Nat
    BY <1>3 DEF Bottom, sched_stack, stack
  <2>3. /\ new \in [rsp : Nat, ist : Nat] /\ new.ist = Bottom(sched_stack(loop))
        /\ loop # bsp => new.rsp = Bottom(stack(loop))
        /\ loop = bsp => new.rsp = tss[loop].rsp
    BY <2>1, <2>2
  <2>4. tss' = [tss EXCEPT ![loop] = new]
    BY <2>1, <1>3 DEF SmpLoop
  <2> HIDE DEF new
  <2>5. tss'[loop] = new /\ \A i \in CPU : i # loop => tss'[i] = tss[i]
    BY <2>1, <2>4, <1>3
  <2>6. tss' \in [CPU -> [rsp : Nat, ist : Nat]]
    BY <2>1, <2>3, <2>4
  <2> QED
    BY <2>3, <2>5, <2>6
<1>t. /\ target_stack' \in [CPU -> Nat]
      /\ loop # bsp => target_stack'[loop] = Top(stack(loop))
      /\ loop = bsp => target_stack'[loop] = target_stack[loop]
      /\ \A i \in CPU : i # loop => target_stack'[i] = target_stack[i]
  <2>1. target_stack \in [CPU -> Nat] /\ Top(stack(loop)) \in Nat
    BY <1>1, <1>3 DEF TypeOK, Top, stack
  <2>2. target_stack' = [target_stack EXCEPT ![loop] = IF loop = bsp THEN @ ELSE Top(stack(loop))]
    BY DEF SmpLoop
  <2> QED
    BY <2>1, <2>2, <1>3
<1>7. TypeOK'
  <2>1. pc' \in [CPU -> BspSteps \cup ApSteps]
    BY <1>1 DEF TypeOK, SmpLoop, ApSteps
  <2>2. loop' \in 0 .. N
    BY <1>m
  <2> QED
    BY <2>1, <2>2, <1>1, <1>6, <1>t DEF TypeOK, SmpLoop
<1>8. MainInv'
  <2>1. BspMay(pc[bsp])'
    <3>1. CASE loop = bsp
      <4>1. pc'[bsp] = "cpu lock" /\ loop' = bsp + 1
        BY <3>1, <1>m, <1>4 DEF Moves
      <4> QED
        BY <4>1, <1>2, <1>3 DEF BspMay, BspSteps, InReload
    <3>2. CASE loop # bsp
      <4>1. pc'[bsp] = "smp loop"
        BY <3>2, <1>1, <1>2, <1>4 DEF Moves
      <4> QED
        BY <4>1, <1>2, <1>3 DEF BspMay, BspSteps, InCpuInit, InReload
    <3> QED
      BY <3>1, <3>2
  <2>2. \A c \in CPU \ {bsp} : pc'[c] \in ApSteps
    BY <1>1, <1>4 DEF MainInv, Moves, ApSteps
  <2>3. \A c \in CPU \ {bsp} : c >= loop' => pc'[c] = "parked"
    <3> SUFFICES ASSUME NEW c \in CPU \ {bsp}, c >= loop' PROVE pc'[c] = "parked"
      OBVIOUS
    <3>1. c >= loop /\ c # loop
      BY <1>m
    <3> QED
      BY <3>1, <1>1, <1>4 DEF MainInv, Moves
  <2>4. ~(turn < 10) /\ ~(turn > 10)
    BY <1>3
  <2> QED
    BY <2>1, <2>2, <2>3, <2>4, <1>1, <1>2 DEF MainInv
<1>9. LockInv'
  BY <1>1, <1>3, <1>4, MoveLock DEF SmpLoop, InReload, InCpuInit
<1>10. \A c \in CPU : HasCounted(c)' <=> HasCounted(c)
  <2> SUFFICES ASSUME NEW c \in CPU PROVE HasCounted(c)' <=> HasCounted(c)
    OBVIOUS
  <2>1. CASE c = loop
    <3>1. ~HasCounted(c)'
      BY <2>1, <1>2, <1>4 DEF HasCounted, Moves, Behind, Started
    <3>2. ~HasCounted(c)
      <4>1. CASE loop = bsp
        <5>1. ~(loop > bsp)
          BY <4>1, <1>m
        <5>2. pc[c] = "smp loop"
          BY <4>1, <2>1, <1>5
        <5> QED
          BY <5>1, <5>2, <4>1, <2>1 DEF HasCounted
      <4>2. CASE loop # bsp
        BY <4>2, <2>1, <1>5 DEF HasCounted, Behind, Started
      <4> QED
        BY <4>1, <4>2
    <3> QED
      BY <3>1, <3>2
  <2>2. CASE c # loop /\ c = bsp
    <3>1. loop' > bsp <=> loop > bsp
      BY <2>2, <1>m
    <3> QED
      BY <2>2, <3>1, <1>2, <1>4 DEF HasCounted, Moves
  <2>3. CASE c # loop /\ c # bsp
    BY <2>3, <1>2, <1>4 DEF HasCounted, Moves
  <2> QED
    BY <2>1, <2>2, <2>3
<1>11. CountInv'
  <2>1. Counted' = Counted
    BY <1>10 DEF Counted
  <2>2. \A c \in CPU : pc'[c] = "count" => pc[c] = "count"
    BY <1>4 DEF Moves
  <2>3. pc[bsp] # "taken"
    BY <1>2
  <2> QED
    BY <2>1, <2>2, <2>3, <1>1, <1>2 DEF CountInv
<1>12. LoadedInv'
  <2> SUFFICES ASSUME NEW d \in CPU
               PROVE  /\ Reloaded(d)' => cpu[d].tr = ids[d]
                      /\ turn > 10 \/ HasCounted(d)' \/ pc'[d] = "count" => cpu[d].gs = d
    BY <1>2 DEF LoadedInv, Reloaded
  <2>1. pc'[d] \in Behind \cup {"gs", "count", "cpu unlock"} => pc'[d] = pc[d]
    BY <1>4 DEF Moves, Behind, Started
  <2> QED
    BY <2>1, <1>1, <1>2, <1>10 DEF LoadedInv, Reloaded
<1>13. TssInv'
  <2>1. \A i \in CPU : i < loop' => i < loop \/ i = loop
    BY <1>m
  <2>2. tss'[0].rsp = tss[0].rsp \/ bsp # 0
    BY <1>1, <1>3, <1>6
  <2> QED
    <3>1. target_stack'[bsp] = target_stack[bsp]
      BY <1>1, <1>t
    <3> QED
      BY <2>1, <2>2, <3>1, <1>1, <1>2, <1>6, <1>t DEF TssInv
<1>14. VectorInv'
  BY <1>1, <1>2, <1>3, <1>4, <1>5, MoveVector DEF SmpLoop, Started
<1> QED
  BY <1>7, <1>8, <1>9, <1>11, <1>12, <1>13, <1>14 DEF IInv

LEMMA SmpWaitKeeps ==
  ASSUME IInv, SmpWait
  PROVE  IInv'
<1> USE DEF hardware, locks, tables, counters, timers
<1>1. TypeOK /\ MainInv /\ LockInv /\ CountInv /\ LoadedInv /\ TssInv /\ VectorInv /\ bsp \in CPU
  BY DEF IInv, TypeOK
<1>2. pc[bsp] = "smp loop" /\ loop = N /\ bsp' = bsp /\ loop' = loop
  BY DEF SmpWait, At
<1>3. turn = 10 /\ turn' = 11
  <2>1. turn = 10
    BY <1>1, <1>2 DEF MainInv, BspMay
  <2>2. turn' = turn + 1
    BY DEF SmpWait
  <2> QED
    BY <2>1, <2>2
<1>4. Moves(bsp, "main")
  BY <1>1 DEF Moves, TypeOK, SmpWait, Goto
<1>5. Counted = CPU
  <2>1. Counted \in SUBSET CPU
    BY DEF Counted
  <2>2. IsFiniteSet(CPU) /\ Cardinality(CPU) = N
    BY FS_Interval
  <2>3. cpusUp = Cardinality(Counted)
    <3>1. turn <= 10
      BY <1>3
    <3>2. pc[bsp] # "taken"
      BY <1>2
    <3> QED
      BY <3>1, <3>2, <1>1 DEF CountInv
  <2>4. Cardinality(Counted) <= Cardinality(CPU) /\ (Cardinality(CPU) = Cardinality(Counted) => CPU = Counted)
    BY <2>1, <2>2, FS_Subset
  <2>5. cpusUp \in Nat /\ cpusUp >= N
    BY <1>1 DEF TypeOK, SmpWait
  <2>6. cpusUp = N
    BY <2>2, <2>3, <2>4, <2>5
  <2> QED
    BY <2>2, <2>3, <2>4, <2>6
<1>6. \A c \in CPU : HasCounted(c)
  BY <1>5 DEF Counted
<1>7. TypeOK'
  <2>1. pc' \in [CPU -> BspSteps \cup ApSteps]
    BY <1>1 DEF TypeOK, SmpWait, Goto, BspSteps
  <2>2. ready' \in SUBSET { Order[i] : i \in 1 .. 14 }
    <3>1. Order[10] = "smp" /\ 10 \in 1 .. 14
      BY OrderIs
    <3> QED
      BY <3>1, <1>1 DEF TypeOK, SmpWait
  <2>3. turn' \in 1 .. 14
    BY <1>3
  <2> QED
    BY <2>1, <2>2, <2>3, <1>1 DEF TypeOK, SmpWait
<1>8. MainInv'
  <2>1. BspMay(pc[bsp])'
    <3>1. turn' # 10 /\ pc'[bsp] = "main"
      BY <1>3, <1>4 DEF Moves
    <3> QED
      BY <3>1, <1>2 DEF BspMay, BspSteps, InCpuInit, InReload
  <2>2. \A c \in CPU \ {bsp} : pc'[c] = pc[c]
    BY <1>4 DEF Moves
  <2>3. "gdt" \in ready' /\ "smp" \in ready'
    <3>1. turn > 3
      BY <1>3
    <3> QED
      BY <3>1, <1>1 DEF MainInv, SmpWait
  <2>4. turn' > 3 /\ turn' > 10 /\ ~(turn' < 10)
    BY <1>3
  <2> QED
    BY <2>1, <2>2, <2>3, <2>4, <1>1, <1>2 DEF MainInv
<1>9. LockInv'
  <2>1. \A c \in CPU : pc'[c] = pc[c] \/ pc'[c] = "main"
    BY <1>4 DEF Moves
  <2>2. turn >= 10
    BY <1>3
  <2> QED
    BY <2>1, <2>2, <1>1 DEF LockInv, SmpWait, InCpuInit, InReload
<1>10. CountInv'
  <2>1. ~(turn' <= 10)
    BY <1>3
  <2>2. \A c \in CPU : pc'[c] = "count" => pc[c] = "count"
    BY <1>4 DEF Moves
  <2> QED
    BY <2>1, <2>2, <1>1 DEF CountInv, SmpWait
<1>11. LoadedInv'
  <2>1. \A c \in CPU : cpu[c].tr = ids[c] /\ cpu[c].gs = c
    <3>1. turn > 3
      BY <1>3
    <3>2. \A c \in CPU : c # bsp => pc[c] \in Behind \cup {"cpu unlock"}
      BY <1>6 DEF HasCounted
    <3>3. \A c \in CPU : cpu[c].tr = ids[c]
      <4> SUFFICES ASSUME NEW c \in CPU PROVE cpu[c].tr = ids[c]
        OBVIOUS
      <4>1. CASE c = bsp
        BY <4>1, <3>1, <1>1 DEF LoadedInv, Reloaded
      <4>2. CASE c # bsp
        BY <4>2, <3>2, <1>1 DEF LoadedInv, Reloaded
      <4> QED
        BY <4>1, <4>2
    <3>4. \A c \in CPU : cpu[c].gs = c
      BY <1>1, <1>6 DEF LoadedInv, Reloaded
    <3> QED
      BY <3>3, <3>4
  <2> QED
    BY <2>1 DEF LoadedInv, Reloaded, SmpWait
<1>12. TssInv'
  <2>1. turn > 3
    BY <1>3
  <2> QED
    BY <2>1, <1>1 DEF TssInv, SmpWait
<1>13. VectorInv'
  BY <1>1, <1>2, <1>4, MoveVector DEF SmpWait, Started
<1> QED
  BY <1>7, <1>8, <1>9, <1>10, <1>11, <1>12, <1>13 DEF IInv

-----------------------------------------------------------------------------
(* cpu_init, on the boot CPU out of smp::init's loop and on every other    *)
(* CPU; and reloadAll, which gdt::init calls as well.                      *)

\* A CPU in cpu_init is there because of smp::init.
LEMMA NotFree == \A d \in CPU : d # Free
BY DEF Free

StartedBySmp(c) ==
  IF c = bsp THEN pc[c] \in {"cpu lock", "gs", "count", "cpu unlock"} ELSE pc[c] # "parked"

LEMMA InSmp ==
  ASSUME TypeOK, MainInv, NEW c \in CPU, StartedBySmp(c)
  PROVE  turn >= 10 /\ (c = bsp => turn = 10)
<1>1. CASE c = bsp
  <2>1. turn = 10
    BY <1>1 DEF MainInv, BspMay, StartedBySmp
  <2>2. turn >= 10
    BY <2>1
  <2> QED
    BY <2>1, <2>2
<1>2. CASE c # bsp
  BY <1>2, AloneBefore DEF StartedBySmp
<1> QED
  BY <1>1, <1>2

LEMMA CpuLockKeeps ==
  ASSUME IInv, NEW c \in CPU, CpuLock(c)
  PROVE  IInv'
<1> USE DEF hardware, tables, counters, timers
<1>1. TypeOK /\ MainInv /\ LockInv /\ CountInv /\ LoadedInv /\ TssInv /\ VectorInv /\ bsp \in CPU
  BY DEF IInv, TypeOK
<1>2. pc[c] = "cpu lock"
  BY DEF CpuLock, At
<1>3. Moves(c, "gdt lock")
  BY <1>1 DEF Moves, TypeOK, CpuLock, Goto
<1>4. TypeOK'
  <2>1. pc' \in [CPU -> BspSteps \cup ApSteps]
    BY <1>1 DEF TypeOK, CpuLock, Goto, ApSteps, InCpuInit
  <2> QED
    BY <2>1, <1>1 DEF TypeOK, CpuLock
<1>5. MainInv'
  <2>1. c = bsp => BspMay("gdt lock")
    <3> SUFFICES ASSUME c = bsp PROVE BspMay("gdt lock")
      OBVIOUS
    <3>1. turn = 10 /\ loop = bsp + 1
      BY <1>1, <1>2 DEF MainInv, BspMay
    <3> QED
      BY <3>1 DEF BspMay, BspSteps, InCpuInit
  <2>2. "gdt lock" \in ApSteps
    BY DEF ApSteps, InCpuInit
  <2> QED
    BY <2>1, <2>2, <1>1, <1>2, <1>3, MoveMain DEF CpuLock
<1>6. LockInv'
  <2>1. \A d \in CPU : ~(pc[d] \in InCpuInit /\ turn >= 10)
    <3>1. \A d \in CPU : cpu_lock # d
      BY NotFree DEF CpuLock
    <3> QED
      BY <3>1, <1>1 DEF LockInv
  <2>2. cpu_lock' = c /\ gdt_lock' = gdt_lock /\ gdtTss' = gdtTss /\ ids' = ids /\ turn' = turn
    BY DEF CpuLock
  <2> SUFFICES ASSUME NEW d \in CPU
               PROVE  /\ pc'[d] \in InCpuInit /\ turn >= 10 => c = d
                      /\ pc'[d] \in InReload => gdt_lock = d
                      /\ pc'[d] = "ltr" => gdtTss = ids[d]
    BY <2>2 DEF LockInv
  <2>3. CASE d = c
    BY <2>3, <1>3 DEF Moves, InReload
  <2>4. CASE d # c
    BY <2>4, <2>1, <1>1, <1>3 DEF Moves, LockInv
  <2> QED
    BY <2>3, <2>4
<1>7. ~HasCounted(c)' /\ ~HasCounted(c)
  BY <1>1, <1>2, <1>3 DEF HasCounted, Moves, CpuLock, Behind, Started
<1>8. CountInv'
  BY <1>1, <1>2, <1>3, <1>7, MoveCount DEF CpuLock
<1>9. LoadedInv'
  BY <1>1, <1>2, <1>3, <1>7, MoveLoaded DEF CpuLock, Behind, Started
<1>10. TssInv'
  BY <1>1, SameTss DEF CpuLock
<1>11. VectorInv'
  BY <1>1, <1>2, <1>3, MoveVector DEF CpuLock, Started
<1> QED
  BY <1>4, <1>5, <1>6, <1>8, <1>9, <1>10, <1>11 DEF IInv

LEMMA GdtLockKeeps ==
  ASSUME IInv, NEW c \in CPU, GdtLock(c)
  PROVE  IInv'
<1> USE DEF hardware, tables, counters, timers
<1>1. TypeOK /\ MainInv /\ LockInv /\ CountInv /\ LoadedInv /\ TssInv /\ VectorInv /\ bsp \in CPU
  BY DEF IInv, TypeOK
<1>2. pc[c] = "gdt lock"
  BY DEF GdtLock, At
<1>3. Moves(c, "descriptor")
  BY <1>1 DEF Moves, TypeOK, GdtLock, Goto
<1>4. TypeOK'
  <2>1. pc' \in [CPU -> BspSteps \cup ApSteps]
    BY <1>1 DEF TypeOK, GdtLock, Goto, ApSteps, InCpuInit
  <2> QED
    BY <2>1, <1>1 DEF TypeOK, GdtLock
<1>5. MainInv'
  <2>1. c = bsp => BspMay("descriptor")
    BY <1>1, <1>2 DEF MainInv, BspMay, BspSteps, InCpuInit, InReload
  <2>2. "descriptor" \in ApSteps
    BY DEF ApSteps, InCpuInit
  <2> QED
    BY <2>1, <2>2, <1>1, <1>2, <1>3, MoveMain DEF GdtLock
<1>6. LockInv'
  <2>1. \A d \in CPU : pc[d] \notin InReload
    <3>1. \A d \in CPU : gdt_lock # d
      BY NotFree DEF GdtLock
    <3> QED
      BY <3>1, <1>1 DEF LockInv
  <2>2. gdt_lock' = c /\ cpu_lock' = cpu_lock /\ gdtTss' = gdtTss /\ ids' = ids /\ turn' = turn
    BY DEF GdtLock
  <2> SUFFICES ASSUME NEW d \in CPU
               PROVE  /\ pc'[d] \in InCpuInit /\ turn >= 10 => cpu_lock = d
                      /\ pc'[d] \in InReload => c = d
                      /\ pc'[d] = "ltr" => gdtTss = ids[d]
    BY <2>2 DEF LockInv
  <2>3. CASE d = c
    BY <2>3, <1>1, <1>2, <1>3 DEF Moves, InCpuInit, LockInv
  <2>4. CASE d # c
    BY <2>4, <2>1, <1>1, <1>3 DEF Moves, LockInv, InReload
  <2> QED
    BY <2>3, <2>4
<1>7. ~HasCounted(c)' /\ ~HasCounted(c)
  BY <1>1, <1>2, <1>3 DEF HasCounted, Moves, GdtLock, Behind, Started
<1>8. CountInv'
  BY <1>1, <1>2, <1>3, <1>7, MoveCount DEF GdtLock
<1>9. LoadedInv'
  BY <1>1, <1>2, <1>3, <1>7, MoveLoaded DEF GdtLock, Behind, Started
<1>10. TssInv'
  BY <1>1, SameTss DEF GdtLock
<1>11. VectorInv'
  BY <1>1, <1>2, <1>3, MoveVector DEF GdtLock, Started
<1> QED
  BY <1>4, <1>5, <1>6, <1>8, <1>9, <1>10, <1>11 DEF IInv

LEMMA DescriptorKeeps ==
  ASSUME IInv, NEW c \in CPU, Descriptor(c)
  PROVE  IInv'
<1> USE DEF hardware, locks, counters, timers
<1>1. TypeOK /\ MainInv /\ LockInv /\ CountInv /\ LoadedInv /\ TssInv /\ VectorInv /\ bsp \in CPU
  BY DEF IInv, TypeOK
<1>2. pc[c] = "descriptor"
  BY DEF Descriptor, At
<1>3. Moves(c, "ltr")
  BY <1>1 DEF Moves, TypeOK, Descriptor, Goto
<1>4. TypeOK'
  <2>1. pc' \in [CPU -> BspSteps \cup ApSteps]
    BY <1>1 DEF TypeOK, Descriptor, Goto, ApSteps, InCpuInit
  <2>2. gdtTss' \in Nat \cup {None}
    <3>1. ids \in [CPU -> Nat]
      BY <1>1 DEF TypeOK
    <3> QED
      BY <3>1 DEF Descriptor
  <2> QED
    BY <2>1, <2>2, <1>1 DEF TypeOK, Descriptor
<1>5. MainInv'
  <2>1. c = bsp => BspMay("ltr")
    BY <1>1, <1>2 DEF MainInv, BspMay, BspSteps, InCpuInit, InReload
  <2>2. "ltr" \in ApSteps
    BY DEF ApSteps, InCpuInit
  <2> QED
    BY <2>1, <2>2, <1>1, <1>2, <1>3, MoveMain DEF Descriptor
<1>6. LockInv'
  <2>1. \A d \in CPU : d # c => pc[d] \notin InReload
    BY <1>1, <1>2 DEF LockInv, InReload
  <2>2. gdt_lock' = gdt_lock /\ cpu_lock' = cpu_lock /\ gdtTss' = ids[c] /\ ids' = ids /\ turn' = turn
    BY DEF Descriptor
  <2> SUFFICES ASSUME NEW d \in CPU
               PROVE  /\ pc'[d] \in InCpuInit /\ turn >= 10 => cpu_lock = d
                      /\ pc'[d] \in InReload => gdt_lock = d
                      /\ pc'[d] = "ltr" => ids[c] = ids[d]
    BY <2>2 DEF LockInv
  <2>3. CASE d = c
    BY <2>3, <1>1, <1>2, <1>3 DEF Moves, InCpuInit, InReload, LockInv
  <2>4. CASE d # c
    BY <2>4, <2>1, <1>1, <1>3 DEF Moves, LockInv, InReload
  <2> QED
    BY <2>3, <2>4
<1>7. ~HasCounted(c)' /\ ~HasCounted(c)
  BY <1>1, <1>2, <1>3 DEF HasCounted, Moves, Descriptor, Behind, Started
<1>8. CountInv'
  BY <1>1, <1>2, <1>3, <1>7, MoveCount DEF Descriptor
<1>9. LoadedInv'
  BY <1>1, <1>2, <1>3, <1>7, MoveLoaded DEF Descriptor, Behind, Started
<1>10. TssInv'
  BY <1>1, SameTss DEF Descriptor
<1>11. VectorInv'
  BY <1>1, <1>2, <1>3, MoveVector DEF Descriptor, Started
<1> QED
  BY <1>4, <1>5, <1>6, <1>8, <1>9, <1>10, <1>11 DEF IInv

LEMMA LoadTssKeeps ==
  ASSUME IInv, NEW c \in CPU, LoadTss(c)
  PROVE  IInv'
<1> USE DEF hardware, counters, timers
<1>1. TypeOK /\ MainInv /\ LockInv /\ CountInv /\ LoadedInv /\ TssInv /\ VectorInv /\ bsp \in CPU
  BY DEF IInv, TypeOK
<1>2. pc[c] = "ltr" /\ bsp' = bsp /\ ids' = ids /\ loop' = loop /\ read' = read /\ cpusUp' = cpusUp
      /\ target_stack' = target_stack
  BY DEF LoadTss, At
<1>3. gdtTss = ids[c] /\ gdtTss' = gdtTss /\ gdt_lock' = Free /\ cpu_lock' = cpu_lock
  BY <1>1, <1>2 DEF LockInv, LoadTss
<1>4. /\ cpu' \in [CPU -> [tr : Nat \cup {None}, gs : CPU \cup {None}, up : BOOLEAN, timer : Nat]]
      /\ cpu'[c].tr = ids[c]
      /\ \A d \in CPU : d # c => cpu'[d].tr = cpu[d].tr
      /\ \A d \in CPU : cpu'[d].gs = cpu[d].gs /\ cpu'[d].timer = cpu[d].timer
  <2> DEFINE Entry == [tr : Nat \cup {None}, gs : CPU \cup {None}, up : BOOLEAN, timer : Nat]
             new == [cpu[c] EXCEPT !.tr = gdtTss]
  <2>1. cpu \in [CPU -> Entry] /\ gdtTss \in Nat \cup {None}
    BY <1>1 DEF TypeOK
  <2>2. cpu[c] \in Entry
    BY <2>1
  <2>3. new \in Entry /\ new.tr = gdtTss /\ new.gs = cpu[c].gs /\ new.timer = cpu[c].timer
    BY <2>1, <2>2
  <2>4. cpu' = [cpu EXCEPT ![c] = new]
    BY DEF LoadTss
  <2> HIDE DEF Entry, new
  <2>5. cpu' \in [CPU -> Entry] /\ cpu'[c] = new /\ \A d \in CPU : d # c => cpu'[d] = cpu[d]
    BY <2>1, <2>3, <2>4
  <2> QED
    BY <2>3, <2>5, <1>3 DEF Entry
<1>5. \A d \in CPU : d # c => pc[d] \notin InReload
  BY <1>1, <1>2 DEF LockInv, InReload
<1>6. CASE "gdt" \in ready
  <2>1. Moves(c, "gs") /\ tss' = tss /\ ready' = ready /\ turn' = turn
    BY <1>1, <1>6 DEF Moves, TypeOK, LoadTss, Goto
  <2>2. TypeOK'
    <3>1. pc' \in [CPU -> BspSteps \cup ApSteps]
      BY <1>1, <1>6 DEF TypeOK, LoadTss, Goto, ApSteps, InCpuInit
    <3> QED
      BY <3>1, <2>1, <1>1, <1>3, <1>4 DEF TypeOK, LoadTss
  <2>3. turn > 3
    BY <1>1, <1>6 DEF MainInv
  <2>4. c = bsp => turn = 10 /\ loop = bsp + 1
    <3> SUFFICES ASSUME c = bsp PROVE turn = 10 /\ loop = bsp + 1
      OBVIOUS
    <3>1. turn \in {3, 10}
      BY <1>1, <1>2 DEF MainInv, BspMay, InReload
    <3>2. turn = 10
      BY <2>3, <3>1
    <3> QED
      BY <3>2, <1>1, <1>2 DEF MainInv, BspMay, InCpuInit
  <2>5. MainInv'
    <3>1. c = bsp => BspMay("gs")
      BY <2>4 DEF BspMay, BspSteps, InCpuInit, InReload
    <3>2. "gs" \in ApSteps
      BY DEF ApSteps, InCpuInit
    <3> QED
      BY <3>1, <3>2, <2>1, <1>1, <1>2, MoveMain
  <2>6. LockInv'
    <3> SUFFICES ASSUME NEW d \in CPU
                 PROVE  /\ pc'[d] \in InCpuInit /\ turn >= 10 => cpu_lock = d
                        /\ pc'[d] \notin InReload
      BY <2>1, <1>3, <1>2 DEF LockInv, InReload
    <3>1. CASE d = c
      BY <3>1, <2>1, <1>1, <1>2 DEF Moves, InCpuInit, InReload, LockInv
    <3>2. CASE d # c
      BY <3>2, <2>1, <1>1, <1>5 DEF Moves, LockInv
    <3> QED
      BY <3>1, <3>2
  <2>7. ~HasCounted(c)' /\ ~HasCounted(c)
    BY <2>1, <1>2 DEF HasCounted, Moves, Behind, Started
  <2>8. CountInv'
    BY <2>1, <2>7, <1>1, <1>2, MoveCount
  <2>9. LoadedInv'
    <3> SUFFICES ASSUME NEW d \in CPU
                 PROVE  /\ Reloaded(d)' => cpu'[d].tr = ids[d]
                        /\ turn > 10 \/ HasCounted(d)' \/ pc'[d] = "count" => cpu[d].gs = d
      BY <2>1, <1>2, <1>4 DEF LoadedInv
    <3>1. CASE d = c
      BY <3>1, <2>1, <2>7, <1>1, <1>4 DEF Moves, LoadedInv
    <3>2. CASE d # c
      <4>1. pc'[d] = pc[d] /\ turn' = turn /\ loop' = loop /\ bsp' = bsp
        BY <3>2, <2>1, <1>2 DEF Moves
      <4>2. (Reloaded(d)' <=> Reloaded(d)) /\ (HasCounted(d)' <=> HasCounted(d))
        BY <4>1, Zenon DEF Reloaded, HasCounted
      <4>3. cpu'[d].tr = cpu[d].tr
        BY <3>2, <1>4
      <4>4. /\ Reloaded(d) => cpu[d].tr = ids[d]
            /\ turn > 10 \/ HasCounted(d) \/ pc[d] = "count" => cpu[d].gs = d
        BY <1>1 DEF LoadedInv
      <4> QED
        BY <4>1, <4>2, <4>3, <4>4, Zenon
    <3> QED
      BY <3>1, <3>2
  <2>10. TssInv'
    BY <2>1, <1>1, <1>2, SameTss
  <2>11. VectorInv'
    BY <2>1, <1>1, <1>2, <1>4, MoveVector DEF LoadTss, Started
  <2> QED
    BY <2>2, <2>5, <2>6, <2>8, <2>9, <2>10, <2>11 DEF IInv
<1>7. CASE "gdt" \notin ready
  <2>1. ~(turn > 3)
    BY <1>1, <1>7 DEF MainInv
  <2>2. ~(turn >= 10)
    BY <2>1, <1>1 DEF TypeOK
  <2>3. loop = 0 /\ \A d \in CPU \ {bsp} : pc[d] = "parked"
    BY <2>2, <1>1, AloneBefore
  <2>4. c = bsp
    BY <2>3, <1>2
  <2>5. turn = 3
    <3>1. turn \in {3, 10}
      BY <2>4, <1>1, <1>2 DEF MainInv, BspMay, InReload
    <3> QED
      BY <3>1, <2>2
  <2>6. turn' = 4
    <3>1. turn' = turn + 1
      BY <1>7 DEF LoadTss
    <3> QED
      BY <3>1, <2>5
  <2>7. Moves(bsp, "main") /\ ready' = ready \cup {"gdt"}
    BY <2>4, <1>1, <1>7 DEF Moves, TypeOK, LoadTss, Goto
  <2>8. pc'[bsp] = "main" /\ \A d \in CPU \ {bsp} : pc'[d] = "parked"
    BY <2>7, <2>3 DEF Moves
  <2>9. 0 \in CPU /\ tss' = [tss EXCEPT ![0].rsp = Bottom(kernelStack)]
    BY <1>7 DEF LoadTss
  <2>10. tss' \in [CPU -> [rsp : Nat, ist : Nat]] /\ tss'[0].rsp = Bottom(kernelStack)
    <3> DEFINE new == [tss[0] EXCEPT !.rsp = Bottom(kernelStack)]
    <3>1. tss \in [CPU -> [rsp : Nat, ist : Nat]] /\ tss[0] \in [rsp : Nat, ist : Nat]
      BY <2>9, <1>1 DEF TypeOK
    <3>2. new \in [rsp : Nat, ist : Nat] /\ new.rsp = Bottom(kernelStack)
      BY <3>1 DEF Bottom, kernelStack
    <3>3. tss' = [tss EXCEPT ![0] = new]
      BY <2>9
    <3> HIDE DEF new
    <3>4. tss'[0] = new
      BY <3>1, <3>3, <2>9
    <3>5. tss' \in [CPU -> [rsp : Nat, ist : Nat]]
      BY <3>1, <3>2, <3>3
    <3> QED
      BY <3>2, <3>4, <3>5
  <2>11. TypeOK'
    <3>1. pc' \in [CPU -> BspSteps \cup ApSteps]
      BY <1>1, <1>7 DEF TypeOK, LoadTss, Goto, BspSteps
    <3>2. ready' \in SUBSET { Order[i] : i \in 1 .. 14 }
      <4>1. Order[3] = "gdt" /\ 3 \in 1 .. 14
        BY OrderIs
      <4>2. "gdt" \in { Order[i] : i \in 1 .. 14 }
        BY <4>1
      <4> QED
        BY <4>2, <2>7, <1>1 DEF TypeOK
    <3>3. turn' \in 1 .. 14
      BY <2>6
    <3> QED
      BY <3>1, <3>2, <3>3, <2>10, <1>1, <1>3, <1>4 DEF TypeOK, LoadTss
  <2>12. turn' > 3 /\ ~(turn' > 10) /\ ~(turn' >= 10) /\ ~(turn > 10) /\ turn' # 10
    BY <2>5, <2>6
  <2>13. MainInv'
    <3>1. BspMay("main")'
      BY <2>12 DEF BspMay, BspSteps, InCpuInit, InReload
    <3>2. "parked" \in ApSteps
      BY DEF ApSteps
    <3>3. "gdt" \in ready' /\ "smp" \notin ready'
      BY <2>7, <2>12, <1>1 DEF MainInv
    <3> QED
      BY <3>1, <3>2, <3>3, <2>3, <2>8, <2>12, <1>2 DEF MainInv
  <2>14. \A d \in CPU : pc'[d] \in {"main", "parked"}
    BY <2>8
  <2>15. LockInv'
    BY <2>14 DEF LockInv, InCpuInit, InReload
  <2>16. \A d \in CPU : ~HasCounted(d)' /\ ~HasCounted(d)
    <3>1. \A d \in CPU : ~HasCounted(d)'
      BY <2>14 DEF HasCounted, Behind, Started
    <3>2. \A d \in CPU : pc[d] \in {"ltr", "parked"}
      BY <2>3, <2>4, <1>2
    <3>3. \A d \in CPU : ~HasCounted(d)
      BY <3>2 DEF HasCounted, Behind, Started
    <3> QED
      BY <3>1, <3>3
  <2>17. CountInv'
    <3>1. Counted' = Counted
      BY <2>16 DEF Counted
    <3>2. pc[bsp] # "taken"
      BY <2>4, <1>2
    <3>3. turn <= 10
      BY <2>5
    <3>4. cpusUp = Cardinality(Counted)
      BY <3>2, <3>3, <1>1 DEF CountInv
    <3> QED
      BY <3>1, <3>4, <2>14, <1>2 DEF CountInv
  <2>18. LoadedInv'
    <3>1. \A d \in CPU : Reloaded(d)' => d = bsp
      BY <2>14, <2>12, <1>2 DEF Reloaded, Behind, Started
    <3>2. cpu'[bsp].tr = ids[bsp]
      BY <2>4, <1>4
    <3> QED
      BY <3>1, <3>2, <2>12, <2>14, <2>16, <1>2 DEF LoadedInv
  <2>19. TssInv'
    <3>1. \A i \in CPU : ~(i < loop)
      BY <2>3
    <3> QED
      BY <3>1, <2>10, <1>1, <1>2 DEF TssInv
  <2>20. VectorInv'
    BY <2>4, <2>7, <1>1, <1>2, <1>4, MoveVector DEF LoadTss, Started
  <2> QED
    BY <2>11, <2>13, <2>15, <2>17, <2>18, <2>19, <2>20 DEF IInv
<1> QED
  BY <1>6, <1>7

LEMMA CpuInitKeeps ==
  ASSUME IInv, NEW c \in CPU, CpuInit(c)
  PROVE  IInv'
<1> USE DEF hardware, locks, timers
<1>1. TypeOK /\ MainInv /\ LockInv /\ CountInv /\ LoadedInv /\ TssInv /\ VectorInv /\ bsp \in CPU
  BY DEF IInv, TypeOK
<1>2. pc[c] = "gs" /\ bsp' = bsp /\ ids' = ids /\ loop' = loop /\ turn' = turn /\ cpusUp' = cpusUp
  BY DEF CpuInit, At
<1>3. Moves(c, "count")
  BY <1>1 DEF Moves, TypeOK, CpuInit, Goto
<1>4. /\ cpu' \in [CPU -> [tr : Nat \cup {None}, gs : CPU \cup {None}, up : BOOLEAN, timer : Nat]]
      /\ cpu'[c].gs = c
      /\ \A d \in CPU : d # c => cpu'[d].gs = cpu[d].gs
      /\ \A d \in CPU : cpu'[d].tr = cpu[d].tr /\ cpu'[d].timer = cpu[d].timer
  <2> DEFINE Entry == [tr : Nat \cup {None}, gs : CPU \cup {None}, up : BOOLEAN, timer : Nat]
             new == [[cpu[c] EXCEPT !.gs = c] EXCEPT !.up = TRUE]
  <2>1. cpu \in [CPU -> Entry]
    BY <1>1 DEF TypeOK
  <2>2. cpu[c] \in Entry
    BY <2>1
  <2>3. new \in Entry /\ new.gs = c /\ new.tr = cpu[c].tr /\ new.timer = cpu[c].timer
    BY <2>2
  <2>4. cpu' = [cpu EXCEPT ![c] = new]
    BY <2>1 DEF CpuInit
  <2> HIDE DEF Entry, new
  <2>5. cpu' \in [CPU -> Entry] /\ cpu'[c] = new /\ \A d \in CPU : d # c => cpu'[d] = cpu[d]
    BY <2>1, <2>3, <2>4
  <2> QED
    BY <2>3, <2>5 DEF Entry
<1>5. read' \in [CPU -> Nat] /\ read'[c] = cpusUp /\ \A d \in CPU : d # c => read'[d] = read[d]
  BY <1>1 DEF TypeOK, CpuInit
<1>6. TypeOK'
  <2>1. pc' \in [CPU -> BspSteps \cup ApSteps]
    BY <1>1 DEF TypeOK, CpuInit, Goto, ApSteps, InCpuInit
  <2> QED
    BY <2>1, <1>1, <1>4, <1>5 DEF TypeOK, CpuInit
<1>7. MainInv'
  <2>1. c = bsp => BspMay("count")
    BY <1>1, <1>2 DEF MainInv, BspMay, BspSteps, InCpuInit, InReload
  <2>2. "count" \in ApSteps
    BY DEF ApSteps, InCpuInit
  <2> QED
    BY <2>1, <2>2, <1>1, <1>2, <1>3, MoveMain DEF CpuInit
<1>8. LockInv'
  BY <1>1, <1>2, <1>3, MoveLock DEF CpuInit, InReload, InCpuInit
<1>9. \A d \in CPU : HasCounted(d)' <=> HasCounted(d)
  BY <1>2, <1>3 DEF HasCounted, Moves, Behind, Started
<1>10. CountInv'
  <2>1. Counted' = Counted
    BY <1>9 DEF Counted
  <2>2. pc'[bsp] # "taken" => pc[bsp] # "taken"
    BY <1>1, <1>2, <1>3 DEF Moves
  <2>3. \A d \in CPU : pc'[d] = "count" => read'[d] = cpusUp
    BY <1>1, <1>3, <1>5 DEF Moves, CountInv
  <2> QED
    BY <2>1, <2>2, <2>3, <1>1, <1>2 DEF CountInv
<1>11. LoadedInv'
  <2> SUFFICES ASSUME NEW d \in CPU
               PROVE  /\ Reloaded(d)' => cpu[d].tr = ids[d]
                      /\ turn > 10 \/ HasCounted(d)' \/ pc'[d] = "count" => cpu'[d].gs = d
    BY <1>2, <1>4 DEF LoadedInv
  <2>1. CASE d = c
    BY <2>1, <1>1, <1>2, <1>3, <1>4 DEF Moves, LoadedInv, Reloaded
  <2>2. CASE d # c
    BY <2>2, <1>1, <1>2, <1>3, <1>4, <1>9 DEF Moves, LoadedInv, Reloaded
  <2> QED
    BY <2>1, <2>2
<1>12. TssInv'
  BY <1>1, SameTss DEF CpuInit
<1>13. VectorInv'
  BY <1>1, <1>2, <1>3, <1>4, <1>5, MoveVector DEF CpuInit, Started
<1> QED
  BY <1>6, <1>7, <1>8, <1>10, <1>11, <1>12, <1>13 DEF IInv

\* cpusUp++ is two steps; cpu_lock keeps two CPUs from both reading the same
\* value.
LEMMA CountKeeps ==
  ASSUME IInv, NEW c \in CPU, Count(c)
  PROVE  IInv'
<1> USE DEF hardware, locks, tables, timers
<1>1. TypeOK /\ MainInv /\ LockInv /\ CountInv /\ LoadedInv /\ TssInv /\ VectorInv /\ bsp \in CPU
  BY DEF IInv, TypeOK
<1>2. pc[c] = "count" /\ bsp' = bsp /\ ids' = ids /\ loop' = loop /\ turn' = turn /\ read' = read /\ cpu' = cpu
  BY DEF Count, At
<1>3. Moves(c, "cpu unlock")
  BY <1>1 DEF Moves, TypeOK, Count, Goto
<1>4. cpusUp \in Nat /\ read[c] = cpusUp /\ cpusUp' = cpusUp + 1
  <2>1. cpusUp \in Nat
    BY <1>1 DEF TypeOK
  <2>2. read[c] = cpusUp
    BY <1>1, <1>2 DEF CountInv
  <2>3. cpusUp' = read[c] + 1
    BY DEF Count
  <2> QED
    BY <2>1, <2>2, <2>3
<1>5. TypeOK'
  <2>1. pc' \in [CPU -> BspSteps \cup ApSteps]
    BY <1>1 DEF TypeOK, Count, Goto, ApSteps, InCpuInit
  <2>2. cpusUp' \in Nat
    BY <1>4
  <2> QED
    BY <2>1, <2>2, <1>1 DEF TypeOK, Count
<1>6. MainInv'
  <2>1. c = bsp => BspMay("cpu unlock")
    BY <1>1, <1>2 DEF MainInv, BspMay, BspSteps, InCpuInit, InReload
  <2>2. "cpu unlock" \in ApSteps
    BY DEF ApSteps, InCpuInit
  <2> QED
    BY <2>1, <2>2, <1>1, <1>2, <1>3, MoveMain DEF Count
<1>7. LockInv'
  BY <1>1, <1>2, <1>3, MoveLock DEF Count, InReload, InCpuInit
<1>8. HasCounted(c)' /\ ~HasCounted(c) /\ \A d \in CPU : d # c => (HasCounted(d)' <=> HasCounted(d))
  <2>1. HasCounted(c)'
    BY <1>3 DEF HasCounted, Moves
  <2>2. ~HasCounted(c)
    BY <1>2 DEF HasCounted, Behind, Started
  <2>3. \A d \in CPU : d # c => (HasCounted(d)' <=> HasCounted(d))
    BY <1>2, <1>3 DEF HasCounted, Moves
  <2> QED
    BY <2>1, <2>2, <2>3
<1>9. \A d \in CPU : pc'[d] # "count"
  <2> SUFFICES ASSUME NEW d \in CPU, d # c, pc[d] = "count" PROVE FALSE
    BY <1>3 DEF Moves
  <2>1. StartedBySmp(c)
    BY <1>2 DEF StartedBySmp
  <2>2. turn >= 10
    BY <2>1, <1>1, InSmp
  <2> QED
    BY <2>2, <1>1, <1>2 DEF LockInv, InCpuInit
<1>10. CountInv'
  <2>1. Counted' = Counted \cup {c} /\ c \notin Counted
    BY <1>8 DEF Counted
  <2>2. IsFiniteSet(CPU) /\ Counted \in SUBSET CPU
    BY FS_Interval DEF Counted
  <2>3. IsFiniteSet(Counted)
    BY <2>2, FS_Subset
  <2>4. Cardinality(Counted') = Cardinality(Counted) + 1
    BY <2>1, <2>3, FS_AddElement
  <2>5. pc[bsp] # "taken"  \/ pc'[bsp] = "taken"
    BY <1>1, <1>2, <1>3 DEF Moves
  <2>6. turn <= 10 /\ pc'[bsp] # "taken" => cpusUp' = Cardinality(Counted')
    BY <2>4, <2>5, <1>1, <1>4 DEF CountInv
  <2> QED
    BY <2>6, <1>2, <1>9 DEF CountInv
<1>11. LoadedInv'
  <2> SUFFICES ASSUME NEW d \in CPU
               PROVE  /\ Reloaded(d)' => cpu[d].tr = ids[d]
                      /\ turn > 10 \/ HasCounted(d)' \/ pc'[d] = "count" => cpu[d].gs = d
    BY <1>2 DEF LoadedInv
  <2>1. CASE d = c
    BY <2>1, <1>1, <1>2, <1>3 DEF Moves, LoadedInv, Reloaded
  <2>2. CASE d # c
    BY <2>2, <1>1, <1>2, <1>3, <1>8 DEF Moves, LoadedInv, Reloaded
  <2> QED
    BY <2>1, <2>2
<1>12. TssInv'
  BY <1>1, SameTss DEF Count
<1>13. VectorInv'
  BY <1>1, <1>2, <1>3, MoveVector DEF Count, Started
<1> QED
  BY <1>5, <1>6, <1>7, <1>10, <1>11, <1>12, <1>13 DEF IInv

LEMMA CpuUnlockKeeps ==
  ASSUME IInv, NEW c \in CPU, CpuUnlock(c)
  PROVE  IInv'
<1> USE DEF hardware, tables, counters
<1>1. TypeOK /\ MainInv /\ LockInv /\ CountInv /\ LoadedInv /\ TssInv /\ VectorInv /\ bsp \in CPU
  BY DEF IInv, TypeOK
<1>2. pc[c] = "cpu unlock" /\ bsp' = bsp /\ ids' = ids /\ loop' = loop /\ turn' = turn
  BY DEF CpuUnlock, At
<1> DEFINE s == IF c = bsp THEN "smp loop" ELSE IF "apic" \in ready THEN "vector?" ELSE "halted"
<1>3. Moves(c, s)
  BY <1>1 DEF Moves, TypeOK, CpuUnlock, Goto
<1>4. s \in BspSteps \cup ApSteps /\ (c = bsp => s = "smp loop") /\ (c # bsp => s \in {"vector?", "halted"})
  BY DEF BspSteps, ApSteps, Behind
<1>5. TypeOK'
  <2>1. pc' \in [CPU -> BspSteps \cup ApSteps]
    BY <1>1, <1>4 DEF TypeOK, CpuUnlock, Goto
  <2>2. cpu_lock' \in CPU \cup {Free} /\ isScheduling' \in BOOLEAN
    BY DEF CpuUnlock
  <2> QED
    BY <2>1, <2>2, <1>1 DEF TypeOK, CpuUnlock
<1> HIDE DEF s
<1>6. StartedBySmp(c)
  BY <1>2 DEF StartedBySmp
<1>7. turn >= 10 /\ (c = bsp => turn = 10)
  BY <1>1, <1>6, InSmp
<1>8. MainInv'
  <2>1. c = bsp => BspMay("smp loop")
    BY <1>7 DEF BspMay, BspSteps, InCpuInit, InReload
  <2>2. c # bsp => s \in ApSteps
    BY <1>4 DEF ApSteps, Behind
  <2> QED
    BY <2>1, <2>2, <1>1, <1>2, <1>3, <1>4, MoveMain DEF CpuUnlock
<1>9. s \notin InCpuInit /\ s \notin InReload /\ s # "count" /\ s \notin Started /\ s \notin {"register", "periodic"}
  BY <1>4 DEF InCpuInit, InReload, Started
<1>10. LockInv'
  <2>1. \A d \in CPU : d # c => pc[d] \notin InCpuInit
    BY <1>1, <1>2, <1>7 DEF LockInv, InCpuInit
  <2>2. \A d \in CPU : pc'[d] \notin InCpuInit
    BY <2>1, <1>3, <1>9 DEF Moves
  <2> QED
    BY <2>2 DEF LockInv, InCpuInit, InReload
<1>11. HasCounted(c)' /\ HasCounted(c)
  <2>1. CASE c = bsp
    <3>1. loop = bsp + 1
      BY <2>1, <1>1, <1>2, <1>7 DEF MainInv, BspMay, InCpuInit
    <3>2. loop > bsp
      BY <3>1, <1>1
    <3> QED
      BY <2>1, <3>2, <1>2, <1>3, <1>4 DEF HasCounted, Moves
  <2>2. CASE c # bsp
    BY <2>2, <1>2, <1>3, <1>4 DEF HasCounted, Moves, Behind
  <2> QED
    BY <2>1, <2>2
<1>12. CountInv'
  BY <1>1, <1>2, <1>3, <1>9, <1>11, MoveCount DEF CpuUnlock
<1>13. LoadedInv'
  BY <1>1, <1>2, <1>3, <1>11, MoveLoaded DEF CpuUnlock
<1>14. TssInv'
  BY <1>1, SameTss DEF CpuUnlock
<1>15. VectorInv'
  BY <1>1, <1>2, <1>3, <1>9, MoveVector DEF CpuUnlock
<1> QED
  BY <1>5, <1>8, <1>10, <1>12, <1>13, <1>14, <1>15 DEF IInv

-----------------------------------------------------------------------------
LEMMA StutterKeeps ==
  ASSUME IInv, UNCHANGED vars
  PROVE  IInv'
<1> USE DEF vars, hardware, locks, tables, counters, timers
<1>1. Counted' = Counted
  BY DEF Counted, HasCounted
<1>2. TypeOK' /\ LockInv'
  BY DEF IInv, TypeOK, LockInv
<1>3. MainInv'
  BY DEF IInv, MainInv, BspMay
<1>4. CountInv'
  BY <1>1 DEF IInv, CountInv
<1>5. LoadedInv' /\ TssInv'
  BY DEF IInv, LoadedInv, Reloaded, HasCounted, TssInv
<1>6. VectorInv'
  BY DEF IInv, VectorInv, VectorOf, Registering
<1> QED
  BY <1>2, <1>3, <1>4, <1>5, <1>6 DEF IInv

LEMMA NextKeeps ==
  ASSUME IInv, [Next]_vars
  PROVE  IInv'
<1>1. CASE Main
  BY <1>1, StartKeeps, InitComponentKeeps, InitFaultsKeeps, GdtInitKeeps, SmpInitKeeps, SmpLoopKeeps, SmpWaitKeeps,
     ShellRunKeeps DEF Main
<1>2. CASE PitTick
  BY <1>2, PitTickKeeps
<1>3. ASSUME NEW c \in CPU, Cpu(c) PROVE IInv'
  BY <1>3, CpuLockKeeps, GdtLockKeeps, DescriptorKeeps, LoadTssKeeps, CpuInitKeeps, CountKeeps,
     CpuUnlockKeeps, TestVectorKeeps, AllocateVectorKeeps, RegisterVectorKeeps, PeriodicKeeps,
     TimerLockKeeps, CalibrateKeeps, StartTimerKeeps DEF Cpu
<1>4. CASE UNCHANGED vars
  BY <1>4, StutterKeeps
<1> QED
  BY <1>1, <1>2, <1>3, <1>4 DEF Next

(***************************************************************************)
(* Where main and the CPUs are, who holds cpu_lock and gdt_lock, what they *)
(* have loaded and which vectors they took fit together, always.           *)
(***************************************************************************)
THEOREM BootInvariance == Spec => []IInv
BY InitHolds, NextKeeps, PTL DEF Spec

(***************************************************************************)
(* No increment of cpusUp is lost: while the boot CPU waits in smp::init,  *)
(* cpusUp is the number of CPUs that have run cpu_init.                    *)
(***************************************************************************)
AllCounted ==
  pc[bsp] = "smp loop" => cpusUp = Cardinality(Counted)

THEOREM NoCountLost == Spec => []AllCounted
<1>1. IInv => AllCounted
  <2>0. SUFFICES ASSUME IInv, pc[bsp] = "smp loop" PROVE cpusUp = Cardinality(Counted)
    BY DEF AllCounted
  <2>1. turn = 10 /\ CountInv
    BY <2>0 DEF IInv, MainInv, BspMay
  <2>2. turn <= 10
    BY <2>1
  <2>3. pc[bsp] # "taken"
    BY <2>0
  <2> QED
    BY <2>1, <2>2, <2>3 DEF CountInv
<1> QED
  BY <1>1, BootInvariance, PTL

(***************************************************************************)
(* CpusConfigured, for any number of CPUs and any LAPIC IDs: after         *)
(* smp::init each CPU has its own TSS and cpu_t and runs at the top of its *)
(* own stack, no two TSSs of the array hold the same address for an        *)
(* interrupt, and the timers' vectors are handled as CpusConfigured says.  *)
(***************************************************************************)
THEOREM EveryCpuConfigured == Spec => []CpusConfigured
<1>1. IInv => CpusConfigured
  <2> SUFFICES ASSUME IInv PROVE CpusConfigured
    OBVIOUS
  <2>1. TypeOK /\ MainInv /\ LoadedInv /\ TssInv /\ VectorInv /\ bsp \in CPU /\ ids \in LapicIds
    BY DEF IInv, TypeOK
  <2>2. ids \in [CPU -> Nat] /\ \A c, d \in CPU : ids[c] = ids[d] => c = d
    BY <2>1
  <2>3. ASSUME "smp" \in ready
        PROVE  /\ Distinct([c \in CPU |-> cpu[c].tr], CPU) /\ Distinct([c \in CPU |-> cpu[c].gs], CPU)
               /\ Distinct(target_stack, CPU) /\ \A c \in CPU : IsTop(target_stack[c])
               /\ Distinct([c \in InArray |-> tss[cpu[c].tr].ist], InArray)
               /\ \A c \in InArray : tss[cpu[c].tr].ist # 0
               /\ bsp = 0 => Distinct([c \in CPU |-> tss[c].rsp], CPU)
    <3>1. turn > 10 /\ loop = N
      BY <2>1, <2>3 DEF MainInv
    <3>2. turn > 3
      BY <3>1, <2>1 DEF TypeOK
    <3>3. \A c \in CPU : cpu[c].tr = ids[c] /\ cpu[c].gs = c
      BY <2>1, <3>1 DEF LoadedInv, Reloaded
    <3>4. \A c \in CPU : c < loop
      BY <3>1
    <3>5. \A c \in CPU : /\ tss[c].ist = 2 * (2 * c + 2)
                         /\ c # bsp => tss[c].rsp = 2 * (2 * c + 3)
                         /\ target_stack[c] = IF c = bsp THEN 3 ELSE 2 * (2 * c + 3) + 1
      BY <2>1, <3>4 DEF TssInv, Bottom, Top, sched_stack, stack, kernelStack
    <3>6. Distinct([c \in CPU |-> cpu[c].tr], CPU) /\ Distinct([c \in CPU |-> cpu[c].gs], CPU)
      BY <2>2, <3>3 DEF Distinct
    <3>7. Distinct(target_stack, CPU) /\ \A c \in CPU : IsTop(target_stack[c])
      <4>1. \A c, d \in CPU : target_stack[c] = target_stack[d] => c = d
        BY <3>5
      <4>2. \A c \in CPU : target_stack[c] % 2 = 1
        BY <3>5
      <4> QED
        BY <4>1, <4>2 DEF Distinct, IsTop
    <3>8. ASSUME NEW c \in InArray PROVE ids[c] \in CPU /\ tss[cpu[c].tr].ist = 2 * (2 * ids[c] + 2)
      <4>1. c \in CPU /\ ids[c] \in CPU
        BY <2>2, <3>8 DEF InArray
      <4> QED
        BY <4>1, <3>3, <3>5
    <3>9. /\ \A c, d \in InArray : tss[cpu[c].tr].ist = tss[cpu[d].tr].ist => c = d
          /\ \A c \in InArray : tss[cpu[c].tr].ist # 0
      <4>1. ASSUME NEW c \in InArray, NEW d \in InArray, tss[cpu[c].tr].ist = tss[cpu[d].tr].ist PROVE c = d
        <5>1. ids[c] \in CPU /\ ids[d] \in CPU /\ 2 * (2 * ids[c] + 2) = 2 * (2 * ids[d] + 2)
          BY <3>8, <4>1
        <5>2. ids[c] = ids[d]
          BY <5>1
        <5> QED
          BY <5>2, <2>2 DEF InArray
      <4>2. ASSUME NEW c \in InArray PROVE tss[cpu[c].tr].ist # 0
        <5>1. ids[c] \in CPU /\ tss[cpu[c].tr].ist = 2 * (2 * ids[c] + 2)
          BY <3>8
        <5>2. 2 * (2 * ids[c] + 2) # 0
          BY <5>1
        <5> QED
          BY <5>1, <5>2
      <4> QED
        BY <4>1, <4>2
    <3>10. ASSUME bsp = 0 PROVE Distinct([c \in CPU |-> tss[c].rsp], CPU)
      <4>1. \A c \in CPU : tss[c].rsp = IF c = 0 THEN 2 ELSE 2 * (2 * c + 3)
        BY <3>2, <3>5, <3>10, <2>1 DEF TssInv, Bottom, kernelStack
      <4>2. \A c, d \in CPU : tss[c].rsp = tss[d].rsp => c = d
        BY <4>1
      <4> QED
        BY <4>2 DEF Distinct
    <3> QED
      BY <3>6, <3>7, <3>9, <3>10 DEF Distinct
  <2>4. ASSUME \A c \in CPU \ {bsp} : At(c, "scheduling"), N <= 3 \/ allocated = 1
        PROVE  \A c \in CPU \ {bsp} : cpu[c].timer \in handled
    <3> SUFFICES ASSUME NEW c \in CPU \ {bsp} PROVE cpu[c].timer \in handled
      OBVIOUS
    <3>1. pc[c] = "scheduling" /\ pc[c] \in Started
      BY <2>4 DEF At, Started
    <3>2. ~Registering
      BY <2>4 DEF At, Registering
    <3>3. N <= 3 \/ allocated <= 1
      BY <2>4
    <3> QED
      BY <3>1, <3>2, <3>3, <2>1 DEF VectorInv, VectorOf
  <2> QED
    BY <2>3, <2>4 DEF CpusConfigured
<1> QED
  BY <1>1, BootInvariance, PTL

=============================================================================
