-------------------------- MODULE SchedulerProofs ---------------------------
(***************************************************************************)
(* Theorems about Scheduler for any number of CPUs, threads and processes. *)
(* The first part is about threads that call what the kernel calls:        *)
(* createProc and createThread (apps/turboShell.cpp lines 48 and 49 are    *)
(* the only callers of the scheduler's operations).  The second part is    *)
(* about threads that also block, unblock and exit.                        *)
(***************************************************************************)
EXTENDS Scheduler, WellFoundedInduction, SequenceTheorems, TLAPS

\* No thread blocks, unblocks or exits.
OnlyCreate == Ops \subseteq {"createThread", "createProc"}

-----------------------------------------------------------------------------
(* The inductive invariant. *)

\* switchTask between its lock and its unlock.
InSwitch == {"first", "next", "nofree", "idle", "commit"}

LockInv ==
  \A c \in Cpus : pc[c] \in InSwitch => sched_lock /\ \A d \in Cpus : pc[d] \in InSwitch => d = c

\* Nothing is blocked or killed.
LiveInv ==
  /\ \A t \in Threads : tstate[t] \in {"INITIAL", "READY", "RUNNING"}
  /\ \A p \in Procs : pstate[p] \in {"INITIAL", "READY"}

\* A process has a thread from its allocation on, and only its own, also in the
\* slots behind the length, which a push that lost its race left there.
VecInv ==
  /\ \A p \in Procs :
       /\ p \in palloc => threadsVec[p].length > 0
       /\ \A i \in DOMAIN threadsVec[p].data : threadsVec[p].data[i] \in talloc /\ parent[threadsVec[p].data[i]] = p
  /\ \A t \in talloc : parent[t] \in palloc \cup {NoProc}

IsIdle(p) == \E c \in Cpus : idleP[c] = p

\* No idle process is in the table, nor is init one.
TableInv ==
  /\ \A i \in DOMAIN proc_table.data : proc_table.data[i] \in palloc /\ ~IsIdle(proc_table.data[i])
  /\ initproc # NoProc => initproc \in palloc /\ ~IsIdle(initproc)

\* Where an operation holds a process, a thread it makes, or follows init's creation.
HoldsProc == {"pushProc", "storeProc", "readyProc", "allocThread", "pushThread", "storeThread"}
HoldsThread == {"pushThread", "storeThread", "readyThread"}
AfterInit == {"pushProc", "storeProc", "readyProc", "createThread"}

\* What a context in the middle of an operation holds.  The length a push_back
\* has read does not reach beyond what the vector stored, ever since.
JobOf(x) ==
  /\ job[x].at \in HoldsProc => job[x].proc \in palloc /\ ~IsIdle(job[x].proc)
  /\ job[x].at \in HoldsThread =>
       /\ job[x].thread \in talloc /\ tstate[job[x].thread] = "INITIAL"
       /\ \A y \in Contexts : job[y].at \in HoldsThread /\ job[y].thread = job[x].thread => y = x
  /\ job[x].at = "pushThread" => parent[job[x].thread] = NoProc
  /\ job[x].at = "storeThread" =>
       /\ parent[job[x].thread] = job[x].proc
       /\ 1 .. job[x].len \subseteq DOMAIN threadsVec[job[x].proc].data
  /\ job[x].at = "storeProc" => 1 .. job[x].len \subseteq DOMAIN proc_table.data
  /\ x = Boot /\ job[x].at \in AfterInit => initproc # NoProc

JobInv == \A x \in Contexts : JobOf(x)

\* What a CPU runs: RUNNING, but READY while the CPU is between Enter and
\* Commit.
CurInv ==
  \A c \in Cpus :
    IF cur[c].thread = NoThread THEN cur[c].proc = NoProc /\ pc[c] \notin {"next", "commit"}
    ELSE /\ cur[c].thread \in talloc /\ cur[c].proc \in palloc
         /\ parent[cur[c].thread] = cur[c].proc
         /\ tstate[cur[c].thread] = IF pc[c] \in {"run", "enter"} THEN "RUNNING" ELSE "READY"
         /\ \A d \in Cpus : idleP[d] = cur[c].proc => d = c

\* The threads of an idle process only ever halt.
IdleInv ==
  \A c \in Cpus : idleP[c] # NoProc =>
    /\ idleP[c] \in palloc
    /\ \A d \in Cpus : idleP[d] = idleP[c] => d = c
    /\ \A t \in talloc : parent[t] = idleP[c] => job[t].at = "halt" /\ tstate[t] # "INITIAL"

IInv ==
  /\ TypeOK /\ LockInv /\ LiveInv /\ VecInv /\ TableInv /\ JobInv /\ CurInv /\ IdleInv
  /\ SingleRunner /\ RunningIsCurrent

-----------------------------------------------------------------------------
(* Vectors. *)

LEMMA VectorFacts ==
  ASSUME NEW S, NEW v \in Vector(S)
  PROVE  /\ v.length \in Nat /\ Len(v.data) \in Nat /\ v.length <= Len(v.data)
         /\ v.data \in Seq(S) /\ DOMAIN v.data = 1 .. Len(v.data)
         /\ 1 .. v.length \subseteq DOMAIN v.data
         /\ \A i \in DOMAIN v.data : v.data[i] \in S
<1>1. v.length \in Nat /\ v.data \in Seq(S) /\ v.length <= Len(v.data)
  BY DEF Vector
<1>2. Len(v.data) \in Nat /\ DOMAIN v.data = 1 .. Len(v.data) /\ \A i \in 1 .. Len(v.data) : v.data[i] \in S
  BY <1>1
<1> QED
  BY <1>1, <1>2

\* A vector from its parts.
LEMMA VectorFrom ==
  ASSUME NEW S, NEW m \in Nat, NEW d \in [1 .. m -> S], NEW n \in Nat, n <= m
  PROVE  [data |-> d, length |-> n] \in Vector(S)
<1>1. d \in Seq(S) /\ Len(d) = m
  OBVIOUS
<1> QED
  BY <1>1 DEF Vector

LEMMA EmptyFacts ==
  ASSUME NEW S
  PROVE  Empty \in Vector(S) /\ Empty.length = 0 /\ Empty.data = << >> /\ DOMAIN Empty.data = {}
<1>1. << >> \in Seq(S) /\ Len(<< >>) = 0 /\ DOMAIN << >> = {}
  OBVIOUS
<1> QED
  BY <1>1 DEF Empty, Vector

\* The vector of a new process.
LEMMA SingleFacts ==
  ASSUME NEW S, NEW t \in S
  PROVE  LET v == [data |-> <<t>>, length |-> 1]
         IN  v \in Vector(S) /\ v.length = 1 /\ DOMAIN v.data = {1} /\ v.data[1] = t
<1> DEFINE d == <<t>>
<1>1. d \in Seq(S) /\ Len(d) = 1 /\ DOMAIN d = {1} /\ d[1] = t
  OBVIOUS
<1> HIDE DEF d
<1>2. [data |-> d, length |-> 1] \in Vector(S)
  <2>1. 1 \in Nat /\ 1 <= Len(d)
    BY <1>1
  <2> QED
    BY <1>1, <2>1, Zenon DEF Vector
<1>3. LET v == [data |-> d, length |-> 1]
      IN  v \in Vector(S) /\ v.length = 1 /\ DOMAIN v.data = {1} /\ v.data[1] = t
  BY <1>1, <1>2
<1> QED
  BY <1>3 DEF d

\* What push_back leaves: what was stored, the new item, and, where it read a
\* length the vector no longer covers, what was in memory.
LEMMA PushFacts ==
  ASSUME NEW S, NEW v \in Vector(S), NEW n \in Nat, NEW item \in S, NEW fill \in [Unwritten(v, n) -> S]
  PROVE  LET w == push_back(v, n, item, fill)
         IN  /\ w \in Vector(S) /\ w.length = n + 1 /\ DOMAIN v.data \subseteq DOMAIN w.data
             /\ 1 .. n \subseteq DOMAIN v.data =>
                  \A i \in DOMAIN w.data : w.data[i] = item \/ (i \in DOMAIN v.data /\ w.data[i] = v.data[i])
<1> DEFINE l == Len(v.data)
           m == IF n < l THEN l ELSE n + 1
           d == [i \in 1 .. m |-> IF i = n + 1 THEN item ELSE IF i <= l THEN v.data[i] ELSE fill[i]]
           w == [data |-> d, length |-> n + 1]
<1>1. push_back(v, n, item, fill) = w
  BY DEF push_back
<1>2. l \in Nat /\ DOMAIN v.data = 1 .. l /\ \A i \in 1 .. l : v.data[i] \in S
  BY VectorFacts
<1>3. Unwritten(v, n) = l + 1 .. n
  BY DEF Unwritten
<1> HIDE DEF l
<1>4. m \in Nat /\ n + 1 \in Nat /\ n + 1 <= m /\ l <= m
  BY <1>2
<1>5. ASSUME NEW i \in 1 .. m PROVE d[i] \in S
  <2>1. i = n + 1 \/ i \in 1 .. l \/ i \in l + 1 .. n
    BY <1>2, <1>5
  <2>2. i \in l + 1 .. n => fill[i] \in S
    BY <1>3
  <2> QED
    BY <1>2, <2>1, <2>2
<1>6. d \in [1 .. m -> S]
  BY <1>5
<1>7. w \in Vector(S)
  <2> HIDE DEF m, d
  <2> QED
    BY <1>4, <1>6, VectorFrom
<1>8. /\ w.length = n + 1 /\ DOMAIN w.data = 1 .. m /\ 1 .. l \subseteq 1 .. m
  BY <1>2, <1>4
<1>9. ASSUME 1 .. n \subseteq 1 .. l, NEW i \in 1 .. m PROVE w.data[i] = item \/ (i \in 1 .. l /\ w.data[i] = v.data[i])
  <2>1. i = n + 1 \/ i \in 1 .. l
    <3>1. n <= l
      BY <1>2, <1>9
    <3> QED
      BY <1>2, <1>4, <1>9, <3>1
  <2> QED
    BY <1>2, <2>1
<1> HIDE DEF w
<1> QED
  BY <1>1, <1>2, <1>7, <1>8, <1>9

-----------------------------------------------------------------------------
(* The loops of clean_proc and of PickFirst are recursive functions on the *)
(* positions 0 .. n.                                                       *)

\* Induction over positions: there is no first one outside S.
LEMMA UpTo ==
  ASSUME NEW n \in Nat, NEW S, 0 \in S, \A i \in 1 .. n : i - 1 \in S => i \in S
  PROVE  \A i \in 0 .. n : i \in S
<1> DEFINE Wrong == { i \in 0 .. n : i \notin S }
<1>1. SUFFICES ASSUME Wrong # {} PROVE FALSE
  OBVIOUS
<1>2. Wrong \subseteq Nat
  OBVIOUS
<1>3. PICK m \in Wrong : \A k \in Wrong : ~(<<k, m>> \in OpToRel(<, Nat))
  BY <1>1, <1>2, NatLessThanWellFounded, WFMin
<1>4. m \in 0 .. n /\ m \notin S /\ m # 0
  OBVIOUS
<1>5. m - 1 \in 0 .. n /\ m \in 1 .. n
  BY <1>4
<1>6. m - 1 \notin Wrong
  <2>1. \A k \in Wrong : k \in Nat /\ m \in Nat
    BY <1>2
  <2> HIDE DEF Wrong
  <2>2. \A k \in Wrong : ~(k < m)
    BY <1>3, <2>1, Zenon DEF OpToRel
  <2> QED
    BY <1>4, <2>2
<1> QED
  BY <1>4, <1>5, <1>6

\* f[i] is what the loop of DropThreads has made of o after i turns.
Dropping(f, o, p, all, n) ==
  f = [i \in 0 .. n |-> IF i = 0 THEN o ELSE Turn(f[i - 1], p, all, i)]

\* There is such an f.
LEMMA DroppingExists ==
  ASSUME NEW o, NEW p, NEW all, NEW n \in Nat
  PROVE  \E f : Dropping(f, o, p, all, n)
<1> DEFINE S == { k \in 0 .. n : \E f : Dropping(f, o, p, all, k) }
<1>1. 0 \in S
  <2>1. Dropping([i \in 0 .. 0 |-> o], o, p, all, 0)
    BY DEF Dropping
  <2> QED
    BY <2>1
<1>2. ASSUME NEW k \in 1 .. n, k - 1 \in S PROVE k \in S
  <2>1. PICK f : Dropping(f, o, p, all, k - 1)
    BY <1>2
  <2> DEFINE g == [i \in 0 .. k |-> IF i = k THEN Turn(f[k - 1], p, all, k) ELSE f[i]]
  <2>2. ASSUME NEW i \in 0 .. k PROVE g[i] = IF i = 0 THEN o ELSE Turn(g[i - 1], p, all, i)
    <3>1. CASE i = k
      <4>1. g[i] = Turn(f[k - 1], p, all, k) /\ g[i - 1] = f[k - 1] /\ i # 0
        BY <3>1
      <4> QED
        BY <3>1, <4>1
    <3>2. CASE i # k
      <4>1. i \in 0 .. k - 1 /\ g[i] = f[i] /\ (i # 0 => g[i - 1] = f[i - 1])
        BY <3>2
      <4> QED
        BY <2>1, <4>1 DEF Dropping
    <3> QED
      BY <3>1, <3>2
  <2>3. Dropping(g, o, p, all, k)
    <3>1. g = [i \in 0 .. k |-> g[i]]
      OBVIOUS
    <3> HIDE DEF g
    <3> QED
      BY <2>2, <3>1 DEF Dropping
  <2>4. \E h : Dropping(h, o, p, all, k)
    BY <2>3
  <2> QED
    BY <2>4
<1>3. n \in S
  <2> HIDE DEF S
  <2> QED
    BY <1>1, <1>2, UpTo
<1> QED
  BY <1>3

\* So DropThreads is the end of a sequence of turns.
LEMMA DroppingRuns ==
  ASSUME NEW o, NEW p, NEW all, o.vec[p].length \in Nat
  PROVE  \E f : /\ f[0] = o /\ DropThreads(o, p, all) = f[o.vec[p].length]
                /\ \A i \in 1 .. o.vec[p].length : f[i] = Turn(f[i - 1], p, all, i)
<1> DEFINE n == o.vec[p].length
           f == CHOOSE g : Dropping(g, o, p, all, n)
<1>1. DropThreads(o, p, all) = f[n]
  BY DEF DropThreads, Dropping
<1>2. Dropping(f, o, p, all, n) /\ n \in Nat
  BY DroppingExists
<1> HIDE DEF f, n
<1>3. f[0] = o /\ \A i \in 1 .. n : f[i] = Turn(f[i - 1], p, all, i)
  BY <1>2 DEF Dropping
<1> QED
  BY <1>1, <1>3 DEF n

\* The same for what PickFirst passes.
Passing(f, o, n) == f = [i \in 0 .. n |-> IF i = 0 THEN o ELSE Pass(f[i - 1], i)]

LEMMA PassingExists ==
  ASSUME NEW o, NEW n \in Nat
  PROVE  \E f : Passing(f, o, n)
<1> DEFINE S == { k \in 0 .. n : \E f : Passing(f, o, k) }
<1>1. 0 \in S
  <2>1. Passing([i \in 0 .. 0 |-> o], o, 0)
    BY DEF Passing
  <2> QED
    BY <2>1
<1>2. ASSUME NEW k \in 1 .. n, k - 1 \in S PROVE k \in S
  <2>1. PICK f : Passing(f, o, k - 1)
    BY <1>2
  <2> DEFINE g == [i \in 0 .. k |-> IF i = k THEN Pass(f[k - 1], k) ELSE f[i]]
  <2>2. ASSUME NEW i \in 0 .. k PROVE g[i] = IF i = 0 THEN o ELSE Pass(g[i - 1], i)
    <3>1. CASE i = k
      <4>1. g[i] = Pass(f[k - 1], k) /\ g[i - 1] = f[k - 1] /\ i # 0
        BY <3>1
      <4> QED
        BY <3>1, <4>1
    <3>2. CASE i # k
      <4>1. i \in 0 .. k - 1 /\ g[i] = f[i] /\ (i # 0 => g[i - 1] = f[i - 1])
        BY <3>2
      <4> QED
        BY <2>1, <4>1 DEF Passing
    <3> QED
      BY <3>1, <3>2
  <2>3. Passing(g, o, k)
    <3>1. g = [i \in 0 .. k |-> g[i]]
      OBVIOUS
    <3> HIDE DEF g
    <3> QED
      BY <2>2, <3>1 DEF Passing
  <2>4. \E h : Passing(h, o, k)
    BY <2>3
  <2> QED
    BY <2>4
<1>3. n \in S
  <2> HIDE DEF S
  <2> QED
    BY <1>1, <1>2, UpTo
<1> QED
  BY <1>3

LEMMA PassingRuns ==
  ASSUME NEW o, NEW n \in Nat
  PROVE  \E f : /\ f[0] = o /\ Passed(o, n) = f[n]
                /\ \A i \in 1 .. n : f[i] = Pass(f[i - 1], i)
<1> DEFINE f == CHOOSE g : Passing(g, o, n)
<1>1. Passed(o, n) = f[n]
  BY DEF Passed, Passing
<1>2. Passing(f, o, n)
  BY PassingExists
<1> HIDE DEF f
<1>3. f[0] = o /\ \A i \in 1 .. n : f[i] = Pass(f[i - 1], i)
  BY <1>2 DEF Passing
<1> QED
  BY <1>1, <1>3

-----------------------------------------------------------------------------
(* clean_proc finds nothing to free where nothing was killed. *)

\* The threads of p live.
NoneKilled(o, p) ==
  /\ o.vec[p].length \in Nat
  /\ \A i \in 1 .. o.vec[p].length : o.tstate[o.vec[p].data[i]] # "KILLED"

LEMMA DropNothing ==
  ASSUME NEW o, NEW p, NoneKilled(o, p)
  PROVE  DropThreads(o, p, FALSE) = o
<1> DEFINE n == o.vec[p].length
           all == FALSE
<1>1. n \in Nat /\ \A i \in 1 .. n : Turn(o, p, all, i) = o
  BY DEF NoneKilled, Turn
<1> HIDE DEF all
<1>2. PICK f : /\ f[0] = o /\ DropThreads(o, p, all) = f[n]
               /\ \A i \in 1 .. n : f[i] = Turn(f[i - 1], p, all, i)
  BY <1>1, DroppingRuns
<1> DEFINE S == { i \in 0 .. n : f[i] = o }
<1> HIDE DEF n
<1>3. 0 \in S /\ \A i \in 1 .. n : i - 1 \in S => i \in S
  BY <1>1, <1>2
<1>4. n \in S
  <2> HIDE DEF S
  <2> QED
    BY <1>1, <1>3, UpTo
<1>5. DropThreads(o, p, all) = o
  BY <1>2, <1>4
<1> QED
  BY <1>5 DEF all

\* A process that lives and has a thread that lives.
Lives(o, p) ==
  /\ o.pstate[p] # "KILLED" /\ o.vec[p].length > 0
  /\ NoneKilled(o, p)

\* clean_proc leaves such a process, and a null one, alone.
LEMMA CleanNothing ==
  ASSUME NEW o, NEW p, p = NoProc \/ Lives(o, p)
  PROVE  clean_proc(o, p) = o
<1>1. CASE p = NoProc
  BY <1>1 DEF clean_proc
<1>2. CASE p # NoProc
  <2>1. DropThreads(o, p, FALSE) = o
    BY <1>2, DropNothing DEF Lives
  <2>2. o.pstate[p] # "KILLED" /\ o.vec[p].length # 0
    BY <1>2 DEF Lives, NoneKilled
  <2>3. clean_proc(o, p) = LET d == DropThreads(o, p, FALSE)
                           IN  IF d.vec[p].length = 0 THEN FreeProc([d EXCEPT !.pstate[p] = "KILLED"], p) ELSE d
    BY <1>2, <2>2 DEF clean_proc
  <2> QED
    BY <2>1, <2>2, <2>3
<1> QED
  BY <1>1, <1>2

LEMMA PassNothing ==
  ASSUME NEW o, NEW n \in Nat, \A i \in 1 .. n : Lives(o, proc_table.data[i])
  PROVE  Passed(o, n) = o
<1>1. \A i \in 1 .. n : Pass(o, i) = o
  BY CleanNothing DEF Pass
<1>2. PICK f : /\ f[0] = o /\ Passed(o, n) = f[n]
               /\ \A i \in 1 .. n : f[i] = Pass(f[i - 1], i)
  BY PassingRuns
<1> DEFINE S == { i \in 0 .. n : f[i] = o }
<1>3. 0 \in S /\ \A i \in 1 .. n : i - 1 \in S => i \in S
  BY <1>1, <1>2
<1>4. n \in S
  <2> HIDE DEF S
  <2> QED
    BY <1>3, UpTo
<1> QED
  BY <1>2, <1>4

\* Setting the objects to what they are changes nothing.
LEMMA SameObjects ==
  ASSUME SetObjects(Objects)
  PROVE  UNCHANGED objVars
  BY DEF SetObjects, Objects, objVars

\* The first of some positions is one of them.
LEMMA LeastIn ==
  ASSUME NEW T, T \subseteq Nat, T # {}
  PROVE  Least(T) \in T
<1>1. PICK m \in T : \A k \in T : ~(<<k, m>> \in OpToRel(<, Nat))
  BY NatLessThanWellFounded, WFMin
<1>2. \A k \in T : ~(k < m)
  <2>1. \A k \in T : k \in Nat /\ m \in Nat
    OBVIOUS
  <2> QED
    BY <1>1, <2>1, Zenon DEF OpToRel
<1>3. \A k \in T : m <= k
  BY <1>2
<1> QED
  BY <1>3 DEF Least

\* Every allocated process lives.
LEMMA AllocatedLive ==
  ASSUME IInv, NEW p \in palloc
  PROVE  Lives(Objects, p)
<1>1. p \in Procs /\ threadsVec[p] \in Vector(Threads) /\ tstate \in [Threads -> State]
  BY DEF IInv, TypeOK
<1>2. pstate[p] # "KILLED" /\ threadsVec[p].length > 0
  BY <1>1 DEF IInv, LiveInv, VecInv
<1>3. threadsVec[p].length \in Nat /\ \A i \in 1 .. threadsVec[p].length : threadsVec[p].data[i] \in Threads
  BY <1>1, VectorFacts
<1>4. \A t \in Threads : tstate[t] # "KILLED"
  BY DEF IInv, LiveInv
<1> QED
  BY <1>2, <1>3, <1>4 DEF Lives, NoneKilled, Objects

-----------------------------------------------------------------------------
(* The context of a CPU. *)

\* A CPU executes the code it booted with or an allocated thread.
LEMMA ContextFacts ==
  ASSUME IInv, NEW c \in Cpus
  PROVE  /\ Context(c) \in Contexts
         /\ Context(c) = Boot <=> cur[c].thread = NoThread
         /\ Context(c) # Boot => /\ Context(c) = cur[c].thread /\ Context(c) \in talloc
                                 /\ cur[c].proc \in palloc /\ parent[Context(c)] = cur[c].proc
<1>1. /\ talloc \subseteq Threads
      /\ cur[c].thread \in Threads \cup {NoThread}
  BY DEF IInv, TypeOK
<1>2. Boot \notin Threads /\ Boot # NoThread
  BY SchedAssumption DEF Boot, NoThread
<1>3. cur[c].thread # NoThread => /\ cur[c].thread \in talloc /\ cur[c].proc \in palloc
                                  /\ parent[cur[c].thread] = cur[c].proc
  BY DEF IInv, CurInv
<1> QED
  BY <1>1, <1>2, <1>3 DEF Context, Contexts

\* One that does not halt is not a thread of an idle process.
LEMMA BusyContext ==
  ASSUME IInv, NEW c \in Cpus, job[Context(c)].at # "halt"
  PROVE  /\ Context(c) # Boot => ~IsIdle(cur[c].proc)
         /\ \A d \in Cpus, t \in talloc : idleP[d] # NoProc /\ parent[t] = idleP[d] => t # Context(c)
<1>1. \A d \in Cpus, t \in talloc : idleP[d] # NoProc /\ parent[t] = idleP[d] => t # Context(c)
  BY DEF IInv, IdleInv
<1>2. Context(c) # Boot => \A d \in Cpus : idleP[d] # cur[c].proc
  <2> SUFFICES ASSUME Context(c) # Boot, NEW d \in Cpus, idleP[d] = cur[c].proc PROVE FALSE
    OBVIOUS
  <2>1. Context(c) \in talloc /\ parent[Context(c)] = idleP[d] /\ idleP[d] \in palloc
    BY ContextFacts
  <2>2. idleP[d] # NoProc
    BY <2>1, SchedAssumption DEF IInv, TypeOK
  <2> QED
    BY <1>1, <2>1, <2>2
<1> QED
  BY <1>1, <1>2 DEF IsIdle

-----------------------------------------------------------------------------
(* Steps that move one context, and nothing the other contexts see. *)

JobRecord ==
  [at : {"none", "nano", "allocProc", "pushProc", "storeProc", "readyProc",
         "createThread", "allocThread", "pushThread", "storeThread", "readyThread",
         "init", "shell", "halt"},
   proc : Procs \cup {NoProc}, thread : Threads \cup {NoThread}, len : Nat]

\* The context of c goes to new, and holds no other new thread than it did.
JobMoves(c, new) ==
  /\ new \in JobRecord /\ new.at # "pushThread"
  /\ new.at \in HoldsThread => job[Context(c)].at \in HoldsThread /\ new.thread = job[Context(c)].thread
  /\ new.at \in HoldsProc => new.proc \in palloc /\ ~IsIdle(new.proc)
  /\ new.at = "storeThread" =>
       /\ parent'[new.thread] = new.proc
       /\ 1 .. new.len \subseteq DOMAIN threadsVec'[new.proc].data
  /\ new.at = "storeProc" => 1 .. new.len \subseteq DOMAIN proc_table'.data
  /\ Context(c) = Boot /\ new.at \in AfterInit => initproc # NoProc
  /\ job' = [job EXCEPT ![Context(c)] = new]

\* Vectors forget nothing.
Grows ==
  /\ \A p \in Procs : DOMAIN threadsVec[p].data \subseteq DOMAIN threadsVec'[p].data
  /\ DOMAIN proc_table.data \subseteq DOMAIN proc_table'.data

LEMMA MoveJob ==
  ASSUME IInv, NEW c \in Cpus, NEW new, JobMoves(c, new), job[Context(c)].at # "halt",
         UNCHANGED <<talloc, palloc, initproc, idleP>>, Grows,
         \A x \in Contexts : job[x].at \in HoldsThread /\ job'[x].at \in HoldsThread =>
           tstate'[job[x].thread] = tstate[job[x].thread],
         \A x \in Contexts : x # Context(c) /\ job[x].at \in HoldsThread =>
           parent'[job[x].thread] = parent[job[x].thread],
         \A t \in talloc : tstate[t] # "INITIAL" => tstate'[t] # "INITIAL",
         \A t \in talloc : parent'[t] = parent[t] \/ ~IsIdle(parent'[t])
  PROVE  job' \in [Contexts -> JobRecord] /\ JobInv' /\ IdleInv'
<1>1. job \in [Contexts -> JobRecord] /\ Context(c) \in Contexts
  BY ContextFacts DEF IInv, TypeOK, JobRecord
<1>2. /\ job' \in [Contexts -> JobRecord] /\ job'[Context(c)] = new
      /\ \A x \in Contexts : x # Context(c) => job'[x] = job[x]
  BY <1>1 DEF JobMoves
<1>3. \A q : IsIdle(q)' <=> IsIdle(q)
  BY DEF IsIdle
<1>4. \A x, y \in Contexts :
        job'[x].at \in HoldsThread /\ job'[y].at \in HoldsThread /\ job'[y].thread = job'[x].thread => y = x
  <2>1. \A x \in Contexts : job'[x].at \in HoldsThread =>
          job[x].at \in HoldsThread /\ job'[x].thread = job[x].thread
    BY <1>2 DEF JobMoves
  <2> QED
    BY <2>1 DEF IInv, JobInv, JobOf
<1>5. ASSUME NEW x \in Contexts, x # Context(c) PROVE JobOf(x)'
  <2>1. JobOf(x) /\ job'[x] = job[x] /\ job[x] \in JobRecord
    BY <1>1, <1>2, <1>5 DEF IInv, JobInv
  <2>2. job[x].at \in HoldsThread =>
          /\ tstate'[job[x].thread] = tstate[job[x].thread]
          /\ parent'[job[x].thread] = parent[job[x].thread]
    BY <1>5, <2>1
  <2>3. /\ job[x].at = "storeThread" => job[x].at \in HoldsThread /\ job[x].proc \in Procs
        /\ job[x].at = "pushThread" => job[x].at \in HoldsThread
    BY <2>1 DEF JobOf, HoldsThread, HoldsProc, IInv, TypeOK
  <2> QED
    BY <1>3, <1>4, <2>1, <2>2, <2>3 DEF JobOf, Grows
<1>6. ASSUME NEW x \in Contexts, x = Context(c) PROVE JobOf(x)'
  <2>1. job'[x] = new /\ JobOf(x)
    BY <1>2, <1>6 DEF IInv, JobInv
  <2>2. new.at \in HoldsThread =>
          /\ job[x].at \in HoldsThread /\ new.thread = job[x].thread
          /\ tstate'[new.thread] = "INITIAL" /\ new.thread \in talloc
    BY <1>6, <2>1 DEF JobOf, JobMoves
  <2> QED
    BY <1>3, <1>4, <1>6, <2>1, <2>2 DEF JobOf, JobMoves
<1>7. JobInv'
  <2> SUFFICES ASSUME NEW x \in Contexts PROVE JobOf(x)'
    BY DEF JobInv, Contexts
  <2> QED
    BY <1>5, <1>6
<1>8. IdleInv'
  <2>1. \A d \in Cpus, t \in talloc : idleP[d] # NoProc /\ parent'[t] = idleP[d] => parent[t] = idleP[d]
    BY DEF IsIdle
  <2>2. \A d \in Cpus, t \in talloc : idleP[d] # NoProc /\ parent[t] = idleP[d] => job'[t] = job[t]
    BY <1>2, BusyContext DEF IInv, TypeOK, Contexts
  <2> QED
    BY <2>1, <2>2 DEF IInv, IdleInv
<1> QED
  BY <1>2, <1>7, <1>8

-----------------------------------------------------------------------------
(* createProc, createThread and scheduler::init. *)

LEMMA CreateProcCallStep ==
  ASSUME IInv, NEW c \in Cpus, CreateProcCall(c)
  PROVE  IInv'
<1> DEFINE new == [at |-> "allocProc", proc |-> NoProc, thread |-> NoThread, len |-> 0]
<1>1. /\ UNCHANGED <<objVars, parent, proc_table, initproc, cur, idleP, sched_lock, thread_lock, timer, pc>>
      /\ job' = [job EXCEPT ![Context(c)] = new] /\ proc_lock' = TRUE
      /\ job[Context(c)].at # "halt"
  BY DEF CreateProcCall, Becomes, Executes, Calls
<1>2. job' \in [Contexts -> JobRecord] /\ JobInv' /\ IdleInv'
  <2>1. JobMoves(c, new)
    BY <1>1 DEF JobMoves, JobRecord, HoldsProc, HoldsThread, AfterInit
  <2> HIDE DEF new
  <2> QED
    BY <1>1, <2>1, MoveJob DEF objVars, Grows
<1>3. TypeOK'
  BY <1>1, <1>2 DEF IInv, TypeOK, JobRecord, objVars
<1> QED
  BY <1>1, <1>2, <1>3 DEF IInv, objVars, LockInv, LiveInv, VecInv, TableInv, IsIdle, CurInv,
                          SingleRunner, RunningIsCurrent

\* The thread goes to the process of its creator, or to init.
LEMMA CreateThreadCallStep ==
  ASSUME IInv, NEW c \in Cpus, CreateThreadCall(c)
  PROVE  IInv'
<1> DEFINE owner == IF Context(c) = Boot THEN initproc ELSE cur[c].proc
           new == [at |-> "allocThread", proc |-> owner, thread |-> NoThread, len |-> 0]
<1>1. /\ UNCHANGED <<objVars, parent, proc_table, initproc, cur, idleP, sched_lock, proc_lock, timer, pc>>
      /\ job' = [job EXCEPT ![Context(c)] = new] /\ thread_lock' = TRUE
      /\ job[Context(c)].at # "halt"
      /\ job[Context(c)].at = "createThread" \/ cur[c].thread # NoThread
  BY DEF CreateThreadCall, Becomes, Executes, Calls
<1>2. owner \in palloc /\ ~IsIdle(owner)
  <2>1. CASE Context(c) # Boot
    BY <1>1, <2>1, ContextFacts, BusyContext
  <2>2. CASE Context(c) = Boot
    <3>1. job[Boot].at = "createThread" /\ Boot \in Contexts
      BY <1>1, <2>2, ContextFacts DEF Contexts
    <3>2. initproc # NoProc
      BY <3>1 DEF IInv, JobInv, JobOf, AfterInit
    <3> QED
      BY <2>2, <3>2 DEF IInv, TableInv
  <2> QED
    BY <2>1, <2>2
<1>3. owner \in Procs
  BY <1>2 DEF IInv, TypeOK
<1> HIDE DEF owner
<1>4. job' \in [Contexts -> JobRecord] /\ JobInv' /\ IdleInv'
  <2>1. JobMoves(c, new)
    BY <1>1, <1>2, <1>3 DEF JobMoves, JobRecord, HoldsProc, HoldsThread, AfterInit
  <2> HIDE DEF new
  <2> QED
    BY <1>1, <2>1, MoveJob DEF objVars, Grows
<1>5. TypeOK'
  BY <1>1, <1>4 DEF IInv, TypeOK, JobRecord, objVars
<1> QED
  BY <1>1, <1>4, <1>5 DEF IInv, objVars, LockInv, LiveInv, VecInv, TableInv, IsIdle, CurInv,
                          SingleRunner, RunningIsCurrent

LEMMA SchedulerInitStep ==
  ASSUME IInv, NEW c \in Cpus, SchedulerInit(c)
  PROVE  IInv'
<1> DEFINE new == [at |-> "shell", proc |-> NoProc, thread |-> NoThread, len |-> 0]
<1>1. /\ UNCHANGED <<objVars, parent, proc_table, initproc, cur, idleP, sched_lock, proc_lock, thread_lock, pc>>
      /\ job' = [job EXCEPT ![Context(c)] = new] /\ timer' = [timer EXCEPT ![c] = TRUE]
      /\ job[Context(c)].at # "halt"
  BY DEF SchedulerInit, Becomes, Executes
<1>2. job' \in [Contexts -> JobRecord] /\ JobInv' /\ IdleInv'
  <2>1. JobMoves(c, new)
    BY <1>1 DEF JobMoves, JobRecord, HoldsProc, HoldsThread, AfterInit
  <2> HIDE DEF new
  <2> QED
    BY <1>1, <2>1, MoveJob DEF objVars, Grows
<1>3. TypeOK'
  BY <1>1, <1>2 DEF IInv, TypeOK, JobRecord, objVars
<1> QED
  BY <1>1, <1>2, <1>3 DEF IInv, objVars, LockInv, LiveInv, VecInv, TableInv, IsIdle, CurInv,
                          SingleRunner, RunningIsCurrent

\* push_back has read the length of the table.
LEMMA PushProcStep ==
  ASSUME IInv, NEW c \in Cpus, PushProc(c)
  PROVE  IInv'
<1> DEFINE j == job[Context(c)]
           new == [j EXCEPT !.at = "storeProc", !.len = proc_table.length]
<1>1. /\ UNCHANGED <<objVars, parent, proc_table, initproc, cur, idleP, sched_lock, proc_lock, thread_lock, timer, pc>>
      /\ job' = [job EXCEPT ![Context(c)] = new]
      /\ j.at = "pushProc"
  BY DEF PushProc, Reads, Executes
<1>2. Context(c) \in Contexts /\ j \in JobRecord /\ JobOf(Context(c))
  BY ContextFacts DEF IInv, JobInv, TypeOK, JobRecord
<1>3. j.proc \in palloc /\ ~IsIdle(j.proc) /\ (Context(c) = Boot => initproc # NoProc)
  BY <1>1, <1>2 DEF JobOf, HoldsProc, AfterInit
<1>4. proc_table.length \in Nat /\ 1 .. proc_table.length \subseteq DOMAIN proc_table.data
  BY VectorFacts DEF IInv, TypeOK
<1> HIDE DEF j
<1>5. /\ new \in JobRecord /\ new.at = "storeProc" /\ new.proc = j.proc /\ new.len = proc_table.length
  BY <1>2, <1>4 DEF JobRecord
<1> HIDE DEF new
<1>6. job' \in [Contexts -> JobRecord] /\ JobInv' /\ IdleInv'
  <2>1. JobMoves(c, new)
    BY <1>1, <1>3, <1>4, <1>5 DEF JobMoves, HoldsThread
  <2> QED
    BY <1>1, <2>1, MoveJob DEF j, objVars, Grows
<1>7. TypeOK'
  BY <1>1, <1>6 DEF IInv, TypeOK, JobRecord, objVars
<1> QED
  BY <1>1, <1>6, <1>7 DEF IInv, objVars, LockInv, LiveInv, VecInv, TableInv, IsIdle, CurInv,
                          SingleRunner, RunningIsCurrent

\* The process that is stored is allocated and no idle process, and so are those
\* that were stored before.
LEMMA StoreProcStep ==
  ASSUME IInv, NEW c \in Cpus, StoreProc(c)
  PROVE  IInv'
<1> DEFINE j == job[Context(c)]
           p == j.proc
           new == [at |-> "readyProc", proc |-> p, thread |-> NoThread, len |-> 0]
<1>1. /\ UNCHANGED <<objVars, parent, initproc, cur, idleP, sched_lock, proc_lock, thread_lock, timer, pc>>
      /\ job' = [job EXCEPT ![Context(c)] = new]
      /\ j.at = "storeProc"
  BY DEF StoreProc, Becomes, Executes
<1>2. PICK fill \in [Unwritten(proc_table, j.len) -> Procs] :
        proc_table' = push_back(proc_table, j.len, p, fill)
  BY DEF StoreProc
<1>3. Context(c) \in Contexts /\ j \in JobRecord /\ JobOf(Context(c)) /\ j.len \in Nat
  BY ContextFacts DEF IInv, JobInv, TypeOK, JobRecord
<1>4. /\ p \in palloc /\ ~IsIdle(p) /\ (Context(c) = Boot => initproc # NoProc)
      /\ 1 .. j.len \subseteq DOMAIN proc_table.data
  BY <1>1, <1>3 DEF JobOf, HoldsProc, AfterInit
<1>5. p \in Procs /\ proc_table \in Vector(Procs)
  BY <1>4 DEF IInv, TypeOK
<1> HIDE DEF p, j
<1>6. /\ proc_table' \in Vector(Procs) /\ DOMAIN proc_table.data \subseteq DOMAIN proc_table'.data
      /\ \A i \in DOMAIN proc_table'.data :
           proc_table'.data[i] = p \/ (i \in DOMAIN proc_table.data /\ proc_table'.data[i] = proc_table.data[i])
  BY <1>2, <1>3, <1>4, <1>5, PushFacts
<1>7. job' \in [Contexts -> JobRecord] /\ JobInv' /\ IdleInv'
  <2>1. JobMoves(c, new)
    BY <1>1, <1>4, <1>5 DEF JobMoves, JobRecord, HoldsThread
  <2> HIDE DEF new
  <2> QED
    BY <1>1, <1>6, <2>1, MoveJob DEF j, objVars, Grows
<1>8. TypeOK'
  BY <1>1, <1>6, <1>7 DEF IInv, TypeOK, JobRecord, objVars
<1>9. TableInv'
  <2>1. \A q : IsIdle(q)' <=> IsIdle(q)
    BY <1>1 DEF IsIdle
  <2>2. palloc' = palloc /\ initproc' = initproc
    BY <1>1 DEF objVars
  <2> QED
    BY <1>4, <1>6, <2>1, <2>2 DEF IInv, TableInv
<1> QED
  BY <1>1, <1>7, <1>8, <1>9 DEF IInv, objVars, LockInv, LiveInv, VecInv, CurInv, SingleRunner,
                                RunningIsCurrent

LEMMA ReadyProcStep ==
  ASSUME IInv, NEW c \in Cpus, ReadyProc(c)
  PROVE  IInv'
<1> DEFINE p == job[Context(c)].proc
           next == IF Context(c) = Boot THEN "createThread" ELSE "none"
           new == [at |-> next, proc |-> NoProc, thread |-> NoThread, len |-> 0]
<1>1. /\ UNCHANGED <<tstate, threadsVec, talloc, palloc, parent, proc_table, initproc, cur, idleP,
                     sched_lock, proc_lock, thread_lock, timer, pc>>
      /\ job' = [job EXCEPT ![Context(c)] = new]
      /\ pstate' = [pstate EXCEPT ![p] = "READY"]
      /\ job[Context(c)].at = "readyProc"
  BY DEF ReadyProc, Becomes, Executes
<1>2. Context(c) \in Contexts
  BY ContextFacts
<1>3. p \in palloc /\ (Context(c) = Boot => initproc # NoProc)
  BY <1>1, <1>2 DEF IInv, JobInv, JobOf, HoldsProc, AfterInit
<1>4. p \in Procs
  BY <1>3 DEF IInv, TypeOK
<1> HIDE DEF p
<1>5. job' \in [Contexts -> JobRecord] /\ JobInv' /\ IdleInv'
  <2>1. JobMoves(c, new)
    BY <1>1, <1>3, <1>4 DEF JobMoves, JobRecord, HoldsProc, HoldsThread
  <2> HIDE DEF new
  <2> QED
    BY <1>1, <2>1, MoveJob DEF Grows
<1>6. pstate' \in [Procs -> State] /\ \A q \in Procs : pstate'[q] \in {"INITIAL", "READY"}
  BY <1>1, <1>4 DEF IInv, TypeOK, LiveInv, State
<1>7. TypeOK'
  BY <1>1, <1>5, <1>6 DEF IInv, TypeOK, JobRecord
<1> QED
  BY <1>1, <1>5, <1>6, <1>7 DEF IInv, LockInv, LiveInv, VecInv, TableInv, IsIdle, CurInv,
                                SingleRunner, RunningIsCurrent

\* The only context that holds the new thread makes it READY.
LEMMA ReadyThreadStep ==
  ASSUME IInv, NEW c \in Cpus, ReadyThread(c)
  PROVE  IInv'
<1> DEFINE t == job[Context(c)].thread
           next == IF Context(c) = Boot THEN "init" ELSE "none"
           new == [at |-> next, proc |-> NoProc, thread |-> NoThread, len |-> 0]
<1>1. /\ UNCHANGED <<pstate, threadsVec, talloc, palloc, parent, proc_table, initproc, cur, idleP,
                     sched_lock, proc_lock, thread_lock, timer, pc>>
      /\ job' = [job EXCEPT ![Context(c)] = new]
      /\ tstate' = [tstate EXCEPT ![t] = "READY"]
      /\ job[Context(c)].at = "readyThread"
  BY DEF ReadyThread, Becomes, Executes
<1>2. Context(c) \in Contexts
  BY ContextFacts
<1>3. /\ t \in talloc /\ tstate[t] = "INITIAL"
      /\ \A x \in Contexts : job[x].at \in HoldsThread /\ job[x].thread = t => x = Context(c)
  BY <1>1, <1>2 DEF IInv, JobInv, JobOf, HoldsThread
<1>4. t \in Threads /\ talloc \subseteq Threads /\ tstate \in [Threads -> State]
  BY <1>3 DEF IInv, TypeOK
<1> HIDE DEF t
<1>5. /\ tstate' \in [Threads -> State] /\ tstate'[t] = "READY"
      /\ \A u \in Threads : u # t => tstate'[u] = tstate[u]
  BY <1>1, <1>4 DEF State
<1>6. job' \in [Contexts -> JobRecord] /\ JobInv' /\ IdleInv'
  <2>1. JobMoves(c, new)
    BY <1>1 DEF JobMoves, JobRecord, HoldsProc, HoldsThread, AfterInit
  <2>2. \A x \in Contexts : job[x].at \in HoldsThread /\ job'[x].at \in HoldsThread =>
          tstate'[job[x].thread] = tstate[job[x].thread]
    <3>1. job'[Context(c)].at \notin HoldsThread
      BY <1>1, <1>2 DEF IInv, TypeOK, HoldsThread
    <3> QED
      BY <1>3, <1>4, <1>5, <3>1 DEF IInv, JobInv, JobOf
  <2>3. \A u \in talloc : tstate[u] # "INITIAL" => tstate'[u] # "INITIAL"
    BY <1>4, <1>5
  <2> HIDE DEF new
  <2> QED
    BY <1>1, <2>1, <2>2, <2>3, MoveJob DEF Grows
<1>7. TypeOK'
  BY <1>1, <1>5, <1>6 DEF IInv, TypeOK, JobRecord
<1>8. LiveInv'
  BY <1>1, <1>5 DEF IInv, LiveInv
<1>9. CurInv'
  <2> SUFFICES ASSUME NEW d \in Cpus
               PROVE  cur[d].thread # NoThread => tstate'[cur[d].thread] = tstate[cur[d].thread]
    BY <1>1 DEF IInv, CurInv
  <2> SUFFICES ASSUME cur[d].thread # NoThread PROVE cur[d].thread \in Threads /\ cur[d].thread # t
    BY <1>5
  <2> QED
    BY <1>3, <1>4 DEF IInv, CurInv
<1>10. RunningIsCurrent'
  BY <1>1, <1>5 DEF IInv, RunningIsCurrent
<1> QED
  BY <1>1, <1>6, <1>7, <1>8, <1>9, <1>10 DEF IInv, LockInv, VecInv, TableInv, IsIdle, SingleRunner

-----------------------------------------------------------------------------
(* New processes and threads. *)

\* A fresh process p with its fresh first thread t.
LEMMA NewProcFacts ==
  ASSUME IInv, NEW p \in Procs \ palloc, NEW t \in Threads \ talloc, NewProc(p, t)
  PROVE  /\ tstate' \in [Threads -> State] /\ pstate' \in [Procs -> State]
         /\ parent' \in [Threads -> Procs \cup {NoProc}]
         /\ threadsVec' \in [Procs -> Vector(Threads)]
         /\ talloc' = talloc \cup {t} /\ palloc' = palloc \cup {p}
         /\ talloc' \subseteq Threads /\ palloc' \subseteq Procs
         /\ tstate'[t] = "READY" /\ parent'[t] = p
         /\ \A u \in Threads : u # t => tstate'[u] = tstate[u] /\ parent'[u] = parent[u]
         /\ \A q \in palloc : threadsVec'[q] = threadsVec[q]
         /\ LiveInv' /\ VecInv'
<1> DEFINE single == [data |-> <<t>>, length |-> 1]
<1>0. single \in Vector(Threads) /\ single.length = 1 /\ DOMAIN single.data = {1} /\ single.data[1] = t
  BY SingleFacts
<1>1. /\ tstate \in [Threads -> State] /\ pstate \in [Procs -> State]
      /\ parent \in [Threads -> Procs \cup {NoProc}]
      /\ threadsVec \in [Procs -> Vector(Threads)]
      /\ talloc \subseteq Threads /\ palloc \subseteq Procs
  BY DEF IInv, TypeOK
<1>2. /\ talloc' = talloc \cup {t} /\ palloc' = palloc \cup {p}
      /\ talloc' \subseteq Threads /\ palloc' \subseteq Procs
  BY <1>1 DEF NewProc
<1>3. /\ tstate' \in [Threads -> State] /\ pstate' \in [Procs -> State]
      /\ parent' \in [Threads -> Procs \cup {NoProc}]
      /\ tstate'[t] = "READY" /\ parent'[t] = p
      /\ pstate'[p] = "INITIAL" /\ \A q \in Procs : q # p => pstate'[q] = pstate[q]
      /\ \A u \in Threads : u # t => tstate'[u] = tstate[u] /\ parent'[u] = parent[u]
  BY <1>1 DEF NewProc, State
<1>4. /\ DOMAIN threadsVec' = Procs /\ threadsVec'[p] = single
      /\ \A q \in Procs : q # p => threadsVec'[q] = threadsVec[q]
  BY <1>1 DEF NewProc
<1>5. threadsVec' \in [Procs -> Vector(Threads)]
  BY <1>0, <1>1 DEF NewProc
<1> HIDE DEF single
<1>6. LiveInv'
  BY <1>3 DEF IInv, LiveInv
<1>7. ASSUME NEW q \in Procs
      PROVE  /\ q \in palloc' => threadsVec'[q].length > 0
             /\ \A i \in DOMAIN threadsVec'[q].data :
                  threadsVec'[q].data[i] \in talloc' /\ parent'[threadsVec'[q].data[i]] = q
  <2>1. CASE q = p
    <3>1. threadsVec'[q].length = 1 /\ DOMAIN threadsVec'[q].data = {1} /\ threadsVec'[q].data[1] = t
      BY <1>0, <1>4, <2>1
    <3> QED
      BY <1>2, <1>3, <2>1, <3>1
  <2>2. CASE q # p
    <3>1. threadsVec'[q] = threadsVec[q]
      BY <1>4, <2>2
    <3>2. q \in palloc' => threadsVec[q].length > 0
      BY <1>2, <2>2 DEF IInv, VecInv
    <3>3. \A i \in DOMAIN threadsVec[q].data : threadsVec[q].data[i] \in talloc /\ parent[threadsVec[q].data[i]] = q
      BY DEF IInv, VecInv
    <3>4. \A u \in talloc : u \in talloc' /\ parent'[u] = parent[u]
      BY <1>1, <1>2, <1>3
    <3> QED
      BY <3>1, <3>2, <3>3, <3>4
  <2> QED
    BY <2>1, <2>2
<1>8. \A u \in talloc' : parent'[u] \in palloc' \cup {NoProc}
  BY <1>1, <1>2, <1>3 DEF IInv, VecInv
<1>9. VecInv'
  BY <1>7, <1>8 DEF VecInv
<1> QED
  BY <1>1, <1>2, <1>3, <1>4, <1>5, <1>6, <1>9

LEMMA AllocProcStep ==
  ASSUME IInv, NEW c \in Cpus, AllocProc(c)
  PROVE  IInv'
<1>1. PICK p \in Procs \ palloc, t \in Threads \ talloc :
        /\ NewProc(p, t)
        /\ initproc' = IF initproc = NoProc THEN p ELSE initproc
        /\ job' = [job EXCEPT ![t] = NoJob,
                              ![Context(c)] = [at |-> "pushProc", proc |-> p, thread |-> NoThread, len |-> 0]]
  BY DEF AllocProc
<1>2. /\ UNCHANGED <<proc_table, cur, idleP, sched_lock, thread_lock, timer, pc>>
      /\ proc_lock' = FALSE /\ job[Context(c)].at = "allocProc"
  BY DEF AllocProc, Executes
<1>3. /\ tstate' \in [Threads -> State] /\ pstate' \in [Procs -> State]
      /\ parent' \in [Threads -> Procs \cup {NoProc}]
      /\ threadsVec' \in [Procs -> Vector(Threads)]
      /\ talloc' = talloc \cup {t} /\ palloc' = palloc \cup {p}
      /\ talloc' \subseteq Threads /\ palloc' \subseteq Procs
      /\ tstate'[t] = "READY" /\ parent'[t] = p
      /\ \A u \in Threads : u # t => tstate'[u] = tstate[u] /\ parent'[u] = parent[u]
      /\ \A q \in palloc : threadsVec'[q] = threadsVec[q]
      /\ LiveInv' /\ VecInv'
  BY <1>1, NewProcFacts
<1>4. /\ Context(c) \in Contexts /\ t \in Contexts /\ t # Context(c)
      /\ t # Boot /\ p # NoProc /\ t # NoThread
      /\ talloc \subseteq Threads /\ palloc \subseteq Procs
      /\ initproc \in Procs \cup {NoProc}
  <2>1. talloc \subseteq Threads /\ palloc \subseteq Procs /\ initproc \in Procs \cup {NoProc}
    BY DEF IInv, TypeOK
  <2> QED
    BY <2>1, ContextFacts, SchedAssumption DEF Contexts
<1>5. /\ job \in [Contexts -> JobRecord] /\ job' \in [Contexts -> JobRecord]
      /\ job'[t].at = "none"
      /\ job'[Context(c)].at = "pushProc" /\ job'[Context(c)].proc = p
      /\ \A x \in Contexts : x # t /\ x # Context(c) => job'[x] = job[x]
  <2> DEFINE new == [at |-> "pushProc", proc |-> p, thread |-> NoThread, len |-> 0]
  <2>1. new \in JobRecord /\ new.at = "pushProc" /\ new.proc = p /\ NoJob \in JobRecord /\ NoJob.at = "none"
    BY DEF JobRecord, NoJob
  <2>2. job \in [Contexts -> JobRecord]
    BY DEF IInv, TypeOK, JobRecord
  <2>3. job' = [job EXCEPT ![t] = NoJob, ![Context(c)] = new]
    BY <1>1
  <2> HIDE DEF new
  <2> QED
    BY <1>4, <2>1, <2>2, <2>3
<1>6. TypeOK'
  BY <1>1, <1>2, <1>3, <1>4, <1>5 DEF IInv, TypeOK, JobRecord
<1>7. ~IsIdle(p) /\ \A q : IsIdle(q)' <=> IsIdle(q)
  <2>1. \A d \in Cpus : idleP[d] # p
    BY <1>4 DEF IInv, IdleInv
  <2> QED
    BY <1>2, <2>1 DEF IsIdle
<1>8. TableInv'
  BY <1>1, <1>2, <1>3, <1>7 DEF IInv, TableInv
<1>9. JobInv'
  <2> SUFFICES ASSUME NEW x \in Contexts PROVE JobOf(x)'
    BY DEF JobInv, Contexts
  <2>1. CASE x = t
    BY <1>4, <1>5, <2>1 DEF JobOf, HoldsProc, HoldsThread
  <2>2. CASE x = Context(c)
    <3>1. initproc' # NoProc
      BY <1>1, <1>4
    <3> QED
      BY <1>3, <1>5, <1>7, <2>2, <3>1 DEF JobOf, HoldsThread
  <2>3. CASE x # t /\ x # Context(c)
    <3>1. JobOf(x) /\ job'[x] = job[x]
      BY <1>5, <2>3 DEF IInv, JobInv
    <3>2. initproc # NoProc => initproc' # NoProc
      BY <1>1
    <3>3. job[x].at \in HoldsThread => /\ tstate'[job[x].thread] = tstate[job[x].thread]
                                       /\ parent'[job[x].thread] = parent[job[x].thread]
                                       /\ job[x].thread \in talloc'
      BY <1>3, <1>4, <3>1 DEF JobOf
    <3>4. \A y \in Contexts : job'[y].at \in HoldsThread => job'[y] = job[y]
      BY <1>5 DEF HoldsThread
    <3>5. /\ job[x].at = "storeThread" =>
               job[x].at \in HoldsThread /\ threadsVec'[job[x].proc] = threadsVec[job[x].proc]
          /\ job[x].at = "pushThread" => job[x].at \in HoldsThread
      BY <1>3, <3>1 DEF JobOf, HoldsProc, HoldsThread
    <3> QED
      BY <1>2, <1>3, <1>7, <3>1, <3>2, <3>3, <3>4, <3>5 DEF JobOf
  <2> QED
    BY <2>1, <2>2, <2>3
<1>10. CurInv'
  <2> SUFFICES ASSUME NEW d \in Cpus, cur[d].thread # NoThread
               PROVE  /\ cur[d].thread \in talloc' /\ cur[d].proc \in palloc'
                      /\ parent'[cur[d].thread] = parent[cur[d].thread]
                      /\ tstate'[cur[d].thread] = tstate[cur[d].thread]
    BY <1>2 DEF IInv, CurInv
  <2>1. cur[d].thread \in talloc /\ cur[d].proc \in palloc
    BY DEF IInv, CurInv
  <2> QED
    BY <1>3, <1>4, <2>1
<1>11. IdleInv'
  <2> SUFFICES ASSUME NEW d \in Cpus, idleP[d] # NoProc
               PROVE  /\ idleP[d] \in palloc'
                      /\ \A e \in Cpus : idleP[e] = idleP[d] => e = d
                      /\ \A u \in talloc' : parent'[u] = idleP[d] => job'[u].at = "halt" /\ tstate'[u] # "INITIAL"
    BY <1>2 DEF IdleInv
  <2>1. /\ idleP[d] \in palloc
        /\ \A e \in Cpus : idleP[e] = idleP[d] => e = d
        /\ \A u \in talloc : parent[u] = idleP[d] => job[u].at = "halt" /\ tstate[u] # "INITIAL"
    BY DEF IInv, IdleInv
  <2>2. ASSUME NEW u \in talloc', parent'[u] = idleP[d] PROVE job'[u].at = "halt" /\ tstate'[u] # "INITIAL"
    <3>1. u # t
      BY <1>3, <2>1, <2>2
    <3>2. u \in talloc /\ u \in Contexts /\ parent[u] = idleP[d] /\ tstate'[u] = tstate[u]
      BY <1>3, <1>4, <2>2, <3>1 DEF Contexts
    <3>3. u # Context(c)
      BY <1>2, <2>1, <3>2
    <3> QED
      BY <1>5, <2>1, <3>1, <3>2, <3>3
  <2> QED
    BY <1>3, <2>1, <2>2
<1>12. RunningIsCurrent'
  BY <1>2, <1>3 DEF IInv, RunningIsCurrent
<1> QED
  BY <1>2, <1>3, <1>6, <1>8, <1>9, <1>10, <1>11, <1>12 DEF IInv, LockInv, SingleRunner

\* A fresh thread that is in no process yet.
LEMMA AllocThreadStep ==
  ASSUME IInv, NEW c \in Cpus, AllocThread(c)
  PROVE  IInv'
<1> DEFINE j == job[Context(c)]
<1>1. PICK t \in Threads \ talloc :
        /\ talloc' = talloc \cup {t}
        /\ tstate' = [tstate EXCEPT ![t] = "INITIAL"]
        /\ parent' = [parent EXCEPT ![t] = NoProc]
        /\ job' = [job EXCEPT ![t] = NoJob,
                              ![Context(c)] = [j EXCEPT !.at = "pushThread", !.thread = t]]
  BY DEF AllocThread
<1>2. /\ UNCHANGED <<pstate, threadsVec, palloc, proc_table, initproc, cur, idleP, sched_lock, proc_lock,
                     timer, pc>>
      /\ thread_lock' = FALSE /\ j.at = "allocThread"
  BY DEF AllocThread, Executes
<1>3. Context(c) \in Contexts /\ JobOf(Context(c)) /\ job \in [Contexts -> JobRecord] /\ j \in JobRecord
  BY ContextFacts DEF IInv, JobInv, TypeOK, JobRecord
<1>4. j.proc \in palloc /\ ~IsIdle(j.proc)
  BY <1>2, <1>3 DEF JobOf, HoldsProc
<1>5. /\ t \in Contexts /\ t # Context(c) /\ t # Boot /\ t # NoThread
      /\ talloc \subseteq Threads /\ palloc \subseteq Procs
  <2>1. talloc \subseteq Threads /\ palloc \subseteq Procs
    BY DEF IInv, TypeOK
  <2> QED
    BY <2>1, ContextFacts, SchedAssumption DEF Contexts
<1>6. /\ job' \in [Contexts -> JobRecord] /\ job'[t].at = "none"
      /\ job'[Context(c)].at = "pushThread" /\ job'[Context(c)].thread = t
      /\ job'[Context(c)].proc = j.proc
      /\ \A x \in Contexts : x # t /\ x # Context(c) => job'[x] = job[x]
  <2> DEFINE new == [j EXCEPT !.at = "pushThread", !.thread = t]
  <2>1. /\ new \in JobRecord /\ new.at = "pushThread" /\ new.thread = t /\ new.proc = j.proc
        /\ NoJob \in JobRecord /\ NoJob.at = "none"
    <3> HIDE DEF j
    <3> QED
      BY <1>3 DEF JobRecord, NoJob
  <2>2. job' = [job EXCEPT ![t] = NoJob, ![Context(c)] = new]
    BY <1>1, <1>3, <1>5
  <2> HIDE DEF new, j
  <2> QED
    BY <1>3, <1>5, <2>1, <2>2
<1> HIDE DEF j
<1>7. /\ tstate' \in [Threads -> State] /\ parent' \in [Threads -> Procs \cup {NoProc}]
      /\ tstate'[t] = "INITIAL" /\ parent'[t] = NoProc
      /\ \A u \in Threads : u # t => tstate'[u] = tstate[u] /\ parent'[u] = parent[u]
  BY <1>1 DEF IInv, TypeOK, State
<1>8. talloc' = talloc \cup {t} /\ talloc' \subseteq Threads
  BY <1>1, <1>5
<1>9. TypeOK'
  BY <1>2, <1>6, <1>7, <1>8 DEF IInv, TypeOK, JobRecord
<1>10. LiveInv'
  BY <1>2, <1>7 DEF IInv, LiveInv
<1>11. VecInv'
  <2>1. \A u \in talloc : u \in talloc' /\ parent'[u] = parent[u]
    BY <1>5, <1>7, <1>8
  <2>2. \A u \in talloc' : parent'[u] \in palloc' \cup {NoProc}
    BY <1>2, <1>7, <1>8, <2>1 DEF IInv, VecInv
  <2> QED
    BY <1>2, <2>1, <2>2 DEF IInv, VecInv
<1>12. \A q : IsIdle(q)' <=> IsIdle(q)
  BY <1>2 DEF IsIdle
<1>13. TableInv'
  BY <1>2, <1>12 DEF IInv, TableInv
<1>14. JobInv'
  <2> SUFFICES ASSUME NEW x \in Contexts PROVE JobOf(x)'
    BY DEF JobInv, Contexts
  <2>1. \A y \in Contexts : y # Context(c) /\ job'[y].at \in HoldsThread =>
          y # t /\ job'[y] = job[y] /\ job[y].thread \in talloc
    BY <1>6 DEF IInv, JobInv, JobOf, HoldsThread
  <2>2. CASE x = t
    BY <1>5, <1>6, <2>2 DEF JobOf, HoldsProc, HoldsThread
  <2>3. CASE x = Context(c)
    <3>1. \A y \in Contexts : job'[y].at \in HoldsThread /\ job'[y].thread = t => y = x
      BY <2>1, <2>3
    <3> QED
      BY <1>2, <1>4, <1>6, <1>7, <1>8, <1>12, <2>3, <3>1 DEF JobOf, HoldsProc, HoldsThread, AfterInit
  <2>4. CASE x # t /\ x # Context(c)
    <3>1. JobOf(x) /\ job'[x] = job[x]
      BY <1>6, <2>4 DEF IInv, JobInv
    <3>2. job[x].at \in HoldsThread =>
            /\ job[x].thread \in talloc' /\ job[x].thread # t
            /\ tstate'[job[x].thread] = tstate[job[x].thread]
            /\ parent'[job[x].thread] = parent[job[x].thread]
      BY <1>5, <1>7, <1>8, <3>1 DEF JobOf
    <3>3. \A y \in Contexts : job'[y].at \in HoldsThread /\ job'[y].thread # t => job'[y] = job[y]
      BY <1>6, <2>1
    <3>4. job[x].at \in {"pushThread", "storeThread"} => job[x].at \in HoldsThread
      BY DEF HoldsThread
    <3> QED
      BY <1>2, <1>12, <3>1, <3>2, <3>3, <3>4 DEF JobOf
  <2> QED
    BY <2>2, <2>3, <2>4
<1>15. CurInv'
  <2> SUFFICES ASSUME NEW d \in Cpus, cur[d].thread # NoThread
               PROVE  /\ cur[d].thread \in talloc'
                      /\ parent'[cur[d].thread] = parent[cur[d].thread]
                      /\ tstate'[cur[d].thread] = tstate[cur[d].thread]
    BY <1>2 DEF IInv, CurInv
  <2>1. cur[d].thread \in talloc
    BY DEF IInv, CurInv
  <2> QED
    BY <1>5, <1>7, <1>8, <2>1
<1>16. IdleInv'
  <2> SUFFICES ASSUME NEW d \in Cpus, idleP[d] # NoProc, NEW u \in talloc', parent'[u] = idleP[d]
               PROVE  job'[u].at = "halt" /\ tstate'[u] # "INITIAL"
    BY <1>2 DEF IInv, IdleInv
  <2>1. u # t
    BY <1>7
  <2>2. u \in talloc /\ u \in Contexts /\ parent[u] = idleP[d] /\ tstate'[u] = tstate[u]
    BY <1>5, <1>7, <1>8, <2>1 DEF Contexts
  <2>3. job[u].at = "halt" /\ tstate[u] # "INITIAL"
    BY <2>2 DEF IInv, IdleInv
  <2>4. u # Context(c)
    BY <1>2, <2>3 DEF j
  <2> QED
    BY <1>6, <2>1, <2>2, <2>3, <2>4
<1>17. RunningIsCurrent'
  BY <1>2, <1>7 DEF IInv, RunningIsCurrent
<1> QED
  BY <1>2, <1>9, <1>10, <1>11, <1>13, <1>14, <1>15, <1>16, <1>17 DEF IInv, LockInv, SingleRunner

\* The new thread gets its process, and push_back has read the length of its vector.
LEMMA PushThreadStep ==
  ASSUME IInv, NEW c \in Cpus, PushThread(c)
  PROVE  IInv'
<1> DEFINE j == job[Context(c)]
           p == j.proc
           t == j.thread
           new == [j EXCEPT !.at = "storeThread", !.len = threadsVec[p].length]
<1>1. /\ UNCHANGED <<objVars, proc_table, initproc, cur, idleP, sched_lock, proc_lock, thread_lock, timer, pc>>
      /\ job' = [job EXCEPT ![Context(c)] = new]
      /\ parent' = [parent EXCEPT ![t] = p]
      /\ j.at = "pushThread"
  BY DEF PushThread, Reads, Executes
<1>2. Context(c) \in Contexts /\ j \in JobRecord /\ JobOf(Context(c))
  BY ContextFacts DEF IInv, JobInv, TypeOK, JobRecord
<1>3. /\ p \in palloc /\ ~IsIdle(p)
      /\ t \in talloc /\ tstate[t] = "INITIAL" /\ parent[t] = NoProc
      /\ \A x \in Contexts : job[x].at \in HoldsThread /\ job[x].thread = t => x = Context(c)
  BY <1>1, <1>2 DEF JobOf, HoldsProc, HoldsThread
<1>4. /\ p \in Procs /\ t \in Threads /\ threadsVec[p] \in Vector(Threads)
      /\ talloc \subseteq Threads /\ parent \in [Threads -> Procs \cup {NoProc}]
  BY <1>3 DEF IInv, TypeOK
<1>5. threadsVec[p].length \in Nat /\ 1 .. threadsVec[p].length \subseteq DOMAIN threadsVec[p].data
  BY <1>4, VectorFacts
<1> HIDE DEF j
<1>6. /\ new \in JobRecord /\ new.at = "storeThread" /\ new.proc = p /\ new.thread = t
      /\ new.len = threadsVec[p].length
  BY <1>2, <1>5 DEF JobRecord
<1> HIDE DEF new, p, t
<1>7. /\ parent' \in [Threads -> Procs \cup {NoProc}] /\ parent'[t] = p
      /\ \A u \in Threads : u # t => parent'[u] = parent[u]
  BY <1>1, <1>4
<1>8. job' \in [Contexts -> JobRecord] /\ JobInv' /\ IdleInv'
  <2>1. JobMoves(c, new)
    BY <1>1, <1>3, <1>5, <1>6, <1>7 DEF JobMoves, HoldsThread, AfterInit, objVars, j, t
  <2>2. \A x \in Contexts : x # Context(c) /\ job[x].at \in HoldsThread =>
          parent'[job[x].thread] = parent[job[x].thread]
    <3>1. \A x \in Contexts : job[x].at \in HoldsThread => job[x].thread \in Threads
      BY <1>4 DEF IInv, JobInv, JobOf
    <3> QED
      BY <1>3, <1>7, <3>1
  <2>3. \A u \in talloc : parent'[u] = parent[u] \/ ~IsIdle(parent'[u])
    BY <1>3, <1>4, <1>7
  <2>4. job[Context(c)].at # "halt" /\ UNCHANGED <<talloc, palloc, initproc, idleP, tstate>> /\ Grows
    BY <1>1 DEF objVars, Grows, j
  <2> QED
    BY <2>1, <2>2, <2>3, <2>4, MoveJob
<1>9. UNCHANGED <<tstate, pstate, threadsVec, talloc, palloc>>
  BY <1>1 DEF objVars
<1>10. TypeOK'
  BY <1>1, <1>7, <1>8, <1>9 DEF IInv, TypeOK, JobRecord
<1>11. VecInv'
  <2>1. NoProc \notin Procs
    BY SchedAssumption
  <2>2. ASSUME NEW q \in Procs, NEW i \in DOMAIN threadsVec[q].data
        PROVE  threadsVec[q].data[i] \in talloc /\ parent'[threadsVec[q].data[i]] = q
    <3>1. threadsVec[q].data[i] \in talloc /\ parent[threadsVec[q].data[i]] = q
      BY DEF IInv, VecInv
    <3>2. threadsVec[q].data[i] # t
      BY <1>3, <2>1, <3>1
    <3> QED
      BY <1>4, <1>7, <3>1, <3>2
  <2>3. \A u \in talloc : parent'[u] \in palloc \cup {NoProc}
    BY <1>3, <1>4, <1>7 DEF IInv, VecInv
  <2>4. \A q \in Procs : q \in palloc => threadsVec[q].length > 0
    BY DEF IInv, VecInv
  <2> QED
    BY <1>9, <2>2, <2>3, <2>4 DEF VecInv
<1>12. CurInv'
  <2> SUFFICES ASSUME NEW d \in Cpus, cur[d].thread # NoThread
               PROVE  parent'[cur[d].thread] = parent[cur[d].thread]
    BY <1>1, <1>9 DEF IInv, CurInv
  <2>1. cur[d].thread \in talloc /\ tstate[cur[d].thread] # "INITIAL"
    BY DEF IInv, CurInv
  <2> QED
    BY <1>3, <1>4, <1>7, <2>1
<1> QED
  BY <1>1, <1>8, <1>9, <1>10, <1>11, <1>12 DEF IInv, LockInv, LiveInv, TableInv, IsIdle, SingleRunner,
                                               RunningIsCurrent

\* The thread is stored in the vector of its process.
LEMMA StoreThreadStep ==
  ASSUME IInv, NEW c \in Cpus, StoreThread(c)
  PROVE  IInv'
<1> DEFINE j == job[Context(c)]
           p == j.proc
           t == j.thread
           new == [at |-> "readyThread", proc |-> NoProc, thread |-> t, len |-> 0]
<1>1. /\ UNCHANGED <<tstate, pstate, talloc, palloc, parent, proc_table, initproc, cur, idleP, sched_lock,
                     proc_lock, thread_lock, timer, pc>>
      /\ job' = [job EXCEPT ![Context(c)] = new]
      /\ j.at = "storeThread"
  BY DEF StoreThread, Becomes, Executes
<1>2. Context(c) \in Contexts /\ j \in JobRecord /\ JobOf(Context(c)) /\ j.len \in Nat
  BY ContextFacts DEF IInv, JobInv, TypeOK, JobRecord
<1>3. /\ p \in palloc /\ t \in talloc /\ parent[t] = p
      /\ 1 .. j.len \subseteq DOMAIN threadsVec[p].data
  BY <1>1, <1>2 DEF JobOf, HoldsProc, HoldsThread
<1>4. /\ p \in Procs /\ t \in Threads /\ threadsVec \in [Procs -> Vector(Threads)]
      /\ threadsVec[p] \in Vector(Threads)
  BY <1>3 DEF IInv, TypeOK
<1>5. PICK fill \in [Unwritten(threadsVec[p], j.len) -> Threads] :
        threadsVec' = [threadsVec EXCEPT ![p] = push_back(threadsVec[p], j.len, t, fill)]
  BY <1>4 DEF StoreThread
<1> HIDE DEF p, t, j
<1> DEFINE w == push_back(threadsVec[p], j.len, t, fill)
<1>6. /\ w \in Vector(Threads) /\ w.length = j.len + 1 /\ DOMAIN threadsVec[p].data \subseteq DOMAIN w.data
      /\ \A i \in DOMAIN w.data :
           w.data[i] = t \/ (i \in DOMAIN threadsVec[p].data /\ w.data[i] = threadsVec[p].data[i])
  BY <1>2, <1>3, <1>4, PushFacts
<1> HIDE DEF w
<1>7. /\ threadsVec' \in [Procs -> Vector(Threads)] /\ threadsVec'[p] = w
      /\ \A q \in Procs : q # p => threadsVec'[q] = threadsVec[q]
  BY <1>4, <1>5, <1>6 DEF w
<1>8. job' \in [Contexts -> JobRecord] /\ JobInv' /\ IdleInv'
  <2>1. JobMoves(c, new)
    BY <1>1, <1>4 DEF JobMoves, JobRecord, HoldsProc, HoldsThread, AfterInit, j, t
  <2>2. Grows
    BY <1>1, <1>6, <1>7 DEF Grows
  <2>3. job[Context(c)].at # "halt"
    BY <1>1 DEF j
  <2> HIDE DEF new
  <2> QED
    BY <1>1, <2>1, <2>2, <2>3, MoveJob
<1>9. TypeOK'
  BY <1>1, <1>7, <1>8 DEF IInv, TypeOK, JobRecord
<1>10. VecInv'
  <2> SUFFICES ASSUME NEW q \in Procs
               PROVE  /\ q \in palloc => threadsVec'[q].length > 0
                      /\ \A i \in DOMAIN threadsVec'[q].data :
                           threadsVec'[q].data[i] \in talloc /\ parent[threadsVec'[q].data[i]] = q
    BY <1>1 DEF IInv, VecInv
  <2>1. /\ q \in palloc => threadsVec[q].length > 0
        /\ \A i \in DOMAIN threadsVec[q].data : threadsVec[q].data[i] \in talloc /\ parent[threadsVec[q].data[i]] = q
    BY DEF IInv, VecInv
  <2>2. CASE q = p
    <3>1. w.length > 0
      BY <1>2, <1>6
    <3> QED
      BY <1>3, <1>6, <1>7, <2>1, <2>2, <3>1
  <2>3. CASE q # p
    BY <1>7, <2>1, <2>3
  <2> QED
    BY <2>2, <2>3
<1> QED
  BY <1>1, <1>8, <1>9, <1>10 DEF IInv, LockInv, LiveInv, TableInv, IsIdle, CurInv, SingleRunner,
                                 RunningIsCurrent

-----------------------------------------------------------------------------
(* switchTask. *)

\* Inside switchTask the other CPUs run, or wait for sched_lock, and so their
\* threads are RUNNING.
LEMMA OthersRun ==
  ASSUME IInv, NEW c \in Cpus, pc[c] \in InSwitch, NEW d \in Cpus, d # c
  PROVE  pc[d] \in {"run", "enter"} /\ (cur[d].thread # NoThread => tstate[cur[d].thread] = "RUNNING")
<1>1. pc[d] \notin InSwitch
  BY DEF IInv, LockInv
<1>2. pc[d] \in {"run", "enter"}
  BY <1>1 DEF IInv, TypeOK, InSwitch
<1> QED
  BY <1>2 DEF IInv, CurInv

\* A CPU in switchTask whose own thread is READY takes a READY thread t of p.
LEMMA SwitchStep ==
  ASSUME IInv, NEW c \in Cpus, pc[c] \in InSwitch, NEW p \in palloc, NEW t \in talloc,
         parent[t] = p, tstate[t] = "READY", \A d \in Cpus : idleP[d] = p => d = c,
         Switch(c, p, t),
         UNCHANGED <<objVars, parent, proc_table, initproc, idleP, sched_lock, proc_lock, thread_lock,
                     timer, job>>
  PROVE  IInv'
<1>1. /\ cur \in [Cpus -> [proc : Procs \cup {NoProc}, thread : Threads \cup {NoThread}]]
      /\ pc \in [Cpus -> {"run", "enter", "first", "next", "nofree", "idle", "commit"}]
      /\ p \in Procs /\ t \in Threads
  BY DEF IInv, TypeOK
<1>2. /\ cur' \in [Cpus -> [proc : Procs \cup {NoProc}, thread : Threads \cup {NoThread}]]
      /\ cur'[c].proc = p /\ cur'[c].thread = t
      /\ \A d \in Cpus : d # c => cur'[d] = cur[d]
  <2> DEFINE new == [proc |-> p, thread |-> t]
  <2>1. /\ new \in [proc : Procs \cup {NoProc}, thread : Threads \cup {NoThread}]
        /\ new.proc = p /\ new.thread = t
    BY <1>1
  <2>2. cur' = [cur EXCEPT ![c] = new]
    BY DEF Switch
  <2> HIDE DEF new
  <2> QED
    BY <1>1, <2>1, <2>2
<1>3. /\ pc' \in [Cpus -> {"run", "enter", "first", "next", "nofree", "idle", "commit"}]
      /\ pc'[c] = "commit" /\ \A d \in Cpus : d # c => pc'[d] = pc[d]
  BY <1>1 DEF Switch
<1>4. UNCHANGED <<tstate, pstate, threadsVec, talloc, palloc>>
  BY DEF objVars
<1>5. TypeOK'
  BY <1>2, <1>3, <1>4 DEF IInv, TypeOK
<1>6. LockInv'
  BY <1>3 DEF IInv, LockInv, InSwitch
<1>7. CurInv'
  <2> SUFFICES ASSUME NEW d \in Cpus
               PROVE  IF cur'[d].thread = NoThread
                      THEN cur'[d].proc = NoProc /\ pc'[d] \notin {"next", "commit"}
                      ELSE /\ cur'[d].thread \in talloc /\ cur'[d].proc \in palloc
                           /\ parent[cur'[d].thread] = cur'[d].proc
                           /\ tstate[cur'[d].thread] = IF pc'[d] \in {"run", "enter"} THEN "RUNNING" ELSE "READY"
                           /\ \A e \in Cpus : idleP[e] = cur'[d].proc => e = d
    BY <1>4 DEF CurInv
  <2>1. CASE d = c
    <3>1. t # NoThread
      BY <1>1, SchedAssumption
    <3> QED
      BY <1>2, <1>3, <2>1, <3>1
  <2>2. CASE d # c
    BY <1>2, <1>3, <2>2 DEF IInv, CurInv
  <2> QED
    BY <2>1, <2>2
<1>8. SingleRunner'
  <2>1. \A d \in Cpus : d # c => cur[d].thread # t
    <3> SUFFICES ASSUME NEW d \in Cpus, d # c, cur[d].thread = t PROVE FALSE
      OBVIOUS
    <3>1. t # NoThread
      BY <1>1, SchedAssumption
    <3> QED
      BY <3>1, OthersRun
  <2> QED
    BY <1>2, <2>1 DEF IInv, SingleRunner
<1>9. RunningIsCurrent'
  <2> SUFFICES ASSUME NEW u \in Threads, tstate[u] = "RUNNING" PROVE \E d \in Cpus : cur'[d].thread = u
    BY <1>4 DEF RunningIsCurrent
  <2>1. PICK d \in Cpus : cur[d].thread = u
    BY DEF IInv, RunningIsCurrent
  <2>2. d # c
    <3> SUFFICES ASSUME d = c PROVE FALSE
      OBVIOUS
    <3>1. u # NoThread
      BY SchedAssumption
    <3> QED
      BY <2>1, <3>1 DEF IInv, CurInv, InSwitch
  <2> QED
    BY <1>2, <2>1, <2>2
<1> QED
  BY <1>4, <1>5, <1>6, <1>7, <1>8, <1>9
     DEF IInv, LiveInv, VecInv, TableInv, IsIdle, JobInv, JobOf, IdleInv

\* A CPU in switchTask goes on to the next of its steps.
LEMMA MovePc ==
  ASSUME IInv, NEW c \in Cpus, pc[c] \in InSwitch, NEW s \in {"nofree", "idle"},
         pc' = [pc EXCEPT ![c] = s],
         UNCHANGED <<objVars, parent, proc_table, initproc, cur, idleP, sched_lock, proc_lock,
                     thread_lock, timer, job>>
  PROVE  IInv'
<1>1. /\ pc \in [Cpus -> {"run", "enter", "first", "next", "nofree", "idle", "commit"}]
      /\ pc' \in [Cpus -> {"run", "enter", "first", "next", "nofree", "idle", "commit"}]
      /\ pc'[c] = s /\ \A d \in Cpus : d # c => pc'[d] = pc[d]
  BY DEF IInv, TypeOK
<1>2. UNCHANGED <<tstate, pstate, threadsVec, talloc, palloc>>
  BY DEF objVars
<1>3. TypeOK'
  BY <1>1, <1>2 DEF IInv, TypeOK
<1>4. LockInv'
  BY <1>1 DEF IInv, LockInv, InSwitch
<1>5. CurInv'
  <2>1. \A d \in Cpus : /\ pc'[d] \in {"run", "enter"} <=> pc[d] \in {"run", "enter"}
                        /\ pc'[d] \in {"next", "commit"} => pc[d] \in {"next", "commit"}
    BY <1>1 DEF InSwitch
  <2> QED
    BY <1>2, <2>1 DEF IInv, CurInv
<1> QED
  BY <1>2, <1>3, <1>4, <1>5
     DEF IInv, LiveInv, VecInv, TableInv, IsIdle, JobInv, JobOf, IdleInv, SingleRunner, RunningIsCurrent

LEMMA TickStep ==
  ASSUME IInv, NEW c \in Cpus, Tick(c)
  PROVE  IInv'
<1>1. /\ pc \in [Cpus -> {"run", "enter", "first", "next", "nofree", "idle", "commit"}]
      /\ pc' \in [Cpus -> {"run", "enter", "first", "next", "nofree", "idle", "commit"}]
      /\ pc[c] = "run" /\ pc'[c] = "enter" /\ \A d \in Cpus : d # c => pc'[d] = pc[d]
  BY DEF IInv, TypeOK, Tick
<1>2. UNCHANGED <<tstate, pstate, threadsVec, talloc, palloc, parent, proc_table, initproc, cur, idleP,
                  sched_lock, proc_lock, thread_lock, timer, job>>
  BY DEF Tick, objVars
<1>3. TypeOK'
  BY <1>1, <1>2 DEF IInv, TypeOK
<1>4. LockInv'
  BY <1>1, <1>2 DEF IInv, LockInv, InSwitch
<1>5. CurInv'
  <2>1. \A d \in Cpus : /\ pc'[d] \in {"run", "enter"} <=> pc[d] \in {"run", "enter"}
                        /\ pc'[d] \in {"next", "commit"} => pc[d] \in {"next", "commit"}
    BY <1>1
  <2> QED
    BY <1>2, <2>1 DEF IInv, CurInv
<1> QED
  BY <1>2, <1>3, <1>4, <1>5
     DEF IInv, LiveInv, VecInv, TableInv, IsIdle, JobInv, JobOf, IdleInv, SingleRunner, RunningIsCurrent

\* The interrupted thread becomes READY, if the CPU has one.
LEMMA EnterStep ==
  ASSUME IInv, NEW c \in Cpus, Enter(c)
  PROVE  IInv'
<1>1. /\ pc \in [Cpus -> {"run", "enter", "first", "next", "nofree", "idle", "commit"}]
      /\ pc' \in [Cpus -> {"run", "enter", "first", "next", "nofree", "idle", "commit"}]
      /\ pc[c] = "enter" /\ pc'[c] = (IF HasContext(c) THEN "next" ELSE "first")
      /\ \A d \in Cpus : d # c => pc'[d] = pc[d]
  BY DEF IInv, TypeOK, Enter
<1>2. /\ UNCHANGED <<pstate, threadsVec, talloc, palloc, parent, proc_table, initproc, cur, idleP,
                     proc_lock, thread_lock, timer, job>>
      /\ ~sched_lock /\ sched_lock' = TRUE
  BY DEF Enter
<1>3. /\ cur[c].thread = NoThread => ~HasContext(c)
      /\ cur[c].thread # NoThread =>
           /\ HasContext(c) /\ cur[c].thread \in Threads /\ cur[c].thread \in talloc
           /\ tstate[cur[c].thread] = "RUNNING"
  <2>1. cur[c].thread # NoThread => /\ cur[c].thread \in talloc /\ cur[c].proc \in palloc
                                    /\ tstate[cur[c].thread] = "RUNNING"
    BY <1>1 DEF IInv, CurInv
  <2>2. talloc \subseteq Threads /\ palloc \subseteq Procs
    BY DEF IInv, TypeOK
  <2> QED
    BY <2>1, <2>2, SchedAssumption DEF HasContext
<1>4. /\ tstate \in [Threads -> State] /\ tstate' \in [Threads -> State]
      /\ \A u \in Threads : u # cur[c].thread => tstate'[u] = tstate[u]
      /\ cur[c].thread # NoThread => tstate'[cur[c].thread] = "READY"
  <2>1. tstate \in [Threads -> State]
    BY DEF IInv, TypeOK
  <2>2. CASE cur[c].thread = NoThread
    <3>1. tstate' = tstate
      BY <1>3, <2>2 DEF Enter
    <3> QED
      BY <2>1, <2>2, <3>1
  <2>3. CASE cur[c].thread # NoThread
    <3>1. tstate' = [tstate EXCEPT ![cur[c].thread] = "READY"]
      BY <1>3, <2>3 DEF Enter
    <3> QED
      BY <1>3, <2>1, <2>3, <3>1 DEF State
  <2> QED
    BY <2>2, <2>3
<1>5. TypeOK'
  BY <1>1, <1>2, <1>4 DEF IInv, TypeOK
<1>6. LockInv'
  <2>1. \A d \in Cpus : pc[d] \notin InSwitch
    BY <1>2 DEF IInv, LockInv
  <2> QED
    BY <1>1, <1>2, <2>1 DEF LockInv
<1>7. LiveInv'
  <2>1. \A u \in Threads : u # NoThread
    BY SchedAssumption
  <2> QED
    BY <1>2, <1>4, <2>1 DEF IInv, LiveInv
<1>8. JobInv'
  <2>1. \A x \in Contexts : job[x].at \in HoldsThread => tstate'[job[x].thread] = tstate[job[x].thread]
    <3> SUFFICES ASSUME NEW x \in Contexts, job[x].at \in HoldsThread
                 PROVE  job[x].thread \in Threads /\ job[x].thread # cur[c].thread
      BY <1>4
    <3>1. job[x].thread \in talloc /\ tstate[job[x].thread] = "INITIAL"
      BY DEF IInv, JobInv, JobOf
    <3>2. job[x].thread \in Threads
      BY <3>1 DEF IInv, TypeOK
    <3>3. job[x].thread # NoThread
      BY <3>2, SchedAssumption
    <3> QED
      BY <1>3, <3>1, <3>2, <3>3
  <2> QED
    BY <1>2, <2>1 DEF IInv, JobInv, JobOf, IsIdle
<1>9. CurInv'
  <2> SUFFICES ASSUME NEW d \in Cpus
               PROVE  IF cur[d].thread = NoThread
                      THEN cur[d].proc = NoProc /\ pc'[d] \notin {"next", "commit"}
                      ELSE /\ cur[d].thread \in talloc /\ cur[d].proc \in palloc
                           /\ parent[cur[d].thread] = cur[d].proc
                           /\ tstate'[cur[d].thread] = IF pc'[d] \in {"run", "enter"} THEN "RUNNING" ELSE "READY"
                           /\ \A e \in Cpus : idleP[e] = cur[d].proc => e = d
    BY <1>2 DEF CurInv
  <2>1. CASE d = c
    BY <1>1, <1>3, <1>4, <2>1 DEF IInv, CurInv
  <2>2. CASE d # c
    <3>1. cur[d].thread # NoThread => cur[d].thread # cur[c].thread
      BY <2>2 DEF IInv, SingleRunner
    <3>2. cur[d].thread # NoThread => cur[d].thread \in Threads
      BY DEF IInv, CurInv, TypeOK
    <3>3. cur[d].thread # NoThread => tstate'[cur[d].thread] = tstate[cur[d].thread]
      BY <1>4, <3>1, <3>2
    <3> QED
      BY <1>1, <2>2, <3>3 DEF IInv, CurInv
  <2> QED
    BY <2>1, <2>2
<1>10. IdleInv'
  <2>1. \A u \in talloc : tstate[u] # "INITIAL" => tstate'[u] # "INITIAL"
    <3>1. talloc \subseteq Threads
      BY DEF IInv, TypeOK
    <3>2. \A u \in Threads : u # NoThread
      BY SchedAssumption
    <3> QED
      BY <1>4, <3>1, <3>2
  <2> QED
    BY <1>2, <2>1 DEF IInv, IdleInv
<1>11. RunningIsCurrent'
  <2>1. \A u \in Threads : tstate'[u] = "RUNNING" => tstate[u] = "RUNNING"
    <3>1. \A u \in Threads : u # NoThread
      BY SchedAssumption
    <3> QED
      BY <1>4, <3>1
  <2> QED
    BY <1>2, <2>1 DEF IInv, RunningIsCurrent
<1> QED
  BY <1>2, <1>5, <1>6, <1>7, <1>8, <1>9, <1>10, <1>11 DEF IInv, VecInv, TableInv, IsIdle, SingleRunner

\* What the searches of switchTask find: a READY thread of its process.
LEMMA ReadyFound ==
  ASSUME IInv, NEW p \in Procs, NEW k \in Nat \ {0}, ReadyFrom(Objects, p, k) # {}
  PROVE  LET t == threadsVec[p].data[Least(ReadyFrom(Objects, p, k))]
         IN  t \in talloc /\ parent[t] = p /\ tstate[t] = "READY"
<1> DEFINE R == ReadyFrom(Objects, p, k)
<1>1. threadsVec[p].length \in Nat /\ 1 .. threadsVec[p].length \subseteq DOMAIN threadsVec[p].data
  BY VectorFacts DEF IInv, TypeOK
<1>2. R = { i \in k .. threadsVec[p].length : tstate[threadsVec[p].data[i]] = "READY" }
  BY DEF ReadyFrom, Objects
<1>3. R \subseteq Nat
  BY <1>1, <1>2
<1> HIDE DEF R
<1>4. Least(R) \in R
  BY <1>3, LeastIn DEF R
<1>5. Least(R) \in k .. threadsVec[p].length /\ tstate[threadsVec[p].data[Least(R)]] = "READY"
  BY <1>2, <1>4
<1>6. Least(R) \in 1 .. threadsVec[p].length
  <2> DEFINE n == threadsVec[p].length
             l == Least(R)
  <2>1. n \in Nat /\ l \in k .. n
    BY <1>1, <1>5
  <2> HIDE DEF n, l
  <2>2. l \in 1 .. n
    BY <2>1
  <2> QED
    BY <2>2 DEF n, l
<1>7. tstate[threadsVec[p].data[Least(R)]] = "READY"
  BY <1>5
<1> QED
  BY <1>1, <1>6, <1>7 DEF IInv, VecInv, R

\* And a process of the table.
LEMMA RunnableFound ==
  ASSUME IInv, NEW k \in Nat \ {0}, Runnable(Objects, k) # {}
  PROVE  LET i == Least(Runnable(Objects, k))
             q == proc_table.data[i]
             t == FirstReady(Objects, q)
         IN  /\ i \in 1 .. proc_table.length
             /\ q \in palloc /\ ~IsIdle(q)
             /\ t \in talloc /\ parent[t] = q /\ tstate[t] = "READY"
<1> DEFINE R == Runnable(Objects, k)
           i == Least(R)
           q == proc_table.data[i]
<1>1. proc_table.length \in Nat /\ 1 .. proc_table.length \subseteq DOMAIN proc_table.data
  BY VectorFacts DEF IInv, TypeOK
<1>2. R \subseteq k .. proc_table.length /\ \A j \in R : ReadyFrom(Objects, proc_table.data[j], 1) # {}
  BY DEF Runnable
<1>3. R \subseteq Nat
  BY <1>1, <1>2
<1> HIDE DEF R
<1>4. i \in R
  BY <1>3, LeastIn DEF R
<1>5. i \in 1 .. proc_table.length
  <2> DEFINE n == proc_table.length
  <2>1. n \in Nat /\ i \in k .. n
    BY <1>1, <1>2, <1>4
  <2> HIDE DEF n, i
  <2>2. i \in 1 .. n
    BY <2>1
  <2> QED
    BY <2>2 DEF n
<1>6. q \in palloc /\ ~IsIdle(q) /\ q \in Procs
  BY <1>1, <1>5 DEF IInv, TableInv, TypeOK
<1>7. ReadyFrom(Objects, q, 1) # {}
  BY <1>2, <1>4
<1> HIDE DEF i, q
<1>8. FirstReady(Objects, q) \in talloc /\ parent[FirstReady(Objects, q)] = q
      /\ tstate[FirstReady(Objects, q)] = "READY"
  <2>1. FirstReady(Objects, q) = threadsVec[q].data[Least(ReadyFrom(Objects, q, 1))]
    BY DEF FirstReady, Objects
  <2> QED
    BY <1>6, <1>7, <2>1, ReadyFound
<1> QED
  BY <1>5, <1>6, <1>8 DEF i, q, R

LEMMA StartsInside ==
  ASSUME NEW v, NEW thing
  PROVE  StartAfter(v, thing) \in Nat \ {0}
  BY DEF StartAfter, find, NotFound

LEMMA PickFirstStep ==
  ASSUME IInv, NEW c \in Cpus, PickFirst(c)
  PROVE  IInv'
<1> DEFINE chosen == Runnable(Objects, 1)
           end == IF chosen # {} THEN Least(chosen) - 1 ELSE proc_table.length
           q == proc_table.data[Least(chosen)]
<1>1. /\ pc[c] = "first" /\ pc[c] \in InSwitch
      /\ SetObjects(Passed(Objects, end))
      /\ IF chosen # {} THEN Switch(c, q, FirstReady(Passed(Objects, end), q)) ELSE GoIdle(c)
      /\ UNCHANGED <<parent, proc_table, initproc, idleP, sched_lock, proc_lock, thread_lock, timer, job>>
  BY DEF PickFirst, Passed, InSwitch
<1>2. proc_table.length \in Nat /\ 1 .. proc_table.length \subseteq DOMAIN proc_table.data
  BY VectorFacts DEF IInv, TypeOK
<1>3. chosen # {} => Least(chosen) \in 1 .. proc_table.length /\ q \in palloc /\ ~IsIdle(q)
  BY RunnableFound
<1> HIDE DEF chosen, q
<1>4. end \in Nat /\ end <= proc_table.length
  BY <1>2, <1>3
<1>5. \A i \in 1 .. proc_table.length : Lives(Objects, proc_table.data[i])
  BY <1>2, AllocatedLive DEF IInv, TableInv
<1> HIDE DEF end
<1>6. Passed(Objects, end) = Objects
  <2>1. \A i \in 1 .. end : Lives(Objects, proc_table.data[i])
    BY <1>2, <1>4, <1>5
  <2> QED
    BY <1>4, <2>1, PassNothing
<1>7. UNCHANGED objVars
  BY <1>1, <1>6, SameObjects
<1>8. CASE chosen # {}
  <2>1. /\ FirstReady(Objects, q) \in talloc /\ parent[FirstReady(Objects, q)] = q
        /\ tstate[FirstReady(Objects, q)] = "READY"
    BY <1>8, RunnableFound DEF chosen, q
  <2>2. Switch(c, q, FirstReady(Objects, q))
    BY <1>1, <1>6, <1>8
  <2>3. \A d \in Cpus : idleP[d] = q => d = c
    BY <1>3, <1>8 DEF IsIdle
  <2> QED
    BY <1>1, <1>3, <1>7, <1>8, <2>1, <2>2, <2>3, SwitchStep
<1>9. CASE chosen = {}
  <2>1. GoIdle(c)
    BY <1>1, <1>9
  <2> QED
    BY <1>1, <1>7, <2>1, MovePc DEF GoIdle
<1> QED
  BY <1>8, <1>9

\* A CPU at "next" has a thread, and its process lives.
LEMMA HasThread ==
  ASSUME IInv, NEW c \in Cpus, pc[c] = "next"
  PROVE  /\ cur[c].proc \in palloc /\ cur[c].proc \in Procs
         /\ \A d \in Cpus : idleP[d] = cur[c].proc => d = c
<1>1. cur[c].thread # NoThread
  BY DEF IInv, CurInv
<1> QED
  BY <1>1 DEF IInv, CurInv, TypeOK

LEMMA PickThreadStep ==
  ASSUME IInv, NEW c \in Cpus, PickThread(c)
  PROVE  IInv'
<1> DEFINE p == cur[c].proc
           start == StartAfter(threadsVec[p], cur[c].thread)
           t == threadsVec[p].data[Least(ReadyFrom(Objects, p, start))]
<1>1. /\ pc[c] = "next" /\ ReadyFrom(Objects, p, start) # {}
      /\ Switch(c, p, t)
      /\ UNCHANGED <<objVars, parent, proc_table, initproc, idleP, sched_lock, proc_lock, thread_lock,
                     timer, job>>
  BY DEF PickThread
<1>2. p \in palloc /\ p \in Procs /\ \A d \in Cpus : idleP[d] = p => d = c
  BY <1>1, HasThread
<1>3. start \in Nat \ {0}
  BY StartsInside
<1> HIDE DEF start, p
<1>4. t \in talloc /\ parent[t] = p /\ tstate[t] = "READY"
  BY <1>1, <1>2, <1>3, ReadyFound
<1>5. pc[c] \in InSwitch
  BY <1>1 DEF InSwitch
<1> HIDE DEF t
<1> QED
  BY <1>1, <1>2, <1>4, <1>5, SwitchStep

LEMMA PickProcStep ==
  ASSUME IInv, NEW c \in Cpus, PickProc(c)
  PROVE  IInv'
<1> DEFINE p == cur[c].proc
           start == StartAfter(proc_table, p)
           chosen == Runnable(Objects, start)
           q == proc_table.data[Least(chosen)]
<1>1. /\ pc[c] = "next"
      /\ IF chosen # {}
           THEN Switch(c, q, FirstReady(Objects, q)) /\ SetObjects(clean_proc(Objects, p))
           ELSE GoIdle(c) /\ UNCHANGED objVars
      /\ UNCHANGED <<parent, proc_table, initproc, idleP, sched_lock, proc_lock, thread_lock, timer, job>>
  BY DEF PickProc
<1>2. clean_proc(Objects, p) = Objects
  BY <1>1, HasThread, AllocatedLive, CleanNothing
<1>3. start \in Nat \ {0}
  BY StartsInside
<1> HIDE DEF start, p
<1>4. pc[c] \in InSwitch
  BY <1>1 DEF InSwitch
<1>5. CASE chosen # {}
  <2>1. /\ q \in palloc /\ ~IsIdle(q)
        /\ FirstReady(Objects, q) \in talloc /\ parent[FirstReady(Objects, q)] = q
        /\ tstate[FirstReady(Objects, q)] = "READY"
    BY <1>3, <1>5, RunnableFound
  <2>2. Switch(c, q, FirstReady(Objects, q)) /\ SetObjects(Objects)
    BY <1>1, <1>2, <1>5
  <2>3. \A d \in Cpus : idleP[d] = q => d = c
    BY <2>1 DEF IsIdle
  <2> HIDE DEF q, chosen
  <2> QED
    BY <1>1, <1>4, <2>1, <2>2, <2>3, SameObjects, SwitchStep
<1>6. CASE chosen = {}
  <2>1. GoIdle(c) /\ UNCHANGED objVars
    BY <1>1, <1>6
  <2> QED
    BY <1>1, <1>4, <2>1, MovePc DEF GoIdle
<1> QED
  BY <1>5, <1>6

LEMMA NoFreeStep ==
  ASSUME IInv, NEW c \in Cpus, NoFree(c)
  PROVE  IInv'
<1>1. /\ pc[c] \in InSwitch /\ SetObjects(clean_proc(Objects, cur[c].proc))
      /\ pc' = [pc EXCEPT ![c] = "idle"]
      /\ UNCHANGED <<parent, proc_table, initproc, cur, idleP, sched_lock, proc_lock, thread_lock, timer, job>>
  BY DEF NoFree, InSwitch
<1>2. cur[c].proc = NoProc \/ cur[c].proc \in palloc
  BY DEF IInv, CurInv
<1>3. clean_proc(Objects, cur[c].proc) = Objects
  BY <1>2, AllocatedLive, CleanNothing
<1>4. UNCHANGED objVars
  BY <1>1, <1>3, SameObjects
<1> QED
  BY <1>1, <1>4, MovePc

\* The idle thread is nobody else's, and so it is READY.
LEMMA IdleStep ==
  ASSUME IInv, NEW c \in Cpus, Idle(c)
  PROVE  IInv'
<1> DEFINE p == idleP[c]
           t == threadsVec[p].data[1]
<1>1. /\ pc[c] = "idle" /\ p # NoProc /\ Switch(c, p, t)
      /\ UNCHANGED <<objVars, parent, proc_table, initproc, idleP, sched_lock, proc_lock, thread_lock,
                     timer, job>>
  BY DEF Idle
<1>2. /\ p \in palloc /\ \A d \in Cpus : idleP[d] = p => d = c
      /\ \A u \in talloc : parent[u] = p => tstate[u] # "INITIAL"
  BY <1>1 DEF IInv, IdleInv
<1>3. t \in talloc /\ parent[t] = p
  <2>1. p \in Procs /\ threadsVec[p] \in Vector(Threads) /\ threadsVec[p].length > 0
    BY <1>2 DEF IInv, TypeOK, VecInv
  <2>2. 1 \in DOMAIN threadsVec[p].data
    BY <2>1, VectorFacts
  <2> QED
    BY <2>1, <2>2 DEF IInv, VecInv
<1>4. t \in Threads
  BY <1>3 DEF IInv, TypeOK
<1>5. tstate[t] # "RUNNING"
  <2> SUFFICES ASSUME tstate[t] = "RUNNING" PROVE FALSE
    OBVIOUS
  <2>1. PICK d \in Cpus : cur[d].thread = t
    BY <1>4 DEF IInv, RunningIsCurrent
  <2>2. t # NoThread
    BY <1>4, SchedAssumption
  <2>3. cur[d].proc = p
    BY <1>3, <2>1, <2>2 DEF IInv, CurInv
  <2>4. d = c
    BY <2>1, <2>2, <2>3 DEF IInv, CurInv
  <2> QED
    BY <1>1, <2>1, <2>2, <2>4 DEF IInv, CurInv
<1>6. tstate[t] = "READY"
  BY <1>2, <1>3, <1>4, <1>5 DEF IInv, LiveInv
<1>7. pc[c] \in InSwitch
  BY <1>1 DEF InSwitch
<1> HIDE DEF t, p
<1> QED
  BY <1>1, <1>2, <1>3, <1>6, <1>7, SwitchStep

LEMMA IdleFirstStep ==
  ASSUME IInv, NEW c \in Cpus, IdleFirst(c)
  PROVE  IInv'
<1>1. PICK p \in Procs \ palloc, t \in Threads \ talloc :
        /\ NewProc(p, t)
        /\ job' = [job EXCEPT ![t] = [NoJob EXCEPT !.at = "halt"]]
        /\ idleP' = [idleP EXCEPT ![c] = p]
        /\ Switch(c, p, t)
  BY DEF IdleFirst
<1>2. /\ UNCHANGED <<proc_table, initproc, sched_lock, proc_lock, thread_lock, timer>>
      /\ pc[c] = "idle" /\ pc[c] \in InSwitch /\ idleP[c] = NoProc
  BY DEF IdleFirst, InSwitch
<1>3. /\ tstate' \in [Threads -> State] /\ pstate' \in [Procs -> State]
      /\ parent' \in [Threads -> Procs \cup {NoProc}]
      /\ threadsVec' \in [Procs -> Vector(Threads)]
      /\ talloc' = talloc \cup {t} /\ palloc' = palloc \cup {p}
      /\ talloc' \subseteq Threads /\ palloc' \subseteq Procs
      /\ tstate'[t] = "READY" /\ parent'[t] = p
      /\ \A u \in Threads : u # t => tstate'[u] = tstate[u] /\ parent'[u] = parent[u]
      /\ \A q \in palloc : threadsVec'[q] = threadsVec[q]
      /\ LiveInv' /\ VecInv'
  BY <1>1, NewProcFacts
<1>4. /\ t \in Contexts /\ t # Boot /\ p # NoProc /\ t # NoThread
      /\ talloc \subseteq Threads /\ palloc \subseteq Procs
  BY SchedAssumption DEF Contexts, IInv, TypeOK
<1>5. /\ job \in [Contexts -> JobRecord] /\ job' \in [Contexts -> JobRecord]
      /\ job'[t].at = "halt" /\ \A x \in Contexts : x # t => job'[x] = job[x]
  <2> DEFINE new == [NoJob EXCEPT !.at = "halt"]
  <2>1. new \in JobRecord /\ new.at = "halt"
    BY DEF JobRecord, NoJob
  <2>2. job \in [Contexts -> JobRecord]
    BY DEF IInv, TypeOK, JobRecord
  <2>3. job' = [job EXCEPT ![t] = new]
    BY <1>1
  <2> HIDE DEF new
  <2> QED
    BY <1>4, <2>1, <2>2, <2>3
<1>6. /\ cur' \in [Cpus -> [proc : Procs \cup {NoProc}, thread : Threads \cup {NoThread}]]
      /\ cur'[c].proc = p /\ cur'[c].thread = t
      /\ \A d \in Cpus : d # c => cur'[d] = cur[d]
  <2> DEFINE new == [proc |-> p, thread |-> t]
  <2>1. /\ new \in [proc : Procs \cup {NoProc}, thread : Threads \cup {NoThread}]
        /\ new.proc = p /\ new.thread = t
    OBVIOUS
  <2>2. /\ cur \in [Cpus -> [proc : Procs \cup {NoProc}, thread : Threads \cup {NoThread}]]
        /\ cur' = [cur EXCEPT ![c] = new]
    BY <1>1 DEF Switch, IInv, TypeOK
  <2> HIDE DEF new
  <2> QED
    BY <2>1, <2>2
<1>7. /\ pc' \in [Cpus -> {"run", "enter", "first", "next", "nofree", "idle", "commit"}]
      /\ pc'[c] = "commit" /\ \A d \in Cpus : d # c => pc'[d] = pc[d]
  BY <1>1 DEF Switch, IInv, TypeOK
<1>8. /\ idleP \in [Cpus -> Procs \cup {NoProc}] /\ idleP' \in [Cpus -> Procs \cup {NoProc}]
      /\ idleP'[c] = p /\ \A d \in Cpus : d # c => idleP'[d] = idleP[d]
  BY <1>1 DEF IInv, TypeOK
<1>9. /\ \A d \in Cpus : idleP[d] # p
      /\ \A q : IsIdle(q)' => q = p \/ IsIdle(q)
  <2>1. \A d \in Cpus : idleP[d] # p
    BY <1>4 DEF IInv, IdleInv
  <2> QED
    BY <1>8, <2>1 DEF IsIdle
<1>10. TypeOK'
  BY <1>2, <1>3, <1>5, <1>6, <1>7, <1>8 DEF IInv, TypeOK, JobRecord
<1>11. LockInv'
  BY <1>2, <1>7 DEF IInv, LockInv, InSwitch
<1>12. TableInv'
  BY <1>2, <1>3, <1>9 DEF IInv, TableInv
<1>13. JobInv'
  <2> SUFFICES ASSUME NEW x \in Contexts PROVE JobOf(x)'
    BY DEF JobInv, Contexts
  <2>1. CASE x = t
    BY <1>4, <1>5, <2>1 DEF JobOf, HoldsProc, HoldsThread
  <2>2. CASE x # t
    <3>1. JobOf(x) /\ job'[x] = job[x]
      BY <1>5, <2>2 DEF IInv, JobInv
    <3>2. job[x].at \in HoldsThread => /\ tstate'[job[x].thread] = tstate[job[x].thread]
                                       /\ parent'[job[x].thread] = parent[job[x].thread]
                                       /\ job[x].thread \in talloc'
      BY <1>3, <1>4, <3>1 DEF JobOf
    <3>3. \A y \in Contexts : job'[y].at \in HoldsThread => job'[y] = job[y]
      BY <1>5 DEF HoldsThread
    <3>5. /\ job[x].at = "storeThread" =>
               job[x].at \in HoldsThread /\ threadsVec'[job[x].proc] = threadsVec[job[x].proc]
          /\ job[x].at = "pushThread" => job[x].at \in HoldsThread
      BY <1>3, <3>1 DEF JobOf, HoldsProc, HoldsThread
    <3>4. job[x].at \in HoldsProc =>
            job[x].proc \in palloc' /\ \A d \in Cpus : idleP'[d] # job[x].proc
      <4> DEFINE q == job[x].proc
      <4>0. SUFFICES ASSUME job[x].at \in HoldsProc
                     PROVE  q \in palloc' /\ \A d \in Cpus : idleP'[d] # q
        OBVIOUS
      <4>1. q \in palloc /\ ~IsIdle(q)
        BY <3>1, <4>0 DEF JobOf
      <4> HIDE DEF q
      <4>2. q # p /\ q \in palloc'
        BY <1>3, <4>1
      <4>3. \A d \in Cpus : idleP'[d] # q
        BY <1>8, <4>1, <4>2 DEF IsIdle
      <4> QED
        BY <4>2, <4>3
    <3> QED
      BY <1>2, <3>1, <3>2, <3>3, <3>4, <3>5 DEF JobOf, IsIdle
  <2> QED
    BY <2>1, <2>2
<1>14. CurInv'
  <2> SUFFICES ASSUME NEW d \in Cpus
               PROVE  IF cur'[d].thread = NoThread
                      THEN cur'[d].proc = NoProc /\ pc'[d] \notin {"next", "commit"}
                      ELSE /\ cur'[d].thread \in talloc' /\ cur'[d].proc \in palloc'
                           /\ parent'[cur'[d].thread] = cur'[d].proc
                           /\ tstate'[cur'[d].thread] = IF pc'[d] \in {"run", "enter"} THEN "RUNNING" ELSE "READY"
                           /\ \A e \in Cpus : idleP'[e] = cur'[d].proc => e = d
    BY DEF CurInv
  <2>1. CASE d = c
    <3>1. \A e \in Cpus : idleP'[e] = p => e = c
      BY <1>8, <1>9
    <3> QED
      BY <1>3, <1>4, <1>6, <1>7, <2>1, <3>1
  <2>2. CASE d # c
    <3>1. cur'[d] = cur[d] /\ pc'[d] = pc[d]
      BY <1>6, <1>7, <2>2
    <3>2. CASE cur[d].thread = NoThread
      BY <3>1, <3>2 DEF IInv, CurInv
    <3>3. CASE cur[d].thread # NoThread
      <4>1. /\ cur[d].thread \in talloc /\ cur[d].proc \in palloc
            /\ parent[cur[d].thread] = cur[d].proc
            /\ tstate[cur[d].thread] = IF pc[d] \in {"run", "enter"} THEN "RUNNING" ELSE "READY"
            /\ \A e \in Cpus : idleP[e] = cur[d].proc => e = d
        BY <3>3 DEF IInv, CurInv
      <4>2. /\ cur[d].thread \in talloc' /\ cur[d].proc \in palloc' /\ cur[d].proc # p
            /\ tstate'[cur[d].thread] = tstate[cur[d].thread]
            /\ parent'[cur[d].thread] = parent[cur[d].thread]
        BY <1>3, <1>4, <4>1
      <4>3. \A e \in Cpus : idleP'[e] = cur[d].proc => e = d
        BY <1>8, <4>1, <4>2
      <4> QED
        BY <3>1, <3>3, <4>1, <4>2, <4>3
    <3> QED
      BY <3>2, <3>3
  <2> QED
    BY <2>1, <2>2
<1>15. IdleInv'
  <2> SUFFICES ASSUME NEW d \in Cpus, idleP'[d] # NoProc
               PROVE  /\ idleP'[d] \in palloc'
                      /\ \A e \in Cpus : idleP'[e] = idleP'[d] => e = d
                      /\ \A u \in talloc' : parent'[u] = idleP'[d] => job'[u].at = "halt" /\ tstate'[u] # "INITIAL"
    BY DEF IdleInv
  <2>1. \A u \in talloc : u \in Threads /\ u \in Contexts /\ u # t
    BY <1>4 DEF Contexts
  <2>2. \A u \in talloc : parent[u] # p
    BY <1>4 DEF IInv, VecInv
  <2>3. CASE d = c
    <3>1. \A e \in Cpus : idleP'[e] = idleP'[d] => e = d
      BY <1>8, <1>9, <2>3
    <3>2. \A u \in talloc' : parent'[u] = p => u = t
      BY <1>3, <2>1, <2>2
    <3> QED
      BY <1>3, <1>5, <1>8, <2>3, <3>1, <3>2
  <2>4. CASE d # c
    <3>1. /\ idleP'[d] = idleP[d] /\ idleP[d] \in palloc
          /\ \A e \in Cpus : idleP[e] = idleP[d] => e = d
          /\ \A u \in talloc : parent[u] = idleP[d] => job[u].at = "halt" /\ tstate[u] # "INITIAL"
      BY <1>8, <2>4 DEF IInv, IdleInv
    <3>2. \A e \in Cpus : idleP'[e] = idleP'[d] => e = d
      BY <1>8, <1>9, <3>1
    <3>3. \A u \in talloc' : parent'[u] = idleP[d] => u \in talloc /\ parent[u] = idleP[d]
      BY <1>3, <2>1, <3>1
    <3> QED
      BY <1>3, <1>5, <2>1, <3>1, <3>2, <3>3
  <2> QED
    BY <2>3, <2>4
<1>16. SingleRunner'
  <2>1. \A d \in Cpus : cur[d].thread # t
    BY <1>4 DEF IInv, CurInv
  <2> QED
    BY <1>6, <2>1 DEF IInv, SingleRunner
<1>17. RunningIsCurrent'
  <2> SUFFICES ASSUME NEW u \in Threads, tstate'[u] = "RUNNING" PROVE \E d \in Cpus : cur'[d].thread = u
    BY DEF RunningIsCurrent
  <2>1. tstate[u] = "RUNNING"
    BY <1>3
  <2>2. PICK d \in Cpus : cur[d].thread = u
    BY <2>1 DEF IInv, RunningIsCurrent
  <2>3. d # c
    <3> SUFFICES ASSUME d = c PROVE FALSE
      OBVIOUS
    <3>1. u # NoThread
      BY SchedAssumption
    <3> QED
      BY <1>2, <2>1, <2>2, <3>1 DEF IInv, CurInv
  <2> QED
    BY <1>6, <2>2, <2>3
<1> QED
  BY <1>3, <1>10, <1>11, <1>12, <1>13, <1>14, <1>15, <1>16, <1>17 DEF IInv

LEMMA CommitStep ==
  ASSUME IInv, NEW c \in Cpus, Commit(c)
  PROVE  IInv'
<1>1. /\ pc[c] = "commit" /\ pc[c] \in InSwitch
      /\ tstate' = [tstate EXCEPT ![cur[c].thread] = "RUNNING"]
      /\ sched_lock' = FALSE /\ pc' = [pc EXCEPT ![c] = "run"]
      /\ UNCHANGED <<pstate, threadsVec, talloc, palloc, parent, proc_table, initproc, cur, idleP,
                     proc_lock, thread_lock, timer, job>>
  BY DEF Commit, InSwitch
<1>2. /\ cur[c].thread # NoThread /\ cur[c].thread \in talloc /\ cur[c].thread \in Threads
      /\ tstate[cur[c].thread] = "READY"
  <2>1. cur[c].thread # NoThread
    BY <1>1 DEF IInv, CurInv
  <2> QED
    BY <1>1, <2>1 DEF IInv, CurInv, TypeOK
<1>3. /\ tstate' \in [Threads -> State] /\ tstate'[cur[c].thread] = "RUNNING"
      /\ \A u \in Threads : u # cur[c].thread => tstate'[u] = tstate[u]
  BY <1>1, <1>2 DEF IInv, TypeOK, State
<1>4. /\ pc' \in [Cpus -> {"run", "enter", "first", "next", "nofree", "idle", "commit"}]
      /\ pc'[c] = "run" /\ \A d \in Cpus : d # c => pc'[d] = pc[d]
  BY <1>1 DEF IInv, TypeOK
<1>5. TypeOK'
  BY <1>1, <1>3, <1>4 DEF IInv, TypeOK
<1>6. LockInv'
  <2>1. \A d \in Cpus : pc'[d] \notin InSwitch
    BY <1>1, <1>4, OthersRun DEF InSwitch
  <2> QED
    BY <2>1 DEF LockInv
<1>7. LiveInv'
  BY <1>1, <1>3 DEF IInv, LiveInv
<1>8. JobInv'
  <2>1. \A x \in Contexts : job[x].at \in HoldsThread => tstate'[job[x].thread] = tstate[job[x].thread]
    <3> SUFFICES ASSUME NEW x \in Contexts, job[x].at \in HoldsThread
                 PROVE  job[x].thread \in Threads /\ job[x].thread # cur[c].thread
      BY <1>3
    <3>1. job[x].thread \in talloc /\ tstate[job[x].thread] = "INITIAL"
      BY DEF IInv, JobInv, JobOf
    <3>2. job[x].thread \in Threads
      BY <3>1 DEF IInv, TypeOK
    <3> QED
      BY <1>2, <3>1, <3>2
  <2> QED
    BY <1>1, <2>1 DEF IInv, JobInv, JobOf, IsIdle
<1>9. CurInv'
  <2> SUFFICES ASSUME NEW d \in Cpus
               PROVE  IF cur[d].thread = NoThread
                      THEN cur[d].proc = NoProc /\ pc'[d] \notin {"next", "commit"}
                      ELSE /\ cur[d].thread \in talloc /\ cur[d].proc \in palloc
                           /\ parent[cur[d].thread] = cur[d].proc
                           /\ tstate'[cur[d].thread] = IF pc'[d] \in {"run", "enter"} THEN "RUNNING" ELSE "READY"
                           /\ \A e \in Cpus : idleP[e] = cur[d].proc => e = d
    BY <1>1 DEF CurInv
  <2>1. CASE d = c
    BY <1>2, <1>3, <1>4, <2>1 DEF IInv, CurInv
  <2>2. CASE d # c
    <3>1. cur[d].thread # NoThread => cur[d].thread # cur[c].thread
      BY <2>2 DEF IInv, SingleRunner
    <3>2. cur[d].thread # NoThread => cur[d].thread \in Threads
      BY DEF IInv, CurInv, TypeOK
    <3>3. cur[d].thread # NoThread => tstate'[cur[d].thread] = tstate[cur[d].thread]
      BY <1>3, <3>1, <3>2
    <3> QED
      BY <1>4, <2>2, <3>3 DEF IInv, CurInv
  <2> QED
    BY <2>1, <2>2
<1>10. IdleInv'
  <2>1. \A u \in talloc : tstate[u] # "INITIAL" => tstate'[u] # "INITIAL"
    <3>1. talloc \subseteq Threads
      BY DEF IInv, TypeOK
    <3> QED
      BY <1>3, <3>1
  <2> QED
    BY <1>1, <2>1 DEF IInv, IdleInv
<1>11. RunningIsCurrent'
  BY <1>1, <1>3 DEF IInv, RunningIsCurrent
<1> QED
  BY <1>1, <1>5, <1>6, <1>7, <1>8, <1>9, <1>10, <1>11 DEF IInv, VecInv, TableInv, IsIdle, SingleRunner

-----------------------------------------------------------------------------
(* The theorems. *)

LEMMA InitHolds ==
  ASSUME Init
  PROVE  IInv
<1>1. job \in [Contexts -> JobRecord] /\ \A x \in Contexts : job[x].at \in {"none", "nano"}
  <2> DEFINE nano == [NoJob EXCEPT !.at = "nano"]
  <2>1. nano \in JobRecord /\ nano.at = "nano" /\ NoJob \in JobRecord /\ NoJob.at = "none"
    BY DEF JobRecord, NoJob
  <2>2. job = [x \in Contexts |-> IF x = Boot THEN nano ELSE NoJob]
    BY DEF Init
  <2> HIDE DEF nano
  <2> QED
    BY <2>1, <2>2
<1>2. /\ cur \in [Cpus -> [proc : Procs \cup {NoProc}, thread : Threads \cup {NoThread}]]
      /\ \A c \in Cpus : cur[c].proc = NoProc /\ cur[c].thread = NoThread
  BY DEF Init
<1>3. proc_table \in Vector(Procs) /\ DOMAIN proc_table.data = {}
  BY EmptyFacts DEF Init
<1>4. /\ DOMAIN threadsVec = Procs
      /\ \A p \in Procs : threadsVec[p] \in Vector(Threads) /\ DOMAIN threadsVec[p].data = {}
  BY EmptyFacts DEF Init
<1>5. TypeOK
  BY <1>1, <1>2, <1>3, <1>4 DEF Init, TypeOK, State, JobRecord
<1>6. LockInv /\ LiveInv
  BY DEF Init, LockInv, LiveInv, InSwitch
<1>7. VecInv /\ TableInv
  BY <1>3, <1>4 DEF Init, VecInv, TableInv
<1>8. JobInv
  BY <1>1 DEF JobInv, JobOf, HoldsProc, HoldsThread, AfterInit
<1>9. CurInv /\ IdleInv /\ SingleRunner /\ RunningIsCurrent
  BY <1>2 DEF Init, CurInv, IdleInv, SingleRunner, RunningIsCurrent
<1> QED
  BY <1>5, <1>6, <1>7, <1>8, <1>9 DEF IInv

\* A kernel whose threads only create makes no request.
LEMMA NoRequest ==
  ASSUME OnlyCreate, NEW c \in Cpus, Request(c)
  PROVE  FALSE
<1>1. \A op \in {"blockSelf", "blockThread", "blockOwnProc", "blockProc", "unblock", "exitThread", "exitProc"} :
        ~Calls(c, op)
  BY DEF OnlyCreate, Calls
<1> QED
  BY <1>1 DEF Request, BlockSelf, BlockThread, BlockOwnProc, BlockProc, thread_unblock, proc_unblock,
              ExitThread, ExitProc

LEMMA NextHolds ==
  ASSUME OnlyCreate, IInv, [Next]_vars
  PROVE  IInv'
<1>1. CASE UNCHANGED vars
  <2>1. TypeOK'
    BY <1>1 DEF vars, IInv, TypeOK
  <2>2. LockInv' /\ LiveInv' /\ VecInv' /\ TableInv'
    BY <1>1 DEF vars, IInv, LockInv, LiveInv, VecInv, TableInv, IsIdle
  <2>3. JobInv' /\ IdleInv'
    BY <1>1 DEF vars, IInv, JobInv, JobOf, IsIdle, IdleInv
  <2>4. CurInv' /\ SingleRunner' /\ RunningIsCurrent'
    BY <1>1 DEF vars, IInv, CurInv, SingleRunner, RunningIsCurrent
  <2> QED
    BY <2>1, <2>2, <2>3, <2>4 DEF IInv
<1>2. CASE Next
  <2>1. PICK c \in Cpus : Operation(c) \/ Request(c) \/ Tick(c) \/ switchTask(c)
    BY <1>2 DEF Next
  <2>2. CASE Operation(c)
    BY <2>2, CreateProcCallStep, AllocProcStep, PushProcStep, StoreProcStep, ReadyProcStep, CreateThreadCallStep,
       AllocThreadStep, PushThreadStep, StoreThreadStep, ReadyThreadStep, SchedulerInitStep DEF Operation
  <2>3. CASE Request(c)
    BY <2>3, NoRequest
  <2>4. CASE Tick(c)
    BY <2>4, TickStep
  <2>5. CASE switchTask(c)
    BY <2>5, EnterStep, PickFirstStep, PickThreadStep, PickProcStep, NoFreeStep, IdleStep, IdleFirstStep,
       CommitStep DEF switchTask
  <2> QED
    BY <2>1, <2>2, <2>3, <2>4, <2>5
<1> QED
  BY <1>1, <1>2

(***************************************************************************)
(* IInv holds throughout when threads only create processes and threads.   *)
(***************************************************************************)
THEOREM SchedulerInvariance ==
  ASSUME OnlyCreate
  PROVE  Spec => []IInv
<1>1. Init => IInv
  BY InitHolds
<1>2. IInv /\ [Next]_vars => IInv'
  BY NextHolds
<1> QED
  BY <1>1, <1>2, PTL DEF Spec

(***************************************************************************)
(* No two CPUs run one thread: they pick from the same table, but under    *)
(* sched_lock, and only READY threads, which no other CPU runs.            *)
(***************************************************************************)
THEOREM OneCpuPerThread ==
  ASSUME OnlyCreate
  PROVE  Spec => []SingleRunner
<1>1. IInv => SingleRunner
  BY DEF IInv
<1> QED
  BY <1>1, SchedulerInvariance, PTL

(***************************************************************************)
(* No thread is left RUNNING by the CPU that ran it (Enter makes it READY  *)
(* before another is picked).                                              *)
(***************************************************************************)
THEOREM NoThreadStranded ==
  ASSUME OnlyCreate
  PROVE  Spec => []RunningIsCurrent
<1>1. IInv => RunningIsCurrent
  BY DEF IInv
<1> QED
  BY <1>1, SchedulerInvariance, PTL

(***************************************************************************)
(* What a CPU runs was made READY by its creator and runs in the process   *)
(* it was created in, although createThread publishes the thread in        *)
(* threadsVec (line 56) before it is READY (line 61), and without a lock:  *)
(* of two pushes at one time the second may store over the first.          *)
(***************************************************************************)
THEOREM ThreadsRunWhereCreated ==
  ASSUME OnlyCreate
  PROVE  Spec => []RunsWhereCreated
<1>1. IInv => RunsWhereCreated
  BY DEF IInv, CurInv, RunsWhereCreated
<1> QED
  BY <1>1, SchedulerInvariance, PTL

-----------------------------------------------------------------------------
(* From here on threads may call all operations. *)

\* What clean_proc works on.
ObjectSet ==
  [tstate : [Threads -> State], pstate : [Procs -> State], vec : [Procs -> Vector(Threads)],
   talloc : SUBSET Threads, palloc : SUBSET Procs]

\* What clean_proc may do to o: free threads that have exited, or that a process
\* lists that has, and end processes.
Cleaned(o, r) ==
  /\ r \in ObjectSet
  /\ r.tstate = o.tstate /\ r.talloc \subseteq o.talloc
  /\ \A q \in Procs : /\ r.pstate[q] = o.pstate[q] \/ r.pstate[q] = "KILLED"
                      /\ Listed(r.vec[q]) \subseteq Listed(o.vec[q])
                      /\ DOMAIN r.vec[q].data = DOMAIN o.vec[q].data
  /\ \A t \in o.talloc \ r.talloc :
       \/ o.tstate[t] = "KILLED"
       \/ \E q \in Procs : r.pstate[q] = "KILLED" /\ t \in Listed(o.vec[q])

\* Processes other than p stay as they are.
Elsewhere(o, r, p) == \A q \in Procs \ {p} : r.pstate[q] = o.pstate[q] /\ r.vec[q] = o.vec[q]

LEMMA CleanedSame ==
  ASSUME NEW o \in ObjectSet
  PROVE  Cleaned(o, o) /\ \A p : Elsewhere(o, o, p)
  BY DEF Cleaned, Elsewhere

LEMMA CleanedTwice ==
  ASSUME NEW o, NEW r, NEW s, Cleaned(o, r), Cleaned(r, s)
  PROVE  Cleaned(o, s)
<1>1. /\ s \in ObjectSet /\ s.tstate = o.tstate /\ s.talloc \subseteq o.talloc
      /\ \A q \in Procs : /\ s.pstate[q] = o.pstate[q] \/ s.pstate[q] = "KILLED"
                          /\ DOMAIN s.vec[q].data = DOMAIN o.vec[q].data
  BY DEF Cleaned
<1>2. \A q \in Procs : Listed(s.vec[q]) \subseteq Listed(r.vec[q]) /\ Listed(r.vec[q]) \subseteq Listed(o.vec[q])
  BY DEF Cleaned
<1>3. ASSUME NEW t \in o.talloc \ s.talloc
      PROVE  \/ o.tstate[t] = "KILLED"
             \/ \E q \in Procs : s.pstate[q] = "KILLED" /\ t \in Listed(o.vec[q])
  <2>1. CASE t \in r.talloc
    <3>1. \/ o.tstate[t] = "KILLED"
          \/ \E q \in Procs : s.pstate[q] = "KILLED" /\ t \in Listed(r.vec[q])
      BY <1>3, <2>1 DEF Cleaned
    <3> QED
      BY <1>2, <3>1
  <2>2. CASE t \notin r.talloc
    <3>1. \/ o.tstate[t] = "KILLED"
          \/ \E q \in Procs : r.pstate[q] = "KILLED" /\ t \in Listed(o.vec[q])
      BY <1>3, <2>2 DEF Cleaned
    <3>2. \A q \in Procs : r.pstate[q] = "KILLED" => s.pstate[q] = "KILLED"
      BY DEF Cleaned
    <3> QED
      BY <3>1, <3>2
  <2> QED
    BY <2>1, <2>2
<1> QED
  BY <1>1, <1>2, <1>3 DEF Cleaned

\* remove(find(thing)) of a vector that is not empty.
LEMMA RemoveKeeps ==
  ASSUME NEW S, NEW v \in Vector(S), NEW thing, v.length > 0
  PROVE  LET r == remove(v, find(v, thing))
         IN  r \in Vector(S) /\ Listed(r) \subseteq Listed(v) /\ DOMAIN r.data = DOMAIN v.data
<1> DEFINE n == v.length
           m == Len(v.data)
           d == [i \in 1 .. m |-> IF i - 1 \in 0 .. 0 + n - 3 THEN v.data[i + 1] ELSE v.data[i]]
           r == remove(v, find(v, thing))
<1>1. /\ n \in Nat /\ m \in Nat /\ n <= m /\ DOMAIN v.data = 1 .. m
      /\ \A i \in 1 .. m : v.data[i] \in S
  BY VectorFacts
<1>2. r = [data |-> d, length |-> n - 1]
  BY DEF remove, find
<1> HIDE DEF n, m, r
<1>3. n - 1 \in Nat /\ n - 1 <= m
  BY <1>1 DEF n
<1>4. ASSUME NEW i \in 1 .. m
      PROVE  d[i] = v.data[i] \/ (i + 1 \in 1 .. n /\ d[i] = v.data[i + 1])
  BY <1>1
<1>5. d \in [1 .. m -> S]
  BY <1>1, <1>4
<1> HIDE DEF d
<1>6. r \in Vector(S) /\ DOMAIN r.data = DOMAIN v.data
  BY <1>1, <1>2, <1>3, <1>5, VectorFrom
<1>7. ASSUME NEW i \in 1 .. n - 1 PROVE \E k \in 1 .. n : d[i] = v.data[k]
  <2>1. i \in 1 .. m /\ i \in 1 .. n
    BY <1>1
  <2> QED
    BY <1>4, <2>1
<1>8. Listed(r) \subseteq Listed(v)
  BY <1>2, <1>7 DEF Listed, n
<1> QED
  BY <1>6, <1>8 DEF r

\* A turn frees a thread of p that has exited, or any where p has.
LEMMA TurnCleans ==
  ASSUME NEW o \in ObjectSet, NEW p \in Procs, NEW all, NEW i \in Nat \ {0},
         all => o.pstate[p] = "KILLED"
  PROVE  LET r == Turn(o, p, all, i)
         IN  Cleaned(o, r) /\ Elsewhere(o, r, p) /\ r.pstate = o.pstate
<1> DEFINE r == Turn(o, p, all, i)
           v == o.vec[p]
           t == v.data[i]
           cond == i <= v.length /\ (all \/ o.tstate[t] = "KILLED")
           s == remove(v, find(v, t))
<1>1. CASE ~cond
  <2>1. r = o
    BY <1>1 DEF Turn
  <2> HIDE DEF r
  <2> QED
    BY <2>1, CleanedSame DEF r
<1>2. CASE cond
  <2>1. v \in Vector(Threads) /\ o.vec \in [Procs -> Vector(Threads)]
    BY DEF ObjectSet
  <2>2. i \in 1 .. v.length /\ v.length > 0 /\ t \in Threads /\ t \in Listed(v)
    <3>1. v.length \in Nat /\ \A k \in 1 .. v.length : v.data[k] \in Threads
      BY <2>1, VectorFacts
    <3>2. i \in 1 .. v.length /\ v.length > 0
      BY <1>2, <3>1
    <3> QED
      BY <3>1, <3>2 DEF Listed
  <2>3. s \in Vector(Threads) /\ Listed(s) \subseteq Listed(v) /\ DOMAIN s.data = DOMAIN v.data
    BY <2>1, <2>2, RemoveKeeps
  <2>4. o.tstate[t] = "KILLED" \/ o.pstate[p] = "KILLED"
    BY <1>2
  <2>5. r = [o EXCEPT !.vec[p] = s, !.talloc = @ \ {t}]
    BY <1>2 DEF Turn
  <2> HIDE DEF s, r, cond, t
  <2>6. /\ r \in ObjectSet /\ r.tstate = o.tstate /\ r.pstate = o.pstate
        /\ r.talloc = o.talloc \ {t} /\ r.vec = [o.vec EXCEPT ![p] = s]
    BY <2>1, <2>3, <2>5 DEF ObjectSet
  <2>7. r.vec[p] = s /\ \A q \in Procs : q # p => r.vec[q] = o.vec[q]
    BY <2>1, <2>6
  <2>8. \A q \in Procs : Listed(r.vec[q]) \subseteq Listed(o.vec[q]) /\ DOMAIN r.vec[q].data = DOMAIN o.vec[q].data
    BY <2>3, <2>7
  <2>9. \A u \in o.talloc \ r.talloc :
          o.tstate[u] = "KILLED" \/ \E q \in Procs : r.pstate[q] = "KILLED" /\ u \in Listed(o.vec[q])
    BY <2>2, <2>4, <2>6
  <2>10. Cleaned(o, r)
    BY <2>6, <2>8, <2>9 DEF Cleaned
  <2> QED
    BY <2>6, <2>7, <2>10 DEF Elsewhere, r
<1> QED
  BY <1>1, <1>2

LEMMA DropCleans ==
  ASSUME NEW o \in ObjectSet, NEW p \in Procs, NEW all, all => o.pstate[p] = "KILLED"
  PROVE  LET r == DropThreads(o, p, all)
         IN  Cleaned(o, r) /\ Elsewhere(o, r, p) /\ r.pstate = o.pstate
<1> DEFINE n == o.vec[p].length
           Good(r) == Cleaned(o, r) /\ Elsewhere(o, r, p) /\ r.pstate = o.pstate
<1>1. n \in Nat
  BY VectorFacts DEF ObjectSet
<1>2. PICK f : /\ f[0] = o /\ DropThreads(o, p, all) = f[n]
               /\ \A i \in 1 .. n : f[i] = Turn(f[i - 1], p, all, i)
  BY <1>1, DroppingRuns
<1> DEFINE S == { i \in 0 .. n : Good(f[i]) }
<1> HIDE DEF n
<1>3. 0 \in S
  BY <1>1, <1>2, CleanedSame
<1>4. ASSUME NEW i \in 1 .. n, i - 1 \in S PROVE i \in S
  <2> DEFINE a == f[i - 1]
             b == f[i]
  <2>1. Good(a)
    BY <1>4
  <2>2. b = Turn(a, p, all, i) /\ i \in Nat \ {0}
    BY <1>2
  <2> HIDE DEF a, b
  <2>3. a \in ObjectSet /\ (all => a.pstate[p] = "KILLED")
    BY <2>1 DEF Cleaned
  <2>4. Cleaned(a, b) /\ Elsewhere(a, b, p) /\ b.pstate = a.pstate
    BY <2>2, <2>3, TurnCleans
  <2>5. Good(b)
    BY <2>1, <2>4, CleanedTwice DEF Elsewhere
  <2> QED
    BY <1>1, <2>5 DEF b
<1>5. n \in S
  <2> HIDE DEF S
  <2> QED
    BY <1>1, <1>3, <1>4, UpTo
<1> QED
  BY <1>2, <1>5

LEMMA FreeProcCleans ==
  ASSUME NEW o \in ObjectSet, NEW p \in Procs, o.pstate[p] = "KILLED"
  PROVE  Cleaned(o, FreeProc(o, p)) /\ Elsewhere(o, FreeProc(o, p), p)
<1> DEFINE all == TRUE
           d == DropThreads(o, p, all)
           r == FreeProc(o, p)
<1>1. all => o.pstate[p] = "KILLED"
  OBVIOUS
<1>2. r = [d EXCEPT !.palloc = @ \ {p}]
  BY DEF FreeProc
<1> HIDE DEF all
<1>3. Cleaned(o, d) /\ Elsewhere(o, d, p)
  BY <1>1, DropCleans
<1> HIDE DEF d, r
<1>4. /\ r \in ObjectSet /\ r.tstate = d.tstate /\ r.pstate = d.pstate
      /\ r.vec = d.vec /\ r.talloc = d.talloc
  BY <1>2, <1>3 DEF Cleaned, ObjectSet
<1>5. Cleaned(o, r) /\ Elsewhere(o, r, p)
  BY <1>3, <1>4 DEF Cleaned, Elsewhere
<1> QED
  BY <1>5 DEF r

\* clean_proc, for a process in whatever state.
LEMMA CleanProcCleans ==
  ASSUME NEW o \in ObjectSet, NEW p \in Procs \cup {NoProc}
  PROVE  Cleaned(o, clean_proc(o, p)) /\ Elsewhere(o, clean_proc(o, p), p)
<1>1. CASE p = NoProc
  BY <1>1, CleanedSame DEF clean_proc
<1>2. CASE p # NoProc /\ o.pstate[p] = "KILLED"
  <2>1. clean_proc(o, p) = FreeProc(o, p)
    BY <1>2 DEF clean_proc
  <2> QED
    BY <1>2, <2>1, FreeProcCleans
<1>3. CASE p # NoProc /\ o.pstate[p] # "KILLED"
  <2> DEFINE none == FALSE
             d == DropThreads(o, p, none)
             k == [d EXCEPT !.pstate[p] = "KILLED"]
  <2>1. clean_proc(o, p) = IF d.vec[p].length = 0 THEN FreeProc(k, p) ELSE d
    BY <1>3 DEF clean_proc
  <2>2. none => o.pstate[p] = "KILLED"
    OBVIOUS
  <2> HIDE DEF none
  <2>3. Cleaned(o, d) /\ Elsewhere(o, d, p)
    BY <1>3, <2>2, DropCleans
  <2> HIDE DEF d
  <2>4. /\ k \in ObjectSet /\ k.tstate = d.tstate /\ k.talloc = d.talloc /\ k.vec = d.vec
        /\ k.pstate = [d.pstate EXCEPT ![p] = "KILLED"] /\ d \in ObjectSet
    BY <2>3 DEF Cleaned, ObjectSet, State
  <2> HIDE DEF k
  <2>5. k.pstate[p] = "KILLED" /\ \A q \in Procs : q # p => k.pstate[q] = d.pstate[q]
    BY <1>3, <2>4 DEF ObjectSet
  <2>6. Cleaned(d, k) /\ Elsewhere(d, k, p)
    BY <2>4, <2>5 DEF Cleaned, Elsewhere
  <2>7. Cleaned(k, FreeProc(k, p)) /\ Elsewhere(k, FreeProc(k, p), p)
    BY <1>3, <2>4, <2>5, FreeProcCleans
  <2>8. Cleaned(o, FreeProc(k, p)) /\ Elsewhere(o, FreeProc(k, p), p)
    <3>1. Cleaned(o, FreeProc(k, p))
      BY <2>3, <2>6, <2>7, CleanedTwice
    <3> QED
      BY <2>3, <2>6, <2>7, <3>1 DEF Elsewhere
  <2> QED
    BY <2>1, <2>3, <2>8
<1> QED
  BY <1>1, <1>2, <1>3

\* Processes that are READY are passed as they are.
LEMMA PassedCleans ==
  ASSUME NEW o \in ObjectSet, NEW n \in Nat, \A i \in 1 .. n : proc_table.data[i] \in Procs
  PROVE  LET r == Passed(o, n)
         IN  /\ Cleaned(o, r)
             /\ \A q \in Procs : o.pstate[q] = "READY" => r.pstate[q] = "READY" /\ r.vec[q] = o.vec[q]
<1> DEFINE Good(r) == /\ Cleaned(o, r)
                      /\ \A q \in Procs : o.pstate[q] = "READY" => r.pstate[q] = "READY" /\ r.vec[q] = o.vec[q]
<1>1. PICK f : /\ f[0] = o /\ Passed(o, n) = f[n]
               /\ \A i \in 1 .. n : f[i] = Pass(f[i - 1], i)
  BY PassingRuns
<1> DEFINE S == { i \in 0 .. n : Good(f[i]) }
<1>2. 0 \in S
  BY <1>1, CleanedSame
<1>3. ASSUME NEW i \in 1 .. n, i - 1 \in S PROVE i \in S
  <2> DEFINE a == f[i - 1]
             b == f[i]
             p == proc_table.data[i]
  <2>1. Good(a)
    BY <1>3
  <2>2. b = (IF a.pstate[p] # "READY" THEN clean_proc(a, p) ELSE a) /\ p \in Procs
    BY <1>1 DEF Pass
  <2> HIDE DEF a, b, p
  <2>3. a \in ObjectSet
    BY <2>1 DEF Cleaned
  <2>4. Cleaned(a, clean_proc(a, p)) /\ Elsewhere(a, clean_proc(a, p), p)
    BY <2>2, <2>3, CleanProcCleans
  <2>5. CASE a.pstate[p] = "READY"
    BY <2>1, <2>2, <2>5 DEF b
  <2>6. CASE a.pstate[p] # "READY"
    <3>1. Cleaned(a, b) /\ Elsewhere(a, b, p)
      BY <2>2, <2>4, <2>6
    <3>2. Cleaned(o, b)
      BY <2>1, <3>1, CleanedTwice
    <3>3. \A q \in Procs : o.pstate[q] = "READY" => b.pstate[q] = "READY" /\ b.vec[q] = o.vec[q]
      BY <2>1, <2>6, <3>1 DEF Elsewhere
    <3> QED
      BY <3>2, <3>3 DEF b
  <2> QED
    BY <2>5, <2>6
<1>4. n \in S
  <2> HIDE DEF S
  <2> QED
    BY <1>2, <1>3, UpTo
<1> QED
  BY <1>1, <1>4

\* What a context in the middle of an operation holds is there, allocated or not.
JobSound(x) ==
  /\ job[x].at \in HoldsProc => job[x].proc \in Procs
  /\ job[x].at \in HoldsThread => job[x].thread \in Threads
  /\ x = Boot /\ job[x].at \in AfterInit => initproc # NoProc

JobsSound == \A x \in Contexts : JobSound(x)

CursSound ==
  \A c \in Cpus : /\ cur[c].thread # NoThread => cur[c].proc # NoProc
                  /\ pc[c] \in {"next", "commit"} => cur[c].thread # NoThread

\* An idle process, freed or not, has a thread_t in the first slot of its vector.
IdleSound == \A c \in Cpus : idleP[c] # NoProc => 1 \in DOMAIN threadsVec[idleP[c]].data

SoundInv == TypeOK /\ JobsSound /\ CursSound /\ IdleSound

LEMMA SameIdle ==
  ASSUME IdleSound, UNCHANGED <<threadsVec, idleP>>
  PROVE  IdleSound'
  BY DEF IdleSound

LEMMA SoundContext ==
  ASSUME SoundInv, NEW c \in Cpus
  PROVE  /\ Context(c) \in Contexts
         /\ cur[c].thread \in Threads \cup {NoThread}
         /\ cur[c].proc \in Procs \cup {NoProc}
         /\ cur[c].thread # NoThread => cur[c].proc \in Procs /\ Context(c) = cur[c].thread
         /\ Context(c) = Boot <=> cur[c].thread = NoThread
         /\ job[Context(c)] \in JobRecord /\ JobSound(Context(c))
<1>1. /\ cur[c].thread \in Threads \cup {NoThread} /\ cur[c].proc \in Procs \cup {NoProc}
      /\ job \in [Contexts -> JobRecord]
  BY DEF SoundInv, TypeOK, JobRecord
<1>2. Boot \notin Threads /\ Boot # NoThread
  BY SchedAssumption DEF Boot, NoThread
<1>3. cur[c].thread # NoThread => cur[c].proc # NoProc
  BY DEF SoundInv, CursSound
<1>4. /\ Context(c) \in Contexts /\ (Context(c) = Boot <=> cur[c].thread = NoThread)
      /\ cur[c].thread # NoThread => Context(c) = cur[c].thread
  BY <1>1, <1>2 DEF Context, Contexts
<1>5. JobSound(Context(c)) /\ job[Context(c)] \in JobRecord
  BY <1>1, <1>4 DEF SoundInv, JobsSound
<1> QED
  BY <1>1, <1>3, <1>4, <1>5

\* What the operation of c may go on to.
SoundNew(c, new) ==
  /\ new \in JobRecord
  /\ new.at \in HoldsProc => new.proc \in Procs
  /\ new.at \in HoldsThread => new.thread \in Threads
  /\ Context(c) = Boot /\ new.at \in AfterInit => initproc # NoProc

LEMMA SoundMove ==
  ASSUME SoundInv, NEW c \in Cpus, NEW new, SoundNew(c, new),
         job' = [job EXCEPT ![Context(c)] = new], UNCHANGED initproc
  PROVE  job' \in [Contexts -> JobRecord] /\ JobsSound'
<1>1. job \in [Contexts -> JobRecord] /\ Context(c) \in Contexts
  BY SoundContext DEF SoundInv, TypeOK, JobRecord
<1>2. /\ job' \in [Contexts -> JobRecord] /\ job'[Context(c)] = new
      /\ \A x \in Contexts : x # Context(c) => job'[x] = job[x]
  BY <1>1 DEF SoundNew
<1>3. ASSUME NEW x \in Contexts PROVE JobSound(x)'
  <2>1. CASE x = Context(c)
    BY <1>2, <2>1 DEF JobSound, SoundNew
  <2>2. CASE x # Context(c)
    BY <1>2, <2>2 DEF JobSound, SoundInv, JobsSound
  <2> QED
    BY <2>1, <2>2
<1> QED
  BY <1>2, <1>3 DEF JobsSound, Contexts

LEMMA SoundCreateProcCall ==
  ASSUME SoundInv, NEW c \in Cpus, CreateProcCall(c)
  PROVE  SoundInv'
<1> DEFINE new == [at |-> "allocProc", proc |-> NoProc, thread |-> NoThread, len |-> 0]
<1>1. /\ proc_lock' = TRUE /\ job' = [job EXCEPT ![Context(c)] = new]
      /\ UNCHANGED <<objVars, parent, proc_table, initproc, cur, idleP, sched_lock, thread_lock, timer, pc>>
  BY DEF CreateProcCall, Becomes
<1>2. SoundNew(c, new)
  BY DEF SoundNew, JobRecord, HoldsProc, HoldsThread, AfterInit
<1> HIDE DEF new
<1>3. job' \in [Contexts -> JobRecord] /\ JobsSound'
  BY <1>1, <1>2, SoundMove
<1>4. CursSound' /\ IdleSound'
  BY <1>1, SameIdle DEF SoundInv, CursSound, objVars
<1>5. TypeOK'
  BY <1>1, <1>3 DEF SoundInv, TypeOK, objVars, JobRecord, Contexts
<1> QED
  BY <1>3, <1>4, <1>5 DEF SoundInv

LEMMA SoundCreateThreadCall ==
  ASSUME SoundInv, NEW c \in Cpus, CreateThreadCall(c)
  PROVE  SoundInv'
<1> DEFINE p == IF Context(c) = Boot THEN initproc ELSE cur[c].proc
           new == [at |-> "allocThread", proc |-> p, thread |-> NoThread, len |-> 0]
<1>1. /\ thread_lock' = TRUE /\ job' = [job EXCEPT ![Context(c)] = new]
      /\ UNCHANGED <<objVars, parent, proc_table, initproc, cur, idleP, sched_lock, proc_lock, timer, pc>>
  BY DEF CreateThreadCall, Becomes
<1>2. Context(c) = Boot => job[Context(c)].at = "createThread"
  BY SoundContext DEF CreateThreadCall, Calls, Executes
<1>3. p \in Procs
  BY <1>2, SoundContext DEF JobSound, AfterInit, SoundInv, TypeOK
<1> HIDE DEF p
<1>4. SoundNew(c, new)
  BY <1>3 DEF SoundNew, JobRecord, HoldsThread, AfterInit
<1> HIDE DEF new
<1>5. job' \in [Contexts -> JobRecord] /\ JobsSound'
  BY <1>1, <1>4, SoundMove
<1>6. CursSound' /\ IdleSound'
  BY <1>1, SameIdle DEF SoundInv, CursSound, objVars
<1>7. TypeOK'
  BY <1>1, <1>5 DEF SoundInv, TypeOK, objVars, JobRecord, Contexts
<1> QED
  BY <1>5, <1>6, <1>7 DEF SoundInv

LEMMA SoundSchedulerInit ==
  ASSUME SoundInv, NEW c \in Cpus, SchedulerInit(c)
  PROVE  SoundInv'
<1> DEFINE new == [at |-> "shell", proc |-> NoProc, thread |-> NoThread, len |-> 0]
<1>1. /\ timer' = [timer EXCEPT ![c] = TRUE] /\ job' = [job EXCEPT ![Context(c)] = new]
      /\ UNCHANGED <<objVars, parent, proc_table, initproc, cur, idleP, sched_lock, proc_lock, thread_lock, pc>>
  BY DEF SchedulerInit, Becomes
<1>2. SoundNew(c, new)
  BY DEF SoundNew, JobRecord, HoldsProc, HoldsThread, AfterInit
<1> HIDE DEF new
<1>3. job' \in [Contexts -> JobRecord] /\ JobsSound'
  BY <1>1, <1>2, SoundMove
<1>4. CursSound' /\ IdleSound'
  BY <1>1, SameIdle DEF SoundInv, CursSound, objVars
<1>5. timer' \in [Cpus -> BOOLEAN]
  BY <1>1 DEF SoundInv, TypeOK
<1>6. TypeOK'
  BY <1>1, <1>3, <1>5 DEF SoundInv, TypeOK, objVars, JobRecord, Contexts
<1> QED
  BY <1>3, <1>4, <1>6 DEF SoundInv

LEMMA SoundPushProc ==
  ASSUME SoundInv, NEW c \in Cpus, PushProc(c)
  PROVE  SoundInv'
<1> DEFINE j == job[Context(c)]
           new == [j EXCEPT !.at = "storeProc", !.len = proc_table.length]
<1>1. /\ job' = [job EXCEPT ![Context(c)] = new] /\ j.at = "pushProc"
      /\ UNCHANGED <<objVars, parent, proc_table, initproc, cur, idleP, sched_lock, proc_lock, thread_lock, timer, pc>>
  BY DEF PushProc, Reads, Executes
<1>2. j \in JobRecord /\ j.proc \in Procs /\ (Context(c) = Boot => initproc # NoProc)
  BY <1>1, SoundContext DEF JobSound, HoldsProc, AfterInit
<1>3. proc_table.length \in Nat
  BY VectorFacts DEF SoundInv, TypeOK
<1> HIDE DEF j
<1>4. SoundNew(c, new)
  BY <1>2, <1>3 DEF SoundNew, JobRecord, HoldsThread
<1> HIDE DEF new
<1>5. job' \in [Contexts -> JobRecord] /\ JobsSound'
  BY <1>1, <1>4, SoundMove
<1>6. CursSound' /\ IdleSound'
  BY <1>1, SameIdle DEF SoundInv, CursSound, objVars
<1>7. TypeOK'
  BY <1>1, <1>5 DEF SoundInv, TypeOK, objVars, JobRecord, Contexts
<1> QED
  BY <1>5, <1>6, <1>7 DEF SoundInv

LEMMA SoundStoreProc ==
  ASSUME SoundInv, NEW c \in Cpus, StoreProc(c)
  PROVE  SoundInv'
<1> DEFINE j == job[Context(c)]
           p == j.proc
           new == [at |-> "readyProc", proc |-> p, thread |-> NoThread, len |-> 0]
<1>1. /\ job' = [job EXCEPT ![Context(c)] = new] /\ j.at = "storeProc"
      /\ UNCHANGED <<objVars, parent, initproc, cur, idleP, sched_lock, proc_lock, thread_lock, timer, pc>>
  BY DEF StoreProc, Becomes, Executes
<1>2. PICK fill \in [Unwritten(proc_table, j.len) -> Procs] :
        proc_table' = push_back(proc_table, j.len, p, fill)
  BY DEF StoreProc
<1>3. j \in JobRecord /\ p \in Procs /\ (Context(c) = Boot => initproc # NoProc)
  BY <1>1, SoundContext DEF JobSound, HoldsProc, AfterInit
<1>4. j.len \in Nat /\ proc_table \in Vector(Procs)
  BY <1>3 DEF SoundInv, TypeOK, JobRecord
<1> HIDE DEF p, j
<1>5. proc_table' \in Vector(Procs)
  BY <1>2, <1>3, <1>4, PushFacts
<1>6. SoundNew(c, new)
  BY <1>3 DEF SoundNew, JobRecord, HoldsThread
<1> HIDE DEF new
<1>7. job' \in [Contexts -> JobRecord] /\ JobsSound'
  BY <1>1, <1>6, SoundMove
<1>8. CursSound' /\ IdleSound'
  BY <1>1, SameIdle DEF SoundInv, CursSound, objVars
<1>9. TypeOK'
  BY <1>1, <1>5, <1>7 DEF SoundInv, TypeOK, objVars, JobRecord, Contexts
<1> QED
  BY <1>7, <1>8, <1>9 DEF SoundInv

LEMMA SoundReadyProc ==
  ASSUME SoundInv, NEW c \in Cpus, ReadyProc(c)
  PROVE  SoundInv'
<1> DEFINE p == job[Context(c)].proc
           new == [at |-> IF Context(c) = Boot THEN "createThread" ELSE "none",
                   proc |-> NoProc, thread |-> NoThread, len |-> 0]
<1>1. /\ pstate' = [pstate EXCEPT ![p] = "READY"] /\ job' = [job EXCEPT ![Context(c)] = new]
      /\ UNCHANGED <<tstate, threadsVec, talloc, palloc, parent, proc_table, initproc,
                     cur, idleP, sched_lock, proc_lock, thread_lock, timer, pc>>
  BY DEF ReadyProc, Becomes
<1>2. job[Context(c)].at = "readyProc"
  BY DEF ReadyProc, Executes
<1>3. p \in Procs /\ (Context(c) = Boot => initproc # NoProc)
  BY <1>2, SoundContext DEF JobSound, HoldsProc, AfterInit
<1>4. SoundNew(c, new)
  BY <1>3 DEF SoundNew, JobRecord, HoldsProc, HoldsThread
<1> HIDE DEF new, p
<1>5. job' \in [Contexts -> JobRecord] /\ JobsSound'
  BY <1>1, <1>4, SoundMove
<1>6. CursSound' /\ IdleSound'
  BY <1>1, SameIdle DEF SoundInv, CursSound
<1>7. pstate' \in [Procs -> State]
  BY <1>1, <1>3 DEF SoundInv, TypeOK, State
<1>8. TypeOK'
  BY <1>1, <1>5, <1>7 DEF SoundInv, TypeOK, JobRecord, Contexts
<1> QED
  BY <1>5, <1>6, <1>8 DEF SoundInv

LEMMA SoundReadyThread ==
  ASSUME SoundInv, NEW c \in Cpus, ReadyThread(c)
  PROVE  SoundInv'
<1> DEFINE t == job[Context(c)].thread
           new == [at |-> IF Context(c) = Boot THEN "init" ELSE "none",
                   proc |-> NoProc, thread |-> NoThread, len |-> 0]
<1>1. /\ tstate' = [tstate EXCEPT ![t] = "READY"] /\ job' = [job EXCEPT ![Context(c)] = new]
      /\ UNCHANGED <<pstate, threadsVec, talloc, palloc, parent, proc_table, initproc,
                     cur, idleP, sched_lock, proc_lock, thread_lock, timer, pc>>
  BY DEF ReadyThread, Becomes
<1>2. SoundNew(c, new)
  BY DEF SoundNew, JobRecord, HoldsProc, HoldsThread, AfterInit
<1> HIDE DEF new, t
<1>3. job' \in [Contexts -> JobRecord] /\ JobsSound'
  BY <1>1, <1>2, SoundMove
<1>4. CursSound' /\ IdleSound'
  BY <1>1, SameIdle DEF SoundInv, CursSound
<1>5. tstate' \in [Threads -> State]
  BY <1>1 DEF SoundInv, TypeOK, State
<1>6. TypeOK'
  BY <1>1, <1>3, <1>5 DEF SoundInv, TypeOK, JobRecord, Contexts
<1> QED
  BY <1>3, <1>4, <1>6 DEF SoundInv

\* The same with a fresh thread, which begins with j.
LEMMA SoundMoveFresh ==
  ASSUME SoundInv, NEW x0 \in Contexts, NEW t \in Threads, NEW new \in JobRecord, NEW j \in JobRecord,
         j.at \in {"none", "halt"}, initproc' \in Procs,
         new.at \in HoldsProc => new.proc \in Procs,
         new.at \in HoldsThread => new.thread \in Threads,
         job' = [job EXCEPT ![t] = j, ![x0] = new]
  PROVE  job' \in [Contexts -> JobRecord] /\ JobsSound'
<1>1. job \in [Contexts -> JobRecord] /\ t \in Contexts
  BY DEF SoundInv, TypeOK, JobRecord, Contexts
<1>2. /\ job' \in [Contexts -> JobRecord] /\ job'[x0] = new
      /\ \A x \in Contexts : x # x0 => job'[x] = IF x = t THEN j ELSE job[x]
  BY <1>1
<1>3. initproc' # NoProc
  BY SchedAssumption
<1>4. ASSUME NEW x \in Contexts PROVE JobSound(x)'
  <2>1. CASE x = x0
    BY <1>2, <1>3, <2>1 DEF JobSound
  <2>2. CASE x # x0 /\ x = t
    BY <1>2, <1>3, <2>2 DEF JobSound, HoldsProc, HoldsThread
  <2>3. CASE x # x0 /\ x # t
    BY <1>2, <1>3, <2>3 DEF JobSound, SoundInv, JobsSound
  <2> QED
    BY <2>1, <2>2, <2>3
<1> QED
  BY <1>2, <1>4 DEF JobsSound, Contexts

LEMMA SoundNewProc ==
  ASSUME SoundInv, NEW p \in Procs, NEW t \in Threads, NewProc(p, t)
  PROVE  /\ tstate' \in [Threads -> State] /\ pstate' \in [Procs -> State]
         /\ parent' \in [Threads -> Procs \cup {NoProc}]
         /\ threadsVec' \in [Procs -> Vector(Threads)]
         /\ talloc' \subseteq Threads /\ palloc' \subseteq Procs
         /\ 1 \in DOMAIN threadsVec'[p].data /\ \A q \in Procs : q # p => threadsVec'[q] = threadsVec[q]
<1> DEFINE v == [data |-> <<t>>, length |-> 1]
<1>1. v \in Vector(Threads) /\ 1 \in DOMAIN v.data
  BY SingleFacts
<1>2. threadsVec \in [Procs -> Vector(Threads)] /\ threadsVec' = [threadsVec EXCEPT ![p] = v]
  BY DEF SoundInv, TypeOK, NewProc
<1> HIDE DEF v
<1>3. /\ threadsVec' \in [Procs -> Vector(Threads)] /\ threadsVec'[p] = v
      /\ \A q \in Procs : q # p => threadsVec'[q] = threadsVec[q]
  BY <1>1, <1>2
<1> QED
  BY <1>1, <1>3 DEF SoundInv, TypeOK, NewProc, State

LEMMA SoundAllocProc ==
  ASSUME SoundInv, NEW c \in Cpus, AllocProc(c)
  PROVE  SoundInv'
<1>1. PICK p \in Procs \ palloc, t \in Threads \ talloc :
        /\ NewProc(p, t)
        /\ initproc' = IF initproc = NoProc THEN p ELSE initproc
        /\ job' = [job EXCEPT ![t] = NoJob,
                              ![Context(c)] = [at |-> "pushProc", proc |-> p, thread |-> NoThread, len |-> 0]]
  BY DEF AllocProc
<1>2. proc_lock' = FALSE /\ UNCHANGED <<proc_table, cur, idleP, sched_lock, thread_lock, timer, pc>>
  BY DEF AllocProc
<1>3. initproc' \in Procs
  BY <1>1 DEF SoundInv, TypeOK
<1> DEFINE new == [at |-> "pushProc", proc |-> p, thread |-> NoThread, len |-> 0]
<1>4. /\ new \in JobRecord /\ NoJob \in JobRecord /\ NoJob.at = "none"
      /\ new.at = "pushProc" /\ new.proc \in Procs
  BY DEF JobRecord, NoJob
<1>5. job' = [job EXCEPT ![t] = NoJob, ![Context(c)] = new]
  BY <1>1
<1> HIDE DEF new
<1>6. job' \in [Contexts -> JobRecord] /\ JobsSound'
  BY <1>3, <1>4, <1>5, SoundContext, SoundMoveFresh DEF HoldsThread
<1>7. CursSound' /\ IdleSound'
  <2>1. \A q \in Procs : 1 \in DOMAIN threadsVec[q].data => 1 \in DOMAIN threadsVec'[q].data
    BY <1>1, SoundNewProc
  <2> QED
    BY <1>2, <2>1 DEF SoundInv, CursSound, IdleSound, TypeOK
<1>8. TypeOK'
  BY <1>1, <1>2, <1>3, <1>6, SoundNewProc DEF SoundInv, TypeOK, JobRecord, Contexts
<1> QED
  BY <1>6, <1>7, <1>8 DEF SoundInv

LEMMA SoundAllocThread ==
  ASSUME SoundInv, NEW c \in Cpus, AllocThread(c)
  PROVE  SoundInv'
<1> DEFINE j == job[Context(c)]
<1>1. PICK t \in Threads \ talloc :
        /\ talloc' = talloc \cup {t}
        /\ tstate' = [tstate EXCEPT ![t] = "INITIAL"]
        /\ parent' = [parent EXCEPT ![t] = NoProc]
        /\ job' = [job EXCEPT ![t] = NoJob,
                              ![Context(c)] = [j EXCEPT !.at = "pushThread", !.thread = t]]
  BY DEF AllocThread
<1>2. thread_lock' = FALSE /\ UNCHANGED <<pstate, threadsVec, palloc, proc_table, initproc, cur, idleP,
                                          sched_lock, proc_lock, timer, pc>>
  BY DEF AllocThread
<1>3. j \in JobRecord /\ j.proc \in Procs
  BY SoundContext DEF JobSound, HoldsProc, AllocThread, Executes
<1> DEFINE new == [j EXCEPT !.at = "pushThread", !.thread = t]
<1>4. job' = [job EXCEPT ![t] = NoJob, ![Context(c)] = new]
  BY <1>1
<1> HIDE DEF j
<1>5. /\ new \in JobRecord /\ new.at = "pushThread" /\ new.thread = t /\ new.proc = j.proc
      /\ NoJob \in JobRecord /\ NoJob.at = "none"
  BY <1>3 DEF JobRecord, NoJob
<1> HIDE DEF new
<1>6. ASSUME NEW x \in Contexts PROVE JobSound(x)' /\ job'[x] \in JobRecord
  <2>0. /\ job \in [Contexts -> JobRecord] /\ t \in Contexts /\ Context(c) \in Contexts
        /\ Boot \notin Threads
    BY SoundContext, SchedAssumption DEF SoundInv, TypeOK, JobRecord, Contexts
  <2>1. job'[x] = IF x = Context(c) THEN new ELSE IF x = t THEN NoJob ELSE job[x]
    BY <1>4, <2>0
  <2>2. CASE x = Context(c)
    BY <1>3, <1>5, <2>1, <2>2 DEF JobSound, AfterInit
  <2>3. CASE x # Context(c) /\ x = t
    BY <1>5, <2>0, <2>1, <2>3 DEF JobSound, HoldsProc, HoldsThread
  <2>4. CASE x # Context(c) /\ x # t
    BY <1>2, <2>0, <2>1, <2>4 DEF JobSound, SoundInv, JobsSound
  <2> QED
    BY <2>2, <2>3, <2>4
<1>7. job' \in [Contexts -> JobRecord]
  <2>1. job' = [x \in Contexts |-> job'[x]]
    BY <1>4 DEF SoundInv, TypeOK
  <2> QED
    BY <1>6, <2>1
<1>8. CursSound' /\ JobsSound' /\ IdleSound'
  BY <1>2, <1>6, SameIdle DEF SoundInv, CursSound, JobsSound, Contexts
<1>9. tstate' \in [Threads -> State] /\ parent' \in [Threads -> Procs \cup {NoProc}] /\ talloc' \subseteq Threads
  BY <1>1 DEF SoundInv, TypeOK, State
<1>10. TypeOK'
  BY <1>2, <1>7, <1>9 DEF SoundInv, TypeOK, JobRecord, Contexts
<1> QED
  BY <1>8, <1>10 DEF SoundInv

LEMMA SoundPushThread ==
  ASSUME SoundInv, NEW c \in Cpus, PushThread(c)
  PROVE  SoundInv'
<1> DEFINE j == job[Context(c)]
           new == [j EXCEPT !.at = "storeThread", !.len = threadsVec[j.proc].length]
<1>1. /\ job' = [job EXCEPT ![Context(c)] = new] /\ j.at = "pushThread"
      /\ parent' = [parent EXCEPT ![j.thread] = j.proc]
      /\ UNCHANGED <<objVars, proc_table, initproc, cur, idleP, sched_lock, proc_lock, thread_lock, timer, pc>>
  BY DEF PushThread, Reads, Executes
<1>2. j \in JobRecord /\ j.proc \in Procs /\ j.thread \in Threads
  BY <1>1, SoundContext DEF JobSound, HoldsProc, HoldsThread
<1> HIDE DEF j
<1>3. threadsVec[j.proc].length \in Nat /\ parent' \in [Threads -> Procs \cup {NoProc}]
  BY <1>1, <1>2, VectorFacts DEF SoundInv, TypeOK
<1>4. SoundNew(c, new)
  BY <1>2, <1>3 DEF SoundNew, JobRecord, AfterInit
<1> HIDE DEF new
<1>5. job' \in [Contexts -> JobRecord] /\ JobsSound'
  BY <1>1, <1>4, SoundMove
<1>6. CursSound' /\ IdleSound'
  BY <1>1, SameIdle DEF SoundInv, CursSound, objVars
<1>7. TypeOK'
  BY <1>1, <1>3, <1>5 DEF SoundInv, TypeOK, objVars, JobRecord, Contexts
<1> QED
  BY <1>5, <1>6, <1>7 DEF SoundInv

LEMMA SoundStoreThread ==
  ASSUME SoundInv, NEW c \in Cpus, StoreThread(c)
  PROVE  SoundInv'
<1> DEFINE j == job[Context(c)]
           p == j.proc
           t == j.thread
           new == [at |-> "readyThread", proc |-> NoProc, thread |-> t, len |-> 0]
<1>1. /\ job' = [job EXCEPT ![Context(c)] = new] /\ j.at = "storeThread"
      /\ UNCHANGED <<tstate, pstate, talloc, palloc, parent, proc_table, initproc, cur, idleP, sched_lock,
                     proc_lock, thread_lock, timer, pc>>
  BY DEF StoreThread, Becomes, Executes
<1>2. j \in JobRecord /\ p \in Procs /\ t \in Threads
  BY <1>1, SoundContext DEF JobSound, HoldsProc, HoldsThread
<1>3. j.len \in Nat /\ threadsVec \in [Procs -> Vector(Threads)] /\ threadsVec[p] \in Vector(Threads)
  BY <1>2 DEF SoundInv, TypeOK, JobRecord
<1>4. PICK fill \in [Unwritten(threadsVec[p], j.len) -> Threads] :
        threadsVec' = [threadsVec EXCEPT ![p] = push_back(threadsVec[p], j.len, t, fill)]
  BY <1>3 DEF StoreThread
<1> HIDE DEF p, t, j
<1> DEFINE w == push_back(threadsVec[p], j.len, t, fill)
<1>5. w \in Vector(Threads) /\ DOMAIN threadsVec[p].data \subseteq DOMAIN w.data
  BY <1>2, <1>3, PushFacts
<1> HIDE DEF w
<1>6. /\ threadsVec' \in [Procs -> Vector(Threads)] /\ threadsVec'[p] = w
      /\ \A q \in Procs : q # p => threadsVec'[q] = threadsVec[q]
  BY <1>2, <1>3, <1>4, <1>5 DEF w
<1>7. SoundNew(c, new)
  BY <1>2 DEF SoundNew, JobRecord, HoldsProc, AfterInit
<1> HIDE DEF new
<1>8. job' \in [Contexts -> JobRecord] /\ JobsSound'
  BY <1>1, <1>7, SoundMove
<1>9. CursSound' /\ IdleSound'
  <2>1. \A q \in Procs : 1 \in DOMAIN threadsVec[q].data => 1 \in DOMAIN threadsVec'[q].data
    BY <1>5, <1>6
  <2> QED
    BY <1>1, <2>1 DEF SoundInv, CursSound, IdleSound, TypeOK
<1>10. TypeOK'
  BY <1>1, <1>6, <1>8 DEF SoundInv, TypeOK, JobRecord, Contexts
<1> QED
  BY <1>8, <1>9, <1>10 DEF SoundInv

\* Steps that set the state of a thread or a process, and go on or halt.
LEMMA SoundSet ==
  ASSUME SoundInv, NEW c \in Cpus,
         job' = job \/ Becomes(c, "halt", NoProc, NoThread),
         \/ \E t, st : st \in State /\ SetThread(t, st)
         \/ \E p, st : st \in State /\ SetProc(p, st)
  PROVE  SoundInv'
<1>1. /\ tstate' \in [Threads -> State] /\ pstate' \in [Procs -> State]
      /\ UNCHANGED <<threadsVec, talloc, palloc, parent, proc_table, initproc, cur,
                     idleP, sched_lock, proc_lock, thread_lock, timer, pc>>
  <2>0. tstate \in [Threads -> State] /\ pstate \in [Procs -> State]
    BY DEF SoundInv, TypeOK
  <2>1. CASE \E t, st : st \in State /\ SetThread(t, st)
    <3>1. PICK t, st : st \in State /\ SetThread(t, st)
      BY <2>1
    <3> QED
      BY <2>0, <3>1 DEF SetThread
  <2>2. CASE \E p, st : st \in State /\ SetProc(p, st)
    <3>1. PICK p, st : st \in State /\ SetProc(p, st)
      BY <2>2
    <3> QED
      BY <2>0, <3>1 DEF SetProc
  <2> QED
    BY <2>1, <2>2
<1>2. job' \in [Contexts -> JobRecord] /\ JobsSound'
  <2>1. CASE job' = job
    BY <1>1, <2>1 DEF SoundInv, TypeOK, JobsSound, JobSound, JobRecord, Contexts
  <2>2. CASE Becomes(c, "halt", NoProc, NoThread)
    <3> DEFINE new == [at |-> "halt", proc |-> NoProc, thread |-> NoThread, len |-> 0]
    <3>1. SoundNew(c, new) /\ job' = [job EXCEPT ![Context(c)] = new]
      BY <2>2 DEF SoundNew, JobRecord, HoldsProc, HoldsThread, AfterInit, Becomes
    <3> HIDE DEF new
    <3> QED
      BY <1>1, <3>1, SoundMove
  <2> QED
    BY <2>1, <2>2
<1>3. CursSound' /\ IdleSound'
  BY <1>1, SameIdle DEF SoundInv, CursSound
<1>4. TypeOK'
  BY <1>1, <1>2 DEF SoundInv, TypeOK, JobRecord, Contexts
<1> QED
  BY <1>2, <1>3, <1>4 DEF SoundInv

LEMMA SoundRequest ==
  ASSUME SoundInv, NEW c \in Cpus, Request(c)
  PROVE  SoundInv'
<1>1. "BLOCKED" \in State /\ "READY" \in State /\ "KILLED" \in State
  BY DEF State
<1>2. \/ \E t, st : st \in State /\ SetThread(t, st)
      \/ \E p, st : st \in State /\ SetProc(p, st)
  BY <1>1 DEF Request, BlockSelf, BlockThread, BlockOwnProc, BlockProc, thread_unblock, proc_unblock,
              ExitThread, ExitProc
<1>3. job' = job \/ Becomes(c, "halt", NoProc, NoThread)
  BY DEF Request, BlockSelf, BlockThread, BlockOwnProc, BlockProc, thread_unblock, proc_unblock,
         ExitThread, ExitProc
<1> QED
  BY <1>2, <1>3, SoundSet

LEMMA SoundTickEnterCommit ==
  ASSUME SoundInv, NEW c \in Cpus, Tick(c) \/ Enter(c) \/ Commit(c)
  PROVE  SoundInv'
<1>1. /\ UNCHANGED <<pstate, threadsVec, talloc, palloc, parent, proc_table, initproc, cur,
                     idleP, proc_lock, thread_lock, timer, job>>
      /\ sched_lock' \in BOOLEAN
  BY DEF Tick, Enter, Commit, objVars, SoundInv, TypeOK
<1>2. pc' = [pc EXCEPT ![c] = "enter"] \/ pc' = [pc EXCEPT ![c] = "run"] \/ pc' = [pc EXCEPT ![c] = "first"]
      \/ (pc' = [pc EXCEPT ![c] = "next"] /\ cur[c].thread # NoThread)
  BY DEF Tick, Enter, Commit, HasContext
<1>3. tstate' \in [Threads -> State]
  <2>1. \/ tstate' = tstate
        \/ tstate' = [tstate EXCEPT ![cur[c].thread] = "READY"]
        \/ tstate' = [tstate EXCEPT ![cur[c].thread] = "RUNNING"]
    BY DEF Tick, Enter, Commit, objVars
  <2>2. tstate \in [Threads -> State] /\ "READY" \in State /\ "RUNNING" \in State
    BY DEF SoundInv, TypeOK, State
  <2> QED
    BY <2>1, <2>2
<1>4. /\ pc' \in [Cpus -> {"run", "enter", "first", "next", "nofree", "idle", "commit"}]
      /\ CursSound'
  <2>1. pc \in [Cpus -> {"run", "enter", "first", "next", "nofree", "idle", "commit"}]
    BY DEF SoundInv, TypeOK
  <2>2. PICK at \in {"run", "enter", "first", "next"} :
          pc' = [pc EXCEPT ![c] = at] /\ (at = "next" => cur[c].thread # NoThread)
    BY <1>2
  <2> QED
    BY <1>1, <2>1, <2>2 DEF SoundInv, CursSound
<1>5. JobsSound'
  BY <1>1 DEF SoundInv, JobsSound, JobSound, Contexts
<1>6. TypeOK'
  BY <1>1, <1>3, <1>4 DEF SoundInv, TypeOK, Contexts
<1> QED
  BY <1>1, <1>4, <1>5, <1>6, SameIdle DEF SoundInv

\* The objects of a sound state, and what they are after they were cleaned.
LEMMA SoundObjects ==
  ASSUME SoundInv
  PROVE  Objects \in ObjectSet
  BY DEF SoundInv, TypeOK, Objects, ObjectSet

LEMMA ObjectFields ==
  /\ Objects.tstate = tstate /\ Objects.pstate = pstate /\ Objects.vec = threadsVec
  /\ Objects.talloc = talloc /\ Objects.palloc = palloc
  BY DEF Objects

\* Steps of switchTask that clean, or leave the objects, and then go to nofree or
\* idle, or switch to a thread.
LEMMA SoundSwitch ==
  ASSUME SoundInv, NEW c \in Cpus, NEW r \in ObjectSet, SetObjects(r),
         \A q \in Procs : DOMAIN r.vec[q].data = DOMAIN threadsVec[q].data,
         UNCHANGED <<parent, proc_table, initproc, idleP, sched_lock, proc_lock, thread_lock, timer, job>>,
         \/ UNCHANGED cur /\ \E at \in {"nofree", "idle"} : pc' = [pc EXCEPT ![c] = at]
         \/ \E p \in Procs, t \in Threads : Switch(c, p, t)
  PROVE  SoundInv'
<1>1. /\ tstate' \in [Threads -> State] /\ pstate' \in [Procs -> State]
      /\ threadsVec' \in [Procs -> Vector(Threads)]
      /\ talloc' \subseteq Threads /\ palloc' \subseteq Procs
  BY DEF SetObjects, ObjectSet
<1>2. /\ pc \in [Cpus -> {"run", "enter", "first", "next", "nofree", "idle", "commit"}]
      /\ cur \in [Cpus -> [proc : Procs \cup {NoProc}, thread : Threads \cup {NoThread}]]
      /\ NoProc \notin Procs /\ NoThread \notin Threads
  BY SchedAssumption DEF SoundInv, TypeOK
<1>3. /\ pc' \in [Cpus -> {"run", "enter", "first", "next", "nofree", "idle", "commit"}]
      /\ cur' \in [Cpus -> [proc : Procs \cup {NoProc}, thread : Threads \cup {NoThread}]]
      /\ CursSound'
  <2>1. CASE UNCHANGED cur /\ \E at \in {"nofree", "idle"} : pc' = [pc EXCEPT ![c] = at]
    BY <1>2, <2>1 DEF SoundInv, CursSound
  <2>2. CASE \E p \in Procs, t \in Threads : Switch(c, p, t)
    <3>1. PICK p \in Procs, t \in Threads : Switch(c, p, t)
      BY <2>2
    <3>2. cur' = [cur EXCEPT ![c] = [proc |-> p, thread |-> t]] /\ pc' = [pc EXCEPT ![c] = "commit"]
      BY <3>1 DEF Switch
    <3>3. /\ pc' \in [Cpus -> {"run", "enter", "first", "next", "nofree", "idle", "commit"}]
          /\ cur' \in [Cpus -> [proc : Procs \cup {NoProc}, thread : Threads \cup {NoThread}]]
      BY <1>2, <3>2
    <3>4. cur'[c].proc = p /\ cur'[c].thread = t /\ \A d \in Cpus : d # c => cur'[d] = cur[d] /\ pc'[d] = pc[d]
      BY <1>2, <3>2
    <3>5. CursSound'
      BY <1>2, <3>4 DEF SoundInv, CursSound
    <3> QED
      BY <3>3, <3>5
  <2> QED
    BY <2>1, <2>2
<1>4. JobsSound'
  BY DEF SoundInv, JobsSound, JobSound, Contexts
<1>5. TypeOK'
  BY <1>1, <1>3 DEF SoundInv, TypeOK, Contexts
<1>6. IdleSound'
  BY DEF SoundInv, TypeOK, IdleSound, SetObjects
<1> QED
  BY <1>3, <1>4, <1>5, <1>6 DEF SoundInv

\* The threads and processes that a search of switchTask finds.
LEMMA SoundReadyFound ==
  ASSUME SoundInv, NEW p \in Procs, NEW k \in Nat \ {0}, ReadyFrom(Objects, p, k) # {}
  PROVE  LET t == threadsVec[p].data[Least(ReadyFrom(Objects, p, k))]
         IN  t \in Threads /\ tstate[t] = "READY"
<1> DEFINE R == ReadyFrom(Objects, p, k)
<1>1. threadsVec[p].length \in Nat /\ \A i \in 1 .. threadsVec[p].length : threadsVec[p].data[i] \in Threads
  BY VectorFacts DEF SoundInv, TypeOK
<1>2. R = { i \in k .. threadsVec[p].length : tstate[threadsVec[p].data[i]] = "READY" }
  BY DEF ReadyFrom, Objects
<1>3. R \subseteq Nat
  BY <1>1, <1>2
<1> HIDE DEF R
<1>4. Least(R) \in R
  BY <1>3, LeastIn DEF R
<1>5. Least(R) \in k .. threadsVec[p].length /\ tstate[threadsVec[p].data[Least(R)]] = "READY"
  BY <1>2, <1>4
<1>6. Least(R) \in 1 .. threadsVec[p].length
  BY <1>1, <1>5
<1>7. threadsVec[p].data[Least(R)] \in Threads
  BY <1>1, <1>6
<1> QED
  BY <1>5, <1>7 DEF R

LEMMA SoundRunnableFound ==
  ASSUME SoundInv, NEW k \in Nat \ {0}, Runnable(Objects, k) # {}
  PROVE  LET i == Least(Runnable(Objects, k))
             q == proc_table.data[i]
             t == FirstReady(Objects, q)
         IN  /\ i \in 1 .. proc_table.length
             /\ q \in Procs /\ pstate[q] = "READY"
             /\ t \in Threads /\ tstate[t] = "READY"
<1> DEFINE R == Runnable(Objects, k)
           i == Least(R)
           q == proc_table.data[i]
<1>1. proc_table.length \in Nat /\ \A m \in 1 .. proc_table.length : proc_table.data[m] \in Procs
  BY VectorFacts DEF SoundInv, TypeOK
<1>2. R \subseteq k .. proc_table.length /\ \A j \in R : pstate[proc_table.data[j]] = "READY"
                                                        /\ ReadyFrom(Objects, proc_table.data[j], 1) # {}
  BY DEF Runnable, Objects
<1>3. R \subseteq Nat /\ R # {}
  BY <1>1, <1>2
<1> HIDE DEF R
<1>4. i \in R
  BY <1>3, LeastIn
<1>5. i \in 1 .. proc_table.length
  <2>1. i \in k .. proc_table.length
    BY <1>2, <1>4
  <2> HIDE DEF i
  <2> QED
    BY <1>1, <2>1
<1>6. q \in Procs /\ pstate[q] = "READY" /\ ReadyFrom(Objects, q, 1) # {}
  BY <1>1, <1>2, <1>4, <1>5
<1> HIDE DEF i, q
<1>7. FirstReady(Objects, q) \in Threads /\ tstate[FirstReady(Objects, q)] = "READY"
  BY <1>6, SoundReadyFound DEF FirstReady, Objects
<1> QED
  BY <1>5, <1>6, <1>7 DEF R, i, q

\* What the steps of switchTask do to the objects, and what they pick.
Picks(c) ==
  \/ UNCHANGED cur /\ \E at \in {"nofree", "idle"} : pc' = [pc EXCEPT ![c] = at]
  \/ \E p \in Procs, t \in Threads : Switch(c, p, t) /\ (p = idleP[c] \/ tstate[t] = "READY")

LEMMA PickFirstFacts ==
  ASSUME SoundInv, NEW c \in Cpus, PickFirst(c)
  PROVE  (\E r : Cleaned(Objects, r) /\ SetObjects(r)) /\ Picks(c)
<1> DEFINE chosen == Runnable(Objects, 1)
           n == IF chosen # {} THEN Least(chosen) - 1 ELSE proc_table.length
           r == Passed(Objects, n)
           q == proc_table.data[Least(chosen)]
<1>1. SetObjects(r) /\ IF chosen # {} THEN Switch(c, q, FirstReady(r, q)) ELSE GoIdle(c)
  BY DEF PickFirst
<1>2. proc_table.length \in Nat /\ \A i \in 1 .. proc_table.length : proc_table.data[i] \in Procs
  BY VectorFacts DEF SoundInv, TypeOK
<1>3. chosen # {} => /\ Least(chosen) \in 1 .. proc_table.length
                     /\ q \in Procs /\ pstate[q] = "READY"
                     /\ FirstReady(Objects, q) \in Threads /\ tstate[FirstReady(Objects, q)] = "READY"
  BY SoundRunnableFound
<1> HIDE DEF chosen, q
<1>4. n \in Nat /\ \A i \in 1 .. n : proc_table.data[i] \in Procs
  BY <1>2, <1>3
<1> HIDE DEF n
<1>5. /\ Cleaned(Objects, r)
      /\ \A p \in Procs : Objects.pstate[p] = "READY" => r.vec[p] = Objects.vec[p]
  BY <1>4, SoundObjects, PassedCleans
<1> HIDE DEF r
<1>6. chosen # {} => FirstReady(r, q) = FirstReady(Objects, q)
  BY <1>3, <1>5, ObjectFields DEF FirstReady, ReadyFrom, Cleaned
<1>7. Picks(c)
  BY <1>1, <1>3, <1>6 DEF Picks, GoIdle
<1> QED
  BY <1>1, <1>5, <1>7

LEMMA PickThreadFacts ==
  ASSUME SoundInv, NEW c \in Cpus, PickThread(c)
  PROVE  UNCHANGED objVars /\ Picks(c)
<1> DEFINE p == cur[c].proc
           k == StartAfter(threadsVec[p], cur[c].thread)
           t == threadsVec[p].data[Least(ReadyFrom(Objects, p, k))]
<1>1. pc[c] = "next" /\ ReadyFrom(Objects, p, k) # {} /\ Switch(c, p, t) /\ UNCHANGED objVars
  BY DEF PickThread
<1>2. p \in Procs
  BY <1>1, SoundContext DEF SoundInv, CursSound
<1>3. k \in Nat \ {0}
  BY StartsInside
<1> HIDE DEF p, k
<1>4. t \in Threads /\ tstate[t] = "READY"
  BY <1>1, <1>2, <1>3, SoundReadyFound
<1> QED
  BY <1>1, <1>2, <1>4 DEF Picks

LEMMA PickProcFacts ==
  ASSUME SoundInv, NEW c \in Cpus, PickProc(c)
  PROVE  (\E r : Cleaned(Objects, r) /\ SetObjects(r)) /\ Picks(c)
<1> DEFINE p == cur[c].proc
           k == StartAfter(proc_table, p)
           chosen == Runnable(Objects, k)
           q == proc_table.data[Least(chosen)]
<1>1. pc[c] = "next" /\ IF chosen # {} THEN Switch(c, q, FirstReady(Objects, q)) /\ SetObjects(clean_proc(Objects, p))
                                       ELSE GoIdle(c) /\ UNCHANGED objVars
  BY DEF PickProc
<1>2. p \in Procs /\ k \in Nat \ {0}
  BY <1>1, SoundContext, StartsInside DEF SoundInv, CursSound
<1>3. chosen # {} => /\ q \in Procs
                     /\ FirstReady(Objects, q) \in Threads /\ tstate[FirstReady(Objects, q)] = "READY"
  BY <1>2, SoundRunnableFound
<1>4. Cleaned(Objects, clean_proc(Objects, p)) /\ Cleaned(Objects, Objects)
  BY <1>2, SoundObjects, CleanProcCleans, CleanedSame
<1> HIDE DEF p, k, chosen, q
<1>5. UNCHANGED objVars => SetObjects(Objects)
  BY DEF objVars, SetObjects, Objects
<1>6. \E r : Cleaned(Objects, r) /\ SetObjects(r)
  BY <1>1, <1>4, <1>5
<1>7. Picks(c)
  BY <1>1, <1>3 DEF Picks, GoIdle
<1> QED
  BY <1>6, <1>7

LEMMA NoFreeFacts ==
  ASSUME SoundInv, NEW c \in Cpus, NoFree(c)
  PROVE  (\E r : Cleaned(Objects, r) /\ SetObjects(r)) /\ Picks(c)
<1>1. SetObjects(clean_proc(Objects, cur[c].proc)) /\ pc' = [pc EXCEPT ![c] = "idle"] /\ UNCHANGED cur
  BY DEF NoFree
<1>2. Cleaned(Objects, clean_proc(Objects, cur[c].proc))
  BY SoundContext, SoundObjects, CleanProcCleans
<1> QED
  BY <1>1, <1>2 DEF Picks

LEMMA IdleFacts ==
  ASSUME SoundInv, NEW c \in Cpus, Idle(c)
  PROVE  UNCHANGED objVars /\ Picks(c)
<1> DEFINE p == idleP[c]
           t == threadsVec[p].data[1]
<1>1. p # NoProc /\ Switch(c, p, t) /\ UNCHANGED objVars
  BY DEF Idle
<1>2. p \in Procs /\ threadsVec[p] \in Vector(Threads) /\ 1 \in DOMAIN threadsVec[p].data
  BY <1>1 DEF SoundInv, TypeOK, IdleSound
<1>3. t \in Threads
  BY <1>2, VectorFacts
<1> QED
  BY <1>1, <1>2, <1>3 DEF Picks

\* The steps of switchTask that pick what comes next.
Searches(c) == PickFirst(c) \/ PickThread(c) \/ PickProc(c) \/ NoFree(c) \/ Idle(c)

LEMMA SearchFacts ==
  ASSUME SoundInv, NEW c \in Cpus, Searches(c)
  PROVE  /\ \E r : Cleaned(Objects, r) /\ SetObjects(r)
         /\ Picks(c)
         /\ UNCHANGED <<parent, proc_table, initproc, idleP, sched_lock, proc_lock, thread_lock, timer, job>>
<1>1. UNCHANGED objVars => Cleaned(Objects, Objects) /\ SetObjects(Objects)
  BY SoundObjects, CleanedSame DEF objVars, SetObjects, Objects
<1>2. (\E r : Cleaned(Objects, r) /\ SetObjects(r)) /\ Picks(c)
  BY <1>1, PickFirstFacts, PickThreadFacts, PickProcFacts, NoFreeFacts, IdleFacts DEF Searches
<1>3. UNCHANGED <<parent, proc_table, initproc, idleP, sched_lock, proc_lock, thread_lock, timer, job>>
  BY DEF Searches, PickFirst, PickThread, PickProc, NoFree, Idle
<1> QED
  BY <1>2, <1>3

LEMMA SoundSearch ==
  ASSUME SoundInv, NEW c \in Cpus, Searches(c)
  PROVE  SoundInv'
<1>1. PICK r : Cleaned(Objects, r) /\ SetObjects(r)
  BY SearchFacts
<1>2. r \in ObjectSet /\ \A q \in Procs : DOMAIN r.vec[q].data = DOMAIN threadsVec[q].data
  BY <1>1, ObjectFields DEF Cleaned
<1>3. \/ UNCHANGED cur /\ \E at \in {"nofree", "idle"} : pc' = [pc EXCEPT ![c] = at]
      \/ \E p \in Procs, t \in Threads : Switch(c, p, t)
  BY SearchFacts DEF Picks
<1> QED
  BY <1>1, <1>2, <1>3, SearchFacts, SoundSwitch

LEMMA SoundIdleFirst ==
  ASSUME SoundInv, NEW c \in Cpus, IdleFirst(c)
  PROVE  SoundInv'
<1>1. PICK p \in Procs \ palloc, t \in Threads \ talloc :
        /\ NewProc(p, t)
        /\ job' = [job EXCEPT ![t] = [NoJob EXCEPT !.at = "halt"]]
        /\ idleP' = [idleP EXCEPT ![c] = p]
        /\ Switch(c, p, t)
  BY DEF IdleFirst
<1>2. UNCHANGED <<proc_table, initproc, sched_lock, proc_lock, thread_lock, timer>>
  BY DEF IdleFirst
<1> DEFINE j == [NoJob EXCEPT !.at = "halt"]
<1>3. j \in JobRecord /\ j.at = "halt"
  BY DEF JobRecord, NoJob
<1>4. job' = [job EXCEPT ![t] = j]
  BY <1>1
<1> HIDE DEF j
<1>5. job' \in [Contexts -> JobRecord] /\ JobsSound'
  <2>1. job \in [Contexts -> JobRecord] /\ t \in Contexts
    BY DEF SoundInv, TypeOK, JobRecord, Contexts
  <2>2. /\ job' \in [Contexts -> JobRecord] /\ job'[t] = j
        /\ \A x \in Contexts : x # t => job'[x] = job[x]
    BY <1>3, <1>4, <2>1
  <2>3. t # Boot
    BY SchedAssumption
  <2>4. ASSUME NEW x \in Contexts PROVE JobSound(x)'
    <3>1. CASE x = t
      BY <1>3, <2>2, <2>3, <3>1 DEF JobSound, HoldsProc, HoldsThread
    <3>2. CASE x # t
      BY <1>2, <2>2, <3>2 DEF JobSound, SoundInv, JobsSound
    <3> QED
      BY <3>1, <3>2
  <2> QED
    BY <2>2, <2>4 DEF JobsSound, Contexts
<1>6. /\ pc' \in [Cpus -> {"run", "enter", "first", "next", "nofree", "idle", "commit"}]
      /\ cur' \in [Cpus -> [proc : Procs \cup {NoProc}, thread : Threads \cup {NoThread}]]
      /\ idleP' \in [Cpus -> Procs \cup {NoProc}]
  BY <1>1 DEF SoundInv, TypeOK, Switch
<1>7. CursSound'
  <2>1. cur'[c].proc = p /\ cur'[c].thread = t /\ \A d \in Cpus : d # c => cur'[d] = cur[d] /\ pc'[d] = pc[d]
    BY <1>1 DEF SoundInv, TypeOK, Switch
  <2>2. NoProc \notin Procs /\ NoThread \notin Threads
    BY SchedAssumption
  <2> QED
    BY <2>1, <2>2 DEF SoundInv, CursSound
<1>8. TypeOK'
  BY <1>1, <1>2, <1>5, <1>6, SoundNewProc DEF SoundInv, TypeOK, JobRecord, Contexts
<1>9. IdleSound'
  <2>1. /\ 1 \in DOMAIN threadsVec'[p].data
        /\ \A q \in Procs : 1 \in DOMAIN threadsVec[q].data => 1 \in DOMAIN threadsVec'[q].data
    BY <1>1, SoundNewProc
  <2>2. idleP'[c] = p /\ \A d \in Cpus : d # c => idleP'[d] = idleP[d]
    BY <1>1 DEF SoundInv, TypeOK
  <2> QED
    BY <2>1, <2>2 DEF SoundInv, TypeOK, IdleSound
<1> QED
  BY <1>5, <1>7, <1>8, <1>9 DEF SoundInv

LEMMA SoundInit == Init => SoundInv
<1> SUFFICES ASSUME Init PROVE SoundInv
  OBVIOUS
<1>1. TypeOK
  <2>1. job \in [Contexts -> JobRecord]
    BY DEF Init, NoJob, JobRecord, Contexts
  <2>2. Empty \in Vector(Threads) /\ Empty \in Vector(Procs)
    BY EmptyFacts
  <2> QED
    BY <2>1, <2>2 DEF Init, TypeOK, State, JobRecord
<1>2. JobsSound
  BY DEF Init, JobsSound, JobSound, NoJob, Contexts, HoldsProc, HoldsThread, AfterInit
<1>3. CursSound /\ IdleSound
  BY DEF Init, CursSound, IdleSound
<1> QED
  BY <1>1, <1>2, <1>3 DEF SoundInv

(***************************************************************************)
(* The variables keep their types whatever threads call, on any number of  *)
(* CPUs: also where freed slots are listed, run and given out again, and   *)
(* where pushes are lost, a search of switchTask stays in its vector, the  *)
(* idle process has a first thread, and no operation goes on with a null   *)
(* process or thread.                                                      *)
(***************************************************************************)
THEOREM SchedulerSound == Spec => []SoundInv
<1>1. SoundInv /\ [Next]_vars => SoundInv'
  <2> SUFFICES ASSUME SoundInv, [Next]_vars PROVE SoundInv'
    OBVIOUS
  <2>1. CASE UNCHANGED vars
    <3>1. TypeOK'
      BY <2>1 DEF vars, SoundInv, TypeOK, Contexts
    <3> QED
      BY <2>1, <3>1 DEF vars, SoundInv, JobsSound, JobSound, CursSound, IdleSound, Contexts
  <2>2. CASE Next
    <3>1. PICK c \in Cpus : Operation(c) \/ Request(c) \/ Tick(c) \/ switchTask(c)
      BY <2>2 DEF Next
    <3>2. CASE Operation(c)
      BY <3>2, SoundCreateProcCall, SoundAllocProc, SoundPushProc, SoundStoreProc, SoundReadyProc,
         SoundCreateThreadCall, SoundAllocThread, SoundPushThread, SoundStoreThread, SoundReadyThread, SoundSchedulerInit DEF Operation
    <3>3. CASE Tick(c) \/ switchTask(c)
      BY <3>3, SoundTickEnterCommit, SoundSearch, SoundIdleFirst DEF switchTask, Searches
    <3> QED
      BY <3>1, <3>2, <3>3, SoundRequest
  <2> QED
    BY <2>1, <2>2
<1> QED
  BY <1>1, SoundInit, PTL DEF Spec

\* TypeOK, as part of SoundInv: no pick reads beyond a vector, no operation stores
\* a null where an object belongs.
THEOREM SchedulerTypeCorrect == Spec => []TypeOK
<1>1. SoundInv => TypeOK
  BY DEF SoundInv
<1> QED
  BY <1>1, SchedulerSound, PTL

\* Steps other than a search keep every thread allocated.
LEMMA KeepAllocated ==
  ASSUME SoundInv, NEW c \in Cpus,
         Operation(c) \/ Request(c) \/ Tick(c) \/ Enter(c) \/ IdleFirst(c) \/ Commit(c)
  PROVE  talloc \subseteq talloc'
<1>1. CASE Operation(c)
  BY <1>1 DEF Operation, CreateProcCall, AllocProc, NewProc, PushProc, StoreProc, ReadyProc, CreateThreadCall,
              AllocThread, PushThread, StoreThread, ReadyThread, SchedulerInit, objVars
<1>2. CASE Request(c)
  BY <1>2 DEF Request, BlockSelf, BlockThread, BlockOwnProc, BlockProc, thread_unblock, proc_unblock,
              ExitThread, ExitProc, SetThread, SetProc
<1>3. CASE Tick(c) \/ Enter(c) \/ IdleFirst(c) \/ Commit(c)
  BY <1>3 DEF Tick, Enter, IdleFirst, NewProc, Commit, objVars
<1> QED
  BY <1>1, <1>2, <1>3

(***************************************************************************)
(* On any number of CPUs, whatever threads call, clean_proc frees nothing  *)
(* but threads that have exited and threads listed in a process that has.  *)
(***************************************************************************)
THEOREM OnlyExitedFreed == Spec => FreedHasExited
<1> DEFINE Exited(t) == \/ tstate[t] = "KILLED"
                        \/ \E p \in Procs : pstate'[p] = "KILLED" /\ t \in Listed(threadsVec[p])
<1>1. SoundInv /\ [Next]_vars => [\A t \in talloc \ talloc' : Exited(t)]_vars
  <2> SUFFICES ASSUME SoundInv, Next, NEW t \in talloc \ talloc' PROVE Exited(t)
    OBVIOUS
  <2>1. PICK c \in Cpus : Operation(c) \/ Request(c) \/ Tick(c) \/ switchTask(c)
    BY DEF Next
  <2>2. Searches(c)
    BY <2>1, KeepAllocated DEF switchTask, Searches
  <2>3. PICK r : Cleaned(Objects, r) /\ SetObjects(r)
    BY <2>2, SearchFacts
  <2>4. t \in Objects.talloc \ r.talloc /\ pstate' = r.pstate
    BY <2>3, ObjectFields DEF SetObjects
  <2>5. \/ Objects.tstate[t] = "KILLED"
        \/ \E p \in Procs : r.pstate[p] = "KILLED" /\ t \in Listed(Objects.vec[p])
    BY <2>3, <2>4 DEF Cleaned
  <2> QED
    BY <2>4, <2>5, ObjectFields
<1> QED
  BY <1>1, SchedulerSound, PTL DEF Spec, FreedHasExited

-----------------------------------------------------------------------------
(* One CPU. *)

OneCpu == \A c, d \in Cpus : c = d

\* Between the pick and the commit nothing happens to the thread picked.
PickedReady ==
  \A c \in Cpus : pc[c] = "commit" => cur[c].proc = idleP[c] \/ tstate[cur[c].thread] = "READY"

\* What a search picks is READY, or in the idle process.
LEMMA SearchPicksReady ==
  ASSUME SoundInv, NEW c \in Cpus, Searches(c), \A d \in Cpus : d = c
  PROVE  PickedReady' /\ UNCHANGED tstate
<1>1. PICK r : Cleaned(Objects, r) /\ SetObjects(r)
  BY SearchFacts
<1>2. tstate' = tstate /\ idleP' = idleP
  BY <1>1, ObjectFields, SearchFacts DEF Cleaned, SetObjects
<1>3. /\ pc \in [Cpus -> {"run", "enter", "first", "next", "nofree", "idle", "commit"}]
      /\ cur \in [Cpus -> [proc : Procs \cup {NoProc}, thread : Threads \cup {NoThread}]]
  BY DEF SoundInv, TypeOK
<1>4. CASE \E at \in {"nofree", "idle"} : pc' = [pc EXCEPT ![c] = at]
  <2>1. pc'[c] # "commit"
    BY <1>3, <1>4
  <2> QED
    BY <1>2, <2>1 DEF PickedReady
<1>5. CASE \E p \in Procs, t \in Threads : Switch(c, p, t) /\ (p = idleP[c] \/ tstate[t] = "READY")
  <2>1. PICK p \in Procs, t \in Threads : Switch(c, p, t) /\ (p = idleP[c] \/ tstate[t] = "READY")
    BY <1>5
  <2>2. cur'[c].proc = p /\ cur'[c].thread = t
    BY <1>3, <2>1 DEF Switch
  <2> QED
    BY <1>2, <2>1, <2>2 DEF PickedReady
<1> QED
  BY <1>4, <1>5, SearchFacts DEF Picks

LEMMA PickedReadyKept ==
  ASSUME OneCpu, SoundInv, PickedReady, [Next]_vars
  PROVE  PickedReady'
<1>1. CASE UNCHANGED vars
  BY <1>1 DEF vars, PickedReady
<1>2. CASE Next
  <2>1. PICK c \in Cpus : Operation(c) \/ Request(c) \/ Tick(c) \/ switchTask(c)
    BY <1>2 DEF Next
  <2>2. \A d \in Cpus : d = c
    BY DEF OneCpu
  <2>3. pc \in [Cpus -> {"run", "enter", "first", "next", "nofree", "idle", "commit"}]
    BY DEF SoundInv, TypeOK
  <2>4. CASE Operation(c) \/ Request(c)
    <3>1. pc[c] = "run" /\ pc' = pc
      <4>1. CASE Operation(c)
        BY <4>1 DEF Operation, CreateProcCall, AllocProc, PushProc, StoreProc, ReadyProc, CreateThreadCall,
                    AllocThread, PushThread, StoreThread, ReadyThread, SchedulerInit, Executes, Calls
      <4>2. CASE Request(c)
        BY <4>2 DEF Request, BlockSelf, BlockThread, BlockOwnProc, BlockProc, thread_unblock, proc_unblock,
                    ExitThread, ExitProc, SetThread, SetProc, Calls, Executes
      <4> QED
        BY <2>4, <4>1, <4>2
    <3> QED
      BY <2>2, <3>1 DEF PickedReady
  <2>5. CASE Tick(c) \/ Enter(c) \/ Commit(c)
    <3>1. pc'[c] # "commit"
      BY <2>3, <2>5 DEF Tick, Enter, Commit
    <3> QED
      BY <2>2, <3>1 DEF PickedReady
  <2>6. CASE IdleFirst(c)
    <3>1. cur'[c].proc = idleP'[c]
      BY <2>6 DEF IdleFirst, Switch, SoundInv, TypeOK
    <3> QED
      BY <2>2, <3>1 DEF PickedReady
  <2>7. CASE Searches(c)
    BY <2>2, <2>7, SearchPicksReady
  <2> QED
    BY <2>1, <2>4, <2>5, <2>6, <2>7 DEF switchTask, Searches
<1> QED
  BY <1>1, <1>2

\* The exceptions of ExitedStaysDead.
Revives(t) ==
  \E c \in Cpus : \/ BlockThread(c, t)
                  \/ ReadyThread(c) /\ job[Context(c)].thread = t
                  \/ Commit(c) /\ cur[c].proc = idleP[c]

LEMMA DeadStays ==
  ASSUME OneCpu, SoundInv, PickedReady, Next, NEW t \in talloc \cap talloc', tstate[t] = "KILLED"
  PROVE  tstate'[t] = "KILLED" \/ Revives(t)
<1>1. PICK c \in Cpus : Operation(c) \/ Request(c) \/ Tick(c) \/ switchTask(c)
  BY DEF Next
<1>2. t \in Threads /\ tstate \in [Threads -> State] /\ \A d \in Cpus : d = c
  BY DEF SoundInv, TypeOK, OneCpu
<1>3. CASE Operation(c)
  <2>1. CASE ReadyThread(c)
    BY <1>2, <2>1 DEF ReadyThread, Revives
  <2>2. CASE AllocProc(c)
    BY <1>2, <2>2 DEF AllocProc, NewProc
  <2>3. CASE AllocThread(c)
    BY <1>2, <2>3 DEF AllocThread
  <2>4. CASE \/ CreateProcCall(c) \/ PushProc(c) \/ StoreProc(c) \/ ReadyProc(c)
             \/ CreateThreadCall(c) \/ PushThread(c) \/ StoreThread(c) \/ SchedulerInit(c)
    BY <2>4 DEF CreateProcCall, PushProc, StoreProc, ReadyProc, CreateThreadCall, PushThread, StoreThread,
                SchedulerInit, objVars
  <2> QED
    BY <1>3, <2>1, <2>2, <2>3, <2>4 DEF Operation
<1>4. CASE Request(c)
  <2>1. CASE BlockSelf(c) \/ ExitThread(c)
    BY <1>2, <2>1 DEF BlockSelf, ExitThread, SetThread, Active
  <2>2. CASE BlockOwnProc(c) \/ ExitProc(c) \/ \E p \in palloc : BlockProc(c, p) \/ proc_unblock(c, p)
    BY <2>2 DEF BlockOwnProc, ExitProc, BlockProc, proc_unblock, SetProc
  <2>3. CASE \E u \in talloc : BlockThread(c, u) \/ thread_unblock(c, u)
    BY <1>2, <2>3 DEF BlockThread, thread_unblock, SetThread, Revives
  <2> QED
    BY <1>4, <2>1, <2>2, <2>3 DEF Request
<1>5. CASE Tick(c) \/ Enter(c)
  BY <1>2, <1>5 DEF Tick, Enter, objVars
<1>6. CASE IdleFirst(c)
  BY <1>2, <1>6 DEF IdleFirst, NewProc
<1>7. CASE Searches(c)
  BY <1>2, <1>7, SearchPicksReady
<1>8. CASE Commit(c)
  BY <1>2, <1>8 DEF Commit, PickedReady, Revives
<1> QED
  BY <1>1, <1>3, <1>4, <1>5, <1>6, <1>7, <1>8 DEF switchTask, Searches

(***************************************************************************)
(* On one CPU, whatever threads call, and also where freed slots are run   *)
(* and given out again, a thread that has exited stays so, but for the     *)
(* three exceptions that ExitedStaysDead names.                            *)
(***************************************************************************)
THEOREM DeadThreadsStayDead ==
  ASSUME OneCpu
  PROVE  Spec => ExitedStaysDead
<1>1. Init => PickedReady
  BY DEF Init, PickedReady
<1>2. SoundInv /\ PickedReady /\ [Next]_vars => PickedReady'
  BY PickedReadyKept
<1>3. SoundInv /\ PickedReady /\ [Next]_vars =>
        [\A t \in talloc \cap talloc' :
           tstate[t] = "KILLED" =>
             \/ tstate'[t] = "KILLED"
             \/ \E c \in Cpus : \/ BlockThread(c, t)
                                \/ ReadyThread(c) /\ job[Context(c)].thread = t
                                \/ Commit(c) /\ cur[c].proc = idleP[c]]_vars
  BY DeadStays DEF Revives
<1> QED
  BY <1>1, <1>2, <1>3, SchedulerSound, PTL DEF Spec, ExitedStaysDead

=============================================================================
