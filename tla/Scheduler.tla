----------------------------- MODULE Scheduler ------------------------------
(***************************************************************************)
(* Threads, processes and the context switch,                              *)
(* system/CPU/scheduling/scheduler/scheduler.cpp.                          *)
(*                                                                         *)
(* Every CPU runs a context: the thread that is its currentThread or, when *)
(* it has none yet, the code it booted with (only the boot CPU's does      *)
(* anything: it runs the shell command nano, apps/turboShell.cpp 46-51).   *)
(* The timer interrupt takes a CPU from its context into switchTask, which *)
(* runs under sched_lock in steps: enter, pick, clean, idle, commit.       *)
(* The operations of threads take other locks or none, so they interleave  *)
(* with another CPU's switchTask, and the timer interrupts them.           *)
(*                                                                         *)
(* thread_t and process_t objects are slots that the heap hands out, takes *)
(* back and hands out again; what a pointer to a freed slot sees is what   *)
(* the slot holds then.  No code ever sets children or parent, so a        *)
(* process has neither.  Priorities, names, registers and the statistics   *)
(* proc_count and thread_count are left out.                               *)
(***************************************************************************)
EXTENDS TurboVector

CONSTANTS
  Cpus,
  Bsp,      \* the CPU that booted and runs the shell
  Threads,  \* thread_t slots
  Procs,    \* process_t slots
  Ops,      \* the operations running threads call in this instance
  MaxTable, \* bound: processes the table grows to (nothing is ever removed)
  MaxVec    \* bound: threads a process grows to

NoThread == "nullThread"
NoProc == "nullProc"
Boot == "boot"   \* the boot CPU's context before its first switch

ASSUME SchedAssumption ==
  /\ Bsp \in Cpus
  /\ {MaxTable, MaxVec} \subseteq Nat \ {0}
  /\ NoThread \notin Threads /\ Boot \notin Threads /\ NoProc \notin Procs

State == {"INITIAL", "READY", "RUNNING", "BLOCKED", "KILLED"}

VARIABLES
  tstate, pstate,  \* state fields
  parent,          \* thread -> parent_proc
  threadsVec,      \* process -> threads
  proc_table,
  talloc, palloc,  \* slots that are allocated
  initproc,        \* isInit is initproc # NoProc
  cur,             \* per CPU [proc, thread]: currentProcess, currentThread
  idleP,           \* per CPU
  sched_lock, proc_lock, thread_lock,
  timer,           \* per CPU: its timer interrupt is on
  pc,              \* per CPU: "run", or where it is in switchTask
  job              \* per context: the operation it is in, its operands and the
                   \* length its push_back has read

objVars == <<tstate, pstate, threadsVec, talloc, palloc>>
vars == <<tstate, pstate, parent, threadsVec, proc_table, talloc, palloc,
          initproc, cur, idleP, sched_lock, proc_lock, thread_lock, timer, pc, job>>

Contexts == Threads \cup {Boot}
NoJob == [at |-> "none", proc |-> NoProc, thread |-> NoThread, len |-> 0]

Init ==
  /\ tstate = [t \in Threads |-> "INITIAL"]
  /\ pstate = [p \in Procs |-> "INITIAL"]
  /\ parent = [t \in Threads |-> NoProc]
  /\ threadsVec = [p \in Procs |-> Empty]
  /\ proc_table = Empty
  /\ talloc = {} /\ palloc = {}
  /\ initproc = NoProc
  /\ cur = [c \in Cpus |-> [proc |-> NoProc, thread |-> NoThread]]
  /\ idleP = [c \in Cpus |-> NoProc]
  /\ sched_lock = FALSE /\ proc_lock = FALSE /\ thread_lock = FALSE
  /\ timer = [c \in Cpus |-> c # Bsp]
  /\ pc = [c \in Cpus |-> "run"]
  /\ job = [x \in Contexts |-> IF x = Boot THEN [NoJob EXCEPT !.at = "nano"] ELSE NoJob]

\* The context a CPU executes while it is not in switchTask.
Context(c) ==
  IF cur[c].thread # NoThread THEN cur[c].thread ELSE Boot

Executes(c, at) ==
  /\ pc[c] = "run"
  /\ cur[c].thread # NoThread \/ c = Bsp
  /\ job[Context(c)].at = at

\* The context of c goes on to another point of its operation.
Becomes(c, at, p, t) ==
  job' = [job EXCEPT ![Context(c)] = [at |-> at, proc |-> p, thread |-> t, len |-> 0]]

\* The context of c has read the length of v and is about to store.
Reads(c, at, v) ==
  job' = [job EXCEPT ![Context(c)] = [@ EXCEPT !.at = at, !.len = v.length]]

\* A running thread, not one in the middle of an operation, calls op.
Calls(c, op) == op \in Ops /\ cur[c].thread # NoThread /\ Executes(c, "none")

-----------------------------------------------------------------------------
(* createProc and createThread *)

\* allocProc and createThread of its first thread, on fresh slots p and t.
NewProc(p, t) ==
  /\ palloc' = palloc \cup {p}
  /\ talloc' = talloc \cup {t}
  /\ tstate' = [tstate EXCEPT ![t] = "READY"]
  /\ pstate' = [pstate EXCEPT ![p] = "INITIAL"]
  /\ parent' = [parent EXCEPT ![t] = p]
  /\ threadsVec' = [threadsVec EXCEPT ![p] = [data |-> <<t>>, length |-> 1]]

CreateProcCall(c) ==
  /\ Executes(c, "nano") \/ (Calls(c, "createProc") /\ proc_table.length < MaxTable)
  /\ ~proc_lock
  /\ proc_lock' = TRUE
  /\ Becomes(c, "allocProc", NoProc, NoThread)
  /\ UNCHANGED <<objVars, parent, proc_table, initproc, cur, idleP, sched_lock,
                 thread_lock, timer, pc>>

\* Lines 76-91.  The first process is init, and from here on switchTask works.
AllocProc(c) ==
  /\ Executes(c, "allocProc")
  /\ ~thread_lock
  /\ \E p \in Procs \ palloc, t \in Threads \ talloc :
       /\ NewProc(p, t)
       /\ initproc' = IF initproc = NoProc THEN p ELSE initproc
       /\ job' = [job EXCEPT ![t] = NoJob,
                             ![Context(c)] = [at |-> "pushProc", proc |-> p, thread |-> NoThread, len |-> 0]]
  /\ proc_lock' = FALSE
  /\ UNCHANGED <<proc_table, cur, idleP, sched_lock, thread_lock, timer, pc>>

\* Line 98, without a lock: push_back reads the length of the table, ...
PushProc(c) ==
  /\ Executes(c, "pushProc")
  /\ Reads(c, "storeProc", proc_table)
  /\ UNCHANGED <<objVars, parent, proc_table, initproc, cur, idleP, sched_lock,
                 proc_lock, thread_lock, timer, pc>>

\* ... and stores.
StoreProc(c) ==
  LET j == job[Context(c)] IN
  /\ Executes(c, "storeProc")
  /\ \E fill \in [Unwritten(proc_table, j.len) -> Procs] :
       proc_table' = push_back(proc_table, j.len, j.proc, fill)
  /\ Becomes(c, "readyProc", j.proc, NoThread)
  /\ UNCHANGED <<objVars, parent, initproc, cur, idleP, sched_lock, proc_lock,
                 thread_lock, timer, pc>>

\* Lines 100-102.  The shell goes on to create a thread in init.
ReadyProc(c) ==
  /\ Executes(c, "readyProc")
  /\ ~proc_lock
  /\ pstate' = [pstate EXCEPT ![job[Context(c)].proc] = "READY"]
  /\ Becomes(c, IF Context(c) = Boot THEN "createThread" ELSE "none", NoProc, NoThread)
  /\ UNCHANGED <<tstate, threadsVec, talloc, palloc, parent, proc_table, initproc,
                 cur, idleP, sched_lock, proc_lock, thread_lock, timer, pc>>

\* The shell creates its second thread in init, a thread in its own process.
CreateThreadCall(c) ==
  /\ \/ Executes(c, "createThread")
     \/ Calls(c, "createThread") /\ threadsVec[cur[c].proc].length < MaxVec
  /\ ~thread_lock
  /\ thread_lock' = TRUE
  /\ Becomes(c, "allocThread", IF Context(c) = Boot THEN initproc ELSE cur[c].proc, NoThread)
  /\ UNCHANGED <<objVars, parent, proc_table, initproc, cur, idleP, sched_lock,
                 proc_lock, timer, pc>>

\* Lines 32-45, under thread_lock.
AllocThread(c) ==
  /\ Executes(c, "allocThread")
  /\ \E t \in Threads \ talloc :
       /\ talloc' = talloc \cup {t}
       /\ tstate' = [tstate EXCEPT ![t] = "INITIAL"]
       /\ parent' = [parent EXCEPT ![t] = NoProc]
       /\ job' = [job EXCEPT ![t] = NoJob,
                             ![Context(c)] = [job[Context(c)] EXCEPT !.at = "pushThread", !.thread = t]]
  /\ thread_lock' = FALSE
  /\ UNCHANGED <<pstate, threadsVec, palloc, proc_table, initproc, cur, idleP, sched_lock,
                 proc_lock, timer, pc>>

\* Lines 53-56, without a lock: push_back reads the length of threadsVec, ...
PushThread(c) ==
  LET j == job[Context(c)] IN
  /\ Executes(c, "pushThread")
  /\ parent' = [parent EXCEPT ![j.thread] = j.proc]
  /\ Reads(c, "storeThread", threadsVec[j.proc])
  /\ UNCHANGED <<objVars, proc_table, initproc, cur, idleP, sched_lock, proc_lock,
                 thread_lock, timer, pc>>

\* ... and stores.
StoreThread(c) ==
  LET j == job[Context(c)] IN
  /\ Executes(c, "storeThread")
  /\ \E fill \in [Unwritten(threadsVec[j.proc], j.len) -> Threads] :
       threadsVec' = [threadsVec EXCEPT ![j.proc] = push_back(@, j.len, j.thread, fill)]
  /\ Becomes(c, "readyThread", NoProc, j.thread)
  /\ UNCHANGED <<tstate, pstate, talloc, palloc, parent, proc_table, initproc, cur, idleP,
                 sched_lock, proc_lock, thread_lock, timer, pc>>

\* Lines 60-62.
ReadyThread(c) ==
  /\ Executes(c, "readyThread")
  /\ ~thread_lock
  /\ tstate' = [tstate EXCEPT ![job[Context(c)].thread] = "READY"]
  /\ Becomes(c, IF Context(c) = Boot THEN "init" ELSE "none", NoProc, NoThread)
  /\ UNCHANGED <<pstate, threadsVec, talloc, palloc, parent, proc_table, initproc,
                 cur, idleP, sched_lock, proc_lock, thread_lock, timer, pc>>

\* scheduler::init on the boot CPU; the other CPUs called it when they came up.
SchedulerInit(c) ==
  /\ Executes(c, "init")
  /\ timer' = [timer EXCEPT ![c] = TRUE]
  /\ Becomes(c, "shell", NoProc, NoThread)
  /\ UNCHANGED <<objVars, parent, proc_table, initproc, cur, idleP, sched_lock,
                 proc_lock, thread_lock, pc>>

-----------------------------------------------------------------------------
(***************************************************************************)
(* Blocking, unblocking, exiting.  None of them takes a lock.  A test and  *)
(* the assignment it guards are one step: the runs let threads call these  *)
(* on one CPU, where a thread that is interrupted between the two finds    *)
(* its own state as it was.                                                *)
(***************************************************************************)

Active(st) == st \in {"READY", "RUNNING"}

SetThread(t, st) ==
  /\ tstate' = [tstate EXCEPT ![t] = st]
  /\ UNCHANGED <<pstate, threadsVec, talloc, palloc, parent, proc_table, initproc, cur,
                 idleP, sched_lock, proc_lock, thread_lock, timer, pc>>

SetProc(p, st) ==
  /\ pstate' = [pstate EXCEPT ![p] = st]
  /\ UNCHANGED <<tstate, threadsVec, talloc, palloc, parent, proc_table, initproc, cur,
                 idleP, sched_lock, proc_lock, thread_lock, timer, pc>>

\* blockThread(), lines 130-139.
BlockSelf(c) ==
  /\ Calls(c, "blockSelf")
  /\ Active(tstate[cur[c].thread])
  /\ SetThread(cur[c].thread, "BLOCKED")
  /\ UNCHANGED job

\* blockThread(thread), lines 141-150: it is the caller's state that is tested.
BlockThread(c, t) ==
  /\ Calls(c, "blockThread")
  /\ Active(tstate[cur[c].thread])
  /\ SetThread(t, "BLOCKED")
  /\ UNCHANGED job

\* blockProc(), lines 152-166.
BlockOwnProc(c) ==
  /\ Calls(c, "blockOwnProc")
  /\ cur[c].proc # initproc
  /\ Active(pstate[cur[c].proc])
  /\ SetProc(cur[c].proc, "BLOCKED")
  /\ UNCHANGED job

\* blockProc(proc), lines 168-177.
BlockProc(c, p) ==
  /\ Calls(c, "blockProc")
  /\ Active(pstate[cur[c].proc])
  /\ SetProc(p, "BLOCKED")
  /\ UNCHANGED job

\* Mutant: whatever state the thread is in.
unblock_any(c, t) ==
  /\ Calls(c, "unblock")
  /\ SetThread(t, "READY")
  /\ UNCHANGED job

thread_unblock(c, t) ==
  /\ Calls(c, "unblock")
  /\ tstate[t] = "BLOCKED"
  /\ SetThread(t, "READY")
  /\ UNCHANGED job

proc_unblock(c, p) ==
  /\ Calls(c, "unblock")
  /\ pstate[p] = "BLOCKED"
  /\ SetProc(p, "READY")
  /\ UNCHANGED job

\* Line 203: exitThread returns if this is init's only thread.
LastOfInit(c) == cur[c].proc = initproc /\ threadsVec[cur[c].proc].length = 1

ExitThread(c) ==
  /\ Calls(c, "exitThread")
  /\ ~LastOfInit(c)
  /\ SetThread(cur[c].thread, "KILLED")
  /\ Becomes(c, "halt", NoProc, NoThread)

ExitProc(c) ==
  /\ Calls(c, "exitProc")
  /\ cur[c].proc # initproc
  /\ SetProc(cur[c].proc, "KILLED")
  /\ Becomes(c, "halt", NoProc, NoThread)

-----------------------------------------------------------------------------
(* clean_proc *)

Objects ==
  [tstate |-> tstate, pstate |-> pstate, vec |-> threadsVec,
   talloc |-> talloc, palloc |-> palloc]

SetObjects(o) ==
  /\ tstate' = o.tstate /\ pstate' = o.pstate /\ threadsVec' = o.vec
  /\ talloc' = o.talloc /\ palloc' = o.palloc

\* Mutant: whatever state the thread is in.
TurnAny(o, p, all, i) ==
  IF i <= o.vec[p].length
    THEN [o EXCEPT !.vec[p] = remove(@, find(@, @.data[i])), !.talloc = @ \ {o.vec[p].data[i]}]
    ELSE o

\* A turn of the loops over threadsVec (lines 247-253 with all, 271-279
\* without): the thread at position i is taken out with
\* threadsVec.remove(threadsVec.find(thread)) and freed.
Turn(o, p, all, i) ==
  IF i <= o.vec[p].length /\ (all \/ o.tstate[o.vec[p].data[i]] = "KILLED")
    THEN [o EXCEPT !.vec[p] = remove(@, find(@, @.data[i])), !.talloc = @ \ {o.vec[p].data[i]}]
    ELSE o

\* The whole loop: the vector may get shorter, and i goes up all the same.
DropThreads(o, p, all) ==
  LET after[i \in 0 .. o.vec[p].length] == IF i = 0 THEN o ELSE Turn(after[i - 1], p, all, i)
  IN  after[o.vec[p].length]

\* Lines 239-268: what is left of a process that is KILLED.
FreeProc(o, p) ==
  [DropThreads(o, p, TRUE) EXCEPT !.palloc = @ \ {p}]

clean_proc(o, p) ==
  IF p = NoProc THEN o
  ELSE IF o.pstate[p] = "KILLED" THEN FreeProc(o, p)
  ELSE LET dropped == DropThreads(o, p, FALSE)
       IN  IF dropped.vec[p].length = 0
             THEN FreeProc([dropped EXCEPT !.pstate[p] = "KILLED"], p)
             ELSE dropped

-----------------------------------------------------------------------------
(* switchTask *)

\* The timer interrupt; before the first process exists switchTask returns.
Tick(c) ==
  /\ pc[c] = "run" /\ timer[c]
  /\ initproc # NoProc
  /\ pc' = [pc EXCEPT ![c] = "enter"]
  /\ UNCHANGED <<objVars, parent, proc_table, initproc, cur, idleP, sched_lock,
                 proc_lock, thread_lock, timer, job>>

HasContext(c) == cur[c].proc # NoProc /\ cur[c].thread # NoThread

\* Mutant: the thread that is interrupted stays RUNNING.
EnterKeepsRunning(c) ==
  /\ pc[c] = "enter"
  /\ ~sched_lock
  /\ sched_lock' = TRUE
  /\ pc' = [pc EXCEPT ![c] = IF HasContext(c) THEN "next" ELSE "first"]
  /\ UNCHANGED <<objVars, parent, proc_table, initproc, cur, idleP, proc_lock,
                 thread_lock, timer, job>>

\* Lines 293-325.
Enter(c) ==
  /\ pc[c] = "enter"
  /\ ~sched_lock
  /\ sched_lock' = TRUE
  /\ tstate' = IF HasContext(c) /\ tstate[cur[c].thread] = "RUNNING"
                 THEN [tstate EXCEPT ![cur[c].thread] = "READY"] ELSE tstate
  /\ pc' = [pc EXCEPT ![c] = IF HasContext(c) THEN "next" ELSE "first"]
  /\ UNCHANGED <<pstate, threadsVec, talloc, palloc, parent, proc_table, initproc, cur,
                 idleP, proc_lock, thread_lock, timer, job>>

Least(S) == CHOOSE x \in S : \A y \in S : x <= y

\* Mutant: every thread that is neither blocked nor killed.
NotBlockedFrom(o, p, k) ==
  { i \in k .. o.vec[p].length : o.tstate[o.vec[p].data[i]] \notin {"BLOCKED", "KILLED"} }

\* Positions (from 1) of the READY threads of p, at position k or after it.
ReadyFrom(o, p, k) == { i \in k .. o.vec[p].length : o.tstate[o.vec[p].data[i]] = "READY" }

\* Positions of the processes that are READY and have a READY thread.
Runnable(o, k) ==
  { i \in k .. proc_table.length :
      /\ o.pstate[proc_table.data[i]] = "READY"
      /\ ReadyFrom(o, proc_table.data[i], 1) # {} }

\* currentProcess and currentThread of c change; commit or nofree comes next.
Switch(c, p, t) ==
  /\ cur' = [cur EXCEPT ![c] = [proc |-> p, thread |-> t]]
  /\ pc' = [pc EXCEPT ![c] = "commit"]

GoIdle(c) ==
  /\ UNCHANGED cur
  /\ pc' = [pc EXCEPT ![c] = "nofree"]

FirstReady(o, p) == o.vec[p].data[Least(ReadyFrom(o, p, 1))]

\* Line 300: a process that is passed and not READY is cleaned.
Pass(o, i) ==
  IF o.pstate[proc_table.data[i]] # "READY" THEN clean_proc(o, proc_table.data[i]) ELSE o

Passed(o, n) ==
  LET after[i \in 0 .. n] == IF i = 0 THEN o ELSE Pass(after[i - 1], i)
  IN  after[n]

\* Lines 297-318: a CPU without a thread takes the first ready one of the
\* whole table.
PickFirst(c) ==
  LET chosen == Runnable(Objects, 1)
      after == Passed(Objects, IF chosen # {} THEN Least(chosen) - 1 ELSE proc_table.length)
  IN  /\ pc[c] = "first"
      /\ SetObjects(after)
      /\ IF chosen # {}
           THEN LET p == proc_table.data[Least(chosen)] IN Switch(c, p, FirstReady(after, p))
           ELSE GoIdle(c)
      /\ UNCHANGED <<parent, proc_table, initproc, idleP, sched_lock, proc_lock,
                     thread_lock, timer, job>>

\* Where the search for another thread, or another process, starts: find(...) + 1.
StartAfter(v, thing) == find(v, thing) + 2

(***************************************************************************)
(* Lines 327-342: another ready thread of this process, behind the place   *)
(* find reports.                                                           *)
(***************************************************************************)
PickThread(c) ==
  LET p == cur[c].proc
      ready == ReadyFrom(Objects, p, StartAfter(threadsVec[p], cur[c].thread))
  IN  /\ pc[c] = "next"
      /\ pstate[p] = "READY" /\ ready # {}
      /\ Switch(c, p, threadsVec[p].data[Least(ready)])
      /\ UNCHANGED <<objVars, parent, proc_table, initproc, idleP, sched_lock,
                     proc_lock, thread_lock, timer, job>>

\* Lines 343-362: another process, behind the place find reports.  The old
\* process is cleaned before the switch, nothing found: nofree.
PickProc(c) ==
  LET p == cur[c].proc
      chosen == Runnable(Objects, StartAfter(proc_table, p))
  IN  /\ pc[c] = "next"
      /\ ~(/\ pstate[p] = "READY"
           /\ ReadyFrom(Objects, p, StartAfter(threadsVec[p], cur[c].thread)) # {})
      /\ IF chosen # {}
           THEN LET q == proc_table.data[Least(chosen)] IN
                /\ Switch(c, q, FirstReady(Objects, q))
                /\ SetObjects(clean_proc(Objects, p))
           ELSE GoIdle(c) /\ UNCHANGED objVars
      /\ UNCHANGED <<parent, proc_table, initproc, idleP, sched_lock, proc_lock,
                     thread_lock, timer, job>>

\* Line 399.
NoFree(c) ==
  /\ pc[c] = "nofree"
  /\ SetObjects(clean_proc(Objects, cur[c].proc))
  /\ pc' = [pc EXCEPT ![c] = "idle"]
  /\ UNCHANGED <<parent, proc_table, initproc, cur, idleP, sched_lock, proc_lock,
                 thread_lock, timer, job>>

\* Lines 406-407 when the CPU has its idle process.  Nothing checks that
\* threadsVec[0] counts: an emptied vector still holds a thread that was freed.
Idle(c) ==
  /\ pc[c] = "idle" /\ idleP[c] # NoProc
  /\ Switch(c, idleP[c], threadsVec[idleP[c]].data[1])
  /\ UNCHANGED <<objVars, parent, proc_table, initproc, idleP, sched_lock, proc_lock,
                 thread_lock, timer, job>>

\* The first time there is none: allocProc takes proc_lock and thread_lock.
IdleFirst(c) ==
  /\ pc[c] = "idle" /\ idleP[c] = NoProc
  /\ ~proc_lock /\ ~thread_lock
  /\ \E p \in Procs \ palloc, t \in Threads \ talloc :
       /\ NewProc(p, t)
       /\ job' = [job EXCEPT ![t] = [NoJob EXCEPT !.at = "halt"]]
       /\ idleP' = [idleP EXCEPT ![c] = p]
       /\ Switch(c, p, t)
  /\ UNCHANGED <<proc_table, initproc, sched_lock, proc_lock, thread_lock, timer>>

\* Lines 388-396 and 410-417: run it, unlock, arm the timer.
Commit(c) ==
  /\ pc[c] = "commit"
  /\ tstate' = [tstate EXCEPT ![cur[c].thread] = "RUNNING"]
  /\ sched_lock' = FALSE
  /\ pc' = [pc EXCEPT ![c] = "run"]
  /\ UNCHANGED <<pstate, threadsVec, talloc, palloc, parent, proc_table, initproc, cur,
                 idleP, proc_lock, thread_lock, timer, job>>

-----------------------------------------------------------------------------
Operation(c) ==
  \/ CreateProcCall(c) \/ AllocProc(c) \/ PushProc(c) \/ StoreProc(c) \/ ReadyProc(c)
  \/ CreateThreadCall(c) \/ AllocThread(c) \/ PushThread(c) \/ StoreThread(c) \/ ReadyThread(c)
  \/ SchedulerInit(c)

Request(c) ==
  \/ BlockSelf(c) \/ BlockOwnProc(c) \/ ExitThread(c) \/ ExitProc(c)
  \/ \E t \in talloc : BlockThread(c, t) \/ thread_unblock(c, t)
  \/ \E p \in palloc : BlockProc(c, p) \/ proc_unblock(c, p)

switchTask(c) ==
  \/ Enter(c) \/ PickFirst(c) \/ PickThread(c) \/ PickProc(c)
  \/ NoFree(c) \/ Idle(c) \/ IdleFirst(c) \/ Commit(c)

Next == \E c \in Cpus : Operation(c) \/ Request(c) \/ Tick(c) \/ switchTask(c)

(***************************************************************************)
(* The timer of a CPU keeps firing, handlers run to their end, and the     *)
(* code a CPU executes makes progress between two ticks: the time slice is *)
(* 5 ms.  Threads are not obliged to call anything.                        *)
(***************************************************************************)
Fairness ==
  \A c \in Cpus :
    /\ WF_vars(Tick(c))
    /\ WF_vars(switchTask(c))
    /\ SF_vars(Operation(c) /\ job[Context(c)].at # "none")

Spec == Init /\ [][Next]_vars /\ Fairness

-----------------------------------------------------------------------------

TypeOK ==
  /\ tstate \in [Threads -> State] /\ pstate \in [Procs -> State]
  /\ parent \in [Threads -> Procs \cup {NoProc}]
  /\ threadsVec \in [Procs -> Vector(Threads)]
  /\ proc_table \in Vector(Procs)
  /\ talloc \subseteq Threads /\ palloc \subseteq Procs
  /\ initproc \in Procs \cup {NoProc}
  /\ cur \in [Cpus -> [proc : Procs \cup {NoProc}, thread : Threads \cup {NoThread}]]
  /\ idleP \in [Cpus -> Procs \cup {NoProc}]
  /\ {sched_lock, proc_lock, thread_lock} \subseteq BOOLEAN
  /\ timer \in [Cpus -> BOOLEAN]
  /\ pc \in [Cpus -> {"run", "enter", "first", "next", "nofree", "idle", "commit"}]
  /\ job \in [Contexts ->
                [at : {"none", "nano", "allocProc", "pushProc", "storeProc", "readyProc",
                       "createThread", "allocThread", "pushThread", "storeThread", "readyThread",
                       "init", "shell", "halt"},
                 proc : Procs \cup {NoProc}, thread : Threads \cup {NoThread}, len : Nat]]

(***************************************************************************)
(* A thread is the currentThread of at most one CPU, although every CPU    *)
(* picks from the same table while threads create others: two CPUs never   *)
(* execute on one stack.                                                   *)
(***************************************************************************)
SingleRunner ==
  \A c, d \in Cpus : c # d /\ cur[c].thread # NoThread => cur[c].thread # cur[d].thread

(***************************************************************************)
(* A thread that is marked RUNNING is some CPU's currentThread.  One that  *)
(* is not would never be picked again: switchTask only takes READY ones.   *)
(***************************************************************************)
RunningIsCurrent ==
  \A t \in Threads : tstate[t] = "RUNNING" => \E c \in Cpus : cur[c].thread = t

(***************************************************************************)
(* A thread runs only after its creator has made it READY, and in the      *)
(* process it was created in, whose page map switchTask loads.             *)
(***************************************************************************)
RunsWhereCreated ==
  \A c \in Cpus : cur[c].thread # NoThread =>
    tstate[cur[c].thread] # "INITIAL" /\ parent[cur[c].thread] = cur[c].proc

(***************************************************************************)
(* A thread that has called exitThread stays KILLED while it is allocated, *)
(* with three exceptions: blockThread(thread), which tests its caller's    *)
(* state and not the thread's; a creator that comes to line 61 after the   *)
(* thread was blocked, unblocked, run and exited; and the idle process,    *)
(* whose first thread switchTask runs without a look at its state.  For    *)
(* one CPU: another could end the thread between its pick and its commit.  *)
(***************************************************************************)
ExitedStaysDead ==
  [][\A t \in talloc \cap talloc' :
       tstate[t] = "KILLED" =>
         \/ tstate'[t] = "KILLED"
         \/ \E c \in Cpus : \/ BlockThread(c, t)
                            \/ ReadyThread(c) /\ job[Context(c)].thread = t
                            \/ Commit(c) /\ cur[c].proc = idleP[c]]_vars

(***************************************************************************)
(* What clean_proc frees has exited, or is listed in a process that has.   *)
(* Not more: remove(find(thread)) leaves the address of a freed thread in  *)
(* threadsVec, the heap gives it to a thread of another process, and the   *)
(* exit of the first process then frees a thread that lives.               *)
(***************************************************************************)
FreedHasExited ==
  [][\A t \in talloc \ talloc' :
       \/ tstate[t] = "KILLED"
       \/ \E p \in Procs : pstate'[p] = "KILLED" /\ t \in Listed(threadsVec[p])]_vars

(***************************************************************************)
(* "-nano --a sort of nano to prouve Turb-OS is multi tasking" (the help   *)
(* text, apps/turboShell.cpp line 63): a thread of init that is ready to   *)
(* run gets a CPU.                                                         *)
(***************************************************************************)
ReadyThreadsRun ==
  \A t \in Threads :
    (tstate[t] = "READY" /\ initproc # NoProc /\ parent[t] = initproc) ~> (tstate[t] = "RUNNING")

=============================================================================
