---------------------------- MODULE PMemoryProofs ---------------------------
(***************************************************************************)
(* Theorems about PMemory for any number of CPUs, any memory and any       *)
(* counter width.  What they say about pages ends with the first memset    *)
(* over the bitmap, which sets wiped.                                      *)
(***************************************************************************)
EXTENDS PMemory, WellFoundedInduction, FiniteSetTheorems, TLAPS

(***************************************************************************)
(* A set of natural numbers that is not empty has a least element.         *)
(***************************************************************************)
LEMMA LeastInSet ==
  ASSUME NEW T, T \subseteq Nat, T # {}
  PROVE  Least(T) \in T /\ \A y \in T : Least(T) <= y
<1>1. PICK x \in T : \A y \in T : ~(<<y, x>> \in OpToRel(<, Nat))
  BY NatLessThanWellFounded, WFMin
<1>2. \A y \in T : x <= y
  <2>1. \A y \in T : ~(y < x)
    BY <1>1, Zenon DEF OpToRel
  <2>2. QED
    BY <2>1
<1>3. QED
  BY <1>2 DEF Least

\* What one scan promises about its result f.
ScanOK(bm, from, limit, n, f) ==
  /\ f.page = -1 =>
       /\ f.bitmap = bm
       /\ RunBetween(bm, from, limit, n) = {}
       /\ f.last = IF from < limit THEN limit ELSE from
  /\ f.page # -1 =>
       /\ f.page \in RunBetween(bm, from, limit, n)
       /\ \A q \in RunBetween(bm, from, limit, n) : f.page <= q
       /\ f.bitmap = SetRange(bm, f.page, n, TRUE)
       /\ f.last = f.page + n

(***************************************************************************)
(* One scan of ohMyAlloc fails and leaves the bitmap alone exactly when    *)
(* there is no run, and otherwise marks the lowest run.                    *)
(***************************************************************************)
LEMMA ScanResult ==
  ASSUME NEW bm, NEW from \in Nat, NEW limit \in Nat, NEW n \in Nat \ {0}
  PROVE  ScanOK(bm, from, limit, n, ohMyAlloc(bm, from, limit, n))
<1> DEFINE runs == RunBetween(bm, from, limit, n)
           f == ohMyAlloc(bm, from, limit, n)
<1>1. runs \subseteq Nat
  BY DEF RunBetween
<1>2. CASE runs = {}
  <2>1. f = [bitmap |-> bm, last |-> IF from < limit THEN limit ELSE from, page |-> -1]
    BY <1>2 DEF ohMyAlloc
  <2>2. QED
    BY <1>2, <2>1 DEF ScanOK
<1>3. CASE runs # {}
  <2> DEFINE q == Least(runs)
  <2>1. q \in runs /\ \A r \in runs : q <= r
    BY <1>1, <1>3, LeastInSet
  <2>2. f = [bitmap |-> SetRange(bm, q, n, TRUE), last |-> q + n, page |-> q]
    BY <1>3 DEF ohMyAlloc
  <2>3. q # -1
    BY <1>1, <2>1
  <2> HIDE DEF q, runs, f
  <2>4. f.last = q + n /\ f.page = q /\ f.bitmap = SetRange(bm, q, n, TRUE)
    BY <2>2
  <2>5. ScanOK(bm, from, limit, n, f)
    BY <2>1, <2>3, <2>4 DEF ScanOK, runs
  <2>6. QED
    BY <2>5 DEF f
<1>4. QED
  BY <1>2, <1>3

\* What alloc's search promises about its result f.
FoundOK(bm, N, n, f) ==
  /\ f.page \in 1 .. N - 1
  /\ Run(f.page, n) \subseteq 1 .. N - 1
  /\ \A p \in Run(f.page, n) : ~bm[p]
  /\ f.bitmap = SetRange(bm, f.page, n, TRUE)
  /\ f.last \in 0 .. N

(***************************************************************************)
(* A scan of a bitmap whose page 0 is in use finds a run that lies inside  *)
(* the memory and leaves page 0, nullptr, out.                             *)
(***************************************************************************)
LEMMA ScanFound ==
  ASSUME NEW N \in Nat, NEW bm, NEW from \in 0 .. N, NEW limit \in 0 .. N,
         NEW n \in Nat \ {0}, bm[0],
         NEW f, ScanOK(bm, from, limit, n, f), f.page # -1
  PROVE  FoundOK(bm, N, n, f)
<1>1. /\ f.page \in RunBetween(bm, from, limit, n)
      /\ f.bitmap = SetRange(bm, f.page, n, TRUE)
      /\ f.last = f.page + n
  BY DEF ScanOK
<1>2. PICK q : q = f.page
  OBVIOUS
<1>3. q \in from .. limit - n /\ \A p \in Run(q, n) : ~bm[p]
  BY <1>1, <1>2 DEF RunBetween, FreeRun
<1>4. q \in Run(q, n)
  BY <1>3 DEF Run
<1>5. q # 0
  BY <1>3, <1>4
<1>6. q \in 1 .. N - 1 /\ q + n \in 0 .. N /\ Run(q, n) \subseteq 1 .. N - 1
  BY <1>3, <1>5 DEF Run
<1>7. QED
  BY <1>1, <1>2, <1>3, <1>6 DEF FoundOK

(***************************************************************************)
(* What alloc's two scans return when page 0 is in use: either a run of    *)
(* free pages other than page 0, which are then marked, or nothing and the *)
(* bitmap as it was; and nothing only if there is no free page at all, when*)
(* one page is asked for.                                                  *)
(***************************************************************************)
LEMMA SearchResult ==
  ASSUME NEW N \in Nat, NEW bm, NEW cursor \in 0 .. N, NEW n \in Nat \ {0}, bm[0],
         NEW f, f = Search(bm, cursor, N, n)
  PROVE  /\ f.page > 0 => FoundOK(bm, N, n, f)
         /\ ~(f.page > 0) =>
              /\ f.bitmap = bm
              /\ f.last \in 0 .. N
              /\ n = 1 => \A p \in 0 .. N - 1 : bm[p]
<1>1. PICK f1 : f1 = ohMyAlloc(bm, cursor, N, n)
  OBVIOUS
<1>2. PICK f2 : f2 = ohMyAlloc(f1.bitmap, 0, cursor, n)
  OBVIOUS
<1>3. f = IF f1.page > 0 THEN f1 ELSE f2
  BY <1>1, <1>2 DEF Search
<1>4. ScanOK(bm, cursor, N, n, f1)
  <2>1. cursor \in Nat
    OBVIOUS
  <2>2. QED
    BY <1>1, <2>1, ScanResult
<1>5. CASE f1.page # -1
  <2>1. FoundOK(bm, N, n, f1)
    <3>1. N \in 0 .. N
      OBVIOUS
    <3>2. QED
      BY <1>4, <1>5, <3>1, ScanFound
  <2>2. f1.page > 0
    BY <2>1 DEF FoundOK
  <2>3. QED
    BY <1>3, <2>1, <2>2
<1>6. CASE f1.page = -1
  <2>1. f = f2 /\ f1.bitmap = bm /\ RunBetween(bm, cursor, N, n) = {}
    BY <1>3, <1>4, <1>6 DEF ScanOK
  <2>2. ScanOK(bm, 0, cursor, n, f2)
    <3>1. cursor \in Nat /\ 0 \in Nat
      OBVIOUS
    <3>2. QED
      BY <1>2, <2>1, <3>1, ScanResult
  <2>3. CASE f2.page # -1
    <3>1. FoundOK(bm, N, n, f2)
      <4>1. 0 \in 0 .. N
        OBVIOUS
      <4>2. QED
        BY <2>2, <2>3, <4>1, ScanFound
    <3>2. f2.page > 0
      BY <3>1 DEF FoundOK
    <3>3. QED
      BY <2>1, <3>1, <3>2
  <2>4. CASE f2.page = -1
    <3>1. f.bitmap = bm /\ ~(f.page > 0)
      BY <2>1, <2>2, <2>4 DEF ScanOK
    <3>2. f.last \in 0 .. N
      BY <2>1, <2>2, <2>4 DEF ScanOK
    <3>3. ASSUME n = 1, NEW p \in 0 .. N - 1, ~bm[p] PROVE FALSE
      <4>1. FreeRun(bm, p, 1)
        BY <3>3 DEF FreeRun, Run
      <4>2. p \in RunBetween(bm, cursor, N, 1) \/ p \in RunBetween(bm, 0, cursor, 1)
        BY <4>1 DEF RunBetween
      <4>3. RunBetween(bm, 0, cursor, n) = {}
        BY <2>2, <2>4 DEF ScanOK
      <4>4. QED
        BY <2>1, <3>3, <4>2, <4>3
    <3>4. QED
      BY <3>1, <3>2, <3>3
  <2>5. QED
    BY <2>3, <2>4
<1>7. QED
  BY <1>5, <1>6

(***************************************************************************)
(* What a scan and a search return whatever the bitmap says, page 0        *)
(* included: a bitmap, a cursor in it and, if any, a page other than 0.    *)
(***************************************************************************)
Typed(N, f) ==
  /\ f.bitmap \in [0 .. N - 1 -> BOOLEAN]
  /\ f.last \in 0 .. N
  /\ f.page \in -1 .. N - 1

LEMMA ScanTyped ==
  ASSUME NEW N \in Nat, NEW bm \in [0 .. N - 1 -> BOOLEAN],
         NEW from \in 0 .. N, NEW limit \in 0 .. N, NEW n \in Nat \ {0}
  PROVE  Typed(N, ohMyAlloc(bm, from, limit, n))
<1>1. PICK f : f = ohMyAlloc(bm, from, limit, n)
  OBVIOUS
<1>2. ScanOK(bm, from, limit, n, f)
  <2>1. from \in Nat /\ limit \in Nat
    OBVIOUS
  <2>2. QED
    BY <1>1, <2>1, ScanResult
<1>3. CASE f.page = -1
  BY <1>1, <1>2, <1>3 DEF ScanOK, Typed
<1>4. CASE f.page # -1
  <2>1. PICK q : q = f.page
    OBVIOUS
  <2>2. q \in from .. limit - n
    BY <1>2, <1>4, <2>1 DEF ScanOK, RunBetween
  <2>3. f.bitmap = SetRange(bm, q, n, TRUE) /\ f.last = q + n
    BY <1>2, <1>4, <2>1 DEF ScanOK
  <2>4. f.bitmap \in [0 .. N - 1 -> BOOLEAN]
    BY <2>3 DEF SetRange
  <2>5. q \in -1 .. N - 1 /\ q + n \in 0 .. N
    BY <2>2
  <2>6. Typed(N, f)
    BY <2>1, <2>3, <2>4, <2>5 DEF Typed
  <2>7. QED
    BY <1>1, <2>6
<1>5. QED
  BY <1>3, <1>4

LEMMA SearchTyped ==
  ASSUME NEW N \in Nat, NEW bm \in [0 .. N - 1 -> BOOLEAN],
         NEW cursor \in 0 .. N, NEW n \in Nat \ {0}
  PROVE  Typed(N, Search(bm, cursor, N, n))
<1>1. PICK f1 : f1 = ohMyAlloc(bm, cursor, N, n)
  OBVIOUS
<1>2. N \in 0 .. N /\ 0 \in 0 .. N
  OBVIOUS
<1>3. Typed(N, f1)
  BY <1>1, <1>2, ScanTyped
<1>4. f1.bitmap \in [0 .. N - 1 -> BOOLEAN]
  BY <1>3 DEF Typed
<1>5. Typed(N, ohMyAlloc(f1.bitmap, 0, cursor, n))
  BY <1>2, <1>4, ScanTyped
<1>6. QED
  BY <1>1, <1>3, <1>5 DEF Search

(***************************************************************************)
(* memset leaves a bitmap a bitmap, and leaves it as it is when it does    *)
(* not reach the bitmap's pages.                                           *)
(***************************************************************************)
LEMMA MemsetKeeps ==
  ASSUME NEW bm \in [Pages -> BOOLEAN], NEW page, NEW n
  PROVE  /\ memset(bm, page, n) \in [Pages -> BOOLEAN]
         /\ ~Wipes(page, n) => memset(bm, page, n) = bm
<1>1. memset(bm, page, n) =
        [p \in Pages |-> IF BitmapBase + p \div PageBits \in Run(page, n) THEN FALSE ELSE bm[p]]
  BY DEF memset
<1>2. memset(bm, page, n) \in [Pages -> BOOLEAN]
  BY <1>1
<1>3. ASSUME ~Wipes(page, n) PROVE memset(bm, page, n) = bm
  <2>1. \A p \in Pages : BitmapBase + p \div PageBits \notin Run(page, n)
    BY <1>3, Zenon DEF Wipes, BitmapPages
  <2>2. memset(bm, page, n) = [p \in Pages |-> bm[p]]
    BY <1>1, <2>1
  <2>3. QED
    BY <2>2
<1>4. QED
  BY <1>2, <1>3

-----------------------------------------------------------------------------
\* A step of CPU c leaves the calls of the others alone.
OthersKeep(c) == \A d \in Cpus \ {c} : pc'[d] = pc[d] /\ op'[d] = op[d]

(***************************************************************************)
(* A step keeps the lock discipline if its CPU neither enters nor leaves   *)
(* the critical section, or takes a lock that was free, or gives up the    *)
(* lock that it had.                                                       *)
(***************************************************************************)
LEMMA MutexStep ==
  ASSUME NEW c \in Cpus, MutualExclusion, OthersKeep(c), mmLock \in BOOLEAN,
         \/ (InCritical(c)' <=> InCritical(c)) /\ mmLock' = mmLock
         \/ ~mmLock /\ mmLock' = TRUE /\ InCritical(c)'
         \/ InCritical(c) /\ ~InCritical(c)' /\ mmLock' = FALSE
  PROVE  MutualExclusion'
<1>1. \A d \in Cpus : d # c => (InCritical(d)' <=> InCritical(d))
  BY Zenon DEF OthersKeep, InCritical
<1>2. MutualExclusion'
      <=> /\ \A d, e \in Cpus : InCritical(d)' /\ InCritical(e)' => d = e
          /\ mmLock' <=> \E d \in Cpus : InCritical(d)'
  BY Zenon DEF MutualExclusion
<1>3. /\ \A d, e \in Cpus : InCritical(d) /\ InCritical(e) => d = e
      /\ mmLock <=> \E d \in Cpus : InCritical(d)
  BY Zenon DEF MutualExclusion
<1>4. CASE (InCritical(c)' <=> InCritical(c)) /\ mmLock' = mmLock
  BY <1>1, <1>2, <1>3, <1>4
<1>5. CASE ~mmLock /\ mmLock' = TRUE /\ InCritical(c)'
  BY <1>1, <1>2, <1>3, <1>5
<1>6. CASE InCritical(c) /\ ~InCritical(c)' /\ mmLock' = FALSE
  BY <1>1, <1>2, <1>3, <1>6
<1>7. QED
  BY <1>4, <1>5, <1>6

(***************************************************************************)
(* A step that leaves bitmap and blocks alone keeps what is said of them.  *)
(***************************************************************************)
LEMMA QuietStep ==
  ASSUME NoDoubleAllocation, FreeIsUsable, UNCHANGED <<bitmap, live, wiped>>
  PROVE  NoDoubleAllocation' /\ FreeIsUsable'
BY DEF NoDoubleAllocation, FreeIsUsable, PagesOf, Run

(***************************************************************************)
(* The initial state, as init leaves it, satisfies the invariant.          *)
(***************************************************************************)
LEMMA InitIInv == Init => IInv
<1> SUFFICES ASSUME Init PROVE IInv
  OBVIOUS
<1> USE MachineAssumption
<1>1. NoOp \in OpType /\ NoOp.pre = FALSE /\ NoOp.old = NoBlock
  BY DEF NoOp, Operation, OpType, NoBlock
<1>2. Cardinality(UsablePages) % RamModulus \in 0 .. RamModulus - 1
  <2>1. UsablePages \subseteq 1 .. NumPages - 1 /\ IsFiniteSet(1 .. NumPages - 1)
    BY FS_Interval
  <2>2. Cardinality(UsablePages) \in Nat
    BY <2>1, FS_Subset, FS_CardinalityType
  <2>3. QED
    BY <2>2
<1>3. TypeOK
  <2>1. bitmap \in [Pages -> BOOLEAN]
    BY Zenon DEF Init
  <2>2. last \in 0 .. NumPages /\ usedRam \in 0 .. RamModulus - 1
    BY DEF Init
  <2>3. /\ live \subseteq Block /\ mmLock \in BOOLEAN
        /\ pc \in [Cpus -> Labels]
        /\ op \in [Cpus -> OpType]
    BY <1>1 DEF Init, Labels
  <2>4. reg \in [Cpus -> 0 .. RamModulus - 1]
    BY DEF Init
  <2>5. QED
    BY <1>2, <2>1, <2>2, <2>3, <2>4 DEF Init, TypeOK
<1>4. MutualExclusion
  BY <1>1 DEF Init, MutualExclusion, InCritical, Counting
<1>5. NoDoubleAllocation /\ FreeIsUsable
  BY DEF Init, NoDoubleAllocation, FreeIsUsable
<1>6. \A c \in Cpus : Phases(c)
  BY <1>1 DEF Init, Phases
<1>7. Owned
  BY <1>1 DEF Init, Owned, Pending
<1>8. QED
  BY <1>3, <1>4, <1>5, <1>6, <1>7 DEF IInv

(***************************************************************************)
(* The calls of the other CPUs stay in the phase they were in.             *)
(***************************************************************************)
LEMMA PhasesStep ==
  ASSUME NEW c \in Cpus, OthersKeep(c), \A d \in Cpus : Phases(d), Phases(c)'
  PROVE  (\A d \in Cpus : Phases(d))'
BY DEF OthersKeep, Phases

(***************************************************************************)
(* A step that frees no block and takes none up for freeing keeps          *)
(* ownership.                                                              *)
(***************************************************************************)
LEMMA OwnedStep ==
  ASSUME NEW c \in Cpus, OthersKeep(c), Owned, live \subseteq live',
         op'[c].old = op[c].old, op'[c].drop = op[c].drop, Pending(c)' => Pending(c)
  PROVE  Owned'
<1> SUFFICES ASSUME NEW d \in Cpus, Pending(d)'
             PROVE  /\ op'[d].old \in live'
                    /\ op'[d].drop \in 1 .. op'[d].old.count
                    /\ \A e \in Cpus \ {d} : op'[e].old # op'[d].old
  BY DEF Owned
<1>1. \A e \in Cpus : op'[e].old = op[e].old /\ op'[e].drop = op[e].drop
  BY DEF OthersKeep
<1>2. Pending(d)
  BY DEF OthersKeep, Pending
<1>3. QED
  BY <1>1, <1>2 DEF Owned

(***************************************************************************)
(* A caller passes in a block that is held and that no call works on.      *)
(***************************************************************************)
LEMMA OwnedCall ==
  ASSUME NEW c \in Cpus, OthersKeep(c), Owned, live' = live, NEW b \in Held,
         op'[c].old = b, op'[c].drop \in 1 .. b.count
  PROVE  Owned'
<1> SUFFICES ASSUME NEW d \in Cpus, Pending(d)'
             PROVE  /\ op'[d].old \in live'
                    /\ op'[d].drop \in 1 .. op'[d].old.count
                    /\ \A e \in Cpus \ {d} : op'[e].old # op'[d].old
  BY DEF Owned
<1>1. b \in live /\ \A e \in Cpus : op[e].old # b
  BY DEF Held
<1>2. \A e \in Cpus \ {c} : op'[e].old = op[e].old /\ op'[e].drop = op[e].drop
  BY DEF OthersKeep
<1>3. CASE d = c
  BY <1>1, <1>2, <1>3
<1>4. CASE d # c
  <2>1. Pending(d)
    BY <1>4 DEF OthersKeep, Pending
  <2>2. QED
    BY <1>1, <1>2, <1>4, <2>1 DEF Owned
<1>5. QED
  BY <1>3, <1>4

(***************************************************************************)
(* Each action keeps the invariant.  First the entry points.               *)
(***************************************************************************)
LEMMA CallIInv ==
  ASSUME IInv, NEW c \in Cpus, Call(c)
  PROVE  IInv'
<1> USE MachineAssumption
<1> DEFINE Begins(o) ==
      /\ pc[c] = "idle"
      /\ op' = [op EXCEPT ![c] = o]
      /\ UNCHANGED <<bitmap, last, usedRam, freeRam, mmLock, live, wiped, reg>>
      /\ \/ /\ pc' = [pc EXCEPT ![c] = "lock"]
            /\ o.pre = FALSE
            /\ o.new > 0 \/ o.old # NoBlock
         \/ /\ pc' = [pc EXCEPT ![c] = "loadUsed"]
            /\ o.pre = TRUE /\ o.new > 0
      /\ \/ o.old = NoBlock
         \/ o.old \in Held /\ o.drop \in 1 .. o.old.count
<1>1. \E o \in OpType : Begins(o)
  <2>1. ASSUME NEW n \in 1 .. MaxCount, AllocCall(c, n) PROVE \E o \in OpType : Begins(o)
    <3>1. PICK o : o = Operation(n, NoBlock, 0, 0, FALSE)
      OBVIOUS
    <3>2. o \in OpType /\ o.new = n /\ o.old = NoBlock /\ o.pre = FALSE
      BY <3>1 DEF Operation, OpType
    <3>3. op' = [op EXCEPT ![c] = o]
      BY <2>1, <3>1, Zenon DEF AllocCall
    <3>4. /\ pc[c] = "idle"
          /\ pc' = [pc EXCEPT ![c] = "lock"]
          /\ UNCHANGED <<bitmap, last, usedRam, freeRam, mmLock, live, wiped, reg>>
      BY <2>1, Zenon DEF AllocCall
    <3>5. Begins(o)
      BY <3>2, <3>3, <3>4
    <3>6. QED
      BY <3>2, <3>5
  <2>2. ASSUME NEW b \in Held PROVE b \in Block /\ b.count \in 1 .. MaxCount /\ b # NoBlock
    BY DEF IInv, TypeOK, Held, Block, NoBlock
  <2>3. ASSUME NEW b \in Held, FreeCall(c, b) PROVE \E o \in OpType : Begins(o)
    <3>1. PICK o : o = Operation(0, b, b.count, 0, FALSE)
      OBVIOUS
    <3>2. o \in OpType /\ o.old = b /\ o.drop = b.count /\ o.pre = FALSE
      BY <2>2, <3>1 DEF Operation, OpType
    <3>3. op' = [op EXCEPT ![c] = o]
      BY <2>3, <3>1, Zenon DEF FreeCall
    <3>4. /\ pc[c] = "idle"
          /\ pc' = [pc EXCEPT ![c] = "lock"]
          /\ UNCHANGED <<bitmap, last, usedRam, freeRam, mmLock, live, wiped, reg>>
      BY <2>3, Zenon DEF FreeCall
    <3>5. Begins(o)
      BY <2>2, <3>2, <3>3, <3>4
    <3>6. QED
      BY <3>2, <3>5
  <2>4. ASSUME NEW b \in Held, NEW n \in 1 .. MaxCount, ReallocCall(c, b, n) PROVE \E o \in OpType : Begins(o)
    <3>1. PICK o : o = Operation(n, b, 1, n - b.count, TRUE)
      OBVIOUS
    <3>2. o \in OpType /\ o.old = b /\ o.drop = 1 /\ o.pre = TRUE /\ o.new = n
      BY <2>2, <3>1 DEF Operation, OpType
    <3>3. op' = [op EXCEPT ![c] = o]
      BY <2>4, <3>1, Zenon DEF ReallocCall
    <3>4. /\ pc[c] = "idle"
          /\ pc' = [pc EXCEPT ![c] = "loadUsed"]
          /\ UNCHANGED <<bitmap, last, usedRam, freeRam, mmLock, live, wiped, reg>>
      BY <2>4, Zenon DEF ReallocCall
    <3>5. Begins(o)
      BY <2>2, <3>2, <3>3, <3>4
    <3>6. QED
      BY <3>2, <3>5
  <2>5. QED
    BY <2>1, <2>3, <2>4 DEF Call
<1>2. PICK o \in OpType : Begins(o)
  BY <1>1
<1>3. op \in [Cpus -> OpType] /\ pc \in [Cpus -> Labels]
  BY DEF IInv, TypeOK
<1>4. op'[c] = o /\ OthersKeep(c)
  BY <1>2, <1>3 DEF OthersKeep
<1>5. TypeOK'
  <2>1. op' \in [Cpus -> OpType] /\ pc' \in [Cpus -> Labels]
    BY <1>2, <1>3 DEF Labels, Counting
  <2>2. QED
    BY <1>2, <2>1 DEF IInv, TypeOK
<1>6. MutualExclusion'
  <2>1. ~InCritical(c) /\ ~InCritical(c)' /\ mmLock' = mmLock
    BY <1>2, <1>3, <1>4 DEF InCritical, Counting
  <2>2. QED
    BY <1>4, <2>1, MutexStep DEF IInv, TypeOK
<1>7. NoDoubleAllocation' /\ FreeIsUsable'
  BY <1>2, QuietStep DEF IInv
<1>8. (\A d \in Cpus : Phases(d))'
  <2>1. Phases(c)'
    BY <1>2, <1>3, <1>4 DEF Phases, Counting
  <2>2. QED
    BY <1>4, <2>1, PhasesStep DEF IInv
<1>9. Owned'
  <2>1. CASE o.old = NoBlock
    BY <1>2, <1>4, <2>1 DEF IInv, Owned, Pending, OthersKeep
  <2>2. CASE o.old \in Held /\ o.drop \in 1 .. o.old.count
    BY <1>2, <1>4, <2>2, OwnedCall DEF IInv
  <2>3. QED
    BY <1>2, <2>1, <2>2
<1>10. QED
  BY <1>5, <1>6, <1>7, <1>8, <1>9 DEF IInv

(***************************************************************************)
(* Taking the lock.                                                        *)
(***************************************************************************)
LEMMA LockIInv ==
  ASSUME IInv, NEW c \in Cpus, Lock(c)
  PROVE  IInv'
<1> USE MachineAssumption
<1>1. op \in [Cpus -> OpType] /\ pc \in [Cpus -> Labels] /\ op' = op
  BY DEF IInv, TypeOK, Lock
<1>2. /\ pc'[c] = IF op[c].new > 0 THEN "search" ELSE "release"
      /\ OthersKeep(c)
  BY <1>1 DEF Lock, OthersKeep
<1>3. TypeOK'
  <2>1. pc' \in [Cpus -> Labels]
    BY <1>1 DEF Lock, Labels
  <2>2. QED
    BY <2>1 DEF IInv, TypeOK, Lock
<1>4. MutualExclusion'
  <2>1. ~mmLock /\ mmLock' = TRUE /\ InCritical(c)'
    BY <1>2 DEF Lock, InCritical
  <2>2. QED
    BY <1>2, <2>1, MutexStep DEF IInv, TypeOK
<1>5. NoDoubleAllocation' /\ FreeIsUsable'
  BY QuietStep DEF IInv, Lock
<1>6. (\A d \in Cpus : Phases(d))'
  <2>1. op[c].new \in Nat /\ Phases(c) /\ pc[c] = "lock"
    BY <1>1 DEF OpType, IInv, Lock
  <2>2. Phases(c)'
    BY <1>1, <1>2, <2>1 DEF Phases, Counting
  <2>3. QED
    BY <1>2, <2>2, PhasesStep DEF IInv
<1>7. Owned'
  <2>1. Pending(c)' => Pending(c)
    BY <1>1 DEF Pending, Lock
  <2>2. QED
    BY <1>1, <1>2, <2>1, OwnedStep DEF IInv, Lock
<1>8. QED
  BY <1>3, <1>4, <1>5, <1>6, <1>7 DEF IInv

(***************************************************************************)
(* The first three steps of a counter update: only a counter, the CPU's    *)
(* register and its place in the update change.                            *)
(***************************************************************************)
LEMMA CountIInv ==
  ASSUME IInv, NEW c \in Cpus, LoadUsed(c) \/ StoreUsed(c) \/ LoadFree(c)
  PROVE  IInv'
<1> USE MachineAssumption
<1>1. op \in [Cpus -> OpType] /\ pc \in [Cpus -> Labels] /\ op' = op
  BY DEF IInv, TypeOK, LoadUsed, StoreUsed, LoadFree
<1>2. /\ pc[c] \in Counting /\ pc'[c] \in Counting
      /\ pc' = [pc EXCEPT ![c] = pc'[c]]
      /\ UNCHANGED <<bitmap, last, freeRam, mmLock, live, wiped>>
  BY <1>1 DEF LoadUsed, StoreUsed, LoadFree, Counting
<1>3. OthersKeep(c)
  BY <1>1, <1>2 DEF OthersKeep
<1>4. usedRam' \in 0 .. RamModulus - 1 /\ reg' \in [Cpus -> 0 .. RamModulus - 1]
  <2>1. /\ reg \in [Cpus -> 0 .. RamModulus - 1]
        /\ usedRam \in 0 .. RamModulus - 1 /\ freeRam \in 0 .. RamModulus - 1
        /\ op[c].delta \in Int
    BY <1>1 DEF IInv, TypeOK, OpType
  <2>2. (reg[c] + op[c].delta) % RamModulus \in 0 .. RamModulus - 1
    BY <2>1
  <2>3. QED
    BY <2>1, <2>2 DEF LoadUsed, StoreUsed, LoadFree
<1>5. TypeOK'
  <2>1. pc' \in [Cpus -> Labels]
    BY <1>1, <1>2 DEF Labels
  <2>2. QED
    BY <1>1, <1>2, <1>4, <2>1 DEF IInv, TypeOK
<1>6. MutualExclusion'
  <2>1. (InCritical(c)' <=> InCritical(c)) /\ mmLock' = mmLock
    BY <1>1, <1>2 DEF InCritical, Counting
  <2>2. QED
    BY <1>3, <2>1, MutexStep DEF IInv, TypeOK
<1>7. NoDoubleAllocation' /\ FreeIsUsable'
  BY <1>2, QuietStep DEF IInv
<1>8. (\A d \in Cpus : Phases(d))'
  <2>1. Phases(c)'
    BY <1>1, <1>2 DEF IInv, Phases, Counting
  <2>2. QED
    BY <1>3, <2>1, PhasesStep DEF IInv
<1>9. Owned'
  <2>1. Pending(c)' => Pending(c)
    BY <1>1, <1>2 DEF Pending, Counting
  <2>2. QED
    BY <1>1, <1>2, <1>3, <2>1, OwnedStep DEF IInv
<1>10. QED
  BY <1>5, <1>6, <1>7, <1>8, <1>9 DEF IInv

(***************************************************************************)
(* The last step of a counter update.                                      *)
(***************************************************************************)
LEMMA StoreFreeIInv ==
  ASSUME IInv, NEW c \in Cpus, StoreFree(c)
  PROVE  IInv'
<1> USE MachineAssumption
<1>1. /\ op \in [Cpus -> OpType] /\ pc \in [Cpus -> Labels]
      /\ UNCHANGED <<bitmap, last, usedRam, mmLock, live, wiped, reg>>
      /\ pc[c] = "storeFree"
  BY DEF IInv, TypeOK, StoreFree
<1>2. PICK o : o = [op[c] EXCEPT !.pre = FALSE]
  OBVIOUS
<1>3. /\ o \in OpType /\ o.pre = FALSE
      /\ o.new = op[c].new /\ o.old = op[c].old /\ o.drop = op[c].drop
  BY <1>1, <1>2 DEF OpType
<1>4. /\ op' = [op EXCEPT ![c] = o] /\ op'[c] = o
      /\ pc' = [pc EXCEPT ![c] = pc'[c]]
      /\ pc'[c] = IF op[c].pre THEN "lock" ELSE "unlock"
      /\ OthersKeep(c)
  BY <1>1, <1>2 DEF StoreFree, OthersKeep
<1>5. TypeOK'
  <2>1. op[c].delta \in Int /\ reg[c] \in Int
    BY <1>1 DEF IInv, TypeOK, OpType
  <2>2. (reg[c] - op[c].delta) % RamModulus \in 0 .. RamModulus - 1
    BY <2>1
  <2>3. op' \in [Cpus -> OpType] /\ pc' \in [Cpus -> Labels]
    BY <1>1, <1>3, <1>4 DEF Labels
  <2>4. QED
    BY <1>1, <2>2, <2>3 DEF IInv, TypeOK, StoreFree
<1>6. MutualExclusion'
  <2>1. (InCritical(c)' <=> InCritical(c)) /\ mmLock' = mmLock
    BY <1>1, <1>3, <1>4 DEF InCritical, Counting
  <2>2. QED
    BY <1>4, <2>1, MutexStep DEF IInv, TypeOK
<1>7. NoDoubleAllocation' /\ FreeIsUsable'
  BY <1>1, QuietStep DEF IInv
<1>8. (\A d \in Cpus : Phases(d))'
  <2>1. Phases(c)'
    BY <1>1, <1>3, <1>4 DEF IInv, Phases, Counting
  <2>2. QED
    BY <1>4, <2>1, PhasesStep DEF IInv
<1>9. Owned'
  <2>1. Pending(c)' => Pending(c)
    BY <1>1, <1>3, <1>4 DEF IInv, Phases, Pending, Counting
  <2>2. QED
    BY <1>1, <1>3, <1>4, <2>1, OwnedStep DEF IInv
<1>10. QED
  BY <1>5, <1>6, <1>7, <1>8, <1>9 DEF IInv

(***************************************************************************)
(* Giving up the lock, between the two halves of a realloc and at the end. *)
(***************************************************************************)
LEMMA UnlockIInv ==
  ASSUME IInv, NEW c \in Cpus, Unlock(c)
  PROVE  IInv'
<1> USE MachineAssumption
<1>1. /\ op \in [Cpus -> OpType] /\ pc \in [Cpus -> Labels]
      /\ UNCHANGED <<bitmap, last, usedRam, freeRam, live, wiped, reg>>
      /\ pc[c] = "unlock" /\ mmLock' = FALSE
  BY DEF IInv, TypeOK, Unlock, UnlockAndFreeOld, UnlockAndReturn
<1>2. \E o \in OpType :
         /\ op' = [op EXCEPT ![c] = o] /\ o.pre = FALSE
         /\ \/ /\ o.old = NoBlock
               /\ pc' = [pc EXCEPT ![c] = "idle"]
            \/ /\ o.old = op[c].old /\ o.old # NoBlock /\ o.drop = op[c].drop
               /\ op[c].new > 0
               /\ pc' = [pc EXCEPT ![c] = "lock"]
  <2>1. CASE UnlockAndFreeOld(c)
    <3>1. PICK o : o = [op[c] EXCEPT !.new = 0]
      OBVIOUS
    <3>2. op[c].pre = FALSE
      BY <1>1 DEF IInv, Phases, Counting, OpType
    <3>3. /\ o \in OpType /\ o.pre = FALSE
          /\ o.old = op[c].old /\ o.drop = op[c].drop
      BY <1>1, <3>1, <3>2 DEF OpType
    <3>4. op' = [op EXCEPT ![c] = o]
      BY <1>1, <2>1, <3>1 DEF UnlockAndFreeOld
    <3>5. QED
      BY <2>1, <3>3, <3>4 DEF UnlockAndFreeOld
  <2>2. CASE UnlockAndReturn(c)
    <3>1. NoOp \in OpType /\ NoOp.old = NoBlock /\ NoOp.pre = FALSE
      BY DEF NoOp, Operation, OpType
    <3>2. QED
      BY <2>2, <3>1 DEF UnlockAndReturn
  <2>3. QED
    BY <2>1, <2>2 DEF Unlock
<1>3. PICK o \in OpType :
         /\ op' = [op EXCEPT ![c] = o] /\ o.pre = FALSE
         /\ \/ /\ o.old = NoBlock
               /\ pc' = [pc EXCEPT ![c] = "idle"]
            \/ /\ o.old = op[c].old /\ o.old # NoBlock /\ o.drop = op[c].drop
               /\ op[c].new > 0
               /\ pc' = [pc EXCEPT ![c] = "lock"]
  BY <1>2
<1>4. op'[c] = o /\ OthersKeep(c)
  BY <1>1, <1>3 DEF OthersKeep
<1>5. TypeOK'
  <2>1. op' \in [Cpus -> OpType] /\ pc' \in [Cpus -> Labels]
    BY <1>1, <1>3 DEF Labels
  <2>2. QED
    BY <1>1, <2>1 DEF IInv, TypeOK
<1>6. MutualExclusion'
  <2>1. InCritical(c) /\ ~InCritical(c)' /\ mmLock' = FALSE
    BY <1>1, <1>3, <1>4 DEF InCritical, Counting
  <2>2. QED
    BY <1>4, <2>1, MutexStep DEF IInv, TypeOK
<1>7. NoDoubleAllocation' /\ FreeIsUsable'
  BY <1>1, QuietStep DEF IInv
<1>8. (\A d \in Cpus : Phases(d))'
  <2>1. Phases(c)'
    BY <1>1, <1>3, <1>4 DEF Phases, Counting
  <2>2. QED
    BY <1>4, <2>1, PhasesStep DEF IInv
<1>9. Owned'
  <2>1. CASE o.old = NoBlock
    BY <1>1, <1>4, <2>1 DEF IInv, Owned, Pending, OthersKeep
  <2>2. CASE o.old = op[c].old /\ o.old # NoBlock /\ o.drop = op[c].drop /\ op[c].new > 0
    <3>1. Pending(c)
      BY <2>2 DEF Pending
    <3>2. QED
      BY <1>1, <1>4, <2>2, <3>1, OwnedStep DEF IInv
  <2>3. QED
    BY <1>3, <2>1, <2>2
<1>10. QED
  BY <1>5, <1>6, <1>7, <1>8, <1>9 DEF IInv

(***************************************************************************)
(* What alloc's search finds in a state of the invariant.                  *)
(***************************************************************************)
LEMMA SearchInState ==
  ASSUME IInv, NEW c \in Cpus, pc[c] = "search",
         NEW found, found = Search(bitmap, last, NumPages, op[c].new)
  PROVE  /\ op[c].new \in 1 .. MaxCount
         /\ Typed(NumPages, found)
         /\ found.page > 0 /\ ~wiped => FoundOK(bitmap, NumPages, op[c].new, found)
         /\ ~(found.page > 0) /\ ~wiped =>
              /\ found.bitmap = bitmap
              /\ op[c].new = 1 => \A p \in Pages : bitmap[p]
<1> USE MachineAssumption
<1>1. op[c].new \in 1 .. MaxCount
  <2>1. op[c].new \in 0 .. MaxCount /\ op[c].new > 0
    BY DEF IInv, TypeOK, OpType, Phases
  <2>2. QED
    BY <2>1
<1>2. ~wiped => bitmap[0]
  BY DEF IInv, TypeOK, FreeIsUsable, Pages
<1>3. op[c].new \in Nat \ {0} /\ NumPages \in Nat /\ last \in 0 .. NumPages
  BY <1>1 DEF IInv, TypeOK
<1>4. ASSUME ~wiped
      PROVE  /\ found.page > 0 => FoundOK(bitmap, NumPages, op[c].new, found)
             /\ ~(found.page > 0) =>
                     /\ found.bitmap = bitmap
                     /\ op[c].new = 1 => \A p \in 0 .. NumPages - 1 : bitmap[p]
  BY <1>2, <1>3, <1>4, SearchResult
<1>5. Typed(NumPages, found)
  <2>1. bitmap \in [0 .. NumPages - 1 -> BOOLEAN]
    BY DEF IInv, TypeOK, Pages
  <2>2. QED
    BY <1>3, <2>1, SearchTyped
<1>6. QED
  BY <1>1, <1>4, <1>5 DEF Pages

(***************************************************************************)
(* alloc found a run: its pages were free, so they are usable and in no    *)
(* other block.                                                            *)
(***************************************************************************)
LEMMA SearchFoundIInv ==
  ASSUME IInv, NEW c \in Cpus, SearchFound(c)
  PROVE  IInv'
<1> USE MachineAssumption
<1>1. /\ op \in [Cpus -> OpType] /\ pc \in [Cpus -> Labels]
      /\ bitmap \in [Pages -> BOOLEAN] /\ live \subseteq Block
      /\ UNCHANGED <<usedRam, freeRam, mmLock, reg>>
      /\ pc[c] = "search"
  BY DEF IInv, TypeOK, SearchFound
<1>2. PICK n : n = op[c].new
  OBVIOUS
<1>3. PICK found : found = Search(bitmap, last, NumPages, n)
  OBVIOUS
<1>4. PICK b : b = [page |-> found.page, count |-> n]
  OBVIOUS
<1>5. /\ found.page > 0
      /\ bitmap' = memset(found.bitmap, found.page, n)
      /\ wiped' = (wiped \/ Wipes(found.page, n))
      /\ last' = found.last
      /\ live' = live \cup {b}
      /\ op' = [op EXCEPT ![c].ret = b, ![c].delta = n]
      /\ pc' = [pc EXCEPT ![c] = "loadUsed"]
  BY <1>2, <1>3, <1>4 DEF SearchFound
<1>6. /\ n \in 1 .. MaxCount /\ Typed(NumPages, found)
      /\ ~wiped => FoundOK(bitmap, NumPages, n, found)
  BY <1>1, <1>2, <1>3, <1>5, SearchInState
<1>7. /\ b.page = found.page /\ b.count = n
      /\ b \in Block
      /\ last' \in 0 .. NumPages
      /\ bitmap' \in [Pages -> BOOLEAN]
  <2>1. found.page \in 1 .. NumPages - 1 /\ found.last \in 0 .. NumPages
    BY <1>5, <1>6 DEF Typed
  <2>2. b \in Block
    BY <1>4, <1>6, <2>1 DEF Block
  <2>3. found.bitmap \in [Pages -> BOOLEAN]
    BY <1>6 DEF Typed, Pages
  <2>4. bitmap' \in [Pages -> BOOLEAN]
    BY <1>5, <2>3, MemsetKeeps
  <2>5. QED
    BY <1>4, <1>5, <2>1, <2>2, <2>4
<1>8. ASSUME ~wiped'
      PROVE  /\ ~wiped
             /\ PagesOf(b) \subseteq Pages
             /\ \A p \in PagesOf(b) : ~bitmap[p]
             /\ \A p \in Pages : bitmap'[p] = IF p \in PagesOf(b) THEN TRUE ELSE bitmap[p]
  <2>1. ~wiped /\ ~Wipes(found.page, n)
    BY <1>5, <1>8
  <2>2. FoundOK(bitmap, NumPages, n, found)
    BY <1>6, <2>1
  <2>3. found.bitmap \in [Pages -> BOOLEAN]
    BY <1>6 DEF Typed, Pages
  <2>4. bitmap' = SetRange(bitmap, found.page, n, TRUE)
    BY <1>5, <2>1, <2>2, <2>3, MemsetKeeps DEF FoundOK
  <2>5. PagesOf(b) = Run(found.page, n)
    BY <1>7 DEF PagesOf
  <2>6. PagesOf(b) \subseteq Pages /\ \A p \in PagesOf(b) : ~bitmap[p]
    BY <2>2, <2>5 DEF FoundOK, Pages
  <2>7. \A p \in Pages : bitmap'[p] = IF p \in PagesOf(b) THEN TRUE ELSE bitmap[p]
    BY <1>1, <2>4, <2>5 DEF SetRange
  <2>8. QED
    BY <2>1, <2>6, <2>7
<1>9. PICK o : o = [op[c] EXCEPT !.ret = b, !.delta = n]
  OBVIOUS
<1>10. /\ o \in OpType /\ o.pre = op[c].pre
       /\ o.new = n /\ o.old = op[c].old /\ o.drop = op[c].drop
  <2>1. n \in -MaxCount .. MaxCount
    BY <1>6
  <2>2. op[c] \in OpType
    BY <1>1
  <2>3. o.pre = op[c].pre /\ o.new = n /\ o.old = op[c].old /\ o.drop = op[c].drop
    BY <1>2, <1>9, <2>2 DEF OpType
  <2>4. o \in OpType
    BY <1>7, <1>9, <2>1, <2>2 DEF OpType
  <2>5. QED
    BY <2>3, <2>4
<1>11. op' = [op EXCEPT ![c] = o] /\ op'[c] = o /\ pc'[c] = "loadUsed" /\ OthersKeep(c)
  BY <1>1, <1>5, <1>9 DEF OthersKeep
<1>12. TypeOK'
  <2>1. op' \in [Cpus -> OpType] /\ pc' \in [Cpus -> Labels]
    BY <1>1, <1>5, <1>10, <1>11 DEF Labels, Counting
  <2>2. wiped' \in BOOLEAN
    BY <1>5 DEF IInv, TypeOK
  <2>3. live' \subseteq Block
    BY <1>1, <1>5, <1>7
  <2>4. QED
    BY <1>1, <1>7, <2>1, <2>2, <2>3 DEF IInv, TypeOK
<1>13. MutualExclusion'
  <2>1. op[c].pre = FALSE
    BY <1>1 DEF IInv, Phases, Counting, OpType
  <2>2. InCritical(c) /\ InCritical(c)' /\ mmLock' = mmLock
    BY <1>1, <1>10, <1>11, <2>1 DEF InCritical, Counting
  <2>3. QED
    BY <1>11, <2>2, MutexStep DEF IInv, TypeOK
<1>14. ASSUME ~wiped'
       PROVE  /\ \A x, y \in live' : x # y => PagesOf(x) \cap PagesOf(y) = {}
              /\ \A x \in live' : \A p \in PagesOf(x) : p \in UsablePages /\ bitmap'[p]
              /\ \A p \in Pages : ~bitmap'[p] => p \in UsablePages
  <2>0. /\ ~wiped
        /\ PagesOf(b) \subseteq Pages
        /\ \A p \in PagesOf(b) : ~bitmap[p]
        /\ \A p \in Pages : bitmap'[p] = IF p \in PagesOf(b) THEN TRUE ELSE bitmap[p]
    BY <1>8, <1>14
  <2>1. ASSUME NEW x \in live PROVE /\ PagesOf(x) \cap PagesOf(b) = {}
                                    /\ \A p \in PagesOf(x) : p \in UsablePages /\ bitmap'[p]
    <3>1. \A p \in PagesOf(x) : p \in UsablePages /\ bitmap[p]
      BY <2>0 DEF IInv, NoDoubleAllocation
    <3>2. PagesOf(x) \cap PagesOf(b) = {}
      BY <2>0, <3>1
    <3>3. UsablePages \subseteq Pages
      BY DEF Pages
    <3>4. \A p \in PagesOf(x) : bitmap'[p]
      BY <2>0, <3>1, <3>3
    <3>5. QED
      BY <3>1, <3>2, <3>4
  <2>2. \A p \in PagesOf(b) : p \in UsablePages /\ bitmap'[p]
    BY <2>0 DEF IInv, FreeIsUsable
  <2>3. \A x, y \in live : x # y => PagesOf(x) \cap PagesOf(y) = {}
    BY <2>0 DEF IInv, NoDoubleAllocation
  <2>4. \A x, y \in live' : x # y => PagesOf(x) \cap PagesOf(y) = {}
    BY <1>5, <2>1, <2>3
  <2>5. \A x \in live' : \A p \in PagesOf(x) : p \in UsablePages /\ bitmap'[p]
    BY <1>5, <2>1, <2>2
  <2>6. \A p \in Pages : ~bitmap'[p] => p \in UsablePages
    BY <2>0 DEF IInv, FreeIsUsable
  <2>7. QED
    BY <2>4, <2>5, <2>6
<1>15. NoDoubleAllocation' /\ FreeIsUsable'
  BY <1>14 DEF NoDoubleAllocation, FreeIsUsable, PagesOf, Run
<1>16. (\A d \in Cpus : Phases(d))'
  <2>1. Phases(c)'
    BY <1>1, <1>6, <1>10, <1>11 DEF IInv, Phases, Counting
  <2>2. QED
    BY <1>11, <2>1, PhasesStep DEF IInv
<1>17. Owned'
  <2>1. Pending(c)' => Pending(c)
    BY <1>2, <1>10, <1>11 DEF Pending
  <2>2. QED
    BY <1>5, <1>10, <1>11, <2>1, OwnedStep DEF IInv
<1>18. QED
  BY <1>12, <1>13, <1>15, <1>16, <1>17 DEF IInv

(***************************************************************************)
(* alloc found nothing: unless memset of nullptr reaches the bitmap, it is *)
(* as it was.                                                              *)
(***************************************************************************)
LEMMA SearchFailedQuiet ==
  ASSUME IInv, NEW c \in Cpus, SearchFailed(c)
  PROVE  /\ bitmap' \in [Pages -> BOOLEAN]
         /\ last' \in 0 .. NumPages
         /\ wiped' \in BOOLEAN
         /\ wiped => wiped'
         /\ ~wiped' => bitmap' = bitmap
         /\ op[c].new = 1 /\ ~wiped => \A p \in Pages : bitmap[p]
<1> USE MachineAssumption
<1>1. PICK n : n = op[c].new
  OBVIOUS
<1>2. PICK found : found = Search(bitmap, last, NumPages, n)
  OBVIOUS
<1>3. /\ found.page <= 0 /\ bitmap' = memset(found.bitmap, 0, n)
      /\ wiped' = (wiped \/ Wipes(0, n)) /\ last' = found.last /\ pc[c] = "search"
  BY <1>1, <1>2 DEF SearchFailed
<1>4. Typed(NumPages, found)
  BY <1>1, <1>2, <1>3, SearchInState
<1>5. found.page \in Int /\ ~(found.page > 0)
  BY <1>3, <1>4 DEF Typed
<1>6. ~wiped => found.bitmap = bitmap /\ (n = 1 => \A p \in Pages : bitmap[p])
  BY <1>1, <1>2, <1>3, <1>5, SearchInState
<1>7. found.bitmap \in [Pages -> BOOLEAN] /\ last' \in 0 .. NumPages
  BY <1>3, <1>4 DEF Typed, Pages
<1>8. /\ bitmap' \in [Pages -> BOOLEAN]
      /\ ~Wipes(0, n) => bitmap' = found.bitmap
  BY <1>3, <1>7, MemsetKeeps
<1>9. wiped \in BOOLEAN
  BY DEF IInv, TypeOK
<1>10. QED
  BY <1>1, <1>3, <1>6, <1>7, <1>8, <1>9

LEMMA SearchFailedIInv ==
  ASSUME IInv, NEW c \in Cpus, SearchFailed(c)
  PROVE  IInv'
<1> USE MachineAssumption
<1>1. /\ op \in [Cpus -> OpType] /\ pc \in [Cpus -> Labels]
      /\ UNCHANGED <<usedRam, freeRam, mmLock, live, reg>>
      /\ pc[c] = "search"
      /\ op' = [op EXCEPT ![c].delta = op[c].new]
      /\ pc' = [pc EXCEPT ![c] = "loadUsed"]
  BY DEF IInv, TypeOK, SearchFailed
<1>2. /\ bitmap' \in [Pages -> BOOLEAN] /\ last' \in 0 .. NumPages
      /\ wiped' \in BOOLEAN /\ (wiped => wiped')
      /\ ~wiped' => bitmap' = bitmap
  BY SearchFailedQuiet
<1>3. op[c] \in OpType /\ op[c].new > 0 /\ op[c].pre = FALSE
  BY <1>1 DEF IInv, Phases, Counting, OpType
<1>4. PICK o : o = [op[c] EXCEPT !.delta = op[c].new]
  OBVIOUS
<1>5. /\ o \in OpType /\ o.pre = FALSE
      /\ o.new = op[c].new /\ o.old = op[c].old /\ o.drop = op[c].drop
  <2>1. op[c].new \in -MaxCount .. MaxCount
    BY <1>3 DEF OpType
  <2>2. QED
    BY <1>3, <1>4, <2>1 DEF OpType
<1>6. op' = [op EXCEPT ![c] = o] /\ op'[c] = o /\ pc'[c] = "loadUsed" /\ OthersKeep(c)
  BY <1>1, <1>4 DEF OthersKeep
<1>7. TypeOK'
  <2>1. op' \in [Cpus -> OpType] /\ pc' \in [Cpus -> Labels]
    BY <1>1, <1>5, <1>6 DEF Labels, Counting
  <2>2. QED
    BY <1>1, <1>2, <2>1 DEF IInv, TypeOK
<1>8. MutualExclusion'
  <2>1. InCritical(c) /\ InCritical(c)' /\ mmLock' = mmLock
    BY <1>1, <1>5, <1>6 DEF InCritical, Counting
  <2>2. QED
    BY <1>6, <2>1, MutexStep DEF IInv, TypeOK
<1>9. NoDoubleAllocation' /\ FreeIsUsable'
  <2>1. CASE wiped'
    BY <2>1 DEF NoDoubleAllocation, FreeIsUsable
  <2>2. CASE ~wiped'
    <3>1. wiped' = wiped
      BY <1>2, <2>2 DEF IInv, TypeOK
    <3>2. QED
      BY <1>1, <1>2, <2>2, <3>1, QuietStep DEF IInv
  <2>3. QED
    BY <2>1, <2>2
<1>10. (\A d \in Cpus : Phases(d))'
  <2>1. Phases(c)'
    BY <1>5, <1>6 DEF Phases, Counting
  <2>2. QED
    BY <1>6, <2>1, PhasesStep DEF IInv
<1>11. Owned'
  <2>1. Pending(c)' => Pending(c)
    BY <1>5, <1>6 DEF Pending
  <2>2. QED
    BY <1>1, <1>5, <1>6, <2>1, OwnedStep DEF IInv
<1>12. QED
  BY <1>7, <1>8, <1>9, <1>10, <1>11 DEF IInv

(***************************************************************************)
(* free gives back pages of the block that the call owns, and of no other. *)
(***************************************************************************)
LEMMA ReleaseFacts ==
  ASSUME IInv, NEW c \in Cpus, Release(c)
  PROVE  /\ op[c].old \in live
         /\ op[c].drop \in 1 .. op[c].old.count
         /\ op[c].new = 0 /\ op[c].pre = FALSE
         /\ \A d \in Cpus \ {c} : op[d].old # op[c].old
         /\ Run(op[c].old.page, op[c].drop) \subseteq PagesOf(op[c].old)
         /\ ~wiped => PagesOf(op[c].old) \subseteq UsablePages
         /\ bitmap' = SetRange(bitmap, op[c].old.page, op[c].drop, FALSE)
<1>1. pc[c] = "release" /\ op[c] \in OpType
  BY DEF Release, IInv, TypeOK
<1>2. op[c].new = 0 /\ op[c].pre = FALSE /\ Pending(c)
  BY <1>1 DEF IInv, Phases, Pending, Counting, OpType
<1>3. /\ op[c].old \in live
      /\ op[c].drop \in 1 .. op[c].old.count
      /\ \A d \in Cpus \ {c} : op[d].old # op[c].old
  BY <1>2 DEF IInv, Owned
<1>4. op[c].old.page \in Nat /\ op[c].old.count \in Nat
  BY <1>3, MachineAssumption DEF IInv, TypeOK, Block
<1>5. Run(op[c].old.page, op[c].drop) \subseteq PagesOf(op[c].old)
  BY <1>3, <1>4 DEF Run, PagesOf
<1>6. ~wiped => PagesOf(op[c].old) \subseteq UsablePages
  BY <1>3 DEF IInv, NoDoubleAllocation
<1>7. QED
  BY <1>2, <1>3, <1>5, <1>6 DEF Release

LEMMA ReleaseIInv ==
  ASSUME IInv, NEW c \in Cpus, Release(c)
  PROVE  IInv'
<1> USE MachineAssumption
<1>1. /\ op \in [Cpus -> OpType] /\ pc \in [Cpus -> Labels]
      /\ bitmap \in [Pages -> BOOLEAN] /\ live \subseteq Block
      /\ UNCHANGED <<usedRam, freeRam, mmLock, wiped, reg>>
      /\ pc[c] = "release"
      /\ op' = [op EXCEPT ![c].delta = -op[c].drop]
      /\ pc' = [pc EXCEPT ![c] = "loadUsed"]
  BY DEF IInv, TypeOK, Release
<1>2. PICK b : b = op[c].old
  OBVIOUS
<1>3. PICK n : n = op[c].drop
  OBVIOUS
<1>4. /\ b \in live /\ n \in 1 .. b.count /\ op[c].new = 0 /\ op[c].pre = FALSE
      /\ \A d \in Cpus \ {c} : op[d].old # b
      /\ Run(b.page, n) \subseteq PagesOf(b)
      /\ ~wiped => PagesOf(b) \subseteq UsablePages
      /\ bitmap' = SetRange(bitmap, b.page, n, FALSE)
      /\ live' = live \ {b}
      /\ last' = IF last > b.page THEN b.page ELSE last
  BY <1>2, <1>3, ReleaseFacts DEF Release
<1>5. \A p \in Pages : bitmap'[p] = IF p \in Run(b.page, n) THEN FALSE ELSE bitmap[p]
  BY <1>1, <1>4 DEF SetRange
<1>6. b.page \in 1 .. NumPages - 1 /\ b.count \in 1 .. MaxCount
  BY <1>1, <1>4 DEF Block
<1>7. PICK o : o = [op[c] EXCEPT !.delta = -op[c].drop]
  OBVIOUS
<1>8. o \in OpType /\ o.pre = FALSE /\ o.new = 0 /\ o.old = b
  <2>1. op[c] \in OpType
    BY <1>1
  <2>2. -op[c].drop \in -MaxCount .. MaxCount
    BY <1>3, <1>4, <1>6
  <2>3. QED
    BY <1>2, <1>4, <1>7, <2>1, <2>2 DEF OpType
<1>9. op' = [op EXCEPT ![c] = o] /\ op'[c] = o /\ pc'[c] = "loadUsed" /\ OthersKeep(c)
  BY <1>1, <1>7 DEF OthersKeep
<1>10. TypeOK'
  <2>1. op' \in [Cpus -> OpType] /\ pc' \in [Cpus -> Labels]
    BY <1>1, <1>8, <1>9 DEF Labels, Counting
  <2>2. bitmap' \in [Pages -> BOOLEAN]
    BY <1>1, <1>4 DEF SetRange
  <2>3. last' \in 0 .. NumPages
    BY <1>4, <1>6 DEF IInv, TypeOK
  <2>4. QED
    BY <1>1, <1>4, <2>1, <2>2, <2>3 DEF IInv, TypeOK
<1>11. MutualExclusion'
  <2>1. InCritical(c) /\ InCritical(c)' /\ mmLock' = mmLock
    BY <1>1, <1>8, <1>9 DEF InCritical, Counting
  <2>2. QED
    BY <1>9, <2>1, MutexStep DEF IInv, TypeOK
<1>12. ASSUME ~wiped
       PROVE  /\ \A x, y \in live' : x # y => PagesOf(x) \cap PagesOf(y) = {}
              /\ \A x \in live' : \A p \in PagesOf(x) : p \in UsablePages /\ bitmap'[p]
              /\ \A p \in Pages : ~bitmap'[p] => p \in UsablePages
  <2>1. /\ \A x, y \in live : x # y => PagesOf(x) \cap PagesOf(y) = {}
        /\ \A x \in live : \A p \in PagesOf(x) : p \in UsablePages /\ bitmap[p]
    BY <1>12 DEF IInv, NoDoubleAllocation
  <2>2. ASSUME NEW x \in live' PROVE \A p \in PagesOf(x) : p \in UsablePages /\ bitmap'[p]
    <3>1. x \in live /\ PagesOf(x) \cap PagesOf(b) = {}
      BY <1>4, <2>1
    <3>2. \A p \in PagesOf(x) : p \notin Run(b.page, n) /\ p \in UsablePages /\ bitmap[p]
      BY <1>4, <2>1, <3>1
    <3>3. UsablePages \subseteq Pages
      BY DEF Pages
    <3>4. QED
      BY <1>5, <3>2, <3>3
  <2>3. \A x, y \in live' : x # y => PagesOf(x) \cap PagesOf(y) = {}
    BY <1>4, <2>1
  <2>4. \A p \in Pages : ~bitmap'[p] => p \in UsablePages
    BY <1>4, <1>5, <1>12 DEF IInv, FreeIsUsable
  <2>5. QED
    BY <2>2, <2>3, <2>4
<1>13. NoDoubleAllocation' /\ FreeIsUsable'
  BY <1>1, <1>12 DEF NoDoubleAllocation, FreeIsUsable, PagesOf, Run
<1>14. (\A d \in Cpus : Phases(d))'
  <2>1. Phases(c)'
    BY <1>8, <1>9 DEF Phases, Counting
  <2>2. QED
    BY <1>9, <2>1, PhasesStep DEF IInv
<1>15. Owned'
  <2> SUFFICES ASSUME NEW d \in Cpus, Pending(d)'
               PROVE  /\ op'[d].old \in live'
                      /\ op'[d].drop \in 1 .. op'[d].old.count
                      /\ \A e \in Cpus \ {d} : op'[e].old # op'[d].old
    BY DEF Owned
  <2>1. d # c
    BY <1>8, <1>9 DEF Pending
  <2>2. Pending(d) /\ op'[d] = op[d]
    BY <1>9, <2>1 DEF Pending, OthersKeep
  <2>3. \A e \in Cpus : op'[e].old = op[e].old
    BY <1>2, <1>8, <1>9 DEF OthersKeep
  <2>4. /\ op[d].old \in live /\ op[d].drop \in 1 .. op[d].old.count
        /\ \A e \in Cpus \ {d} : op[e].old # op[d].old
    BY <2>2 DEF IInv, Owned
  <2>5. QED
    BY <1>4, <2>1, <2>2, <2>3, <2>4
<1>16. QED
  BY <1>10, <1>11, <1>13, <1>14, <1>15 DEF IInv

(***************************************************************************)
(* The invariant is inductive.                                             *)
(***************************************************************************)
LEMMA NextIInv ==
  ASSUME IInv, [Next]_vars
  PROVE  IInv'
<1>1. CASE Next
  <2>1. PICK c \in Cpus : Call(c) \/ Step(c)
    BY <1>1 DEF Next
  <2>2. QED
    BY <2>1, CallIInv, LockIInv, SearchFoundIInv, SearchFailedIInv, ReleaseIInv,
       CountIInv, StoreFreeIInv, UnlockIInv DEF Step
<1>2. CASE UNCHANGED vars
  <2>1. TypeOK' /\ MutualExclusion'
    BY <1>2 DEF IInv, TypeOK, MutualExclusion, InCritical, vars
  <2>2. NoDoubleAllocation' /\ FreeIsUsable'
    BY <1>2, QuietStep DEF IInv, vars
  <2>3. (\A c \in Cpus : Phases(c))' /\ Owned'
    BY <1>2 DEF IInv, Phases, Owned, Pending, vars
  <2>4. QED
    BY <2>1, <2>2, <2>3 DEF IInv
<1>3. QED
  BY <1>1, <1>2

(***************************************************************************)
(* Every reachable state of alloc, free and realloc, on any number of      *)
(* CPUs, satisfies the inductive invariant.                                *)
(***************************************************************************)
THEOREM Invariance == Spec => []IInv
<1>1. Init => IInv
  BY InitIInv
<1>2. IInv /\ [Next]_vars => IInv'
  BY NextIInv
<1>3. QED
  BY <1>1, <1>2, PTL DEF Spec

(***************************************************************************)
(* The variables of the allocator keep their types: the cursor stays in    *)
(* the bitmap, and the blocks in memory.                                   *)
(***************************************************************************)
THEOREM TypeCorrect == Spec => []TypeOK
<1>1. IInv => TypeOK
  BY DEF IInv
<1>2. QED
  BY <1>1, Invariance, PTL

(***************************************************************************)
(* mmLock excludes: at most one CPU is in the part of alloc, free or       *)
(* realloc that the lock protects.                                         *)
(***************************************************************************)
THEOREM LockExcludes == Spec => []MutualExclusion
<1>1. IInv => MutualExclusion
  BY DEF IInv
<1>2. QED
  BY <1>1, Invariance, PTL

(***************************************************************************)
(* No page is handed out twice, and none that init did not find usable,    *)
(* until a failed request zeroes a page of the bitmap.                     *)
(***************************************************************************)
THEOREM PagesAreExclusive == Spec => []NoDoubleAllocation
<1>1. IInv => NoDoubleAllocation
  BY DEF IInv
<1>2. QED
  BY <1>1, Invariance, PTL

(***************************************************************************)
(* While the bitmap is intact, alloc(1) returns nullptr only when every    *)
(* page is in use.                                                         *)
(***************************************************************************)
THEOREM OnePageSearchIsComplete == Spec => OnePageComplete
<1>1. IInv => \A c \in Cpus : SearchFailed(c) /\ op[c].new = 1 /\ ~wiped => \A p \in Pages : bitmap[p]
  BY SearchFailedQuiet
<1>2. QED
  BY <1>1, Invariance, PTL DEF OnePageComplete

-----------------------------------------------------------------------------
(* The refinement. *)

FreePages == {p \in Pages : ~bitmap[p]}

(***************************************************************************)
(* An allocation that succeeds is a Grant.                                 *)
(***************************************************************************)
LEMMA FoundIsGrant ==
  ASSUME IInv, NEW c \in Cpus, SearchFound(c), ~wiped'
  PROVE  Abstract!Grant
<1> USE MachineAssumption
<1>1. PICK n : n = op[c].new
  OBVIOUS
<1>2. PICK found : found = Search(bitmap, last, NumPages, n)
  OBVIOUS
<1>3. PICK b : b = [page |-> found.page, count |-> n]
  OBVIOUS
<1>4. /\ found.page > 0 /\ bitmap' = memset(found.bitmap, found.page, n)
      /\ ~wiped /\ ~Wipes(found.page, n)
      /\ live' = live \cup {b} /\ pc[c] = "search"
  BY <1>1, <1>2, <1>3 DEF SearchFound
<1>5. /\ n \in 1 .. MaxCount /\ FoundOK(bitmap, NumPages, n, found)
      /\ Typed(NumPages, found)
  BY <1>1, <1>2, <1>4, SearchInState
<1>6. /\ b \in [page : Pages, count : 1 .. MaxCount]
      /\ Run(b.page, b.count) \subseteq FreePages
  BY <1>3, <1>5 DEF FoundOK, Pages, FreePages
<1>7. FreePages' = FreePages \ Run(b.page, b.count)
  <2>1. bitmap' = SetRange(bitmap, b.page, b.count, TRUE)
    <3>1. found.bitmap \in [Pages -> BOOLEAN]
      BY <1>5 DEF Typed, Pages
    <3>2. bitmap' = found.bitmap
      BY <1>4, <3>1, MemsetKeeps
    <3>3. QED
      BY <1>3, <1>5, <3>2 DEF FoundOK
  <2>2. bitmap \in [Pages -> BOOLEAN]
    BY DEF IInv, TypeOK
  <2>3. \A p \in Pages : bitmap'[p] = IF p \in Run(b.page, b.count) THEN TRUE ELSE bitmap[p]
    BY <2>1, <2>2 DEF SetRange
  <2>4. QED
    BY <2>3 DEF FreePages
<1>8. QED
  BY <1>4, <1>6, <1>7 DEF Abstract!Grant, Abstract!Block, Abstract!PagesOf, Abstract!Run, Run, FreePages

(***************************************************************************)
(* A free is a Return.                                                     *)
(***************************************************************************)
LEMMA ReleaseIsReturn ==
  ASSUME IInv, NEW c \in Cpus, Release(c), ~wiped
  PROVE  Abstract!Return
<1> USE MachineAssumption
<1>1. PICK b : b = op[c].old
  OBVIOUS
<1>2. PICK n : n = op[c].drop
  OBVIOUS
<1>3. /\ b \in live /\ n \in 1 .. b.count
      /\ Run(b.page, n) \subseteq UsablePages
      /\ bitmap' = SetRange(bitmap, b.page, n, FALSE)
      /\ live' = live \ {b}
      /\ wiped' = wiped
  BY <1>1, <1>2, ReleaseFacts DEF Release
<1>4. FreePages' = FreePages \cup Run(b.page, n)
  <2>1. bitmap \in [Pages -> BOOLEAN]
    BY DEF IInv, TypeOK
  <2>2. \A p \in Pages : bitmap'[p] = IF p \in Run(b.page, n) THEN FALSE ELSE bitmap[p]
    BY <1>3, <2>1 DEF SetRange
  <2>3. UsablePages \subseteq Pages /\ Run(b.page, n) \subseteq UsablePages
    BY <1>3 DEF Pages
  <2>4. QED
    BY <2>2, <2>3 DEF FreePages
<1>5. QED
  BY <1>3, <1>4 DEF Abstract!Return, Abstract!Run, Run, FreePages

(***************************************************************************)
(* Every step is a step of the abstract allocator or changes nothing it    *)
(* sees.                                                                   *)
(***************************************************************************)
LEMMA StepRefines ==
  ASSUME IInv, [Next]_vars
  PROVE  [Abstract!Next]_(Abstract!absVars)
<1>1. CASE UNCHANGED <<bitmap, live, wiped>>
  BY <1>1 DEF Abstract!absVars
<1>2. CASE wiped'
  BY <1>2 DEF Abstract!Next, Abstract!Break
<1>3. ASSUME NEW c \in Cpus, Call(c) \/ Step(c), ~wiped'
      PROVE  \/ UNCHANGED <<bitmap, live, wiped>>
             \/ SearchFound(c)
             \/ Release(c) /\ ~wiped
  <2>1. CASE SearchFailed(c)
    <3>1. bitmap' = bitmap /\ ~wiped
      BY <1>3, <2>1, SearchFailedQuiet
    <3>2. live' = live /\ wiped' = wiped
      BY <1>3, <2>1, <3>1 DEF SearchFailed, IInv, TypeOK
    <3>3. QED
      BY <3>1, <3>2
  <2>2. CASE Call(c)
    BY <2>2 DEF Call, AllocCall, FreeCall, ReallocCall
  <2>3. CASE Unlock(c)
    BY <2>3 DEF Unlock, UnlockAndFreeOld, UnlockAndReturn
  <2>4. CASE Lock(c) \/ LoadUsed(c) \/ StoreUsed(c) \/ LoadFree(c) \/ StoreFree(c)
    BY <2>4 DEF Lock, LoadUsed, StoreUsed, LoadFree, StoreFree
  <2>5. CASE Release(c)
    BY <1>3, <2>5 DEF Release
  <2>6. QED
    BY <1>3, <2>1, <2>2, <2>3, <2>4, <2>5 DEF Step
<1>4. CASE Next
  <2>1. PICK c \in Cpus : Call(c) \/ Step(c)
    BY <1>4 DEF Next
  <2>2. QED
    BY <1>1, <1>2, <1>3, <2>1, FoundIsGrant, ReleaseIsReturn DEF Abstract!Next
<1>5. CASE UNCHANGED vars
  BY <1>1, <1>5 DEF vars
<1>6. QED
  BY <1>4, <1>5

(***************************************************************************)
(* The allocator implements the abstract one: whatever CPUs interleave,    *)
(* callers see free runs being granted and held blocks being returned,     *)
(* until a failed request zeroes a page of the bitmap.                     *)
(***************************************************************************)
THEOREM ImplementsPageAllocator == Spec => Refinement
<1>1. Init => Abstract!Init
  <2> SUFFICES ASSUME Init PROVE Abstract!Init
    OBVIOUS
  <2>1. UsablePages \subseteq Pages
    BY MachineAssumption DEF Pages
  <2>2. {p \in Pages : ~bitmap[p]} = UsablePages
    BY <2>1, Zenon DEF Init
  <2>3. QED
    BY <2>2 DEF Init, Abstract!Init
<1>2. IInv /\ [Next]_vars => [Abstract!Next]_(Abstract!absVars)
  BY StepRefines
<1>3. QED
  BY <1>1, <1>2, Invariance, PTL DEF Spec, Refinement, Abstract!Spec

=============================================================================
