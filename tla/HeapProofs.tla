----------------------------- MODULE HeapProofs -----------------------------
(***************************************************************************)
(* Theorems about Heap for any number of CPUs, any memory and any requests *)
(* the powers of two below its size can serve.                             *)
(***************************************************************************)
EXTENDS Heap, WellFoundedInduction, TLAPS

-----------------------------------------------------------------------------
(* The inductive invariant. *)

\* No block reaches beyond the tail.
WithinTail ==
  head # 0 => \A b \in DOMAIN blocks : next(blocks, b) <= tail

\* The heap starts where a page starts.
PageAligned ==
  data # 0 => \E q \in 1 .. NumPages : data = q * PageUnits

\* Pointers come from this layout or from an earlier one.
GensPast == \A l \in live : l.gen <= gen

\* What holds of the heap whatever the CPUs are doing.
HeapInv ==
  /\ Tiled /\ WithinTail /\ PageAligned
  /\ GensPast /\ LivePointersSafe

\* expand has failed and has kept the lock: nobody gets past it any more.
Stuck == lock /\ \A c \in Cpus : pc[c] \notin Critical

Searching == {"find", "walk", "split", "miss"}
Coalescing == {"coalesce", "merge"}
Freeing == {"free", "freeTail", "freeLock"}

\* What a CPU knows about the heap at each of its labels.
Knows(c) ==
  /\ pc[c] \in Searching \cup Coalescing \cup {"freeTail", "freeLock"} => head # 0
  /\ pc[c] = "lock" => head # 0 \/ Stuck
  /\ pc[c] \in {"malloc", "lock", "setExpanded"} \cup Searching => call[c].size # 0
  /\ call[c].retry => call[c].size # 0 /\ pc[c] \in {"expand", "layout", "setExpanded"}
  /\ pc[c] \in Freeing => call[c].size = 0
  /\ pc[c] \in Searching \/ (pc[c] \in Coalescing /\ call[c].size # 0) => want # 0
  /\ pc[c] \in {"walk", "merge"} /\ blk < tail =>
       blk \in DOMAIN blocks /\ tmp = next(blocks, blk)
  /\ pc[c] \in {"walk", "split"} /\ best # 0 =>
       best \in DOMAIN blocks /\ blocks[best].free /\ blocks[best].size >= want
  /\ pc[c] = "walk" => best <= blk
  /\ pc[c] = "split" => best # 0

\* free has given the pointer up and is merging blocks.
Released(c) == pc[c] \in Coalescing /\ call[c].size = 0

\* A pointer is with one call at a time and is held until that call frees it.
Owned ==
  /\ \A c \in Cpus : call[c].old # None /\ ~Released(c) => call[c].old \in live
  /\ \A c, d \in Cpus : c # d /\ call[c].old # None => call[c].old # call[d].old

IInv ==
  /\ TypeOK /\ HeapInv
  /\ MutualExclusion
  /\ Owned
  /\ \A c \in Cpus : Knows(c)

-----------------------------------------------------------------------------
(* Arithmetic and the powers of two. *)

(***************************************************************************)
(* A set of natural numbers that is not empty has a least element.         *)
(***************************************************************************)
LEMMA LeastInSet ==
  ASSUME NEW T, T \subseteq Nat, T # {}
  PROVE  Least(T) \in T /\ \A y \in T : Least(T) <= y
<1>1. PICK x \in T : \A y \in T : ~(<<y, x>> \in OpToRel(<, Nat))
  BY NatLessThanWellFounded, WFMin
<1>2. \A y \in T : ~(y < x)
  BY <1>1, Zenon DEF OpToRel
<1>3. \A y \in T : x <= y
  BY <1>2
<1>4. QED
  BY <1>3 DEF Least

(***************************************************************************)
(* The size malloc looks for is a power of two.                            *)
(***************************************************************************)
LEMMA RequiredSizeType ==
  ASSUME NEW s \in Sizes
  PROVE  required_size(s) \in BlockSizes
<1> DEFINE Z == { z \in BlockSizes : z >= s + 1 }
<1>1. Z \subseteq Nat /\ Z # {}
  <2>1. PICK z \in BlockSizes : z > s
    BY HeapAssumption
  <2>2. z \in Nat /\ s \in Nat
    BY HeapAssumption
  <2>3. z \in Z
    BY <2>1, <2>2
  <2>4. QED
    BY <2>3, HeapAssumption
<1>2. Least(Z) \in Z
  BY <1>1, LeastInSet
<1>3. QED
  BY <1>2 DEF required_size, RoundUp

(***************************************************************************)
(* The page number of an address where a page starts.                      *)
(***************************************************************************)
LEMMA PageOfAddress ==
  ASSUME NEW q \in Nat
  PROVE  (q * PageUnits) \div PageUnits = q
BY HeapAssumption

(***************************************************************************)
(* The number of pages malloc asks expand for.                             *)
(***************************************************************************)
LEMMA PagesFor ==
  ASSUME NEW n \in Nat
  PROVE  n \div PageUnits \in Nat /\ (n \div PageUnits) + 1 \in Nat
BY HeapAssumption

(***************************************************************************)
(* A size of at least a page is a whole number of pages.                   *)
(***************************************************************************)
LEMMA WholePages ==
  ASSUME NEW z \in BlockSizes, z >= PageUnits
  PROVE  /\ z \div PageUnits \in Nat \ {0}
         /\ z = (z \div PageUnits) * PageUnits
<1>1. z \in Nat /\ z % PageUnits = 0 /\ PageUnits \in Nat \ {0}
  BY HeapAssumption
<1>2. z \div PageUnits \in Int /\ z = PageUnits * (z \div PageUnits) + (z % PageUnits)
  BY <1>1
<1>3. QED
  BY <1>1, <1>2

-----------------------------------------------------------------------------
(* What a step of one CPU leaves alone. *)

\* A step of CPU c leaves the calls of the others alone.
OthersKeep(c) == \A d \in Cpus \ {c} : pc'[d] = pc[d] /\ call'[d] = call[d]

\* What a step of CPU c does to the lock: it stays as it is, or c takes it, or
\* c gives it up, or c leaves expand without giving it up.
LockStep(c) ==
  \/ (pc'[c] \in Critical <=> pc[c] \in Critical) /\ lock' = lock
  \/ ~lock /\ lock' = TRUE /\ pc'[c] \in Critical
  \/ pc[c] \in Critical /\ pc'[c] \notin Critical /\ lock' = FALSE
  \/ pc[c] \in Critical /\ pc'[c] \notin Critical /\ lock' = lock

(***************************************************************************)
(* The lock discipline survives any such step.                             *)
(***************************************************************************)
LEMMA MutexStep ==
  ASSUME NEW c \in Cpus, MutualExclusion, OthersKeep(c), LockStep(c), lock \in BOOLEAN
  PROVE  MutualExclusion' /\ (Stuck => Stuck')
<1>1. \A d \in Cpus : d # c => pc'[d] = pc[d]
  BY DEF OthersKeep
<1>2. MutualExclusion'
  BY <1>1 DEF MutualExclusion, LockStep
<1>3. Stuck => Stuck'
  BY <1>1 DEF Stuck, LockStep
<1>4. QED
  BY <1>2, <1>3

(***************************************************************************)
(* What the other CPUs know stays true: those inside the critical section  *)
(* see no change, the others only rely on the heap having been laid out.   *)
(***************************************************************************)
LEMMA KnowsStep ==
  ASSUME NEW c \in Cpus, IInv, OthersKeep(c), LockStep(c),
         head # 0 => head' # 0,
         \/ UNCHANGED <<blocks, head, tail, blk, tmp, best, want>>
         \/ pc[c] \in Critical
         \/ ~lock,
         Knows(c)'
  PROVE  (\A d \in Cpus : Knows(d))'
<1> SUFFICES ASSUME NEW d \in Cpus, d # c PROVE Knows(d)'
  OBVIOUS
<1>1. pc'[d] = pc[d] /\ call'[d] = call[d]
  BY DEF OthersKeep
<1>2. Knows(d) /\ (Stuck => Stuck')
  BY MutexStep DEF IInv, TypeOK
<1>3. CASE pc[d] \in Critical
  <2>1. pc[c] \notin Critical /\ lock
    BY <1>3 DEF IInv, MutualExclusion
  <2>2. UNCHANGED <<blocks, head, tail, blk, tmp, best, want>>
    BY <2>1
  <2>3. pc[d] # "lock"
    BY <1>3 DEF Critical
  <2>4. QED
    BY <1>1, <1>2, <2>2, <2>3 DEF Knows, next
<1>4. CASE pc[d] \notin Critical
  <2>1. pc[d] \notin Searching \cup Coalescing
    BY <1>4 DEF Critical, Searching, Coalescing
  <2>2. QED
    BY <1>1, <1>2, <2>1 DEF Knows, Searching, Coalescing
<1>5. QED
  BY <1>3, <1>4

(***************************************************************************)
(* A call that keeps its pointer, and frees it at most by releasing it.    *)
(***************************************************************************)
LEMMA OwnedKeeps ==
  ASSUME NEW c \in Cpus, Owned, OthersKeep(c), call'[c].old = call[c].old,
         \/ live \subseteq live' /\ (Released(c) => Released(c)')
         \/ live \ {call[c].old} \subseteq live' /\ Released(c)'
  PROVE  Owned'
<1>1. \A d \in Cpus : call'[d].old = call[d].old
  BY DEF OthersKeep
<1>2. \A d \in Cpus : d # c => (Released(d)' <=> Released(d))
  BY DEF OthersKeep, Released
<1>3. QED
  BY <1>1, <1>2, Zenon DEF Owned

(***************************************************************************)
(* A call that gives its pointer back or has none.                         *)
(***************************************************************************)
LEMMA OwnedEnds ==
  ASSUME NEW c \in Cpus, Owned, OthersKeep(c), call'[c].old = None,
         live \ {call[c].old} \subseteq live'
  PROVE  Owned'
<1>1. \A d \in Cpus : d # c => call'[d].old = call[d].old
  BY DEF OthersKeep
<1>2. \A d \in Cpus : d # c => (Released(d)' <=> Released(d))
  BY DEF OthersKeep, Released
<1>3. QED
  BY <1>1, <1>2, Zenon DEF Owned

(***************************************************************************)
(* A new call with a pointer that no call has.                             *)
(***************************************************************************)
LEMMA OwnedBegins ==
  ASSUME NEW c \in Cpus, Owned, OthersKeep(c), NEW l \in live \ InUse,
         call'[c].old = l, live' = live
  PROVE  Owned'
<1>1. \A d \in Cpus : d # c => call'[d].old = call[d].old
  BY DEF OthersKeep
<1>2. \A d \in Cpus : d # c => (Released(d)' <=> Released(d))
  BY DEF OthersKeep, Released
<1>3. \A d \in Cpus : call[d].old # l
  BY DEF InUse
<1>4. QED
  BY <1>1, <1>2, <1>3, Zenon DEF Owned

(***************************************************************************)
(* A step that leaves the heap and the callers' pointers alone.            *)
(***************************************************************************)
LEMMA HeapKeeps ==
  ASSUME HeapInv, UNCHANGED <<blocks, head, tail, live, gen, hitStale>>,
         data' \in {0, data}
  PROVE  HeapInv'
BY DEF HeapInv, Tiled, WithinTail, PageAligned, GensPast, LivePointersSafe, next

(***************************************************************************)
(* The parts of the invariant make up the whole after a step.              *)
(***************************************************************************)
LEMMA StepKeeps ==
  ASSUME NEW c \in Cpus, IInv, OthersKeep(c), LockStep(c),
         head # 0 => head' # 0,
         \/ UNCHANGED <<blocks, head, tail, blk, tmp, best, want>>
         \/ pc[c] \in Critical
         \/ ~lock,
         TypeOK', HeapInv', Owned', Knows(c)'
  PROVE  IInv'
<1>1. MutualExclusion'
  BY MutexStep DEF IInv, TypeOK
<1>2. (\A d \in Cpus : Knows(d))'
  BY KnowsStep
<1>3. QED
  BY <1>1, <1>2 DEF IInv

(***************************************************************************)
(* malloc is called.                                                       *)
(***************************************************************************)
LEMMA MallocCallStep ==
  ASSUME IInv, NEW c \in Cpus, NEW s \in Sizes, MallocCall(c, s)
  PROVE  IInv'
<1>1. OthersKeep(c) /\ pc[c] \in Labels /\ call[c] \in CallRecord
  BY DEF MallocCall, OthersKeep, Goto, IInv, TypeOK
<1>2. TypeOK'
  BY <1>1, HeapAssumption
     DEF MallocCall, Goto, IInv, TypeOK, Labels, CallRecord, NoCall,
         heapVars, walkVars, ghostVars
<1>3. HeapInv'
  BY HeapKeeps DEF MallocCall, IInv, heapVars, ghostVars
<1>4. Owned'
  <2>1. call'[c].old = None /\ live' = live
    BY <1>1 DEF MallocCall, Goto, IInv, TypeOK, NoCall, CallRecord, Released,
           Coalescing, Knows, heapVars, ghostVars
  <2>2. QED
    BY <1>1, <2>1, OwnedEnds DEF IInv
<1>5. LockStep(c)
  BY DEF MallocCall, LockStep, Goto, Critical, IInv, TypeOK
<1>6. Knows(c)'
  BY <1>1, <1>2, HeapAssumption
     DEF MallocCall, Goto, IInv, TypeOK, Knows, Searching, Coalescing,
         Freeing, Labels, CallRecord, NoCall, Critical, MutualExclusion,
         Stuck, heapVars, walkVars, next
<1>7. QED
  BY <1>1, <1>2, <1>3, <1>4, <1>5, <1>6, StepKeeps
     DEF MallocCall, heapVars, walkVars

(***************************************************************************)
(* free is called with a pointer that no call has.                         *)
(***************************************************************************)
LEMMA FreeCallStep ==
  ASSUME IInv, NEW c \in Cpus, NEW l \in live \ InUse, FreeCall(c, l)
  PROVE  IInv'
<1>1. OthersKeep(c) /\ pc[c] \in Labels /\ call[c] \in CallRecord
  BY DEF FreeCall, OthersKeep, Goto, IInv, TypeOK
<1>2. TypeOK'
  BY <1>1, HeapAssumption
     DEF FreeCall, Goto, IInv, TypeOK, Labels, CallRecord, NoCall, heapVars,
         walkVars, ghostVars
<1>3. HeapInv'
  BY HeapKeeps DEF FreeCall, IInv, heapVars, ghostVars
<1>4. Owned'
  <2>1. call'[c].old = l /\ live' = live
    BY <1>1 DEF FreeCall, Goto, IInv, TypeOK, NoCall, CallRecord, Released,
           Coalescing, Knows, heapVars, ghostVars
  <2>2. QED
    BY <1>1, <2>1, OwnedBegins DEF IInv
<1>5. LockStep(c)
  BY DEF FreeCall, LockStep, Goto, Critical, IInv, TypeOK
<1>6. Knows(c)'
  BY <1>1, <1>2, HeapAssumption
     DEF FreeCall, Goto, IInv, TypeOK, Knows, Searching, Coalescing,
         Freeing, Labels, CallRecord, NoCall, Critical, MutualExclusion,
         Stuck, heapVars, walkVars, next
<1>7. QED
  BY <1>1, <1>2, <1>3, <1>4, <1>5, <1>6, StepKeeps
     DEF FreeCall, heapVars, walkVars

(***************************************************************************)
(* realloc is called with a pointer that no call has.                      *)
(***************************************************************************)
LEMMA ReallocCallStep ==
  ASSUME IInv, NEW c \in Cpus, NEW l \in live \ InUse, NEW s \in Sizes, ReallocCall(c, l, s)
  PROVE  IInv'
<1>1. OthersKeep(c) /\ pc[c] \in Labels /\ call[c] \in CallRecord
  BY DEF ReallocCall, OthersKeep, Goto, IInv, TypeOK
<1>2. TypeOK'
  BY <1>1, HeapAssumption
     DEF ReallocCall, Goto, IInv, TypeOK, Labels, CallRecord, NoCall,
         heapVars, walkVars, ghostVars
<1>3. HeapInv'
  BY HeapKeeps DEF ReallocCall, IInv, heapVars, ghostVars
<1>4. Owned'
  <2>1. call'[c].old = l /\ live' = live
    BY <1>1 DEF ReallocCall, Goto, IInv, TypeOK, NoCall, CallRecord, Released,
           Coalescing, Knows, heapVars, ghostVars
  <2>2. QED
    BY <1>1, <2>1, OwnedBegins DEF IInv
<1>5. LockStep(c)
  BY DEF ReallocCall, LockStep, Goto, Critical, IInv, TypeOK
<1>6. Knows(c)'
  BY <1>1, <1>2, HeapAssumption
     DEF ReallocCall, Goto, IInv, TypeOK, Knows, Searching, Coalescing,
         Freeing, Labels, CallRecord, NoCall, Critical, MutualExclusion,
         Stuck, heapVars, walkVars, next
<1>7. QED
  BY <1>1, <1>2, <1>3, <1>4, <1>5, <1>6, StepKeeps
     DEF ReallocCall, heapVars, walkVars

(***************************************************************************)
(* setsize is called.                                                      *)
(***************************************************************************)
LEMMA SetSizeCallStep ==
  ASSUME IInv, NEW c \in Cpus, NEW n \in Totals, SetSizeCall(c, n)
  PROVE  IInv'
<1>1. OthersKeep(c) /\ pc[c] \in Labels /\ call[c] \in CallRecord
  BY DEF SetSizeCall, OthersKeep, Goto, IInv, TypeOK
<1>2. TypeOK'
  <2>1. n - pages \in Nat
    BY <1>1, HeapAssumption DEF SetSizeCall, IInv, TypeOK
  <2>2. QED
    BY <1>1, <2>1, HeapAssumption
       DEF SetSizeCall, Goto, IInv, TypeOK, Labels, CallRecord, NoCall,
           heapVars, walkVars, ghostVars
<1>3. HeapInv'
  BY HeapKeeps DEF SetSizeCall, IInv, heapVars, ghostVars
<1>4. Owned'
  <2>1. call'[c].old = None /\ live' = live
    BY <1>1 DEF SetSizeCall, Goto, IInv, TypeOK, NoCall, CallRecord, Released,
           Coalescing, Knows, heapVars, ghostVars
  <2>2. QED
    BY <1>1, <2>1, OwnedEnds DEF IInv
<1>5. LockStep(c)
  BY DEF SetSizeCall, LockStep, Goto, Critical, IInv, TypeOK
<1>6. Knows(c)'
  BY <1>1, <1>2, HeapAssumption
     DEF SetSizeCall, Goto, IInv, TypeOK, Knows, Searching, Coalescing,
         Freeing, Labels, CallRecord, NoCall, Critical, MutualExclusion,
         Stuck, heapVars, walkVars, next
<1>7. QED
  BY <1>1, <1>2, <1>3, <1>4, <1>5, <1>6, StepKeeps
     DEF SetSizeCall, heapVars, walkVars

(***************************************************************************)
(* expand takes the lock.                                                  *)
(***************************************************************************)
LEMMA ExpandLockStep ==
  ASSUME IInv, NEW c \in Cpus, ExpandLock(c)
  PROVE  IInv'
<1>1. OthersKeep(c) /\ pc[c] \in Labels /\ call[c] \in CallRecord
  BY DEF ExpandLock, OthersKeep, Goto, IInv, TypeOK
<1>2. TypeOK'
  BY <1>1, HeapAssumption
     DEF ExpandLock, Goto, IInv, TypeOK, Labels, CallRecord, NoCall,
         heapVars, walkVars, ghostVars
<1>3. HeapInv'
  BY HeapKeeps DEF ExpandLock, IInv, heapVars, ghostVars
<1>4. Owned'
  <2>1. call'[c].old = call[c].old /\ live' = live /\ (Released(c) => Released(c)')
    BY <1>1 DEF ExpandLock, Goto, IInv, TypeOK, NoCall, CallRecord, Released,
           Coalescing, Knows, heapVars, ghostVars
  <2>2. QED
    BY <1>1, <2>1, OwnedKeeps DEF IInv
<1>5. LockStep(c)
  BY DEF ExpandLock, LockStep, Goto, Critical, IInv, TypeOK
<1>6. Knows(c)'
  BY <1>1, <1>2, HeapAssumption
     DEF ExpandLock, Goto, IInv, TypeOK, Knows, Searching, Coalescing,
         Freeing, Labels, CallRecord, NoCall, Critical, MutualExclusion,
         Stuck, heapVars, walkVars, next
<1>7. QED
  BY <1>1, <1>2, <1>3, <1>4, <1>5, <1>6, StepKeeps
     DEF ExpandLock, heapVars, walkVars

(***************************************************************************)
(* malloc starts again after an expansion.                                 *)
(***************************************************************************)
LEMMA SetExpandedStep ==
  ASSUME IInv, NEW c \in Cpus, SetExpanded(c)
  PROVE  IInv'
<1>1. OthersKeep(c) /\ pc[c] \in Labels /\ call[c] \in CallRecord
  BY DEF SetExpanded, OthersKeep, Goto, IInv, TypeOK
<1>2. TypeOK'
  BY <1>1, HeapAssumption
     DEF SetExpanded, Goto, IInv, TypeOK, Labels, CallRecord, NoCall,
         heapVars, walkVars, ghostVars
<1>3. HeapInv'
  BY HeapKeeps DEF SetExpanded, IInv, heapVars, ghostVars
<1>4. Owned'
  <2>1. call'[c].old = call[c].old /\ live' = live /\ (Released(c) => Released(c)')
    BY <1>1 DEF SetExpanded, Goto, IInv, TypeOK, NoCall, CallRecord, Released,
           Coalescing, Knows, heapVars, ghostVars
  <2>2. QED
    BY <1>1, <2>1, OwnedKeeps DEF IInv
<1>5. LockStep(c)
  BY DEF SetExpanded, LockStep, Goto, Critical, IInv, TypeOK
<1>6. Knows(c)'
  BY <1>1, <1>2, HeapAssumption
     DEF SetExpanded, Goto, IInv, TypeOK, Knows, Searching, Coalescing,
         Freeing, Labels, CallRecord, NoCall, Critical, MutualExclusion,
         Stuck, heapVars, walkVars, next
<1>7. QED
  BY <1>1, <1>2, <1>3, <1>4, <1>5, <1>6, StepKeeps
     DEF SetExpanded, heapVars, walkVars

(***************************************************************************)
(* malloc finds the heap laid out or calls expand.                         *)
(***************************************************************************)
LEMMA MallocEntryStep ==
  ASSUME IInv, NEW c \in Cpus, MallocEntry(c)
  PROVE  IInv'
<1>1. OthersKeep(c) /\ pc[c] \in Labels /\ call[c] \in CallRecord
  BY DEF MallocEntry, OthersKeep, Goto, IInv, TypeOK
<1>2. TypeOK'
  BY <1>1, HeapAssumption
     DEF MallocEntry, Goto, IInv, TypeOK, Labels, CallRecord, NoCall,
         heapVars, walkVars, ghostVars
<1>3. HeapInv'
  BY HeapKeeps DEF MallocEntry, IInv, heapVars, ghostVars
<1>4. Owned'
  <2>1. call'[c].old = call[c].old /\ live' = live /\ (Released(c) => Released(c)')
    BY <1>1 DEF MallocEntry, Goto, IInv, TypeOK, NoCall, CallRecord, Released,
           Coalescing, Knows, heapVars, ghostVars
  <2>2. QED
    BY <1>1, <2>1, OwnedKeeps DEF IInv
<1>5. LockStep(c)
  BY DEF MallocEntry, LockStep, Goto, Critical, IInv, TypeOK
<1>6. Knows(c)'
  BY <1>1, <1>2, HeapAssumption
     DEF MallocEntry, Goto, IInv, TypeOK, Knows, Searching, Coalescing,
         Freeing, Labels, CallRecord, NoCall, Critical, MutualExclusion,
         Stuck, heapVars, walkVars, next
<1>7. QED
  BY <1>1, <1>2, <1>3, <1>4, <1>5, <1>6, StepKeeps
     DEF MallocEntry, heapVars, walkVars

(***************************************************************************)
(* malloc takes the lock: by then the heap is laid out.                    *)
(***************************************************************************)
LEMMA MallocLockStep ==
  ASSUME IInv, NEW c \in Cpus, MallocLock(c)
  PROVE  IInv'
<1>1. OthersKeep(c) /\ pc[c] \in Labels /\ call[c] \in CallRecord
  BY DEF MallocLock, OthersKeep, Goto, IInv, TypeOK
<1>2. TypeOK'
  <2>1. want' \in BlockSizes /\ want' # 0
    BY <1>1, RequiredSizeType, HeapAssumption
       DEF MallocLock, IInv, Knows, CallRecord, NoCall
  <2>2. QED
    BY <1>1, <2>1, HeapAssumption
       DEF MallocLock, Goto, IInv, TypeOK, Labels, CallRecord, NoCall,
           heapVars, walkVars, ghostVars
<1>3. HeapInv'
  BY HeapKeeps DEF MallocLock, IInv, heapVars, ghostVars
<1>4. Owned'
  <2>1. call'[c].old = call[c].old /\ live' = live /\ (Released(c) => Released(c)')
    BY <1>1 DEF MallocLock, Goto, IInv, TypeOK, NoCall, CallRecord, Released,
           Coalescing, Knows, heapVars, ghostVars
  <2>2. QED
    BY <1>1, <2>1, OwnedKeeps DEF IInv
<1>5. LockStep(c)
  BY DEF MallocLock, LockStep, Goto, Critical, IInv, TypeOK
<1>6. Knows(c)'
  BY <1>1, <1>2, HeapAssumption, RequiredSizeType
     DEF MallocLock, Goto, IInv, TypeOK, Knows, Searching, Coalescing,
         Freeing, Labels, CallRecord, NoCall, Critical, MutualExclusion,
         Stuck, heapVars, walkVars, next
<1>7. QED
  BY <1>1, <1>2, <1>3, <1>4, <1>5, <1>6, StepKeeps
     DEF MallocLock, heapVars, walkVars

(***************************************************************************)
(* The search of malloc ends.                                              *)
(***************************************************************************)
LEMMA WalkEndStep ==
  ASSUME IInv, NEW c \in Cpus, WalkEnd(c)
  PROVE  IInv'
<1>1. OthersKeep(c) /\ pc[c] \in Labels /\ call[c] \in CallRecord
  BY DEF WalkEnd, OthersKeep, Goto, IInv, TypeOK
<1>2. TypeOK'
  BY <1>1, HeapAssumption
     DEF WalkEnd, Goto, IInv, TypeOK, Labels, CallRecord, NoCall, heapVars,
         walkVars, ghostVars
<1>3. HeapInv'
  BY HeapKeeps DEF WalkEnd, IInv, heapVars, ghostVars
<1>4. Owned'
  <2>1. call'[c].old = call[c].old /\ live' = live /\ (Released(c) => Released(c)')
    BY <1>1 DEF WalkEnd, Goto, IInv, TypeOK, NoCall, CallRecord, Released,
           Coalescing, Knows, heapVars, ghostVars
  <2>2. QED
    BY <1>1, <2>1, OwnedKeeps DEF IInv
<1>5. LockStep(c)
  BY DEF WalkEnd, LockStep, Goto, Critical, IInv, TypeOK
<1>6. Knows(c)'
  BY <1>1, <1>2, HeapAssumption
     DEF WalkEnd, Goto, IInv, TypeOK, Knows, Searching, Coalescing, Freeing,
         Labels, CallRecord, NoCall, Critical, MutualExclusion, Stuck,
         heapVars, walkVars, next
<1>7. QED
  BY <1>1, <1>2, <1>3, <1>4, <1>5, <1>6, StepKeeps
     DEF WalkEnd, heapVars, walkVars

(***************************************************************************)
(* malloc goes on to coalescence.                                          *)
(***************************************************************************)
LEMMA MissOnceStep ==
  ASSUME IInv, NEW c \in Cpus, MissOnce(c)
  PROVE  IInv'
<1>1. OthersKeep(c) /\ pc[c] \in Labels /\ call[c] \in CallRecord
  BY DEF MissOnce, OthersKeep, Goto, IInv, TypeOK
<1>2. TypeOK'
  BY <1>1, HeapAssumption
     DEF MissOnce, Goto, IInv, TypeOK, Labels, CallRecord, NoCall, heapVars,
         walkVars, ghostVars
<1>3. HeapInv'
  BY HeapKeeps DEF MissOnce, IInv, heapVars, ghostVars
<1>4. Owned'
  <2>1. call'[c].old = call[c].old /\ live' = live /\ (Released(c) => Released(c)')
    BY <1>1 DEF MissOnce, Goto, IInv, TypeOK, NoCall, CallRecord, Released,
           Coalescing, Knows, heapVars, ghostVars
  <2>2. QED
    BY <1>1, <2>1, OwnedKeeps DEF IInv
<1>5. LockStep(c)
  BY DEF MissOnce, LockStep, Goto, Critical, IInv, TypeOK
<1>6. Knows(c)'
  BY <1>1, <1>2, HeapAssumption
     DEF MissOnce, Goto, IInv, TypeOK, Knows, Searching, Coalescing,
         Freeing, Labels, CallRecord, NoCall, Critical, MutualExclusion,
         Stuck, heapVars, walkVars, next
<1>7. QED
  BY <1>1, <1>2, <1>3, <1>4, <1>5, <1>6, StepKeeps
     DEF MissOnce, heapVars, walkVars

(***************************************************************************)
(* malloc gives up the lock and calls expand.                              *)
(***************************************************************************)
LEMMA MissAndExpandStep ==
  ASSUME IInv, NEW c \in Cpus, MissAndExpand(c)
  PROVE  IInv'
<1>1. OthersKeep(c) /\ pc[c] \in Labels /\ call[c] \in CallRecord
  BY DEF MissAndExpand, OthersKeep, Goto, IInv, TypeOK
<1>2. TypeOK'
  <2>1. (call[c].size \div PageUnits) + 1 \in Nat
    BY <1>1, PagesFor, HeapAssumption DEF CallRecord
  <2>2. QED
    BY <1>1, <2>1, HeapAssumption
       DEF MissAndExpand, Goto, IInv, TypeOK, Labels, CallRecord, NoCall,
           heapVars, walkVars, ghostVars
<1>3. HeapInv'
  BY HeapKeeps DEF MissAndExpand, IInv, heapVars, ghostVars
<1>4. Owned'
  <2>1. call'[c].old = call[c].old /\ live' = live /\ (Released(c) => Released(c)')
    BY <1>1
       DEF MissAndExpand, Goto, IInv, TypeOK, NoCall, CallRecord, Released,
           Coalescing, Knows, heapVars, ghostVars
  <2>2. QED
    BY <1>1, <2>1, OwnedKeeps DEF IInv
<1>5. LockStep(c)
  BY DEF MissAndExpand, LockStep, Goto, Critical, IInv, TypeOK
<1>6. Knows(c)'
  BY <1>1, <1>2, HeapAssumption
     DEF MissAndExpand, Goto, IInv, TypeOK, Knows, Searching, Coalescing,
         Freeing, Labels, CallRecord, NoCall, Critical, MutualExclusion,
         Stuck, heapVars, walkVars, next
<1>7. QED
  BY <1>1, <1>2, <1>3, <1>4, <1>5, <1>6, StepKeeps
     DEF MissAndExpand, heapVars, walkVars

(***************************************************************************)
(* malloc fails.                                                           *)
(***************************************************************************)
LEMMA MissAndFailStep ==
  ASSUME IInv, NEW c \in Cpus, MissAndFail(c)
  PROVE  IInv'
<1>1. OthersKeep(c) /\ pc[c] \in Labels /\ call[c] \in CallRecord
  BY DEF MissAndFail, OthersKeep, Goto, IInv, TypeOK
<1>2. TypeOK'
  BY <1>1, HeapAssumption
     DEF MissAndFail, Goto, IInv, TypeOK, Labels, CallRecord, NoCall,
         heapVars, walkVars, ghostVars
<1>3. HeapInv'
  BY HeapKeeps DEF MissAndFail, IInv, heapVars, ghostVars
<1>4. Owned'
  <2>1. call'[c].old = None /\ live' = live
    BY <1>1 DEF MissAndFail, Goto, IInv, TypeOK, NoCall, CallRecord, Released,
           Coalescing, Knows, heapVars, ghostVars
  <2>2. QED
    BY <1>1, <2>1, OwnedEnds DEF IInv
<1>5. LockStep(c)
  BY DEF MissAndFail, LockStep, Goto, Critical, IInv, TypeOK
<1>6. Knows(c)'
  BY <1>1, <1>2, HeapAssumption
     DEF MissAndFail, Goto, IInv, TypeOK, Knows, Searching, Coalescing,
         Freeing, Labels, CallRecord, NoCall, Critical, MutualExclusion,
         Stuck, heapVars, walkVars, next
<1>7. QED
  BY <1>1, <1>2, <1>3, <1>4, <1>5, <1>6, StepKeeps
     DEF MissAndFail, heapVars, walkVars

(***************************************************************************)
(* coalescence starts over.                                                *)
(***************************************************************************)
LEMMA CoalesceAgainStep ==
  ASSUME IInv, NEW c \in Cpus, CoalesceAgain(c)
  PROVE  IInv'
<1>1. OthersKeep(c) /\ pc[c] \in Labels /\ call[c] \in CallRecord
  BY DEF CoalesceAgain, OthersKeep, Goto, IInv, TypeOK
<1>2. TypeOK'
  BY <1>1, HeapAssumption
     DEF CoalesceAgain, Goto, IInv, TypeOK, Labels, CallRecord, NoCall,
         heapVars, walkVars, ghostVars
<1>3. HeapInv'
  BY HeapKeeps DEF CoalesceAgain, IInv, heapVars, ghostVars
<1>4. Owned'
  <2>1. call'[c].old = call[c].old /\ live' = live /\ (Released(c) => Released(c)')
    BY <1>1
       DEF CoalesceAgain, Goto, IInv, TypeOK, NoCall, CallRecord, Released,
           Coalescing, Knows, heapVars, ghostVars
  <2>2. QED
    BY <1>1, <2>1, OwnedKeeps DEF IInv
<1>5. LockStep(c)
  BY DEF CoalesceAgain, LockStep, Goto, Critical, IInv, TypeOK
<1>6. Knows(c)'
  BY <1>1, <1>2, HeapAssumption
     DEF CoalesceAgain, Goto, IInv, TypeOK, Knows, Searching, Coalescing,
         Freeing, Labels, CallRecord, NoCall, Critical, MutualExclusion,
         Stuck, heapVars, walkVars, next
<1>7. QED
  BY <1>1, <1>2, <1>3, <1>4, <1>5, <1>6, StepKeeps
     DEF CoalesceAgain, heapVars, walkVars

(***************************************************************************)
(* free has seen that the pointer is not below the heap.                   *)
(***************************************************************************)
LEMMA FreeCheckHeadStep ==
  ASSUME IInv, NEW c \in Cpus, FreeCheckHead(c)
  PROVE  IInv'
<1>1. OthersKeep(c) /\ pc[c] \in Labels /\ call[c] \in CallRecord
  BY DEF FreeCheckHead, OthersKeep, Goto, IInv, TypeOK
<1>2. TypeOK'
  BY <1>1, HeapAssumption
     DEF FreeCheckHead, Goto, IInv, TypeOK, Labels, CallRecord, NoCall,
         heapVars, walkVars, ghostVars
<1>3. HeapInv'
  BY HeapKeeps DEF FreeCheckHead, IInv, heapVars, ghostVars
<1>4. Owned'
  <2>1. call'[c].old = call[c].old /\ live' = live /\ (Released(c) => Released(c)')
    BY <1>1
       DEF FreeCheckHead, Goto, IInv, TypeOK, NoCall, CallRecord, Released,
           Coalescing, Knows, heapVars, ghostVars
  <2>2. QED
    BY <1>1, <2>1, OwnedKeeps DEF IInv
<1>5. LockStep(c)
  BY DEF FreeCheckHead, LockStep, Goto, Critical, IInv, TypeOK
<1>6. Knows(c)'
  BY <1>1, <1>2, HeapAssumption
     DEF FreeCheckHead, Goto, IInv, TypeOK, Knows, Searching, Coalescing,
         Freeing, Labels, CallRecord, NoCall, Critical, MutualExclusion,
         Stuck, heapVars, walkVars, next
<1>7. QED
  BY <1>1, <1>2, <1>3, <1>4, <1>5, <1>6, StepKeeps
     DEF FreeCheckHead, heapVars, walkVars

(***************************************************************************)
(* free has seen that the pointer is not above the heap.                   *)
(***************************************************************************)
LEMMA FreeCheckTailStep ==
  ASSUME IInv, NEW c \in Cpus, FreeCheckTail(c)
  PROVE  IInv'
<1>1. OthersKeep(c) /\ pc[c] \in Labels /\ call[c] \in CallRecord
  BY DEF FreeCheckTail, OthersKeep, Goto, IInv, TypeOK
<1>2. TypeOK'
  BY <1>1, HeapAssumption
     DEF FreeCheckTail, Goto, IInv, TypeOK, Labels, CallRecord, NoCall,
         heapVars, walkVars, ghostVars
<1>3. HeapInv'
  BY HeapKeeps DEF FreeCheckTail, IInv, heapVars, ghostVars
<1>4. Owned'
  <2>1. call'[c].old = call[c].old /\ live' = live /\ (Released(c) => Released(c)')
    BY <1>1
       DEF FreeCheckTail, Goto, IInv, TypeOK, NoCall, CallRecord, Released,
           Coalescing, Knows, heapVars, ghostVars
  <2>2. QED
    BY <1>1, <2>1, OwnedKeeps DEF IInv
<1>5. LockStep(c)
  BY DEF FreeCheckTail, LockStep, Goto, Critical, IInv, TypeOK
<1>6. Knows(c)'
  BY <1>1, <1>2, HeapAssumption
     DEF FreeCheckTail, Goto, IInv, TypeOK, Knows, Searching, Coalescing,
         Freeing, Labels, CallRecord, NoCall, Critical, MutualExclusion,
         Stuck, heapVars, walkVars, next
<1>7. QED
  BY <1>1, <1>2, <1>3, <1>4, <1>5, <1>6, StepKeeps
     DEF FreeCheckTail, heapVars, walkVars

-----------------------------------------------------------------------------
(* The block list. *)

(***************************************************************************)
(* A block is not empty, lies below the tail, and the address after it is  *)
(* a block's unless it is the tail.                                        *)
(***************************************************************************)
LEMMA BlockFacts ==
  ASSUME TypeOK, HeapInv, head # 0, NEW b \in DOMAIN blocks
  PROVE  /\ b \in 1 .. Top /\ tail \in 0 .. Top /\ Top \in Nat
         /\ blocks[b] \in [size : BlockSizes, free : BOOLEAN]
         /\ blocks[b].size \in BlockSizes /\ blocks[b].size \in Nat \ {0}
         /\ next(blocks, b) = b + blocks[b].size
         /\ next(blocks, b) \in 1 .. Top
         /\ b < next(blocks, b) /\ next(blocks, b) <= tail
         /\ next(blocks, b) < tail => next(blocks, b) \in DOMAIN blocks
<1>1. Top \in Nat
  BY HeapAssumption DEF Top
<1>2. /\ b \in 1 .. Top /\ tail \in 0 .. Top
      /\ blocks[b] \in [size : BlockSizes, free : BOOLEAN]
      /\ blocks[b].size \in BlockSizes
  BY DEF TypeOK
<1>3. blocks[b].size \in Nat \ {0}
  BY <1>2, HeapAssumption
<1>4. next(blocks, b) = b + blocks[b].size
  BY DEF next
<1>5. next(blocks, b) <= tail
  BY DEF HeapInv, WithinTail
<1>6. next(blocks, b) = tail \/ next(blocks, b) \in DOMAIN blocks
  BY DEF HeapInv, Tiled
<1> HIDE DEF next
<1>7. QED
  BY <1>1, <1>2, <1>3, <1>4, <1>5, <1>6

(***************************************************************************)
(* Merging two adjacent free blocks of the same size keeps the heap tiled  *)
(* and touches no block a caller holds.                                    *)
(***************************************************************************)
LEMMA MergeKeeps ==
  ASSUME TypeOK, HeapInv, head # 0,
         blk \in DOMAIN blocks, tmp = next(blocks, blk), tmp < tail, Mergeable,
         blocks' = Merged, UNCHANGED <<head, tail, data, live, gen, hitStale>>
  PROVE  /\ HeapInv'
         /\ tmp \in DOMAIN blocks
         /\ DOMAIN Merged = DOMAIN blocks \ {tmp}
         /\ DOMAIN Merged \subseteq 1 .. Top
         /\ Merged \in [DOMAIN Merged -> [size : BlockSizes, free : BOOLEAN]]
         /\ blk \in DOMAIN Merged /\ Merged[blk].free
         /\ Merged[blk].size = 2 * blocks[blk].size
         /\ \A b \in DOMAIN Merged : b # blk => Merged[b] = blocks[b]
         /\ next(Merged, blk) = next(blocks, tmp)
<1>1. tmp \in DOMAIN blocks /\ blk # tmp
  BY BlockFacts
<1> DEFINE D == DOMAIN blocks
           z == blocks[blk].size
<1>2. /\ blk < tmp /\ tmp = blk + z /\ blocks[tmp].size = z
      /\ next(blocks, tmp) = tmp + z /\ next(blocks, tmp) <= tail
      /\ blk \in 1 .. Top /\ tmp \in 1 .. Top /\ tail \in 0 .. Top /\ Top \in Nat
      /\ z \in BlockSizes /\ z \in Nat \ {0}
      /\ next(blocks, tmp) < tail => next(blocks, tmp) \in D
      /\ blocks[blk] \in [size : BlockSizes, free : BOOLEAN]
      /\ blocks[blk].free /\ blocks[tmp].free
  BY <1>1, BlockFacts DEF Mergeable
<1>3. DOMAIN Merged = D \ {tmp} /\ blk \in D \ {tmp} /\ tmp \in D
  BY <1>1 DEF Merged
<1>4. /\ Merged[blk] = [blocks[blk] EXCEPT !.size = 2 * z]
      /\ \A b \in D \ {tmp} : b # blk => Merged[b] = blocks[b]
  BY <1>1 DEF Merged
<1>5. Merged[blk].size = 2 * z /\ Merged[blk].free
  BY <1>2, <1>4
<1>6. next(Merged, blk) = next(blocks, tmp)
  BY <1>2, <1>5 DEF next
<1>7. \A b \in D \ {tmp} : b # blk => next(Merged, b) = next(blocks, b)
  BY <1>4 DEF next
<1>8. Merged \in [DOMAIN Merged -> [size : BlockSizes, free : BOOLEAN]]
  <2>1. 2 * z \in BlockSizes
    BY <1>2, HeapAssumption
  <2>2. Merged[blk] \in [size : BlockSizes, free : BOOLEAN]
    BY <1>2, <1>4, <2>1
  <2>3. \A b \in D \ {tmp} : Merged[b] \in [size : BlockSizes, free : BOOLEAN]
    BY <1>4, <2>2 DEF TypeOK
  <2>4. Merged = [b \in D \ {tmp} |-> Merged[b]]
    BY DEF Merged
  <2>5. QED
    BY <1>3, <2>3, <2>4
<1>9. DOMAIN Merged \subseteq 1 .. Top
  BY <1>3 DEF TypeOK
<1>10. /\ head \in D /\ \A b \in D : head <= b
       /\ \A b \in D : b \in Nat /\ next(blocks, b) \in Nat
       /\ \A b \in D : b < next(blocks, b) /\ next(blocks, b) <= tail
       /\ \A b \in D : next(blocks, b) = tail \/ next(blocks, b) \in D
       /\ \A b, d \in D : b < d => next(blocks, b) <= d
       /\ head \in Nat
  BY BlockFacts DEF HeapInv, Tiled, TypeOK
<1> HIDE DEF D, z
<1>11. head \in D \ {tmp}
  BY <1>1, <1>2, <1>3, <1>10
<1>12. \A b \in D \ {tmp} : next(Merged, b) = tail \/ next(Merged, b) \in D \ {tmp}
  <2>1. ASSUME NEW b \in D, b # blk, b # tmp PROVE next(blocks, b) # tmp
    <3>1. CASE b < blk
      <4>1. next(blocks, b) <= blk
        BY <1>3, <1>10, <3>1
      <4>2. QED
        BY <1>2, <1>10, <4>1
    <3>2. CASE blk < b
      <4>1. tmp <= b /\ b < next(blocks, b)
        BY <1>3, <1>10, <3>2
      <4>2. QED
        BY <1>2, <1>10, <4>1
    <3>3. QED
      BY <1>2, <1>10, <2>1, <3>1, <3>2
  <2>2. next(blocks, tmp) # tmp /\ (next(blocks, tmp) = tail \/ next(blocks, tmp) \in D)
    BY <1>2, <1>10
  <2>3. QED
    BY <1>6, <1>7, <1>10, <2>1, <2>2
<1>13. \A b, d \in D \ {tmp} : b < d => next(Merged, b) <= d
  <2>1. ASSUME NEW d \in D \ {tmp}, blk < d PROVE next(blocks, tmp) <= d
    <3>1. tmp <= d /\ d # tmp /\ d \in Nat /\ tmp \in Nat
      BY <1>3, <1>10, <2>1
    <3>2. tmp < d
      BY <3>1
    <3>3. QED
      BY <1>3, <1>10, <3>2
  <2>2. QED
    BY <1>6, <1>7, <1>10, <2>1
<1>14. \A b \in D \ {tmp} : next(Merged, b) <= tail
  BY <1>2, <1>6, <1>7, <1>10
<1>15. Tiled' /\ WithinTail'
  BY <1>3, <1>10, <1>11, <1>12, <1>13, <1>14 DEF Tiled, WithinTail, next
<1>16. LivePointersSafe'
  <2>1. \A b \in D : ~blocks[b].free => b \in D \ {tmp} /\ Merged[b] = blocks[b]
    BY <1>2, <1>4
  <2>2. QED
    BY <1>3, <2>1 DEF HeapInv, LivePointersSafe, D
<1>17. HeapInv'
  BY <1>15, <1>16 DEF HeapInv, PageAligned, GensPast
<1>18. QED
  BY <1>1, <1>3, <1>4, <1>5, <1>6, <1>8, <1>9, <1>17 DEF D, z

(***************************************************************************)
(* After a merge the walk goes on at a block, or has reached the tail.     *)
(***************************************************************************)
LEMMA MergeAdvances ==
  ASSUME TypeOK, HeapInv, head # 0,
         blk \in DOMAIN blocks, tmp = next(blocks, blk), tmp < tail, Mergeable,
         blocks' = Merged, UNCHANGED <<head, tail, data, live, gen, hitStale>>,
         Advance(Merged, blk)
  PROVE  /\ blk' \in 0 .. Top /\ tmp' \in 0 .. Top /\ blk < blk'
         /\ blk' < tail => blk' \in DOMAIN Merged /\ tmp' = next(Merged, blk')
<1>1. /\ tmp \in DOMAIN blocks
      /\ DOMAIN Merged = DOMAIN blocks \ {tmp}
      /\ next(Merged, blk) = next(blocks, tmp)
      /\ \A b \in DOMAIN Merged : b # blk => Merged[b] = blocks[b]
  BY MergeKeeps
<1>2. /\ blk \in 1 .. Top /\ tmp \in 1 .. Top /\ blk < tmp
      /\ tmp < next(blocks, tmp) /\ next(blocks, tmp) \in 1 .. Top
      /\ next(blocks, tmp) < tail => next(blocks, tmp) \in DOMAIN blocks
  BY <1>1, BlockFacts
<1>3. blk' = next(blocks, tmp) /\ blk < blk' /\ blk' # blk /\ blk' # tmp
  <2>1. blk' = next(blocks, tmp)
    BY <1>1 DEF Advance
  <2>2. QED
    BY <1>2, <2>1
<1>4. tmp' = IF blk' < tail THEN next(Merged, blk') ELSE tmp
  BY DEF Advance
<1>5. CASE blk' < tail
  <2>1. blk' \in DOMAIN Merged /\ blk' \in DOMAIN blocks
    BY <1>1, <1>2, <1>3, <1>5
  <2>2. tmp' = next(Merged, blk') /\ next(Merged, blk') = next(blocks, blk')
    BY <1>1, <1>3, <1>4, <1>5, <2>1 DEF next
  <2>3. next(blocks, blk') \in 1 .. Top
    BY <2>1, BlockFacts
  <2>4. QED
    BY <1>2, <1>3, <2>1, <2>2, <2>3
<1>6. CASE ~(blk' < tail)
  BY <1>2, <1>3, <1>4, <1>6
<1>7. QED
  BY <1>5, <1>6

(***************************************************************************)
(* The same when the walk passes over two blocks it does not merge.        *)
(***************************************************************************)
LEMMA PassAdvances ==
  ASSUME TypeOK, HeapInv, head # 0,
         blk \in DOMAIN blocks, tmp = next(blocks, blk), tmp < tail,
         Advance(blocks, tmp) \/ (blk' = tmp /\ tmp' = next(blocks, tmp))
  PROVE  /\ blk' \in 0 .. Top /\ tmp' \in 0 .. Top /\ tmp <= blk'
         /\ blk' < tail => blk' \in DOMAIN blocks /\ tmp' = next(blocks, blk')
<1>1. /\ tmp \in DOMAIN blocks /\ tmp \in 1 .. Top
      /\ tmp < next(blocks, tmp) /\ next(blocks, tmp) \in 1 .. Top
      /\ next(blocks, tmp) < tail => next(blocks, tmp) \in DOMAIN blocks
  BY BlockFacts
<1>2. CASE blk' = tmp /\ tmp' = next(blocks, tmp)
  BY <1>1, <1>2
<1>3. CASE Advance(blocks, tmp)
  <2>1. /\ blk' = next(blocks, tmp)
        /\ tmp' = IF blk' < tail THEN next(blocks, blk') ELSE tmp
    BY <1>3 DEF Advance
  <2>2. blk' < tail => next(blocks, blk') \in 1 .. Top
    BY <1>1, <2>1, BlockFacts
  <2>3. QED
    BY <1>1, <2>1, <2>2
<1>4. QED
  BY <1>2, <1>3

-----------------------------------------------------------------------------
(* The walks. *)

(***************************************************************************)
(* A CPU in a walk has adjacent blocks in blk and tmp.                     *)
(***************************************************************************)
LEMMA WalkFacts ==
  ASSUME IInv, NEW c \in Cpus, pc[c] \in {"walk", "merge"}, InWalk
  PROVE  /\ TypeOK /\ HeapInv /\ head # 0
         /\ blk \in DOMAIN blocks /\ tmp = next(blocks, blk) /\ tmp < tail
         /\ tmp \in DOMAIN blocks
<1>1. Knows(c)
  BY DEF IInv
<1>2. /\ TypeOK /\ HeapInv /\ head # 0
      /\ blk \in DOMAIN blocks /\ tmp = next(blocks, blk) /\ tmp < tail
  BY <1>1 DEF IInv, Knows, InWalk, Searching, Coalescing
<1>3. QED
  BY <1>2, BlockFacts

(***************************************************************************)
(* Lines 49-63: the merge does not take the best block away, which lies    *)
(* before tmp, and does not make it smaller.                               *)
(***************************************************************************)
LEMMA WalkMergeStep ==
  ASSUME IInv, NEW c \in Cpus, WalkMerge(c)
  PROVE  IInv'
<1>1. /\ TypeOK /\ HeapInv /\ head # 0
      /\ blk \in DOMAIN blocks /\ tmp = next(blocks, blk) /\ tmp < tail
      /\ Mergeable /\ blocks' = Merged /\ Advance(Merged, blk)
      /\ UNCHANGED <<head, tail, data, live, gen, hitStale>>
  BY WalkFacts DEF WalkMerge, ghostVars
<1>2. HeapInv'
  BY <1>1, MergeKeeps
<1>3. /\ DOMAIN Merged = DOMAIN blocks \ {tmp} /\ DOMAIN Merged \subseteq 1 .. Top
      /\ Merged \in [DOMAIN Merged -> [size : BlockSizes, free : BOOLEAN]]
      /\ blk \in DOMAIN Merged /\ Merged[blk].free
      /\ Merged[blk].size = 2 * blocks[blk].size
      /\ \A b \in DOMAIN Merged : b # blk => Merged[b] = blocks[b]
  BY <1>1, MergeKeeps
<1>4. /\ blk' \in 0 .. Top /\ tmp' \in 0 .. Top /\ blk < blk'
      /\ blk' < tail => blk' \in DOMAIN Merged /\ tmp' = next(Merged, blk')
  BY <1>1, MergeAdvances
<1>5. /\ blk \in 1 .. Top /\ tmp \in 1 .. Top /\ blk < tmp
      /\ blocks[blk].size \in Nat \ {0}
  BY <1>1, BlockFacts
<1>6. /\ best' \in {best, blk} /\ want' = want
      /\ best' = blk => want <= Merged[blk].size \/ best = blk
  BY DEF WalkMerge, Better
<1>7. /\ best \in 0 .. Top /\ want \in Nat /\ best <= blk
      /\ best # 0 => best \in DOMAIN blocks /\ blocks[best].free /\ blocks[best].size >= want
  <2>1. best \in 0 .. Top /\ want \in Nat
    BY HeapAssumption DEF IInv, TypeOK
  <2>2. QED
    BY <2>1 DEF IInv, Knows, WalkMerge
<1>8. /\ best' \in 0 .. Top /\ best' <= blk'
      /\ best' # 0 => best' \in DOMAIN Merged /\ Merged[best'].free /\ Merged[best'].size >= want
  <2>1. best' <= blk /\ best' # tmp /\ best' \in 0 .. Top
    BY <1>5, <1>6, <1>7
  <2>2. best' <= blk'
    BY <1>4, <1>5, <2>1
  <2>3. CASE best' = blk
    BY <1>3, <1>5, <1>6, <1>7, <2>1, <2>2, <2>3
  <2>4. CASE best' # blk
    BY <1>3, <1>6, <1>7, <2>1, <2>2, <2>4
  <2>5. QED
    BY <2>3, <2>4
<1>9. OthersKeep(c) /\ pc' = pc /\ call' = call /\ lock' = lock /\ live' = live
  BY DEF WalkMerge, OthersKeep, ghostVars
<1>10. TypeOK'
  BY <1>1, <1>3, <1>4, <1>8 DEF TypeOK, WalkMerge, ghostVars
<1>11. Owned'
  BY <1>9, OwnedKeeps DEF IInv, Released
<1>12. Knows(c)'
  <2>1. Knows(c) /\ pc[c] = "walk"
    BY DEF IInv, WalkMerge
  <2>2. QED
    BY <1>1, <1>4, <1>6, <1>8, <1>9, <2>1 DEF Knows, Searching, Coalescing, Freeing, next
<1>13. LockStep(c) /\ pc[c] \in Critical
  BY <1>9 DEF LockStep, WalkMerge, Critical
<1>14. QED
  BY <1>1, <1>2, <1>9, <1>10, <1>11, <1>12, <1>13, StepKeeps

(***************************************************************************)
(* Lines 65-82: the candidate is a free block that is large enough.        *)
(***************************************************************************)
LEMMA WalkPassStep ==
  ASSUME IInv, NEW c \in Cpus, WalkPass(c)
  PROVE  IInv'
<1>1. /\ TypeOK /\ HeapInv /\ head # 0
      /\ blk \in DOMAIN blocks /\ tmp = next(blocks, blk) /\ tmp < tail
      /\ tmp \in DOMAIN blocks
  BY WalkFacts DEF WalkPass
<1>2. Advance(blocks, tmp) \/ (blk' = tmp /\ tmp' = next(blocks, tmp))
  BY DEF WalkPass
<1>3. /\ blk' \in 0 .. Top /\ tmp' \in 0 .. Top /\ tmp <= blk'
      /\ blk' < tail => blk' \in DOMAIN blocks /\ tmp' = next(blocks, blk')
  BY <1>1, <1>2, PassAdvances
<1>4. /\ blk \in 1 .. Top /\ tmp \in 1 .. Top /\ blk < tmp
      /\ blocks[blk].size \in Nat \ {0} /\ blocks[tmp].size \in Nat \ {0}
  BY <1>1, BlockFacts
<1>5. /\ best' \in {best, blk, tmp}
      /\ best' = tmp => best = tmp \/ (blocks[tmp].free /\ want <= blocks[tmp].size)
      /\ best' = blk => best = blk \/ (blocks[blk].free /\ want <= blocks[blk].size)
  <2> DEFINE first == IF Better(blocks, blk, FALSE) THEN blk ELSE best
             tmpBetter == /\ blocks[tmp].free /\ want <= blocks[tmp].size
                          /\ first = 0 \/ blocks[tmp].size < blocks[first].size
  <2>1. best' = IF tmpBetter THEN tmp ELSE first
    BY DEF WalkPass
  <2>2. first # best => first = blk /\ blocks[blk].free /\ want <= blocks[blk].size
    BY DEF Better
  <2>3. tmpBetter => blocks[tmp].free /\ want <= blocks[tmp].size
    OBVIOUS
  <2> HIDE DEF first, tmpBetter
  <2>4. blk # tmp
    BY <1>4
  <2>5. QED
    BY <2>1, <2>2, <2>3, <2>4
<1>6. /\ best \in 0 .. Top /\ want \in Nat /\ best <= blk
      /\ best # 0 => best \in DOMAIN blocks /\ blocks[best].free /\ blocks[best].size >= want
  <2>1. best \in 0 .. Top /\ want \in Nat
    BY HeapAssumption DEF IInv, TypeOK
  <2>2. QED
    BY <2>1 DEF IInv, Knows, WalkPass
<1>7. /\ best' \in 0 .. Top /\ best' <= blk'
      /\ best' # 0 => best' \in DOMAIN blocks /\ blocks[best'].free /\ blocks[best'].size >= want
  BY <1>1, <1>3, <1>4, <1>5, <1>6
<1>8. /\ OthersKeep(c) /\ UNCHANGED <<blocks, head, tail, data, want, pc, call, lock>>
      /\ UNCHANGED <<live, gen, hitStale>>
  BY DEF WalkPass, OthersKeep, heapVars, ghostVars
<1>9. TypeOK'
  BY <1>1, <1>3, <1>7 DEF TypeOK, WalkPass, heapVars, ghostVars
<1>10. HeapInv'
  BY <1>1, <1>8, HeapKeeps
<1>11. Owned'
  BY <1>8, OwnedKeeps DEF IInv, Released
<1>12. Knows(c)'
  <2>1. Knows(c) /\ pc[c] = "walk"
    BY DEF IInv, WalkPass
  <2>2. QED
    BY <1>3, <1>7, <1>8, <2>1 DEF Knows, Searching, Coalescing, Freeing, next
<1>13. LockStep(c) /\ pc[c] \in Critical
  BY <1>8 DEF LockStep, WalkPass, Critical
<1>14. QED
  BY <1>8, <1>9, <1>10, <1>11, <1>12, <1>13, StepKeeps

(***************************************************************************)
(* The first block of a heap that is laid out, and the one after it.       *)
(***************************************************************************)
LEMMA HeadFacts ==
  ASSUME IInv, head # 0
  PROVE  /\ head \in DOMAIN blocks /\ head \in 0 .. Top
         /\ next(blocks, head) \in 0 .. Top
         /\ blocks[head] \in [size : BlockSizes, free : BOOLEAN]
<1>1. TypeOK /\ HeapInv /\ head \in DOMAIN blocks /\ head \in 0 .. Top
  BY DEF IInv, HeapInv, Tiled, TypeOK
<1>2. QED
  BY <1>1, BlockFacts

(***************************************************************************)
(* Lines 40-46: the search starts at the head.                             *)
(***************************************************************************)
LEMMA FindStartStep ==
  ASSUME IInv, NEW c \in Cpus, FindStart(c)
  PROVE  IInv'
<1>1. Knows(c) /\ pc[c] = "find" /\ head # 0 /\ pc \in [Cpus -> Labels]
  BY DEF IInv, TypeOK, FindStart, Knows, Searching
<1>2. /\ head \in DOMAIN blocks /\ head \in 0 .. Top
      /\ next(blocks, head) \in 0 .. Top
      /\ blocks[head] \in [size : BlockSizes, free : BOOLEAN]
  BY <1>1, HeadFacts
<1>3. /\ blk' = head /\ tmp' = next(blocks, head)
      /\ UNCHANGED <<blocks, head, tail, data, want, call, lock, live, gen, hitStale>>
  BY DEF FindStart, heapVars, ghostVars
<1>4. \/ pc'[c] = "split" /\ best' = head /\ blocks[head].free /\ want <= blocks[head].size
      \/ pc'[c] \in {"miss", "walk"} /\ best' = 0
  BY <1>1 DEF FindStart, Goto
<1>5. OthersKeep(c)
  BY DEF FindStart, OthersKeep, Goto, IInv, TypeOK
<1>6. TypeOK'
  <2>1. best' \in 0 .. Top
    BY <1>2, <1>4, HeapAssumption DEF Top
  <2>2. pc' \in [Cpus -> Labels]
    BY <1>1 DEF FindStart, Goto, Labels
  <2>3. QED
    BY <1>2, <1>3, <2>1, <2>2 DEF TypeOK, FindStart, IInv, heapVars
<1>7. HeapInv'
  BY <1>3, HeapKeeps DEF IInv
<1>8. Owned'
  <2>1. ~Released(c)
    BY <1>1 DEF Released, Coalescing
  <2>2. QED
    BY <1>3, <1>5, <2>1, OwnedKeeps DEF IInv
<1>9. Knows(c)'
  <2>1. want \in Nat
    BY HeapAssumption DEF IInv, TypeOK
  <2>2. blocks[head].size \in Nat
    BY <1>2, HeapAssumption
  <2>3. call'[c].size # 0 /\ want' # 0 /\ head' # 0 /\ ~call'[c].retry
    BY <1>1, <1>3 DEF Knows, Searching
  <2>4. pc'[c] = "walk" => best' <= blk'
    BY <1>2, <1>3, <1>4
  <2>5. pc'[c] = "split" => best' # 0 /\ best' \in DOMAIN blocks' /\ blocks'[best'].free
                            /\ blocks'[best'].size >= want'
    BY <1>1, <1>2, <1>3, <1>4, <2>1, <2>2
  <2>6. blk' \in DOMAIN blocks' /\ tmp' = next(blocks', blk')
    BY <1>2, <1>3
  <2>7. pc'[c] \in Searching /\ pc'[c] # "find" /\ (pc'[c] = "walk" => best' = 0)
    BY <1>4 DEF Searching
  <2>8. QED
    BY <2>3, <2>4, <2>5, <2>6, <2>7 DEF Knows, Searching, Coalescing, Freeing, next
<1>10. LockStep(c) /\ pc[c] \in Critical
  BY <1>1, <1>3, <1>4 DEF LockStep, Critical
<1>11. QED
  BY <1>3, <1>5, <1>6, <1>7, <1>8, <1>9, <1>10, StepKeeps

(***************************************************************************)
(* coalescence starts at the head.                                         *)
(***************************************************************************)
LEMMA CoalesceStartStep ==
  ASSUME IInv, NEW c \in Cpus, CoalesceStart(c)
  PROVE  IInv'
<1>1. Knows(c) /\ pc[c] = "coalesce" /\ head # 0 /\ pc'[c] = "merge"
  BY DEF IInv, TypeOK, CoalesceStart, Knows, Coalescing, Goto
<1>2. /\ head \in DOMAIN blocks /\ head \in 0 .. Top
      /\ next(blocks, head) \in 0 .. Top
  BY <1>1, HeadFacts
<1>3. /\ blk' = head /\ tmp' = next(blocks, head)
      /\ UNCHANGED <<blocks, head, tail, data, want, best, call, lock, live, gen, hitStale>>
  BY DEF CoalesceStart, heapVars, ghostVars
<1>4. OthersKeep(c)
  BY DEF CoalesceStart, OthersKeep, Goto, IInv, TypeOK
<1>5. TypeOK'
  BY <1>2, <1>3 DEF TypeOK, CoalesceStart, Goto, Labels, IInv, heapVars
<1>6. HeapInv'
  BY <1>3, HeapKeeps DEF IInv
<1>7. Owned'
  <2>1. Released(c) => Released(c)'
    BY <1>1, <1>3 DEF Released, Coalescing
  <2>2. QED
    BY <1>3, <1>4, <2>1, OwnedKeeps DEF IInv
<1>8. Knows(c)'
  BY <1>1, <1>2, <1>3 DEF Knows, Searching, Coalescing, Freeing, next
<1>9. LockStep(c) /\ pc[c] \in Critical
  BY <1>1, <1>3 DEF LockStep, Critical
<1>10. QED
  BY <1>3, <1>4, <1>5, <1>6, <1>7, <1>8, <1>9, StepKeeps

(***************************************************************************)
(* coalescence merges two blocks.                                          *)
(***************************************************************************)
LEMMA CoalesceMergeStep ==
  ASSUME IInv, NEW c \in Cpus, CoalesceMerge(c)
  PROVE  IInv'
<1>1. /\ TypeOK /\ HeapInv /\ head # 0
      /\ blk \in DOMAIN blocks /\ tmp = next(blocks, blk) /\ tmp < tail
      /\ Mergeable /\ blocks' = Merged /\ Advance(Merged, blk)
      /\ UNCHANGED <<head, tail, data, live, gen, hitStale>>
  BY WalkFacts DEF CoalesceMerge, ghostVars
<1>2. HeapInv'
  BY <1>1, MergeKeeps
<1>3. /\ DOMAIN Merged \subseteq 1 .. Top
      /\ Merged \in [DOMAIN Merged -> [size : BlockSizes, free : BOOLEAN]]
  BY <1>1, MergeKeeps
<1>4. /\ blk' \in 0 .. Top /\ tmp' \in 0 .. Top
      /\ blk' < tail => blk' \in DOMAIN Merged /\ tmp' = next(Merged, blk')
  BY <1>1, MergeAdvances
<1>5. OthersKeep(c) /\ pc[c] = "merge" /\ UNCHANGED <<pc, call, lock, live, want>>
  BY DEF CoalesceMerge, OthersKeep, ghostVars
<1>6. TypeOK'
  BY <1>1, <1>3, <1>4 DEF TypeOK, CoalesceMerge, ghostVars
<1>7. Owned'
  BY <1>5, OwnedKeeps DEF IInv, Released
<1>8. Knows(c)'
  <2>1. Knows(c)
    BY DEF IInv
  <2>2. QED
    BY <1>1, <1>4, <1>5, <2>1 DEF Knows, Searching, Coalescing, Freeing, next
<1>9. LockStep(c) /\ pc[c] \in Critical
  BY <1>5 DEF LockStep, Critical
<1>10. QED
  BY <1>1, <1>2, <1>5, <1>6, <1>7, <1>8, <1>9, StepKeeps

(***************************************************************************)
(* coalescence passes over blocks it cannot merge.                         *)
(***************************************************************************)
LEMMA CoalescePassStep ==
  ASSUME IInv, NEW c \in Cpus, CoalescePass(c)
  PROVE  IInv'
<1>1. /\ TypeOK /\ HeapInv /\ head # 0
      /\ blk \in DOMAIN blocks /\ tmp = next(blocks, blk) /\ tmp < tail
      /\ Advance(blocks, tmp) \/ (blk' = tmp /\ tmp' = next(blocks, tmp))
  BY WalkFacts DEF CoalescePass
<1>2. /\ blk' \in 0 .. Top /\ tmp' \in 0 .. Top
      /\ blk' < tail => blk' \in DOMAIN blocks /\ tmp' = next(blocks, blk')
  BY <1>1, PassAdvances
<1>3. /\ OthersKeep(c) /\ pc[c] = "merge"
      /\ UNCHANGED <<blocks, head, tail, data, want, pc, call, lock, live, gen, hitStale>>
  BY DEF CoalescePass, OthersKeep, heapVars, ghostVars
<1>4. TypeOK'
  BY <1>1, <1>2 DEF TypeOK, CoalescePass, heapVars, ghostVars
<1>5. HeapInv'
  BY <1>1, <1>3, HeapKeeps
<1>6. Owned'
  BY <1>3, OwnedKeeps DEF IInv, Released
<1>7. Knows(c)'
  <2>1. Knows(c)
    BY DEF IInv
  <2>2. QED
    BY <1>2, <1>3, <2>1 DEF Knows, Searching, Coalescing, Freeing, next
<1>8. LockStep(c) /\ pc[c] \in Critical
  BY <1>3 DEF LockStep, Critical
<1>9. QED
  BY <1>3, <1>4, <1>5, <1>6, <1>7, <1>8, StepKeeps

(***************************************************************************)
(* malloc goes back to its search, free gives up the lock and returns.     *)
(***************************************************************************)
LEMMA CoalesceEndStep ==
  ASSUME IInv, NEW c \in Cpus, CoalesceEnd(c)
  PROVE  IInv'
<1>1. /\ Knows(c) /\ pc[c] = "merge" /\ pc \in [Cpus -> Labels] /\ call \in [Cpus -> CallRecord]
      /\ call[c].size \in Nat
  BY HeapAssumption DEF IInv, TypeOK, CoalesceEnd, CallRecord
<1>2. /\ UNCHANGED <<blocks, head, tail, data, blk, tmp, best, want, live, gen, hitStale>>
      /\ NoCall \in CallRecord /\ NoCall.old = None
  BY DEF CoalesceEnd, heapVars, walkVars, ghostVars, NoCall, CallRecord
<1>3. \/ call[c].size # 0 /\ pc'[c] = "find" /\ lock' = lock /\ call' = call
      \/ /\ call[c].size = 0 /\ pc'[c] = "idle" /\ lock' = FALSE
         /\ call' = [call EXCEPT ![c] = NoCall]
  BY <1>1 DEF CoalesceEnd, Goto
<1>4. OthersKeep(c)
  BY <1>1, <1>3 DEF CoalesceEnd, OthersKeep, Goto
<1>5. TypeOK'
  <2>1. call' \in [Cpus -> CallRecord] /\ pc' \in [Cpus -> Labels] /\ lock' \in BOOLEAN
    BY <1>1, <1>2, <1>3 DEF CoalesceEnd, Goto, Labels, IInv, TypeOK
  <2>2. QED
    BY <2>1 DEF TypeOK, IInv, CoalesceEnd, heapVars, walkVars, ghostVars
<1>6. HeapInv'
  BY <1>2, HeapKeeps DEF IInv
<1>7. Owned'
  <2>1. CASE call[c].size # 0
    <3>1. ~Released(c) /\ call' = call
      BY <1>3, <2>1 DEF Released
    <3>2. QED
      BY <1>2, <1>4, <3>1, OwnedKeeps DEF IInv
  <2>2. CASE call[c].size = 0
    <3>1. call'[c].old = None
      BY <1>1, <1>2, <1>3, <2>2
    <3>2. QED
      BY <1>2, <1>4, <3>1, OwnedEnds DEF IInv
  <2>3. QED
    BY <2>1, <2>2
<1>8. Knows(c)'
  <2>1. CASE call[c].size # 0
    BY <1>1, <1>2, <1>3, <2>1 DEF Knows, Searching, Coalescing, Freeing
  <2>2. CASE call[c].size = 0
    <3>1. call'[c] = NoCall /\ NoCall.retry = FALSE
      BY <1>1, <1>3, <2>2 DEF NoCall
    <3>2. QED
      BY <1>3, <2>2, <3>1 DEF Knows, Searching, Coalescing, Freeing
  <2>3. QED
    BY <2>1, <2>2
<1>9. LockStep(c) /\ pc[c] \in Critical
  BY <1>1, <1>3 DEF LockStep, Critical
<1>10. QED
  BY <1>2, <1>4, <1>5, <1>6, <1>7, <1>8, <1>9, StepKeeps

-----------------------------------------------------------------------------
(* split, the end of malloc, and free. *)

(***************************************************************************)
(* Halving a free block that is larger than a power of two keeps the heap  *)
(* tiled: the second half starts at an address inside the block.           *)
(***************************************************************************)
LEMMA SplitKeeps ==
  ASSUME TypeOK, HeapInv, head # 0, best \in DOMAIN blocks, blocks[best].free,
         want \in BlockSizes, want < blocks[best].size,
         NEW sz, sz = blocks[best].size \div 2,
         blocks' = [b \in DOMAIN blocks \cup {best + sz} |->
                      IF b = best THEN [blocks[b] EXCEPT !.size = sz]
                      ELSE IF b = best + sz THEN [size |-> sz, free |-> TRUE]
                      ELSE blocks[b]],
         UNCHANGED <<head, tail, data, live, gen, hitStale>>
  PROVE  /\ HeapInv'
         /\ DOMAIN blocks' \subseteq 1 .. Top
         /\ blocks' \in [DOMAIN blocks' -> [size : BlockSizes, free : BOOLEAN]]
         /\ best + sz \in DOMAIN blocks' /\ best + sz \in 1 .. Top
         /\ blocks'[best + sz].free /\ blocks'[best + sz].size >= want
<1> DEFINE D == DOMAIN blocks
           s == best + sz
<1>1. /\ best \in 1 .. Top /\ tail \in 0 .. Top /\ Top \in Nat
      /\ blocks[best].size \in BlockSizes /\ blocks[best].size \in Nat \ {0}
      /\ blocks[best] \in [size : BlockSizes, free : BOOLEAN]
      /\ next(blocks, best) = best + blocks[best].size /\ next(blocks, best) <= tail
  BY BlockFacts
<1>2. PICK h \in BlockSizes : blocks[best].size = h + h /\ want <= h
  BY <1>1, HeapAssumption
<1>3. sz = h /\ h \in Nat \ {0} /\ want \in Nat
  BY <1>2, HeapAssumption
<1>4. /\ best < s /\ s < next(blocks, best) /\ next(blocks, best) = s + sz
      /\ s \in 1 .. Top /\ sz \in BlockSizes
  BY <1>1, <1>2, <1>3
<1>5. /\ head \in D /\ \A b \in D : head <= b
      /\ \A b \in D : b \in Nat /\ next(blocks, b) \in Nat
      /\ \A b \in D : b < next(blocks, b) /\ next(blocks, b) <= tail
      /\ \A b \in D : next(blocks, b) = tail \/ next(blocks, b) \in D
      /\ \A b, d \in D : b < d => next(blocks, b) <= d
      /\ head \in Nat
  BY BlockFacts DEF HeapInv, Tiled, TypeOK
<1>6. s \notin D /\ best \in D
  <2>1. ASSUME s \in D PROVE FALSE
    <3>1. next(blocks, best) <= s
      BY <1>4, <1>5, <2>1
    <3>2. QED
      BY <1>1, <1>4, <3>1
  <2>2. QED
    BY <2>1
<1>7. /\ DOMAIN blocks' = D \cup {s}
      /\ blocks'[best] = [blocks[best] EXCEPT !.size = sz]
      /\ blocks'[s] = [size |-> sz, free |-> TRUE]
      /\ \A b \in D : b # best => blocks'[b] = blocks[b]
  BY <1>4, <1>6
<1>8. /\ blocks'[best].size = sz /\ blocks'[s].size = sz /\ blocks'[s].free
      /\ next(blocks', best) = s /\ next(blocks', s) = next(blocks, best)
      /\ \A b \in D : b # best => next(blocks', b) = next(blocks, b)
  BY <1>1, <1>4, <1>7 DEF next
<1>9. blocks' \in [DOMAIN blocks' -> [size : BlockSizes, free : BOOLEAN]]
  <2>1. \A b \in D \cup {s} : blocks'[b] \in [size : BlockSizes, free : BOOLEAN]
    BY <1>1, <1>4, <1>7 DEF TypeOK
  <2>2. blocks' = [b \in D \cup {s} |-> blocks'[b]]
    BY <1>7
  <2>3. QED
    BY <1>7, <2>1, <2>2
<1>10. DOMAIN blocks' \subseteq 1 .. Top
  BY <1>4, <1>7 DEF TypeOK
<1> HIDE DEF D, s
<1>11. \A b \in D \cup {s} :
         /\ head <= b
         /\ next(blocks', b) = tail \/ next(blocks', b) \in D \cup {s}
         /\ next(blocks', b) <= tail
  <2>1. head <= s /\ s <= tail /\ head \in Nat
    <3>1. head <= best /\ best \in Nat /\ head \in Nat
      BY <1>5, <1>6
    <3>2. QED
      BY <1>1, <1>4, <3>1
  <2>2. QED
    BY <1>5, <1>6, <1>8, <2>1
<1>12. \A b, d \in D \cup {s} : b < d => next(blocks', b) <= d
  <2>1. ASSUME NEW b \in D, b < s, b # best PROVE next(blocks, b) <= s
    <3>1. b < best
      <4>1. ASSUME best < b PROVE FALSE
        <5>1. next(blocks, best) <= b /\ b \in Nat
          BY <1>5, <1>6, <4>1
        <5>2. QED
          BY <1>1, <1>4, <2>1, <5>1
      <4>2. b \in Nat /\ best \in Nat
        BY <1>5, <1>6
      <4>3. QED
        BY <2>1, <4>1, <4>2
    <3>2. next(blocks, b) <= best /\ next(blocks, b) \in Nat
      BY <1>5, <1>6, <3>1
    <3>3. QED
      BY <1>1, <1>4, <3>2
  <2>2. ASSUME NEW d \in D, best < d PROVE s <= d /\ next(blocks, best) <= d
    <3>1. next(blocks, best) <= d /\ d \in Nat
      BY <1>5, <1>6, <2>2
    <3>2. QED
      BY <1>1, <1>4, <3>1
  <2>3. ASSUME NEW d \in D, s < d PROVE best < d
    BY <1>1, <1>4, <1>5, <2>3
  <2>4. ~(s < s) /\ s <= s
    BY <1>4
  <2>5. ASSUME NEW b \in D, NEW d \in D \cup {s}, b < d
        PROVE  next(blocks', b) <= d
    <3>1. CASE b = best
      BY <1>5, <1>6, <1>8, <2>2, <2>4, <2>5, <3>1
    <3>2. CASE b # best
      <4>1. next(blocks', b) = next(blocks, b)
        BY <1>8, <3>2
      <4>2. CASE d = s
        BY <2>1, <2>5, <3>2, <4>1, <4>2
      <4>3. CASE d \in D
        BY <1>5, <2>5, <4>1, <4>3
      <4>4. QED
        BY <4>2, <4>3
    <3>3. QED
      BY <3>1, <3>2
  <2>6. ASSUME NEW d \in D \cup {s}, s < d
        PROVE  next(blocks', s) <= d
    BY <1>8, <2>2, <2>3, <2>4, <2>6
  <2>7. QED
    BY <2>5, <2>6
<1>13. Tiled' /\ WithinTail'
  BY <1>5, <1>7, <1>11, <1>12 DEF Tiled, WithinTail
<1>14. LivePointersSafe'
  <2>1. \A b \in D : ~blocks[b].free => b \in D \cup {s} /\ blocks'[b] = blocks[b]
    BY <1>7
  <2>2. QED
    BY <1>7, <2>1 DEF HeapInv, LivePointersSafe, D
<1>15. HeapInv'
  BY <1>13, <1>14 DEF HeapInv, PageAligned, GensPast
<1>16. QED
  BY <1>3, <1>4, <1>7, <1>8, <1>9, <1>10, <1>15, <1>2 DEF D, s

(***************************************************************************)
(* Lines 19-25: split halves the block and goes on with the second half.   *)
(***************************************************************************)
LEMMA SplitHalfStep ==
  ASSUME IInv, NEW c \in Cpus, SplitHalf(c)
  PROVE  IInv'
<1> DEFINE sz == blocks[best].size \div 2
<1>1. Knows(c) /\ pc[c] = "split" /\ TypeOK /\ HeapInv
  BY DEF IInv, SplitHalf
<1>2. /\ head # 0 /\ best \in DOMAIN blocks /\ blocks[best].free
      /\ want \in BlockSizes /\ want < blocks[best].size
  BY <1>1 DEF Knows, Searching, TypeOK, SplitHalf
<1>3. /\ blocks' = [b \in DOMAIN blocks \cup {best + sz} |->
                      IF b = best THEN [blocks[b] EXCEPT !.size = sz]
                      ELSE IF b = best + sz THEN [size |-> sz, free |-> TRUE]
                      ELSE blocks[b]]
      /\ best' = best + sz
      /\ UNCHANGED <<head, tail, data, live, gen, hitStale>>
      /\ UNCHANGED <<pc, call, lock, blk, tmp, want>>
  BY DEF SplitHalf, ghostVars
<1> HIDE DEF sz
<1>4. /\ HeapInv'
      /\ DOMAIN blocks' \subseteq 1 .. Top
      /\ blocks' \in [DOMAIN blocks' -> [size : BlockSizes, free : BOOLEAN]]
      /\ best + sz \in DOMAIN blocks' /\ best + sz \in 1 .. Top
      /\ blocks'[best + sz].free /\ blocks'[best + sz].size >= want
  <2>1. sz = blocks[best].size \div 2
    BY DEF sz
  <2>2. QED
    BY <1>1, <1>2, <1>3, <2>1, SplitKeeps
<1>5. OthersKeep(c)
  BY <1>3 DEF OthersKeep
<1>6. TypeOK'
  <2>1. best' \in 0 .. Top
    BY <1>3, <1>4
  <2>2. UNCHANGED <<pages, expanded, supply, noco, again>>
    BY DEF SplitHalf
  <2>3. QED
    BY <1>1, <1>3, <1>4, <2>1, <2>2 DEF TypeOK
<1>7. Owned'
  BY <1>3, <1>5, OwnedKeeps DEF IInv, Released
<1>8. Knows(c)'
  <2>1. /\ best' # 0 /\ best' \in DOMAIN blocks' /\ blocks'[best'].free
        /\ blocks'[best'].size >= want
    BY <1>3, <1>4
  <2>2. QED
    BY <1>1, <1>3, <2>1 DEF Knows, Searching, Coalescing, Freeing
<1>9. LockStep(c) /\ pc[c] \in Critical
  BY <1>1, <1>3 DEF LockStep, Critical
<1>10. QED
  BY <1>3, <1>4, <1>5, <1>6, <1>7, <1>8, <1>9, StepKeeps

(***************************************************************************)
(* Marking a block used or free moves no block.                            *)
(***************************************************************************)
LEMMA MarkKeeps ==
  ASSUME TypeOK, HeapInv, NEW b \in DOMAIN blocks, NEW v \in BOOLEAN,
         blocks' = [blocks EXCEPT ![b].free = v], UNCHANGED <<head, tail, data>>
  PROVE  /\ Tiled' /\ WithinTail' /\ PageAligned'
         /\ DOMAIN blocks' = DOMAIN blocks
         /\ blocks' \in [DOMAIN blocks' -> [size : BlockSizes, free : BOOLEAN]]
         /\ blocks'[b].free = v
         /\ \A d \in DOMAIN blocks : /\ blocks'[d].size = blocks[d].size
                                     /\ d # b => blocks'[d] = blocks[d]
<1>1. /\ blocks \in [DOMAIN blocks -> [size : BlockSizes, free : BOOLEAN]]
      /\ DOMAIN blocks' = DOMAIN blocks
  BY DEF TypeOK
<1>2. /\ blocks'[b] = [blocks[b] EXCEPT !.free = v]
      /\ \A d \in DOMAIN blocks : d # b => blocks'[d] = blocks[d]
      /\ blocks[b] \in [size : BlockSizes, free : BOOLEAN]
  BY <1>1
<1>3. /\ blocks'[b].free = v /\ blocks'[b].size = blocks[b].size
      /\ blocks'[b] \in [size : BlockSizes, free : BOOLEAN]
  BY <1>2
<1>4. \A d \in DOMAIN blocks : next(blocks', d) = next(blocks, d)
  BY <1>2, <1>3 DEF next
<1>5. blocks' \in [DOMAIN blocks' -> [size : BlockSizes, free : BOOLEAN]]
  <2>1. \A d \in DOMAIN blocks : blocks'[d] \in [size : BlockSizes, free : BOOLEAN]
    BY <1>1, <1>2, <1>3
  <2>2. blocks' = [d \in DOMAIN blocks |-> blocks'[d]]
    BY <1>1
  <2>3. QED
    BY <1>1, <2>1, <2>2
<1>6. Tiled' /\ WithinTail'
  BY <1>1, <1>4 DEF HeapInv, Tiled, WithinTail
<1>7. PageAligned'
  BY DEF HeapInv, PageAligned
<1>8. QED
  BY <1>1, <1>2, <1>3, <1>5, <1>6, <1>7

(***************************************************************************)
(* Lines 27-28 and 192-197: the block malloc hands out was free, so it is  *)
(* not one that a caller holds, and it has exactly the size looked for.    *)
(***************************************************************************)
LEMMA MallocReturnStep ==
  ASSUME IInv, NEW c \in Cpus, MallocReturn(c)
  PROVE  IInv'
<1> DEFINE new == [ptr |-> best + 1, size |-> want, gen |-> gen]
<1>1. Knows(c) /\ pc[c] = "split" /\ TypeOK /\ HeapInv
  BY DEF IInv, MallocReturn
<1>2. /\ head # 0 /\ best \in DOMAIN blocks /\ blocks[best].free
      /\ want \in BlockSizes /\ want >= blocks[best].size /\ blocks[best].size >= want
      /\ call[c].size # 0
  BY <1>1 DEF Knows, Searching, TypeOK, MallocReturn
<1>3. /\ blocks' = [blocks EXCEPT ![best].free = FALSE]
      /\ UNCHANGED <<head, tail, data, pages, supply, blk, tmp, best, want, noco, again, gen, hitStale>>
      /\ live' = live \cup {new} /\ lock' = FALSE /\ expanded' = FALSE
  BY DEF MallocReturn, MallocDone, walkVars
<1>4. /\ best \in 1 .. Top /\ Top \in Nat /\ tail \in 0 .. Top
      /\ blocks[best].size \in Nat \ {0} /\ next(blocks, best) = best + blocks[best].size
      /\ next(blocks, best) <= tail
  BY <1>1, <1>2, BlockFacts
<1>5. want = blocks[best].size /\ best + 1 \in 1 .. Top
  <2>1. want \in Nat
    BY <1>2, HeapAssumption
  <2>2. QED
    BY <1>2, <1>4, <2>1
<1>6. /\ Tiled' /\ WithinTail' /\ PageAligned'
      /\ DOMAIN blocks' = DOMAIN blocks
      /\ blocks' \in [DOMAIN blocks' -> [size : BlockSizes, free : BOOLEAN]]
      /\ blocks'[best].free = FALSE
      /\ \A d \in DOMAIN blocks : /\ blocks'[d].size = blocks[d].size
                                  /\ d # best => blocks'[d] = blocks[d]
  BY <1>1, <1>2, <1>3, MarkKeeps
<1>7. new \in Pointer /\ new.ptr = best + 1 /\ new.size = want /\ new.gen = gen /\ gen \in Nat
  BY <1>1, <1>2, <1>5 DEF Pointer, TypeOK
<1>8. HeapInv'
  <2>1. LivePointersSafe'
    <3>1. SUFFICES ASSUME ~hitStale, NEW l \in live', l.gen = gen
                   PROVE  /\ l.ptr - 1 \in DOMAIN blocks /\ ~blocks'[l.ptr - 1].free
                          /\ blocks'[l.ptr - 1].size = l.size
      BY <1>3, <1>6 DEF LivePointersSafe
    <3>2. CASE l = new
      <4>1. l.ptr - 1 = best
        BY <1>4, <1>7, <3>2
      <4>2. QED
        BY <1>2, <1>5, <1>6, <1>7, <3>2, <4>1
    <3>3. CASE l \in live
      <4>1. /\ l.ptr - 1 \in DOMAIN blocks /\ ~blocks[l.ptr - 1].free
            /\ blocks[l.ptr - 1].size = l.size
        BY <1>1, <3>1, <3>3 DEF HeapInv, LivePointersSafe
      <4>2. l.ptr - 1 # best
        BY <1>2, <4>1
      <4>3. QED
        BY <1>6, <4>1, <4>2
    <3>4. QED
      BY <1>3, <3>2, <3>3
  <2>2. GensPast'
    BY <1>1, <1>3, <1>7 DEF HeapInv, GensPast
  <2>3. QED
    BY <1>6, <2>1, <2>2 DEF HeapInv
<1> HIDE DEF new
<1>9. /\ pc \in [Cpus -> Labels] /\ call \in [Cpus -> CallRecord] /\ call[c] \in CallRecord
      /\ NoCall \in CallRecord /\ NoCall.old = None /\ NoCall.retry = FALSE /\ NoCall.size = 0
  BY <1>1 DEF TypeOK, NoCall, CallRecord
<1>10. \/ call[c].old = None /\ pc' = [pc EXCEPT ![c] = "idle"] /\ call' = [call EXCEPT ![c] = NoCall]
       \/ pc' = [pc EXCEPT ![c] = "free"] /\ call' = [call EXCEPT ![c].size = 0]
  BY DEF MallocReturn, MallocDone, Goto
<1>11. /\ OthersKeep(c) /\ pc'[c] \in {"idle", "free"} /\ call'[c].size = 0
       /\ call'[c].old = call[c].old
       /\ call'[c].retry => call[c].retry
       /\ call'[c] \in CallRecord /\ call' \in [Cpus -> CallRecord] /\ pc' \in [Cpus -> Labels]
  <2>1. CASE call[c].old = None /\ pc' = [pc EXCEPT ![c] = "idle"] /\ call' = [call EXCEPT ![c] = NoCall]
    BY <1>9, <2>1 DEF OthersKeep, Labels
  <2>2. CASE pc' = [pc EXCEPT ![c] = "free"] /\ call' = [call EXCEPT ![c].size = 0]
    BY <1>9, <2>2 DEF OthersKeep, Labels, CallRecord
  <2>3. QED
    BY <1>10, <2>1, <2>2
<1>12. TypeOK'
  BY <1>1, <1>3, <1>6, <1>7, <1>11 DEF TypeOK
<1>13. Owned'
  <2>1. ~Released(c)
    BY <1>1 DEF Released, Coalescing
  <2>2. QED
    BY <1>3, <1>11, <2>1, OwnedKeeps DEF IInv
<1>14. Knows(c)'
  <2>1. ~call'[c].retry
    <3>1. ~call[c].retry
      BY <1>1 DEF Knows
    <3>2. QED
      BY <1>11, <3>1
  <2>2. QED
    BY <1>11, <2>1 DEF Knows, Searching, Coalescing, Freeing
<1>15. LockStep(c) /\ pc[c] \in Critical
  BY <1>1, <1>3, <1>11 DEF LockStep, Critical
<1>16. QED
  BY <1>3, <1>8, <1>11, <1>12, <1>13, <1>14, <1>15, StepKeeps

(***************************************************************************)
(* free finds the pointer outside the heap and returns.                    *)
(***************************************************************************)
LEMMA FreeNothingStep ==
  ASSUME IInv, NEW c \in Cpus, FreeNothing(c)
  PROVE  IInv'
<1>1. /\ TypeOK /\ HeapInv /\ pc[c] \in {"free", "freeTail"}
      /\ pc \in [Cpus -> Labels] /\ call \in [Cpus -> CallRecord]
      /\ NoCall \in CallRecord /\ NoCall.old = None /\ NoCall.retry = FALSE
  BY DEF IInv, TypeOK, FreeNothing, NoCall, CallRecord
<1>2. /\ pc' = [pc EXCEPT ![c] = "idle"] /\ call' = [call EXCEPT ![c] = NoCall]
      /\ live' = live \ {call[c].old}
      /\ UNCHANGED <<blocks, head, tail, data, pages, expanded, lock, supply, gen, hitStale>>
      /\ UNCHANGED <<blk, tmp, best, want, noco, again>>
  BY DEF FreeNothing, FreeReturns, Goto, heapVars, walkVars
<1>3. /\ OthersKeep(c) /\ pc'[c] = "idle" /\ call'[c] = NoCall
      /\ pc' \in [Cpus -> Labels] /\ call' \in [Cpus -> CallRecord]
  BY <1>1, <1>2 DEF OthersKeep, Labels
<1>4. TypeOK'
  BY <1>1, <1>2, <1>3 DEF TypeOK
<1>5. HeapInv'
  BY <1>1, <1>2 DEF HeapInv, Tiled, WithinTail, PageAligned, GensPast, LivePointersSafe, next
<1>6. Owned'
  BY <1>1, <1>2, <1>3, OwnedEnds DEF IInv
<1>7. Knows(c)'
  BY <1>1, <1>3 DEF Knows, Searching, Coalescing, Freeing
<1>8. LockStep(c)
  BY <1>1, <1>2, <1>3 DEF LockStep, Critical
<1>9. QED
  BY <1>2, <1>3, <1>4, <1>5, <1>6, <1>7, <1>8, StepKeeps

(***************************************************************************)
(* Lines 265-268: of the pointers of this layout only the one that free    *)
(* was called with has that block.                                         *)
(***************************************************************************)
LEMMA FreeMarkStep ==
  ASSUME IInv, NEW c \in Cpus, FreeMark(c)
  PROVE  IInv'
<1> DEFINE b == call[c].old.ptr - 1
<1>1. /\ TypeOK /\ HeapInv /\ Owned /\ Knows(c) /\ pc[c] = "freeLock" /\ ~lock
      /\ pc \in [Cpus -> Labels] /\ call[c] \in CallRecord
  BY DEF IInv, TypeOK, FreeMark
<1>2. /\ lock' = TRUE
      /\ blocks' = IF b \in DOMAIN blocks THEN [blocks EXCEPT ![b].free = TRUE] ELSE blocks
      /\ hitStale' = (hitStale \/ (b \in DOMAIN blocks /\ call[c].old.gen # gen))
      /\ live' = live \ {call[c].old}
      /\ pc' = [pc EXCEPT ![c] = "coalesce"]
      /\ UNCHANGED <<head, tail, data, pages, expanded, supply, call, gen>>
      /\ UNCHANGED <<blk, tmp, best, want, noco, again>>
  BY DEF FreeMark, Goto, walkVars
<1>3. /\ OthersKeep(c) /\ pc'[c] = "coalesce" /\ pc' \in [Cpus -> Labels]
      /\ head # 0 /\ call[c].size = 0 /\ ~call[c].retry
  BY <1>1, <1>2 DEF OthersKeep, Labels, Knows, Freeing
<1>4. ASSUME b \in DOMAIN blocks PROVE HeapInv'
  <2>1. blocks' = [blocks EXCEPT ![b].free = TRUE]
    BY <1>2, <1>4
  <2> HIDE DEF b
  <2>2. /\ Tiled' /\ WithinTail' /\ PageAligned'
        /\ DOMAIN blocks' = DOMAIN blocks
        /\ blocks' \in [DOMAIN blocks' -> [size : BlockSizes, free : BOOLEAN]]
        /\ \A d \in DOMAIN blocks : /\ blocks'[d].size = blocks[d].size
                                    /\ d # b => blocks'[d] = blocks[d]
    BY <1>1, <1>2, <1>4, <2>1, MarkKeeps
  <2>3. LivePointersSafe'
    <3>1. SUFFICES ASSUME ~hitStale', NEW l \in live', l.gen = gen
                   PROVE  /\ l.ptr - 1 \in DOMAIN blocks /\ ~blocks'[l.ptr - 1].free
                          /\ blocks'[l.ptr - 1].size = l.size
      BY <1>2, <2>2 DEF LivePointersSafe
    <3>2. ~hitStale /\ call[c].old.gen = gen /\ l \in live /\ l # call[c].old
      BY <1>2, <1>4, <3>1
    <3>3. /\ l.ptr - 1 \in DOMAIN blocks /\ ~blocks[l.ptr - 1].free
          /\ blocks[l.ptr - 1].size = l.size
      BY <1>1, <3>1, <3>2 DEF HeapInv, LivePointersSafe
    <3>4. l.ptr - 1 # b
      <4>1. SUFFICES ASSUME l.ptr - 1 = b PROVE FALSE
        OBVIOUS
      <4>2. call[c].old \in live
        <5>1. call[c].old # None
          <6>1. call[c].old.ptr # 0
            BY <1>1, <1>4, <4>1 DEF b, TypeOK, CallRecord
          <6>2. QED
            BY <6>1 DEF None
        <5>2. QED
          BY <1>1, <5>1 DEF Owned, Released, Coalescing
      <4>3. blocks[b].size = call[c].old.size
        BY <1>1, <3>2, <4>2 DEF b, HeapInv, LivePointersSafe
      <4>4. l \in Pointer /\ call[c].old \in Pointer
        BY <1>1, <3>2, <4>2 DEF TypeOK
      <4>5. l.ptr = call[c].old.ptr /\ l.size = call[c].old.size /\ l.gen = call[c].old.gen
        <5>1. l.ptr \in Int /\ call[c].old.ptr \in Int
          BY <4>4 DEF Pointer
        <5>2. QED
          BY <3>1, <3>2, <3>3, <4>1, <4>3, <5>1 DEF b
      <4>6. l = call[c].old
        BY <4>4, <4>5 DEF Pointer
      <4>7. QED
        BY <3>2, <4>6
    <3>5. QED
      BY <2>2, <3>3, <3>4
  <2>4. GensPast'
    BY <1>1, <1>2 DEF HeapInv, GensPast
  <2>5. QED
    BY <2>2, <2>3, <2>4 DEF HeapInv
<1>5. ASSUME b \notin DOMAIN blocks PROVE HeapInv'
  <2>1. blocks' = blocks /\ hitStale' = hitStale
    BY <1>1, <1>2, <1>5 DEF TypeOK
  <2>2. QED
    BY <1>1, <1>2, <2>1
       DEF HeapInv, Tiled, WithinTail, PageAligned, GensPast, LivePointersSafe, next
<1>6. HeapInv'
  BY <1>4, <1>5
<1>7. TypeOK'
  <2>1. /\ DOMAIN blocks' = DOMAIN blocks
        /\ blocks' \in [DOMAIN blocks' -> [size : BlockSizes, free : BOOLEAN]]
    <3>1. CASE b \in DOMAIN blocks
      <4>1. blocks' = [blocks EXCEPT ![b].free = TRUE]
        BY <1>2, <3>1
      <4> HIDE DEF b
      <4>2. QED
        BY <1>1, <1>2, <3>1, <4>1, MarkKeeps
    <3>2. CASE b \notin DOMAIN blocks
      BY <1>1, <1>2, <3>2 DEF TypeOK
    <3>3. QED
      BY <3>1, <3>2
  <2>2. hitStale' \in BOOLEAN
    BY <1>1, <1>2 DEF TypeOK
  <2> HIDE DEF b
  <2>3. QED
    BY <1>1, <1>2, <1>3, <2>1, <2>2 DEF TypeOK
<1> HIDE DEF b
<1>8. Owned'
  <2>1. Released(c)'
    BY <1>2, <1>3 DEF Released, Coalescing
  <2>2. QED
    BY <1>1, <1>2, <1>3, <2>1, OwnedKeeps
<1>9. Knows(c)'
  BY <1>2, <1>3 DEF Knows, Searching, Coalescing, Freeing
<1>10. LockStep(c)
  BY <1>1, <1>2, <1>3 DEF LockStep, Critical
<1>11. QED
  BY <1>1, <1>2, <1>3, <1>6, <1>7, <1>8, <1>9, <1>10, StepKeeps

-----------------------------------------------------------------------------
(* expand *)

(***************************************************************************)
(* The run of pages that pMemory gives expand lies inside the memory.      *)
(***************************************************************************)
LEMMA RunWithinMemory ==
  ASSUME TypeOK, NEW z \in BlockSizes, NEW q \in 1 .. NumPages,
         q .. q + (z \div PageUnits) - 1 \subseteq supply
  PROVE  /\ q * PageUnits \in 1 .. Top
         /\ q * PageUnits + z \in 1 .. Top
<1>1. /\ NumPages \in Nat /\ PageUnits \in Nat \ {0} /\ z \in Nat \ {0} /\ q \in Nat \ {0}
      /\ q <= NumPages /\ Top = (NumPages + 1) * PageUnits
  BY HeapAssumption DEF Top
<1>2. \A i, j \in Nat : i <= j => i * PageUnits <= j * PageUnits
  BY <1>1
<1>3. /\ q * PageUnits <= NumPages * PageUnits
      /\ Top = NumPages * PageUnits + PageUnits
      /\ q * PageUnits \in Nat /\ NumPages * PageUnits \in Nat /\ PageUnits <= q * PageUnits
  <2>1. 1 * PageUnits <= q * PageUnits
    BY <1>1, <1>2
  <2>2. QED
    BY <1>1, <1>2, <2>1
<1>4. CASE z < PageUnits
  BY <1>1, <1>3, <1>4
<1>5. CASE z >= PageUnits
  <2> DEFINE k == z \div PageUnits
  <2>1. k \in Nat \ {0} /\ z = k * PageUnits
    BY <1>5, WholePages
  <2>2. q + k - 1 \in supply
    BY <1>1, <2>1
  <2>3. q + k <= NumPages + 1
    <3>1. q + k - 1 \in 1 .. NumPages
      BY <2>2 DEF TypeOK
    <3>2. QED
      BY <1>1, <2>1, <3>1
  <2> HIDE DEF k
  <2>4. (q + k) * PageUnits <= Top
    BY <1>1, <1>2, <2>1, <2>3
  <2>5. (q + k) * PageUnits = q * PageUnits + k * PageUnits
    BY <1>1, <2>1
  <2>6. QED
    BY <1>1, <1>3, <2>1, <2>4, <2>5
<1>6. QED
  BY <1>1, <1>4, <1>5

(***************************************************************************)
(* The page that pMemory::realloc gives back is one of the memory.         *)
(***************************************************************************)
LEMMA OldPageType ==
  ASSUME TypeOK, HeapInv
  PROVE  OldPage \subseteq 1 .. NumPages
<1>1. CASE data = 0
  BY <1>1 DEF OldPage
<1>2. CASE data # 0
  <2>1. PICK q \in 1 .. NumPages : data = q * PageUnits
    BY <1>2 DEF HeapInv, PageAligned
  <2>2. data \div PageUnits = q
    BY <2>1, PageOfAddress, HeapAssumption
  <2>3. QED
    BY <1>2, <2>1, <2>2 DEF OldPage
<1>3. QED
  BY <1>1, <1>2

(***************************************************************************)
(* Lines 146-162: the heap starts over as one free block, and no pointer   *)
(* has been handed out since.                                              *)
(***************************************************************************)
LEMMA LayoutStep ==
  ASSUME IInv, NEW c \in Cpus, Layout(c)
  PROVE  IInv'
<1>1. PICK z \in BlockSizes, q \in 1 .. NumPages :
        /\ pc[c] = "layout"
        /\ Available(c, z, q)
        /\ supply' = (supply \ (q .. q + (z \div PageUnits) - 1)) \cup OldPage
        /\ data' = q * PageUnits
        /\ head' = q * PageUnits
        /\ tail' = q * PageUnits + z
        /\ blocks' = [b \in {q * PageUnits} |-> [size |-> z, free |-> TRUE]]
        /\ pages' = z \div PageUnits
        /\ gen' = gen + 1
        /\ lock' = FALSE
        /\ Goto(c, AfterExpand(c))
        /\ UNCHANGED <<expanded, call, walkVars, live, hitStale>>
  BY DEF Layout
<1>2. /\ TypeOK /\ HeapInv /\ Knows(c) /\ pc \in [Cpus -> Labels] /\ call[c] \in CallRecord
      /\ z \in Nat \ {0} /\ gen \in Nat
  BY HeapAssumption DEF IInv, TypeOK
<1> DEFINE h == q * PageUnits
<1>3. /\ q .. q + (z \div PageUnits) - 1 \subseteq supply
      /\ h \in 1 .. Top /\ h + z \in 1 .. Top
  BY <1>1, <1>2, RunWithinMemory DEF Available
<1>4. pc'[c] = AfterExpand(c) /\ AfterExpand(c) \in {"setExpanded", "lock", "idle"}
  BY <1>1, <1>2 DEF Goto, AfterExpand
<1>5. OthersKeep(c) /\ pc' \in [Cpus -> Labels]
  BY <1>1, <1>2, <1>4 DEF OthersKeep, Goto, Labels
<1>6. /\ head' = h /\ data' = h /\ tail' = h + z
      /\ DOMAIN blocks' = {h} /\ blocks'[h] = [size |-> z, free |-> TRUE]
      /\ blocks'[h].size = z
      /\ blocks' \in [DOMAIN blocks' -> [size : BlockSizes, free : BOOLEAN]]
  BY <1>1
<1>7. /\ supply' \subseteq 1 .. NumPages /\ pages' \in Nat /\ gen' \in Nat
  <2>1. supply' \subseteq 1 .. NumPages
    BY <1>1, <1>2, OldPageType DEF TypeOK
  <2>2. z \div PageUnits \in Nat
    BY <1>2, PagesFor
  <2>3. QED
    BY <1>1, <1>2, <2>1, <2>2
<1>8. TypeOK'
  <2> HIDE DEF h
  <2>1. Top \in Nat
    BY HeapAssumption DEF Top
  <2>2. /\ DOMAIN blocks' \subseteq 1 .. Top /\ head' \in 0 .. Top /\ tail' \in 0 .. Top
        /\ data' \in {0, head'}
    BY <1>3, <1>6, <2>1
  <2>3. UNCHANGED <<expanded, call, blk, tmp, best, want, noco, again, live, hitStale>>
    BY <1>1 DEF walkVars
  <2>4. lock' \in BOOLEAN
    BY <1>1
  <2>5. QED
    BY <1>2, <1>5, <1>6, <1>7, <2>2, <2>3, <2>4 DEF TypeOK
<1>9. HeapInv'
  <2>1. next(blocks', h) = h + z /\ h \in Nat
    BY <1>3, <1>6 DEF next
  <2>2. Tiled' /\ WithinTail'
    <3> HIDE DEF h
    <3>1. h + z \in Nat
      BY <1>2, <2>1
    <3>2. QED
      BY <1>6, <2>1, <3>1 DEF Tiled, WithinTail
  <2>3. PageAligned'
    BY <1>1 DEF PageAligned
  <2>4. GensPast' /\ \A l \in live' : l.gen # gen'
    <3>1. \A l \in live : l.gen <= gen /\ l.gen \in Nat
      BY <1>2 DEF HeapInv, GensPast, TypeOK, Pointer
    <3>2. QED
      BY <1>1, <1>2, <3>1 DEF GensPast
  <2>5. LivePointersSafe'
    BY <2>4 DEF LivePointersSafe
  <2>6. QED
    BY <2>2, <2>3, <2>4, <2>5 DEF HeapInv
<1>10. Owned'
  <2>1. ~Released(c) /\ call' = call /\ live' = live
    BY <1>1 DEF Released, Coalescing
  <2>2. QED
    BY <1>5, <2>1, OwnedKeeps DEF IInv
<1>11. head' # 0
  BY <1>3, <1>6
<1>12. Knows(c)'
  <2>1. /\ call' = call
        /\ pc'[c] = "setExpanded" => call[c].size # 0
        /\ pc'[c] = "lock" => call[c].size # 0
        /\ call[c].retry => pc'[c] = "setExpanded"
    <3>1. call[c].retry => call[c].size # 0
      BY <1>2 DEF Knows
    <3>2. QED
      BY <1>1, <1>4, <3>1, HeapAssumption DEF AfterExpand
  <2>2. QED
    BY <1>2, <1>4, <1>11, <2>1 DEF Knows, Searching, Coalescing, Freeing
<1>13. LockStep(c) /\ pc[c] \in Critical
  BY <1>1, <1>4 DEF LockStep, Critical
<1>14. QED
  BY <1>5, <1>8, <1>9, <1>10, <1>11, <1>12, <1>13, StepKeeps

(***************************************************************************)
(* expand fails and keeps the lock: malloc goes on, to a lock nobody gives *)
(* up any more.                                                            *)
(***************************************************************************)
LEMMA LayoutFailedStep ==
  ASSUME IInv, NEW c \in Cpus, LayoutFailed(c)
  PROVE  IInv'
<1>1. /\ TypeOK /\ HeapInv /\ Knows(c) /\ pc \in [Cpus -> Labels] /\ call[c] \in CallRecord
      /\ pc[c] = "layout" /\ MutualExclusion
  BY DEF IInv, TypeOK, LayoutFailed
<1>2. /\ supply' = supply \cup OldPage /\ data' = 0
      /\ pc' = [pc EXCEPT ![c] = AfterExpand(c)]
      /\ UNCHANGED <<blocks, head, tail, pages, expanded, lock, call, live, gen, hitStale>>
      /\ UNCHANGED <<blk, tmp, best, want, noco, again>>
  BY DEF LayoutFailed, Goto, walkVars, ghostVars
<1>3. /\ pc'[c] = AfterExpand(c) /\ AfterExpand(c) \in {"setExpanded", "lock", "idle"}
      /\ OthersKeep(c) /\ pc' \in [Cpus -> Labels]
  BY <1>1, <1>2 DEF AfterExpand, OthersKeep, Labels
<1>4. TypeOK'
  <2>1. supply' \subseteq 1 .. NumPages
    BY <1>1, <1>2, OldPageType DEF TypeOK
  <2>2. QED
    BY <1>1, <1>2, <1>3, <2>1 DEF TypeOK
<1>5. HeapInv'
  BY <1>1, <1>2, HeapKeeps
<1>6. Owned'
  <2>1. ~Released(c)
    BY <1>1 DEF Released, Coalescing
  <2>2. QED
    BY <1>2, <1>3, <2>1, OwnedKeeps DEF IInv
<1>7. Stuck'
  BY <1>1, <1>2, <1>3 DEF Stuck, MutualExclusion, OthersKeep, Critical
<1>8. Knows(c)'
  <2>1. /\ call' = call
        /\ pc'[c] = "setExpanded" => call[c].size # 0
        /\ pc'[c] = "lock" => call[c].size # 0
        /\ call[c].retry => pc'[c] = "setExpanded"
    <3>1. call[c].retry => call[c].size # 0
      BY <1>1 DEF Knows
    <3>2. QED
      BY <1>2, <1>3, <3>1, HeapAssumption DEF AfterExpand
  <2>2. QED
    BY <1>1, <1>3, <1>7, <2>1 DEF Knows, Searching, Coalescing, Freeing
<1>9. LockStep(c) /\ pc[c] \in Critical
  BY <1>1, <1>2, <1>3 DEF LockStep, Critical
<1>10. QED
  BY <1>2, <1>3, <1>4, <1>5, <1>6, <1>8, <1>9, StepKeeps

-----------------------------------------------------------------------------
(* The theorems. *)

(***************************************************************************)
(* The heap starts without blocks, pointers and calls.                     *)
(***************************************************************************)
LEMMA InitIInv == Init => IInv
<1> SUFFICES ASSUME Init PROVE IInv
  OBVIOUS
<1>1. NoCall \in CallRecord /\ NoCall.old = None /\ NoCall.size = 0 /\ NoCall.retry = FALSE
  BY DEF NoCall, CallRecord
<1>2. Top \in Nat
  BY HeapAssumption DEF Top
<1>3. DOMAIN blocks = {} /\ blocks \in [DOMAIN blocks -> [size : BlockSizes, free : BOOLEAN]]
  BY DEF Init
<1>4. TypeOK
  <2>1. pc \in [Cpus -> Labels] /\ call \in [Cpus -> CallRecord]
    BY <1>1 DEF Init, Labels
  <2>2. DOMAIN blocks \subseteq 1 .. Top
    BY <1>3
  <2>3. live \subseteq Pointer /\ gen \in Nat /\ hitStale \in BOOLEAN
    BY DEF Init
  <2>4. /\ head \in 0 .. Top /\ tail \in 0 .. Top /\ data \in {0, head} /\ pages \in Nat
        /\ blk \in 0 .. Top /\ tmp \in 0 .. Top /\ best \in 0 .. Top
    BY <1>2 DEF Init
  <2>5. QED
    BY <1>3, <2>1, <2>2, <2>3, <2>4 DEF Init, TypeOK
<1>5. HeapInv
  BY <1>3 DEF Init, HeapInv, Tiled, WithinTail, PageAligned, GensPast, LivePointersSafe
<1>6. \A c \in Cpus : pc[c] = "idle" /\ call[c] = NoCall
  BY DEF Init
<1>7. MutualExclusion
  BY <1>6 DEF MutualExclusion, Critical
<1>8. Owned
  BY <1>1, <1>6 DEF Owned
<1>9. \A c \in Cpus : Knows(c)
  BY <1>1, <1>6 DEF Knows, Searching, Coalescing, Freeing
<1>10. QED
  BY <1>4, <1>5, <1>7, <1>8, <1>9 DEF IInv

(***************************************************************************)
(* Every step keeps the invariant.                                         *)
(***************************************************************************)
LEMMA NextIInv == IInv /\ [Next]_vars => IInv'
<1> SUFFICES ASSUME IInv, [Next]_vars PROVE IInv'
  OBVIOUS
<1>1. ASSUME NEW c \in Cpus, Call(c) PROVE IInv'
  BY <1>1, MallocCallStep, FreeCallStep, ReallocCallStep, SetSizeCallStep DEF Call
<1>2. ASSUME NEW c \in Cpus, Step(c) PROVE IInv'
  <2>1. CASE ExpandLock(c) \/ Layout(c) \/ LayoutFailed(c) \/ SetExpanded(c)
    BY <2>1, ExpandLockStep, LayoutStep, LayoutFailedStep, SetExpandedStep
  <2>2. CASE MallocEntry(c) \/ MallocLock(c) \/ FindStart(c)
    BY <2>2, MallocEntryStep, MallocLockStep, FindStartStep
  <2>3. CASE WalkMerge(c) \/ WalkPass(c) \/ WalkEnd(c)
    BY <2>3, WalkMergeStep, WalkPassStep, WalkEndStep
  <2>4. CASE SplitHalf(c) \/ MallocReturn(c)
    BY <2>4, SplitHalfStep, MallocReturnStep
  <2>5. CASE MissOnce(c) \/ MissAndExpand(c) \/ MissAndFail(c)
    BY <2>5, MissOnceStep, MissAndExpandStep, MissAndFailStep
  <2>6. CASE CoalesceStart(c) \/ CoalesceMerge(c) \/ CoalescePass(c)
    BY <2>6, CoalesceStartStep, CoalesceMergeStep, CoalescePassStep
  <2>7. CASE CoalesceAgain(c) \/ CoalesceEnd(c)
    BY <2>7, CoalesceAgainStep, CoalesceEndStep
  <2>8. CASE FreeNothing(c) \/ FreeCheckHead(c) \/ FreeCheckTail(c) \/ FreeMark(c)
    BY <2>8, FreeNothingStep, FreeCheckHeadStep, FreeCheckTailStep, FreeMarkStep
  <2>9. QED
    BY <1>2, <2>1, <2>2, <2>3, <2>4, <2>5, <2>6, <2>7, <2>8 DEF Step
<1>3. CASE UNCHANGED vars
  BY <1>3 DEF vars, IInv, TypeOK, HeapInv, Tiled, WithinTail, PageAligned, GensPast,
     LivePointersSafe, MutualExclusion, Owned, Released, Knows, Stuck, next
<1>4. QED
  BY <1>1, <1>2, <1>3 DEF Next

(***************************************************************************)
(* The strengthened invariant holds in every reachable state.              *)
(***************************************************************************)
THEOREM HeapInvariance == Spec => []IInv
<1>1. Init => IInv
  BY InitIInv
<1>2. IInv /\ [Next]_vars => IInv'
  BY NextIInv
<1>3. QED
  BY <1>1, <1>2, PTL DEF Spec

(***************************************************************************)
(* The fields of class Heap, the block headers and the pointers handed out *)
(* stay inside the memory that pMemory manages.                            *)
(***************************************************************************)
THEOREM HeapTypeCorrect == Spec => []TypeOK
<1>1. IInv => TypeOK
  BY DEF IInv
<1>2. QED
  BY <1>1, HeapInvariance, PTL

(***************************************************************************)
(* The heap lock keeps all but one CPU out of the block list, also when an *)
(* expansion has failed.                                                   *)
(***************************************************************************)
THEOREM HeapLockExcludes == Spec => []MutualExclusion
<1>1. IInv => MutualExclusion
  BY DEF IInv
<1>2. QED
  BY <1>1, HeapInvariance, PTL

(***************************************************************************)
(* Whatever malloc, free, realloc and setsize do on any number of CPUs,    *)
(* the blocks tile the heap between head and tail.                         *)
(***************************************************************************)
THEOREM BlocksTileHeap == Spec => []Tiled
<1>1. IInv => Tiled
  BY DEF IInv, HeapInv
<1>2. QED
  BY <1>1, HeapInvariance, PTL

(***************************************************************************)
(* find_best, split and coalescence only ever read headers of blocks, and  *)
(* split is given a free block that is large enough.                       *)
(***************************************************************************)
THEOREM WalksReadHeaders == Spec => []WalkReadsHeaders
<1>1. IInv => WalkReadsHeaders
  BY DEF IInv, Knows, WalkReadsHeaders
<1>2. QED
  BY <1>1, HeapInvariance, PTL

(***************************************************************************)
(* Memory that malloc has returned stays in use, in a block of its own and *)
(* of the size asked for, until it is freed or the heap is laid out anew.  *)
(***************************************************************************)
THEOREM PointersStaySafe == Spec => []LivePointersSafe
<1>1. IInv => LivePointersSafe
  BY DEF IInv, HeapInv
<1>2. QED
  BY <1>1, HeapInvariance, PTL

-----------------------------------------------------------------------------
(* One CPU: the retry after an expansion finds a block. *)

OneCpu == \A c, d \in Cpus : c = d

\* The heap is one free block in which the request of CPU c fits.
Fits(c) ==
  /\ data # 0 /\ next(blocks, head) = tail /\ blocks[head].free
  /\ required_size(call[c].size) <= blocks[head].size

\* With one CPU: where malloc is once it has set expanded, and that the heap
\* it retries on has room, unless the expansion failed and kept the lock.
RetryKnows(c) ==
  /\ call[c].retry => call[c].grow = call[c].size \div PageUnits + 1
  /\ pc[c] = "setExpanded" => lock \/ Fits(c)
  /\ expanded => pc[c] \in {"malloc", "expand", "lock", "find", "split"}
  /\ expanded /\ pc[c] \in {"malloc", "lock"} => lock \/ Fits(c)
  /\ expanded /\ pc[c] = "expand" => lock
  /\ expanded /\ pc[c] = "find" => Fits(c) /\ want = required_size(call[c].size)

RetryInv == \A c \in Cpus : RetryKnows(c)

(***************************************************************************)
(* The pages malloc asks expand for hold the block it looks for, whatever  *)
(* the heap had before.                                                    *)
(***************************************************************************)
LEMMA GrownHeapFits ==
  ASSUME NEW s \in Sizes, NEW p \in Nat, NEW z \in BlockSizes,
         z >= ((s \div PageUnits + 1) + p) * PageUnits
  PROVE  required_size(s) <= z
<1> DEFINE g == s \div PageUnits
           Z == { w \in BlockSizes : w >= s + 1 }
<1>1. s \in Nat /\ PageUnits \in Nat \ {0} /\ z \in Nat /\ g \in Nat
  BY PagesFor, HeapAssumption
<1>2. s < g * PageUnits + PageUnits
  <2>1. s = PageUnits * g + (s % PageUnits) /\ s % PageUnits \in 0 .. PageUnits - 1
    BY <1>1
  <2>2. QED
    BY <1>1, <2>1
<1>3. ((g + 1) + p) * PageUnits = g * PageUnits + PageUnits + p * PageUnits
  BY <1>1
<1>4. p * PageUnits \in Nat /\ g * PageUnits \in Nat
  BY <1>1
<1>5. z >= s + 1
  <2> HIDE DEF g
  <2>1. z >= ((g + 1) + p) * PageUnits
    BY DEF g
  <2>2. QED
    BY <1>1, <1>2, <1>3, <1>4, <2>1
<1>6. Z \subseteq Nat /\ z \in Z
  BY <1>5, HeapAssumption
<1>7. Least(Z) <= z
  BY <1>6, LeastInSet
<1>8. QED
  BY <1>7 DEF required_size, RoundUp

(***************************************************************************)
(* A call begins only when no other is in progress, with expanded reset.   *)
(***************************************************************************)
LEMMA RetryCall ==
  ASSUME IInv, NEW c \in Cpus, RetryKnows(c), Call(c)
  PROVE  RetryKnows(c)'
<1> USE DEF Goto, IInv, TypeOK, Knows, RetryKnows, Fits, Searching, Coalescing, Freeing,
            Labels, CallRecord, NoCall, Critical, MutualExclusion,
            heapVars, walkVars, ghostVars, next
<1>1. pc[c] \in Labels /\ call[c] \in CallRecord
  BY DEF IInv, TypeOK
<1>2. ASSUME NEW s \in Sizes, MallocCall(c, s) PROVE RetryKnows(c)'
  BY <1>1, <1>2, HeapAssumption DEF MallocCall
<1>3. ASSUME NEW l \in live \ InUse, FreeCall(c, l) PROVE RetryKnows(c)'
  BY <1>1, <1>3, HeapAssumption DEF FreeCall
<1>4. ASSUME NEW l \in live \ InUse, NEW s \in Sizes, ReallocCall(c, l, s) PROVE RetryKnows(c)'
  BY <1>1, <1>4, HeapAssumption DEF ReallocCall
<1>5. ASSUME NEW n \in Totals, SetSizeCall(c, n) PROVE RetryKnows(c)'
  BY <1>1, <1>5, HeapAssumption DEF SetSizeCall
<1>6. QED
  BY <1>2, <1>3, <1>4, <1>5 DEF Call

(***************************************************************************)
(* A heap that malloc has had expanded is one free block with room for the *)
(* request, and the lock is released.                                      *)
(***************************************************************************)
LEMMA RetryLayout ==
  ASSUME IInv, NEW c \in Cpus, RetryKnows(c), Layout(c)
  PROVE  RetryKnows(c)'
<1>1. PICK z \in BlockSizes, q \in 1 .. NumPages :
        /\ pc[c] = "layout"
        /\ Available(c, z, q)
        /\ data' = q * PageUnits
        /\ head' = q * PageUnits
        /\ tail' = q * PageUnits + z
        /\ blocks' = [b \in {q * PageUnits} |-> [size |-> z, free |-> TRUE]]
        /\ pc' = [pc EXCEPT ![c] = AfterExpand(c)]
        /\ call' = call /\ expanded' = expanded
  BY DEF Layout, Goto
<1>2. call[c] \in CallRecord /\ ~expanded /\ pages \in Nat /\ pc \in [Cpus -> Labels]
  BY <1>1 DEF IInv, TypeOK, RetryKnows
<1>3. CASE ~call[c].retry
  BY <1>1, <1>2, <1>3 DEF RetryKnows, AfterExpand
<1>4. CASE call[c].retry
  <2>1. call[c].size \in Sizes /\ call[c].grow = call[c].size \div PageUnits + 1
    BY <1>2, <1>4 DEF IInv, Knows, CallRecord, RetryKnows
  <2>2. z >= ((call[c].size \div PageUnits + 1) + pages) * PageUnits
    BY <1>1, <2>1 DEF Available
  <2>3. required_size(call[c].size) <= z
    BY <1>2, <2>1, <2>2, GrownHeapFits
  <2>4. q * PageUnits # 0 /\ q * PageUnits \in Nat
    BY HeapAssumption
  <2>5. Fits(c)'
    BY <1>1, <2>3, <2>4 DEF Fits, next
  <2>6. pc'[c] = "setExpanded"
    BY <1>1, <1>2, <1>4 DEF AfterExpand
  <2>7. QED
    BY <1>1, <1>2, <2>1, <2>5, <2>6 DEF RetryKnows
<1>5. QED
  BY <1>3, <1>4

(***************************************************************************)
(* Every other step of a call.                                             *)
(***************************************************************************)
LEMMA RetryStep ==
  ASSUME IInv, NEW c \in Cpus, RetryKnows(c), Step(c)
  PROVE  RetryKnows(c)'
<1> USE DEF Goto, IInv, TypeOK, Knows, RetryKnows, Fits, Searching, Coalescing, Freeing,
            Labels, CallRecord, NoCall, Critical, MutualExclusion,
            heapVars, walkVars, ghostVars, next
<1>1. pc[c] \in Labels /\ call[c] \in CallRecord
  BY DEF IInv, TypeOK
<1>2. CASE ExpandLock(c)
  BY <1>1, <1>2, HeapAssumption DEF ExpandLock
<1>3. CASE LayoutFailed(c)
  BY <1>1, <1>3, HeapAssumption DEF LayoutFailed, AfterExpand
<1>4. CASE SetExpanded(c)
  BY <1>1, <1>4, HeapAssumption DEF SetExpanded
<1>5. CASE MallocEntry(c)
  BY <1>1, <1>5, HeapAssumption DEF MallocEntry
<1>6. CASE MallocLock(c)
  BY <1>1, <1>6, HeapAssumption DEF MallocLock
<1>7. CASE FindStart(c)
  BY <1>1, <1>7, HeapAssumption DEF FindStart
<1>8. CASE WalkMerge(c)
  BY <1>1, <1>8, HeapAssumption DEF WalkMerge
<1>9. CASE WalkPass(c)
  BY <1>1, <1>9, HeapAssumption DEF WalkPass
<1>10. CASE WalkEnd(c)
  BY <1>1, <1>10, HeapAssumption DEF WalkEnd
<1>11. CASE SplitHalf(c)
  BY <1>1, <1>11, HeapAssumption DEF SplitHalf
<1>12. CASE MallocReturn(c)
  BY <1>1, <1>12, HeapAssumption DEF MallocReturn, MallocDone
<1>13. CASE MissOnce(c)
  BY <1>1, <1>13, HeapAssumption DEF MissOnce
<1>14. CASE MissAndExpand(c)
  BY <1>1, <1>14, HeapAssumption DEF MissAndExpand
<1>15. CASE MissAndFail(c)
  BY <1>1, <1>15, HeapAssumption DEF MissAndFail
<1>16. CASE CoalesceStart(c)
  BY <1>1, <1>16, HeapAssumption DEF CoalesceStart
<1>17. CASE CoalesceMerge(c)
  BY <1>1, <1>17, HeapAssumption DEF CoalesceMerge
<1>18. CASE CoalescePass(c)
  BY <1>1, <1>18, HeapAssumption DEF CoalescePass
<1>19. CASE CoalesceAgain(c)
  BY <1>1, <1>19, HeapAssumption DEF CoalesceAgain
<1>20. CASE CoalesceEnd(c)
  BY <1>1, <1>20, HeapAssumption DEF CoalesceEnd
<1>21. CASE FreeNothing(c)
  BY <1>1, <1>21, HeapAssumption DEF FreeNothing, FreeReturns
<1>22. CASE FreeCheckHead(c)
  BY <1>1, <1>22, HeapAssumption DEF FreeCheckHead
<1>23. CASE FreeCheckTail(c)
  BY <1>1, <1>23, HeapAssumption DEF FreeCheckTail
<1>24. CASE FreeMark(c)
  BY <1>1, <1>24, HeapAssumption DEF FreeMark
<1>25. QED
  BY <1>2, <1>3, <1>4, <1>5, <1>6, <1>7, <1>8, <1>9, <1>10, <1>11, <1>12, <1>13,
     <1>14, <1>15, <1>16, <1>17, <1>18, <1>19, <1>20, <1>21, <1>22, <1>23, <1>24,
     RetryLayout DEF Step

(***************************************************************************)
(* With one CPU the retry always finds its block: malloc gives up on no    *)
(* request that pMemory had the pages for, whatever sizes were allocated,  *)
(* freed and reallocated before.                                           *)
(***************************************************************************)
THEOREM RetryNeverFails ==
  ASSUME OneCpu
  PROVE  Spec => RetryFinds
<1>1. Init => RetryInv
  BY DEF Init, RetryInv, RetryKnows, NoCall
<1>2. IInv /\ RetryInv /\ [Next]_vars => RetryInv'
  <2> SUFFICES ASSUME IInv, RetryInv, [Next]_vars, NEW c \in Cpus PROVE RetryKnows(c)'
    BY DEF RetryInv
  <2>1. RetryKnows(c)
    BY DEF RetryInv
  <2>2. CASE Next
    <3>1. Call(c) \/ Step(c)
      BY <2>2, OneCpu DEF Next, OneCpu
    <3>2. QED
      BY <2>1, <3>1, RetryCall, RetryStep
  <2>3. CASE UNCHANGED vars
    BY <2>1, <2>3 DEF vars, RetryKnows, Fits, next
  <2>4. QED
    BY <2>2, <2>3
<1>3. RetryInv /\ [Next]_vars => [\A c \in Cpus : ~MissAndFail(c)]_vars
  BY DEF RetryInv, RetryKnows, MissAndFail
<1>4. QED
  BY <1>1, <1>2, <1>3, HeapInvariance, PTL DEF Spec, RetryFinds

=============================================================================
