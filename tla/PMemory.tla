------------------------------ MODULE PMemory -------------------------------
(***************************************************************************)
(* The physical memory allocator, system/memory/pMemory/pMemory.cpp:       *)
(* alloc, free and realloc, called by any number of CPUs, from the state   *)
(* init leaves (module PMemoryInit).                                       *)
(*                                                                         *)
(* Pointers are page numbers, 0 is nullptr; sizes and RAM counters are in  *)
(* pages.  Everything between mmLock.lock() and mmLock.unlock() except the *)
(* counters is one step: only holders of the lock touch it.  The counters  *)
(* usedRam and freeRam are also written by realloc, which holds no lock    *)
(* (lines 84-85), so each update is a load and a store of its own.         *)
(***************************************************************************)
EXTENDS PageBitmap, FiniteSets

CONSTANTS
  Cpus,
  NumPages,    \* highPage / 0x1000
  UsablePages, \* the pages whose bits init cleared
  BitmapBase,  \* the page bitmap.buffer points to
  PageBits,    \* bitmap bits in one page: 8 * 0x1000
  MaxCount,    \* largest number of pages one call asks for
  MaxLive,     \* a call asks for pages only while fewer blocks are held
  RamModulus   \* the width of the RAM counters, in pages: 2^64 / 0x1000

Pages == 0 .. NumPages - 1

(***************************************************************************)
(* What init and the bootloader's memory map provide; page 0 is never      *)
(* usable memory.                                                          *)
(***************************************************************************)
ASSUME MachineAssumption ==
  /\ NumPages \in Nat \ {0}
  /\ UsablePages \subseteq 1 .. NumPages - 1
  /\ BitmapBase \in Nat \ {0}
  /\ PageBits \in Nat \ {0}
  /\ MaxCount \in Nat \ {0}
  /\ MaxLive \in Nat \ {0}
  /\ RamModulus \in Nat \ {0}

\* The pages that hold the bitmap.
BitmapPages == {BitmapBase + p \div PageBits : p \in Pages}

Block == [page : 1 .. NumPages - 1, count : 1 .. MaxCount]
NoBlock == [page |-> 0, count |-> 0]

VARIABLES
  bitmap,   \* TRUE: the page is in use
  last,     \* where the next search starts
  usedRam,
  freeRam,
  mmLock,   \* TRUE: taken
  live,     \* the blocks that were handed out and not yet freed
  wiped,    \* memset has written over the bitmap (not kept by the code)
  pc,       \* per CPU
  op,       \* per CPU, the call in progress, see NoOp
  reg       \* per CPU, the counter value it has loaded

vars == <<bitmap, last, usedRam, freeRam, mmLock, live, wiped, pc, op, reg>>

PagesOf(b) == Run(b.page, b.count)

\* A call that has pages to allocate, a block to free, or both.
Operation(new, old, drop, delta, pre) ==
  [new   |-> new,     \* pages still to allocate
   old   |-> old,     \* block still to free
   drop  |-> drop,    \* how many of its pages
   ret   |-> NoBlock, \* block to return
   delta |-> delta,   \* what the counter update in progress adds to usedRam
   pre   |-> pre]     \* that update is the one realloc makes without the lock

NoOp == Operation(0, NoBlock, 0, 0, FALSE)

\* A caller may pass to free or realloc a block that it was given and that
\* no call in progress works on.
Held == live \ UNION { {op[c].old, op[c].ret} : c \in Cpus }

Init ==
  /\ bitmap = [p \in Pages |-> p \notin UsablePages]
  /\ last = 0
  /\ usedRam = 0
  /\ freeRam = Cardinality(UsablePages) % RamModulus
  /\ mmLock = FALSE
  /\ live = {}
  /\ wiped = FALSE
  /\ pc = [c \in Cpus |-> "idle"]
  /\ op = [c \in Cpus |-> NoOp]
  /\ reg = [c \in Cpus |-> 0]

-----------------------------------------------------------------------------
(* The entry points.  Which steps follow depends on op. *)

AllocCall(c, n) ==
  /\ pc[c] = "idle"
  /\ op' = [op EXCEPT ![c] = Operation(n, NoBlock, 0, 0, FALSE)]
  /\ pc' = [pc EXCEPT ![c] = "lock"]
  /\ UNCHANGED <<bitmap, last, usedRam, freeRam, mmLock, live, wiped, reg>>

\* Mutant: the loop of free runs to page + count inclusive.
FreeCallOneMore(c, b) ==
  /\ pc[c] = "idle"
  /\ op' = [op EXCEPT ![c] = Operation(0, b, b.count + 1, 0, FALSE)]
  /\ pc' = [pc EXCEPT ![c] = "lock"]
  /\ UNCHANGED <<bitmap, last, usedRam, freeRam, mmLock, live, wiped, reg>>

FreeCall(c, b) ==
  /\ pc[c] = "idle"
  /\ op' = [op EXCEPT ![c] = Operation(0, b, b.count, 0, FALSE)]
  /\ pc' = [pc EXCEPT ![c] = "lock"]
  /\ UNCHANGED <<bitmap, last, usedRam, freeRam, mmLock, live, wiped, reg>>

(***************************************************************************)
(* realloc of a block to n > 0 pages.  Lines 84-85 move the counters by    *)
(* the difference, without the lock; then alloc(n), memcpy, and free(ptr), *)
(* whose count defaults to one page.  (realloc of nullptr is AllocCall and *)
(* realloc to 0 pages is FreeCall.)                                        *)
(***************************************************************************)
ReallocCall(c, b, n) ==
  /\ pc[c] = "idle"
  /\ op' = [op EXCEPT ![c] = Operation(n, b, 1, n - b.count, TRUE)]
  /\ pc' = [pc EXCEPT ![c] = "loadUsed"]
  /\ UNCHANGED <<bitmap, last, usedRam, freeRam, mmLock, live, wiped, reg>>

-----------------------------------------------------------------------------
(* The steps. *)

Lock(c) ==
  /\ pc[c] = "lock"
  /\ ~mmLock
  /\ mmLock' = TRUE
  /\ pc' = [pc EXCEPT ![c] = IF op[c].new > 0 THEN "search" ELSE "release"]
  /\ UNCHANGED <<bitmap, last, usedRam, freeRam, live, wiped, op, reg>>

\* Mutant: one page more is zeroed.
memsetMore(bm, page, n) ==
  [p \in DOMAIN bm |->
     IF BitmapBase + p \div PageBits \in Run(page, n + 1) THEN FALSE ELSE bm[p]]

(***************************************************************************)
(* memset(ret, 0, count * 0x1000) as the bitmap bm sees it.  alloc does    *)
(* not test ret: when it found nothing, page is 0 and the first n pages of *)
(* memory are zeroed, the bitmap too if it lies there.  wiped records that *)
(* this happened; from then on the bitmap says nothing about what is free. *)
(***************************************************************************)
memset(bm, page, n) ==
  [p \in DOMAIN bm |->
     IF BitmapBase + p \div PageBits \in Run(page, n) THEN FALSE ELSE bm[p]]

Wipes(page, n) == BitmapPages \cap Run(page, n) # {}

\* alloc, lines 41-48: search, and zero what was found.
SearchFound(c) ==
  LET n == op[c].new
      found == Search(bitmap, last, NumPages, n)
      b == [page |-> found.page, count |-> n]
  IN  /\ pc[c] = "search"
      /\ found.page > 0
      /\ bitmap' = memset(found.bitmap, found.page, n)
      /\ wiped' = (wiped \/ Wipes(found.page, n))
      /\ last' = found.last
      /\ live' = live \cup {b}
      /\ op' = [op EXCEPT ![c].ret = b, ![c].delta = n]
      /\ pc' = [pc EXCEPT ![c] = "loadUsed"]
      /\ UNCHANGED <<usedRam, freeRam, mmLock, reg>>

\* Nothing found: the counters still move and ret is nullptr.
SearchFailed(c) ==
  LET n == op[c].new
      found == Search(bitmap, last, NumPages, n)
  IN  /\ pc[c] = "search"
      /\ found.page <= 0
      /\ bitmap' = memset(found.bitmap, 0, n)
      /\ wiped' = (wiped \/ Wipes(0, n))
      /\ last' = found.last
      /\ op' = [op EXCEPT ![c].delta = n]
      /\ pc' = [pc EXCEPT ![c] = "loadUsed"]
      /\ UNCHANGED <<usedRam, freeRam, mmLock, live, reg>>

\* free, lines 60-66.
Release(c) ==
  LET b == op[c].old IN
  /\ pc[c] = "release"
  /\ bitmap' = SetRange(bitmap, b.page, op[c].drop, FALSE)
  /\ last' = IF last > b.page THEN b.page ELSE last
  /\ live' = live \ {b}
  /\ op' = [op EXCEPT ![c].delta = -op[c].drop]
  /\ pc' = [pc EXCEPT ![c] = "loadUsed"]
  /\ UNCHANGED <<usedRam, freeRam, mmLock, wiped, reg>>

LoadUsed(c) ==
  /\ pc[c] = "loadUsed"
  /\ reg' = [reg EXCEPT ![c] = usedRam]
  /\ pc' = [pc EXCEPT ![c] = "storeUsed"]
  /\ UNCHANGED <<bitmap, last, usedRam, freeRam, mmLock, live, wiped, op>>

StoreUsed(c) ==
  /\ pc[c] = "storeUsed"
  /\ usedRam' = (reg[c] + op[c].delta) % RamModulus
  /\ pc' = [pc EXCEPT ![c] = "loadFree"]
  /\ UNCHANGED <<bitmap, last, freeRam, mmLock, live, wiped, op, reg>>

LoadFree(c) ==
  /\ pc[c] = "loadFree"
  /\ reg' = [reg EXCEPT ![c] = freeRam]
  /\ pc' = [pc EXCEPT ![c] = "storeFree"]
  /\ UNCHANGED <<bitmap, last, usedRam, freeRam, mmLock, live, wiped, op>>

\* The last counter update of a call is followed by the unlock, realloc's own
\* by the call of alloc.
StoreFree(c) ==
  /\ pc[c] = "storeFree"
  /\ freeRam' = (reg[c] - op[c].delta) % RamModulus
  /\ pc' = [pc EXCEPT ![c] = IF op[c].pre THEN "lock" ELSE "unlock"]
  /\ op' = [op EXCEPT ![c].pre = FALSE]
  /\ UNCHANGED <<bitmap, last, usedRam, mmLock, live, wiped, reg>>

\* After realloc's alloc comes its free(ptr), also when alloc failed.
UnlockAndFreeOld(c) ==
  /\ pc[c] = "unlock"
  /\ op[c].new > 0 /\ op[c].old # NoBlock
  /\ mmLock' = FALSE
  /\ op' = [op EXCEPT ![c].new = 0]
  /\ pc' = [pc EXCEPT ![c] = "lock"]
  /\ UNCHANGED <<bitmap, last, usedRam, freeRam, live, wiped, reg>>

\* Mutant: a return without unlock().
ReturnLocked(c) ==
  /\ pc[c] = "unlock"
  /\ op[c].new = 0 \/ op[c].old = NoBlock
  /\ op' = [op EXCEPT ![c] = NoOp]
  /\ pc' = [pc EXCEPT ![c] = "idle"]
  /\ UNCHANGED <<bitmap, last, usedRam, freeRam, mmLock, live, wiped, reg>>

UnlockAndReturn(c) ==
  /\ pc[c] = "unlock"
  /\ op[c].new = 0 \/ op[c].old = NoBlock
  /\ mmLock' = FALSE
  /\ op' = [op EXCEPT ![c] = NoOp]
  /\ pc' = [pc EXCEPT ![c] = "idle"]
  /\ UNCHANGED <<bitmap, last, usedRam, freeRam, live, wiped, reg>>

Unlock(c) == UnlockAndFreeOld(c) \/ UnlockAndReturn(c)

Room == Cardinality(live) < MaxLive

Call(c) ==
  \/ \E n \in 1 .. MaxCount : Room /\ AllocCall(c, n)
  \/ \E b \in Held : FreeCall(c, b)
  \/ \E b \in Held, n \in 1 .. MaxCount : Room /\ ReallocCall(c, b, n)

Step(c) ==
  \/ Lock(c) \/ SearchFound(c) \/ SearchFailed(c) \/ Release(c)
  \/ LoadUsed(c) \/ StoreUsed(c) \/ LoadFree(c) \/ StoreFree(c)
  \/ Unlock(c)

Next == \E c \in Cpus : Call(c) \/ Step(c)

(***************************************************************************)
(* Every CPU keeps executing (weak fairness of its steps).  The spinlock   *)
(* is not fair: nothing says which of the waiting CPUs gets it, so strong  *)
(* fairness of Lock is not assumed.                                        *)
(***************************************************************************)
Fairness == \A c \in Cpus : WF_vars(Step(c))

Spec == Init /\ [][Next]_vars /\ Fairness
-----------------------------------------------------------------------------

Counting == {"loadUsed", "storeUsed", "loadFree", "storeFree"}

Labels == {"idle", "lock", "search", "release", "unlock"} \cup Counting

OpType ==
  [new : 0 .. MaxCount, old : Block \cup {NoBlock}, drop : 0 .. MaxCount,
   ret : Block \cup {NoBlock}, delta : -MaxCount .. MaxCount, pre : BOOLEAN]

TypeOK ==
  /\ bitmap \in [Pages -> BOOLEAN]
  /\ last \in 0 .. NumPages
  /\ usedRam \in 0 .. RamModulus - 1
  /\ freeRam \in 0 .. RamModulus - 1
  /\ mmLock \in BOOLEAN
  /\ live \subseteq Block
  /\ wiped \in BOOLEAN
  /\ pc \in [Cpus -> Labels]
  /\ op \in [Cpus -> OpType]
  /\ reg \in [Cpus -> 0 .. RamModulus - 1]

\* CPU c is between mmLock.lock() and mmLock.unlock().
InCritical(c) ==
  \/ pc[c] \in {"search", "release", "unlock"}
  \/ pc[c] \in Counting /\ ~op[c].pre

(***************************************************************************)
(* At most one CPU is between lock() and unlock() and the lock is taken    *)
(* exactly while one is.                                                   *)
(***************************************************************************)
MutualExclusion ==
  /\ \A c, d \in Cpus : InCritical(c) /\ InCritical(d) => c = d
  /\ mmLock <=> \E c \in Cpus : InCritical(c)

(***************************************************************************)
(* No page belongs to two blocks that callers hold, whatever the order in  *)
(* which CPUs allocate, free and reallocate; a held page is marked used in *)
(* the bitmap and is one of the pages init made available.  It holds until *)
(* memset zeroes a page of the bitmap: a request of more than BitmapBase   *)
(* pages that fails does that (pMemory.cpp:48).                            *)
(***************************************************************************)
NoDoubleAllocation == ~wiped =>
  /\ \A b1, b2 \in live : b1 # b2 => PagesOf(b1) \cap PagesOf(b2) = {}
  /\ \A b \in live : \A p \in PagesOf(b) : p \in UsablePages /\ bitmap[p]

(***************************************************************************)
(* The two scans of alloc together miss no single page: while the bitmap   *)
(* is intact, alloc(1) returns nullptr only if every page is in use.  (For *)
(* larger counts it does not hold: a run that lies across the starting     *)
(* point is in neither scan.)                                              *)
(***************************************************************************)
OnePageComplete ==
  [][\A c \in Cpus :
       SearchFailed(c) /\ op[c].new = 1 /\ ~wiped => \A p \in Pages : bitmap[p]]_vars

(***************************************************************************)
(* The inductive invariant.  While the bitmap is intact a free page is one *)
(* that init made available, so page 0 stays in use and a pointer is never *)
(* nullptr by accident; the block a call is going to free is held, by that *)
(* call alone, until it frees it.                                          *)
(***************************************************************************)
FreeIsUsable == ~wiped => \A p \in Pages : ~bitmap[p] => p \in UsablePages

\* How the phase of a call follows from what is left of it.
Phases(c) ==
  /\ op[c].pre => pc[c] \in Counting /\ op[c].new > 0
  /\ pc[c] = "search" => op[c].new > 0
  /\ pc[c] = "release" => op[c].new = 0 /\ op[c].old # NoBlock
  /\ pc[c] = "lock" /\ op[c].new = 0 => op[c].old # NoBlock

\* CPU c has a block that it will free.
Pending(c) ==
  op[c].old # NoBlock /\ (op[c].new > 0 \/ pc[c] \in {"lock", "release"})

Owned ==
  \A c \in Cpus : Pending(c) =>
    /\ op[c].old \in live
    /\ op[c].drop \in 1 .. op[c].old.count
    /\ \A d \in Cpus \ {c} : op[d].old # op[c].old

IInv ==
  /\ TypeOK
  /\ MutualExclusion
  /\ NoDoubleAllocation
  /\ FreeIsUsable
  /\ \A c \in Cpus : Phases(c)
  /\ Owned

(***************************************************************************)
(* Whoever takes mmLock releases it: no path of alloc, free or realloc     *)
(* returns with the lock held.                                             *)
(***************************************************************************)
LockReleased == mmLock ~> ~mmLock

Abstract == INSTANCE PageAllocator WITH
  free <- {p \in Pages : ~bitmap[p]}, held <- live, broken <- wiped

(***************************************************************************)
(* Bitmap, cursor, lock and interleaving implement the abstract allocator, *)
(* which is broken only by a memset over the bitmap.                       *)
(***************************************************************************)
Refinement == Abstract!Spec

=============================================================================
