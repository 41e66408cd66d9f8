-------------------------------- MODULE Heap --------------------------------
(***************************************************************************)
(* The kernel heap, system/memory/heap/heap.cpp: malloc, free, realloc,    *)
(* setsize and the expansion of the heap, called by any number of CPUs.    *)
(*                                                                         *)
(* Addresses and sizes are in units of sizeof(HeapBlock), 16 bytes; the    *)
(* address 0 is nullptr.  The block headers in memory are a function from  *)
(* the addresses of the blocks to their size and free fields: a header     *)
(* that a merge has swallowed is no longer in its domain.                  *)
(*                                                                         *)
(* The list walks (find_best, split, coalescence) run with the lock held;  *)
(* each turn of a loop is a step, and their local variables (blk, tmp,     *)
(* best, ...) are those of the CPU that holds the lock.  What malloc and   *)
(* free read before they take the lock are steps of their own.             *)
(***************************************************************************)
EXTENDS Integers, FiniteSets

CONSTANTS
  Cpus,
  NumPages,   \* pages 1 .. NumPages are the ones pMemory can hand out
  PageUnits,  \* units in a page: 0x1000 / 16
  BlockSizes, \* the powers of two up to the size of memory
  InitPages,  \* INIT_PAGES
  Sizes,      \* sizes malloc is called with
  Totals,     \* page counts setsize is called with
  MaxLive     \* pointers the callers hold at a time

Top == (NumPages + 1) * PageUnits

(***************************************************************************)
(* BlockSizes is the set of powers of two as far as the proofs need it.    *)
(***************************************************************************)
ASSUME HeapAssumption ==
  /\ NumPages \in Nat /\ PageUnits \in Nat \ {0} /\ InitPages \in Nat \ {0}
  /\ BlockSizes \subseteq Nat \ {0}
  /\ \A a \in BlockSizes : 2 * a \in BlockSizes \/ 2 * a > Top
  /\ \A a, b \in BlockSizes : a < b => \E h \in BlockSizes : b = h + h /\ a <= h
  /\ \A a \in BlockSizes : a >= PageUnits => a % PageUnits = 0
  /\ Sizes \subseteq Nat \ {0} /\ Totals \subseteq Nat
  /\ \A s \in Sizes : \E z \in BlockSizes : z > s
  /\ MaxLive \in Nat

VARIABLES
  blocks,   \* header address -> [size, free]
  head, tail, data, pages, expanded, \* the fields of class Heap
  lock,     \* TRUE: taken
  supply,   \* the pages pMemory can still hand out
  pc,       \* per CPU
  call,     \* per CPU, the call in progress, see NoCall
  blk, tmp, best, want, noco, again, \* locals of the walks
  live,     \* pointers the callers hold: [ptr, size, gen]
  gen,      \* how many times the heap was laid out
  hitStale  \* a pointer into an earlier layout was freed inside this one

heapVars == <<blocks, head, tail, data, pages>>
walkVars == <<blk, tmp, best, want, noco, again>>
ghostVars == <<live, gen, hitStale>>
vars == <<blocks, head, tail, data, pages, expanded, lock, supply, pc, call,
          blk, tmp, best, want, noco, again, live, gen, hitStale>>

None == [ptr |-> 0, size |-> 0, gen |-> 0]

NoCall ==
  [size  |-> 0,     \* argument of malloc, 0 when only free is left to do
   old   |-> None,  \* pointer to free
   grow  |-> 0,     \* argument of expand
   retry |-> FALSE] \* expand was called because malloc found nothing

Least(S) == CHOOSE x \in S : \A y \in S : x <= y

\* next(block), in a given set of headers.
next(bs, b) == b + bs[b].size

\* The least power of two that is at least n: the loop of required_size, and
\* ALIGN_UP_2 in expand.
RoundUp(n) == Least({ z \in BlockSizes : z >= n })

\* The size of the block for a request of s, header included.
required_size(s) == RoundUp(s + 1)

Init ==
  /\ blocks = << >>
  /\ head = 0 /\ tail = 0 /\ data = 0 /\ pages = 0
  /\ expanded = FALSE /\ lock = FALSE
  /\ supply = 1 .. NumPages
  /\ pc = [c \in Cpus |-> "idle"]
  /\ call = [c \in Cpus |-> NoCall]
  /\ blk = 0 /\ tmp = 0 /\ best = 0 /\ want = 0 /\ noco = TRUE /\ again = FALSE
  /\ live = {} /\ gen = 0 /\ hitStale = FALSE

Goto(c, label) == pc' = [pc EXCEPT ![c] = label]

-----------------------------------------------------------------------------
(* Entry points.  A caller passes a pointer it holds to one call at a time. *)

InUse == { call[c].old : c \in Cpus }

MallocCall(c, s) ==
  /\ pc[c] = "idle"
  /\ Cardinality(live) < MaxLive
  /\ call' = [call EXCEPT ![c] = [NoCall EXCEPT !.size = s]]
  /\ Goto(c, "malloc")
  /\ UNCHANGED <<heapVars, expanded, lock, supply, walkVars, ghostVars>>

FreeCall(c, l) ==
  /\ pc[c] = "idle"
  /\ call' = [call EXCEPT ![c] = [NoCall EXCEPT !.old = l]]
  /\ Goto(c, "free")
  /\ UNCHANGED <<heapVars, expanded, lock, supply, walkVars, ghostVars>>

\* realloc of a pointer to s > 0: malloc(s), then free(ptr) unless malloc failed.
ReallocCall(c, l, s) ==
  /\ pc[c] = "idle"
  /\ call' = [call EXCEPT ![c] = [NoCall EXCEPT !.size = s, !.old = l]]
  /\ Goto(c, "malloc")
  /\ UNCHANGED <<heapVars, expanded, lock, supply, walkVars, ghostVars>>

SetSizeCall(c, n) ==
  /\ pc[c] = "idle"
  /\ n # 0 /\ n > pages
  /\ call' = [call EXCEPT ![c] = [NoCall EXCEPT !.grow = n - pages]]
  /\ Goto(c, "expand")
  /\ UNCHANGED <<heapVars, expanded, lock, supply, walkVars, ghostVars>>

-----------------------------------------------------------------------------
(* expand *)

ExpandLock(c) ==
  /\ pc[c] = "expand"
  /\ ~lock
  /\ lock' = TRUE
  /\ Goto(c, "layout")
  /\ UNCHANGED <<heapVars, expanded, supply, call, walkVars, ghostVars>>

\* pMemory::realloc can give expand z units, a power of two, from page q on.
Available(c, z, q) ==
  /\ z >= (call[c].grow + pages) * PageUnits
  /\ z = RoundUp((call[c].grow + pages) * PageUnits)
  /\ q .. q + z \div PageUnits - 1 \subseteq supply

\* The page of the old heap that pMemory::realloc frees: free(ptr), count 1.
OldPage == IF data # 0 THEN {data \div PageUnits} ELSE {}

\* What follows expand: malloc (which sets expanded first when it retries) or,
\* after setsize, nothing.
AfterExpand(c) ==
  IF call[c].retry THEN "setExpanded" ELSE IF call[c].size > 0 THEN "lock" ELSE "idle"

(***************************************************************************)
(* Lines 146-162.  pMemory::realloc allocates the new run and then frees   *)
(* one page of the old one; the heap starts over as a single free block.   *)
(***************************************************************************)
Layout(c) ==
  \E z \in BlockSizes, q \in 1 .. NumPages :
    /\ pc[c] = "layout"
    /\ Available(c, z, q)
    /\ supply' = (supply \ (q .. q + z \div PageUnits - 1)) \cup OldPage
    /\ data' = q * PageUnits
    /\ head' = q * PageUnits
    /\ tail' = q * PageUnits + z
    /\ blocks' = [b \in {q * PageUnits} |-> [size |-> z, free |-> TRUE]]
    /\ pages' = z \div PageUnits
    /\ gen' = gen + 1
    /\ lock' = FALSE
    /\ Goto(c, AfterExpand(c))
    /\ UNCHANGED <<expanded, call, walkVars, live, hitStale>>

\* pMemory has no run: INVALID returns from expand, with the lock held.
LayoutFailed(c) ==
  /\ pc[c] = "layout"
  /\ \A z \in BlockSizes, q \in 1 .. NumPages : ~Available(c, z, q)
  /\ supply' = supply \cup OldPage
  /\ data' = 0
  /\ Goto(c, AfterExpand(c))
  /\ UNCHANGED <<blocks, head, tail, pages, expanded, lock, call, walkVars, ghostVars>>

\* Line 210, without the lock; then malloc starts again.
SetExpanded(c) ==
  /\ pc[c] = "setExpanded"
  /\ expanded' = TRUE
  /\ call' = [call EXCEPT ![c].retry = FALSE]
  /\ Goto(c, "malloc")
  /\ UNCHANGED <<heapVars, lock, supply, walkVars, ghostVars>>

-----------------------------------------------------------------------------
(* malloc *)

\* Line 178, without the lock: the first allocation lays the heap out.
MallocEntry(c) ==
  /\ pc[c] = "malloc"
  /\ IF data = 0
       THEN /\ call' = [call EXCEPT ![c].grow = InitPages]
            /\ Goto(c, "expand")
       ELSE Goto(c, "lock") /\ UNCHANGED call
  /\ UNCHANGED <<heapVars, expanded, lock, supply, walkVars, ghostVars>>

MallocLock(c) ==
  /\ pc[c] = "lock"
  /\ ~lock
  /\ lock' = TRUE
  /\ want' = required_size(call[c].size)
  /\ again' = FALSE
  /\ Goto(c, "find")
  /\ UNCHANGED <<heapVars, expanded, supply, call, blk, tmp, best, noco, ghostVars>>

\* Lines 40-46.  A heap that is one free block is not walked.
FindStart(c) ==
  /\ pc[c] = "find"
  /\ blk' = head
  /\ tmp' = next(blocks, head)
  /\ IF next(blocks, head) = tail /\ blocks[head].free
       THEN /\ best' = IF want <= blocks[head].size THEN head ELSE 0
            /\ Goto(c, IF want <= blocks[head].size THEN "split" ELSE "miss")
       ELSE best' = 0 /\ Goto(c, "walk")
  /\ UNCHANGED <<heapVars, expanded, lock, supply, call, want, noco, again, ghostVars>>

InWalk == blk < tail /\ tmp < tail

Mergeable == blocks[blk].free /\ blocks[tmp].free /\ blocks[blk].size = blocks[tmp].size

\* blk grows over tmp, whose header is gone.
Merged ==
  [b \in DOMAIN blocks \ {tmp} |->
     IF b = blk THEN [blocks[b] EXCEPT !.size = 2 * @] ELSE blocks[b]]

\* Mutant: tmp is not moved.
AdvanceBlockOnly(bs, b) == blk' = next(bs, b) /\ tmp' = tmp

\* block = next(b), and tmp = next(block) if there is one.
Advance(bs, b) ==
  /\ blk' = next(bs, b)
  /\ tmp' = IF next(bs, b) < tail THEN next(bs, next(bs, b)) ELSE tmp

Better(bs, b, strict) ==
  /\ bs[b].free /\ want <= bs[b].size
  /\ best = 0 \/ bs[b].size < bs[best].size \/ (~strict /\ bs[b].size = bs[best].size)

\* Lines 49-63.
WalkMerge(c) ==
  /\ pc[c] = "walk" /\ InWalk /\ Mergeable
  /\ blocks' = Merged
  /\ best' = IF Better(Merged, blk, FALSE) THEN blk ELSE best
  /\ Advance(Merged, blk)
  /\ UNCHANGED <<head, tail, data, pages, expanded, lock, supply, pc, call,
                 want, noco, again, ghostVars>>

\* Lines 65-82.  tmp is compared with the best block so far, which may be blk.
WalkPass(c) ==
  /\ pc[c] = "walk" /\ InWalk /\ ~Mergeable
  /\ LET first == IF Better(blocks, blk, FALSE) THEN blk ELSE best
         tmpBetter == /\ blocks[tmp].free /\ want <= blocks[tmp].size
                      /\ first = 0 \/ blocks[tmp].size < blocks[first].size
     IN  best' = IF tmpBetter THEN tmp ELSE first
  /\ IF blocks[blk].size <= blocks[tmp].size
       THEN Advance(blocks, tmp)
       ELSE blk' = tmp /\ tmp' = next(blocks, tmp)
  /\ UNCHANGED <<heapVars, expanded, lock, supply, pc, call, want, noco, again, ghostVars>>

WalkEnd(c) ==
  /\ pc[c] = "walk" /\ ~InWalk
  /\ Goto(c, IF best # 0 THEN "split" ELSE "miss")
  /\ UNCHANGED <<heapVars, expanded, lock, supply, call, walkVars, ghostVars>>

\* Mutant: the second half gets no header.
SplitFirstHalf(c) ==
  LET sz == blocks[best].size \div 2
  IN  /\ pc[c] = "split"
      /\ want < blocks[best].size
      /\ blocks' = [blocks EXCEPT ![best].size = sz]
      /\ UNCHANGED <<head, tail, data, pages, expanded, lock, supply, pc, call,
                     walkVars, ghostVars>>

\* Lines 19-25: halve the block and go on with the second half.
SplitHalf(c) ==
  LET sz == blocks[best].size \div 2
      second == best + sz
  IN  /\ pc[c] = "split"
      /\ want < blocks[best].size
      /\ blocks' = [b \in DOMAIN blocks \cup {second} |->
                      IF b = best THEN [blocks[b] EXCEPT !.size = sz]
                      ELSE IF b = second THEN [size |-> sz, free |-> TRUE]
                      ELSE blocks[b]]
      /\ best' = second
      /\ UNCHANGED <<head, tail, data, pages, expanded, lock, supply, pc, call,
                     blk, tmp, want, noco, again, ghostVars>>

\* The end of a malloc that found a block; realloc goes on to free the old pointer.
MallocDone(c) ==
  /\ lock' = FALSE
  /\ live' = live \cup {[ptr |-> best + 1, size |-> want, gen |-> gen]}
  /\ IF call[c].old = None
       THEN Goto(c, "idle") /\ call' = [call EXCEPT ![c] = NoCall]
       ELSE Goto(c, "free") /\ call' = [call EXCEPT ![c].size = 0]
  /\ UNCHANGED <<head, tail, data, pages, supply, walkVars, gen, hitStale>>

\* Mutant: the block is not marked used.
MallocReturnFree(c) ==
  /\ pc[c] = "split"
  /\ want >= blocks[best].size
  /\ expanded' = FALSE
  /\ UNCHANGED blocks
  /\ MallocDone(c)

\* Mutant: expanded is not reset.
MallocReturnExpanded(c) ==
  /\ pc[c] = "split"
  /\ want >= blocks[best].size
  /\ blocks' = [blocks EXCEPT ![best].free = FALSE]
  /\ UNCHANGED expanded
  /\ MallocDone(c)

(***************************************************************************)
(* Lines 27-28 and 192-197: the block is handed out.                       *)
(***************************************************************************)
MallocReturn(c) ==
  /\ pc[c] = "split"
  /\ want >= blocks[best].size
  /\ blocks' = [blocks EXCEPT ![best].free = FALSE]
  /\ expanded' = FALSE
  /\ MallocDone(c)

-----------------------------------------------------------------------------
(* Nothing found: coalesce and look again, expand and start again, give up. *)

MissOnce(c) ==
  /\ pc[c] = "miss" /\ ~again
  /\ again' = TRUE
  /\ Goto(c, "coalesce")
  /\ UNCHANGED <<heapVars, expanded, lock, supply, call, blk, tmp, best, want, noco, ghostVars>>

MissAndExpand(c) ==
  /\ pc[c] = "miss" /\ again /\ ~expanded
  /\ lock' = FALSE
  /\ call' = [call EXCEPT ![c].grow = call[c].size \div PageUnits + 1, ![c].retry = TRUE]
  /\ Goto(c, "expand")
  /\ UNCHANGED <<heapVars, expanded, supply, walkVars, ghostVars>>

\* malloc returns nullptr, and realloc the pointer it was given.
MissAndFail(c) ==
  /\ pc[c] = "miss" /\ again /\ expanded
  /\ expanded' = FALSE
  /\ lock' = FALSE
  /\ call' = [call EXCEPT ![c] = NoCall]
  /\ Goto(c, "idle")
  /\ UNCHANGED <<heapVars, supply, walkVars, ghostVars>>

-----------------------------------------------------------------------------
(* coalescence *)

CoalesceStart(c) ==
  /\ pc[c] = "coalesce"
  /\ blk' = head
  /\ tmp' = next(blocks, head)
  /\ noco' = TRUE
  /\ Goto(c, "merge")
  /\ UNCHANGED <<heapVars, expanded, lock, supply, call, best, want, again, ghostVars>>

CoalesceMerge(c) ==
  /\ pc[c] = "merge" /\ InWalk /\ Mergeable
  /\ blocks' = Merged
  /\ Advance(Merged, blk)
  /\ noco' = IF blk' < tail THEN FALSE ELSE noco
  /\ UNCHANGED <<head, tail, data, pages, expanded, lock, supply, pc, call,
                 best, want, again, ghostVars>>

CoalescePass(c) ==
  /\ pc[c] = "merge" /\ InWalk /\ ~Mergeable
  /\ IF blocks[blk].size < blocks[tmp].size
       THEN blk' = tmp /\ tmp' = next(blocks, tmp)
       ELSE Advance(blocks, tmp)
  /\ UNCHANGED <<heapVars, expanded, lock, supply, pc, call, best, want, noco, again, ghostVars>>

CoalesceAgain(c) ==
  /\ pc[c] = "merge" /\ ~InWalk /\ ~noco
  /\ Goto(c, "coalesce")
  /\ UNCHANGED <<heapVars, expanded, lock, supply, call, walkVars, ghostVars>>

\* Mutant: free returns with the lock held.
CoalesceEndLocked(c) ==
  /\ pc[c] = "merge" /\ ~InWalk /\ noco
  /\ IF call[c].size > 0
       THEN Goto(c, "find") /\ UNCHANGED call
       ELSE Goto(c, "idle") /\ call' = [call EXCEPT ![c] = NoCall]
  /\ UNCHANGED <<heapVars, expanded, lock, supply, walkVars, ghostVars>>

\* The caller of coalescence goes on: malloc searches again, free unlocks.
CoalesceEnd(c) ==
  /\ pc[c] = "merge" /\ ~InWalk /\ noco
  /\ IF call[c].size > 0
       THEN Goto(c, "find") /\ UNCHANGED <<lock, call>>
       ELSE Goto(c, "idle") /\ lock' = FALSE /\ call' = [call EXCEPT ![c] = NoCall]
  /\ UNCHANGED <<heapVars, expanded, supply, walkVars, ghostVars>>

-----------------------------------------------------------------------------
(* free.  Its two range checks read head and tail without the lock. *)

FreeReturns(c) ==
  /\ Goto(c, "idle")
  /\ call' = [call EXCEPT ![c] = NoCall]
  /\ live' = live \ {call[c].old}

FreeNothing(c) ==
  /\ \/ pc[c] = "free" /\ (data = 0 \/ ~(head <= call[c].old.ptr))
     \/ pc[c] = "freeTail" /\ ~(call[c].old.ptr < tail)
  /\ FreeReturns(c)
  /\ UNCHANGED <<heapVars, expanded, lock, supply, walkVars, gen, hitStale>>

FreeCheckHead(c) ==
  /\ pc[c] = "free" /\ data # 0 /\ head <= call[c].old.ptr
  /\ Goto(c, "freeTail")
  /\ UNCHANGED <<heapVars, expanded, lock, supply, call, walkVars, ghostVars>>

FreeCheckTail(c) ==
  /\ pc[c] = "freeTail" /\ call[c].old.ptr < tail
  /\ Goto(c, "freeLock")
  /\ UNCHANGED <<heapVars, expanded, lock, supply, call, walkVars, ghostVars>>

(***************************************************************************)
(* Lines 265-268.  If the heap was laid out anew since the pointer was     *)
(* returned, the header is not one of this heap's, unless the old page has *)
(* come back as part of it.                                                *)
(***************************************************************************)
FreeMark(c) ==
  LET b == call[c].old.ptr - 1 IN
  /\ pc[c] = "freeLock"
  /\ ~lock
  /\ lock' = TRUE
  /\ blocks' = IF b \in DOMAIN blocks THEN [blocks EXCEPT ![b].free = TRUE] ELSE blocks
  /\ hitStale' = (hitStale \/ (b \in DOMAIN blocks /\ call[c].old.gen # gen))
  /\ live' = live \ {call[c].old}
  /\ Goto(c, "coalesce")
  /\ UNCHANGED <<head, tail, data, pages, expanded, supply, call, walkVars, gen>>

-----------------------------------------------------------------------------
Call(c) ==
  \/ \E s \in Sizes : MallocCall(c, s)
  \/ \E l \in live \ InUse : FreeCall(c, l)
  \/ \E l \in live \ InUse, s \in Sizes : ReallocCall(c, l, s)
  \/ \E n \in Totals : SetSizeCall(c, n)

Step(c) ==
  \/ ExpandLock(c) \/ Layout(c) \/ LayoutFailed(c) \/ SetExpanded(c)
  \/ MallocEntry(c) \/ MallocLock(c) \/ FindStart(c)
  \/ WalkMerge(c) \/ WalkPass(c) \/ WalkEnd(c)
  \/ SplitHalf(c) \/ MallocReturn(c)
  \/ MissOnce(c) \/ MissAndExpand(c) \/ MissAndFail(c)
  \/ CoalesceStart(c) \/ CoalesceMerge(c) \/ CoalescePass(c)
  \/ CoalesceAgain(c) \/ CoalesceEnd(c)
  \/ FreeNothing(c) \/ FreeCheckHead(c) \/ FreeCheckTail(c) \/ FreeMark(c)

Next == \E c \in Cpus : Call(c) \/ Step(c)

\* Every CPU keeps executing; who gets the lock next is up to the hardware.
Fairness == \A c \in Cpus : WF_vars(Step(c))

Spec == Init /\ [][Next]_vars /\ Fairness

-----------------------------------------------------------------------------

Labels == {"idle", "malloc", "expand", "layout", "setExpanded", "lock", "find",
           "walk", "split", "miss", "coalesce", "merge",
           "free", "freeTail", "freeLock"}

Pointer == [ptr : 1 .. Top, size : BlockSizes, gen : Nat]

CallRecord ==
  [size : Sizes \cup {0}, old : Pointer \cup {None}, grow : Nat, retry : BOOLEAN]

TypeOK ==
  /\ DOMAIN blocks \subseteq 1 .. Top
  /\ blocks \in [DOMAIN blocks -> [size : BlockSizes, free : BOOLEAN]]
  /\ head \in 0 .. Top /\ tail \in 0 .. Top /\ data \in {0, head} /\ pages \in Nat
  /\ expanded \in BOOLEAN /\ lock \in BOOLEAN
  /\ supply \subseteq 1 .. NumPages
  /\ pc \in [Cpus -> Labels]
  /\ call \in [Cpus -> CallRecord]
  /\ blk \in 0 .. Top /\ tmp \in 0 .. Top /\ best \in 0 .. Top
  /\ want \in BlockSizes \cup {0}
  /\ noco \in BOOLEAN /\ again \in BOOLEAN
  /\ live \subseteq Pointer
  /\ gen \in Nat /\ hitStale \in BOOLEAN

Critical == {"layout", "find", "walk", "split", "miss", "coalesce", "merge"}

(***************************************************************************)
(* The lock protects the block list: at most one CPU is inside expand,     *)
(* find_best, split or coalescence, and the lock is taken while it is.     *)
(***************************************************************************)
MutualExclusion ==
  /\ \A c, d \in Cpus : pc[c] \in Critical /\ pc[d] \in Critical => c = d
  /\ (\E c \in Cpus : pc[c] \in Critical) => lock

(***************************************************************************)
(* Whatever splits, merges and expansions happen, and also in the middle   *)
(* of a walk, the blocks tile the heap: the first starts at head, each one *)
(* ends where another starts or at tail, and no two overlap.               *)
(***************************************************************************)
Tiled ==
  head # 0 =>
    /\ head \in DOMAIN blocks
    /\ \A b \in DOMAIN blocks :
         /\ head <= b
         /\ next(blocks, b) = tail \/ next(blocks, b) \in DOMAIN blocks
    /\ \A b, d \in DOMAIN blocks : b < d => next(blocks, b) <= d

(***************************************************************************)
(* A walk never reads a header that is not a block's: blk and tmp are      *)
(* adjacent blocks, and the candidate for the allocation is a free block   *)
(* that is large enough, even when the walk has merged blocks around it.   *)
(***************************************************************************)
WalkReadsHeaders ==
  \A c \in Cpus :
    /\ pc[c] \in {"walk", "merge"} /\ blk < tail =>
         /\ blk \in DOMAIN blocks
         /\ tmp = next(blocks, blk)
    /\ pc[c] \in {"walk", "split"} /\ best # 0 =>
         best \in DOMAIN blocks /\ blocks[best].free /\ blocks[best].size >= want

(***************************************************************************)
(* A pointer malloc has returned since the heap was last laid out is the   *)
(* payload of a block that is in use and has the size that was asked for,  *)
(* until it is freed.  With Tiled: memory in use is never handed out or    *)
(* merged.  (Unless a pointer from before an expansion was freed into a    *)
(* page that has become part of the heap again.)                           *)
(***************************************************************************)
LivePointersSafe ==
  ~hitStale =>
    \A l \in live : l.gen = gen =>
      /\ l.ptr - 1 \in DOMAIN blocks
      /\ ~blocks[l.ptr - 1].free
      /\ blocks[l.ptr - 1].size = l.size

(***************************************************************************)
(* After expand the retry finds a block: with calls that do not overlap    *)
(* malloc never gives up once pMemory has provided the pages.              *)
(***************************************************************************)
RetryFinds == [][\A c \in Cpus : ~MissAndFail(c)]_vars

(***************************************************************************)
(* Every walk ends and every call returns, as long as pMemory has a run of *)
(* pages when the heap needs one.                                          *)
(***************************************************************************)
CallsReturnWhileMemoryLasts ==
  \A c \in Cpus : (pc[c] # "idle") ~> (pc[c] = "idle" \/ data = 0)

=============================================================================
