----------------------------- MODULE PageBitmap -----------------------------
(***************************************************************************)
(* The page bitmap of system/memory/bitmap/bitmap.cpp and the two searches *)
(* system/memory/pMemory/pMemory.cpp makes in it, as operators.  A bitmap  *)
(* is a function from page numbers to BOOLEAN; TRUE is a page in use.      *)
(***************************************************************************)
EXTENDS Integers

\* The n pages from page q on.
Run(q, n) == q .. q + n - 1

FreeRun(bm, q, n) == \A i \in Run(q, n) : ~bm[i]

\* The runs of n free pages that lie in from .. limit-1, by first page.
RunBetween(bm, from, limit, n) ==
  { q \in from .. limit - n : FreeRun(bm, q, n) }

\* Mutant: the loop over the run stops one page early.
SetRangeShort(bm, q, n, value) ==
  [i \in DOMAIN bm |-> IF i \in Run(q, n - 1) THEN value ELSE bm[i]]

\* bitmap.set(i, value) for every page i of a run.
SetRange(bm, q, n, value) ==
  [i \in DOMAIN bm |-> IF i \in Run(q, n) THEN value ELSE bm[i]]

Least(S) == CHOOSE x \in S : \A y \in S : x <= y

(***************************************************************************)
(* One scan, from the cursor up to the limit: the bitmap and the cursor it *)
(* leaves and the first page of the run, -1 for nullptr.  Module PageScan  *)
(* has the loop itself and shows that this is what it computes.            *)
(***************************************************************************)
ohMyAlloc(bm, cursor, limit, n) ==
  IF RunBetween(bm, cursor, limit, n) # {}
    THEN LET q == Least(RunBetween(bm, cursor, limit, n))
         IN  [bitmap |-> SetRange(bm, q, n, TRUE), last |-> q + n, page |-> q]
    ELSE [bitmap |-> bm,
          last |-> IF cursor < limit THEN limit ELSE cursor,
          page |-> -1]

\* Mutant: the second scan forgets to rewind the cursor.
SearchNoRewind(bm, cursor, top, n) ==
  LET first == ohMyAlloc(bm, cursor, top, n)
  IN  IF first.page > 0 THEN first ELSE ohMyAlloc(first.bitmap, first.last, cursor, n)

(***************************************************************************)
(* The search of alloc: from the cursor to the end of memory and, if that  *)
(* finds nothing, from page 0 up to where the first scan had started.      *)
(* The caller tests the pointer: page 0 is nullptr too.                    *)
(***************************************************************************)
Search(bm, cursor, top, n) ==
  LET first == ohMyAlloc(bm, cursor, top, n)
  IN  IF first.page > 0 THEN first ELSE ohMyAlloc(first.bitmap, 0, cursor, n)

=============================================================================
