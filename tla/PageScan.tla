------------------------------ MODULE PageScan ------------------------------
(***************************************************************************)
(* The scan of the physical page bitmap, ohMyAlloc in                      *)
(* system/memory/pMemory/pMemory.cpp, one action per turn of its loop.     *)
(*                                                                         *)
(*   while(last < limit){                                                  *)
(*     if(!bitmap[last++]){ if(++p == count){ ... return page; } }         *)
(*     else { p = 0; }                                                     *)
(*   }                                                                     *)
(*                                                                         *)
(* The scan runs with mmLock held, so nothing interleaves with it.  It is  *)
(* shown to compute PageBitmap's ohMyAlloc, which module PMemory calls.    *)
(***************************************************************************)
EXTENDS PageBitmap

CONSTANTS
  NumPages,   \* pages the bitmap describes: highPage / 0x1000
  MaxCount    \* largest number of pages one call asks for

ASSUME ScanAssumption ==
  /\ NumPages \in Nat
  /\ MaxCount \in Nat \ {0}

Pages == 0 .. NumPages - 1

VARIABLES
  bitmap,  \* TRUE: the page is in use
  last,    \* the cursor the allocator keeps between calls
  limit,   \* argument
  count,   \* argument
  from,    \* the value of last when the call started
  bits,    \* the bitmap when the call started
  p,       \* length of the free run that ends just below last
  page,    \* the run that was returned, -1 while there is none
  pc

vars == <<bitmap, last, limit, count, from, bits, p, page, pc>>

Init ==
  /\ bitmap \in [Pages -> BOOLEAN]
  /\ limit \in 0 .. NumPages
  /\ last \in 0 .. NumPages
  /\ count \in 1 .. MaxCount
  /\ from = last
  /\ bits = bitmap
  /\ p = 0
  /\ page = -1
  /\ pc = "scan"

\* A free bit that completes the run: mark the run and return it.
ScanHit ==
  /\ pc = "scan" /\ last < limit
  /\ ~bitmap[last]
  /\ p + 1 = count
  /\ last' = last + 1
  /\ p' = p + 1
  /\ page' = last' - count
  /\ bitmap' = SetRange(bitmap, page', count, TRUE)
  /\ pc' = "done"
  /\ UNCHANGED <<limit, count, from, bits>>

\* A free bit that only makes the run longer.
ScanFree ==
  /\ pc = "scan" /\ last < limit
  /\ ~bitmap[last]
  /\ p + 1 # count
  /\ last' = last + 1
  /\ p' = p + 1
  /\ UNCHANGED <<bitmap, limit, count, from, bits, page, pc>>

\* Mutant: a used bit leaves p alone.
ScanUsedKeepsRun ==
  /\ pc = "scan" /\ last < limit
  /\ bitmap[last]
  /\ last' = last + 1
  /\ UNCHANGED <<bitmap, limit, count, from, bits, p, page, pc>>

\* Mutant: a used bit does not move the cursor.
ScanUsedStays ==
  /\ pc = "scan" /\ last < limit
  /\ bitmap[last]
  /\ p' = 0
  /\ UNCHANGED <<bitmap, last, limit, count, from, bits, page, pc>>

\* A used bit ends the run.
ScanUsed ==
  /\ pc = "scan" /\ last < limit
  /\ bitmap[last]
  /\ last' = last + 1
  /\ p' = 0
  /\ UNCHANGED <<bitmap, limit, count, from, bits, page, pc>>

\* The loop condition fails: return nullptr.
ScanEnd ==
  /\ pc = "scan" /\ ~(last < limit)
  /\ pc' = "done"
  /\ UNCHANGED <<bitmap, last, limit, count, from, bits, p, page>>

Next == ScanHit \/ ScanFree \/ ScanUsed \/ ScanEnd

Spec == Init /\ [][Next]_vars /\ WF_vars(Next)

-----------------------------------------------------------------------------
TypeOK ==
  /\ bitmap \in [Pages -> BOOLEAN] /\ bits \in [Pages -> BOOLEAN]
  /\ last \in 0 .. NumPages /\ limit \in 0 .. NumPages /\ from \in 0 .. NumPages
  /\ count \in 1 .. MaxCount
  /\ p \in 0 .. NumPages
  /\ page \in -1 .. NumPages - 1
  /\ pc \in {"scan", "done"}

(***************************************************************************)
(* When ohMyAlloc returns a page, the run it marked was entirely free,     *)
(* lies between the old cursor and the limit, no lower run of that length  *)
(* does, and no bit outside the run changed.                               *)
(***************************************************************************)
ReturnsLowestRun ==
  pc = "done" /\ page # -1 =>
    /\ page \in RunBetween(bits, from, limit, count)
    /\ \A q \in RunBetween(bits, from, limit, count) : page <= q
    /\ bitmap = SetRange(bits, page, count, TRUE)
    /\ last = page + count

(***************************************************************************)
(* When ohMyAlloc returns nullptr, there was no run to find and the bitmap *)
(* is as it was.                                                           *)
(***************************************************************************)
FailsOnlyWithoutRun ==
  pc = "done" /\ page = -1 =>
    /\ RunBetween(bits, from, limit, count) = {}
    /\ bitmap = bits
    /\ last = IF from < limit THEN limit ELSE from

(***************************************************************************)
(* The loop and the operator agree on everything the caller sees.          *)
(***************************************************************************)
LoopIsOperator ==
  pc = "done" =>
    [bitmap |-> bitmap, last |-> last, page |-> page]
      = ohMyAlloc(bits, from, limit, count)

(***************************************************************************)
(* The loop invariant: p is the length of the free run that ends below     *)
(* last, that run cannot be extended downwards, and no complete run ends   *)
(* at or below last.                                                       *)
(***************************************************************************)
ScanInv ==
  pc = "scan" =>
    /\ bitmap = bits /\ page = -1
    /\ from <= last /\ (last <= limit \/ last = from)
    /\ p < count /\ p <= last - from
    /\ FreeRun(bits, last - p, p)
    /\ p = last - from \/ bits[last - p - 1]
    /\ RunBetween(bits, from, last, count) = {}

IInv == TypeOK /\ ScanInv /\ ReturnsLowestRun /\ FailsOnlyWithoutRun

\* The scan returns.
Terminates == <>(pc = "done")

=============================================================================
