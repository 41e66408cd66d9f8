--------------------------- MODULE PageScanProofs ---------------------------
(***************************************************************************)
(* The loop of ohMyAlloc computes the operator ohMyAlloc, for every bitmap,*)
(* cursor, limit and count.                                                *)
(***************************************************************************)
EXTENDS PageScan, WellFoundedInduction, TLAPS

(***************************************************************************)
(* A set of natural numbers that is not empty has a least element.         *)
(***************************************************************************)
LEMMA LeastInSet ==
  ASSUME NEW T, T \subseteq Nat, T # {}
  PROVE  Least(T) \in T /\ \A y \in T : Least(T) <= y
<1>1. PICK x \in T : \A y \in T : ~(<<y, x>> \in OpToRel(<, Nat))
  BY NatLessThanWellFounded, WFMin
<1>2. \A y \in T : x <= y
  <2>1. \A y \in T : ~(y < x)
    BY <1>1, Zenon DEF OpToRel
  <2>2. QED
    BY <2>1
<1>3. QED
  BY <1>2 DEF Least

(***************************************************************************)
(* A run of which one page is in use is not a free run.                    *)
(***************************************************************************)
LEMMA UsedInRun ==
  ASSUME NEW bm, NEW q \in Int, NEW n \in Int, NEW i \in q .. q + n - 1, bm[i]
  PROVE  ~FreeRun(bm, q, n)
BY DEF FreeRun, Run

(***************************************************************************)
(* The invariant holds when ohMyAlloc is called.                           *)
(***************************************************************************)
LEMMA InitIInv == Init => IInv
<1> SUFFICES ASSUME Init PROVE IInv
  OBVIOUS
<1> USE ScanAssumption
<1>1. TypeOK
  BY DEF Init, TypeOK
<1>2. FreeRun(bits, last - p, p)
  BY DEF Init, FreeRun, Run
<1>3. RunBetween(bits, from, last, count) = {}
  BY DEF Init, RunBetween
<1>4. ScanInv
  BY <1>2, <1>3 DEF Init, ScanInv
<1>5. QED
  BY <1>1, <1>4 DEF Init, IInv, ReturnsLowestRun, FailsOnlyWithoutRun

(***************************************************************************)
(* When the page at last cannot be the end of a free run of count pages,   *)
(* the scan may move on.                                                   *)
(***************************************************************************)
LEMMA NoRunBelow ==
  ASSUME NEW bm, NEW lo \in Nat, NEW hi \in Nat, NEW n \in Nat \ {0},
         RunBetween(bm, lo, hi, n) = {},
         hi + 1 - n >= lo => ~FreeRun(bm, hi + 1 - n, n)
  PROVE  RunBetween(bm, lo, hi + 1, n) = {}
<1> SUFFICES ASSUME NEW q \in lo .. hi + 1 - n, FreeRun(bm, q, n) PROVE FALSE
  BY DEF RunBetween
<1>1. CASE q = hi + 1 - n
  BY <1>1
<1>2. CASE q # hi + 1 - n
  BY <1>2 DEF RunBetween
<1>3. QED
  BY <1>1, <1>2

(***************************************************************************)
(* Each turn of the loop keeps the invariant.                              *)
(***************************************************************************)
LEMMA NextIInv == IInv /\ [Next]_vars => IInv'
<1> SUFFICES ASSUME IInv, [Next]_vars PROVE IInv'
  OBVIOUS
<1> USE ScanAssumption
<1>1. /\ last \in Nat /\ from \in Nat /\ limit \in 0 .. NumPages /\ count \in Nat \ {0}
      /\ p \in Nat /\ NumPages \in Nat
      /\ bits \in [Pages -> BOOLEAN]
  BY DEF IInv, TypeOK
<1>2. CASE ScanHit
  <2>1. /\ pc = "scan" /\ last < limit /\ ~bits[last] /\ bitmap = bits
        /\ p + 1 = count /\ page' = last - p /\ last' = last + 1
        /\ p <= last - from
        /\ RunBetween(bits, from, last, count) = {}
        /\ FreeRun(bits, last - p, p)
    BY <1>1, <1>2 DEF ScanHit, IInv, ScanInv
  <2>2. FreeRun(bits, page', count)
    BY <1>1, <2>1 DEF FreeRun, Run
  <2>3. page' \in RunBetween(bits, from, limit, count)
    BY <1>1, <2>1, <2>2 DEF RunBetween
  <2>4. \A q \in RunBetween(bits, from, limit, count) : page' <= q
    <3> SUFFICES ASSUME NEW q \in from .. limit - count, FreeRun(bits, q, count), ~(page' <= q)
                 PROVE  FALSE
      BY <1>1, <2>1 DEF RunBetween
    <3>1. q \in RunBetween(bits, from, last, count)
      BY <1>1, <2>1 DEF RunBetween
    <3>2. QED
      BY <2>1, <3>1
  <2>5. bitmap' = SetRange(bits, page', count, TRUE) /\ UNCHANGED <<limit, count, from, bits>>
    BY <1>2, <2>1 DEF ScanHit
  <2>6. last' = page' + count' /\ page' \in Nat /\ page' < NumPages
    BY <1>1, <2>1, <2>5
  <2>7. TypeOK'
    <3>1. bitmap' \in [Pages -> BOOLEAN]
      BY <1>1, <2>5 DEF SetRange
    <3>2. p' \in 0 .. NumPages /\ last' \in 0 .. NumPages /\ page' \in -1 .. NumPages - 1
      BY <1>1, <1>2, <2>1, <2>6 DEF ScanHit
    <3>3. pc' = "done"
      BY <1>2 DEF ScanHit
    <3>4. QED
      BY <2>5, <3>1, <3>2, <3>3 DEF IInv, TypeOK
  <2>8. ReturnsLowestRun'
    BY <2>3, <2>4, <2>5, <2>6 DEF ReturnsLowestRun
  <2>9. page' # -1 /\ pc' = "done"
    BY <1>2, <2>6 DEF ScanHit
  <2>10. QED
    BY <2>7, <2>8, <2>9 DEF IInv, ScanInv, FailsOnlyWithoutRun
<1>3. CASE ScanFree
  <2>1. /\ pc = "scan" /\ last < limit /\ ~bits[last] /\ bitmap = bits
        /\ p + 1 < count /\ from <= last /\ p <= last - from
        /\ FreeRun(bits, last - p, p)
        /\ p = last - from \/ bits[last - p - 1]
        /\ RunBetween(bits, from, last, count) = {}
        /\ last' = last + 1 /\ p' = p + 1
        /\ UNCHANGED <<bitmap, limit, count, from, bits, page, pc>>
    BY <1>1, <1>3 DEF ScanFree, IInv, ScanInv
  <2>2. FreeRun(bits, last' - p', p')
    BY <1>1, <2>1 DEF FreeRun, Run
  <2>3. last + 1 - count >= from => ~FreeRun(bits, last + 1 - count, count)
    <3> SUFFICES ASSUME last + 1 - count >= from
                 PROVE  ~FreeRun(bits, last + 1 - count, count)
      OBVIOUS
    <3>1. bits[last - p - 1] /\ last - p - 1 \in last + 1 - count .. (last + 1 - count) + count - 1
      BY <1>1, <2>1
    <3>2. last + 1 - count \in Int /\ count \in Int
      BY <1>1
    <3>3. QED
      BY <3>1, <3>2, UsedInRun
  <2>4. RunBetween(bits, from, last + 1, count) = {}
    BY <1>1, <2>1, <2>3, NoRunBelow
  <2>5. TypeOK'
    BY <1>1, <2>1 DEF IInv, TypeOK
  <2>6. ScanInv'
    <3>1. p' = last' - from' \/ bits'[last' - p' - 1]
      <4>1. last' - p' - 1 = last - p - 1 /\ last' - from' - p' = last - from - p
        BY <1>1, <2>1
      <4>2. QED
        BY <1>1, <2>1, <4>1
    <3>2. /\ bitmap' = bits' /\ page' = -1
          /\ from' <= last' /\ last' <= limit'
          /\ p' < count' /\ p' <= last' - from'
      BY <1>1, <2>1 DEF IInv, ScanInv
    <3>3. QED
      BY <2>1, <2>2, <2>4, <3>1, <3>2 DEF ScanInv
  <2>7. QED
    BY <2>1, <2>5, <2>6 DEF IInv, ReturnsLowestRun, FailsOnlyWithoutRun
<1>4. CASE ScanUsed
  <2>1. /\ pc = "scan" /\ last < limit /\ bits[last] /\ bitmap = bits /\ from <= last
        /\ RunBetween(bits, from, last, count) = {}
        /\ last' = last + 1 /\ p' = 0
        /\ UNCHANGED <<bitmap, limit, count, from, bits, page, pc>>
    BY <1>4 DEF ScanUsed, IInv, ScanInv
  <2>2. ~FreeRun(bits, last + 1 - count, count)
    BY <1>1, <2>1 DEF FreeRun, Run
  <2>3. RunBetween(bits, from, last + 1, count) = {}
    BY <1>1, <2>1, <2>2, NoRunBelow
  <2>4. TypeOK'
    BY <1>1, <2>1 DEF IInv, TypeOK
  <2>5. ScanInv'
    <3>1. FreeRun(bits, last' - p', p')
      BY <1>1, <2>1 DEF FreeRun, Run
    <3>2. bits'[last' - p' - 1]
      BY <1>1, <2>1
    <3>3. /\ bitmap' = bits' /\ page' = -1
          /\ from' <= last' /\ last' <= limit'
          /\ p' < count' /\ p' <= last' - from'
      BY <1>1, <2>1 DEF IInv, ScanInv
    <3>4. QED
      BY <2>1, <2>3, <3>1, <3>2, <3>3 DEF ScanInv
  <2>6. QED
    BY <2>1, <2>4, <2>5 DEF IInv, ReturnsLowestRun, FailsOnlyWithoutRun
<1>5. CASE ScanEnd
  <2>1. /\ pc = "scan" /\ ~(last < limit) /\ bitmap = bits /\ page = -1
        /\ from <= last /\ (last <= limit \/ last = from)
        /\ RunBetween(bits, from, last, count) = {}
        /\ pc' = "done"
        /\ UNCHANGED <<bitmap, last, limit, count, from, bits, p, page>>
    BY <1>5 DEF ScanEnd, IInv, ScanInv
  <2>2. RunBetween(bits, from, limit, count) = {}
    BY <1>1, <2>1 DEF RunBetween
  <2>3. last = IF from < limit THEN limit ELSE from
    BY <1>1, <2>1
  <2>4. FailsOnlyWithoutRun' /\ ReturnsLowestRun' /\ ScanInv'
    BY <2>1, <2>2, <2>3 DEF FailsOnlyWithoutRun, ReturnsLowestRun, ScanInv
  <2>5. QED
    BY <2>1, <2>4 DEF IInv, TypeOK
<1>6. CASE UNCHANGED vars
  BY <1>6 DEF vars, IInv, TypeOK, ScanInv, ReturnsLowestRun, FailsOnlyWithoutRun
<1>7. QED
  BY <1>2, <1>3, <1>4, <1>5, <1>6 DEF Next

(***************************************************************************)
(* In a state of the invariant in which the scan has returned, its result  *)
(* is the operator's.                                                      *)
(***************************************************************************)
LEMMA ResultIsOperator == IInv => LoopIsOperator
<1> SUFFICES ASSUME IInv, pc = "done"
             PROVE  [bitmap |-> bitmap, last |-> last, page |-> page]
                      = ohMyAlloc(bits, from, limit, count)
  BY DEF LoopIsOperator
<1> DEFINE runs == RunBetween(bits, from, limit, count)
<1>1. CASE page = -1
  BY <1>1 DEF IInv, FailsOnlyWithoutRun, ohMyAlloc
<1>2. CASE page # -1
  <2>1. /\ page \in runs /\ \A q \in runs : page <= q
        /\ bitmap = SetRange(bits, page, count, TRUE) /\ last = page + count
    BY <1>2 DEF IInv, ReturnsLowestRun
  <2>2. runs \subseteq Nat /\ runs # {}
    BY <2>1, ScanAssumption DEF IInv, TypeOK, RunBetween
  <2>3. Least(runs) \in runs /\ \A q \in runs : Least(runs) <= q
    BY <2>2, LeastInSet
  <2> HIDE DEF runs
  <2>4. page = Least(runs)
    <3>1. PICK q : q = Least(runs)
      OBVIOUS
    <3>2. page <= q /\ q <= page /\ page \in Nat /\ q \in Nat
      BY <2>1, <2>2, <2>3, <3>1
    <3>3. QED
      BY <3>1, <3>2
  <2>5. QED
    BY <2>1, <2>2, <2>4 DEF ohMyAlloc, runs
<1>3. QED
  BY <1>1, <1>2

(***************************************************************************)
(* Whenever the loop of ohMyAlloc returns, bitmap, cursor and pointer are  *)
(* what the operator ohMyAlloc, which module PMemory is built on, says.    *)
(***************************************************************************)
THEOREM LoopComputesOperator == Spec => []LoopIsOperator
<1>1. Spec => []IInv
  BY InitIInv, NextIInv, PTL DEF Spec
<1>2. QED
  BY <1>1, ResultIsOperator, PTL

=============================================================================
