---------------------------- MODULE TurboVector -----------------------------
(***************************************************************************)
(* The operations of lib/TurboVector/TurboVector.hpp the scheduler uses.   *)
(* data is all that was ever stored, length how much of it counts: what    *)
(* lies behind length stays in memory and counts again when length grows.  *)
(* Positions count from 0, as in the code; data is a sequence, from 1.     *)
(***************************************************************************)
EXTENDS Integers, Sequences

Vector(S) == { v \in [data : Seq(S), length : Nat] : v.length <= Len(v.data) }

Empty == [data |-> << >>, length |-> 0]

NotFound == -1

\* What the vector holds.
Listed(v) == { v.data[i] : i \in 1 .. v.length }

(***************************************************************************)
(* find(thing): the loop compares data with data + index, not the element  *)
(* with thing, so the answer is 0 for every vector that is not empty.      *)
(***************************************************************************)
find(v, thing) == IF v.length > 0 THEN 0 ELSE NotFound

(***************************************************************************)
(* remove(position): the loop moves length - 2 elements down by one,       *)
(* starting at position, and shortens the vector.  For position 0 the last *)
(* element goes and the one before it stays twice.                         *)
(***************************************************************************)
remove(v, position) ==
  [data |-> [i \in 1 .. Len(v.data) |->
               IF i - 1 \in position .. position + v.length - 3 THEN v.data[i + 1] ELSE v.data[i]],
   length |-> v.length - 1]

(***************************************************************************)
(* push_back(item), once it has read the length n: item goes to the slot   *)
(* behind n elements, and the length becomes n + 1, whatever it is by now. *)
(* The optimiser keeps n in a register.  Slots below n that this vector    *)
(* never stored to hold whatever is in memory, fill.                       *)
(***************************************************************************)
push_back(v, n, item, fill) ==
  [data |-> [i \in 1 .. IF n < Len(v.data) THEN Len(v.data) ELSE n + 1 |->
               IF i = n + 1 THEN item
               ELSE IF i <= Len(v.data) THEN v.data[i] ELSE fill[i]],
   length |-> n + 1]

\* The slots fill stands for.
Unwritten(v, n) == Len(v.data) + 1 .. n

=============================================================================
