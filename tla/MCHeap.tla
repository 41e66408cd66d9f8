------------------------------- MODULE MCHeap -------------------------------
(* Instances of Heap for TLC.  The CPUs are interchangeable; symmetry is   *)
(* used in the run that checks no liveness property.                       *)
EXTENDS Heap, TLC

CpuSymmetry == Permutations(Cpus)
=============================================================================
