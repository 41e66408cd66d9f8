---------------------------- MODULE MCScheduler -----------------------------
(* Instances of Scheduler for TLC.  Slots are interchangeable; symmetry is *)
(* used in the runs that check no liveness property.                       *)
EXTENDS Scheduler, TLC

Slots == Permutations(Threads) \cup Permutations(Procs)
=============================================================================
