------------------------------- MODULE MCBoot -------------------------------
(* Three CPUs: the boot CPU, at any position, and two others; LAPIC IDs in *)
(* the order of the CPUs, shifted, or with gaps.                           *)
EXTENDS Boot

Orders == { [c \in CPU |-> c], [c \in CPU |-> (c + 1) % N], [c \in CPU |-> 2 * c] }
=============================================================================
