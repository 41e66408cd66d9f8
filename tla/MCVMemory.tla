----------------------------- MODULE MCVMemory ------------------------------
EXTENDS VMemory, TLC
DefaultFlags == { {"present", "rw"} }
\* Both properties except what follows: it is not explored.
Intact == ~Lossy /\ ~atNull
Symmetry == Permutations(CPUs) \cup Permutations(Maps)
=============================================================================
