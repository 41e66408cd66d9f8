------------------------------ MODULE MCPMemory -----------------------------
(* Instances of PMemory for TLC. *)
EXTENDS PMemory, TLC

=============================================================================
