----------------------------- MODULE MCPageScan -----------------------------
(* PageScan over every bitmap of five pages, every cursor, limit and count. *)
EXTENDS PageScan
=============================================================================
