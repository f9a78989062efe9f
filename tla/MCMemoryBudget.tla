--------------------------- MODULE MCMemoryBudget ---------------------------
(* Model values for checking MemoryBudget. *)
EXTENDS MemoryBudget

CONSTANTS t1, t2, t3, t4, unknown

(* Plenty, too little, and not readable; memory in units of a lane. *)
MCAvailable == {0, 2, unknown}

=============================================================================
