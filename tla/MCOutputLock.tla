----------------------------- MODULE MCOutputLock -----------------------------
(* Processes for checking OutputLock. *)
EXTENDS OutputLock

CONSTANTS p1, p2, none

=============================================================================
