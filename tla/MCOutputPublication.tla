------------------------- MODULE MCOutputPublication -------------------------
(* Processes and outputs for checking OutputPublication. *)
EXTENDS OutputPublication, TLC

CONSTANTS p1, p2, absent, none

(* Build processes are interchangeable; used for safety only. *)
Symmetry == Permutations(Procs)

=============================================================================
