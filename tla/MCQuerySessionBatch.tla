------------------------ MODULE MCQuerySessionBatch ------------------------
(* Model values for checking QuerySessionBatch. *)
EXTENDS QuerySessionBatch

CONSTANTS owner, other, worker, nobody

=============================================================================
