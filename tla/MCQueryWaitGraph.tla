-------------------------- MODULE MCQueryWaitGraph --------------------------
(* Model values and symmetry for checking the wait-for graph. *)
EXTENDS QueryWaitPath, TLC

CONSTANTS n1, n2, n3, n4, w1, w2, w3, w4

Symmetry == Permutations(Waiters)

=============================================================================
