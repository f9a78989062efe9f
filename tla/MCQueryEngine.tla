---------------------------- MODULE MCQueryEngine ----------------------------
(***************************************************************************)
(* Small query systems for QueryEngine: what the nodes read and return.    *)
(***************************************************************************)
EXTENDS QueryEngine, TLC

CONSTANTS t1, t2

MCThreads == {t1, t2}
ThreadSymmetry == Permutations(MCThreads)
MCDone == 0

(* Node 1 is an input; 2 folds its values onto two; 3 reads 2 and, when    *)
(* that is 1, also reads 1; 4 reads 3 and has no fingerprint.              *)
DiamondNodes == 1 .. 3
TowerNodes == 1 .. 4
DiamondReads(n, reads) ==
    CASE n = 1 -> MCDone
      [] n = 2 -> IF Len(reads) = 0 THEN 1 ELSE MCDone
      [] n = 3 -> IF Len(reads) = 0 THEN 2
                  ELSE IF Len(reads) = 1 /\ reads[1] = 1 THEN 1 ELSE MCDone
      [] n = 4 -> IF Len(reads) = 0 THEN 3 ELSE MCDone
DiamondProvide(n, context, reads) ==
    CASE n = 1 -> context
      [] n = 2 -> IF reads[1] = 0 THEN 0 ELSE 1
      [] n \in {3, 4} -> reads[Len(reads)]

TowerPolicy == (1 :> "StableValue") @@ (2 :> "SemanticValue") @@ (3 :> "SemanticValue") @@ (4 :> "None")

(* The same reads with a value in the middle that has no fingerprint. *)
OpaquePolicy == (1 :> "StableValue") @@ (2 :> "None") @@ (3 :> "SemanticValue")

(* Three nodes that read each other in a circle. *)
CircleNodes == 1 .. 3
CircleReads(n, reads) == IF Len(reads) = 1 THEN MCDone ELSE (n % 3) + 1
ConstantProvide(n, context, reads) == 0

(* 2 reads the input 1 and, when that is 1, also 3, which reads 2 back:    *)
(* whether the queries are circular depends on the input.                  *)
KnotReads(n, reads) ==
    CASE n = 1 -> MCDone
      [] n = 2 -> IF Len(reads) = 0 THEN 1
                  ELSE IF Len(reads) = 1 /\ reads[1] = 1 THEN 3 ELSE MCDone
      [] n = 3 -> IF Len(reads) = 0 THEN 2 ELSE MCDone
KnotProvide(n, context, reads) == IF n = 1 THEN context ELSE reads[Len(reads)]

CirclePolicy == [n \in CircleNodes |-> "SemanticValue"]

=============================================================================
