--------------------------- MODULE MCQueryExecutor ---------------------------
(* Executors, batches and threads for checking QueryExecutor. *)
EXTENDS QueryExecutor, TLC

CONSTANTS c1, c2, none

MCWorkers(e) == {e} \X (1 .. Parallelism[e] - 1)

(* Batch 1 of executor 1, which has no worker, has a task that runs batch  *)
(* 2 on executor 2, which has one; a second caller fills a pool of three   *)
(* tasks there.                                                            *)
NestedHome == <<1, 2, 2>>
NestedSize == <<2, 2, 3>>
NestedLanes == <<1, 2>>
NestedChild(task) == IF task = <<1, 1>> THEN 2 ELSE none

(* A task of batch 2 on executor 2, which has no worker, runs batch 1 on   *)
(* executor 1 and may then never return, holding the only permit; a task   *)
(* of batch 1 runs batch 3 on its own executor; a second caller fills a    *)
(* pool of three tasks there.                                              *)
LentHome == <<1, 2, 1, 1>>
LentSize == <<2, 2, 2, 3>>
LentLanes == <<2, 1>>
LentChild(task) == IF task = <<2, 1>> THEN 1 ELSE IF task = <<1, 2>> THEN 3 ELSE none
LentStuck == {<<2, 1>>}

(* One executor with a single lane, hence without workers. *)
LaneHome == <<1, 1>>
LaneSize == <<2, 2>>
LaneLanes == <<1>>
NoChild(task) == none

=============================================================================
