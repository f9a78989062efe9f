-------------------------- MODULE QuerySessionBatch --------------------------
(***************************************************************************)
(* Batches inside the retirement barrier: run_tasks and map_tasks          *)
(* (crates/nia-query/src/session.rs, database.rs) keep the owner's         *)
(* activity open until every task of the batch has run, while the tasks    *)
(* run on executor threads whose QUERY_ACTIVITY_DEPTHS know nothing of it. *)
(* How tasks are queued and taken is QueryExecutor's subject; here a task  *)
(* is anything an idle worker may take from an owner.                      *)
(***************************************************************************)
EXTENDS QuerySession

CONSTANTS
    Workers,    \* executor threads; they run queries only for a batch
    BatchSize,  \* tasks of a batch
    Nobody

ASSUME WorkersAssumption == Workers \subseteq Threads /\ Nobody \notin Threads
ASSUME BatchSizeAssumption == BatchSize \in Nat \ {0}

VARIABLES
    todo,       \* tasks of each thread's batch that nobody has taken
    serves      \* the owner whose task a worker runs, or Nobody

batchVars == <<todo, serves>>
allVars == <<vars, batchVars>>

BatchInit ==
    /\ Init
    /\ todo = [t \in Threads |-> 0]
    /\ serves = [t \in Threads |-> Nobody]

Joining(o) == todo[o] > 0 \/ \E w \in Workers : serves[w] = o

-----------------------------------------------------------------------------
(* run_tasks: inside an activity the batch is submitted ... *)
RunTasks(o) ==
    /\ o \notin Workers /\ pc[o] = "run" /\ depth[o] > 0
    /\ ~Joining(o)
    /\ todo' = [todo EXCEPT ![o] = BatchSize]
    /\ UNCHANGED <<vars, serves>>

(* ... a worker takes a task ... *)
TakeTask(w, o) ==
    /\ serves[w] = Nobody /\ todo[o] > 0
    /\ todo' = [todo EXCEPT ![o] = @ - 1]
    /\ serves' = [serves EXCEPT ![w] = o]
    /\ UNCHANGED vars

(* ... or the owner runs one itself; its queries are nested activities,    *)
(* which the barrier never delays.                                         *)
OwnerRunsTask(o) ==
    /\ todo[o] > 0
    /\ todo' = [todo EXCEPT ![o] = @ - 1]
    /\ UNCHANGED <<vars, serves>>

(* A worker's task ends, after any number of queries of its own. *)
FinishTask(w) ==
    /\ serves[w] # Nobody
    /\ pc[w] = "run" /\ depth[w] = 0
    /\ serves' = [serves EXCEPT ![w] = Nobody]
    /\ UNCHANGED <<vars, todo>>

(* Faulty: the owner's activity ends while workers still run its tasks. *)
MayStepUnjoined(t) == t \in Workers => serves[t] # Nobody

(* Who may take a step of QuerySession: workers only inside a task, where  *)
(* they run queries but do not retire; owners only between batches.        *)
MayStep(t) ==
    IF t \in Workers THEN serves[t] # Nobody ELSE ~Joining(t)

SessionStep(t) ==
    /\ MayStep(t)
    /\ Step(t)
    /\ t \in Workers => pc'[t] # "close"
    /\ UNCHANGED batchVars

BatchNext ==
    \/ \E t \in Threads : SessionStep(t) \/ RunTasks(t) \/ OwnerRunsTask(t)
    \/ \E w \in Workers, o \in Threads : TakeTask(w, o)
    \/ \E w \in Workers : FinishTask(w)

BatchSpec == BatchInit /\ [][BatchNext]_allVars

(* Providers and tasks terminate: an outermost activity runs finitely many *)
(* nested ones and a task finitely many queries, so each eventually ends.  *)
(* A runnable thread is eventually scheduled for the steps inside the      *)
(* barrier's and the executor's own code.                                  *)
Barrier(t) ==
    \/ Admit(t) \/ AdmitWait(t) \/ Close(t) \/ CloseWait(t)
    \/ NotifyAll(t) \/ DrainWait(t) \/ Drained(t) \/ Release(t)

BatchFairness ==
    /\ \A t \in Threads :
        /\ SF_allVars(SessionStep(t) /\ LeaveOutermost(t))
        /\ SF_allVars(SessionStep(t) /\ LeaveNested(t))
        /\ WF_allVars(SessionStep(t) /\ Barrier(t))
        /\ WF_allVars(OwnerRunsTask(t))
    /\ \A w \in Workers : SF_allVars(FinishTask(w))

LiveSpec == BatchSpec /\ BatchFairness

-----------------------------------------------------------------------------
(* Retirement never overlaps a task, although a task's thread is inside no *)
(* activity between its queries: the owner's lease covers its whole batch. *)
TasksEndBeforeRetirement ==
    (\E r \in Threads : pc[r] = "retire") =>
        \A t \in Threads : todo[t] = 0 /\ serves[t] = Nobody

Stranded(w) == serves[w] # Nobody /\ pc[w] = "admit" /\ w \in asleep

(* A retirement that closed admission gets its quiescent moment unless a   *)
(* task of a batch is asleep at admission: activities that run on their    *)
(* own threads need nothing from the retirement that waits for them.       *)
OnlyTasksStopDrain ==
    \A r \in Threads :
        pc[r] = "drain" ~> (pc[r] = "retire" \/ \E w \in Workers : Stranded(w))

(* "Counting every frame would let retirement wait on frames that cannot   *)
(* finish until it releases admission" (session.rs): a retirement that has *)
(* closed admission always gets its quiescent moment.                      *)
RetirementProceeds == \A r \in Threads : pc[r] = "drain" ~> pc[r] = "retire"

=============================================================================
