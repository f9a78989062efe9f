---------------------------- MODULE QueryExecutor ----------------------------
(***************************************************************************)
(* Executors, batches and the process-wide execution budget                *)
(* (crates/nia-query/src/executor.rs, run_tasks_inner and task_pool of     *)
(* session.rs).                                                            *)
(*                                                                         *)
(* A thread that runs a batch submits its tasks to the executor of a       *)
(* session and helps until all of them are complete; the executor's lazily *)
(* started workers take tasks from the front of the queue.  A task holds   *)
(* one of the executor's lanes and one of the process's permits, unless it *)
(* runs inside another task, whose lane or permit it then inherits.  A     *)
(* pool takes its tasks one by one, each as a batch of its own at the      *)
(* front of the queue, and collects them in the order of completion.       *)
(*                                                                         *)
(* One action is one critical section of an executor's mutex, of the       *)
(* budget's mutex or of a batch's mutex.  A thread's call stack is a       *)
(* sequence of frames, innermost first: "worker" for worker_loop, "own"    *)
(* for the loop of a batch owner, "task" for run_task.  An unlock and the  *)
(* notify_all that follows it are one step: whoever goes to sleep between  *)
(* the two is woken at once and merely looks again.                        *)
(***************************************************************************)
EXTENDS Naturals, Sequences, FiniteSets, SequencesExt

CONSTANTS
    Executors,      \* executors that share the process-wide budget
    Parallelism,    \* lanes of each executor
    Capacity,       \* permits of the budget
    Callers,        \* threads of the program that run batches
    Workers(_),     \* worker threads of an executor: <<executor, number>>
    Batches,        \* batches of two or more tasks (smaller ones run inline), pools
    Pools,          \* the ones that are a QueryTaskPool
    MaxParallelism, \* the argument of task_pool
    Home,           \* executor of each batch
    Size,           \* tasks of each batch, the most a pool is given
    Roots,          \* batches that callers run
    Child(_),       \* batch that a task runs, or NoBatch
    NoBatch,
    Stuck           \* tasks of a program that may never return

ASSUME CapacityAssumption == Capacity \in Nat \ {0}
ASSUME ParallelismAssumption == Parallelism \in [Executors -> Nat \ {0}]
ASSUME BatchesAssumption ==
    /\ Home \in [Batches -> Executors] /\ Size \in [Batches -> Nat \ {0, 1}]
    /\ Roots \subseteq Batches /\ Pools \subseteq Roots /\ NoBatch \notin Batches
    /\ MaxParallelism \in Nat \ {0}

Tasks == UNION {{b} \X (1 .. Size[b]) : b \in Batches}
Threads == Callers \cup UNION {Workers(e) : e \in Executors}

ASSUME ThreadsAssumption == IsFiniteSet(Threads)
ASSUME ChildAssumption == \A task \in Tasks : Child(task) \in (Batches \ Roots) \cup {NoBatch}

VARIABLES
    queue,      \* QueryExecutorState.queue
    running,    \* QueryExecutorState.active
    shutdown,   \* QueryExecutorState.shutdown
    joining,    \* Drop woke the budget's waiters and joins the workers
    permits,    \* QueryExecutionBudgetState.active
    done,       \* tasks that called QueryBatch::complete
    opened,     \* batches that were submitted
    frames,     \* call stack of each thread
    ready,      \* threads asleep in QueryExecutorShared.ready, per executor
    waiting     \* threads asleep in the budget's ready

vars == <<queue, running, shutdown, joining, permits, done, opened, frames, ready, waiting>>

Frame(kind, batch, task, at) ==
    [kind |-> kind, batch |-> batch, task |-> task, at |-> at,
     counts |-> FALSE, permit |-> FALSE, pending |-> <<>>, draining |-> FALSE]

Init ==
    /\ queue = [e \in Executors |-> <<>>]
    /\ running = [e \in Executors |-> 0]
    /\ shutdown = [e \in Executors |-> FALSE]
    /\ joining = [e \in Executors |-> FALSE]
    /\ permits = 0
    /\ done = {}
    /\ opened = {}
    /\ frames = [t \in Threads |-> <<>>]
    /\ ready = [e \in Executors |-> {}]
    /\ waiting = {}

-----------------------------------------------------------------------------
Awake(t) == t \notin waiting /\ \A e \in Executors : t \notin ready[e]

Top(t) == Head(frames[t])
At(t, kind, at) == Awake(t) /\ frames[t] # <<>> /\ Top(t).kind = kind /\ Top(t).at = at

Become(t, frame) == frames' = [frames EXCEPT ![t] = <<frame>> \o Tail(@)]
Goto(t, at) == Become(t, [Top(t) EXCEPT !.at = at])

ExecutorOf(w) == CHOOSE e \in Executors : w \in Workers(e)

(* query_executor_is_active and query_execution_budget_is_active *)
InsideExecutor(t, e) ==
    \E i \in 1 .. Len(frames[t]) :
        frames[t][i].kind = "task" /\ Home[frames[t][i].batch] = e
InsideBudget(t) == \E i \in 1 .. Len(frames[t]) : frames[t][i].kind = "task"

(* The tasks whose batch an owner helps and waits for: of a pool it is the *)
(* pending task at the front.                                              *)
Awaited(owner) ==
    {owner.batch} \X (IF owner.batch \in Pools THEN {Head(owner.pending)}
                      ELSE 1 .. Size[owner.batch])

(* remaining = 0 *)
IsComplete(owner) == Awaited(owner) \subseteq done

Queued(owner) ==
    LET q == queue[Home[owner.batch]] IN {i \in 1 .. Len(q) : q[i] \in Awaited(owner)}
HasLane(e) == running[e] < Parallelism[e]

NotifyReady(e) == ready' = [ready EXCEPT ![e] = {}]

-----------------------------------------------------------------------------
(* run_tasks_inner: submit_all, then the owner's loop. *)

(* ensure_workers starts at most one worker less than there are tasks. *)
StartedBy(b) ==
    {w \in Workers(Home[b]) : w[2] <= Size[b] - 1 /\ frames[w] = <<>>}

Submit(t, b, stack) ==
    /\ opened' = opened \cup {b}
    /\ queue' = [queue EXCEPT ![Home[b]] = @ \o [i \in 1 .. Size[b] |-> <<b, i>>]]
    /\ frames' = [u \in Threads |->
                    IF u = t THEN <<Frame("own", b, 0, "loop")>> \o stack
                    ELSE IF u \in StartedBy(b) THEN <<Frame("worker", NoBatch, 0, "look")>>
                    ELSE frames[u]]
    /\ NotifyReady(Home[b])
    /\ UNCHANGED <<running, shutdown, joining, permits, done, waiting>>

RunBatch(t, b) ==
    /\ t \in Callers /\ frames[t] = <<>>
    /\ b \in Roots \ (Pools \cup opened) /\ ~shutdown[Home[b]]
    /\ Submit(t, b, <<>>)

RunNestedBatch(t) ==
    /\ At(t, "task", "settle")
    /\ \E b \in Batches \ opened :
          b = Child(<<Top(t).batch, Top(t).task>>) /\ Submit(t, b, frames[t])

(* The batch is complete: the owner returns with its results. *)
OwnerReturns(t) ==
    /\ At(t, "own", "loop")
    /\ Top(t).batch \notin Pools /\ IsComplete(Top(t))
    /\ frames' = [frames EXCEPT ![t] = Tail(@)]
    /\ UNCHANGED <<queue, running, shutdown, joining, permits, done, opened, ready, waiting>>

(* Faulty: a nested owner asks for a permit of its own. *)
OwnerTriesAfresh(t) ==
    /\ At(t, "own", "loop")
    /\ LET b == Top(t).batch
       IN  /\ ~IsComplete(Top(t))
           /\ Goto(t, IF Queued(Top(t)) = {} \/ ~(InsideExecutor(t, Home[b]) \/ HasLane(Home[b]))
                        THEN "sleep" ELSE "permit")
    /\ UNCHANGED <<queue, running, shutdown, joining, permits, done, opened, ready, waiting>>

(* The first half of try_run_one: is there something to help with? *)
OwnerTries(t) ==
    /\ At(t, "own", "loop")
    /\ LET b == Top(t).batch
       IN  /\ ~IsComplete(Top(t))
           /\ Goto(t, IF Queued(Top(t)) = {} \/ ~(InsideExecutor(t, Home[b]) \/ HasLane(Home[b]))
                        THEN "sleep"
                      ELSE IF InsideBudget(t) THEN "take" ELSE "permit")
    /\ UNCHANGED <<queue, running, shutdown, joining, permits, done, opened, ready, waiting>>

(* wait_for_batch_progress *)
OwnerSleeps(t) ==
    /\ At(t, "own", "sleep")
    /\ LET e == Home[Top(t).batch]
       IN  ready' = IF IsComplete(Top(t)) THEN ready
                    ELSE [ready EXCEPT ![e] = @ \cup {t}]
    /\ Goto(t, "loop")
    /\ UNCHANGED <<queue, running, shutdown, joining, permits, done, opened, waiting>>

(* QueryExecutionBudget::acquire *)
OwnerPermit(t) ==
    /\ At(t, "own", "permit")
    /\ IF permits < Capacity
         THEN /\ permits' = permits + 1
              /\ Become(t, [Top(t) EXCEPT !.at = "take", !.permit = TRUE])
              /\ UNCHANGED waiting
         ELSE waiting' = waiting \cup {t} /\ UNCHANGED <<permits, frames>>
    /\ UNCHANGED <<queue, running, shutdown, joining, done, opened, ready>>

(* A task starts on thread t; the permit t acquired goes with it. *)
Start(t, task, counts, resumed) ==
    frames' = [frames EXCEPT ![t] =
        <<[Frame("task", task[1], task[2], "settle") EXCEPT
             !.counts = counts, !.permit = Top(t).permit],
          [resumed EXCEPT !.permit = FALSE]>> \o Tail(@)]

(* The second half: take the batch's last queued task, if there still is   *)
(* one and a lane for it.                                                  *)
OwnerTakes(t) ==
    /\ At(t, "own", "take")
    /\ LET b      == Top(t).batch
           e      == Home[b]
           nested == InsideExecutor(t, e)
           own    == Queued(Top(t))
       IN  IF own # {} /\ (nested \/ HasLane(e))
             THEN LET last == CHOOSE i \in own : \A j \in own : j <= i
                  IN  /\ queue' = [queue EXCEPT ![e] = RemoveAt(@, last)]
                      /\ running' = IF nested THEN running ELSE [running EXCEPT ![e] = @ + 1]
                      /\ Start(t, queue[e][last], ~nested, [Top(t) EXCEPT !.at = "loop"])
             ELSE /\ Goto(t, IF Top(t).permit THEN "drop" ELSE "sleep")
                  /\ UNCHANGED <<queue, running>>
    /\ UNCHANGED <<shutdown, joining, permits, done, opened, ready, waiting>>

-----------------------------------------------------------------------------
(* QueryTaskPool *)

PoolCapacity(b) ==
    IF MaxParallelism < Parallelism[Home[b]] THEN MaxParallelism ELSE Parallelism[Home[b]]

OpenPool(t, b) ==
    /\ t \in Callers /\ frames[t] = <<>>
    /\ b \in Pools \ opened /\ ~shutdown[Home[b]]
    /\ opened' = opened \cup {b}
    /\ frames' = [frames EXCEPT ![t] = <<Frame("own", b, 0, "pool")>>]
    /\ UNCHANGED <<queue, running, shutdown, joining, permits, done, ready, waiting>>

(* submit: a full pool waits for one of its tasks first; if that one       *)
(* failed, nothing is submitted.  submit_all_priority starts all workers.  *)
PoolSubmits(t) ==
    /\ At(t, "own", "pool")
    /\ ~Top(t).draining
    /\ LET b    == Top(t).batch
           e    == Home[b]
           next == Top(t).task + 1
       IN  /\ next <= Size[b]
           /\ IF Len(Top(t).pending) >= PoolCapacity(b)
              THEN Goto(t, "loop") /\ UNCHANGED <<queue, ready>>
              ELSE /\ queue' = [queue EXCEPT ![e] = <<<<b, next>>>> \o @]
                   /\ frames' = [u \in Threads |->
                        IF u = t THEN <<[Top(t) EXCEPT !.task = next, !.pending = Append(@, next)]>>
                        ELSE IF u \in Workers(e) /\ frames[u] = <<>>
                        THEN <<Frame("worker", NoBatch, 0, "look")>>
                        ELSE frames[u]]
                   /\ NotifyReady(e)
    /\ UNCHANGED <<running, shutdown, joining, permits, done, opened, waiting>>

(* finish, or Drop of a pool that was not finished. *)
PoolCloses(t) ==
    /\ At(t, "own", "pool")
    /\ ~Top(t).draining
    /\ Become(t, [Top(t) EXCEPT !.draining = TRUE])
    /\ UNCHANGED <<queue, running, shutdown, joining, permits, done, opened, ready, waiting>>

(* Faulty: a dropped pool waits only for tasks that nobody has started. *)
PoolAbandons(t) ==
    /\ At(t, "own", "pool")
    /\ Top(t).draining
    /\ IF Top(t).pending # <<>> /\ Queued(Top(t)) # {} THEN Goto(t, "loop")
       ELSE frames' = [frames EXCEPT ![t] = <<>>]
    /\ UNCHANGED <<queue, running, shutdown, joining, permits, done, opened, ready, waiting>>

PoolDrains(t) ==
    /\ At(t, "own", "pool")
    /\ Top(t).draining
    /\ IF Top(t).pending # <<>> THEN Goto(t, "loop")
       ELSE frames' = [frames EXCEPT ![t] = <<>>]
    /\ UNCHANGED <<queue, running, shutdown, joining, permits, done, opened, ready, waiting>>

(* wait_one finds a completed task.  It looks at one task after the other, *)
(* so it may also miss one that completes meanwhile and help the first.    *)
PoolCollects(t) ==
    /\ At(t, "own", "loop")
    /\ Top(t).batch \in Pools
    /\ \E i \in 1 .. Len(Top(t).pending) :
        /\ <<Top(t).batch, Top(t).pending[i]>> \in done
        /\ Become(t, [Top(t) EXCEPT !.at = "pool", !.pending = RemoveAt(@, i)])
    /\ UNCHANGED <<queue, running, shutdown, joining, permits, done, opened, ready, waiting>>

-----------------------------------------------------------------------------
(* worker_loop *)

WorkerLooks(w) ==
    /\ At(w, "worker", "look")
    /\ LET e == ExecutorOf(w)
       IN  IF shutdown[e] /\ queue[e] = <<>>
             THEN frames' = [frames EXCEPT ![w] = <<>>] /\ UNCHANGED ready
           ELSE IF HasLane(e) /\ queue[e] # <<>>
             THEN Goto(w, "permit") /\ UNCHANGED ready
             ELSE ready' = [ready EXCEPT ![e] = @ \cup {w}] /\ UNCHANGED frames
    /\ UNCHANGED <<queue, running, shutdown, joining, permits, done, opened, waiting>>

(* acquire_unless the queue is empty *)
WorkerPermit(w) ==
    /\ At(w, "worker", "permit")
    /\ IF queue[ExecutorOf(w)] = <<>>
         THEN Goto(w, "look") /\ UNCHANGED <<permits, waiting>>
       ELSE IF permits < Capacity
         THEN /\ permits' = permits + 1
              /\ Become(w, [Top(w) EXCEPT !.at = "take", !.permit = TRUE])
              /\ UNCHANGED waiting
         ELSE waiting' = waiting \cup {w} /\ UNCHANGED <<permits, frames>>
    /\ UNCHANGED <<queue, running, shutdown, joining, done, opened, ready>>

(* Faulty: the lane was free when the worker looked, so it is not asked    *)
(* for again.                                                              *)
WorkerTakesUnchecked(w) ==
    /\ At(w, "worker", "take")
    /\ LET e == ExecutorOf(w)
       IN  IF queue[e] # <<>>
             THEN /\ queue' = [queue EXCEPT ![e] = Tail(@)]
                  /\ running' = [running EXCEPT ![e] = @ + 1]
                  /\ Start(w, Head(queue[e]), TRUE, [Top(w) EXCEPT !.at = "look"])
             ELSE Goto(w, "drop") /\ UNCHANGED <<queue, running>>
    /\ UNCHANGED <<shutdown, joining, permits, done, opened, ready, waiting>>

(* Faulty: the permit leaks when there is nothing left to take. *)
WorkerTakesLeaking(w) ==
    /\ At(w, "worker", "take")
    /\ LET e == ExecutorOf(w)
       IN  IF queue[e] # <<>> /\ HasLane(e)
             THEN /\ queue' = [queue EXCEPT ![e] = Tail(@)]
                  /\ running' = [running EXCEPT ![e] = @ + 1]
                  /\ Start(w, Head(queue[e]), TRUE, [Top(w) EXCEPT !.at = "look"])
             ELSE /\ Become(w, [Top(w) EXCEPT !.at = "look", !.permit = FALSE])
                  /\ UNCHANGED <<queue, running>>
    /\ UNCHANGED <<shutdown, joining, permits, done, opened, ready, waiting>>

(* Faulty: the task stays queued while it runs. *)
WorkerTakesCopy(w) ==
    /\ At(w, "worker", "take")
    /\ LET e == ExecutorOf(w)
       IN  IF queue[e] # <<>> /\ HasLane(e)
             THEN /\ running' = [running EXCEPT ![e] = @ + 1]
                  /\ Start(w, Head(queue[e]), TRUE, [Top(w) EXCEPT !.at = "look"])
                  /\ UNCHANGED queue
             ELSE Goto(w, "drop") /\ UNCHANGED <<queue, running>>
    /\ UNCHANGED <<shutdown, joining, permits, done, opened, ready, waiting>>

WorkerTakes(w) ==
    /\ At(w, "worker", "take")
    /\ LET e == ExecutorOf(w)
       IN  IF queue[e] # <<>> /\ HasLane(e)
             THEN /\ queue' = [queue EXCEPT ![e] = Tail(@)]
                  /\ running' = [running EXCEPT ![e] = @ + 1]
                  /\ Start(w, Head(queue[e]), TRUE, [Top(w) EXCEPT !.at = "look"])
             ELSE Goto(w, "drop") /\ UNCHANGED <<queue, running>>
    /\ UNCHANGED <<shutdown, joining, permits, done, opened, ready, waiting>>

-----------------------------------------------------------------------------
(* run_task and the guards it drops. *)

(* Drop for QueryExecutionPermit, also of one that was not needed. *)
ReleasePermit == permits' = permits - 1 /\ waiting' = {}

DropPermit(t) ==
    /\ At(t, "own", "drop") \/ At(t, "worker", "drop")
    /\ ReleasePermit
    /\ Become(t, [Top(t) EXCEPT !.permit = FALSE,
                                !.at = IF Top(t).kind = "own" THEN "sleep" ELSE "look"])
    /\ UNCHANGED <<queue, running, shutdown, joining, done, opened, ready>>

(* The task returned: QueryBatch::complete, under the batch's lock. *)
Settle(t) ==
    /\ At(t, "task", "settle")
    /\ LET task == <<Top(t).batch, Top(t).task>>
       IN  /\ Child(task) = NoBatch \/ Child(task) \in opened
           /\ done' = done \cup {task}
    /\ Goto(t, "notify")
    /\ UNCHANGED <<queue, running, shutdown, joining, permits, opened, ready, waiting>>

(* notify_waiters, through the executor's lock *)
NotifyWaiters(t) ==
    /\ At(t, "task", "notify")
    /\ NotifyReady(Home[Top(t).batch])
    /\ Goto(t, "leave")
    /\ UNCHANGED <<queue, running, shutdown, joining, permits, done, opened, waiting>>

(* Drop for QueryExecutorActivityGuard *)
LeaveLane(t) ==
    /\ At(t, "task", "leave")
    /\ LET e == Home[Top(t).batch]
       IN  IF Top(t).counts
             THEN running' = [running EXCEPT ![e] = @ - 1] /\ NotifyReady(e)
             ELSE UNCHANGED <<running, ready>>
    /\ IF Top(t).permit THEN Goto(t, "permit")
       ELSE frames' = [frames EXCEPT ![t] = Tail(@)]
    /\ UNCHANGED <<queue, shutdown, joining, permits, done, opened, waiting>>

(* Its field, the permit, is dropped last. *)
LeaveBudget(t) ==
    /\ At(t, "task", "permit")
    /\ ReleasePermit
    /\ frames' = [frames EXCEPT ![t] = Tail(@)]
    /\ UNCHANGED <<queue, running, shutdown, joining, done, opened, ready>>

-----------------------------------------------------------------------------
(* Drop for QueryExecutor, when nobody runs a batch on it any more and no  *)
(* task that will run one is left.                                         *)

InUse(e) ==
    \E t \in Threads : \E i \in 1 .. Len(frames[t]) :
        frames[t][i].kind # "worker" /\ Home[frames[t][i].batch] = e

(* Drop runs on a thread that is no worker of the executor: the branch     *)
(* that leaves its own handle unjoined is not taken.                       *)
Shutdown(e) ==
    /\ ~shutdown[e]
    /\ \A b \in Batches \ Roots : Home[b] = e => b \in opened
    /\ ~InUse(e)
    /\ shutdown' = [shutdown EXCEPT ![e] = TRUE]
    /\ NotifyReady(e)
    /\ UNCHANGED <<queue, running, joining, permits, done, opened, frames, waiting>>

(* Faulty: only the executor's own condition variable is notified. *)
JoinWithoutWaking(e) ==
    /\ shutdown[e] /\ ~joining[e]
    /\ joining' = [joining EXCEPT ![e] = TRUE]
    /\ UNCHANGED <<queue, running, shutdown, permits, done, opened, frames, ready, waiting>>

(* QueryExecutionBudget::notify_waiters; the joins follow. *)
WakeBudget(e) ==
    /\ shutdown[e] /\ ~joining[e]
    /\ joining' = [joining EXCEPT ![e] = TRUE]
    /\ waiting' = {}
    /\ UNCHANGED <<queue, running, shutdown, permits, done, opened, frames, ready>>

-----------------------------------------------------------------------------
(* A step of a thread inside the executor's code. *)
Step(t) ==
    \/ RunNestedBatch(t) \/ OwnerReturns(t) \/ OwnerTries(t) \/ OwnerSleeps(t)
    \/ OwnerPermit(t) \/ OwnerTakes(t)
    \/ PoolSubmits(t) \/ PoolCloses(t) \/ PoolDrains(t) \/ PoolCollects(t)
    \/ WorkerLooks(t) \/ WorkerPermit(t) \/ WorkerTakes(t) \/ DropPermit(t)
    \/ Settle(t) \/ NotifyWaiters(t) \/ LeaveLane(t) \/ LeaveBudget(t)

Next ==
    \/ \E t \in Threads : Step(t)
    \/ \E t \in Threads, b \in Batches : RunBatch(t, b) \/ OpenPool(t, b)
    \/ \E e \in Executors : Shutdown(e) \/ WakeBudget(e)

Spec == Init /\ [][Next]_vars

(* Threads inside the executor keep running, except in a task of Stuck;    *)
(* a drop that started goes on.                                            *)
Working(t) ==
    ~(frames[t] # <<>> /\ Top(t).at = "settle" /\ <<Top(t).batch, Top(t).task>> \in Stuck)

Fairness ==
    /\ \A t \in Threads : WF_vars(Working(t) /\ Step(t))
    /\ \A e \in Executors : WF_vars(WakeBudget(e))

LiveSpec == Spec /\ Fairness

-----------------------------------------------------------------------------
Holds(t) == \E i \in 1 .. Len(frames[t]) : frames[t][i].permit

(* Threads with a task of e that has not left its lane yet. *)
RunsFor(e) ==
    {t \in Threads : \E i \in 1 .. Len(frames[t]) :
        /\ frames[t][i].kind = "task" /\ Home[frames[t][i].batch] = e
        /\ frames[t][i].at # "permit"}

(* Every variable has its type, and a frame is at a place its function has *)
(* (the loops and guards of executor.rs).                                  *)
TypeOK ==
    /\ \A e \in Executors : queue[e] \in Seq(Tasks) /\ ready[e] \subseteq Threads
    /\ running \in [Executors -> Nat] /\ permits \in 0 .. Capacity
    /\ done \subseteq Tasks /\ opened \subseteq Batches /\ waiting \subseteq Threads
    /\ \A t \in Threads : \A i \in 1 .. Len(frames[t]) :
         LET f == frames[t][i]
         IN  CASE f.kind = "worker" -> f.at \in {"look", "permit", "take", "drop"}
               [] f.kind = "own"    -> f.at \in {"loop", "permit", "take", "drop", "sleep", "pool"}
               [] f.kind = "task"   -> f.at \in {"settle", "notify", "leave", "permit"}

(* The permits in use are held by as many threads, never more than the     *)
(* budget has: a thread that is inside a task never takes a second one,    *)
(* whichever session the nested batch belongs to, and none leaks; all      *)
(* variables keep their types.                                             *)
PermitsCounted ==
    /\ TypeOK
    /\ permits = Cardinality({t \in Threads : Holds(t)})
    /\ permits <= Capacity
    /\ \A t \in Threads : InsideBudget(t) => Holds(t)

(* No more threads execute tasks of an executor than it has lanes, nested  *)
(* tasks included.                                                         *)
LanesBounded == \A e \in Executors : Cardinality(RunsFor(e)) <= Parallelism[e]

(* The owner of a batch or pool in its call stack. *)
OwnerFrames(b) ==
    {f \in UNION {ToSet(frames[t]) : t \in Threads} : f.kind = "own" /\ f.batch = b}

Submitted(task) ==
    IF task[1] \in Pools THEN task \in done \/ \E f \in OwnerFrames(task[1]) : task[2] <= f.task
    ELSE task[1] \in opened

(* A submitted task is queued once, or runs in one frame, or is complete:  *)
(* QueryBatch::complete never sees a result completed twice and no task is *)
(* lost.                                                                   *)
TasksOnce ==
    \A task \in Tasks : Submitted(task) =>
        LET queuedAt == {i \in 1 .. Len(queue[Home[task[1]]]) :
                            queue[Home[task[1]]][i] = task}
            frameAt(t) == {i \in 1 .. Len(frames[t]) :
                            /\ frames[t][i].kind = "task"
                            /\ <<frames[t][i].batch, frames[t][i].task>> = task
                            /\ frames[t][i].at = "settle"}
            inFrames == {t \in Threads : frameAt(t) # {}}
        IN  Cardinality(queuedAt) + Cardinality(inFrames)
              + (IF task \in done THEN 1 ELSE 0) = 1

(* An owner outlives its tasks: whatever is queued or running belongs to a *)
(* batch whose owner has not returned, or is pending in a pool that is not *)
(* gone, be it finished, dropped or left with an error; so the activity    *)
(* that the owner holds covers every task.  A pool has never more tasks    *)
(* accepted and not yet collected than its capacity (executor.rs:579).     *)
OwnersOutliveTasks ==
    /\ \A t \in Threads : \A f \in ToSet(frames[t]) :
        f.kind = "task" /\ f.at = "settle" => \E o \in OwnerFrames(f.batch) :
            f.batch \in Pools => f.task \in ToSet(o.pending)
    /\ \A e \in Executors : \A task \in ToSet(queue[e]) : \E o \in OwnerFrames(task[1]) :
            task[1] \in Pools => task[2] \in ToSet(o.pending)
    /\ \A b \in Pools : \A o \in OwnerFrames(b) : Len(o.pending) <= PoolCapacity(b)

(* Every submitted batch returns to its owner, although owners, workers    *)
(* and nested batches compete for lanes and permits, provided no task runs *)
(* for ever: run_tasks "runs independent tasks concurrently and restores   *)
(* submission order in the result" (session.rs), which it can only do once *)
(* all of them have run.                                                   *)
BatchesFinish ==
    ([]<>\A t \in Threads : Working(t)) =>
        \A b \in Batches : b \in opened ~>
            \A t \in Threads : \A i \in 1 .. Len(frames[t]) :
                ~(frames[t][i].kind = "own" /\ frames[t][i].batch = b)

(* An executor that is dropped gets rid of its workers, even while tasks   *)
(* of other sessions hold every permit.                                    *)
ShutdownCompletes ==
    \A e \in Executors : shutdown[e] ~> {w \in Workers(e) : frames[w] # <<>>} = {}

=============================================================================
