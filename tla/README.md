# A verification project for nia's query engine and build system

nia is a compiler and build system written in Rust. This directory holds TLA+
models of its concurrent core, the crate `nia-query`, and of the parts of
`nia-build` that must survive concurrency and crashes, TLC configurations that
check them on small instances, and TLAPS proofs of what holds for every
instance. Definitions keep the names of the source; `PROJECT.json` gives for
each of them the lines it models. Paths below are relative to the repository.

## 1. Inventory

### Parts of the system

| part | state | operations | interacts with |
|---|---|---|---|
| session barrier (`nia-query/src/session.rs`, `dependency.rs`) | count of active threads, `retiring`, thread-local nesting depths, a condition variable | `enter_activity`, `enter_retirement`, the `Drop` of both guards, `run_tasks` | every query and every retirement passes it |
| wait-for graph (`lib.rs`, `session.rs`) | reference-counted edges, incoming counts, retained frames, one per process | `begin`, `path`, `end` | asked before a thread blocks on a slot |
| slots, dependency graph, invalidation (`database.rs`, `dependency.rs`, `lib.rs`) | one mutex and condition variable per slot, forward and reverse edges under one mutex, thread-local query stacks | `get`, `invalidate`, `validate_input`, `retire`, `publish_*`, `seal_and_retire_predecessor` | barrier, wait-for graph, providers |
| executor and execution budget (`executor.rs`) | queue, lanes and workers per session, permits per process | `submit_all`, `try_run_one`, `worker_loop`, `run_task`, `complete`, `Drop`; task pools, completion streams | sessions share the budget; tasks run queries and batches |
| LLVM memory budget (`resources.rs`) | count of permits, thread-local depths, a condition variable | `acquire`, `Drop`; capacity and pressure tests | code generation lanes |
| build plan (`nia-build-plan`) | steps, their dependencies and actions | `freeze` with its graph validation | input of the coordinator |
| build coordinator (`nia-build/src/coordinator/scheduling.rs`, `resources.rs`) | closure, indegrees, waves, tasks, permits, failures, announced waits | discover, start and finish a wave, run an action, cancel | query sessions run the tasks; actions publish outputs |
| publication and recovery (`coordinator/publication.rs`, `output_recovery.rs`) | destinations, staging directories, journals and prepared markers on disk | stage, prepare, install, commit, roll back, clean up, recover | several processes share one build directory, under output locks |
| output lock (`lock.rs`) | one file per output, its owner record and advisory lock | acquire, `Drop`, reclaim | publication and recovery |
| build caches (`nia-build/src/*_cache.rs`) | manifests and blobs on disk | look up, store, evict | coordinator |
| front end, analysis, back end, linker, CLI | per-request data | pure or I/O-bound passes | clients of the query engine |

`PROJECT.json` lists all parts, with the reason where one is not modelled.

### What is hard here

Queries run on many threads at once and block on each other's slots; batches
move work to threads whose thread-local state (nesting depth, query stack)
starts empty; four condition variables are notified after their mutex was
released; slots, edges and wait edges live under different mutexes, so an
operation over several of them is seen half done; lanes, permits and activities
are each inherited by nested work by a rule of its own. Builds share a directory
between processes that may be killed between any two file operations; a lock is
a path, an inode and a record, read at different moments; workers of one wave
fail in any order, yet the report must not depend on it. The list "hazards" in
`PROJECT.json` gives the lines at which each of these can go wrong and the
properties that would notice.

### What makes each part correct

* Barrier: a retirement is alone; the count is exact; nobody sleeps through a
  notification; a retirement eventually gets its turn.
* Wait-for graph: acyclic, exact counts, a search that decides reachability.
* Slots: a provider runs once at a time; waiters are woken; what is cached is
  what a computation from nothing would give; every get returns.
* Executor: tasks run exactly once, within lanes and permits; batches return;
  dropping an executor ends its workers.
* Memory budget: exact permits, lanes that fit into memory, no lost sleeper.
* Build outputs: after a kill at any point recovery leaves all old or all new
  outputs, never a mixture, and gets rid of the journal.
* Output lock: two processes never hold it; a dead owner's file goes away.
* Coordinator: an action runs after what it reads was produced; what is reported
  depends on the plan and the failing actions, not on the workers' order; every
  build ends.
* Caches (not modelled): a cached result is used only for the inputs it was made
  from.

## 2. The modules

| module | models | proofs |
|---|---|---|
| `QuerySession` | the activity/retirement barrier | `QuerySessionProofs` |
| `QuerySessionBatch` (extends it) | batches: the owner's lease covers tasks on worker threads | `QuerySessionProofs` |
| `QueryWaitGraph` | edges, counts, frames and guards of the wait-for graph | `QueryWaitGraphProofs` |
| `QueryWaitPath` (extends it) | the fast walk and the breadth-first search of `path` | – |
| `QueryEngine` | slots, providers, dependency graph, red/green validation, invalidation | `QueryEngineProofs` |
| `QueryExecutor` | executors, batches, workers, lanes, permits, shutdown | `QueryExecutorProofs` |
| `MemoryBudget` | the process-wide LLVM memory permits | `MemoryBudgetProofs` |
| `OutputStore` | abstract: the complete output set is replaced at once | – |
| `OutputPublication` (implements `OutputStore`) | journaled publication, rollback, clean-up and recovery of an output set | `OutputPublicationProofs` |
| `OutputLock` | the lock file of one output on Unix and Windows | `OutputLockProofs` |
| `BuildPlan` | the step graph and what `freeze` demands of it | – |
| `BuildSchedule` (extends it) | the coordinator of one build | `BuildScheduleProofs` |
| `MC...` | model values and small systems for the runs | – |

**QuerySession.** A thread's `pc` is its place in the barrier's code, `depth`
its entry in `QUERY_ACTIVITY_DEPTHS`. Each action is one critical section of
the mutex. Sleeping is explicit (`asleep`), and the notification after the
unlock is an action of its own (`NotifyAll`), so a thread may fall asleep
between the two. The "impossible" branches of the two `Drop`s, which poison the
session, are kept and set `failed`.

**QuerySessionBatch** adds who may take these steps. An owner inside an activity
submits a batch and takes no other step until all its tasks have run; a worker
enters activities only for a task, as a thread of its own. How tasks are queued
belongs to `QueryExecutor`.

**QueryWaitGraph / QueryWaitPath.** `Begin` adds a reference to an edge unless
the target already reaches the source, `BeginCycle` is the refusal, `End` drops
one reference. In the first module reachability is its definition (the least
closed set); the second translates the search and compares the two on every
graph that arises.

**QueryEngine.** A thread's `stack` holds one frame per `get` in progress; its
`phase` is the place in `try_get_cached`, `dependency_validation_failure` or the
provider. One action is one critical section of a slot or of the graph, so
invalidation is visible between the slots it marks and the edges it sweeps.
Providers are parameters: `NextRead` and `Provide` say what a query reads next
and what it returns, hence reads may depend on values. Of them it is assumed
that an execution asks for queries, at most `MaxReads` of them, until it has all
it needs, and then returns a value (`ProvidersAssumption`). Fingerprint policies
`None`, `StableValue` and `SemanticValue` are kept: a stable fingerprint is the
value (hashes are taken to be free of collisions), a semantic one the slot's
revision number. The context changes either inside the retirement barrier
(`Overlapping = FALSE`, one atomic step, justified by `RetirementExclusive`) or
beside running queries (`Overlapping = TRUE`), which `QueryDb::invalidate` and
`validate_input` permit. `Retire` removes a node under the barrier: its key gets
a new node with the next request, whose revisions count from zero again, so
evidence about the old one is marked `RetiredNode` and can only be an error.

**QueryExecutor.** Call stacks of frames `worker`, `own`, `task`; one action per
critical section of an executor, the budget or a batch. An unlock and the
notification after it are one step here: whoever falls asleep in between is
woken at once and looks again. A task pool is an owner that submits its tasks one
by one at the front of the queue, helps with the oldest pending one when it is
full, collects whichever is complete, and drains when it is finished or dropped.

**MemoryBudget.** The reading of available memory is an input of each attempt
to acquire, chosen anew every time from `Available`.

**OutputPublication.** One action per call that changes the file system: each
rename, each file a recursive removal deletes, the two phases of the journal.
File contents are the number of the transaction that wrote them. Locks of all
outputs of the action are one lock here (the code takes them in sorted order),
and exclude as `ExcludesOnWindows` shows for Windows; finding 2 and the
eviction of a creator (section 5) are what Unix adds to this. A build recovers once, then publishes any number of times. The
recovery scan holds no lock, so it is taken apart: `Scan` lists the directory (a
snapshot), `InspectEntry` looks at one listed entry and refuses the build if its
name is gone, `RetireTemporary` removes a dead process's temporary journal. The
entry limit of the directory and entries that are not directories, which no
build makes, are left out. `Kill` forgets a process's memory and frees its locks. The ghosts `torn`
(a clean-up was cut off) and `overlapped` (a publication was prepared while
another prepared transaction was unrecovered) mark the known limits of section 5
so that every property can be stated outside of them.

*Refinement.* `Store == INSTANCE OutputStore WITH store <- View, void <-
overlapped`, where `View` is what a recovery started now would leave: `dest`, or
with a prepared transaction its backups. The only step that changes `View` is
the rename of the staging directory (`Commit`), and it changes all outputs at
once; every other step, of whichever process, of recovery or of a kill, stutters.

**OutputLock.** A process has at most one lock file open, so files are reused
numbers; what is at the path has the attributes `written`, `dead`, `old` and
`doomed`. Each system call of `acquire`, `reclaim_stale_lock` and `Drop` is a
step. The places `aged` and `gone` of a reclaimer tell apart why it removes the
path: the age will do for a file without a record, or the process of the record
is dead. The platform is chosen in `Init`; the branch for others
(`lock.rs:336-345`) is left out. That a deleted name lasts on Windows until the
file is closed is an assumption about the platform, taken from the comment at
`lock.rs:231-235`; giving up on such a name (`DELETE_PENDING_TOLERANCE`) is, for
the lock, a `Cancel`.

**BuildPlan / BuildSchedule.** `freeze` is translated from the validation
functions; the schedule runs any draft it accepts. Which actions fail is fixed
when the plan is frozen, so that the reports can be compared with a reference
that knows nothing of waves and workers (`Completable`, `Attempted`, `Depth`).
Tasks run on at most `Lanes` workers, dealt out to lanes when the user limits
parallelism; the permit, the cancellation test, the execution and the release
are separate steps.

Each module's `TypeOK` is a conjunct of one of the invariants that the runs
check (`OneComputer`, `PermitsCounted`, `RejectsOnlyTorn`, `LockedOwnerSpared`,
`PermitsExclude`); all are proved, as theorems of their own or as part of an
invariant.

Definitions whose comment begins with "Faulty:" are plausible mistakes in the
operation that follows them. No specification uses them; `PROJECT.json` names
the property that rejects each.

## 3. The runs

| run | instance | what it shows |
|---|---|---|
| `session_barrier` | 2 owners, 1 worker, depth 2, batches of 2 | the barrier's safety, alone and under batches, and that a drain ends unless a batch's task sleeps at admission |
| `wait_graph` | 4 queries, 4 threads | acyclic and exact; the search is reachability |
| `engine_retirement` | 2 threads, 4 queries, 3 values, 2 changes or retirements, failing providers | everything cached is current and stands on current values; edges are exactly the reads; single flight |
| `engine_overlap` | 2 threads, 3 queries, 2 values, 2 changes | single flight, no speculative edges, current inputs, no circular wait between two queries, every get returns |
| `engine_circle` (violation) | 2 threads, 3 queries | finding 1 |
| `executor` | 2 executors of 1 and 2 lanes, 3 permits, 2 batches, one nested, a pool of 3 tasks with capacity 2 | permits, lanes and tasks are exact; no owner or pool is gone before its tasks |
| `executor_progress` | 2 executors of 2 and 1 lanes, 1 permit, 3 batches, two nested, a pool of 3 | batches and pools return, shutdown ends |
| `memory_budget` | 4 threads, capacity 3, depth 2 | exact permits, lanes within memory, acquires return |
| `output_recovery` | 2 builds, 2 outputs, 2 transactions, 2 kills | outputs are replaced at once; recovery refuses only what section 5 lists; journals are retired |
| `output_lock` | 2 processes, both platforms, 2 kills, failing writes, expiry | Windows excludes; a reclaimer that locked the file it unlinks spares its owner, and its creator if it has read the record; stale files go, a creator's `flock` returns |
| `output_lock_unix` (violation) | 2 processes, Unix, no faults | finding 2 |
| `build_schedule` | 1152 drafts of 4 steps over 3 actions, every set of failures, 2 lanes, with and without `keep_going` and a limit | inputs first, permits exclusive, reports independent of the workers' order, every build ends |

**Bounds.** Depth 2 is the first at which an entry is nested. Two owners and a
worker are the three roles of the barrier. Four queries and four threads
give the wait-for graph chains of three hops, doubled edges and
branching, the cases that `path` distinguishes. The tower of
`engine_retirement` has an input, a folding query (so that a change may leave
the value above unchanged), a query whose second read depends on its first, and
an unfingerprinted one on top; three values let the input change below and
through the fold; two changes let the second one meet what the first left
behind. In `engine_overlap` the input decides whether two queries read
each other. Capacity 3 in `memory_budget` lets a
second and a third lane come and go. In the executor runs the session without a
worker lends its caller to the other one, where owner, worker and pool compete
for two lanes; three tasks and capacity 2 make a pool wait in `submit` and
collect out of order. Two outputs are the fewest that can be mixed up; with two
kills a build dies in publication and another in its recovery, and the second
transaction meets what the first left. At first one of the two outputs exists, the
first or the second, so that both kinds of rollback occur in either order; after a
publication both exist. `MCOutputPublicationKills.cfg`, which is not one of the
runs, checks the two safety properties with every initial set, three kills and
the symmetry of build processes, and passes within two minutes. Two processes give a lock an owner, a
reclaimer and, when the owner comes back, a third file. The drafts of
`build_schedule` contain steps that share an action in different waves, cycles,
missing dependencies and a conservative action. Counters that would grow without end
are bounded by `MaxDepth`, `MaxChanges`, `MaxTxn` and `MaxKills`; each batch
runs once.

**Deadlock** is checked except in four kinds of run. A build ends
(`build_schedule`). In `engine_retirement` a
poisoned session accepts nothing any more; in the executor runs all batches
end; in the barrier run the first known disagreement of section 5 is a reachable
state, and
`OnlyTasksStopDrain` says that it is the only way a drain can stop.

**Fairness.** A runnable thread inside the engine's own code is eventually
scheduled (weak fairness of its steps). Activities, tasks and LLVM jobs end:
strong fairness of leaving them, since a thread may enter nested ones in
between. Nobody is ever obliged to make a new request, change an input or start
a retirement. In `executor_progress` one task (`Stuck`) may never return;
`BatchesFinish` is claimed for behaviours in which no task hangs for ever,
`ShutdownCompletes` without that. A build process that is not killed runs on and
the user starts another build in the end (`output_recovery`); an owner releases
its lock, `STALE_AFTER` passes, and a blocked `flock` is granted when the lock is
free again and again (strong fairness of `LockFile`); the coordinator and its
workers run on and every action returns (`build_schedule`). Failures, kills,
cancellations and new requests are never obliged to happen.

## 4. What is proved

Eight modules of proofs, all for arbitrary constants that satisfy the named
assumptions (finite sets of threads, processes, steps and queries, bounds that
are natural numbers, providers as described in section 2). Each proof states an
inductive invariant that TLC checked first, one step or lemma per action, and
reads the theorem off the invariant.

* `QuerySessionProofs`: `TypeCorrect`, `RetirementIsExclusive`, `CountIsExact`,
  `WakeupsAreKept`. Exclusion is not inductive: that the drained thread meets no
  activity follows from its having seen `active = 0` and from nobody entering
  since. The invariant adds `FlagOwned` (whoever drains or retires owns
  the flag, alone, and a retirement has `active = 0`), the exact count, and
  `SleepersWait` (sleepers are in one of the three loops). Cardinality enters
  where a thread joins or leaves the set of threads inside an activity.
  For batches: `BatchesPrecedeRetirement`, `BatchedRetirementIsExclusive`. The
  strengthening `Leases` says that each queued or running task belongs to an
  owner, not a worker, that is inside an activity; with the exact count a
  retirement then excludes tasks.
* `QueryWaitGraphProofs`: `TypeCorrect`, `WaitsAreAcyclic`, `CountsAreExact`,
  `GraphNeverFails`. Reachability is the intersection of closed sets, so that
  no induction over paths is needed: adding an edge whose target does not reach
  its source leaves a closed set that separates them; removing a reference only
  adds closed sets.
* `QueryEngineProofs`: `SingleFlight`, `LeavesNoEdges`, `ServesCurrentInputs`
  and `GraphIsMirrored`, with invalidations beside queries or under the barrier,
  and `StandsOnReady`, with changes under the barrier only (`Overlapping = FALSE`). `OneComputer` counts
  owners; what is inductive is `Single`, which pairs every busy slot with one
  frame of one stack, and conversely. It needs `FramesOK` (all frames below the
  top are in a provider or a validation, so only a top frame can release a
  slot), `Sleepers` (a sleeper waits for a busy slot that none of its own frames
  holds) and `TasksOK` (an invalidating thread is in no query). The proof of an
  action has two parts: what it does to the stacks (`Stays`, `Calls`, `Returns`,
  `Rests`: the top frame is replaced, a get is made, a get returns, nobody moves,
  each with the waiters that a notification wakes) and what it does to a slot.
  For edges and inputs `TrackInv` says who will repair what is not settled.
  `EdgesHeld`: edges without a payload belong to a get that is about to clear
  them or to an invalidation that is about to sweep them. `InputsTracked`: a
  cached value of an input, or one that a frame is about to publish or to keep,
  is the current one, or flagged, or its report has yet to reach the slot
  (`Announced`); that a report may end at a green `validate_input` needs the
  stable fingerprint to be that of the value.
  `StandsOnReady` needs to know of frames what will be published: what an
  execution has read is Ready, but for the query it is waiting for; what a
  validation has left behind is Ready, because what it compares has a fingerprint,
  and its edges are among its evidence (`Stands`). Between changes a Ready slot
  stays Ready; a change under the barrier takes away a set that is closed under
  `reverse`, hence, the directions being mirrored, whatever reads it.
* `QueryExecutorProofs`: `PermitsAreCounted`, `LanesAreBounded`, `TasksRunOnce`,
  `OwnersOutlive`, for any executors, capacity and batches; a task runs a batch
  that is not a root, hence no pool (`ChildAssumption`), and threads are finitely
  many. Permits and lanes are counters that a nested run does not touch, so the
  invariant says who counts: in a stack the task above the bottom frame holds the
  permit and none above it asks for one (`StackOK`), and of the tasks of one
  executor in a stack exactly one counts as its lane (`LanesOK`). A task is then
  followed from its queue to one stack and to its batch's count of done tasks
  (`Queues`, `Apart`, `Kept`), and whoever waits for a batch keeps it (`Owned`,
  `PoolsOK`).
* `MemoryBudgetProofs`: `TypeCorrect`, `CountIsExact`, `LanesFit`,
  `NobodySleepsAlone`. `Places` says that waiting threads hold nothing; lanes
  fit by two facts about rounding down.
* `OutputPublicationProofs`: `Invariant`, `RefusesOnlyTorn`, `ImplementsStore`.
  Only the holder of the locks moves outputs, so the invariant says for each place
  of a holder how far the disk has come: before it is prepared a transaction has
  moved nothing (`Staging`), what a publisher remembers of its moves is what it
  has done (`Installing`), recovery has put back the outputs it has left behind
  (`Restoring`); and of every transaction that nobody holds, that recovery finds
  an old and a new version of each output (`Recoverable`) and that at most one is
  prepared while publications do not overlap (`SinglePending`). For refusals it
  also follows what a scan has listed: a listed entry keeps its name or it has
  moved on and never returns (`Named`, `Vanished`), and a journal without its
  header is torn, being retired or gone (`HeadersKept`). The refinement
  then has one lemma per group of actions: all but `Commit` leave `View` alone.
* `OutputLockProofs`: `Invariant`, `ExcludesOnWindows`, `SparesLockedOwner`. On
  Windows the path names a file as long as somebody has it open (`Pinned`), so
  all guards are for one file and a file has one creator. On Unix owners and
  reclaimers hold the advisory lock of their file (`Locks`), and that a record's
  process is dead stays true while its file is at the path (`Judged`); nothing of
  the kind holds of a reclaimer that found no record (section 5). A pigeonhole
  argument shows that `Files`, one more than there are processes, suffice.
* `BuildScheduleProofs`: `BuildPermitsExclude`, `BuildInputsReady`,
  `NeverInconsistent`, `BuildKeepGoingReports`, `BuildFirstFailure`. The invariant places every step
  of the closure: it counts its dependencies that have not been reported
  (`Counted`), and one that counts none is ready, in the wave, reported, or its
  action has failed (`Placed`, `Covered`). `InputsReady` follows because what has
  been reported is closed under dependencies and `freeze` demands each producer
  among the actions reached. `NeverInconsistent` and `KeepGoingReports` rest on
  the absence of cycles: steps that are never ready would contain one.
  `BuildFirstFailure` needs two more facts. The waves are the levels of the
  closure (`Waves`), which gives the reference's depth of a step as the first
  level that holds it. And an outcome is what the action does or a cancellation
  behind a failure at a lower position (`Judged`), so the failing action of lowest
  position in a wave is never cancelled, however late it starts.

`WaitsAreAcyclic` is about the edges the graph records. It does not imply
that threads never wait in a circle: finding 1 is a circular wait whose
edges form no cycle, because a blocked thread records one edge only. For the same
reason `NoCircularWait` is no theorem of `QueryEngine`: it holds in
`engine_overlap`, where only two queries can read each other.

Only TLC checks:

* liveness, since the prover has no `ENABLED` and no fairness reasoning;
* `PathIsReachability`: the search is a recursive operator. Induction over
  natural numbers is available in the form "a set of numbers that is not empty
  has a least element" (used for sequences of steps in `BuildScheduleProofs`),
  but not for what a recursive operator computes;
* `ReadyIsCurrent` and `EdgesCoverReads`: they hold with changes under the barrier
  only, and compare slots with `Answer`, which is defined by recursion through
  the providers (that the directions of the graph mirror each other, a part of
  `EdgesCoverReads`, is `GraphIsMirrored`).

## 5. Findings and known limits

Findings, each with a run that shows it:

1. `engine_circle`: `begin_query_wait` records an edge from the innermost query
   of a blocked thread only. Two threads and three queries in a circle block
   each other and neither gets the cycle error (`session.rs:341`).
2. `output_lock_unix`: a reclaimer locks the inode it opened, then reads the
   owner at the path, twice, and unlinks the path. If the owner has released in
   between, the inode is an orphan and the path may be a newer file, empty when
   it is read and owned when it is unlinked: two processes hold the lock
   (`lock.rs:309`).

Known disagreements, reproduced by a configuration that is not one of the runs
(`tlc -config <cfg> <module>` reports the violation within seconds):

| configuration | module | what it shows |
|---|---|---|
| `MCQuerySessionBatchDrain.cfg` | `MCQuerySessionBatch` | A task of a batch is, for the barrier, a thread of its own. A retirement that begins after the batch was submitted closes admission, the task's first query sleeps, its owner waits for the task, and the retirement waits for the owner (`session.rs:258`, against the comment at 261-263). |
| `MCQueryEngineWriteback.cfg` | `MCQueryEngine` | A running query has no edges until it publishes, so an invalidation of an input it has already read does not flag it, and the stale value is published as `Ready` (`database.rs:818`, against the comment at 811-813). |
| `MCQueryEngineEdges.cfg` | `MCQueryEngine` | The last step of an invalidation removes the edges of all nodes it cleared, also edges a recomputation has recorded since (`database.rs:1309`, against `lib.rs:8-9`). |
| `MCQueryExecutorOneLane.cfg` | `MCQueryExecutor` | With parallelism 1 there are no workers; an owner that finds the lane taken may go to sleep after it was given back (`executor.rs:253`, against `executor.rs:268-269`). |
| `MCOutputLockCreator.cfg` | `MCOutputLock` | On Unix a waiter that has waited for `STALE_AFTER` reclaims with `Duration::ZERO` (`lock.rs:254-256`, 380-382). It locks a file that has just been created, reads no record and decides that it is stale (`lock.rs:311`); the creator writes its token and blocks in `flock`; the waiter unlinks the path. It is the waiter who has waited, the file may be brand new. The creator then owns an inode without a name, the next process creates the path, and two processes hold the lock, here with the reclaimer holding the lock of the very file it removes (against the comment at `lock.rs:286-289`, "the owner token is already visible and proves the creator is alive, so the reclaimer will leave the path in place", and `nia-build/README.md:512`, "Neither platform reclaims a live lock by age."). A creator that is stopped for `STALE_AFTER` before it writes its record can lose its file in the same way to any reclaimer. |
| `MCOutputPublicationRefuse.cfg` | `MCOutputPublication` | The recovery scan lists the journals and inspects each entry without a lock. A live publisher that renames its temporary journal, or retires its journal, in between makes `symlink_metadata` fail with `NotFound`, and the build is refused with nobody killed and nothing damaged (`output_recovery.rs:212`, against the comment at 5-7: recovery "runs under the complete canonical output-lock set and rejects ambiguous or corrupt state"). The next build is not affected. |

Changes inside the retirement barrier are not affected by the second and third.
`LockedOwnerSpared` claims nothing for a creator whose file had no record when the
reclaimer read it, and `RejectsOnlyTorn` names the refusal by the scan.

Limits that the models exclude by name:

* `torn`: a recursive removal is not atomic. A kill while a rolled-back staging
  directory or a journal is being removed leaves a prepared transaction without
  its backups or a journal without its header, and every later build refuses it
  (`output_recovery.rs:315`; `nia-build/README.md` calls interrupted publication
  recoverable). `JournalsRetire` is claimed without such a kill.
* `overlapped`: a build that is past its recovery scan may publish over a
  transaction that another build prepared before it was killed; recovering that
  one later undoes parts of an accepted publication (`publication.rs:370`).
* The header of a journal is read before the locks are taken
  (`output_recovery.rs:242`), so a healthy build may fail once because another
  one is retiring its journal. `RejectsOnlyTorn` allows this, `torn`,
  `overlapped` and the refusal by the scan above, and nothing else.
* A kill between the creation of the staging directory and its journal leaves
  the directory behind; nothing removes it.
* A fingerprinted value whose dependency was retired stays outdated, and every
  get of it fails with "query dependency was retired" (`dependency.rs:247`) until
  it is itself invalidated, unless an earlier dependency turns out red.
* The removal of a dead process's temporary journal is one step: what a kill in
  the middle leaves of it has the same name, and the next scan removes it.
* `Drop` of an executor on one of its own workers, which leaves that worker
  unjoined (`executor.rs:283-284`), is left out.
* Steps that are merged because nothing can tell them apart: `record_failure`
  after a failed provider's slot is unlocked, the thread-local depth and the count
  of a memory permit. Internal errors that are left out: a provider whose value
  does not fit its fingerprint policy (`database.rs:755-803`), a batch of the
  coordinator that fails as a whole or returns another number of outcomes
  (`scheduling.rs:536-555`).
* Kills are of processes: what was written stays written. Power loss and the
  order of `fsync` are left out.

## 6. Not modelled, and the plan

Next:

1. Owned and published slots, `seal_and_retire_predecessor` and
   `invalidate_scope` of `QueryEngine`; completion streams of `QueryExecutor`,
   which drain as a batch does.
2. The action, configure and runner caches: records that are looked up, retired
   and replaced under the entry's lock.

Left out for good: the syntax, analysis and code generation passes (sequential
functions over large data, by far the greatest part of the repository's lines;
parts have Lean models under `formal/`), command lines, subprocesses, network and
terminal output. Timings, traces and the wording of errors are left out of the
modelled parts, and so are checksums, path and name validation of journals and
plans. A failed execution budget or action budget (over-release) is left out
because `PermitsCounted` and `PermitsExclude` exclude it.
