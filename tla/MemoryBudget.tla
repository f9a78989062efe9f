---------------------------- MODULE MemoryBudget ----------------------------
(***************************************************************************)
(* The process-wide budget for concurrent LLVM lanes                       *)
(* (crates/nia-query/src/resources.rs).                                    *)
(*                                                                         *)
(* A thread that runs LLVM holds a permit.  Permits nest on one thread and *)
(* only the outermost one is counted; it is granted while the count is     *)
(* below the capacity and, beside other permits, only while the machine    *)
(* has enough memory available.  Available memory is read anew at every    *)
(* test and changes without telling anybody: the only wake-up is the       *)
(* notify_all of a released permit.                                        *)
(***************************************************************************)
EXTENDS Naturals, FiniteSets

CONSTANTS
    Threads,
    Cpus,           \* available_parallelism
    Limit,          \* effective_memory_limit_bytes, or Unknown
    LaneMemory,     \* LLVM_INCREMENTAL_LANE_MEMORY_BYTES
    MaxLanes,       \* MAX_PARALLEL_LLVM_TASKS
    Minimum,        \* minimum_available_bytes
    Available,      \* what effective_available_memory_bytes may return
    Unknown,        \* it could not be read
    MaxDepth        \* bound on the nesting of permits

ASSUME ThreadsAssumption == IsFiniteSet(Threads)
ASSUME MachineAssumption ==
    /\ Cpus \in Nat \ {0} /\ LaneMemory \in Nat \ {0} /\ MaxLanes \in Nat \ {0}
    /\ Limit \in Nat \cup {Unknown} /\ Unknown \notin Nat
    /\ Minimum \in Nat /\ Available \subseteq Nat \cup {Unknown}
ASSUME MaxDepthAssumption == MaxDepth \in Nat \ {0}

VARIABLES
    active,     \* MemoryBudgetState.active
    depth,      \* MEMORY_BUDGET_DEPTHS of each thread, for this budget
    pc,         \* "run", "acquire" in the loop of acquire, "notify" in Drop
    asleep,     \* threads blocked in ready.wait
    failed      \* a failure was recorded

vars == <<active, depth, pc, asleep, failed>>

AtMost(a, b) == IF a <= b THEN a ELSE b
AtLeast(a, b) == IF a >= b THEN a ELSE b

(* Faulty: the half for shared state is not set aside. *)
TaskCapacityOfAll(cpus, limit) ==
    LET cpu_capacity    == AtMost(AtLeast(cpus, 1), MaxLanes)
        memory_capacity == IF limit = Unknown THEN 1 ELSE AtLeast(limit \div LaneMemory, 1)
    IN  AtLeast(AtMost(cpu_capacity, memory_capacity), 1)

memory_task_capacity(cpus, limit) ==
    LET cpu_capacity    == AtMost(AtLeast(cpus, 1), MaxLanes)
        memory_capacity == IF limit = Unknown THEN 1
                           ELSE AtLeast((limit \div 2) \div LaneMemory, 1)
    IN  AtLeast(AtMost(cpu_capacity, memory_capacity), 1)

Capacity == memory_task_capacity(Cpus, Limit)

(* Faulty: pressure also refuses the only permit. *)
PressureAlways(others, available) ==
    available = Unknown \/ available >= Minimum

memory_pressure_allows(others, available) ==
    others = 0 \/ available = Unknown \/ available >= Minimum

Init ==
    /\ active = 0
    /\ depth = [t \in Threads |-> 0]
    /\ pc = [t \in Threads |-> "run"]
    /\ asleep = {}
    /\ failed = FALSE

Goto(t, l) == pc' = [pc EXCEPT ![t] = l]

-----------------------------------------------------------------------------
(* acquire *)

(* A failed budget hands out nothing: the caller gets the error. *)
Request(t) ==
    /\ pc[t] = "run" /\ depth[t] = 0
    /\ ~failed
    /\ Goto(t, "acquire")
    /\ UNCHANGED <<active, depth, asleep, failed>>

(* Faulty: the inner permit is counted as well. *)
AcquireNestedCounting(t) ==
    /\ pc[t] = "run" /\ depth[t] \in 1 .. (MaxDepth - 1)
    /\ ~failed
    /\ depth' = [depth EXCEPT ![t] = @ + 1]
    /\ active' = active + 1
    /\ UNCHANGED <<pc, asleep, failed>>

AcquireNested(t) ==
    /\ pc[t] = "run" /\ depth[t] \in 1 .. (MaxDepth - 1)
    /\ ~failed
    /\ depth' = [depth EXCEPT ![t] = @ + 1]
    /\ UNCHANGED <<active, pc, asleep, failed>>

Refused(available) == active >= Capacity \/ ~memory_pressure_allows(active, available)

AcquireWait(t, available) ==
    /\ pc[t] = "acquire" /\ t \notin asleep
    /\ Refused(available)
    /\ asleep' = asleep \cup {t}
    /\ UNCHANGED <<active, depth, pc, failed>>

Acquire(t, available) ==
    /\ pc[t] = "acquire" /\ t \notin asleep
    /\ ~Refused(available)
    /\ active' = active + 1
    /\ depth' = [depth EXCEPT ![t] = 1]
    /\ Goto(t, "run")
    /\ UNCHANGED <<asleep, failed>>

-----------------------------------------------------------------------------
(* Drop for ProcessMemoryPermit *)

ReleaseNested(t) ==
    /\ pc[t] = "run" /\ depth[t] > 1
    /\ depth' = [depth EXCEPT ![t] = @ - 1]
    /\ UNCHANGED <<active, pc, asleep, failed>>

(* Faulty: nobody is told. *)
ReleaseSilently(t) ==
    /\ pc[t] = "run" /\ depth[t] = 1
    /\ depth' = [depth EXCEPT ![t] = 0]
    /\ active' = active - 1
    /\ UNCHANGED <<pc, asleep, failed>>

Release(t) ==
    /\ pc[t] = "run" /\ depth[t] = 1
    /\ depth' = [depth EXCEPT ![t] = 0]
    /\ IF active = 0               \* "process memory budget active count underflow"
         THEN /\ failed' = TRUE   \* record_failure sends the sleepers home
              /\ pc' = [u \in Threads |-> IF u \in asleep THEN "run" ELSE pc[u]]
              /\ asleep' = {}
              /\ UNCHANGED active
         ELSE active' = active - 1 /\ Goto(t, "notify") /\ UNCHANGED <<asleep, failed>>

(* ready.notify_all(), after the mutex was released. *)
NotifyAll(t) ==
    /\ pc[t] = "notify"
    /\ asleep' = {}
    /\ Goto(t, "run")
    /\ UNCHANGED <<active, depth, failed>>

-----------------------------------------------------------------------------
Step(t) ==
    \/ \E available \in Available : AcquireWait(t, available) \/ Acquire(t, available)
    \/ NotifyAll(t)

Next ==
    \E t \in Threads :
        \/ Request(t) \/ AcquireNested(t) \/ ReleaseNested(t) \/ Release(t)
        \/ Step(t)

Spec == Init /\ [][Next]_vars

(* A thread inside acquire or Drop keeps running, and an LLVM task ends.   *)
Fairness ==
    \A t \in Threads :
        /\ WF_vars(Step(t))
        /\ SF_vars(Release(t)) /\ WF_vars(ReleaseNested(t))

LiveSpec == Spec /\ Fairness

-----------------------------------------------------------------------------
(* Every variable has its type; the count stays within the capacity. *)
TypeOK ==
    /\ active \in 0 .. Capacity
    /\ depth \in [Threads -> Nat]
    /\ pc \in [Threads -> {"run", "acquire", "notify"}]
    /\ asleep \subseteq Threads
    /\ failed \in BOOLEAN

Holders == {t \in Threads : depth[t] > 0}

(* The count is the number of threads that hold a permit, however deep it  *)
(* is nested, and Drop never finds the underflow it tests for              *)
(* ("only the outer lease consumes capacity", resources.rs).               *)
PermitsCounted == active = Cardinality(Holders) /\ ~failed

(* The lanes that run beside the first one fit into half of the memory     *)
(* limit ("Reserve half of visible memory for that shared state"), and     *)
(* without a known limit there is one lane.                                *)
LanesFitMemory ==
    Cardinality(Holders) > 1 =>
        Limit # Unknown /\ 2 * LaneMemory * Cardinality(Holders) <= Limit

(* Nobody sleeps without a waker: as long as a thread sleeps, another one  *)
(* holds a permit, or is about to notify.  Memory that becomes available   *)
(* wakes nobody, so this is all a sleeper can count on.                    *)
SleepersHaveWaker ==
    asleep # {} => Holders # {} \/ \E t \in Threads : pc[t] = "notify"

(* However little memory is available, every acquire returns once no new   *)
(* ones are made: the last holder's release always admits somebody.        *)
AcquiresReturn ==
    <>[][\A t \in Threads : pc[t] # "acquire" => pc'[t] # "acquire"]_vars =>
        \A t \in Threads : pc[t] = "acquire" ~> pc[t] = "run"

=============================================================================
