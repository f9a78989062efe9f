----------------------------- MODULE QueryEngine -----------------------------
(***************************************************************************)
(* Shared query slots, the dependency graph and red/green invalidation     *)
(* (crates/nia-query/src/database.rs, dependency.rs, and the slot states   *)
(* of lib.rs), with any number of threads inside get at once.              *)
(*                                                                         *)
(* One action is one critical section of a slot's mutex or of the graph's  *)
(* mutex, or one thread-local step of a provider.  A thread's call stack   *)
(* holds one frame per get in progress, innermost first; the frames whose  *)
(* provider or validation runs are exactly its QUERY_STACK.                *)
(*                                                                         *)
(* Providers are the compiler's: NextRead(n, values) is the query the      *)
(* provider of n requests after it has read these values (Done when it has *)
(* all it needs), Provide(n, cell, values) the value it then returns, cell *)
(* being what it reads of the database's context.                          *)
(***************************************************************************)
EXTENDS Integers, Sequences, FiniteSets

CONSTANTS
    Nodes,              \* query nodes; their order is that of node indices
    Inputs,             \* nodes whose provider reads a cell of the context
    Values,             \* values of queries and of cells
    Policy,             \* QueryFingerprintPolicy of each node
    NextRead(_, _),
    Provide(_, _, _),
    Done,
    MaxReads,           \* the most queries an execution of a provider reads
    Fallible,           \* nodes whose provider may reject its input
    Broken,             \* nodes whose provider may hit an internal error
    Threads,
    MaxChanges,         \* bound on the changes of the context and the retirements
    Overlapping         \* may db.invalidate run beside queries?

ASSUME NodesAssumption == Nodes \subseteq Nat /\ IsFiniteSet(Nodes) /\ Done \notin Nodes
ASSUME InputsAssumption == Inputs \cup Fallible \cup Broken \subseteq Nodes
ASSUME ValuesAssumption == Values \subseteq Nat /\ Values # {}
ASSUME PolicyAssumption ==
    Policy \in [Nodes -> {"None", "StableValue", "SemanticValue"}]
ASSUME BoundsAssumption == MaxChanges \in Nat /\ Overlapping \in BOOLEAN

(* The values an execution of a provider may have read. *)
ReadValues == UNION {[1 .. k -> Values] : k \in 0 .. MaxReads}

(* A provider reads queries until it has all it needs, then returns.       *)
ASSUME ProvidersAssumption ==
    /\ MaxReads \in Nat
    /\ \A n \in Nodes : \A reads \in ReadValues :
        /\ NextRead(n, reads) \in Nodes \cup {Done}
        /\ Len(reads) = MaxReads => NextRead(n, reads) = Done
        /\ NextRead(n, reads) = Done =>
            \A c \in IF n \in Inputs THEN Values ELSE {0} : Provide(n, c, reads) \in Values

VARIABLES
    slot,       \* QuerySlot.state of each node
    revision,   \* QuerySlot.fingerprint_revision
    forward,    \* QueryDependencyGraph.forward, {} where the map has no entry
    reverse,    \* QueryDependencyGraph.reverse
    stack,      \* the gets in progress on each thread
    task,       \* the invalidation in progress on each thread
    cell,       \* the context the input providers read
    changes,    \* changes of the context and retirements so far
    poisoned    \* QuerySessionInner.internal_failure

graph == <<forward, reverse>>
vars == <<slot, revision, forward, reverse, stack, task, cell, changes, poisoned>>

-----------------------------------------------------------------------------
(* Fingerprints.  A stable fingerprint identifies the value (hashing is    *)
(* taken to be free of collisions), a semantic one is a revision number of *)
(* the slot; both are only ever compared with fingerprints of that node.   *)
NoFingerprint == -1

(* Evidence about a node that has been retired since: its number is never  *)
(* given to another node.                                                  *)
RetiredNode == -2

NoFingerprints == [d \in {} |-> NoFingerprint]

(* A slot: its state, the "invalidated" flag of Computing and Validating,  *)
(* and the payload of Ready and PotentiallyOutdated.                       *)
Payload(value, fingerprint, fingerprints) ==
    [value |-> value, fingerprint |-> fingerprint, deps |-> fingerprints]

NoPayload == Payload(NoFingerprint, NoFingerprint, NoFingerprints)

Slot(state, payload) == [state |-> state, invalidated |-> FALSE, payload |-> payload]

Empty == Slot("Empty", NoPayload)
Computing == Slot("Computing", NoPayload)
Validating == Slot("Validating", NoPayload)
Ready(payload) == Slot("Ready", payload)
PotentiallyOutdated(payload) == Slot("PotentiallyOutdated", payload)

Busy(n) == slot[n].state \in {"Computing", "Validating"}

(* An invalidation: "check" compares an input with its new value,          *)
(* "collect" finds the dependents, "root" and "mark" touch their slots.    *)
Task(step, root, value) ==
    [step |-> step, root |-> root, value |-> value, todo |-> {}, cleared |-> {}]

NoTask == Task("none", NoFingerprint, NoFingerprint)

Init ==
    /\ slot = [n \in Nodes |-> Empty]
    /\ revision = [n \in Nodes |-> 0]
    /\ forward = [n \in Nodes |-> {}]
    /\ reverse = [n \in Nodes |-> {}]
    /\ stack = [t \in Threads |-> <<>>]
    /\ task = [t \in Threads |-> NoTask]
    /\ cell \in [Inputs -> Values]
    /\ changes = 0
    /\ poisoned = FALSE

-----------------------------------------------------------------------------
(* Frames.                                                                 *)
(*  "lookup"   about to lock the slot                                      *)
(*  "wait"     in slot.ready.wait          "woken"    notified             *)
(*  "clear"    slot is Computing, old edges still recorded                 *)
(*  "run"      provider runs               "publish"  provider returned    *)
(*  "fail"     provider failed             "ice"      with a first         *)
(*             internal error                                              *)
(*  "validate" validating dependencies     "compare"  one was ensured      *)
(*  "red"      a dependency changed        "error"    one failed           *)

NoStale == NoPayload

Frame(n) ==
    [node |-> n, phase |-> "lookup", reads |-> <<>>, deps |-> NoFingerprints,
     kept |-> NoPayload, todo |-> {}, stale |-> NoStale]

Top(t) == Head(stack[t])
At(t, phase) == stack[t] # <<>> /\ Top(t).phase = phase

(* The thread's stack with its top frame replaced. *)
WithTop(t, frame) == [stack EXCEPT ![t] = <<frame>> \o Tail(@)]
InPhase(t, phase) == WithTop(t, [Top(t) EXCEPT !.phase = phase])

(* record_dependency_fingerprint_on_current_stack *)
Recorded(deps, n, fingerprint) ==
    [d \in DOMAIN deps \cup {n} |-> IF d = n THEN fingerprint ELSE deps[d]]

(* What a caller's frame becomes when the get it made returns a value. *)
Received(frame, n, value, fingerprint) ==
    IF frame.phase = "run"
      THEN [frame EXCEPT !.reads = Append(@, value),
                         !.deps = Recorded(@, n, fingerprint)]
      ELSE [frame EXCEPT !.phase = "compare"]

(* get returns: the caller, if there is one, receives the value ... *)
Returned(t, value, fingerprint) ==
    LET rest == Tail(stack[t])
    IN  IF rest = <<>> THEN rest
        ELSE <<Received(Head(rest), Top(t).node, value, fingerprint)>> \o Tail(rest)

(* ... or the error: a provider passes it on, a validation gives up. *)
Raised(t) ==
    LET rest == Tail(stack[t])
    IN  IF rest = <<>> THEN rest
        ELSE <<[Head(rest) EXCEPT !.phase = IF @ = "run" THEN "fail" ELSE "error"]>>
             \o Tail(rest)

(* slot.ready.notify_all() *)
Notified(stacks, n) ==
    [u \in Threads |->
        IF stacks[u] # <<>> /\ Head(stacks[u]).phase = "wait" /\ Head(stacks[u]).node = n
          THEN <<[Head(stacks[u]) EXCEPT !.phase = "woken"]>> \o Tail(stacks[u])
          ELSE stacks[u]]

SetSlot(n, state) == slot' = [slot EXCEPT ![n] = state]

-----------------------------------------------------------------------------
(* The dependency graph. *)

(* Both directions with every edge out of the nodes of S removed. *)
RemovedForward(S) == [n \in Nodes |-> IF n \in S THEN {} ELSE forward[n]]
RemovedReverse(S) == [n \in Nodes |-> reverse[n] \ S]

remove_dependencies_from(S) ==
    /\ forward' = RemovedForward(S)
    /\ reverse' = RemovedReverse(S)

replace_dependencies_from(n, targets) ==
    /\ forward' = [forward EXCEPT ![n] = targets]
    /\ reverse' = [d \in Nodes |-> IF d \in targets THEN reverse[d] \cup {n}
                                                    ELSE reverse[d] \ {n}]

(* Faulty: only the direct readers. *)
CollectDirectReaders(root) == {root} \cup reverse[root]

(* The root and everything that reads it, directly or not. *)
collect_dependents(root) ==
    {n \in Nodes : \A S \in SUBSET Nodes :
        root \in S /\ (\A m \in S : reverse[m] \subseteq S) => n \in S}

-----------------------------------------------------------------------------
(* The wait-for graph: QueryWaitGraph shows that its counts are exactly    *)
(* the guards, so the edges are read off the blocked threads here.         *)

Waiting(t) == At(t, "wait") \/ At(t, "woken")

WaitEdges ==
    {<<stack[t][2].node, Top(t).node>> : t \in {u \in Threads : Waiting(u) /\ Len(stack[u]) > 1}}

WaitReach(n) ==
    {m \in Nodes : \A S \in SUBSET Nodes :
        n \in S /\ (\A e \in WaitEdges : e[1] \in S => e[2] \in S) => m \in S}

OnStack(t, n) == \E i \in 2 .. Len(stack[t]) : stack[t][i].node = n

(* check_not_recursive_node, then begin_query_wait. *)
ClosesCycle(t, n) ==
    \/ OnStack(t, n)
    \/ Len(stack[t]) > 1 /\ stack[t][2].node \in WaitReach(n)

-----------------------------------------------------------------------------
(* get and try_get_cached. *)

Lookup(t, states) == At(t, "lookup") /\ slot[Top(t).node].state \in states

(* A top-level get, admitted while the session is healthy. *)
Request(t, n) ==
    /\ stack[t] = <<>> /\ task[t] = NoTask
    /\ ~poisoned
    /\ stack' = [stack EXCEPT ![t] = <<Frame(n)>>]
    /\ UNCHANGED <<slot, revision, graph, task, cell, changes, poisoned>>

LookupReady(t) ==
    /\ Lookup(t, {"Ready"})
    /\ LET hit == slot[Top(t).node].payload
       IN  stack' = [stack EXCEPT ![t] = Returned(t, hit.value, hit.fingerprint)]
    /\ UNCHANGED <<slot, revision, graph, task, cell, changes, poisoned>>

(* The old payload moves from the slot into the validating frame. *)
LookupOutdated(t) ==
    /\ Lookup(t, {"PotentiallyOutdated"})
    /\ LET old == slot[Top(t).node].payload
       IN  stack' = WithTop(t, [Top(t) EXCEPT !.phase = "validate", !.kept = old,
                                              !.todo = DOMAIN old.deps])
    /\ SetSlot(Top(t).node, Validating)
    /\ UNCHANGED <<revision, graph, task, cell, changes, poisoned>>

(* Faulty: waits without asking the wait-for graph. *)
LookupBusyBlind(t) ==
    /\ Lookup(t, {"Computing", "Validating"})
    /\ ~OnStack(t, Top(t).node)
    /\ stack' = InPhase(t, "wait")
    /\ UNCHANGED <<slot, revision, graph, task, cell, changes, poisoned>>

(* Another thread works on the slot: wait for it, unless that would close  *)
(* a cycle.                                                                *)
LookupBusy(t) ==
    /\ Lookup(t, {"Computing", "Validating"})
    /\ ~ClosesCycle(t, Top(t).node)
    /\ stack' = InPhase(t, "wait")
    /\ UNCHANGED <<slot, revision, graph, task, cell, changes, poisoned>>

(* Faulty: the cycle is taken for contention and the lookup tried again. *)
LookupCycleSpinning(t) ==
    /\ Lookup(t, {"Computing", "Validating"})
    /\ ClosesCycle(t, Top(t).node)
    /\ stack' = InPhase(t, "woken")
    /\ UNCHANGED <<slot, revision, graph, task, cell, changes, poisoned>>

LookupCycle(t) ==
    /\ Lookup(t, {"Computing", "Validating"})
    /\ ClosesCycle(t, Top(t).node)
    /\ stack' = [stack EXCEPT ![t] = Raised(t)]
    /\ UNCHANGED <<slot, revision, graph, task, cell, changes, poisoned>>

(* The wait returned, its QueryWaitGuard is dropped, the loop starts over. *)
WakeUp(t) ==
    /\ At(t, "woken")
    /\ stack' = InPhase(t, "lookup")
    /\ UNCHANGED <<slot, revision, graph, task, cell, changes, poisoned>>

LookupEmpty(t) ==
    /\ Lookup(t, {"Empty"})
    /\ SetSlot(Top(t).node, Computing)
    /\ stack' = InPhase(t, "clear")
    /\ UNCHANGED <<revision, graph, task, cell, changes, poisoned>>

(* clear_dependencies_from and enter_query, after the slot was unlocked. *)
StartProvider(t) ==
    /\ At(t, "clear")
    /\ remove_dependencies_from({Top(t).node})
    /\ stack' = InPhase(t, "run")
    /\ UNCHANGED <<slot, revision, task, cell, changes, poisoned>>

-----------------------------------------------------------------------------
(* The provider. *)

NextOf(frame) == NextRead(frame.node, frame.reads)

(* What the provider of n sees of the context. *)
Context(n) == IF n \in Inputs THEN cell[n] ELSE 0

(* The provider requests a query.  The read is recorded, still without a   *)
(* fingerprint, before the slot is looked at.                              *)
ProviderReads(t) ==
    /\ At(t, "run") /\ NextOf(Top(t)) # Done
    /\ ~poisoned
    /\ LET d     == NextOf(Top(t))
           deps  == IF d \in DOMAIN Top(t).deps THEN Top(t).deps
                    ELSE Recorded(Top(t).deps, d, NoFingerprint)
       IN  stack' = [stack EXCEPT ![t] =
                        <<Frame(d), [Top(t) EXCEPT !.deps = deps]>> \o Tail(@)]
    /\ UNCHANGED <<slot, revision, graph, task, cell, changes, poisoned>>

(* ensure_healthy refuses the nested get. *)
ProviderRefused(t) ==
    /\ At(t, "run") /\ NextOf(Top(t)) # Done
    /\ poisoned
    /\ stack' = InPhase(t, "fail")
    /\ UNCHANGED <<slot, revision, graph, task, cell, changes, poisoned>>

ProviderReturns(t) ==
    /\ At(t, "run") /\ NextOf(Top(t)) = Done
    /\ LET value == Provide(Top(t).node, Context(Top(t).node), Top(t).reads)
       IN  stack' = WithTop(t, [Top(t) EXCEPT !.phase = "publish", !.kept.value = value])
    /\ UNCHANGED <<slot, revision, graph, task, cell, changes, poisoned>>

ProviderFails(t) ==
    /\ At(t, "run")
    /\ \/ Top(t).node \in Fallible /\ stack' = InPhase(t, "fail")
       \/ Top(t).node \in Broken /\ stack' = InPhase(t, "ice")
    /\ UNCHANGED <<slot, revision, graph, task, cell, changes, poisoned>>

(* The fingerprint of a computed value: none, the value's own, or a fresh  *)
(* revision unless the value equals the one a red validation left behind.  *)
(* A key returns what its policy asks for, so the policy mismatches, which *)
(* are internal errors, do not arise.                                      *)
KeepsStale(frame) == frame.stale # NoStale /\ frame.stale.value = frame.kept.value

FingerprintOf(frame) ==
    IF Policy[frame.node] = "None" THEN NoFingerprint
    ELSE IF Policy[frame.node] = "StableValue" THEN frame.kept.value
    ELSE IF KeepsStale(frame) THEN frame.stale.fingerprint
    ELSE revision[frame.node]

TakeRevision(frame) ==
    revision' = IF Policy[frame.node] = "SemanticValue" /\ ~KeepsStale(frame)
                  THEN [revision EXCEPT ![frame.node] = @ + 1]
                  ELSE revision

(* Faulty: edges only where fingerprints are kept. *)
PublishEvidenceEdges(t) ==
    /\ At(t, "publish")
    /\ LET frame       == Top(t)
           n           == frame.node
           fingerprint == FingerprintOf(frame)
           deps        == IF Policy[n] = "None" THEN NoFingerprints ELSE frame.deps
       IN  /\ ~slot[n].invalidated
           /\ SetSlot(n, Ready(Payload(frame.kept.value, fingerprint, deps)))
           /\ replace_dependencies_from(n, DOMAIN deps)
           /\ TakeRevision(frame)
           /\ stack' = Notified([stack EXCEPT ![t] =
                                    Returned(t, frame.kept.value, fingerprint)], n)
    /\ UNCHANGED <<task, cell, changes, poisoned>>

(* The slot is locked again and was not invalidated meanwhile: edges and   *)
(* value are published together.                                           *)
Publish(t) ==
    /\ At(t, "publish")
    /\ LET frame       == Top(t)
           n           == frame.node
           fingerprint == FingerprintOf(frame)
           deps        == IF Policy[n] = "None" THEN NoFingerprints ELSE frame.deps
       IN  /\ ~slot[n].invalidated
           /\ SetSlot(n, Ready(Payload(frame.kept.value, fingerprint, deps)))
           /\ replace_dependencies_from(n, DOMAIN frame.deps)
           /\ TakeRevision(frame)
           /\ stack' = Notified([stack EXCEPT ![t] =
                                    Returned(t, frame.kept.value, fingerprint)], n)
    /\ UNCHANGED <<task, cell, changes, poisoned>>

(* It was invalidated: the caller that did the work gets the value, the    *)
(* cache does not, and the caller's own evidence gets no fingerprint.      *)
DiscardResult(t) ==
    /\ At(t, "publish")
    /\ LET frame == Top(t)
           n     == frame.node
       IN  /\ slot[n].invalidated
           /\ SetSlot(n, Empty)
           /\ remove_dependencies_from({n})
           /\ TakeRevision(frame)
           /\ stack' = Notified([stack EXCEPT ![t] =
                                    Returned(t, frame.kept.value, NoFingerprint)], n)
    /\ UNCHANGED <<task, cell, changes, poisoned>>

(* Faulty: waiters are not told of the failure. *)
FailSilently(t) ==
    /\ At(t, "fail") \/ At(t, "ice")
    /\ LET n == Top(t).node
       IN  /\ SetSlot(n, Empty)
           /\ remove_dependencies_from({n})
           /\ stack' = [stack EXCEPT ![t] = Raised(t)]
    /\ poisoned' = (poisoned \/ At(t, "ice"))
    /\ UNCHANGED <<revision, task, cell, changes>>

(* The provider failed: nothing speculative stays behind, and an internal  *)
(* error poisons the session.  record_failure, which follows the unlocking *)
(* of the slot, is taken into the same step.                               *)
Fail(t) ==
    /\ At(t, "fail") \/ At(t, "ice")
    /\ LET n == Top(t).node
       IN  /\ SetSlot(n, Empty)
           /\ remove_dependencies_from({n})
           /\ stack' = Notified([stack EXCEPT ![t] = Raised(t)], n)
    /\ poisoned' = (poisoned \/ At(t, "ice"))
    /\ UNCHANGED <<revision, task, cell, changes>>

-----------------------------------------------------------------------------
(* Validation of a potentially outdated value: dependency_validation_failure *)
(* ensures the dependencies in the order of their indices.                 *)

NextDependency(frame) == CHOOSE d \in frame.todo : \A e \in frame.todo : d <= e

(* A dependency without fingerprint cannot be compared: red at once. *)
ValidateUnfingerprinted(t) ==
    /\ At(t, "validate") /\ Top(t).todo # {}
    /\ Top(t).kept.deps[NextDependency(Top(t))] = NoFingerprint
    /\ stack' = InPhase(t, "red")
    /\ UNCHANGED <<slot, revision, graph, task, cell, changes, poisoned>>

(* The dependency is ensured; one that was retired cannot be. *)
ValidateEnsures(t) ==
    /\ At(t, "validate") /\ Top(t).todo # {}
    /\ Top(t).kept.deps[NextDependency(Top(t))] # NoFingerprint
    /\ stack' = IF poisoned \/ Top(t).kept.deps[NextDependency(Top(t))] = RetiredNode
                THEN InPhase(t, "error")
                ELSE [stack EXCEPT ![t] = <<Frame(NextDependency(Top(t)))>> \o @]
    /\ UNCHANGED <<slot, revision, graph, task, cell, changes, poisoned>>

(* node_fingerprint locks the dependency's slot again, after ensure. *)
CurrentFingerprint(d) ==
    IF slot[d].state = "Ready" THEN slot[d].payload.fingerprint ELSE NoFingerprint

Compare(t) ==
    /\ At(t, "compare")
    /\ LET frame == Top(t)
           d     == NextDependency(frame)
       IN  stack' = IF CurrentFingerprint(d) = frame.kept.deps[d]
                      THEN WithTop(t, [frame EXCEPT !.phase = "validate",
                                                    !.todo = @ \ {d}])
                      ELSE InPhase(t, "red")
    /\ UNCHANGED <<slot, revision, graph, task, cell, changes, poisoned>>

(* Every dependency is as it was and nobody invalidated the slot. *)
SettleGreen(t) ==
    /\ At(t, "validate") /\ Top(t).todo = {}
    /\ LET frame == Top(t)
           n     == frame.node
       IN  /\ ~slot[n].invalidated
           /\ SetSlot(n, Ready(frame.kept))
           /\ stack' = Notified([stack EXCEPT ![t] =
                            Returned(t, frame.kept.value, frame.kept.fingerprint)], n)
    /\ UNCHANGED <<revision, graph, task, cell, changes, poisoned>>

(* Otherwise the payload becomes the stale value and the loop recomputes. *)
SettleRed(t) ==
    /\ \/ At(t, "red")
       \/ At(t, "validate") /\ Top(t).todo = {} /\ slot[Top(t).node].invalidated
    /\ LET frame == Top(t)
           n     == frame.node
       IN  /\ SetSlot(n, Empty)
           /\ stack' = Notified(WithTop(t, [Frame(n) EXCEPT
                           !.stale = [frame.kept EXCEPT !.deps = NoFingerprints]]), n)
    /\ UNCHANGED <<revision, graph, task, cell, changes, poisoned>>

(* A dependency could not be ensured: the payload goes back, unless the    *)
(* slot was invalidated.                                                   *)
SettleError(t) ==
    /\ At(t, "error")
    /\ LET frame == Top(t)
           n     == frame.node
       IN  /\ IF slot[n].invalidated
                THEN SetSlot(n, Empty) /\ remove_dependencies_from({n})
                ELSE SetSlot(n, PotentiallyOutdated(frame.kept)) /\ UNCHANGED graph
           /\ stack' = Notified([stack EXCEPT ![t] = Raised(t)], n)
    /\ UNCHANGED <<revision, task, cell, changes, poisoned>>

-----------------------------------------------------------------------------
(* Invalidation.  Slots are touched one critical section at a time; the    *)
(* edges of those that lost their value go in one section at the end.      *)

(* Faulty: the slot is taken away from whoever works on it. *)
InvalidatedByForce(s) == Empty

(* ErasedQuerySlot::invalidate, for the changed root. *)
Invalidated(s) ==
    IF s.state \in {"Computing", "Validating"} THEN [s EXCEPT !.invalidated = TRUE]
    ELSE Empty

(* mark_potentially_outdated, for a dependent: a fingerprinted value stays *)
(* as evidence.                                                            *)
HasEvidence(s) ==
    \/ s.state = "Ready" /\ s.payload.fingerprint # NoFingerprint
    \/ s.state = "PotentiallyOutdated"

Marked(s) == IF HasEvidence(s) THEN PotentiallyOutdated(s.payload) ELSE Invalidated(s)

(* Some caller changes the context of input n and reports it, with         *)
(* validate_input or with invalidate, while other threads run queries.     *)
ChangeInput(t, n, v) ==
    /\ Overlapping
    /\ stack[t] = <<>> /\ task[t] = NoTask
    /\ changes < MaxChanges /\ cell[n] # v
    /\ cell' = [cell EXCEPT ![n] = v]
    /\ changes' = changes + 1
    /\ \E step \in IF Policy[n] = "StableValue" THEN {"check", "collect"} ELSE {"collect"} :
          task' = [task EXCEPT ![t] = Task(step, n, Provide(n, v, <<>>))]
    /\ UNCHANGED <<slot, revision, graph, stack, poisoned>>

(* Faulty: a slot being computed is taken for green. *)
CheckInputTrusting(t) ==
    /\ task[t].step = "check"
    /\ LET n     == task[t].root
           green == Busy(n) \/ slot[n].payload.fingerprint = task[t].value
       IN  /\ slot' = IF slot[n].state = "PotentiallyOutdated" /\ green
                        THEN [slot EXCEPT ![n] = Ready(@.payload)]
                        ELSE slot
           /\ task' = [task EXCEPT ![t] =
                         IF slot[n].state = "Empty" \/ green
                           THEN NoTask ELSE [@ EXCEPT !.step = "collect"]]
    /\ UNCHANGED <<revision, graph, stack, cell, changes, poisoned>>

(* validate_input: an input that still has this fingerprint is green. *)
CheckInput(t) ==
    /\ task[t].step = "check"
    /\ LET n     == task[t].root
           green == slot[n].payload.fingerprint = task[t].value
       IN  /\ slot' = IF slot[n].state = "PotentiallyOutdated" /\ green
                        THEN [slot EXCEPT ![n] = Ready(@.payload)]
                        ELSE slot
           /\ task' = [task EXCEPT ![t] =
                         IF slot[n].state = "Empty" \/ (~Busy(n) /\ green)
                           THEN NoTask ELSE [@ EXCEPT !.step = "collect"]]
    /\ UNCHANGED <<revision, graph, stack, cell, changes, poisoned>>

(* collect_invalidated_nodes, under the graph's lock. *)
CollectDependents(t) ==
    /\ task[t].step = "collect"
    /\ task' = [task EXCEPT ![t].step = "root",
                            ![t].todo = collect_dependents(task[t].root) \ {task[t].root}]
    /\ UNCHANGED <<slot, revision, graph, stack, cell, changes, poisoned>>

InvalidateRoot(t) ==
    /\ task[t].step = "root"
    /\ LET n == task[t].root
       IN  /\ SetSlot(n, Invalidated(slot[n]))
           /\ stack' = IF slot[n].state \in {"Ready", "PotentiallyOutdated"}
                         THEN Notified(stack, n) ELSE stack
           /\ task' = [task EXCEPT ![t].step = "mark", ![t].cleared = {n}]
    /\ UNCHANGED <<revision, graph, cell, changes, poisoned>>

MarkDependent(t, n) ==
    /\ task[t].step = "mark" /\ n \in task[t].todo
    /\ SetSlot(n, Marked(slot[n]))
    /\ stack' = IF Busy(n) \/ HasEvidence(slot[n]) THEN stack ELSE Notified(stack, n)
    /\ task' = [task EXCEPT ![t].todo = @ \ {n},
                            ![t].cleared = IF HasEvidence(slot[n]) THEN @ ELSE @ \cup {n}]
    /\ UNCHANGED <<revision, graph, cell, changes, poisoned>>

(* Faulty: only the root's edges go. *)
SweepRootEdges(t) ==
    /\ task[t].step = "mark" /\ task[t].todo = {}
    /\ remove_dependencies_from({task[t].root})
    /\ task' = [task EXCEPT ![t] = NoTask]
    /\ UNCHANGED <<slot, revision, stack, cell, changes, poisoned>>

SweepEdges(t) ==
    /\ task[t].step = "mark" /\ task[t].todo = {}
    /\ remove_dependencies_from(task[t].cleared)
    /\ task' = [task EXCEPT ![t] = NoTask]
    /\ UNCHANGED <<slot, revision, stack, cell, changes, poisoned>>

(* QueryRetirement::invalidate: the whole invalidation, with the change of *)
(* the context, while the barrier of QuerySession keeps every query out.   *)
ChangeDuringRetirement(n, v) ==
    /\ ~Overlapping
    /\ \A t \in Threads : stack[t] = <<>> /\ task[t] = NoTask
    /\ changes < MaxChanges /\ cell[n] # v
    /\ cell' = [cell EXCEPT ![n] = v]
    /\ changes' = changes + 1
    /\ LET affected == collect_dependents(n)
           cleared  == {n} \cup {m \in affected : ~HasEvidence(slot[m])}
       IN  /\ slot' = [m \in Nodes |-> IF m = n THEN Invalidated(slot[m])
                                       ELSE IF m \in affected THEN Marked(slot[m])
                                       ELSE slot[m]]
           /\ remove_dependencies_from(cleared)
    /\ UNCHANGED <<revision, stack, task, poisoned>>

(* Faulty: the key's next slot gets the number of the retired one. *)
KeptUnderSameNumber(s, n) == s

(* The node leaves the evidence: what was known of it is about a node that *)
(* no longer exists.                                                       *)
Forgotten(s, n) ==
    IF n \in DOMAIN s.payload.deps /\ s.payload.deps[n] # NoFingerprint
    THEN [s EXCEPT !.payload.deps[n] = RetiredNode] ELSE s

(* retire, under the barrier: the node is invalidated as a changed root,   *)
(* then its slot, with the revision, and its edges in both directions go.  *)
(* The key gets a new node with its next request; here it keeps its place  *)
(* in the order in which validation takes dependencies.                    *)
Retire(n) ==
    /\ ~Overlapping
    /\ \A t \in Threads : stack[t] = <<>> /\ task[t] = NoTask
    /\ changes < MaxChanges
    /\ changes' = changes + 1
    /\ LET affected == collect_dependents(n)
           cleared  == {n} \cup {m \in affected : ~HasEvidence(slot[m])}
       IN  /\ slot' = [m \in Nodes |-> IF m = n THEN Empty
                                       ELSE IF m \in affected THEN Forgotten(Marked(slot[m]), n)
                                       ELSE slot[m]]
           /\ forward' = [m \in Nodes |-> RemovedForward(cleared)[m] \ {n}]
           /\ reverse' = [RemovedReverse(cleared) EXCEPT ![n] = {}]
    /\ revision' = [revision EXCEPT ![n] = 0]
    /\ UNCHANGED <<stack, task, cell, poisoned>>

-----------------------------------------------------------------------------
(* One step of the get or the invalidation a thread has in progress. *)
Step(t) ==
    \/ LookupReady(t) \/ LookupOutdated(t) \/ LookupBusy(t) \/ LookupCycle(t)
    \/ LookupEmpty(t) \/ WakeUp(t)
    \/ StartProvider(t) \/ ProviderReads(t) \/ ProviderRefused(t)
    \/ ProviderReturns(t) \/ ProviderFails(t)
    \/ Publish(t) \/ DiscardResult(t) \/ Fail(t)
    \/ ValidateUnfingerprinted(t) \/ ValidateEnsures(t) \/ Compare(t)
    \/ SettleGreen(t) \/ SettleRed(t) \/ SettleError(t)
    \/ CheckInput(t) \/ CollectDependents(t) \/ InvalidateRoot(t)
    \/ (\E n \in Nodes : MarkDependent(t, n)) \/ SweepEdges(t)

Next ==
    \/ \E t \in Threads : Step(t)
    \/ \E t \in Threads, n \in Nodes : Request(t, n)
    \/ \E t \in Threads, n \in Inputs, v \in Values : ChangeInput(t, n, v)
    \/ \E n \in Inputs, v \in Values : ChangeDuringRetirement(n, v)
    \/ \E n \in Nodes : Retire(n)

Spec == Init /\ [][Next]_vars

(* A thread inside a get or an invalidation keeps running; nobody is bound *)
(* to make another request or change.                                      *)
Fairness == \A t \in Threads : WF_vars(Step(t))

LiveSpec == Spec /\ Fairness

-----------------------------------------------------------------------------
(* What the queries mean: the value a provider would return, and the       *)
(* queries it would read, if everything were computed from nothing in the  *)
(* current context.  (Defined where providers do not read in a circle.)    *)
Answer[n \in Nodes, reads \in Seq(Values)] ==
    LET d == NextRead(n, reads)
    IN  IF d = Done THEN Provide(n, Context(n), reads)
        ELSE Answer[n, Append(reads, Answer[d, <<>>])]

AnswerReads[n \in Nodes, reads \in Seq(Values)] ==
    LET d == NextRead(n, reads)
    IN  IF d = Done THEN {}
        ELSE {d} \cup AnswerReads[n, Append(reads, Answer[d, <<>>])]

Owning == {"clear", "run", "publish", "fail", "ice", "validate", "compare", "red", "error"}

(* Frame i of thread t works on the slot of n. *)
Owns(t, i, n) == stack[t][i].node = n /\ stack[t][i].phase \in Owning

Owners(n) == UNION {{t} \X {i \in 1 .. Len(stack[t]) : Owns(t, i, n)} : t \in Threads}

Fingerprints == Nat \cup {NoFingerprint}

PayloadOK(p) ==
    /\ p.value \in Values /\ p.fingerprint \in Fingerprints
    /\ DOMAIN p.deps \subseteq Nodes
    /\ \A d \in DOMAIN p.deps : p.deps[d] \in Fingerprints \cup {RetiredNode}

(* Type invariant: a slot holds a payload exactly in the states that have  *)
(* one, is flagged only while somebody works on it, and only fingerprinted *)
(* values are kept as outdated ones (QueryState, lib.rs).                  *)
TypeOK ==
    /\ \A n \in Nodes :
        /\ slot[n].state \in {"Empty", "Computing", "Validating", "Ready",
                              "PotentiallyOutdated"}
        /\ slot[n].invalidated => Busy(n)
        /\ IF slot[n].state \in {"Ready", "PotentiallyOutdated"}
             THEN PayloadOK(slot[n].payload) ELSE slot[n].payload = NoPayload
        /\ slot[n].state = "PotentiallyOutdated" =>
                slot[n].payload.fingerprint # NoFingerprint
    /\ revision \in [Nodes -> Nat]
    /\ forward \in [Nodes -> SUBSET Nodes] /\ reverse \in [Nodes -> SUBSET Nodes]
    /\ cell \in [Inputs -> Values] /\ changes \in 0 .. MaxChanges
    /\ poisoned \in BOOLEAN
    /\ \A t \in Threads :
        /\ \A i \in 1 .. Len(stack[t]) :
            /\ stack[t][i].node \in Nodes
            /\ i > 1 => stack[t][i].phase \in {"run", "validate"}
        /\ task[t].todo \cup task[t].cleared \subseteq Nodes
        /\ task[t] # NoTask => stack[t] = <<>>

(* Single flight: a slot is Computing or Validating exactly while one get, *)
(* on one thread, is working on it, so no provider of a node runs twice at *)
(* once and no slot is left busy with nobody to settle it; and whoever     *)
(* sleeps on a slot sleeps on one that somebody else is working on and     *)
(* will notify.  All variables keep their types.                           *)
OneComputer ==
    /\ TypeOK
    /\ \A n \in Nodes : IF Busy(n) THEN Cardinality(Owners(n)) = 1 ELSE Owners(n) = {}
    /\ \A t \in Threads : At(t, "wait") => \E o \in Owners(Top(t).node) : o[1] # t

(* Threads never wait for each other in a circle: no set of threads is     *)
(* asleep, each on a slot that a member of the set is working on, perhaps  *)
(* from deep inside other queries of its stack.                            *)
NoCircularWait ==
    \A S \in (SUBSET Threads) \ {{}} : \E t \in S :
        At(t, "wait") => \A o \in Owners(Top(t).node) : o[1] \notin S

(* Cached values are current: with changes confined to the retirement      *)
(* barrier, a Ready slot holds what its provider would compute from        *)
(* nothing in the current context, so a green validation never keeps a     *)
(* value that a recomputation would change.                                *)
ReadyIsCurrent ==
    \A n \in Nodes : slot[n].state = "Ready" => slot[n].payload.value = Answer[n, <<>>]

(* The two directions of the dependency graph record the same edges. *)
Mirrored == \A n, d \in Nodes : d \in forward[n] <=> n \in reverse[d]

(* The recorded edges of a Ready value are the queries that its provider   *)
(* would read now, also where what is read depends on what was read; every *)
(* retained payload's evidence has its edge, unless the node is retired;   *)
(* and the two directions of the graph mirror each other.                  *)
EdgesCoverReads ==
    /\ \A n \in Nodes :
        /\ slot[n].state = "Ready" => forward[n] = AnswerReads[n, <<>>]
        /\ slot[n].state = "PotentiallyOutdated" =>
            LET deps == slot[n].payload.deps
            IN  /\ forward[n] \subseteq DOMAIN deps
                /\ \A d \in DOMAIN deps \ forward[n] : deps[d] \in {NoFingerprint, RetiredNode}
    /\ Mirrored

(* No Ready value stands on one that is not Ready: an invalidation reaches *)
(* everything above what it touches, and validation settles what is below  *)
(* before it calls a value green.                                          *)
ReadyStandsOnReady ==
    \A n \in Nodes : slot[n].state = "Ready" =>
        \A d \in forward[n] : slot[d].state = "Ready"

(* Dependencies of a failed or discarded execution are not kept: once no   *)
(* thread is at work, only cached values have edges.                       *)
NoSpeculativeEdges ==
    (\A t \in Threads : stack[t] = <<>> /\ task[t] = NoTask) =>
        \A n \in Nodes : forward[n] # {} => slot[n].state \in {"Ready", "PotentiallyOutdated"}

(* An input that reads no query is never served from before a reported     *)
(* change: its slot holds another value than its context only while the    *)
(* report (validate_input or invalidate) is still in progress, although    *)
(* providers run and publish at any moment of it.                          *)
InputIsCurrent ==
    \A n \in Inputs : NextRead(n, <<>>) = Done /\ slot[n].state = "Ready" =>
        \/ slot[n].payload.value = Provide(n, cell[n], <<>>)
        \/ \E t \in Threads : task[t] # NoTask /\ task[t].root = n

(* Every cached value is current once nothing is in progress, also when    *)
(* inputs change beside running queries: "invalidation ... prevents stale  *)
(* cache writeback".                                                       *)
NoStaleWriteback ==
    (\A t \in Threads : stack[t] = <<>> /\ task[t] = NoTask) =>
        \A n \in Nodes : slot[n].state = "Ready" => slot[n].payload.value = Answer[n, <<>>]

(* Providers' reads are recorded with "the dependency edges ... of each    *)
(* published product": a Ready value has an edge to the query its provider *)
(* reads first, whatever the context is.                                   *)
PublishedHaveEdges ==
    \A n \in Nodes : slot[n].state = "Ready" =>
        NextRead(n, <<>>) \in forward[n] \cup {Done}

(* Every get returns, with a value or an error, once callers stop making   *)
(* requests: waiters, cycles, validations and failures included.           *)
GetsReturn ==
    <>[][\A t \in Threads : stack[t] = <<>> => stack'[t] = <<>>]_vars =>
        \A t \in Threads : (stack[t] # <<>>) ~> (stack[t] = <<>>)

=============================================================================
