---------------------------- MODULE BuildSchedule ----------------------------
(***************************************************************************)
(* The coordinator of one build: selected closure, readiness waves, action *)
(* tasks, resource permits, cancellation and failure reports               *)
(* (crates/nia-build/src/coordinator/scheduling.rs and resources.rs).      *)
(*                                                                         *)
(* The plan is any draft that freeze accepts.  What an action does is      *)
(* abstracted to whether it fails, which is fixed for the build: fails.    *)
(* A condition variable is a guard: every release of a permit notifies all *)
(* waiters.                                                                *)
(***************************************************************************)
EXTENDS BuildPlan, Sequences, SequencesExt, FiniteSetsExt

CONSTANTS
    Drafts,         \* the drafts checked
    Selected,       \* the selected step
    Conservative,   \* actions of ActionResourceClass::Conservative
    Lanes           \* min(max_parallel_actions, executor parallelism)

ASSUME DraftsAssumption == Drafts \subseteq Draft
ASSUME SelectedAssumption == Selected \in Steps
ASSUME ConservativeAssumption == Conservative \subseteq Actions
ASSUME LanesAssumption == Lanes \in Nat \ {0}

VARIABLES
    plan,
    keep_going,     \* BuildInvocation.keep_going
    limited,        \* max_parallel_actions is given: run_tasks_bounded
    fails,          \* the actions that fail when they are executed
    result,
    closure,        \* steps the selected one depends on, itself included
    indegree,
    ready,
    wave,           \* steps of the wave under way
    wave_actions,   \* its actions by position
    executed,       \* executed_actions
    failures,       \* failed actions in the order they are reported
    reported,       \* report.steps
    waits,          \* dependency_waits: actions whose wait has been announced
    task,
    outcome,
    earliest,       \* earliest_failure
    available       \* ActionResourceBudget.available

invocation == <<plan, keep_going, limited, fails>>
scheduler ==
    <<result, closure, indegree, ready, wave, wave_actions, executed, failures, reported, waits>>
workers == <<task, outcome, earliest, available>>
vars == <<invocation, scheduler, workers>>

NoFailure == Cardinality(Actions) + 1

TypeOK ==
    /\ plan \in Drafts
    /\ keep_going \in BOOLEAN /\ limited \in BOOLEAN
    /\ fails \subseteq Actions
    /\ result \in {"draft", "rejected", "frozen", "running", "ok", "failed", "inconsistent"}
    /\ closure \subseteq Steps
    /\ indegree \in [Steps -> 0 .. Cardinality(Steps)]
    /\ ready \subseteq Steps /\ wave \subseteq Steps
    /\ ToSet(wave_actions) \subseteq executed /\ executed \subseteq Actions
    /\ ToSet(failures) \subseteq executed
    /\ reported \subseteq Steps
    /\ waits \subseteq Actions \ executed
    /\ task \in [Actions -> {"none", "queued", "permit", "check", "run", "release", "done"}]
    /\ outcome \in [Actions -> {"none", "succeeded", "cancelled", "failed"}]
    /\ earliest \in 1 .. NoFailure
    /\ available \in 0 .. Lanes

Init ==
    /\ plan \in Drafts
    /\ keep_going \in BOOLEAN
    /\ limited \in BOOLEAN
    /\ fails = {}
    /\ result = "draft"
    /\ closure = {}
    /\ indegree = [s \in Steps |-> 0]
    /\ ready = {} /\ wave = {} /\ wave_actions = <<>>
    /\ executed = {} /\ failures = <<>> /\ reported = {} /\ waits = {}
    /\ task = [a \in Actions |-> "none"]
    /\ outcome = [a \in Actions |-> "none"]
    /\ earliest = NoFailure
    /\ available = Lanes

-----------------------------------------------------------------------------
ActionsOf(steps) == {plan.action[s] : s \in steps}

Freeze ==
    /\ result = "draft"
    /\ IF freeze(plan) THEN result' = "frozen" /\ fails' \in SUBSET ActionsOf(Reach(plan, {Selected}))
       ELSE result' = "rejected" /\ UNCHANGED fails
    /\ UNCHANGED <<plan, keep_going, limited, closure, indegree, ready, wave, wave_actions,
                   executed, failures, reported, waits, workers>>

(* execute_selected_closure_with_progress up to its loop. *)
Discover ==
    /\ result = "frozen"
    /\ result' = "running"
    /\ closure' = Reach(plan, {Selected})
    /\ indegree' = [s \in Steps |->
                        IF s \in closure' THEN Cardinality(plan.dependencies[s]) ELSE 0]
    /\ ready' = {s \in closure' : indegree'[s] = 0}
    /\ waits' = ActionsOf(closure') \ ActionsOf(ready')
    /\ UNCHANGED <<invocation, wave, wave_actions, executed, failures, reported, workers>>

(* The lowest step of a set that exposes an action. *)
FirstStep(a, steps) == Min({s \in steps : plan.action[s] = a})

(* The sequences of the members of S, each once, that Before orders.        *)
Sorted(S, Before(_, _)) ==
    {seq \in SetToSeqs(S) : \A i, j \in DOMAIN seq : i < j => Before(seq[i], seq[j])}

(* A wave begins: its actions that no earlier wave has executed, in the    *)
(* order of their first steps, become tasks.                               *)
StartWave ==
    LET fresh == ActionsOf(ready) \ executed
        Before(a, b) == FirstStep(a, ready) < FirstStep(b, ready)
    IN  /\ result = "running" /\ wave = {} /\ ready # {}
        /\ wave' = ready
        /\ ready' = {}
        /\ wave_actions' \in Sorted(fresh, Before)
        /\ executed' = executed \cup fresh
        /\ waits' = waits \ fresh
        /\ task' = [a \in Actions |-> IF a \in fresh THEN "queued" ELSE "none"]
        /\ outcome' = [a \in Actions |-> "none"]
        /\ earliest' = NoFailure
        /\ UNCHANGED <<invocation, result, closure, indegree, failures, reported, available>>

-----------------------------------------------------------------------------
(* Action tasks *)

Batch == ToSet(wave_actions)
Position(a) == CHOOSE i \in 1 .. Len(wave_actions) : wave_actions[i] = a
Goto(a, l) == task' = [task EXCEPT ![a] = l]

(* run_tasks_bounded deals the tasks out to lanes that run theirs one      *)
(* after the other; without a limit any task may run on a free worker.     *)
HasLane(a) ==
    IF limited
    THEN \A b \in Batch : Position(b) < Position(a) /\ (Position(a) - Position(b)) % Lanes = 0
                            => task[b] = "done"
    ELSE Cardinality({b \in Batch : task[b] \notin {"queued", "done"}}) < Lanes

StartTask(a) ==
    /\ task[a] = "queued"
    /\ HasLane(a)
    /\ Goto(a, "permit")
    /\ UNCHANGED <<invocation, scheduler, outcome, earliest, available>>

(* Faulty: conservative work reserves one slot like any other. *)
UnitWeight(a) == 1

(* ActionResourceBudget::weight; the capacity is the number of lanes. *)
Weight(a) == IF a \in Conservative THEN Lanes ELSE 1

Acquire(a) ==
    /\ task[a] = "permit"
    /\ available >= Weight(a)
    /\ available' = available - Weight(a)
    /\ Goto(a, "check")
    /\ UNCHANGED <<invocation, scheduler, outcome, earliest>>

(* Faulty: any failure of the wave cancels. *)
CancelledByAny(a) == ~keep_going /\ earliest # NoFailure

(* ActionCancellation::is_cancelled *)
IsCancelled(a) == ~keep_going /\ earliest < Position(a)

(* execute_scheduled_action before it executes. *)
Check(a) ==
    /\ task[a] = "check"
    /\ IF IsCancelled(a)
       THEN outcome' = [outcome EXCEPT ![a] = "cancelled"] /\ Goto(a, "release")
       ELSE Goto(a, "run") /\ UNCHANGED outcome
    /\ UNCHANGED <<invocation, scheduler, earliest, available>>

(* The action returns; one that looks at the cancellation on its way, at a *)
(* lock, a cache or a child process, may return that it was cancelled.     *)
(* cancel_later_actions keeps the earliest failure.                        *)
Execute(a) ==
    /\ task[a] = "run"
    /\ \/ /\ IsCancelled(a)
          /\ outcome' = [outcome EXCEPT ![a] = "cancelled"]
          /\ UNCHANGED earliest
       \/ /\ a \in fails
          /\ outcome' = [outcome EXCEPT ![a] = "failed"]
          /\ earliest' = IF keep_going THEN earliest ELSE Min({earliest, Position(a)})
       \/ /\ a \notin fails
          /\ outcome' = [outcome EXCEPT ![a] = "succeeded"]
          /\ UNCHANGED earliest
    /\ Goto(a, "release")
    /\ UNCHANGED <<invocation, scheduler, available>>

(* Faulty: a cancelled action keeps its permit. *)
ReleaseUnlessCancelled(a) ==
    /\ task[a] = "release"
    /\ available' = IF outcome[a] = "cancelled" \/ available + Weight(a) > Lanes
                    THEN available ELSE available + Weight(a)
    /\ Goto(a, "done")
    /\ UNCHANGED <<invocation, scheduler, outcome, earliest>>

(* Drop for ActionResourcePermit; over-release is refused. *)
Release(a) ==
    /\ task[a] = "release"
    /\ available' = IF available + Weight(a) > Lanes THEN available ELSE available + Weight(a)
    /\ Goto(a, "done")
    /\ UNCHANGED <<invocation, scheduler, outcome, earliest>>

-----------------------------------------------------------------------------
(* Faulty: only failures of this wave keep a step from completing. *)
CompleteUnlessFresh(failed) ==
    {s \in wave : plan.action[s] \notin {a \in failed : outcome[a] = "failed"}}

(* The steps of the wave that enter the report and release dependents. *)
Complete(failed) == {s \in wave : plan.action[s] \notin failed}

(* All tasks of the wave have returned: the outcomes are read by position, *)
(* then either the build ends or the completed steps enter the report and  *)
(* release their dependents.  That execute_batch itself fails, or returns  *)
(* another number of outcomes, is an internal error and left out.          *)
FinishWave ==
    LET cancelled == \E a \in Batch : outcome[a] = "cancelled"
        fresh     == {a \in Batch : outcome[a] = "failed"}
        Before(a, b) == Position(a) < Position(b)
        completed == Complete(ToSet(failures'))
        released  == {s \in closure : indegree[s] > 0 /\ indegree'[s] = 0}
    IN  /\ wave # {}
        /\ \A a \in Batch : task[a] = "done"
        /\ failures' \in {failures \o new : new \in Sorted(fresh, Before)}
        /\ IF cancelled \/ (~keep_going /\ failures' # <<>>)
           THEN /\ result' = IF failures' = <<>> THEN "inconsistent" ELSE "failed"
                /\ waits' = {}
                /\ UNCHANGED <<indegree, ready, reported>>
           ELSE /\ reported' = reported \cup completed
                /\ indegree' = [s \in Steps |->
                        IF s \notin closure THEN 0
                        ELSE indegree[s] - Cardinality(plan.dependencies[s] \cap completed)]
                /\ ready' = released
                /\ waits' = waits \ (ActionsOf(released) \ executed)
                /\ UNCHANGED result
        /\ wave' = {}
        /\ wave_actions' = <<>>
        /\ task' = [a \in Actions |-> "none"]
        /\ UNCHANGED <<invocation, closure, executed, outcome, earliest, available>>

(* No step is ready any more; on success no wait is left to finish. *)
End ==
    /\ result = "running" /\ wave = {} /\ ready = {}
    /\ result' = IF failures # <<>> THEN "failed"
                 ELSE IF reported # closure THEN "inconsistent" ELSE "ok"
    /\ waits' = IF result' = "ok" THEN waits ELSE {}
    /\ UNCHANGED <<invocation, closure, indegree, ready, wave, wave_actions, executed, failures,
                   reported, workers>>

Work(a) == StartTask(a) \/ Acquire(a) \/ Check(a) \/ Execute(a) \/ Release(a)

Next ==
    \/ Freeze \/ Discover \/ StartWave \/ FinishWave \/ End
    \/ \E a \in Actions : Work(a)

Spec == Init /\ [][Next]_vars

(* The coordinator and the workers run on, and every action returns. *)
Fairness ==
    /\ WF_vars(Freeze \/ Discover \/ StartWave \/ FinishWave \/ End)
    /\ \A a \in Actions : WF_vars(Work(a))

LiveSpec == Spec /\ Fairness

-----------------------------------------------------------------------------
Ended == {"rejected", "ok", "failed"}

(* A running action reads only what has been produced: every action it     *)
(* takes an input from has succeeded in an earlier wave, whichever of the  *)
(* steps that share the action brought it in (dependencies.rs:206-208 and  *)
(* scheduling.rs:511-522).                                                 *)
InputsReady ==
    \A a \in Actions : task[a] \in {"check", "run"} =>
        plan.inputs[a] \subseteq executed \ (Batch \cup ToSet(failures))

Holders == {a \in Actions : task[a] \in {"check", "run", "release"}}

(* Conservative work runs alone, other work within the capacity            *)
(* (resources.rs:4-6), and no permit gets lost on the way; all variables   *)
(* keep their types.                                                       *)
PermitsExclude ==
    /\ TypeOK
    /\ \A a \in Holders \cap Conservative : Holders = {a}
    /\ available = Lanes - (IF Holders \cap Conservative # {} THEN Lanes ELSE Cardinality(Holders))

(* The steps that can complete: their actions do not fail and all their    *)
(* dependencies can complete.                                              *)
Completable ==
    LET done[n \in 0 .. Cardinality(Steps)] ==
            IF n = 0 THEN {}
            ELSE {s \in closure : /\ plan.action[s] \notin fails
                                  /\ plan.dependencies[s] \subseteq done[n - 1]}
    IN  done[Cardinality(Steps)]

Attempted == {s \in closure : plan.dependencies[s] \subseteq Completable}

(* The wave of each step, were every step to complete. *)
Depth(s) ==
    LET below[n \in 0 .. Cardinality(Steps)] ==
            IF n = 0 THEN {}
            ELSE {t \in closure : plan.dependencies[t] \subseteq below[n - 1]}
    IN  Min({n \in 1 .. Cardinality(Steps) : s \in below[n]})

Failing == {s \in Attempted : plan.action[s] \in fails}

(* With keep_going the report names exactly the steps that can complete    *)
(* and exactly the actions that fail among those that can be attempted,    *)
(* whatever the order in which workers finish: dependents of a failed step *)
(* never run, every independent action does (scheduling.rs:414-416).       *)
KeepGoingReports ==
    keep_going /\ result \in {"ok", "failed"} =>
        /\ ToSet(failures) = ActionsOf(Failing)
        /\ Len(failures) = Cardinality(ActionsOf(Failing))
        /\ executed = ActionsOf(Attempted)
        /\ result = "ok" => reported = closure
        /\ result = "failed" => reported = Completable

(* Without keep_going the first failure reported is that of the lowest     *)
(* step of the first failing wave, though later workers may observe theirs *)
(* first (scheduling.rs:128-130), and no later wave begins.                *)
FirstFailure ==
    ~keep_going /\ result \in {"ok", "failed"} =>
        /\ result = "failed" <=> Failing # {}
        /\ Failing # {} =>
            LET last  == Min({Depth(s) : s \in Failing})
                first == Min({s \in Failing : Depth(s) = last})
            IN  /\ Head(failures) = plan.action[first]
                /\ executed = ActionsOf({s \in closure : Depth(s) <= last})

(* Every build ends: no action waits for a permit or a lane for ever, a    *)
(* frozen plan is never found inconsistent (its closure is acyclic, and a  *)
(* cancelled action has a failed one to blame), and every dependency wait  *)
(* that the progress stream announced has been finished by then.           *)
BuildEnds == <>(result \in Ended /\ waits = {})

=============================================================================
