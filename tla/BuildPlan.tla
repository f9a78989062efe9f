------------------------------ MODULE BuildPlan ------------------------------
(***************************************************************************)
(* What BuildPlan::freeze demands of the step graph of a build plan        *)
(* (crates/nia-build-plan/src/validation.rs and dependencies.rs).          *)
(*                                                                         *)
(* A draft names the dependencies and the action of every step, and for    *)
(* every action the actions that produce what it reads: programs, working  *)
(* directories and inputs below the build root, artifacts, and generated   *)
(* sources.  Several steps may share an action.  Steps are numbered in     *)
(* the order of their keys.                                                *)
(***************************************************************************)
EXTENDS Naturals, FiniteSets

CONSTANTS
    Steps,
    Actions

ASSUME StepsAssumption == IsFiniteSet(Steps) /\ Steps \subseteq Nat
ASSUME ActionsAssumption == IsFiniteSet(Actions)

Draft ==
    [dependencies : [Steps -> SUBSET Steps],
     action       : [Steps -> Actions],
     inputs       : [Actions -> SUBSET Actions]]

(* The steps reached from a set of steps along dependencies, themselves    *)
(* included: the work lists of dependency_action_closure and of the        *)
(* selected closure.                                                       *)
Reach(d, from) ==
    LET reach[n \in 0 .. Cardinality(Steps)] ==
            IF n = 0 THEN from
            ELSE reach[n - 1] \cup UNION {d.dependencies[s] : s \in reach[n - 1]}
    IN  reach[Cardinality(Steps)]

(* dependency_action_closure of a step. *)
DependencyActions(d, s) == {d.action[t] : t \in Reach(d, d.dependencies[s])}

(* Kahn's algorithm: a step is visited once all its dependencies are.      *)
validate_step_cycles(d) ==
    LET visited[n \in 0 .. Cardinality(Steps)] ==
            IF n = 0 THEN {}
            ELSE {s \in Steps : d.dependencies[s] \subseteq visited[n - 1]}
    IN  visited[Cardinality(Steps)] = Steps

(* Faulty: one exposing step with a complete closure is enough. *)
AnyStepValidates(d) ==
    \A a \in Actions :
        LET consumers == {s \in Steps : d.action[s] = a}
        IN  consumers # {} => \E s \in consumers : d.inputs[a] \subseteq DependencyActions(d, s)

(* Every producer of what an action reads is in the dependency closure of  *)
(* every step that exposes the action.  validate_artifact_dependencies and *)
(* validate_generated_source_dependencies demand the same of artifacts,    *)
(* whose emitter is unique, and of generated sources.                      *)
validate_build_input_dependencies(d) ==
    \A s \in Steps : d.inputs[d.action[s]] \subseteq DependencyActions(d, s)

freeze(d) == validate_step_cycles(d) /\ validate_build_input_dependencies(d)

=============================================================================
