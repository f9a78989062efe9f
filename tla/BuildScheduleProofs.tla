-------------------------- MODULE BuildScheduleProofs --------------------------
(***************************************************************************)
(* For any plan that freeze accepts, any number of workers and any order   *)
(* in which they finish: actions read only what has been produced, permits *)
(* exclude and are never lost, the plan is never found inconsistent, and   *)
(* with keep_going the report is the one that the plan and the failing     *)
(* actions determine. Without it the failure reported first is that of the *)
(* lowest step in the first wave that fails.                               *)
(*                                                                         *)
(* The invariant places every step of the selected closure: a step counts  *)
(* its dependencies that have not been reported, and one that counts none  *)
(* is ready, in the wave, reported, or its action has failed.              *)
(***************************************************************************)
EXTENDS BuildSchedule, FiniteSetTheorems, TLAPS

Started == result \in {"running", "ok", "failed", "inconsistent"}

(* A plan is scheduled once it is frozen, and ready steps and tasks exist  *)
(* in turn.                                                                *)
Phases ==
    /\ ~Started => /\ closure = {} /\ reported = {} /\ executed = {} /\ failures = <<>>
    /\ result = "frozen" \/ Started => freeze(plan)
    /\ Started => closure = Reach(plan, {Selected})
    /\ result # "running" => ready = {} /\ wave = {}
    /\ wave # {} => ready = {}
    /\ wave = {} => wave_actions = <<>>
    /\ \A a \in Actions : task[a] # "none" <=> a \in Batch

(* The tasks of a wave are distinct actions of its steps. *)
Tasks ==
    /\ wave_actions \in Seq(Actions) /\ Len(wave_actions) <= Cardinality(Actions)
    /\ \A i, j \in 1 .. Len(wave_actions) : wave_actions[i] = wave_actions[j] => i = j
    /\ Batch \subseteq ActionsOf(wave)
    /\ failures \in Seq(Actions)
    /\ ToSet(failures) \cap Batch = {}

(* A step counts its dependencies that have not been reported. *)
Counted ==
    Started => \A s \in Steps :
        indegree[s] = IF s \in closure THEN Cardinality(plan.dependencies[s] \ reported) ELSE 0

(* A step is ready, runs or is reported only when it counts none. *)
Placed ==
    /\ ready \cup wave \cup reported \subseteq {s \in closure : indegree[s] = 0}
    /\ (ready \cup wave) \cap reported = {}
    /\ ActionsOf(wave) \subseteq executed
    /\ ActionsOf(reported) \subseteq executed \ (Batch \cup ToSet(failures))

(* A cancelled task has a failed one before it. *)
Blamed ==
    /\ \A a \in Batch : outcome[a] = "cancelled" => earliest # NoFailure
    /\ wave # {} /\ earliest # NoFailure => \E a \in Batch : outcome[a] = "failed"

SafetyInv == PermitsExclude /\ Phases /\ Tasks /\ Counted /\ Placed

(* Every step that counts nothing has its turn; where it has not been      *)
(* reported, its action failed.                                            *)
Covered ==
    keep_going \/ result = "running" \/ result = "ok" => \A s \in closure : indegree[s] = 0 =>
        s \in ready \cup wave \cup reported \/ plan.action[s] \in ToSet(failures)

(* What has been executed is what steps that had their turn expose. *)
Executed ==
    keep_going /\ Started => executed = ActionsOf({s \in closure : indegree[s] = 0} \ ready)

(* With keep_going exactly the failing actions fail. *)
Settled ==
    /\ \A a \in Batch : task[a] \notin {"release", "done"} => outcome[a] = "none"
    /\ keep_going =>
        /\ earliest = NoFailure
        /\ \A a \in Batch : task[a] \in {"release", "done"} =>
            outcome[a] = IF a \in fails THEN "failed" ELSE "succeeded"
        /\ \A a \in executed \ Batch : a \in fails <=> a \in ToSet(failures)

Distinct == \A i, j \in 1 .. Len(failures) : failures[i] = failures[j] => i = j

ReportInv ==
    /\ Blamed /\ Covered /\ Executed /\ Settled /\ Distinct
    /\ keep_going => reported \subseteq Completable
    /\ result = "ok" => reported = closure
    /\ result # "inconsistent"

-----------------------------------------------------------------------------
(* Induction up to a bound, for a property given as the set where it holds.*)
LEMMA Induction ==
    ASSUME NEW N \in Nat, NEW T \in SUBSET (0 .. N), 0 \in T,
           \A n \in 1 .. N : n - 1 \in T => n \in T
    PROVE  \A n \in 0 .. N : n \in T
<1> DEFINE Bad == {n \in 0 .. N : n \notin T}
<1> SUFFICES ASSUME Bad # {} PROVE FALSE
  OBVIOUS
<1>1. Bad \in SUBSET Nat
  OBVIOUS
<1>2. PICK x \in Bad : \A y \in Bad : <<y, x>> \notin OpToRel(<, Nat)
  <2> HIDE DEF Bad
  <2> QED
    BY <1>1, NatLessThanWellFounded, WFMin
<1>3. \A y \in Bad : ~(y < x)
  BY <1>1, <1>2 DEF OpToRel
<1>4. x \in 1 .. N /\ x - 1 \in 0 .. N /\ x - 1 < x
  OBVIOUS
<1>5. x - 1 \in T
  BY <1>3, <1>4
<1> QED
  BY <1>4, <1>5

(* A function on sets of steps can be iterated. *)
LEMMA Iteration ==
    ASSUME NEW G \in [SUBSET Steps -> SUBSET Steps], NEW x \in SUBSET Steps, NEW N \in Nat
    PROVE  \E g \in [0 .. N -> SUBSET Steps] : g[0] = x /\ \A n \in 1 .. N : g[n] = G[g[n - 1]]
<1> DEFINE Is(g, m) == g \in [0 .. m -> SUBSET Steps] /\ g[0] = x /\ \A n \in 1 .. m : g[n] = G[g[n - 1]]
           T == {m \in 0 .. N : \E g : Is(g, m)}
<1>1. 0 \in T
  <2>1. Is([n \in 0 .. 0 |-> x], 0)
    OBVIOUS
  <2>2. \E g : Is(g, 0)
    BY <2>1
  <2> QED
    BY <2>2
<1>2. ASSUME NEW m \in 1 .. N, m - 1 \in T PROVE m \in T
  <2>1. PICK g : Is(g, m - 1)
    BY <1>2
  <2> DEFINE h == [n \in 0 .. m |-> IF n = m THEN G[g[m - 1]] ELSE g[n]]
  <2>2. m \in Nat /\ m # 0 /\ m - 1 \in 0 .. m - 1 /\ g[m - 1] \in SUBSET Steps
    BY <2>1
  <2>3. \A n \in 0 .. m - 1 : n \in 0 .. m /\ n # m /\ h[n] = g[n] /\ g[n] \in SUBSET Steps
    BY <2>1, <2>2
  <2>4. h \in [0 .. m -> SUBSET Steps] /\ h[m] = G[g[m - 1]] /\ h[0] = x
    <3>1. \A n \in 0 .. m : n = m \/ n \in 0 .. m - 1
      BY <2>2
    <3>2. h[m] = G[g[m - 1]] /\ h[m] \in SUBSET Steps
      BY <2>2
    <3>3. \A n \in 0 .. m : h[n] \in SUBSET Steps
      BY <2>3, <3>1, <3>2
    <3>4. h[0] = x
      BY <2>1, <2>2, <2>3
    <3> QED
      BY <3>2, <3>3, <3>4
  <2>5. ASSUME NEW n \in 1 .. m PROVE h[n] = G[h[n - 1]]
    <3>1. n - 1 \in 0 .. m - 1 /\ h[n - 1] = g[n - 1]
      BY <2>2, <2>3
    <3>2. CASE n = m
      BY <2>4, <3>1, <3>2
    <3>3. CASE n # m
      <4>1. n \in 1 .. m - 1 /\ n \in 0 .. m - 1
        BY <2>2, <3>3
      <4> HIDE DEF h
      <4> QED
        BY <2>1, <2>3, <3>1, <4>1
    <3> QED
      BY <3>2, <3>3
  <2>6. Is(h, m)
    <3> HIDE DEF h
    <3> QED
      BY <2>4, <2>5
  <2>7. \E e : Is(e, m)
    <3> HIDE DEF h, Is
    <3> QED
      BY <2>6
  <2> QED
    BY <2>7
<1>3. N \in T
  <2>1. T \in SUBSET (0 .. N) /\ N \in 0 .. N
    OBVIOUS
  <2> HIDE DEF T
  <2> QED
    BY <1>1, <1>2, <2>1, Induction
<1> QED
  BY <1>3

(* Iterating a monotone function as often as there are steps reaches its   *)
(* least fixed point above the start.                                      *)
LEMMA LeastFixedPoint ==
    ASSUME NEW G \in [SUBSET Steps -> SUBSET Steps], NEW N, N = Cardinality(Steps),
           \A X, Y \in SUBSET Steps : X \subseteq Y => G[X] \subseteq G[Y],
           NEW g \in [0 .. N -> SUBSET Steps], g[0] \subseteq G[g[0]],
           \A n \in 1 .. N : g[n] = G[g[n - 1]]
    PROVE  /\ G[g[N]] = g[N]
           /\ \A Y \in SUBSET Steps : g[0] \subseteq Y /\ G[Y] \subseteq Y => g[N] \subseteq Y
           /\ g[0] \subseteq g[N]
<1>f. IsFiniteSet(Steps)
  BY StepsAssumption
<1>1. N \in Nat /\ N \in 0 .. N
  BY <1>f, FS_CardinalityType
<1>t. \A n \in 1 .. N : n - 1 \in 0 .. N /\ n \in 0 .. N /\ g[n] \in SUBSET Steps /\ g[n - 1] \in SUBSET Steps
  BY <1>1
<1>2. \A n \in 0 .. N : g[n] \subseteq G[g[n]]
  <2> DEFINE T == {n \in 0 .. N : g[n] \subseteq G[g[n]]}
  <2>1. 0 \in T /\ T \in SUBSET (0 .. N)
    BY <1>1
  <2>2. \A n \in 1 .. N : n - 1 \in T => n \in T
    BY <1>t
  <2>3. \A n \in 0 .. N : n \in T
    <3> HIDE DEF T
    <3> QED
      BY <1>1, <2>1, <2>2, Induction
  <2> QED
    BY <2>3
<1>3. ASSUME NEW Y \in SUBSET Steps, g[0] \subseteq Y, G[Y] \subseteq Y PROVE g[N] \subseteq Y
  <2> DEFINE T == {n \in 0 .. N : g[n] \subseteq Y}
  <2>1. 0 \in T /\ T \in SUBSET (0 .. N)
    BY <1>1, <1>3
  <2>2. ASSUME NEW n \in 1 .. N, n - 1 \in T PROVE n \in T
    <3>1. G[g[n - 1]] \subseteq G[Y]
      BY <1>t, <2>2
    <3> QED
      BY <1>t, <1>3, <3>1
  <2>3. \A n \in 0 .. N : n \in T
    <3> HIDE DEF T
    <3> QED
      BY <1>1, <2>1, <2>2, Induction
  <2> QED
    BY <1>1, <2>3
<1>4. ASSUME NEW m \in 0 .. N, G[g[m]] = g[m] PROVE g[N] = g[m]
  <2> DEFINE T == {n \in 0 .. N : n >= m => g[n] = g[m]}
  <2>1. 0 \in T /\ T \in SUBSET (0 .. N)
    BY <1>1
  <2>2. ASSUME NEW n \in 1 .. N, n - 1 \in T PROVE n \in T
    <3>1. CASE n = m
      BY <3>1
    <3>2. CASE n # m
      <4>1. n >= m => g[n - 1] = g[m]
        BY <2>2, <3>2
      <4> QED
        BY <1>4, <4>1
    <3> QED
      BY <3>1, <3>2
  <2>3. \A n \in 0 .. N : n \in T
    <3> HIDE DEF T
    <3> QED
      BY <1>1, <2>1, <2>2, Induction
  <2> QED
    BY <1>1, <2>3
<1>5. \A n \in 0 .. N : IsFiniteSet(g[n]) /\ Cardinality(g[n]) \in Nat
  BY <1>f, FS_Subset, FS_CardinalityType
<1>6. ASSUME G[g[N]] # g[N] PROVE \A n \in 0 .. N : Cardinality(g[n]) >= n
  <2> DEFINE T == {n \in 0 .. N : Cardinality(g[n]) >= n}
  <2>1. 0 \in T /\ T \in SUBSET (0 .. N)
    BY <1>1, <1>5
  <2>2. ASSUME NEW n \in 1 .. N, n - 1 \in T PROVE n \in T
    <3>1. g[n - 1] \subseteq g[n] /\ n - 1 \in 0 .. N
      BY <1>2, <1>t
    <3>2. g[n - 1] # g[n]
      <4> SUFFICES ASSUME g[n - 1] = g[n] PROVE FALSE
        OBVIOUS
      <4>1. G[g[n - 1]] = g[n - 1]
        OBVIOUS
      <4>2. g[N] = g[n - 1]
        BY <1>4, <3>1, <4>1
      <4> QED
        BY <1>6, <4>1, <4>2
    <3>3. Cardinality(g[n - 1]) <= Cardinality(g[n]) /\ Cardinality(g[n - 1]) # Cardinality(g[n])
      BY <1>5, <1>t, <3>1, <3>2, FS_Subset
    <3>4. Cardinality(g[n]) \in Nat /\ Cardinality(g[n - 1]) \in Nat /\ Cardinality(g[n - 1]) >= n - 1
      BY <1>5, <1>t, <2>2
    <3>5. Cardinality(g[n]) >= n
      BY <3>3, <3>4
    <3> QED
      BY <1>t, <3>5
  <2>3. \A n \in 0 .. N : n \in T
    <3> HIDE DEF T
    <3> QED
      BY <1>1, <2>1, <2>2, Induction
  <2> QED
    BY <2>3
<1>7. G[g[N]] = g[N]
  <2> SUFFICES ASSUME G[g[N]] # g[N] PROVE FALSE
    OBVIOUS
  <2>1. Cardinality(g[N]) >= N /\ Cardinality(g[N]) <= N
    BY <1>f, <1>1, <1>6, FS_Subset
  <2>2. Cardinality(g[N]) = Cardinality(Steps)
    BY <1>1, <1>5, <2>1
  <2>3. g[N] = Steps
    BY <1>f, <1>1, <2>2, FS_Subset
  <2>4. g[N] \subseteq G[g[N]] /\ G[g[N]] \in SUBSET Steps
    BY <1>1, <1>2
  <2> QED
    BY <2>3, <2>4
<1>8. g[0] \subseteq g[N]
  <2> DEFINE T == {n \in 0 .. N : g[0] \subseteq g[n]}
  <2>1. 0 \in T /\ T \in SUBSET (0 .. N)
    BY <1>1
  <2>2. \A n \in 1 .. N : n - 1 \in T => n \in T
    BY <1>2, <1>t
  <2>3. \A n \in 0 .. N : n \in T
    <3> HIDE DEF T
    <3> QED
      BY <1>1, <2>1, <2>2, Induction
  <2> QED
    BY <1>1, <2>3
<1> QED
  BY <1>3, <1>7, <1>8

(* The steps reached hold the first ones and all their dependencies, and   *)
(* no more than that.                                                      *)
LEMMA ReachClosed ==
    ASSUME NEW d \in Draft, NEW from \in SUBSET Steps
    PROVE  /\ Reach(d, from) \in SUBSET Steps /\ from \subseteq Reach(d, from)
           /\ \A s \in Reach(d, from) : d.dependencies[s] \subseteq Reach(d, from)
           /\ \A R \in SUBSET Steps :
                from \subseteq R /\ (\A s \in R : d.dependencies[s] \subseteq R)
                => Reach(d, from) \subseteq R
<1>d. \A s \in Steps : d.dependencies[s] \in SUBSET Steps
  BY DEF Draft
<1> DEFINE N == Cardinality(Steps)
           G == [S \in SUBSET Steps |-> S \cup UNION {d.dependencies[s] : s \in S}]
           Is(f) == f = [n \in 0 .. N |-> IF n = 0 THEN from ELSE f[n - 1] \cup UNION {d.dependencies[s] : s \in f[n - 1]}]
           f == CHOOSE f : Is(f)
<1>1. N \in Nat /\ IsFiniteSet(Steps)
  BY StepsAssumption, FS_CardinalityType
<1>2. G \in [SUBSET Steps -> SUBSET Steps]
  BY <1>d
<1>3. PICK g \in [0 .. N -> SUBSET Steps] : g[0] = from /\ \A n \in 1 .. N : g[n] = G[g[n - 1]]
  <2> HIDE DEF G, N
  <2>1. from \in SUBSET Steps
    OBVIOUS
  <2> QED
    BY <1>1, <1>2, <2>1, Iteration, ZenonT(60)
<1>n. \A n \in 1 .. N : n - 1 \in 0 .. N /\ n # 0
  BY <1>1
<1>4. Is(g)
  <2>1. \A n \in 0 .. N : g[n] = IF n = 0 THEN from ELSE g[n - 1] \cup UNION {d.dependencies[s] : s \in g[n - 1]}
    <3>1. TAKE n \in 0 .. N
    <3>2. CASE n = 0
      BY <1>3, <3>2
    <3>3. CASE n # 0
      <4>1. n \in 1 .. N /\ g[n - 1] \in SUBSET Steps
        BY <1>1, <1>3, <3>3
      <4>2. g[n] = G[g[n - 1]]
        BY <1>3, <4>1
      <4> QED
        BY <3>3, <4>1, <4>2
    <3> QED
      BY <3>2, <3>3
  <2>2. g = [n \in 0 .. N |-> g[n]]
    BY <1>3
  <2> HIDE DEF N
  <2> QED
    BY <2>1, <2>2
<1>5. Is(f)
  <2> HIDE DEF Is
  <2> QED
    BY <1>4
<1> HIDE DEF f
<1>6. f[N] = g[N]
  <2> DEFINE T == {n \in 0 .. N : f[n] = g[n]}
  <2>1. T \in SUBSET (0 .. N) /\ 0 \in T /\ N \in 0 .. N
    BY <1>1, <1>3, <1>5
  <2>2. ASSUME NEW n \in 1 .. N, n - 1 \in T PROVE n \in T
    <3>1. n \in 0 .. N /\ f[n - 1] = g[n - 1]
      BY <1>1, <2>2
    <3>2. f[n] = f[n - 1] \cup UNION {d.dependencies[s] : s \in f[n - 1]} /\ g[n] = g[n - 1] \cup UNION {d.dependencies[s] : s \in g[n - 1]}
      <4> HIDE DEF N
      <4> QED
        BY <1>4, <1>5, <1>n, <3>1
    <3> QED
      BY <3>1, <3>2
  <2>3. \A n \in 0 .. N : n \in T
    <3> HIDE DEF T
    <3> QED
      BY <1>1, <2>1, <2>2, Induction
  <2> QED
    BY <2>1, <2>3
<1>7. Reach(d, from) = f[N]
  BY DEF Reach, f
<1>8. \A X, Y \in SUBSET Steps : X \subseteq Y => G[X] \subseteq G[Y]
  BY <1>d
<1>9. N \in 0 .. N /\ 0 \in 0 .. N
  BY <1>1
<1>10. /\ G[g[N]] = g[N]
       /\ \A Y \in SUBSET Steps : g[0] \subseteq Y /\ G[Y] \subseteq Y => g[N] \subseteq Y
       /\ g[0] \subseteq g[N]
  <2>1. g[0] \subseteq G[g[0]]
    BY <1>3
  <2>2. N = Cardinality(Steps)
    OBVIOUS
  <2> HIDE DEF G, N
  <2> QED
    BY <1>1, <1>2, <1>3, <1>8, <2>1, <2>2, LeastFixedPoint
<1>11. g[N] \in SUBSET Steps
  BY <1>3, <1>9
<1>12. /\ Reach(d, from) \in SUBSET Steps /\ from \subseteq Reach(d, from)
       /\ \A s \in Reach(d, from) : d.dependencies[s] \subseteq Reach(d, from)
  <2> HIDE DEF N
  <2> QED
    BY <1>3, <1>6, <1>7, <1>10, <1>11
<1>13. ASSUME NEW R \in SUBSET Steps, from \subseteq R, \A s \in R : d.dependencies[s] \subseteq R
       PROVE  Reach(d, from) \subseteq R
  <2>1. G[R] \subseteq R
    BY <1>13
  <2> HIDE DEF G, N
  <2> QED
    BY <1>3, <1>6, <1>7, <1>10, <1>13, <2>1
<1> QED
  BY <1>12, <1>13

(* In a plan without cycles every step is in a set that holds a step with  *)
(* its dependencies.                                                       *)
LEMMA AcyclicSteps ==
    ASSUME NEW d \in Draft, validate_step_cycles(d), NEW R \in SUBSET Steps,
           \A s \in Steps : d.dependencies[s] \subseteq R => s \in R
    PROVE  R = Steps
<1> DEFINE N == Cardinality(Steps)
           G == [S \in SUBSET Steps |-> {s \in Steps : d.dependencies[s] \subseteq S}]
           Is(f) == f = [n \in 0 .. N |-> IF n = 0 THEN {} ELSE {s \in Steps : d.dependencies[s] \subseteq f[n - 1]}]
           f == CHOOSE f : Is(f)
<1>1. N \in Nat /\ IsFiniteSet(Steps)
  BY StepsAssumption, FS_CardinalityType
<1>2. G \in [SUBSET Steps -> SUBSET Steps]
  OBVIOUS
<1>3. PICK g \in [0 .. N -> SUBSET Steps] : g[0] = {} /\ \A n \in 1 .. N : g[n] = G[g[n - 1]]
  <2> HIDE DEF G, N
  <2>1. {} \in SUBSET Steps
    OBVIOUS
  <2> QED
    BY <1>1, <1>2, <2>1, Iteration, ZenonT(60)
<1>n. \A n \in 1 .. N : n - 1 \in 0 .. N /\ n # 0
  BY <1>1
<1>4. Is(g)
  <2>1. \A n \in 0 .. N : g[n] = IF n = 0 THEN {} ELSE {s \in Steps : d.dependencies[s] \subseteq g[n - 1]}
    <3>1. TAKE n \in 0 .. N
    <3>2. CASE n = 0
      BY <1>3, <3>2
    <3>3. CASE n # 0
      <4>1. n \in 1 .. N /\ g[n - 1] \in SUBSET Steps
        BY <1>1, <1>3, <3>3
      <4>2. g[n] = G[g[n - 1]]
        BY <1>3, <4>1
      <4> QED
        BY <3>3, <4>1, <4>2
    <3> QED
      BY <3>2, <3>3
  <2>2. g = [n \in 0 .. N |-> g[n]]
    BY <1>3
  <2> HIDE DEF N
  <2> QED
    BY <2>1, <2>2
<1>5. Is(f)
  <2> HIDE DEF Is
  <2> QED
    BY <1>4
<1> HIDE DEF f
<1>6. f[N] = g[N]
  <2> DEFINE T == {n \in 0 .. N : f[n] = g[n]}
  <2>1. T \in SUBSET (0 .. N) /\ 0 \in T /\ N \in 0 .. N
    BY <1>1, <1>3, <1>5
  <2>2. ASSUME NEW n \in 1 .. N, n - 1 \in T PROVE n \in T
    <3>1. n \in 0 .. N /\ f[n - 1] = g[n - 1]
      BY <1>1, <2>2
    <3>2. f[n] = {s \in Steps : d.dependencies[s] \subseteq f[n - 1]} /\ g[n] = {s \in Steps : d.dependencies[s] \subseteq g[n - 1]}
      <4> HIDE DEF N
      <4> QED
        BY <1>4, <1>5, <1>n, <3>1
    <3> QED
      BY <3>1, <3>2
  <2>3. \A n \in 0 .. N : n \in T
    <3> HIDE DEF T
    <3> QED
      BY <1>1, <2>1, <2>2, Induction
  <2> QED
    BY <2>1, <2>3
<1>7. f[N] = Steps
  BY DEF validate_step_cycles, f
<1>8. \A X, Y \in SUBSET Steps : X \subseteq Y => G[X] \subseteq G[Y]
  OBVIOUS
<1>9. N \in 0 .. N /\ 0 \in 0 .. N
  BY <1>1
<1>10. /\ G[g[N]] = g[N]
       /\ \A Y \in SUBSET Steps : g[0] \subseteq Y /\ G[Y] \subseteq Y => g[N] \subseteq Y
       /\ g[0] \subseteq g[N]
  <2>1. g[0] \subseteq G[g[0]]
    BY <1>3
  <2>2. N = Cardinality(Steps)
    OBVIOUS
  <2> HIDE DEF G, N
  <2> QED
    BY <1>1, <1>2, <1>3, <1>8, <2>1, <2>2, LeastFixedPoint
<1>11. g[N] \in SUBSET Steps
  BY <1>3, <1>9
<1>12. G[R] \subseteq R
  OBVIOUS
<1> HIDE DEF G, N
<1> QED
  BY <1>3, <1>6, <1>7, <1>10, <1>12

(* The steps that can complete are those of the closure whose action does  *)
(* not fail and whose dependencies can complete, and no more than that.    *)
LEMMA CompletableSteps ==
    ASSUME TypeOK
    PROVE  /\ Completable \in SUBSET Steps
           /\ \A s : s \in Completable <=>
                /\ s \in closure /\ plan.action[s] \notin fails
                /\ plan.dependencies[s] \subseteq Completable
           /\ \A R \in SUBSET Steps :
                (\A s \in closure : plan.action[s] \notin fails /\ plan.dependencies[s] \subseteq R => s \in R)
                => Completable \subseteq R
<1>c. closure \subseteq Steps
  BY DEF TypeOK
<1> DEFINE N == Cardinality(Steps)
           G == [S \in SUBSET Steps |-> {s \in closure : plan.action[s] \notin fails /\ plan.dependencies[s] \subseteq S}]
           Is(f) == f = [n \in 0 .. N |-> IF n = 0 THEN {} ELSE {s \in closure : plan.action[s] \notin fails /\ plan.dependencies[s] \subseteq f[n - 1]}]
           f == CHOOSE f : Is(f)
<1>1. N \in Nat /\ IsFiniteSet(Steps)
  BY StepsAssumption, FS_CardinalityType
<1>2. G \in [SUBSET Steps -> SUBSET Steps]
  BY <1>c
<1>3. PICK g \in [0 .. N -> SUBSET Steps] : g[0] = {} /\ \A n \in 1 .. N : g[n] = G[g[n - 1]]
  <2> HIDE DEF G, N
  <2>1. {} \in SUBSET Steps
    OBVIOUS
  <2> QED
    BY <1>1, <1>2, <2>1, Iteration, ZenonT(60)
<1>n. \A n \in 1 .. N : n - 1 \in 0 .. N /\ n # 0
  BY <1>1
<1>4. Is(g)
  <2>1. \A n \in 0 .. N : g[n] = IF n = 0 THEN {} ELSE {s \in closure : plan.action[s] \notin fails /\ plan.dependencies[s] \subseteq g[n - 1]}
    <3>1. TAKE n \in 0 .. N
    <3>2. CASE n = 0
      BY <1>3, <3>2
    <3>3. CASE n # 0
      <4>1. n \in 1 .. N /\ g[n - 1] \in SUBSET Steps
        BY <1>1, <1>3, <3>3
      <4>2. g[n] = G[g[n - 1]]
        BY <1>3, <4>1
      <4> QED
        BY <3>3, <4>1, <4>2
    <3> QED
      BY <3>2, <3>3
  <2>2. g = [n \in 0 .. N |-> g[n]]
    BY <1>3
  <2> HIDE DEF N
  <2> QED
    BY <2>1, <2>2
<1>5. Is(f)
  <2> HIDE DEF Is
  <2> QED
    BY <1>4
<1> HIDE DEF f
<1>6. f[N] = g[N]
  <2> DEFINE T == {n \in 0 .. N : f[n] = g[n]}
  <2>1. T \in SUBSET (0 .. N) /\ 0 \in T /\ N \in 0 .. N
    BY <1>1, <1>3, <1>5
  <2>2. ASSUME NEW n \in 1 .. N, n - 1 \in T PROVE n \in T
    <3>1. n \in 0 .. N /\ f[n - 1] = g[n - 1]
      BY <1>1, <2>2
    <3>2. f[n] = {s \in closure : plan.action[s] \notin fails /\ plan.dependencies[s] \subseteq f[n - 1]} /\ g[n] = {s \in closure : plan.action[s] \notin fails /\ plan.dependencies[s] \subseteq g[n - 1]}
      <4> HIDE DEF N
      <4> QED
        BY <1>4, <1>5, <1>n, <3>1
    <3> QED
      BY <3>1, <3>2
  <2>3. \A n \in 0 .. N : n \in T
    <3> HIDE DEF T
    <3> QED
      BY <1>1, <2>1, <2>2, Induction
  <2> QED
    BY <2>1, <2>3
<1>7. Completable = f[N]
  BY DEF Completable, f
<1>8. \A X, Y \in SUBSET Steps : X \subseteq Y => G[X] \subseteq G[Y]
  BY <1>c
<1>9. N \in 0 .. N /\ 0 \in 0 .. N
  BY <1>1
<1>10. /\ G[g[N]] = g[N]
       /\ \A Y \in SUBSET Steps : g[0] \subseteq Y /\ G[Y] \subseteq Y => g[N] \subseteq Y
       /\ g[0] \subseteq g[N]
  <2>1. g[0] \subseteq G[g[0]]
    BY <1>3
  <2>2. N = Cardinality(Steps)
    OBVIOUS
  <2> HIDE DEF G, N
  <2> QED
    BY <1>1, <1>2, <1>3, <1>8, <2>1, <2>2, LeastFixedPoint
<1>11. g[N] \in SUBSET Steps
  BY <1>3, <1>9
<1>12. /\ Completable \in SUBSET Steps
       /\ \A s : s \in Completable <=>
            /\ s \in closure /\ plan.action[s] \notin fails
            /\ plan.dependencies[s] \subseteq Completable
  <2> HIDE DEF N
  <2> QED
    BY <1>6, <1>7, <1>10, <1>11
<1>13. ASSUME NEW R \in SUBSET Steps,
              \A s \in closure : plan.action[s] \notin fails /\ plan.dependencies[s] \subseteq R => s \in R
       PROVE  Completable \subseteq R
  <2>1. G[R] \subseteq R
    BY <1>13
  <2> HIDE DEF G, N
  <2> QED
    BY <1>3, <1>6, <1>7, <1>10, <1>13, <2>1
<1> QED
  BY <1>12, <1>13

-----------------------------------------------------------------------------
(* A finite set without the members of another. *)
LEMMA Difference ==
    ASSUME NEW S, NEW T, IsFiniteSet(S)
    PROVE  /\ IsFiniteSet(S \ T) /\ IsFiniteSet(S \cap T)
           /\ Cardinality(S \ T) = Cardinality(S) - Cardinality(S \cap T)
           /\ Cardinality(S) \in Nat /\ Cardinality(S \ T) \in Nat /\ Cardinality(S \cap T) \in Nat
<1>1. IsFiniteSet(S \ T) /\ IsFiniteSet(S \cap T)
  BY FS_Subset
<1> QED
  BY <1>1, FS_Difference, FS_CardinalityType

(* The minimum of two numbers is one of them. *)
LEMMA MinOfTwo ==
    ASSUME NEW x \in Int, NEW y \in Int
    PROVE  Min({x, y}) \in {x, y} /\ Min({x, y}) <= x /\ Min({x, y}) <= y
<1>1. \E m \in {x, y} : \A z \in {x, y} : m =< z
  <2>1. CASE x <= y
    BY <2>1
  <2>2. CASE ~(x <= y)
    BY <2>2
  <2> QED
    BY <2>1, <2>2
<1> QED
  BY <1>1 DEF Min

(* A sequence that lists a set of actions holds all of them, once each. *)
LEMMA Listed ==
    ASSUME NEW S \in SUBSET Actions, NEW seq \in SetToSeqs(S)
    PROVE  /\ seq \in Seq(Actions) /\ Len(seq) <= Cardinality(Actions)
           /\ ToSet(seq) = S
           /\ \A i, j \in 1 .. Len(seq) : seq[i] = seq[j] => i = j
<1> DEFINE n == Cardinality(S)
<1>1. IsFiniteSet(S) /\ n \in Nat /\ n <= Cardinality(Actions) /\ Cardinality(Actions) \in Nat
  BY ActionsAssumption, FS_Subset, FS_CardinalityType
<1>2. seq \in [1 .. n -> S] /\ \A i, j \in 1 .. n : i # j => seq[i] # seq[j]
  BY DEF SetToSeqs
<1>3. seq \in Seq(Actions) /\ Len(seq) = n /\ DOMAIN seq = 1 .. n
  <2>1. seq \in Seq(S) /\ seq \in Seq(Actions)
    BY <1>1, <1>2
  <2> HIDE DEF n
  <2> QED
    BY <1>1, <1>2, <2>1
<1>4. seq \in Injection(1 .. n, S)
  BY <1>2 DEF Injection, IsInjective
<1>5. Cardinality(1 .. n) = n
  BY <1>1, FS_Interval
<1>6. seq \in Surjection(1 .. n, S)
  BY <1>1, <1>4, <1>5, FS_Injection
<1>7. ToSet(seq) = S
  BY <1>2, <1>3, <1>6 DEF Surjection, ToSet
<1> HIDE DEF n
<1> QED
  BY <1>1, <1>2, <1>3, <1>7

(* One sequence of distinct actions after another, without common ones. *)
LEMMA Appended ==
    ASSUME NEW s \in Seq(Actions), NEW t \in Seq(Actions)
    PROVE  /\ s \o t \in Seq(Actions)
           /\ ToSet(s \o t) = ToSet(s) \cup ToSet(t)
           /\ ToSet(s) \in SUBSET Actions /\ ToSet(t) \in SUBSET Actions
           /\ (s \o t = <<>> <=> ToSet(s \o t) = {}) /\ (s = <<>> <=> ToSet(s) = {})
           /\ /\ ToSet(s) \cap ToSet(t) = {}
              /\ \A i, j \in 1 .. Len(s) : s[i] = s[j] => i = j
              /\ \A i, j \in 1 .. Len(t) : t[i] = t[j] => i = j
              => \A i, j \in 1 .. Len(s \o t) : (s \o t)[i] = (s \o t)[j] => i = j
<1> DEFINE u == s \o t
<1>1. u \in Seq(Actions) /\ Len(u) = Len(s) + Len(t) /\ Len(s) \in Nat /\ Len(t) \in Nat
  OBVIOUS
<1>2. DOMAIN s = 1 .. Len(s) /\ DOMAIN t = 1 .. Len(t) /\ DOMAIN u = 1 .. Len(u)
  BY <1>1
<1>3. \A i \in 1 .. Len(u) : u[i] = IF i <= Len(s) THEN s[i] ELSE t[i - Len(s)]
  OBVIOUS
<1> HIDE DEF u
<1>4. \A i \in 1 .. Len(s) : i \in 1 .. Len(u) /\ u[i] = s[i]
  BY <1>1, <1>3
<1>5. \A i \in 1 .. Len(t) : i + Len(s) \in 1 .. Len(u) /\ u[i + Len(s)] = t[i]
  <2> SUFFICES ASSUME NEW i \in 1 .. Len(t)
               PROVE  i + Len(s) \in 1 .. Len(u) /\ u[i + Len(s)] = t[i]
    OBVIOUS
  <2> DEFINE k == i + Len(s)
  <2>1. k \in 1 .. Len(u) /\ ~(k <= Len(s)) /\ k - Len(s) = i
    BY <1>1
  <2> HIDE DEF k
  <2>2. u[k] = t[k - Len(s)]
    BY <1>3, <2>1
  <2> QED
    BY <2>1, <2>2 DEF k
<1>6. \A i \in 1 .. Len(u) : i \in 1 .. Len(s) \/ i - Len(s) \in 1 .. Len(t)
  BY <1>1
<1>7. ToSet(u) = ToSet(s) \cup ToSet(t)
  <2>1. ASSUME NEW x \in ToSet(u) PROVE x \in ToSet(s) \cup ToSet(t)
    <3>1. PICK i \in 1 .. Len(u) : x = u[i]
      BY <1>2 DEF ToSet
    <3>2. CASE i \in 1 .. Len(s)
      BY <1>2, <1>4, <3>1, <3>2 DEF ToSet
    <3>3. CASE i - Len(s) \in 1 .. Len(t)
      <4>1. x = t[i - Len(s)]
        BY <1>1, <1>3, <3>1, <3>3
      <4> QED
        BY <1>2, <3>3, <4>1 DEF ToSet
    <3> QED
      BY <1>6, <3>2, <3>3
  <2>2. ASSUME NEW x \in ToSet(s) PROVE x \in ToSet(u)
    BY <1>2, <1>4 DEF ToSet
  <2>3. ASSUME NEW x \in ToSet(t) PROVE x \in ToSet(u)
    BY <1>2, <1>5 DEF ToSet
  <2> QED
    BY <2>1, <2>2, <2>3
<1>8. ToSet(s) \in SUBSET Actions /\ ToSet(t) \in SUBSET Actions
  BY <1>2 DEF ToSet
<1>9. ASSUME NEW w \in Seq(Actions) PROVE w = <<>> <=> ToSet(w) = {}
  <2>1. CASE w = <<>>
    BY <2>1 DEF ToSet
  <2>2. CASE w # <<>>
    <3>1. Len(w) # 0 /\ Len(w) \in Nat /\ DOMAIN w = 1 .. Len(w)
      BY <2>2
    <3>2. 1 \in DOMAIN w
      BY <3>1
    <3> QED
      BY <2>2, <3>2 DEF ToSet
  <2> QED
    BY <2>1, <2>2
<1>10. ASSUME ToSet(s) \cap ToSet(t) = {},
              \A i, j \in 1 .. Len(s) : s[i] = s[j] => i = j,
              \A i, j \in 1 .. Len(t) : t[i] = t[j] => i = j,
              NEW i \in 1 .. Len(u), NEW j \in 1 .. Len(u), u[i] = u[j]
       PROVE  i = j
  <2>1. CASE i \in 1 .. Len(s) /\ j \in 1 .. Len(s)
    BY <1>4, <1>10, <2>1
  <2>2. CASE i - Len(s) \in 1 .. Len(t) /\ j - Len(s) \in 1 .. Len(t)
    <3>1. t[i - Len(s)] = t[j - Len(s)]
      BY <1>1, <1>3, <1>10, <2>2
    <3>2. i - Len(s) = j - Len(s)
      BY <1>10, <2>2, <3>1
    <3> QED
      BY <1>1, <3>2
  <2>3. ASSUME NEW k \in 1 .. Len(s), NEW l \in 1 .. Len(u), l - Len(s) \in 1 .. Len(t), u[k] = u[l]
        PROVE  FALSE
    <3>1. u[k] = s[k] /\ u[l] = t[l - Len(s)]
      BY <1>1, <1>3, <1>4, <2>3
    <3>2. s[k] \in ToSet(s) /\ t[l - Len(s)] \in ToSet(t)
      BY <1>2, <2>3 DEF ToSet
    <3> QED
      BY <1>10, <2>3, <3>1, <3>2
  <2> QED
    BY <1>6, <1>10, <2>1, <2>2, <2>3
<1> QED
  BY <1>1, <1>7, <1>8, <1>9, <1>10 DEF u
-----------------------------------------------------------------------------
(* What the steps of a plan name. *)
LEMMA PlanTyped ==
    TypeOK => /\ plan \in Draft
              /\ \A s \in Steps : /\ plan.dependencies[s] \in SUBSET Steps
                                  /\ IsFiniteSet(plan.dependencies[s])
                                  /\ plan.action[s] \in Actions
              /\ \A a \in Actions : plan.inputs[a] \in SUBSET Actions
<1> SUFFICES ASSUME TypeOK PROVE
              /\ plan \in Draft
              /\ \A s \in Steps : /\ plan.dependencies[s] \in SUBSET Steps
                                  /\ IsFiniteSet(plan.dependencies[s])
                                  /\ plan.action[s] \in Actions
              /\ \A a \in Actions : plan.inputs[a] \in SUBSET Actions
  OBVIOUS
<1>1. plan \in Draft
  BY DraftsAssumption DEF TypeOK
<1>2. \A s \in Steps : plan.dependencies[s] \in SUBSET Steps /\ plan.action[s] \in Actions
  BY <1>1 DEF Draft
<1>3. \A s \in Steps : IsFiniteSet(plan.dependencies[s])
  BY <1>2, StepsAssumption, FS_Subset
<1>4. \A a \in Actions : plan.inputs[a] \in SUBSET Actions
  BY <1>1 DEF Draft
<1> QED
  BY <1>1, <1>2, <1>3, <1>4

(* Permits that nobody holds are all available. *)
LEMMA NoHolders ==
    Holders = {} =>
        /\ \A a \in Holders \cap Conservative : Holders = {a}
        /\ (IF Holders \cap Conservative # {} THEN Lanes ELSE Cardinality(Holders)) = 0
BY FS_EmptySet

(* Before the plan is frozen nothing is placed. *)
LEMMA SafetyInit == Init => SafetyInv
<1> SUFFICES ASSUME Init PROVE SafetyInv
  OBVIOUS
<1>0. Cardinality(Steps) \in Nat /\ Cardinality(Actions) \in Nat /\ Lanes \in Nat
  BY StepsAssumption, ActionsAssumption, LanesAssumption, FS_CardinalityType
<1>1. ToSet(<<>>) = {}
  BY DEF ToSet
<1>2. TypeOK
  BY <1>0, <1>1 DEF Init, TypeOK, NoFailure
<1>3. Holders = {}
  BY DEF Init, Holders
<1>4. PermitsExclude
  BY <1>0, <1>2, <1>3, NoHolders DEF Init, PermitsExclude
<1>5. Phases
  BY <1>1 DEF Init, Phases, Started, Batch
<1>6. Tasks
  BY <1>0, <1>1 DEF Init, Tasks, Batch, ActionsOf
<1>7. Counted
  BY DEF Init, Counted, Started
<1>8. Placed
  BY <1>1 DEF Init, Placed, Batch, ActionsOf
<1> QED
  BY <1>4, <1>5, <1>6, <1>7, <1>8 DEF SafetyInv

(* Freezing schedules nothing; what fails is among the actions reached. *)
LEMMA SafetyFreeze == SafetyInv /\ Freeze => SafetyInv'
<1> SUFFICES ASSUME SafetyInv, Freeze PROVE SafetyInv'
  OBVIOUS
<1> USE DEF SafetyInv, invocation, scheduler, workers
<1>1. UNCHANGED <<plan, keep_going, limited, closure, indegree, ready, wave, wave_actions,
                  executed, failures, reported, waits, task, outcome, earliest, available>>
  BY DEF Freeze
<1>2. result = "draft" /\ result' \in {"frozen", "rejected"} /\ (result' = "frozen" => freeze(plan))
  BY DEF Freeze
<1>3. fails' \subseteq Actions
  <2>1. plan \in Draft /\ {Selected} \in SUBSET Steps /\ \A s \in Steps : plan.action[s] \in Actions
    BY PlanTyped, SelectedAssumption DEF PermitsExclude
  <2>2. Reach(plan, {Selected}) \in SUBSET Steps
    BY <2>1, ReachClosed
  <2>3. ActionsOf(Reach(plan, {Selected})) \subseteq Actions
    BY <2>1, <2>2 DEF ActionsOf
  <2> QED
    BY <2>3 DEF Freeze, PermitsExclude, TypeOK
<1>4. TypeOK'
  BY <1>1, <1>2, <1>3 DEF PermitsExclude, TypeOK
<1>5. PermitsExclude'
  BY <1>1, <1>4 DEF PermitsExclude, Holders
<1>6. Phases'
  BY <1>1, <1>2 DEF Phases, Started, Batch
<1>7. Tasks'
  BY <1>1 DEF Tasks, Batch, ActionsOf
<1>8. Counted'
  BY <1>2 DEF Counted, Started
<1>9. Placed'
  BY <1>1 DEF Placed, Batch, ActionsOf
<1> QED
  BY <1>5, <1>6, <1>7, <1>8, <1>9

(* The steps without dependencies are the ready ones. *)
LEMMA SafetyDiscover == SafetyInv /\ Discover => SafetyInv'
<1> SUFFICES ASSUME SafetyInv, Discover PROVE SafetyInv'
  OBVIOUS
<1> USE DEF SafetyInv, invocation, scheduler, workers
<1>1. UNCHANGED <<plan, keep_going, limited, fails, wave, wave_actions, executed, failures, reported,
                  task, outcome, earliest, available>>
  BY DEF Discover
<1>2. /\ result = "frozen" /\ result' = "running" /\ freeze(plan)
      /\ reported = {} /\ executed = {} /\ failures = <<>> /\ wave = {} /\ wave_actions = <<>>
  BY DEF Discover, Phases, Started
<1>3. /\ closure' = Reach(plan, {Selected})
      /\ indegree' = [s \in Steps |-> IF s \in closure' THEN Cardinality(plan.dependencies[s]) ELSE 0]
      /\ ready' = {s \in closure' : indegree'[s] = 0}
      /\ waits' = ActionsOf(closure') \ ActionsOf(ready')
  BY DEF Discover
<1>p. /\ plan \in Draft
      /\ \A s \in Steps : plan.dependencies[s] \in SUBSET Steps /\ plan.action[s] \in Actions
  BY PlanTyped DEF PermitsExclude
<1>4. closure' \in SUBSET Steps
  BY <1>p, <1>3, SelectedAssumption, ReachClosed
<1>5. \A s \in Steps : Cardinality(plan.dependencies[s]) \in 0 .. Cardinality(Steps)
  BY <1>p, StepsAssumption, FS_Subset, FS_CardinalityType
<1>6. indegree' \in [Steps -> 0 .. Cardinality(Steps)]
  BY <1>3, <1>5, StepsAssumption, FS_CardinalityType
<1>e. ToSet(<<>>) = {}
  BY DEF ToSet
<1>7. TypeOK'
  <2>w. waits' \subseteq ActionsOf(closure')
    BY <1>3
  <2>a. ActionsOf(closure') \subseteq Actions
    BY <1>p, <1>4 DEF ActionsOf
  <2>1. waits' \subseteq Actions
    BY <2>w, <2>a
  <2> QED
    BY <1>1, <1>2, <1>3, <1>4, <1>6, <2>1, ZenonT(60) DEF PermitsExclude, TypeOK
<1>8. PermitsExclude'
  BY <1>1, <1>7 DEF PermitsExclude, Holders
<1>9. Phases'
  BY <1>1, <1>2, <1>3 DEF Phases, Started, Batch
<1>10. Tasks'
  BY <1>1 DEF Tasks, Batch, ActionsOf
<1>11. Counted'
  <2>1. \A s \in Steps : plan.dependencies[s] \ {} = plan.dependencies[s]
    OBVIOUS
  <2> QED
    BY <1>1, <1>2, <1>3, <2>1 DEF Counted
<1>12. Placed'
  BY <1>1, <1>2, <1>3 DEF Placed, Batch, ActionsOf
<1> QED
  BY <1>8, <1>9, <1>10, <1>11, <1>12

(* The fresh actions of the ready steps become the tasks, once each. *)
LEMMA SafetyStartWave == SafetyInv /\ StartWave => SafetyInv'
<1> SUFFICES ASSUME SafetyInv, StartWave PROVE SafetyInv'
  OBVIOUS
<1> USE DEF SafetyInv, invocation, scheduler, workers
<1> DEFINE fresh == ActionsOf(ready) \ executed
<1>1. UNCHANGED <<plan, keep_going, limited, fails, result, closure, indegree, failures, reported, available>>
  BY DEF StartWave
<1>2. /\ result = "running" /\ wave = {} /\ ready # {} /\ wave_actions = <<>>
      /\ wave' = ready /\ ready' = {}
      /\ executed' = executed \cup fresh
      /\ waits' = waits \ fresh
      /\ task' = [a \in Actions |-> IF a \in fresh THEN "queued" ELSE "none"]
      /\ outcome' = [a \in Actions |-> "none"]
      /\ earliest' = NoFailure
  BY DEF StartWave, Phases
<1>3. wave_actions' \in SetToSeqs(fresh)
  BY DEF StartWave, Sorted
<1>p. ready \subseteq Steps /\ \A s \in Steps : plan.action[s] \in Actions
  BY PlanTyped DEF PermitsExclude, TypeOK
<1>4. fresh \in SUBSET Actions
  BY <1>p DEF ActionsOf
<1>5. /\ wave_actions' \in Seq(Actions) /\ Len(wave_actions') <= Cardinality(Actions)
      /\ ToSet(wave_actions') = fresh
      /\ \A i, j \in 1 .. Len(wave_actions') : wave_actions'[i] = wave_actions'[j] => i = j
  <2> HIDE DEF fresh
  <2> QED
    BY <1>3, <1>4, Listed
<1>e. ToSet(<<>>) = {}
  BY DEF ToSet
<1>6. Holders = {} /\ Holders' = {}
  <2>1. \A a \in Actions : task[a] = "none"
    BY <1>2, <1>e DEF Phases, Batch
  <2>2. \A a \in Actions : task'[a] \in {"queued", "none"}
    BY <1>2
  <2> QED
    BY <2>1, <2>2 DEF Holders
<1>7. TypeOK'
  <2>1. /\ waits' \subseteq Actions \ executed'
        /\ ToSet(wave_actions)' \subseteq executed' /\ ToSet(failures)' \subseteq executed'
        /\ executed' \subseteq Actions /\ wave' \subseteq Steps /\ ready' \subseteq Steps
    BY <1>1, <1>2, <1>4, <1>5, <1>p DEF PermitsExclude, TypeOK
  <2>2. NoFailure \in 1 .. NoFailure
    BY ActionsAssumption, FS_CardinalityType DEF NoFailure
  <2>3. /\ task' \in [Actions -> {"none", "queued", "permit", "check", "run", "release", "done"}]
        /\ outcome' \in [Actions -> {"none", "succeeded", "cancelled", "failed"}]
    BY <1>2
  <2> HIDE DEF fresh
  <2> QED
    BY <1>1, <1>2, <2>1, <2>2, <2>3 DEF PermitsExclude, TypeOK, NoFailure
<1>8. PermitsExclude'
  <2>1. available' = available
    BY <1>1
  <2>2. \A a \in Holders' \cap Conservative : Holders' = {a}
    BY <1>6
  <2>3. Holders' \cap Conservative = {} /\ Holders' = Holders
    BY <1>6
  <2> HIDE DEF fresh
  <2> QED
    BY <1>6, <1>7, <2>1, <2>2, <2>3 DEF PermitsExclude
<1>9. Phases'
  <2>1. \A a \in Actions : task'[a] # "none" <=> a \in ToSet(wave_actions')
    BY <1>2, <1>5
  <2> HIDE DEF fresh
  <2> QED
    BY <1>1, <1>2, <2>1 DEF Phases, Started, Batch
<1>10. Tasks'
  <2>1. fresh \subseteq ActionsOf(wave)' /\ ToSet(failures) \cap fresh = {}
    BY <1>1, <1>2 DEF ActionsOf, PermitsExclude, TypeOK
  <2> HIDE DEF fresh
  <2> QED
    BY <1>1, <1>2, <1>5, <2>1 DEF Tasks, Batch
<1>11. Counted'
  BY <1>1 DEF Counted, Started
<1>12. Placed'
  <2>1. ready' \cup wave' \cup reported' = ready \cup wave \cup reported
    BY <1>1, <1>2
  <2>2. (ready' \cup wave') \cap reported' = {}
    BY <1>1, <1>2 DEF Placed
  <2>3. ActionsOf(wave)' \subseteq executed'
    BY <1>1, <1>2 DEF ActionsOf
  <2>4. ActionsOf(reported)' \subseteq executed' \ (Batch' \cup ToSet(failures'))
    <3>1. Batch' = fresh
      BY <1>5 DEF Batch
    <3>2. ActionsOf(reported)' = ActionsOf(reported)
      BY <1>1 DEF ActionsOf
    <3>3. ActionsOf(reported) \subseteq executed \ ToSet(failures)
      BY DEF Placed
    <3> QED
      BY <1>1, <1>2, <3>1, <3>2, <3>3
  <2> HIDE DEF fresh
  <2> QED
    BY <1>1, <2>1, <2>2, <2>3, <2>4 DEF Placed
<1> QED
  BY <1>8, <1>9, <1>10, <1>11, <1>12

(* A worker's step leaves the plan and the wave alone; its task stays one  *)
(* of the wave.                                                            *)
LEMMA WorkFrame ==
    ASSUME SafetyInv, UNCHANGED <<invocation, scheduler>>, NEW a \in Actions,
           NEW l \in {"permit", "check", "run", "release", "done"},
           task[a] # "none", Goto(a, l)
    PROVE  /\ Phases' /\ Tasks' /\ Counted' /\ Placed'
           /\ a \in Batch /\ Batch' = Batch
           /\ task' = [task EXCEPT ![a] = l]
           /\ task' \in [Actions -> {"none", "queued", "permit", "check", "run", "release", "done"}]
<1> USE DEF SafetyInv
<1>1. UNCHANGED <<plan, keep_going, limited, fails, result, closure, indegree, ready, wave, wave_actions,
                  executed, failures, reported, waits>>
  BY DEF invocation, scheduler
<1>2. task \in [Actions -> {"none", "queued", "permit", "check", "run", "release", "done"}]
  BY DEF PermitsExclude, TypeOK
<1>3. task' = [task EXCEPT ![a] = l]
  BY DEF Goto
<1>4. \A b \in Actions : task'[b] # "none" <=> task[b] # "none"
  BY <1>2, <1>3
<1>5. a \in Batch /\ Batch' = Batch
  BY <1>1 DEF Phases, Batch
<1>6. Phases'
  BY <1>1, <1>4, <1>5 DEF Phases, Started
<1>7. Tasks'
  BY <1>1, <1>5 DEF Tasks, ActionsOf
<1>8. Counted'
  BY <1>1 DEF Counted, Started
<1>9. Placed'
  BY <1>1, <1>5 DEF Placed, ActionsOf
<1> QED
  BY <1>2, <1>3, <1>5, <1>6, <1>7, <1>8, <1>9

(* A task has a position in its wave, and no failure is beyond it. *)
LEMMA Positions ==
    ASSUME SafetyInv, NEW a \in Batch
    PROVE  /\ Position(a) \in 1 .. Len(wave_actions) /\ wave_actions[Position(a)] = a
           /\ Position(a) \in 1 .. Cardinality(Actions)
           /\ Position(a) < NoFailure
           /\ NoFailure \in Nat /\ earliest \in 1 .. NoFailure
<1>1. wave_actions \in Seq(Actions) /\ Len(wave_actions) <= Cardinality(Actions)
  BY DEF SafetyInv, Tasks
<1>2. \E i \in 1 .. Len(wave_actions) : wave_actions[i] = a
  BY <1>1 DEF Batch, ToSet
<1>3. Position(a) \in 1 .. Len(wave_actions) /\ wave_actions[Position(a)] = a
  BY <1>2 DEF Position
<1>4. Cardinality(Actions) \in Nat /\ Len(wave_actions) \in Nat /\ earliest \in 1 .. NoFailure
  BY <1>1, ActionsAssumption, FS_CardinalityType DEF SafetyInv, PermitsExclude, TypeOK
<1> QED
  BY <1>1, <1>3, <1>4 DEF NoFailure

(* What a task that holds no permit, or keeps the one it holds, changes.   *)
LEMMA SameHolders ==
    ASSUME SafetyInv, UNCHANGED <<invocation, scheduler, available>>, NEW a \in Actions,
           NEW l \in {"permit", "check", "run", "release", "done"},
           task[a] # "none", Goto(a, l),
           a \in Holders <=> l \in {"check", "run", "release"},
           outcome' \in [Actions -> {"none", "succeeded", "cancelled", "failed"}],
           earliest' \in 1 .. NoFailure
    PROVE  SafetyInv'
<1>1. /\ Phases' /\ Tasks' /\ Counted' /\ Placed'
      /\ task' = [task EXCEPT ![a] = l]
      /\ task' \in [Actions -> {"none", "queued", "permit", "check", "run", "release", "done"}]
  BY WorkFrame
<1>2. task \in [Actions -> {"none", "queued", "permit", "check", "run", "release", "done"}]
  BY DEF SafetyInv, PermitsExclude, TypeOK
<1>3. Holders' = Holders
  BY <1>1, <1>2 DEF Holders
<1>4. TypeOK'
  BY <1>1 DEF SafetyInv, PermitsExclude, TypeOK, invocation, scheduler, NoFailure
<1>5. PermitsExclude'
  BY <1>3, <1>4 DEF SafetyInv, PermitsExclude
<1> QED
  BY <1>1, <1>5 DEF SafetyInv

(* A task that gets a lane holds no permit yet. *)
LEMMA SafetyStartTask == ASSUME NEW a \in Actions PROVE SafetyInv /\ StartTask(a) => SafetyInv'
<1> SUFFICES ASSUME SafetyInv, StartTask(a) PROVE SafetyInv'
  OBVIOUS
<1>1. /\ UNCHANGED <<invocation, scheduler, available>> /\ UNCHANGED <<outcome, earliest>>
      /\ task[a] = "queued" /\ Goto(a, "permit")
  BY DEF StartTask
<1>2. a \notin Holders
  BY <1>1 DEF Holders
<1>3. outcome \in [Actions -> {"none", "succeeded", "cancelled", "failed"}] /\ earliest \in 1 .. NoFailure
  BY DEF SafetyInv, PermitsExclude, TypeOK
<1> QED
  BY <1>1, <1>2, <1>3, SameHolders

(* A task that looks at the cancellation keeps its permit. *)
LEMMA SafetyCheck == ASSUME NEW a \in Actions PROVE SafetyInv /\ Check(a) => SafetyInv'
<1> SUFFICES ASSUME SafetyInv, Check(a) PROVE SafetyInv'
  OBVIOUS
<1>1. /\ UNCHANGED <<invocation, scheduler, available>> /\ UNCHANGED earliest
      /\ task[a] = "check" /\ (Goto(a, "run") \/ Goto(a, "release"))
  BY DEF Check
<1>2. a \in Holders
  BY <1>1 DEF Holders
<1>3. outcome \in [Actions -> {"none", "succeeded", "cancelled", "failed"}] /\ earliest \in 1 .. NoFailure
  BY DEF SafetyInv, PermitsExclude, TypeOK
<1>4. outcome' \in [Actions -> {"none", "succeeded", "cancelled", "failed"}]
  BY <1>3 DEF Check
<1> QED
  BY <1>1, <1>2, <1>3, <1>4, SameHolders

(* A task that returns keeps its permit. *)
LEMMA SafetyExecute == ASSUME NEW a \in Actions PROVE SafetyInv /\ Execute(a) => SafetyInv'
<1> SUFFICES ASSUME SafetyInv, Execute(a) PROVE SafetyInv'
  OBVIOUS
<1>1. /\ UNCHANGED <<invocation, scheduler, available>>
      /\ task[a] = "run" /\ Goto(a, "release")
  BY DEF Execute
<1>2. a \in Holders /\ a \in Batch
  BY <1>1 DEF Holders, SafetyInv, Phases
<1>3. outcome \in [Actions -> {"none", "succeeded", "cancelled", "failed"}] /\ earliest \in 1 .. NoFailure
  BY DEF SafetyInv, PermitsExclude, TypeOK
<1>4. outcome' \in [Actions -> {"none", "succeeded", "cancelled", "failed"}]
  BY <1>3 DEF Execute
<1>5. earliest' \in 1 .. NoFailure
  <2>1. Position(a) \in 1 .. NoFailure /\ NoFailure \in Nat
    BY <1>2, Positions
  <2>2. Min({earliest, Position(a)}) \in 1 .. NoFailure
    <3>1. earliest \in Int /\ Position(a) \in Int
      BY <1>3, <2>1
    <3>2. Min({earliest, Position(a)}) \in {earliest, Position(a)}
      BY <3>1, MinOfTwo
    <3> QED
      BY <1>3, <2>1, <3>2
  <2> QED
    BY <1>3, <2>2 DEF Execute
<1> QED
  BY <1>1, <1>2, <1>4, <1>5, SameHolders

(* What is known of the permits before one is taken or returned. *)
LEMMA Permits ==
    SafetyInv => /\ Lanes \in Nat \ {0} /\ available \in 0 .. Lanes
                 /\ IsFiniteSet(Holders) /\ Cardinality(Holders) \in Nat
                 /\ (Cardinality(Holders) = 0 <=> Holders = {})
                 /\ available = Lanes - (IF Holders \cap Conservative # {} THEN Lanes ELSE Cardinality(Holders))
                 /\ \A a \in Holders \cap Conservative : Holders = {a}
<1>1. Holders \in SUBSET Actions
  BY DEF Holders
<1>2. IsFiniteSet(Holders)
  BY <1>1, ActionsAssumption, FS_Subset
<1> QED
  BY <1>2, LanesAssumption, FS_CardinalityType, FS_EmptySet DEF SafetyInv, PermitsExclude, TypeOK

(* A permit is handed out only while it excludes. *)
LEMMA SafetyAcquire == ASSUME NEW a \in Actions PROVE SafetyInv /\ Acquire(a) => SafetyInv'
<1> SUFFICES ASSUME SafetyInv, Acquire(a) PROVE SafetyInv'
  OBVIOUS
<1>1. /\ UNCHANGED <<invocation, scheduler>> /\ UNCHANGED <<outcome, earliest>>
      /\ task[a] = "permit" /\ available >= Weight(a) /\ available' = available - Weight(a)
      /\ Goto(a, "check")
  BY DEF Acquire
<1>2. /\ Phases' /\ Tasks' /\ Counted' /\ Placed'
      /\ task' = [task EXCEPT ![a] = "check"]
      /\ task' \in [Actions -> {"none", "queued", "permit", "check", "run", "release", "done"}]
  BY <1>1, WorkFrame
<1>3. task \in [Actions -> {"none", "queued", "permit", "check", "run", "release", "done"}]
  BY DEF SafetyInv, PermitsExclude, TypeOK
<1>4. Holders' = Holders \cup {a} /\ a \notin Holders
  BY <1>1, <1>2, <1>3 DEF Holders
<1>5. available' \in 0 .. Lanes
  BY <1>1, Permits DEF Weight
<1>6. TypeOK'
  BY <1>1, <1>2, <1>5 DEF SafetyInv, PermitsExclude, TypeOK, invocation, scheduler, NoFailure
<1>7. Cardinality(Holders \cup {a}) = Cardinality(Holders) + 1
  BY <1>4, Permits, FS_AddElement
<1>8. Holders \cap Conservative = {}
  BY <1>1, Permits DEF Weight
<1>9. CASE a \in Conservative
  <2>1. Holders = {} /\ available = Lanes
    BY <1>1, <1>8, <1>9, Permits DEF Weight
  <2>2. Holders' = {a} /\ Holders' \cap Conservative # {}
    BY <1>4, <1>9, <2>1
  <2>3. available' = Lanes - Lanes
    BY <1>1, <1>9, <2>1 DEF Weight
  <2>4. PermitsExclude'
    BY <1>6, <2>2, <2>3 DEF PermitsExclude
  <2> QED
    BY <1>2, <2>4 DEF SafetyInv
<1>10. CASE a \notin Conservative
  <2>1. Holders' \cap Conservative = {}
    BY <1>4, <1>8, <1>10
  <2>2. available' = Lanes - Cardinality(Holders')
    BY <1>1, <1>4, <1>7, <1>8, <1>10, Permits DEF Weight
  <2>3. PermitsExclude'
    BY <1>6, <2>1, <2>2 DEF PermitsExclude
  <2> QED
    BY <1>2, <2>3 DEF SafetyInv
<1> QED
  BY <1>9, <1>10

(* A permit that is returned was taken: over-release never happens. *)
LEMMA SafetyRelease == ASSUME NEW a \in Actions PROVE SafetyInv /\ Release(a) => SafetyInv'
<1> SUFFICES ASSUME SafetyInv, Release(a) PROVE SafetyInv'
  OBVIOUS
<1>1. /\ UNCHANGED <<invocation, scheduler>> /\ UNCHANGED <<outcome, earliest>>
      /\ task[a] = "release" /\ Goto(a, "done")
      /\ available' = IF available + Weight(a) > Lanes THEN available ELSE available + Weight(a)
  BY DEF Release
<1>2. /\ Phases' /\ Tasks' /\ Counted' /\ Placed'
      /\ task' = [task EXCEPT ![a] = "done"]
      /\ task' \in [Actions -> {"none", "queued", "permit", "check", "run", "release", "done"}]
  BY <1>1, WorkFrame
<1>3. task \in [Actions -> {"none", "queued", "permit", "check", "run", "release", "done"}]
  BY DEF SafetyInv, PermitsExclude, TypeOK
<1>4. Holders' = Holders \ {a} /\ a \in Holders
  BY <1>1, <1>2, <1>3 DEF Holders
<1>5. available' \in 0 .. Lanes
  BY <1>1, Permits DEF Weight
<1>6. TypeOK'
  BY <1>1, <1>2, <1>5 DEF SafetyInv, PermitsExclude, TypeOK, invocation, scheduler, NoFailure
<1>7. Cardinality(Holders \ {a}) = Cardinality(Holders) - 1
  BY <1>4, Permits, FS_RemoveElement
<1>9. CASE a \in Conservative
  <2>1. Holders = {a} /\ available = 0
    BY <1>4, <1>9, Permits
  <2>2. Holders' = {}
    BY <1>4, <2>1
  <2>3. available' = Lanes - 0
    BY <1>1, <1>9, <2>1, Permits DEF Weight
  <2>4. PermitsExclude'
    <3>1. Cardinality(Holders') = 0 /\ Holders' \cap Conservative = {}
      BY <2>2, FS_EmptySet
    <3> QED
      BY <1>6, <2>3, <3>1 DEF PermitsExclude
  <2> QED
    BY <1>2, <2>4 DEF SafetyInv
<1>10. CASE a \notin Conservative
  <2>1. Holders \cap Conservative = {} /\ Holders' \cap Conservative = {}
    BY <1>4, <1>10, Permits
  <2>2. available = Lanes - Cardinality(Holders) /\ Cardinality(Holders) > 0
    BY <1>4, <2>1, Permits
  <2>3. available' = Lanes - Cardinality(Holders')
    BY <1>1, <1>4, <1>7, <1>10, <2>2, Permits DEF Weight
  <2>4. PermitsExclude'
    BY <1>6, <2>1, <2>3 DEF PermitsExclude
  <2> QED
    BY <1>2, <2>4 DEF SafetyInv
<1> QED
  BY <1>9, <1>10

(* What a finished wave leaves, whether the build goes on or ends. *)
LEMMA WaveFinished ==
    ASSUME SafetyInv, FinishWave
    PROVE  /\ UNCHANGED <<plan, keep_going, limited, fails, closure, executed, outcome, earliest, available>>
           /\ wave' = {} /\ wave_actions' = <<>> /\ task' = [a \in Actions |-> "none"]
           /\ wave # {} /\ ready = {} /\ result = "running"
           /\ \A a \in Batch : task[a] = "done"
           /\ \E new \in SetToSeqs({a \in Batch : outcome[a] = "failed"}) : failures' = failures \o new
           /\ failures' \in Seq(Actions)
           /\ ToSet(failures') = ToSet(failures) \cup {a \in Batch : outcome[a] = "failed"}
           /\ failures' = <<>> <=> ToSet(failures') = {}
           /\ Batch \subseteq executed /\ Batch \subseteq Actions
<1> DEFINE fresh == {a \in Batch : outcome[a] = "failed"}
<1>1. /\ UNCHANGED <<plan, keep_going, limited, fails, closure, executed, outcome, earliest, available>>
      /\ wave' = {} /\ wave_actions' = <<>> /\ task' = [a \in Actions |-> "none"]
      /\ wave # {} /\ \A a \in Batch : task[a] = "done"
  BY DEF FinishWave, invocation
<1>2. ready = {} /\ result = "running"
  BY <1>1 DEF SafetyInv, Phases
<1>3. PICK new \in SetToSeqs(fresh) : failures' = failures \o new
  BY DEF FinishWave, Sorted
<1>4. Batch \subseteq executed /\ Batch \subseteq Actions
  BY DEF SafetyInv, PermitsExclude, TypeOK, Batch
<1>5. fresh \in SUBSET Actions
  BY <1>4
<1>6. new \in Seq(Actions) /\ ToSet(new) = fresh /\ failures \in Seq(Actions)
  <2> HIDE DEF fresh
  <2> QED
    BY <1>3, <1>5, Listed DEF SafetyInv, Tasks
<1>7. /\ failures' \in Seq(Actions) /\ ToSet(failures') = ToSet(failures) \cup fresh
      /\ failures' = <<>> <=> ToSet(failures') = {}
  <2> HIDE DEF fresh
  <2> QED
    BY <1>3, <1>6, Appended
<1> QED
  BY <1>1, <1>2, <1>3, <1>4, <1>7

(* The steps that complete, and what they release. *)
LEMMA WaveCounted ==
    ASSUME SafetyInv, FinishWave, UNCHANGED <<plan, closure>>,
           NEW completed, completed = {s \in wave : plan.action[s] \notin ToSet(failures')},
           reported' = reported \cup completed,
           indegree' = [s \in Steps |-> IF s \notin closure THEN 0
                          ELSE indegree[s] - Cardinality(plan.dependencies[s] \cap completed)]
    PROVE  /\ \A s \in Steps : /\ s \in closure => indegree'[s] = Cardinality(plan.dependencies[s] \ reported')
                               /\ s \notin closure => indegree'[s] = 0
                               /\ indegree[s] = 0 => indegree'[s] = 0
           /\ indegree' \in [Steps -> 0 .. Cardinality(Steps)]
<1>p. /\ \A s \in Steps : /\ plan.dependencies[s] \in SUBSET Steps
                          /\ IsFiniteSet(plan.dependencies[s])
      /\ indegree \in [Steps -> 0 .. Cardinality(Steps)]
  BY PlanTyped DEF SafetyInv, PermitsExclude, TypeOK
<1>0. Started
  BY WaveFinished DEF Started
<1>1. completed \cap reported = {}
  BY DEF SafetyInv, Placed
<1>2. ASSUME NEW s \in Steps PROVE
        /\ s \in closure => indegree'[s] = Cardinality(plan.dependencies[s] \ reported')
        /\ s \notin closure => indegree'[s] = 0
        /\ indegree[s] = 0 => indegree'[s] = 0
        /\ indegree'[s] \in 0 .. Cardinality(Steps)
  <2> DEFINE left == plan.dependencies[s] \ reported
  <2>1. IsFiniteSet(left) /\ left \in SUBSET Steps
    BY <1>p, FS_Subset
  <2>2. plan.dependencies[s] \ reported' = left \ completed
    OBVIOUS
  <2>3. plan.dependencies[s] \cap completed = left \cap completed
    BY <1>1
  <2>4. CASE s \in closure
    <3>1. indegree[s] = Cardinality(left)
      BY <1>0, <2>4 DEF SafetyInv, Counted
    <3>2. indegree'[s] = Cardinality(left) - Cardinality(left \cap completed)
      BY <2>3, <2>4, <3>1
    <3>3. indegree'[s] = Cardinality(left \ completed)
      BY <2>1, <3>2, Difference
    <3>4. indegree'[s] \in 0 .. Cardinality(Steps)
      <4>1. left \ completed \in SUBSET Steps
        BY <2>1
      <4> HIDE DEF left
      <4> QED
        BY <3>3, <4>1, StepsAssumption, FS_Subset, FS_CardinalityType
    <3>5. indegree[s] = 0 => indegree'[s] = 0
      <4>1. ASSUME Cardinality(left) = 0 PROVE Cardinality(left \ completed) = 0
        <5>1. left = {} /\ left \ completed = {}
          BY <2>1, <4>1, FS_EmptySet
        <5> QED
          BY <5>1, FS_EmptySet
      <4> QED
        BY <3>1, <3>3, <4>1
    <3> QED
      BY <2>2, <2>4, <3>3, <3>4, <3>5
  <2>5. CASE s \notin closure
    <3>1. indegree'[s] = 0
      BY <2>5
    <3>2. 0 \in 0 .. Cardinality(Steps)
      BY StepsAssumption, FS_CardinalityType
    <3> QED
      BY <2>5, <3>1, <3>2
  <2> QED
    BY <2>4, <2>5
<1>3. indegree' \in [Steps -> 0 .. Cardinality(Steps)]
  BY <1>2
<1> QED
  BY <1>2, <1>3

(* A wave that is over places its steps: reported, failed or left. *)
LEMMA SafetyFinishWave == SafetyInv /\ FinishWave => SafetyInv'
<1> SUFFICES ASSUME SafetyInv, FinishWave PROVE SafetyInv'
  OBVIOUS
<1> DEFINE fresh == {a \in Batch : outcome[a] = "failed"}
           completed == {s \in wave : plan.action[s] \notin ToSet(failures')}
<1>1. /\ UNCHANGED <<plan, keep_going, limited, fails, closure, executed, outcome, earliest, available>>
      /\ wave' = {} /\ wave_actions' = <<>> /\ task' = [a \in Actions |-> "none"]
      /\ wave # {} /\ ready = {} /\ result = "running"
      /\ \A a \in Batch : task[a] = "done"
      /\ failures' \in Seq(Actions) /\ ToSet(failures') = ToSet(failures) \cup fresh
      /\ Batch \subseteq executed /\ Batch \subseteq Actions
  BY WaveFinished
<1>2. \/ /\ result' \in {"inconsistent", "failed"} /\ waits' = {}
         /\ UNCHANGED <<indegree, ready, reported>>
      \/ /\ reported' = reported \cup completed
         /\ indegree' = [s \in Steps |-> IF s \notin closure THEN 0
                           ELSE indegree[s] - Cardinality(plan.dependencies[s] \cap completed)]
         /\ ready' = {s \in closure : indegree[s] > 0 /\ indegree'[s] = 0}
         /\ waits' \subseteq waits /\ result' = result
  BY DEF FinishWave, Complete
<1>t. TypeOK
  BY DEF SafetyInv, PermitsExclude
<1>c. /\ reported' \subseteq reported \cup wave
      /\ reported \subseteq reported'
      /\ \A s \in Steps : /\ s \in closure => indegree'[s] = Cardinality(plan.dependencies[s] \ reported')
                          /\ s \notin closure => indegree'[s] = 0
                          /\ indegree[s] = 0 => indegree'[s] = 0
      /\ indegree' \in [Steps -> 0 .. Cardinality(Steps)]
      /\ \A s \in ready' : s \in closure /\ indegree[s] > 0 /\ indegree'[s] = 0
      /\ \A s \in reported' \ reported : plan.action[s] \notin ToSet(failures')
      /\ waits' \subseteq waits /\ ready' \subseteq Steps
      /\ result' \in {"inconsistent", "failed", "running"}
      /\ result' # "running" => ready' = {}
  <2>1. CASE /\ result' \in {"inconsistent", "failed"} /\ waits' = {}
             /\ UNCHANGED <<indegree, ready, reported>>
    BY <1>1, <1>t, <2>1 DEF SafetyInv, Counted, Started, TypeOK
  <2>2. CASE /\ reported' = reported \cup completed
             /\ indegree' = [s \in Steps |-> IF s \notin closure THEN 0
                               ELSE indegree[s] - Cardinality(plan.dependencies[s] \cap completed)]
             /\ ready' = {s \in closure : indegree[s] > 0 /\ indegree'[s] = 0}
             /\ waits' \subseteq waits /\ result' = result
    <3>1. /\ \A s \in Steps : /\ s \in closure => indegree'[s] = Cardinality(plan.dependencies[s] \ reported')
                              /\ s \notin closure => indegree'[s] = 0
                              /\ indegree[s] = 0 => indegree'[s] = 0
          /\ indegree' \in [Steps -> 0 .. Cardinality(Steps)]
      BY <1>1, <2>2, WaveCounted
    <3>2. closure \subseteq Steps
      BY <1>t DEF TypeOK
    <3> QED
      BY <1>1, <2>2, <3>1, <3>2
  <2> QED
    BY <1>2, <2>1, <2>2
<1>e. ToSet(<<>>) = {}
  BY DEF ToSet
<1>3. Holders = {} /\ Holders' = {}
  <2>1. \A a \in Actions : task[a] \in {"none", "done"}
    BY <1>1 DEF SafetyInv, Phases
  <2> QED
    BY <1>1, <2>1 DEF Holders
<1>4. TypeOK'
  <2>1. /\ ToSet(failures') \subseteq executed /\ reported' \subseteq Steps
        /\ waits' \subseteq Actions \ executed
    BY <1>1, <1>c, <1>t DEF TypeOK
  <2>2. task' \in [Actions -> {"none", "queued", "permit", "check", "run", "release", "done"}]
    BY <1>1
  <2>3. /\ plan' \in Drafts /\ keep_going' \in BOOLEAN /\ limited' \in BOOLEAN /\ fails' \subseteq Actions
        /\ closure' \subseteq Steps
        /\ outcome' \in [Actions -> {"none", "succeeded", "cancelled", "failed"}]
        /\ earliest' \in 1 .. NoFailure /\ available' \in 0 .. Lanes
        /\ executed' \subseteq Actions
    BY <1>1, <1>t DEF TypeOK
  <2>4. NoFailure' = NoFailure
    BY DEF NoFailure
  <2>5. result' \in {"draft", "rejected", "frozen", "running", "ok", "failed", "inconsistent"}
    BY <1>c
  <2>6. ToSet(wave_actions') \subseteq executed' /\ wave' \subseteq Steps
    BY <1>1, <1>e
  <2> HIDE DEF fresh, completed
  <2> QED
    BY <1>1, <1>c, <2>1, <2>2, <2>3, <2>4, <2>5, <2>6 DEF TypeOK
<1>5. PermitsExclude'
  <2>1. available' = available
    BY <1>1
  <2>2. \A a \in Holders' \cap Conservative : Holders' = {a}
    BY <1>3
  <2>3. Holders' \cap Conservative = {} /\ Holders' = Holders
    BY <1>3
  <2> HIDE DEF fresh, completed
  <2> QED
    BY <1>3, <1>4, <2>1, <2>2, <2>3 DEF PermitsExclude, SafetyInv
<1>6. Phases'
  <2>1. \A a \in Actions : task'[a] # "none" <=> a \in ToSet(wave_actions')
    BY <1>1, <1>e
  <2>2. freeze(plan') /\ closure' = Reach(plan', {Selected})
    BY <1>1 DEF SafetyInv, Phases, Started
  <2> HIDE DEF fresh, completed
  <2> QED
    BY <1>1, <1>c, <2>1, <2>2 DEF Phases, Started, Batch
<1>7. Tasks'
  <2>1. Batch' = {} /\ Len(wave_actions') = 0 /\ wave_actions' \in Seq(Actions)
    BY <1>1, <1>e DEF Batch
  <2>2. 0 <= Cardinality(Actions)
    BY ActionsAssumption, FS_CardinalityType
  <2> HIDE DEF fresh, completed
  <2> QED
    BY <1>1, <2>1, <2>2 DEF Tasks
<1>8. Counted'
  <2> HIDE DEF fresh, completed
  <2> QED
    BY <1>1, <1>c DEF Counted
<1>9. Placed'
  <2>0. \A s \in reported \cup wave : s \in closure /\ s \in Steps /\ indegree[s] = 0
    BY <1>t DEF SafetyInv, Placed, TypeOK
  <2>1. ready' \cup wave' \cup reported' \subseteq {s \in closure' : indegree'[s] = 0}
    BY <1>1, <1>c, <2>0
  <2>2. (ready' \cup wave') \cap reported' = {}
    BY <1>1, <1>c, <2>0
  <2>3. ActionsOf(wave)' \subseteq executed'
    BY <1>1 DEF ActionsOf
  <2>4. ActionsOf(reported)' \subseteq executed' \ (Batch' \cup ToSet(failures'))
    <3> SUFFICES ASSUME NEW s \in reported'
                 PROVE  plan.action[s] \in executed /\ plan.action[s] \notin ToSet(failures')
      BY <1>1, <1>e DEF Batch, ActionsOf
    <3>1. CASE s \in reported
      <4>1. plan.action[s] \in executed \ (Batch \cup ToSet(failures))
        BY <3>1 DEF SafetyInv, Placed, ActionsOf
      <4> QED
        BY <1>1, <4>1
    <3>2. CASE s \notin reported
      <4>1. s \in wave /\ plan.action[s] \notin ToSet(failures')
        BY <1>c, <3>2
      <4>2. plan.action[s] \in executed
        BY <4>1 DEF SafetyInv, Placed, ActionsOf
      <4> QED
        BY <4>1, <4>2
    <3> QED
      BY <3>1, <3>2
  <2> HIDE DEF fresh, completed
  <2> QED
    BY <2>1, <2>2, <2>3, <2>4 DEF Placed
<1> QED
  BY <1>5, <1>6, <1>7, <1>8, <1>9 DEF SafetyInv

(* The end of a build moves no step. *)
LEMMA SafetyEnd == SafetyInv /\ End => SafetyInv'
<1> SUFFICES ASSUME SafetyInv, End PROVE SafetyInv'
  OBVIOUS
<1>1. UNCHANGED <<plan, keep_going, limited, fails, closure, indegree, ready, wave, wave_actions, executed,
                  failures, reported, task, outcome, earliest, available>>
  BY DEF End, invocation, workers
<1>2. /\ result = "running" /\ wave = {} /\ ready = {}
      /\ result' \in {"failed", "inconsistent", "ok"}
      /\ waits' \subseteq waits
  BY DEF End
<1>3. TypeOK'
  BY <1>1, <1>2 DEF SafetyInv, PermitsExclude, TypeOK
<1>4. PermitsExclude'
  BY <1>1, <1>3 DEF SafetyInv, PermitsExclude, Holders
<1>5. Phases'
  BY <1>1, <1>2 DEF SafetyInv, Phases, Started, Batch
<1>6. Tasks'
  BY <1>1 DEF SafetyInv, Tasks, Batch, ActionsOf
<1>7. Counted'
  BY <1>1, <1>2 DEF SafetyInv, Counted, Started
<1>8. Placed'
  BY <1>1 DEF SafetyInv, Placed, Batch, ActionsOf
<1> QED
  BY <1>4, <1>5, <1>6, <1>7, <1>8 DEF SafetyInv

(* Every step of the build keeps the invariant. *)
LEMMA SafetyStep == SafetyInv /\ [Next]_vars => SafetyInv'
<1> SUFFICES ASSUME SafetyInv, [Next]_vars PROVE SafetyInv'
  OBVIOUS
<1>1. CASE Freeze
  BY <1>1, SafetyFreeze
<1>2. CASE Discover
  BY <1>2, SafetyDiscover
<1>3. CASE StartWave
  BY <1>3, SafetyStartWave
<1>4. CASE FinishWave
  BY <1>4, SafetyFinishWave
<1>5. CASE End
  BY <1>5, SafetyEnd
<1>6. ASSUME NEW a \in Actions, Work(a) PROVE SafetyInv'
  BY <1>6, SafetyStartTask, SafetyAcquire, SafetyCheck, SafetyExecute, SafetyRelease DEF Work
<1>7. CASE UNCHANGED vars
  <2>1. UNCHANGED <<plan, keep_going, limited, fails, result, closure, indegree, ready, wave, wave_actions,
                    executed, failures, reported, waits, task, outcome, earliest, available>>
    BY <1>7 DEF vars, invocation, scheduler, workers
  <2>2. PermitsExclude'
    BY <2>1 DEF SafetyInv, PermitsExclude, TypeOK, Holders
  <2>3. Phases'
    BY <2>1 DEF SafetyInv, Phases, Started, Batch
  <2>4. Tasks' /\ Placed'
    BY <2>1 DEF SafetyInv, Tasks, Placed, Batch, ActionsOf
  <2>5. Counted'
    BY <2>1 DEF SafetyInv, Counted, Started
  <2> QED
    BY <2>2, <2>3, <2>4, <2>5 DEF SafetyInv
<1> QED
  BY <1>1, <1>2, <1>3, <1>4, <1>5, <1>6, <1>7 DEF Next

(* Every reachable state of a build places its steps, tasks and permits.   *)
LEMMA Safety == Spec => []SafetyInv
BY SafetyInit, SafetyStep, PTL DEF Spec

(* Conservative work runs alone, other work within the capacity, and no    *)
(* permit is lost however a task ends (resources.rs), for every plan.      *)
THEOREM BuildPermitsExclude == Spec => []PermitsExclude
<1>1. SafetyInv => PermitsExclude
  BY DEF SafetyInv
<1> QED
  BY <1>1, Safety, PTL

(* An action runs only when everything it reads has been produced by an    *)
(* action that succeeded in an earlier wave: the step of the wave that     *)
(* exposes it has reported dependencies, what has been reported contains   *)
(* its own dependencies, and freeze demands every producer to be among     *)
(* the actions reached (scheduling.rs, dependencies.rs).                   *)
THEOREM BuildInputsReady == Spec => []InputsReady
<1>1. SafetyInv => InputsReady
  <2> SUFFICES ASSUME SafetyInv, NEW a \in Actions, task[a] \in {"check", "run"}
               PROVE  plan.inputs[a] \subseteq executed \ (Batch \cup ToSet(failures))
    BY DEF InputsReady
  <2>t. TypeOK /\ reported \in SUBSET Steps /\ wave \in SUBSET Steps
    BY DEF SafetyInv, PermitsExclude, TypeOK
  <2>p. /\ plan \in Draft
        /\ \A s \in Steps : plan.dependencies[s] \in SUBSET Steps /\ IsFiniteSet(plan.dependencies[s])
    BY <2>t, PlanTyped
  <2>1. a \in Batch
    BY DEF SafetyInv, Phases
  <2>2. PICK s \in wave : plan.action[s] = a
    BY <2>1 DEF SafetyInv, Tasks, ActionsOf
  <2>3. Started
    BY <2>2 DEF SafetyInv, Phases, Started
  <2>4. \A t \in wave \cup reported : plan.dependencies[t] \subseteq reported
    <3>1. TAKE t \in wave \cup reported
    <3>2. t \in Steps /\ Cardinality(plan.dependencies[t] \ reported) = 0
      BY <2>t, <2>3 DEF SafetyInv, Placed, Counted
    <3>3. IsFiniteSet(plan.dependencies[t] \ reported)
      BY <2>p, <3>2, FS_Subset
    <3> QED
      BY <3>2, <3>3, FS_EmptySet
  <2>5. Reach(plan, plan.dependencies[s]) \subseteq reported
    <3>1. plan.dependencies[s] \in SUBSET Steps /\ plan.dependencies[s] \subseteq reported
      BY <2>p, <2>t, <2>4
    <3> QED
      BY <2>p, <2>t, <2>4, <3>1, ReachClosed
  <2>6. plan.inputs[a] \subseteq {plan.action[t] : t \in Reach(plan, plan.dependencies[s])}
    BY <2>t, <2>2, <2>3
       DEF SafetyInv, Phases, freeze, validate_build_input_dependencies, DependencyActions
  <2>7. plan.inputs[a] \subseteq ActionsOf(reported)
    BY <2>5, <2>6 DEF ActionsOf
  <2> QED
    BY <2>7 DEF SafetyInv, Placed
<1> QED
  BY <1>1, Safety, PTL
-----------------------------------------------------------------------------
(* The steps that can complete depend on the plan and on what fails only.  *)
LEMMA SameCompletable ==
    UNCHANGED <<plan, closure, fails>> => Completable' = Completable
<1> SUFFICES ASSUME UNCHANGED <<plan, closure, fails>> PROVE Completable' = Completable
  OBVIOUS
<1> QED
  BY DEF Completable

(* Nothing has been reported at first. *)
LEMMA ReportInit == Init => ReportInv
<1> SUFFICES ASSUME Init PROVE ReportInv
  OBVIOUS
<1>1. ToSet(<<>>) = {} /\ Len(<<>>) = 0
  BY DEF ToSet
<1>2. Blamed
  BY <1>1 DEF Init, Blamed, Batch
<1>3. Covered /\ Executed
  BY DEF Init, Covered, Executed, Started
<1>4. Settled
  BY <1>1 DEF Init, Settled, Batch
<1>5. Distinct
  BY <1>1 DEF Init, Distinct
<1> QED
  BY <1>2, <1>3, <1>4, <1>5 DEF Init, ReportInv

(* Freezing reports nothing. *)
LEMMA ReportFreeze == SafetyInv /\ ReportInv /\ Freeze => ReportInv'
<1> SUFFICES ASSUME SafetyInv, ReportInv, Freeze PROVE ReportInv'
  OBVIOUS
<1>1. UNCHANGED <<plan, keep_going, limited, closure, indegree, ready, wave, wave_actions,
                  executed, failures, reported, waits, task, outcome, earliest, available>>
  BY DEF Freeze, workers
<1>2. result = "draft" /\ result' \in {"frozen", "rejected"}
  BY DEF Freeze
<1>3. closure = {} /\ reported = {} /\ executed = {} /\ failures = <<>> /\ wave = {} /\ wave_actions = <<>>
  BY <1>2 DEF SafetyInv, Phases, Started
<1>e. ToSet(<<>>) = {} /\ Len(<<>>) = 0
  BY DEF ToSet
<1>4. Blamed' /\ Distinct'
  BY <1>1, <1>3 DEF ReportInv, Blamed, Batch, Distinct
<1>5. Covered'
  BY <1>1, <1>3 DEF Covered
<1>6. Executed'
  BY <1>2 DEF Executed, Started
<1>7. Settled'
  BY <1>1, <1>3, <1>e DEF ReportInv, Settled, Batch
<1> QED
  BY <1>1, <1>2, <1>3, <1>4, <1>5, <1>6, <1>7 DEF ReportInv

(* Every step that counts nothing is ready. *)
LEMMA ReportDiscover == SafetyInv /\ ReportInv /\ Discover => ReportInv'
<1> SUFFICES ASSUME SafetyInv, ReportInv, Discover PROVE ReportInv'
  OBVIOUS
<1>1. /\ UNCHANGED <<plan, keep_going, limited, fails, wave, wave_actions, executed, failures, reported,
                     task, outcome, earliest, available>>
      /\ result = "frozen" /\ result' = "running"
      /\ ready' = {s \in closure' : indegree'[s] = 0}
  BY DEF Discover, invocation, workers
<1>3. closure = {} /\ reported = {} /\ executed = {} /\ failures = <<>> /\ wave = {} /\ wave_actions = <<>>
  BY <1>1 DEF SafetyInv, Phases, Started
<1>4. Blamed' /\ Distinct'
  BY <1>1, <1>3 DEF ReportInv, Blamed, Batch, Distinct
<1>5. Covered'
  BY <1>1 DEF Covered
<1>6. Executed'
  <2>1. {s \in closure' : indegree'[s] = 0} \ ready' = {}
    BY <1>1
  <2>2. {plan'.action[s] : s \in {}} = {}
    OBVIOUS
  <2> QED
    BY <1>1, <1>3, <2>1, <2>2 DEF Executed, ActionsOf
<1>7. Settled'
  BY <1>1, <1>3 DEF ReportInv, Settled, Batch
<1> QED
  BY <1>1, <1>3, <1>4, <1>5, <1>6, <1>7 DEF ReportInv

(* What a wave executes is what its steps expose. *)
LEMMA ReportStartWave == SafetyInv /\ ReportInv /\ StartWave => ReportInv'
<1> SUFFICES ASSUME SafetyInv, ReportInv, StartWave PROVE ReportInv'
  OBVIOUS
<1> DEFINE fresh == ActionsOf(ready) \ executed
<1>1. UNCHANGED <<plan, keep_going, limited, fails, result, closure, indegree, failures, reported, available>>
  BY DEF StartWave, invocation
<1>2. /\ result = "running" /\ wave = {} /\ ready # {} /\ wave_actions = <<>>
      /\ wave' = ready /\ ready' = {}
      /\ executed' = executed \cup fresh
      /\ outcome' = [a \in Actions |-> "none"]
      /\ earliest' = NoFailure
  BY DEF StartWave, SafetyInv, Phases
<1>3. task' = [a \in Actions |-> IF a \in fresh THEN "queued" ELSE "none"]
  BY DEF StartWave
<1>4. Batch' = fresh /\ fresh \subseteq Actions
  <2>1. wave_actions' \in SetToSeqs(fresh)
    BY DEF StartWave, Sorted
  <2>2. fresh \in SUBSET Actions
    BY PlanTyped DEF SafetyInv, PermitsExclude, TypeOK, ActionsOf
  <2> HIDE DEF fresh
  <2> QED
    BY <2>1, <2>2, Listed DEF Batch
<1>e. Batch = {}
  BY <1>2 DEF Batch, ToSet
<1>5. Blamed'
  BY <1>2, <1>4 DEF Blamed, NoFailure
<1>6. Covered'
  BY <1>1, <1>2 DEF ReportInv, Covered
<1>7. Executed'
  <2> SUFFICES ASSUME keep_going
               PROVE  executed' = {plan.action[s] : s \in {t \in closure : indegree[t] = 0} \ {}}
    BY <1>1, <1>2 DEF Executed, ActionsOf, Started
  <2>1. executed = {plan.action[s] : s \in {t \in closure : indegree[t] = 0} \ ready}
    BY <1>2 DEF ReportInv, Executed, ActionsOf, Started
  <2>2. ready \subseteq {t \in closure : indegree[t] = 0}
    BY DEF SafetyInv, Placed
  <2>3. executed' = executed \cup {plan.action[s] : s \in ready}
    BY <1>2 DEF ActionsOf
  <2> QED
    BY <2>1, <2>2, <2>3
<1>8. Settled'
  <2>1. \A a \in Batch' : task'[a] = "queued" /\ outcome'[a] = "none"
    BY <1>2, <1>3, <1>4
  <2>2. executed' \ Batch' = executed
    BY <1>2, <1>4
  <2>3. keep_going => \A a \in executed : a \in fails <=> a \in ToSet(failures)
    BY <1>e DEF ReportInv, Settled
  <2>4. NoFailure' = NoFailure
    BY DEF NoFailure
  <2> HIDE DEF fresh
  <2> QED
    BY <1>1, <1>2, <2>1, <2>2, <2>3, <2>4 DEF Settled
<1>9. Distinct'
  BY <1>1 DEF ReportInv, Distinct
<1>10. Completable' = Completable
  BY <1>1, SameCompletable
<1> HIDE DEF fresh
<1> QED
  BY <1>1, <1>2, <1>5, <1>6, <1>7, <1>8, <1>9, <1>10 DEF ReportInv

(* A worker's step changes what is known of its own outcome only. *)
LEMMA ReportFrame ==
    ASSUME SafetyInv, ReportInv, UNCHANGED <<invocation, scheduler>>, NEW a \in Batch,
           NEW l \in {"permit", "check", "run", "release", "done"}, Goto(a, l),
           outcome' = outcome \/ \E o \in {"succeeded", "cancelled", "failed"} :
                /\ outcome' = [outcome EXCEPT ![a] = o] /\ l = "release" /\ outcome[a] = "none"
                /\ o = "cancelled" => earliest # NoFailure
                /\ keep_going => o = IF a \in fails THEN "failed" ELSE "succeeded",
           outcome' = outcome => (l \in {"release", "done"} => task[a] \in {"release", "done"}),
           earliest' = earliest \/ (earliest' # NoFailure /\ ~keep_going /\ outcome'[a] = "failed"),
           task[a] \in {"release", "done"} => l \in {"release", "done"}
    PROVE  ReportInv'
<1>1. UNCHANGED <<plan, keep_going, limited, fails, result, closure, indegree, ready, wave, wave_actions,
                  executed, failures, reported, waits>>
  BY DEF invocation, scheduler
<1>2. /\ Batch \subseteq Actions
      /\ task \in [Actions -> {"none", "queued", "permit", "check", "run", "release", "done"}]
      /\ outcome \in [Actions -> {"none", "succeeded", "cancelled", "failed"}]
  BY DEF SafetyInv, PermitsExclude, TypeOK, Batch
<1>3. Batch' = Batch /\ NoFailure' = NoFailure /\ task' = [task EXCEPT ![a] = l]
  BY <1>1 DEF Batch, NoFailure, Goto
<1>4. \A b \in Batch : b # a => task'[b] = task[b] /\ outcome'[b] = outcome[b]
  BY <1>2, <1>3
<1>5. task'[a] = l
  BY <1>2, <1>3
<1>6. Blamed'
  <2>1. ASSUME NEW b \in Batch, outcome'[b] = "cancelled" PROVE earliest' # NoFailure
    <3>1. outcome[b] = "cancelled" \/ earliest # NoFailure
      BY <1>2, <2>1
    <3> QED
      BY <2>1, <3>1 DEF ReportInv, Blamed
  <2>2. ASSUME wave # {}, earliest' # NoFailure PROVE \E b \in Batch : outcome'[b] = "failed"
    <3>1. CASE earliest' = earliest
      <4>1. PICK b \in Batch : outcome[b] = "failed"
        BY <2>2, <3>1 DEF ReportInv, Blamed
      <4>2. outcome'[b] = "failed"
        BY <1>2, <4>1
      <4> QED
        BY <4>2
    <3>2. CASE earliest' # earliest
      BY <3>2
    <3> QED
      BY <3>1, <3>2
  <2> QED
    BY <1>1, <1>3, <2>1, <2>2 DEF Blamed
<1>7. Covered' /\ Executed' /\ Distinct'
  BY <1>1 DEF ReportInv, Covered, Executed, Distinct, ActionsOf, Started
<1>8. Settled'
  <2>1. ASSUME NEW b \in Batch, task'[b] \notin {"release", "done"} PROVE outcome'[b] = "none"
    <3>1. CASE b = a
      BY <1>5, <2>1, <3>1 DEF ReportInv, Settled
    <3>2. CASE b # a
      BY <1>4, <2>1, <3>2 DEF ReportInv, Settled
    <3> QED
      BY <3>1, <3>2
  <2>2. ASSUME keep_going, NEW b \in Batch, task'[b] \in {"release", "done"}
        PROVE  outcome'[b] = IF b \in fails THEN "failed" ELSE "succeeded"
    <3>1. CASE b = a
      <4>1. CASE outcome' = outcome
        BY <1>5, <2>2, <3>1, <4>1 DEF ReportInv, Settled
      <4>2. CASE outcome' # outcome
        BY <1>2, <2>2, <3>1, <4>2
      <4> QED
        BY <4>1, <4>2
    <3>2. CASE b # a
      BY <1>4, <2>2, <3>2 DEF ReportInv, Settled
    <3> QED
      BY <3>1, <3>2
  <2>3. keep_going => earliest' = NoFailure
    BY DEF ReportInv, Settled
  <2>4. keep_going => \A b \in executed \ Batch : b \in fails <=> b \in ToSet(failures)
    BY DEF ReportInv, Settled
  <2> QED
    BY <1>1, <1>3, <2>1, <2>2, <2>3, <2>4 DEF Settled
<1>9. Completable' = Completable
  BY <1>1, SameCompletable
<1> QED
  BY <1>1, <1>6, <1>7, <1>8, <1>9 DEF ReportInv

(* A task is cancelled only after a failure, and fails as it must. *)
LEMMA ReportWork ==
    ASSUME NEW a \in Actions, SafetyInv, ReportInv, Work(a)
    PROVE  ReportInv'
<1>1. CASE StartTask(a)
  <2>1. /\ UNCHANGED <<invocation, scheduler>> /\ UNCHANGED <<outcome, earliest>>
        /\ task[a] = "queued" /\ Goto(a, "permit") /\ a \in Batch
    BY <1>1 DEF StartTask, SafetyInv, Phases
  <2> QED
    BY <2>1, ReportFrame
<1>2. CASE Acquire(a)
  <2>1. /\ UNCHANGED <<invocation, scheduler>> /\ UNCHANGED <<outcome, earliest>>
        /\ task[a] = "permit" /\ Goto(a, "check") /\ a \in Batch
    BY <1>2 DEF Acquire, SafetyInv, Phases
  <2> QED
    BY <2>1, ReportFrame
<1>3. CASE Release(a)
  <2>1. /\ UNCHANGED <<invocation, scheduler>> /\ UNCHANGED <<outcome, earliest>>
        /\ task[a] = "release" /\ Goto(a, "done") /\ a \in Batch
    BY <1>3 DEF Release, SafetyInv, Phases
  <2> QED
    BY <2>1, ReportFrame
<1>c. a \in Batch /\ IsCancelled(a) => ~keep_going /\ earliest # NoFailure
  BY Positions DEF IsCancelled
<1>4. CASE Check(a)
  <2>1. /\ UNCHANGED <<invocation, scheduler>> /\ UNCHANGED earliest
        /\ task[a] = "check" /\ a \in Batch
    BY <1>4 DEF Check, SafetyInv, Phases
  <2>2. outcome[a] = "none"
    BY <2>1 DEF ReportInv, Settled
  <2>3. CASE IsCancelled(a)
    <3>1. outcome' = [outcome EXCEPT ![a] = "cancelled"] /\ Goto(a, "release")
      BY <1>4, <2>3 DEF Check
    <3>2. outcome' # outcome
      <4>1. outcome'[a] = "cancelled"
        BY <3>1 DEF SafetyInv, PermitsExclude, TypeOK
      <4> QED
        BY <2>2, <4>1
    <3>3. \E o \in {"succeeded", "cancelled", "failed"} :
                /\ outcome' = [outcome EXCEPT ![a] = o] /\ outcome[a] = "none"
                /\ o = "cancelled" => earliest # NoFailure
                /\ keep_going => o = IF a \in fails THEN "failed" ELSE "succeeded"
      BY <1>c, <2>1, <2>2, <2>3, <3>1
    <3> QED
      BY <2>1, <3>1, <3>2, <3>3, ReportFrame
  <2>4. CASE ~IsCancelled(a)
    <3>1. outcome' = outcome /\ Goto(a, "run")
      BY <1>4, <2>4 DEF Check
    <3> QED
      BY <2>1, <3>1, ReportFrame
  <2> QED
    BY <2>3, <2>4
<1>5. CASE Execute(a)
  <2>1. /\ UNCHANGED <<invocation, scheduler>>
        /\ task[a] = "run" /\ Goto(a, "release") /\ a \in Batch
    BY <1>5 DEF Execute, SafetyInv, Phases
  <2>2. outcome[a] = "none"
    BY <2>1 DEF ReportInv, Settled
  <2>3. PICK o \in {"succeeded", "cancelled", "failed"} :
                /\ outcome' = [outcome EXCEPT ![a] = o]
                /\ o = "cancelled" => earliest # NoFailure
                /\ keep_going => o = IF a \in fails THEN "failed" ELSE "succeeded"
    BY <1>5, <1>c, <2>1 DEF Execute
  <2>4. outcome'[a] = o /\ outcome' # outcome
    BY <2>2, <2>3 DEF SafetyInv, PermitsExclude, TypeOK
  <2>5. earliest' = earliest \/ (earliest' # NoFailure /\ ~keep_going /\ outcome'[a] = "failed")
    <3>1. CASE earliest' = earliest
      BY <3>1
    <3>2. CASE earliest' # earliest
      <4>1. /\ outcome' = [outcome EXCEPT ![a] = "failed"] /\ ~keep_going
            /\ earliest' = Min({earliest, Position(a)})
        BY <1>5, <3>2 DEF Execute
      <4>2. earliest \in Int /\ Position(a) \in Int /\ Position(a) < NoFailure /\ NoFailure \in Int
        BY <2>1, Positions
      <4>3. earliest' \in Int /\ earliest' <= Position(a)
        BY <4>1, <4>2, MinOfTwo
      <4>4. outcome'[a] = "failed"
        BY <4>1 DEF SafetyInv, PermitsExclude, TypeOK
      <4> QED
        BY <4>1, <4>2, <4>3, <4>4
    <3> QED
      BY <3>1, <3>2
  <2> QED
    BY <2>1, <2>2, <2>3, <2>4, <2>5, ReportFrame
<1> QED
  BY <1>1, <1>2, <1>3, <1>4, <1>5 DEF Work

(* A wave that is over settles its actions and covers its steps. *)
LEMMA ReportFinishWave == SafetyInv /\ ReportInv /\ FinishWave => ReportInv'
<1> SUFFICES ASSUME SafetyInv, ReportInv, FinishWave PROVE ReportInv'
  OBVIOUS
<1> DEFINE fresh == {a \in Batch : outcome[a] = "failed"}
           completed == {s \in wave : plan.action[s] \notin ToSet(failures')}
           cancelled == \E a \in Batch : outcome[a] = "cancelled"
<1>1. /\ UNCHANGED <<plan, keep_going, limited, fails, closure, executed, outcome, earliest, available>>
      /\ wave' = {} /\ wave_actions' = <<>> /\ task' = [a \in Actions |-> "none"]
      /\ wave # {} /\ ready = {} /\ result = "running"
      /\ \A a \in Batch : task[a] = "done"
      /\ failures' \in Seq(Actions) /\ ToSet(failures') = ToSet(failures) \cup fresh
      /\ failures' = <<>> <=> ToSet(failures') = {}
      /\ Batch \subseteq executed /\ Batch \subseteq Actions
  BY WaveFinished
<1>e. Batch' = {}
  BY <1>1 DEF Batch, ToSet
<1>t. closure \subseteq Steps /\ wave \subseteq closure /\ indegree \in [Steps -> 0 .. Cardinality(Steps)]
  BY DEF SafetyInv, PermitsExclude, TypeOK, Placed
<1>2. cancelled => failures' # <<>>
  <2> SUFFICES ASSUME cancelled PROVE fresh # {}
    BY <1>1
  <2> QED
    BY <1>1 DEF ReportInv, Blamed
<1>3. keep_going => ~cancelled
  BY DEF ReportInv, Blamed, Settled
<1>4. \/ result' = "failed" /\ ~keep_going /\ UNCHANGED <<indegree, ready, reported>>
      \/ /\ reported' = reported \cup completed
         /\ indegree' = [s \in Steps |-> IF s \notin closure THEN 0
                           ELSE indegree[s] - Cardinality(plan.dependencies[s] \cap completed)]
         /\ ready' = {s \in closure : indegree[s] > 0 /\ indegree'[s] = 0}
         /\ result' = "running"
  BY <1>1, <1>2, <1>3 DEF FinishWave, Complete
<1>5. Blamed'
  BY <1>1, <1>e DEF Blamed
<1>6. Distinct'
  <2>1. PICK new \in SetToSeqs(fresh) : failures' = failures \o new
    BY WaveFinished
  <2>2. fresh \in SUBSET Actions
    BY <1>1
  <2>3. /\ new \in Seq(Actions) /\ ToSet(new) = fresh /\ failures \in Seq(Actions)
        /\ \A i, j \in 1 .. Len(new) : new[i] = new[j] => i = j
    <3> HIDE DEF fresh
    <3> QED
      BY <2>1, <2>2, Listed DEF SafetyInv, Tasks
  <2>4. ToSet(failures) \cap ToSet(new) = {}
    BY <2>3 DEF SafetyInv, Tasks
  <2>5. \A i, j \in 1 .. Len(failures) : failures[i] = failures[j] => i = j
    BY DEF ReportInv, Distinct
  <2>6. \A i, j \in 1 .. Len(failures \o new) : (failures \o new)[i] = (failures \o new)[j] => i = j
    <3> HIDE DEF fresh
    <3> QED
      BY <2>3, <2>4, <2>5, Appended
  <2> QED
    BY <2>1, <2>6 DEF Distinct
<1>7. Settled'
  <2>1. ASSUME keep_going, NEW a \in executed PROVE a \in fails <=> a \in ToSet(failures')
    <3>1. CASE a \in Batch
      <4>1. a \in fails <=> a \in fresh
        BY <1>1, <2>1, <3>1 DEF ReportInv, Settled
      <4>2. a \notin ToSet(failures)
        BY <3>1 DEF SafetyInv, Tasks
      <4> QED
        BY <1>1, <4>1, <4>2
    <3>2. CASE a \notin Batch
      <4>1. a \in fails <=> a \in ToSet(failures)
        BY <2>1, <3>2 DEF ReportInv, Settled
      <4> QED
        BY <1>1, <3>2, <4>1
    <3> QED
      BY <3>1, <3>2
  <2>2. keep_going => earliest = NoFailure
    BY DEF ReportInv, Settled
  <2>3. NoFailure' = NoFailure
    BY DEF NoFailure
  <2> HIDE DEF fresh
  <2> QED
    BY <1>1, <1>e, <2>1, <2>2, <2>3 DEF Settled
<1>8. Completable' = Completable
  BY <1>1, SameCompletable
<1>9. CASE result' = "failed" /\ ~keep_going /\ UNCHANGED <<indegree, ready, reported>>
  BY <1>1, <1>5, <1>6, <1>7, <1>9 DEF ReportInv, Covered, Executed
<1>10. CASE /\ reported' = reported \cup completed
            /\ indegree' = [s \in Steps |-> IF s \notin closure THEN 0
                              ELSE indegree[s] - Cardinality(plan.dependencies[s] \cap completed)]
            /\ ready' = {s \in closure : indegree[s] > 0 /\ indegree'[s] = 0}
            /\ result' = "running"
  <2>1. \A s \in Steps : indegree[s] = 0 => indegree'[s] = 0
    BY <1>1, <1>10, WaveCounted
  <2>n. \A s \in Steps : indegree[s] \in Nat
    <3>1. Cardinality(Steps) \in Nat
      BY StepsAssumption, FS_CardinalityType
    <3> QED
      BY <1>t, <3>1
  <2>2. Covered'
    <3> SUFFICES ASSUME NEW s \in closure, indegree'[s] = 0
                 PROVE  s \in ready' \cup reported' \/ plan.action[s] \in ToSet(failures')
      BY <1>1 DEF Covered
    <3>1. CASE indegree[s] > 0
      BY <1>10, <3>1
    <3>2. CASE indegree[s] = 0
      <4>1. s \in wave \cup reported \/ plan.action[s] \in ToSet(failures)
        BY <1>1, <3>2 DEF ReportInv, Covered
      <4> QED
        BY <1>1, <1>10, <4>1
    <3> QED
      BY <1>t, <2>n, <3>1, <3>2
  <2>3. Executed'
    <3>1. {s \in closure : indegree'[s] = 0} \ ready' = {s \in closure : indegree[s] = 0} \ ready
      BY <1>1, <1>t, <1>10, <2>1, <2>n
    <3>2. SUFFICES ASSUME keep_going
                 PROVE  executed' = ActionsOf({s \in closure : indegree[s] = 0} \ ready)
      BY <1>1, <3>1 DEF Executed, ActionsOf
    <3>3. Started /\ executed' = executed
      BY <1>1 DEF Started
    <3> QED
      BY <3>2, <3>3 DEF ReportInv, Executed
  <2>4. ASSUME keep_going, NEW s \in completed PROVE s \in Completable
    <3>1. s \in closure /\ s \in Steps /\ indegree[s] = 0 /\ plan.action[s] \in executed
      BY <1>t DEF SafetyInv, Placed, ActionsOf
    <3>2. plan.action[s] \notin fails
      BY <1>1, <1>e, <1>7, <2>4, <3>1 DEF Settled
    <3>3. plan.dependencies[s] \subseteq reported
      <4>1. Cardinality(plan.dependencies[s] \ reported) = 0
        BY <1>1, <3>1 DEF SafetyInv, Counted, Started
      <4>2. IsFiniteSet(plan.dependencies[s] \ reported)
        BY <3>1, PlanTyped, FS_Subset DEF SafetyInv, PermitsExclude
      <4> QED
        BY <4>1, <4>2, FS_EmptySet
    <3>4. reported \subseteq Completable
      BY <2>4 DEF ReportInv
    <3> QED
      BY <3>1, <3>2, <3>3, <3>4, CompletableSteps DEF SafetyInv, PermitsExclude
  <2>5. keep_going' => reported' \subseteq Completable'
    BY <1>1, <1>8, <1>10, <2>4 DEF ReportInv
  <2> HIDE DEF fresh, completed, cancelled
  <2> QED
    BY <1>5, <1>6, <1>7, <1>10, <2>2, <2>3, <2>5 DEF ReportInv
<1> QED
  BY <1>4, <1>9, <1>10

(* When no step is ready any more, one without failures has reported all.  *)
LEMMA NothingLeft ==
    ASSUME SafetyInv, ReportInv, result = "running", wave = {}, ready = {}, failures = <<>>
    PROVE  reported = closure
<1> DEFINE R == reported \cup (Steps \ closure)
<1>t. TypeOK /\ closure \subseteq Steps /\ reported \subseteq Steps /\ {Selected} \in SUBSET Steps
  BY SelectedAssumption DEF SafetyInv, PermitsExclude, TypeOK
<1>p. /\ plan \in Draft
      /\ \A s \in Steps : plan.dependencies[s] \in SUBSET Steps /\ IsFiniteSet(plan.dependencies[s])
  BY <1>t, PlanTyped
<1>1. closure = Reach(plan, {Selected}) /\ validate_step_cycles(plan)
  BY DEF SafetyInv, Phases, Started, freeze
<1>2. \A s \in closure : plan.dependencies[s] \subseteq closure
  BY <1>t, <1>p, <1>1, ReachClosed
<1>3. ASSUME NEW s \in Steps, plan.dependencies[s] \subseteq R PROVE s \in R
  <2>1. CASE s \in closure
    <3>1. plan.dependencies[s] \ reported = {}
      BY <1>2, <1>3, <2>1
    <3>2. indegree[s] = 0
      BY <1>3, <2>1, <3>1, FS_EmptySet DEF SafetyInv, Counted, Started
    <3>3. s \in reported
      BY <2>1, <3>2 DEF ReportInv, Covered, ToSet
    <3> QED
      BY <3>3
  <2>2. CASE s \notin closure
    BY <2>2
  <2> QED
    BY <2>1, <2>2
<1>4. R = Steps
  <2>1. R \in SUBSET Steps
    BY <1>t
  <2> HIDE DEF R
  <2> QED
    BY <1>p, <1>1, <1>3, <2>1, AcyclicSteps
<1>5. reported \subseteq closure
  BY DEF SafetyInv, Placed
<1> QED
  BY <1>t, <1>4, <1>5

(* A build that runs out of ready steps is not inconsistent. *)
LEMMA ReportEnd == SafetyInv /\ ReportInv /\ End => ReportInv'
<1> SUFFICES ASSUME SafetyInv, ReportInv, End PROVE ReportInv'
  OBVIOUS
<1>1. UNCHANGED <<plan, keep_going, limited, fails, closure, indegree, ready, wave, wave_actions, executed,
                  failures, reported, task, outcome, earliest, available>>
  BY DEF End, invocation, workers
<1>2. result = "running" /\ wave = {} /\ ready = {}
  BY DEF End
<1>3. failures = <<>> => reported = closure
  BY <1>2, NothingLeft
<1>4. result' \in {"failed", "ok"} /\ (result' = "ok" => reported = closure)
  BY <1>3 DEF End
<1>5. Blamed' /\ Distinct' /\ Settled'
  BY <1>1 DEF ReportInv, Blamed, Distinct, Settled, Batch, NoFailure
<1>6. Covered'
  BY <1>1, <1>2 DEF ReportInv, Covered
<1>7. Executed'
  BY <1>1, <1>2 DEF ReportInv, Executed, ActionsOf, Started
<1>8. Completable' = Completable
  BY <1>1, SameCompletable
<1> QED
  BY <1>1, <1>4, <1>5, <1>6, <1>7, <1>8 DEF ReportInv

(* Every step of the build keeps the report invariant. *)
LEMMA ReportStep == SafetyInv /\ ReportInv /\ [Next]_vars => ReportInv'
<1> SUFFICES ASSUME SafetyInv, ReportInv, [Next]_vars PROVE ReportInv'
  OBVIOUS
<1>1. CASE Freeze
  BY <1>1, ReportFreeze
<1>2. CASE Discover
  BY <1>2, ReportDiscover
<1>3. CASE StartWave
  BY <1>3, ReportStartWave
<1>4. CASE FinishWave
  BY <1>4, ReportFinishWave
<1>5. CASE End
  BY <1>5, ReportEnd
<1>6. ASSUME NEW a \in Actions, Work(a) PROVE ReportInv'
  BY <1>6, ReportWork
<1>7. CASE UNCHANGED vars
  <2>1. UNCHANGED <<plan, keep_going, limited, fails, result, closure, indegree, ready, wave, wave_actions,
                    executed, failures, reported, waits, task, outcome, earliest, available>>
    BY <1>7 DEF vars, invocation, scheduler, workers
  <2>2. Blamed' /\ Distinct' /\ Settled'
    BY <2>1 DEF ReportInv, Blamed, Distinct, Settled, Batch, NoFailure
  <2>3. Covered' /\ Executed'
    BY <2>1 DEF ReportInv, Covered, Executed, ActionsOf, Started
  <2>4. Completable' = Completable
    BY <2>1, SameCompletable
  <2> QED
    BY <2>1, <2>2, <2>3, <2>4 DEF ReportInv
<1> QED
  BY <1>1, <1>2, <1>3, <1>4, <1>5, <1>6, <1>7 DEF Next

(* Every reachable state satisfies both invariants. *)
LEMMA Report == Spec => [](SafetyInv /\ ReportInv)
<1>1. Init => SafetyInv /\ ReportInv
  BY SafetyInit, ReportInit
<1>2. (SafetyInv /\ ReportInv) /\ [Next]_vars => (SafetyInv /\ ReportInv)'
  BY SafetyStep, ReportStep
<1> QED
  BY <1>1, <1>2, PTL DEF Spec

(* A frozen plan is never found inconsistent: its closure has no cycle, so *)
(* a build that runs out of ready steps without a failure has reported     *)
(* all of it, and a cancelled action has a failed one to blame             *)
(* (scheduling.rs).                                                        *)
THEOREM NeverInconsistent == Spec => [](result # "inconsistent")
<1>1. ReportInv => result # "inconsistent"
  BY DEF ReportInv
<1> QED
  BY <1>1, Report, PTL

(* With keep_going the report names exactly the steps that can complete    *)
(* and exactly the actions that fail among those that can be attempted,    *)
(* once each, whatever the order in which workers finish (scheduling.rs).  *)
THEOREM BuildKeepGoingReports == Spec => []KeepGoingReports
<1>1. SafetyInv /\ ReportInv => KeepGoingReports
  <2> SUFFICES ASSUME SafetyInv, ReportInv, keep_going, result \in {"ok", "failed"}
               PROVE  /\ ToSet(failures) = ActionsOf(Failing)
                      /\ Len(failures) = Cardinality(ActionsOf(Failing))
                      /\ executed = ActionsOf(Attempted)
                      /\ result = "ok" => reported = closure
                      /\ reported = Completable
    BY DEF KeepGoingReports
  <2>t. TypeOK /\ closure \subseteq Steps /\ reported \in SUBSET Steps
    BY DEF SafetyInv, PermitsExclude, TypeOK
  <2>p. \A s \in Steps : plan.dependencies[s] \in SUBSET Steps /\ IsFiniteSet(plan.dependencies[s])
    BY <2>t, PlanTyped
  <2>1. ready = {} /\ wave = {} /\ Batch = {}
    BY DEF SafetyInv, Phases, Batch, ToSet
  <2>2. ASSUME NEW s \in closure PROVE indegree[s] = 0 <=> plan.dependencies[s] \subseteq reported
    <3>1. indegree[s] = Cardinality(plan.dependencies[s] \ reported)
      BY <2>t, <2>2 DEF SafetyInv, Counted, Started
    <3>2. IsFiniteSet(plan.dependencies[s] \ reported)
      BY <2>t, <2>p, FS_Subset
    <3>3. indegree[s] = 0 <=> plan.dependencies[s] \ reported = {}
      BY <3>1, <3>2, FS_EmptySet
    <3> QED
      BY <3>3
  <2>3. \A a \in executed : a \in fails <=> a \in ToSet(failures)
    BY <2>1 DEF ReportInv, Settled
  <2>f. ToSet(failures) \subseteq executed
    BY <2>t DEF TypeOK
  <2>4. reported = Completable
    <3>1. ASSUME NEW s \in closure, plan.action[s] \notin fails, plan.dependencies[s] \subseteq reported
          PROVE  s \in reported
      <4>1. indegree[s] = 0
        BY <2>2, <3>1
      <4>2. s \in reported \/ plan.action[s] \in ToSet(failures)
        BY <2>1, <4>1 DEF ReportInv, Covered
      <4> QED
        BY <2>3, <2>f, <3>1, <4>2
    <3>2. Completable \subseteq reported
      BY <2>t, <3>1, CompletableSteps
    <3> QED
      BY <3>2 DEF ReportInv
  <2>5. Attempted = {s \in closure : indegree[s] = 0}
    BY <2>2, <2>4 DEF Attempted
  <2>6. executed = ActionsOf(Attempted)
    <3>1. {s \in closure : indegree[s] = 0} \ ready = Attempted
      BY <2>1, <2>5
    <3> QED
      BY <3>1 DEF ReportInv, Executed, Started
  <2>7. ToSet(failures) = ActionsOf(Failing)
    <3>1. ActionsOf(Failing) = {a \in ActionsOf(Attempted) : a \in fails}
      BY DEF ActionsOf, Failing
    <3> QED
      BY <2>3, <2>f, <2>6, <3>1
  <2>8. Len(failures) = Cardinality(ToSet(failures))
    <3> DEFINE n == Len(failures)
    <3>1. failures \in Seq(Actions) /\ n \in Nat /\ DOMAIN failures = 1 .. n
      BY DEF SafetyInv, Tasks
    <3>2. failures \in [1 .. n -> ToSet(failures)]
      BY <3>1 DEF ToSet
    <3>3. failures \in Injection(1 .. n, ToSet(failures))
      BY <3>2 DEF ReportInv, Distinct, Injection, IsInjective
    <3>4. failures \in Surjection(1 .. n, ToSet(failures))
      BY <3>1, <3>2 DEF Surjection, ToSet
    <3>5. ExistsBijection(1 .. n, ToSet(failures))
      BY <3>3, <3>4 DEF ExistsBijection, Bijection
    <3> HIDE DEF n
    <3>6. Cardinality(ToSet(failures)) = n
      BY <3>1, <3>5, FS_CountingElements
    <3> QED
      BY <3>6 DEF n
  <2> QED
    BY <2>4, <2>6, <2>7, <2>8 DEF ReportInv
<1> QED
  BY <1>1, Report, PTL
-----------------------------------------------------------------------------
(* Without keep_going waves are the levels of the closure: the steps whose *)
(* dependencies lie in lower levels, cumulatively.                         *)
Levels(d, c) ==
    LET below[n \in 0 .. Cardinality(Steps)] ==
            IF n = 0 THEN {} ELSE {t \in c : d.dependencies[t] \subseteq below[n - 1]}
    IN  below

Level(n) == Levels(plan, closure)[n]

(* An outcome is what the action does, or the action was cancelled behind  *)
(* a failure at a lower position.                                          *)
Judged ==
    /\ \A a \in Batch :
        /\ task[a] \in {"release", "done"} => outcome[a] # "none"
        /\ outcome[a] = "failed" => a \in fails /\ earliest <= Position(a)
        /\ outcome[a] = "succeeded" => a \notin fails
        /\ outcome[a] = "cancelled" => earliest < Position(a)
    /\ wave # {} /\ earliest # NoFailure =>
        \E a \in Batch : outcome[a] = "failed" /\ Position(a) = earliest

(* While the build runs, complete levels have been reported and nothing    *)
(* has failed; the wave's actions are in the order of their first steps.   *)
Waves ==
    result = "running" =>
        /\ failures = <<>>
        /\ \E n \in 0 .. Cardinality(Steps) : reported = Level(n)
        /\ executed = ActionsOf(reported \cup wave)
        /\ ActionsOf(reported) \cap fails = {}
        /\ Batch = ActionsOf(wave) \ ActionsOf(reported)
        /\ \A i, j \in 1 .. Len(wave_actions) :
            i < j => FirstStep(wave_actions[i], wave) < FirstStep(wave_actions[j], wave)

(* A build that failed stopped after the first level with a failing step,  *)
(* and reports the lowest of these first.                                  *)
Stopped ==
    result = "failed" => \E n \in 1 .. Cardinality(Steps) : \E s \in Level(n) :
        /\ ActionsOf(Level(n - 1)) \cap fails = {}
        /\ executed = ActionsOf(Level(n))
        /\ Head(failures) = plan.action[s] /\ plan.action[s] \in fails
        /\ \A u \in Level(n) : plan.action[u] \in fails => s <= u

FirstInv ==
    ~keep_going =>
        /\ Judged /\ Waves /\ Stopped
        /\ result = "ok" => ActionsOf(reported) \cap fails = {}

(* The first levels, each the steps whose dependencies the one before holds. *)
IsLevels(d, c, N, f) ==
    /\ N \in Nat /\ f \in [0 .. N -> SUBSET c] /\ f[0] = {}
    /\ \A n \in 1 .. N : f[n] = {t \in c : d.dependencies[t] \subseteq f[n - 1]}

LEMMA LevelsAre ==
    ASSUME NEW d \in Draft, NEW c \in SUBSET Steps
    PROVE  IsLevels(d, c, Cardinality(Steps), Levels(d, c))
<1> DEFINE N == Cardinality(Steps)
           G == [S \in SUBSET Steps |-> {t \in c : d.dependencies[t] \subseteq S}]
           Is(h) == h = [n \in 0 .. N |-> IF n = 0 THEN {} ELSE {t \in c : d.dependencies[t] \subseteq h[n - 1]}]
           f == CHOOSE f : Is(f)
<1>1. N \in Nat /\ IsFiniteSet(Steps)
  BY StepsAssumption, FS_CardinalityType
<1>2. G \in [SUBSET Steps -> SUBSET Steps]
  OBVIOUS
<1>3. PICK g \in [0 .. N -> SUBSET Steps] : g[0] = {} /\ \A n \in 1 .. N : g[n] = G[g[n - 1]]
  <2> HIDE DEF G, N
  <2>1. {} \in SUBSET Steps
    OBVIOUS
  <2> QED
    BY <1>1, <1>2, <2>1, Iteration, ZenonT(60)
<1>4. Is(g)
  <2>1. \A n \in 0 .. N : g[n] = IF n = 0 THEN {} ELSE {t \in c : d.dependencies[t] \subseteq g[n - 1]}
    <3>1. TAKE n \in 0 .. N
    <3>2. CASE n = 0
      BY <1>3, <3>2
    <3>3. CASE n # 0
      <4>1. n \in 1 .. N /\ g[n - 1] \in SUBSET Steps
        BY <1>1, <1>3, <3>3
      <4>2. g[n] = G[g[n - 1]]
        BY <1>3, <4>1
      <4> QED
        BY <3>3, <4>1, <4>2
    <3> QED
      BY <3>2, <3>3
  <2>2. g = [n \in 0 .. N |-> g[n]]
    BY <1>3
  <2> HIDE DEF N
  <2> QED
    BY <2>1, <2>2
<1>5. Is(f)
  <2> HIDE DEF Is
  <2> QED
    BY <1>4
<1>6. Levels(d, c) = f
  BY DEF Levels, f
<1> HIDE DEF f, N
<1>7. \A n \in 1 .. N : n \in 0 .. N /\ n - 1 \in 0 .. N /\ n # 0
  BY <1>1
<1>8. f[0] = {}
  BY <1>1, <1>5
<1>9. ASSUME NEW n \in 1 .. N PROVE f[n] = {t \in c : d.dependencies[t] \subseteq f[n - 1]}
  BY <1>5, <1>7
<1>10. f \in [0 .. N -> SUBSET c]
  <2>1. ASSUME NEW n \in 0 .. N PROVE f[n] \in SUBSET c
    <3>1. n = 0 \/ n \in 1 .. N
      BY <1>1
    <3> QED
      BY <1>8, <1>9, <3>1
  <2>2. f = [n \in 0 .. N |-> f[n]]
    BY <1>5
  <2> QED
    BY <2>1, <2>2
<1>11. IsLevels(d, c, N, f)
  <2> HIDE DEF Is
  <2> QED
    BY <1>1, <1>8, <1>9, <1>10 DEF IsLevels
<1> QED
  BY <1>6, <1>11 DEF N

(* Levels grow, and in a plan without cycles they reach every step. *)
LEMMA LevelsGrow ==
    ASSUME NEW d \in Draft, NEW c \in SUBSET Steps, NEW N, NEW f, IsLevels(d, c, N, f)
    PROVE  \A m, n \in 0 .. N : m <= n => f[m] \subseteq f[n]
<1>1. /\ N \in Nat /\ f \in [0 .. N -> SUBSET c] /\ f[0] = {}
      /\ \A n \in 1 .. N : f[n] = {t \in c : d.dependencies[t] \subseteq f[n - 1]}
  BY DEF IsLevels
<1>2. \A n \in 1 .. N : f[n - 1] \subseteq f[n]
  <2> DEFINE T == {n \in 0 .. N : n = 0 \/ f[n - 1] \subseteq f[n]}
  <2>1. T \in SUBSET (0 .. N) /\ 0 \in T
    BY <1>1
  <2>2. ASSUME NEW n \in 1 .. N, n - 1 \in T PROVE n \in T
    <3>1. n \in 0 .. N
      BY <1>1
    <3>2. CASE n = 1
      BY <1>1, <3>1, <3>2
    <3>3. CASE n # 1
      <4> DEFINE m == n - 1
      <4>1. m \in 1 .. N /\ m - 1 \in 0 .. N /\ m # 0
        BY <1>1, <3>3
      <4>2. f[m - 1] \subseteq f[m]
        BY <2>2, <4>1
      <4>3. /\ f[n] = {t \in c : d.dependencies[t] \subseteq f[m]}
            /\ f[m] = {t \in c : d.dependencies[t] \subseteq f[m - 1]}
        BY <1>1, <4>1
      <4>4. f[m] \subseteq f[n]
        BY <4>2, <4>3
      <4> QED
        BY <3>1, <4>4
    <3> QED
      BY <3>2, <3>3
  <2>3. \A n \in 0 .. N : n \in T
    <3> HIDE DEF T
    <3> QED
      BY <1>1, <2>1, <2>2, Induction
  <2>4. \A n \in 1 .. N : n \in 0 .. N /\ n # 0
    BY <1>1
  <2> QED
    BY <2>3, <2>4
<1> SUFFICES ASSUME NEW m \in 0 .. N PROVE \A n \in 0 .. N : m <= n => f[m] \subseteq f[n]
  OBVIOUS
<1> DEFINE T == {n \in 0 .. N : m <= n => f[m] \subseteq f[n]}
<1>3. T \in SUBSET (0 .. N) /\ 0 \in T
  <2>1. m <= 0 => m = 0
    BY <1>1
  <2> QED
    BY <1>1, <2>1
<1>4. ASSUME NEW n \in 1 .. N, n - 1 \in T PROVE n \in T
  <2>1. n \in 0 .. N /\ (m <= n => m = n \/ m <= n - 1)
    BY <1>1
  <2> QED
    BY <1>2, <1>4, <2>1
<1>5. \A n \in 0 .. N : n \in T
  <2> HIDE DEF T
  <2> QED
    BY <1>1, <1>3, <1>4, Induction
<1> QED
  BY <1>5

LEMMA LevelsReach ==
    ASSUME NEW d \in Draft, validate_step_cycles(d), NEW c, c = Reach(d, {Selected}),
           NEW N, N = Cardinality(Steps), NEW f, IsLevels(d, c, N, f)
    PROVE  f[N] = c
<1>1. c \in SUBSET Steps /\ \A s \in c : d.dependencies[s] \subseteq c
  <2>1. {Selected} \in SUBSET Steps
    BY SelectedAssumption
  <2> QED
    BY <2>1, ReachClosed
<1>2. /\ N \in Nat /\ f \in [0 .. N -> SUBSET c] /\ f[0] = {}
      /\ \A n \in 1 .. N : f[n] = {t \in c : d.dependencies[t] \subseteq f[n - 1]}
  BY DEF IsLevels
<1> DEFINE G == [S \in SUBSET Steps |-> {t \in c : d.dependencies[t] \subseteq S}]
<1>3. G \in [SUBSET Steps -> SUBSET Steps]
  BY <1>1
<1>4. f \in [0 .. N -> SUBSET Steps]
  BY <1>1, <1>2
<1>5. \A n \in 1 .. N : f[n] = G[f[n - 1]]
  <2>1. \A n \in 1 .. N : n - 1 \in 0 .. N
    BY <1>2
  <2> QED
    BY <1>2, <1>4, <2>1
<1>6. \A X, Y \in SUBSET Steps : X \subseteq Y => G[X] \subseteq G[Y]
  OBVIOUS
<1>7. G[f[N]] = f[N]
  <2>1. f[0] \subseteq G[f[0]]
    BY <1>2
  <2> HIDE DEF G
  <2> QED
    BY <1>3, <1>4, <1>5, <1>6, <2>1, LeastFixedPoint
<1> DEFINE R == f[N] \cup (Steps \ c)
<1>8. N \in 0 .. N
  BY <1>2
<1>9. R \in SUBSET Steps /\ f[N] \in SUBSET Steps /\ f[N] \subseteq c
  BY <1>1, <1>2, <1>4, <1>8
<1>10. ASSUME NEW s \in Steps, d.dependencies[s] \subseteq R PROVE s \in R
  <2>1. CASE s \in c
    <3>1. d.dependencies[s] \subseteq f[N]
      BY <1>1, <1>10, <2>1
    <3>2. s \in G[f[N]]
      BY <1>9, <2>1, <3>1
    <3> QED
      BY <1>7, <3>2
  <2>2. CASE s \notin c
    BY <2>2
  <2> QED
    BY <2>1, <2>2
<1>11. R = Steps
  <2> HIDE DEF R
  <2> QED
    BY <1>9, <1>10, AcyclicSteps
<1> QED
  BY <1>1, <1>9, <1>11

(* The minimum of a set of naturals is its least member. *)
LEMMA MinIsLeast ==
    ASSUME NEW S \in SUBSET Nat, S # {}
    PROVE  Min(S) \in S /\ \A y \in S : Min(S) <= y
<1>1. PICK x \in S : \A y \in S : <<y, x>> \notin OpToRel(<, Nat)
  BY NatLessThanWellFounded, WFMin
<1>2. \A y \in S : ~(y < x)
  BY <1>1 DEF OpToRel
<1>3. \E z \in S : \A y \in S : z =< y
  BY <1>2
<1> QED
  BY <1>3 DEF Min

(* The levels depend on the plan and the closure only. *)
LEMMA SameLevel ==
    UNCHANGED <<plan, closure>> => \A n : Level(n)' = Level(n)
<1> SUFFICES ASSUME UNCHANGED <<plan, closure>>, NEW n PROVE Levels(plan', closure')[n] = Levels(plan, closure)[n]
  BY DEF Level
<1> QED
  OBVIOUS

(* The levels of the closure, once it is known, are within it and grow to  *)
(* all of it.                                                              *)
LEMMA ClosureLevels ==
    ASSUME SafetyInv, Started
    PROVE  /\ Cardinality(Steps) \in Nat /\ Level(0) = {} /\ Level(Cardinality(Steps)) = closure
           /\ \A n \in 0 .. Cardinality(Steps) : Level(n) \subseteq closure
           /\ \A n \in 1 .. Cardinality(Steps) :
                Level(n) = {t \in closure : plan.dependencies[t] \subseteq Level(n - 1)}
           /\ \A m, n \in 0 .. Cardinality(Steps) : m <= n => Level(m) \subseteq Level(n)
<1> DEFINE N == Cardinality(Steps)
           f == Levels(plan, closure)
<1>1. plan \in Draft /\ closure \in SUBSET Steps
  BY PlanTyped DEF SafetyInv, PermitsExclude, TypeOK
<1>2. closure = Reach(plan, {Selected}) /\ validate_step_cycles(plan)
  BY DEF SafetyInv, Phases, freeze
<1>3. IsLevels(plan, closure, N, f) /\ N = Cardinality(Steps)
  BY <1>1, LevelsAre
<1>4. \A n : Level(n) = f[n]
  BY DEF Level
<1> HIDE DEF f, N
<1>5. f[N] = closure
  BY <1>1, <1>2, <1>3, LevelsReach
<1>6. \A m, n \in 0 .. N : m <= n => f[m] \subseteq f[n]
  BY <1>1, <1>3, LevelsGrow
<1>7. /\ N \in Nat /\ f \in [0 .. N -> SUBSET closure] /\ f[0] = {}
      /\ \A n \in 1 .. N : f[n] = {t \in closure : plan.dependencies[t] \subseteq f[n - 1]}
  BY <1>3 DEF IsLevels
<1>8. /\ N \in Nat /\ Level(0) = {} /\ Level(N) = closure
      /\ \A n \in 0 .. N : Level(n) \subseteq closure
      /\ \A n \in 1 .. N : Level(n) = {t \in closure : plan.dependencies[t] \subseteq Level(n - 1)}
      /\ \A m, n \in 0 .. N : m <= n => Level(m) \subseteq Level(n)
  BY <1>4, <1>5, <1>6, <1>7
<1> QED
  BY <1>8 DEF N

(* Outside a run nothing is claimed. *)
LEMMA FirstIdle ==
    ASSUME result \notin {"running", "failed", "ok"}, wave = {}, wave_actions = <<>>
    PROVE  FirstInv
<1>1. Batch = {}
  BY DEF Batch, ToSet
<1> QED
  BY <1>1 DEF FirstInv, Judged, Waves, Stopped

LEMMA FirstInit == Init => FirstInv
BY FirstIdle DEF Init

LEMMA FirstFreeze == SafetyInv /\ Freeze => FirstInv'
<1> SUFFICES ASSUME SafetyInv, Freeze PROVE FirstInv'
  OBVIOUS
<1>1. result = "draft" /\ result' \in {"frozen", "rejected"} /\ wave' = wave /\ wave_actions' = wave_actions
  BY DEF Freeze
<1>2. wave = {} /\ wave_actions = <<>>
  BY <1>1 DEF SafetyInv, Phases, Started
<1>3. Batch' = {}
  BY <1>1, <1>2 DEF Batch, ToSet
<1> QED
  BY <1>1, <1>2, <1>3 DEF FirstInv, Judged, Waves, Stopped

(* Nothing has been reported when the closure is known. *)
LEMMA FirstDiscover == SafetyInv /\ Discover => FirstInv'
<1> SUFFICES ASSUME SafetyInv, Discover PROVE FirstInv'
  OBVIOUS
<1>1. /\ UNCHANGED <<plan, keep_going, fails, wave, wave_actions, executed, failures, reported>>
      /\ result = "frozen" /\ result' = "running"
      /\ closure' = Reach(plan, {Selected})
  BY DEF Discover, invocation
<1>2. reported = {} /\ executed = {} /\ failures = <<>> /\ wave = {} /\ wave_actions = <<>>
  BY <1>1 DEF SafetyInv, Phases, Started
<1>3. Batch' = {} /\ Len(<<>>) = 0
  BY <1>1, <1>2 DEF Batch, ToSet
<1>4. Judged'
  BY <1>1, <1>2, <1>3 DEF Judged
<1>5. Cardinality(Steps) \in Nat /\ Levels(plan', closure')[0] = {}
  <2>1. plan' \in Draft /\ closure' \in SUBSET Steps
    BY <1>1, PlanTyped, ReachClosed, SelectedAssumption DEF SafetyInv, PermitsExclude
  <2>2. IsLevels(plan', closure', Cardinality(Steps), Levels(plan', closure'))
    BY <2>1, LevelsAre
  <2> QED
    BY <2>2 DEF IsLevels
<1>6. Waves'
  <2>1. ActionsOf({})' = {}
    BY DEF ActionsOf
  <2>2. failures' = <<>> /\ reported' = {} /\ wave' = {} /\ executed' = {} /\ wave_actions' = <<>>
    BY <1>1, <1>2
  <2>3. ActionsOf(reported)' = {} /\ ActionsOf(wave)' = {} /\ ActionsOf(reported \cup wave)' = {}
    BY <2>1, <2>2 DEF ActionsOf
  <2>4. \E n \in 0 .. Cardinality(Steps) : reported' = Levels(plan', closure')[n]
    BY <1>5, <2>2
  <2>5. \A i, j \in 1 .. Len(wave_actions') : FALSE
    BY <1>3, <2>2
  <2> QED
    BY <1>3, <2>2, <2>3, <2>4, <2>5 DEF Waves, Level
<1> QED
  BY <1>1, <1>4, <1>6 DEF FirstInv, Stopped

(* The wave lists the actions no reported step exposes, in the order of    *)
(* their first steps, and none has been judged.                            *)
LEMMA FirstStartWave == SafetyInv /\ FirstInv /\ StartWave => FirstInv'
<1>0. SafetyInv /\ FirstInv /\ StartWave /\ keep_going => FirstInv'
  <2>1. StartWave => keep_going' = keep_going
    BY DEF StartWave, invocation
  <2> QED
    BY <2>1 DEF FirstInv
<1> SUFFICES ASSUME SafetyInv, FirstInv, StartWave, ~keep_going PROVE FirstInv'
  BY <1>0
<1> DEFINE fresh == ActionsOf(ready) \ executed
<1>1. UNCHANGED <<plan, keep_going, fails, result, closure, failures, reported>>
  BY DEF StartWave, invocation
<1>2. /\ result = "running" /\ wave = {} /\ wave' = ready /\ executed' = executed \cup fresh
      /\ outcome' = [a \in Actions |-> "none"] /\ earliest' = NoFailure
      /\ task' = [a \in Actions |-> IF a \in fresh THEN "queued" ELSE "none"]
  BY DEF StartWave
<1>3. /\ wave_actions' \in SetToSeqs(fresh)
      /\ \A i, j \in DOMAIN wave_actions' :
            i < j => FirstStep(wave_actions'[i], ready) < FirstStep(wave_actions'[j], ready)
  BY DEF StartWave, Sorted
<1>4. Batch' = fresh /\ fresh \subseteq Actions /\ DOMAIN wave_actions' = 1 .. Len(wave_actions')
  <2>1. fresh \in SUBSET Actions
    BY PlanTyped DEF SafetyInv, PermitsExclude, TypeOK, ActionsOf
  <2> HIDE DEF fresh
  <2> QED
    BY <1>3, <2>1, Listed DEF Batch
<1>5. Judged'
  <2>1. \A a \in Batch' : task'[a] = "queued" /\ outcome'[a] = "none"
    BY <1>2, <1>4
  <2>2. NoFailure' = NoFailure
    BY DEF NoFailure
  <2> HIDE DEF fresh
  <2> QED
    BY <1>2, <2>1, <2>2 DEF Judged
<1>6. /\ failures = <<>> /\ (\E n \in 0 .. Cardinality(Steps) : reported = Level(n))
      /\ executed = ActionsOf(reported \cup {}) /\ ActionsOf(reported) \cap fails = {}
  BY <1>2 DEF FirstInv, Waves
<1>7. executed = ActionsOf(reported)
  BY <1>6 DEF ActionsOf
<1>8. ActionsOf(reported)' = ActionsOf(reported) /\ ActionsOf(wave)' = ActionsOf(ready)
  BY <1>1, <1>2 DEF ActionsOf
<1>9. executed' = ActionsOf(reported \cup wave)'
  <2>1. ActionsOf(reported \cup wave)' = ActionsOf(reported \cup ready)
    BY <1>1, <1>2 DEF ActionsOf
  <2>2. ActionsOf(reported \cup ready) = ActionsOf(reported) \cup ActionsOf(ready)
    BY DEF ActionsOf
  <2> QED
    BY <1>2, <1>7, <2>1, <2>2
<1>10. \A i, j \in 1 .. Len(wave_actions') :
            i < j => FirstStep(wave_actions[i], wave)' < FirstStep(wave_actions[j], wave)'
  <2>1. ASSUME NEW i PROVE FirstStep(wave_actions[i], wave)' = FirstStep(wave_actions'[i], ready)
    BY <1>1, <1>2 DEF FirstStep
  <2> QED
    BY <1>3, <1>4, <2>1
<1>11. \E n \in 0 .. Cardinality(Steps) : reported' = Level(n)'
  BY <1>1, <1>6, SameLevel
<1>12. Waves'
  <2>1. Batch' = ActionsOf(wave)' \ ActionsOf(reported)'
    BY <1>4, <1>7, <1>8
  <2>2. failures' = <<>> /\ ActionsOf(reported)' \cap fails' = {}
    BY <1>1, <1>6, <1>8
  <2> HIDE DEF fresh
  <2> QED
    BY <1>9, <1>10, <1>11, <2>1, <2>2 DEF Waves
<1> QED
  BY <1>1, <1>2, <1>5, <1>12 DEF FirstInv, Stopped

(* A worker judges its own action, and moves the earliest failure to the   *)
(* position of its own at most.                                            *)
LEMMA FirstFrame ==
    ASSUME SafetyInv, ReportInv, FirstInv, ~keep_going, UNCHANGED <<invocation, scheduler>>,
           NEW a \in Batch, NEW l \in {"permit", "check", "run", "release", "done"}, Goto(a, l),
           outcome' \in [Actions -> {"none", "succeeded", "cancelled", "failed"}],
           \A b \in Actions : b # a => outcome'[b] = outcome[b],
           \/ outcome'[a] = outcome[a] /\ earliest' = earliest
           \/ outcome[a] = "none" /\ outcome'[a] # "none",
           l \in {"release", "done"} => outcome'[a] # "none",
           outcome'[a] = "failed" /\ outcome[a] = "none" =>
                a \in fails /\ earliest' = Min({earliest, Position(a)}),
           outcome'[a] # "failed" => earliest' = earliest,
           outcome'[a] = "succeeded" /\ outcome[a] = "none" => a \notin fails,
           outcome'[a] = "cancelled" /\ outcome[a] = "none" => earliest < Position(a)
    PROVE  FirstInv'
<1>1. UNCHANGED <<plan, keep_going, limited, fails, result, closure, indegree, ready, wave, wave_actions,
                  executed, failures, reported, waits>>
  BY DEF invocation, scheduler
<1>2. /\ Batch \subseteq Actions
      /\ task \in [Actions -> {"none", "queued", "permit", "check", "run", "release", "done"}]
  BY DEF SafetyInv, PermitsExclude, TypeOK, Batch
<1>3. /\ Batch' = Batch /\ NoFailure' = NoFailure /\ task' = [task EXCEPT ![a] = l]
      /\ \A b : Position(b)' = Position(b)
  BY <1>1 DEF Batch, NoFailure, Goto, Position
<1>4. \A b \in Batch : b # a => task'[b] = task[b] /\ outcome'[b] = outcome[b]
  BY <1>2, <1>3
<1>5. task'[a] = l
  BY <1>2, <1>3
<1>6. \A b \in Batch : /\ Position(b) \in Nat /\ Position(b) < NoFailure
                       /\ NoFailure \in Nat /\ earliest \in Nat /\ earliest <= NoFailure
  BY Positions
<1>i. earliest \in Int /\ Position(a) \in Int
  BY <1>6
<1>7. earliest' \in Nat /\ earliest' <= earliest
  <2>1. CASE earliest' = earliest
    BY <1>6, <2>1
  <2>2. CASE earliest' # earliest
    <3>1. earliest' = Min({earliest, Position(a)}) /\ earliest \in Int /\ Position(a) \in Int
      BY <1>6, <2>2
    <3>2. earliest' \in {earliest, Position(a)} /\ earliest' <= earliest
      BY <3>1, MinOfTwo
    <3> QED
      BY <1>6, <3>2
  <2> QED
    BY <2>1, <2>2
<1>j. Judged
  BY DEF FirstInv
<1>8. ASSUME NEW b \in Batch PROVE
        /\ task'[b] \in {"release", "done"} => outcome'[b] # "none"
        /\ outcome'[b] = "failed" => b \in fails /\ earliest' <= Position(b)
        /\ outcome'[b] = "succeeded" => b \notin fails
        /\ outcome'[b] = "cancelled" => earliest' < Position(b)
  <2>1. CASE b # a
    <3>1. /\ task'[b] \in {"release", "done"} => outcome'[b] # "none"
          /\ outcome'[b] = "failed" => b \in fails /\ earliest <= Position(b)
          /\ outcome'[b] = "succeeded" => b \notin fails
          /\ outcome'[b] = "cancelled" => earliest < Position(b)
      BY <1>4, <1>j, <2>1 DEF Judged
    <3> QED
      BY <1>6, <1>7, <3>1
  <2>2. CASE b = a
    <3>1. /\ outcome[a] = "failed" => a \in fails /\ earliest <= Position(a)
          /\ outcome[a] = "succeeded" => a \notin fails
          /\ outcome[a] = "cancelled" => earliest < Position(a)
      BY <1>j DEF Judged
    <3>2. outcome'[a] = "failed" => a \in fails /\ earliest' <= Position(a)
      <4>1. CASE outcome[a] = "none"
        <5>1. Min({earliest, Position(a)}) <= Position(a)
          BY <1>i, MinOfTwo
        <5> QED
          BY <4>1, <5>1
      <4>2. CASE outcome[a] # "none"
        BY <3>1, <4>2
      <4> QED
        BY <4>1, <4>2
    <3>3. outcome'[a] = "cancelled" => earliest' < Position(a)
      BY <3>1
    <3> QED
      BY <1>5, <2>2, <3>1, <3>2, <3>3
  <2> QED
    BY <2>1, <2>2
<1>9. ASSUME wave # {}, earliest' # NoFailure
      PROVE  \E b \in Batch : outcome'[b] = "failed" /\ Position(b) = earliest'
  <2>1. CASE earliest' = earliest
    <3>1. PICK b \in Batch : outcome[b] = "failed" /\ Position(b) = earliest
      BY <1>9, <1>j, <2>1 DEF Judged
    <3>2. outcome'[b] = "failed"
      BY <1>4, <3>1
    <3> QED
      BY <2>1, <3>1, <3>2
  <2>2. CASE earliest' # earliest
    <3>1. outcome'[a] = "failed" /\ outcome[a] = "none"
      BY <2>2
    <3>2. earliest' = Min({earliest, Position(a)})
      BY <3>1
    <3>3. earliest' \in {earliest, Position(a)}
      BY <1>i, <3>2, MinOfTwo
    <3> QED
      BY <2>2, <3>1, <3>3
  <2> QED
    BY <2>1, <2>2
<1>10. Judged'
  BY <1>1, <1>3, <1>8, <1>9 DEF Judged
<1>11. \A n : Level(n)' = Level(n)
  BY <1>1, SameLevel
<1>12. Waves'
  BY <1>1, <1>3, <1>11 DEF FirstInv, Waves, ActionsOf, FirstStep
<1>13. Stopped'
  BY <1>1, <1>11 DEF FirstInv, Stopped, ActionsOf
<1> QED
  BY <1>1, <1>10, <1>12, <1>13 DEF FirstInv, ActionsOf

(* A task is cancelled only behind the earliest failure. *)
LEMMA FirstWork ==
    ASSUME NEW a \in Actions, SafetyInv, ReportInv, FirstInv, Work(a)
    PROVE  FirstInv'
<1>0. CASE keep_going
  <2>1. keep_going' = keep_going
    BY DEF Work, StartTask, Acquire, Check, Execute, Release, invocation
  <2> QED
    BY <1>0, <2>1 DEF FirstInv
<1>a. CASE ~keep_going
  <2>t. outcome \in [Actions -> {"none", "succeeded", "cancelled", "failed"}]
    BY DEF SafetyInv, PermitsExclude, TypeOK
  <2>b. task[a] # "none" => a \in Batch
    BY DEF SafetyInv, Phases
  <2>s. a \in Batch => /\ task[a] \notin {"release", "done"} => outcome[a] = "none"
                       /\ task[a] \in {"release", "done"} => outcome[a] # "none"
                       /\ outcome[a] = "failed" => earliest <= Position(a)
    BY <1>a DEF ReportInv, Settled, FirstInv, Judged
  <2>1. CASE StartTask(a)
    <3>1. /\ UNCHANGED <<invocation, scheduler>> /\ UNCHANGED <<outcome, earliest>>
          /\ Goto(a, "permit") /\ a \in Batch /\ outcome[a] = "none"
      BY <2>1, <2>b, <2>s DEF StartTask
    <3> QED
      BY <1>a, <2>t, <3>1, FirstFrame
  <2>2. CASE Acquire(a)
    <3>1. /\ UNCHANGED <<invocation, scheduler>> /\ UNCHANGED <<outcome, earliest>>
          /\ Goto(a, "check") /\ a \in Batch /\ outcome[a] = "none"
      BY <2>2, <2>b, <2>s DEF Acquire
    <3> QED
      BY <1>a, <2>t, <3>1, FirstFrame
  <2>3. CASE Release(a)
    <3>1. /\ UNCHANGED <<invocation, scheduler>> /\ UNCHANGED <<outcome, earliest>>
          /\ Goto(a, "done") /\ a \in Batch /\ outcome[a] # "none"
      BY <2>3, <2>b, <2>s DEF Release
    <3> QED
      BY <1>a, <2>t, <3>1, FirstFrame
  <2>4. CASE Check(a)
    <3>1. /\ UNCHANGED <<invocation, scheduler>> /\ earliest' = earliest
          /\ a \in Batch /\ outcome[a] = "none"
      BY <2>4, <2>b, <2>s DEF Check
    <3>2. CASE IsCancelled(a)
      <4>1. outcome' = [outcome EXCEPT ![a] = "cancelled"] /\ Goto(a, "release")
        BY <2>4, <3>2 DEF Check
      <4>2. /\ outcome' \in [Actions -> {"none", "succeeded", "cancelled", "failed"}]
            /\ outcome'[a] = "cancelled" /\ \A b \in Actions : b # a => outcome'[b] = outcome[b]
        BY <2>t, <4>1
      <4>3. earliest < Position(a)
        BY <3>2 DEF IsCancelled
      <4> QED
        BY <1>a, <3>1, <4>1, <4>2, <4>3, FirstFrame
    <3>3. CASE ~IsCancelled(a)
      <4>1. outcome' = outcome /\ Goto(a, "run")
        BY <2>4, <3>3 DEF Check
      <4> QED
        BY <1>a, <2>t, <3>1, <4>1, FirstFrame
    <3> QED
      BY <3>2, <3>3
  <2>5. CASE Execute(a)
    <3>1. /\ UNCHANGED <<invocation, scheduler>> /\ Goto(a, "release")
          /\ a \in Batch /\ outcome[a] = "none"
      BY <2>5, <2>b, <2>s DEF Execute
    <3>2. PICK o \in {"succeeded", "cancelled", "failed"} :
            /\ outcome' = [outcome EXCEPT ![a] = o]
            /\ o = "failed" => a \in fails /\ earliest' = Min({earliest, Position(a)})
            /\ o = "succeeded" => a \notin fails /\ earliest' = earliest
            /\ o = "cancelled" => earliest < Position(a) /\ earliest' = earliest
      BY <1>a, <2>5 DEF Execute, IsCancelled
    <3>3. /\ outcome' \in [Actions -> {"none", "succeeded", "cancelled", "failed"}]
          /\ outcome'[a] = o /\ \A b \in Actions : b # a => outcome'[b] = outcome[b]
      BY <2>t, <3>2
    <3> QED
      BY <1>a, <3>1, <3>2, <3>3, FirstFrame
  <2> QED
    BY <2>1, <2>2, <2>3, <2>4, <2>5 DEF Work
<1> QED
  BY <1>0, <1>a

(* Where nothing has failed, a wave completes the next level. *)
LEMMA NextLevel ==
    ASSUME SafetyInv, ReportInv, result = "running", failures = <<>>, wave # {}, ready = {},
           NEW n \in 0 .. Cardinality(Steps), reported = Level(n)
    PROVE  n + 1 \in 1 .. Cardinality(Steps) /\ reported \cup wave = Level(n + 1)
<1>s. Started
  BY DEF Started
<1>1. /\ Cardinality(Steps) \in Nat /\ Level(Cardinality(Steps)) = closure
      /\ \A m \in 1 .. Cardinality(Steps) :
            Level(m) = {t \in closure : plan.dependencies[t] \subseteq Level(m - 1)}
  BY <1>s, ClosureLevels
<1>2. reported \cup wave = {t \in closure : plan.dependencies[t] \subseteq reported}
  <2>t. closure \subseteq Steps /\ wave \cup reported \subseteq {s \in closure : indegree[s] = 0}
    BY DEF SafetyInv, PermitsExclude, TypeOK, Placed
  <2>1. ASSUME NEW s \in closure PROVE indegree[s] = 0 <=> plan.dependencies[s] \subseteq reported
    <3>1. indegree[s] = Cardinality(plan.dependencies[s] \ reported)
      BY <1>s, <2>t, <2>1 DEF SafetyInv, Counted
    <3>2. IsFiniteSet(plan.dependencies[s] \ reported)
      BY <2>t, PlanTyped, FS_Subset DEF SafetyInv, PermitsExclude
    <3>3. indegree[s] = 0 <=> plan.dependencies[s] \ reported = {}
      BY <3>1, <3>2, FS_EmptySet
    <3> QED
      BY <3>3
  <2>2. \A s \in closure : indegree[s] = 0 => s \in wave \cup reported
    BY DEF ReportInv, Covered, ToSet
  <2> QED
    BY <2>t, <2>1, <2>2
<1>3. n # Cardinality(Steps)
  <2>1. wave \subseteq closure /\ wave \cap reported = {}
    BY DEF SafetyInv, Placed
  <2> QED
    BY <1>1, <2>1
<1>4. n + 1 \in 1 .. Cardinality(Steps) /\ (n + 1) - 1 = n
  BY <1>1, <1>3
<1> QED
  BY <1>1, <1>2, <1>4

(* A sequence that a comparison of positions sorts begins with the action  *)
(* at the lowest one.                                                      *)
LEMMA HeadIsFirst ==
    ASSUME NEW S \in SUBSET Actions, S # {}, NEW seq \in SetToSeqs(S),
           NEW P \in [Actions -> Int],
           \A i, j \in DOMAIN seq : i < j => P[seq[i]] < P[seq[j]]
    PROVE  Head(seq) \in S /\ \A b \in S : P[Head(seq)] <= P[b]
<1>1. seq \in Seq(Actions) /\ ToSet(seq) = S /\ DOMAIN seq = 1 .. Len(seq) /\ Len(seq) \in Nat
  BY Listed
<1>2. Len(seq) # 0
  BY <1>1 DEF ToSet
<1>3. Head(seq) = seq[1] /\ 1 \in DOMAIN seq
  BY <1>1, <1>2
<1>4. ASSUME NEW b \in S PROVE P[seq[1]] <= P[b]
  <2>1. PICK i \in DOMAIN seq : seq[i] = b
    BY <1>1 DEF ToSet
  <2>2. i = 1 \/ 1 < i
    BY <1>1
  <2>3. seq[1] \in Actions /\ b \in Actions
    BY <1>1, <1>3
  <2> QED
    BY <1>3, <2>1, <2>2, <2>3
<1> QED
  BY <1>1, <1>3, <1>4 DEF ToSet

(* The first failure reported is that of the lowest failing step of the    *)
(* wave: the action of lowest position that fails has none to cancel it.   *)
LEMMA LowestReported ==
    ASSUME SafetyInv, FirstInv, ~keep_going, FinishWave, failures' # <<>>
    PROVE  \E s \in wave :
            /\ Head(failures') = plan.action[s] /\ plan.action[s] \in fails
            /\ \A u \in wave : plan.action[u] \in fails /\ plan.action[u] \notin ActionsOf(reported) => s <= u
<1> DEFINE fresh == {a \in Batch : outcome[a] = "failed"}
           P == [a \in Actions |-> IF a \in Batch THEN Position(a) ELSE 0]
           S(a) == {s \in wave : plan.action[s] = a}
<1>1. /\ wave # {} /\ result = "running" /\ Batch \subseteq Actions
      /\ \A a \in Batch : task[a] = "done"
  BY WaveFinished
<1>2. /\ failures = <<>> /\ Batch = ActionsOf(wave) \ ActionsOf(reported)
      /\ \A i, j \in 1 .. Len(wave_actions) :
            i < j => FirstStep(wave_actions[i], wave) < FirstStep(wave_actions[j], wave)
  BY <1>1 DEF FirstInv, Waves
<1>j. Judged
  BY DEF FirstInv
<1>3. \A a \in Batch : /\ Position(a) \in Nat /\ Position(a) \in 1 .. Len(wave_actions)
                       /\ wave_actions[Position(a)] = a
                       /\ Position(a) < NoFailure /\ NoFailure \in Nat /\ earliest \in Nat
  BY Positions
<1>4. PICK new : /\ new \in SetToSeqs(fresh) /\ failures' = failures \o new
                 /\ \A i, j \in DOMAIN new : i < j => Position(new[i]) < Position(new[j])
  BY DEF FinishWave, Sorted
<1>5. fresh \in SUBSET Actions
  BY <1>1
<1>6. /\ new \in Seq(Actions) /\ ToSet(new) = fresh /\ DOMAIN new = 1 .. Len(new)
  <2> HIDE DEF fresh
  <2> QED
    BY <1>4, <1>5, Listed
<1>7. failures' = new
  <2>1. <<>> \o new = new
    BY <1>6
  <2> QED
    BY <1>2, <1>4, <2>1
<1>8. fresh # {}
  <2>1. new = <<>> <=> ToSet(new) = {}
    BY <1>6, Appended
  <2> QED
    BY <1>6, <1>7, <2>1
<1>9. Head(new) \in fresh /\ \A b \in fresh : Position(Head(new)) <= Position(b)
  <2>1. P \in [Actions -> Int] /\ \A a \in Batch : P[a] = Position(a)
    BY <1>1, <1>3
  <2>2. \A i \in DOMAIN new : new[i] \in Batch
    BY <1>6 DEF ToSet
  <2>3. \A i, j \in DOMAIN new : i < j => P[new[i]] < P[new[j]]
    BY <1>4, <2>1, <2>2
  <2>4. \A b \in fresh : b \in Batch
    OBVIOUS
  <2> HIDE DEF fresh, P
  <2>5. Head(new) \in fresh /\ \A b \in fresh : P[Head(new)] <= P[b]
    BY <1>4, <1>5, <1>8, <2>1, <2>3, HeadIsFirst
  <2> QED
    BY <2>1, <2>4, <2>5
<1> DEFINE a == Head(new)
<1>10. ASSUME NEW b \in Batch PROVE FirstStep(b, wave) \in S(b) /\ \A y \in S(b) : FirstStep(b, wave) <= y
  <2>1. S(b) \in SUBSET Nat
    BY StepsAssumption DEF SafetyInv, PermitsExclude, TypeOK
  <2>2. S(b) # {}
    BY <1>2, <1>10 DEF ActionsOf
  <2>3. FirstStep(b, wave) = Min(S(b))
    BY DEF FirstStep
  <2> HIDE DEF S
  <2> QED
    BY <2>1, <2>2, <2>3, MinIsLeast
<1>11. ASSUME NEW u \in wave, plan.action[u] \in fails, plan.action[u] \notin ActionsOf(reported)
       PROVE  FirstStep(a, wave) <= u
  <2> DEFINE b == plan.action[u]
  <2>1. b \in Batch
    BY <1>2, <1>11 DEF ActionsOf
  <2>2. outcome[b] \in {"cancelled", "failed"}
    <3>1. outcome[b] \in {"none", "succeeded", "cancelled", "failed"}
      BY <1>1, <2>1 DEF SafetyInv, PermitsExclude, TypeOK
    <3> QED
      BY <1>1, <1>11, <1>j, <2>1, <3>1 DEF Judged
  <2>3. \E c \in fresh : Position(c) <= Position(b)
    <3>1. CASE outcome[b] = "failed"
      BY <1>3, <2>1, <3>1
    <3>2. CASE outcome[b] = "cancelled"
      <4>1. earliest < Position(b)
        BY <1>j, <2>1, <3>2 DEF Judged
      <4>2. earliest # NoFailure
        BY <1>3, <2>1, <4>1
      <4>3. PICK c \in Batch : outcome[c] = "failed" /\ Position(c) = earliest
        BY <1>1, <1>j, <4>2 DEF Judged
      <4> QED
        BY <1>3, <2>1, <4>1, <4>3
    <3> QED
      BY <2>2, <3>1, <3>2
  <2>4. a \in Batch /\ Position(a) <= Position(b)
    <3>1. PICK c \in fresh : Position(c) <= Position(b)
      BY <2>3
    <3>2. Position(a) <= Position(c) /\ a \in Batch /\ c \in Batch
      BY <1>9, <3>1
    <3> QED
      BY <1>3, <2>1, <3>1, <3>2
  <2>5. u \in S(b) /\ u \in Nat
    BY StepsAssumption DEF SafetyInv, PermitsExclude, TypeOK
  <2>6. FirstStep(a, wave) \in Nat /\ FirstStep(b, wave) \in Nat
    BY <1>10, <2>1, <2>4, StepsAssumption DEF SafetyInv, PermitsExclude, TypeOK
  <2> HIDE DEF a, b, S
  <2>7. FirstStep(b, wave) <= u
    BY <1>10, <2>1, <2>5
  <2>8. CASE Position(a) = Position(b)
    <3>1. a = b
      BY <1>3, <2>1, <2>4, <2>8
    <3> QED
      BY <2>7, <3>1
  <2>9. CASE Position(a) # Position(b)
    <3>1. Position(a) < Position(b)
      BY <1>3, <2>1, <2>4, <2>9
    <3>2. FirstStep(wave_actions[Position(a)], wave) < FirstStep(wave_actions[Position(b)], wave)
      BY <1>2, <1>3, <2>1, <2>4, <3>1
    <3>3. FirstStep(a, wave) < FirstStep(b, wave)
      BY <1>3, <2>1, <2>4, <3>2
    <3> QED
      BY <2>5, <2>6, <2>7, <3>3
  <2> QED
    BY <2>8, <2>9
<1>12. FirstStep(a, wave) \in wave /\ plan.action[FirstStep(a, wave)] = a /\ a \in fails
  <2>1. a \in Batch /\ outcome[a] = "failed"
    BY <1>9
  <2>2. a \in fails
    BY <1>j, <2>1 DEF Judged
  <2> HIDE DEF a
  <2> QED
    BY <1>10, <2>1, <2>2
<1> HIDE DEF fresh, P, S
<1> QED
  BY <1>7, <1>11, <1>12

(* A wave is over: it completed a level, or the build stops and reports    *)
(* the lowest failing step of the level first.                             *)
LEMMA FirstFinishWave == SafetyInv /\ ReportInv /\ FirstInv /\ FinishWave => FirstInv'
<1>0. FinishWave /\ keep_going => FirstInv'
  <2>1. FinishWave => keep_going' = keep_going
    BY DEF FinishWave, invocation
  <2> QED
    BY <2>1 DEF FirstInv
<1> SUFFICES ASSUME SafetyInv, ReportInv, FirstInv, FinishWave, ~keep_going PROVE FirstInv'
  BY <1>0
<1>1. /\ UNCHANGED <<plan, keep_going, fails, closure, executed, outcome, earliest>>
      /\ wave' = {} /\ wave_actions' = <<>> /\ wave # {} /\ ready = {} /\ result = "running"
      /\ \A a \in Batch : task[a] = "done"
      /\ failures' \in Seq(Actions)
      /\ ToSet(failures') = ToSet(failures) \cup {a \in Batch : outcome[a] = "failed"}
      /\ failures' = <<>> <=> ToSet(failures') = {}
      /\ Batch \subseteq Actions
  BY WaveFinished
<1>2. /\ failures = <<>> /\ executed = ActionsOf(reported \cup wave)
      /\ ActionsOf(reported) \cap fails = {} /\ Batch = ActionsOf(wave) \ ActionsOf(reported)
  BY <1>1 DEF FirstInv, Waves
<1>3. PICK n \in 0 .. Cardinality(Steps) : reported = Level(n)
  BY <1>1 DEF FirstInv, Waves
<1>4. n + 1 \in 1 .. Cardinality(Steps) /\ reported \cup wave = Level(n + 1)
  BY <1>1, <1>2, <1>3, NextLevel
<1>5. n + 1 \in 0 .. Cardinality(Steps) /\ (n + 1) - 1 = n
  BY <1>4
<1>6. Batch' = {} /\ Len(<<>>) = 0
  BY <1>1 DEF Batch, ToSet
<1>7. Judged'
  BY <1>1, <1>6 DEF Judged
<1>8. \A m : Level(m)' = Level(m)
  BY <1>1, SameLevel
<1>9. \A X : ActionsOf(X)' = {plan.action[s] : s \in X'}
  BY <1>1 DEF ActionsOf
<1>10. (\E a \in Batch : outcome[a] = "cancelled") => failures' # <<>>
  BY <1>1 DEF ReportInv, Blamed
<1>11. CASE failures' = <<>>
  <2>1. result' = "running" /\ reported' = reported \cup Complete(ToSet(failures'))
    BY <1>1, <1>10, <1>11 DEF FinishWave
  <2>2. Complete(ToSet(failures')) = wave
    BY <1>1, <1>11 DEF Complete
  <2>3. reported' = reported \cup wave /\ reported' \cup wave' = reported \cup wave
    BY <1>1, <2>1, <2>2
  <2>4. \A a \in Batch : a \notin fails
    <3>1. TAKE a \in Batch
    <3>2. outcome[a] \in {"none", "succeeded", "cancelled", "failed"}
      BY <1>1 DEF SafetyInv, PermitsExclude, TypeOK
    <3>3. outcome[a] \notin {"none", "cancelled", "failed"}
      BY <1>1, <1>10, <1>11 DEF FirstInv, Judged
    <3> QED
      BY <3>2, <3>3 DEF FirstInv, Judged
  <2>5. ActionsOf(reported \cup wave) \cap fails = {}
    <3>1. ActionsOf(reported \cup wave) = ActionsOf(reported) \cup ActionsOf(wave)
      BY DEF ActionsOf
    <3> QED
      BY <1>2, <2>4, <3>1
  <2>6. ActionsOf(reported)' = ActionsOf(reported \cup wave) /\ ActionsOf(reported \cup wave)' = ActionsOf(reported \cup wave)
    BY <1>1, <2>3 DEF ActionsOf
  <2>7. ActionsOf(wave)' = {}
    BY <1>1 DEF ActionsOf
  <2>8. \A i, j \in 1 .. Len(wave_actions') : FALSE
    BY <1>1, <1>6
  <2>9. \E m \in 0 .. Cardinality(Steps) : reported' = Level(m)'
    BY <1>4, <1>5, <1>8, <2>3
  <2>10. Waves'
    BY <1>1, <1>2, <1>6, <1>11, <2>5, <2>6, <2>7, <2>8, <2>9 DEF Waves
  <2> QED
    BY <1>7, <2>1, <2>10 DEF FirstInv, Stopped
<1>12. CASE failures' # <<>>
  <2>1. result' = "failed"
    BY <1>12 DEF FinishWave
  <2>2. PICK s \in wave :
            /\ Head(failures') = plan.action[s] /\ plan.action[s] \in fails
            /\ \A u \in wave : plan.action[u] \in fails /\ plan.action[u] \notin ActionsOf(reported) => s <= u
    BY <1>12, LowestReported
  <2>3. \A u \in Level(n + 1) : plan.action[u] \in fails => s <= u
    <3>1. TAKE u \in Level(n + 1)
    <3>2. HAVE plan.action[u] \in fails
    <3>3. plan.action[u] \notin ActionsOf(reported)
      BY <1>2, <3>2
    <3>4. u \in wave
      BY <1>4, <3>3 DEF ActionsOf
    <3> QED
      BY <2>2, <3>2, <3>3, <3>4
  <2>4. s \in Level(n + 1) /\ executed = ActionsOf(Level(n + 1)) /\ ActionsOf(Level(n)) \cap fails = {}
    BY <1>2, <1>3, <1>4
  <2>5. /\ ActionsOf(Level(n))' = ActionsOf(Level(n))
        /\ ActionsOf(Level(n + 1))' = ActionsOf(Level(n + 1))
    BY <1>1, <1>8 DEF ActionsOf
  <2>6. Stopped'
    <3> SUFFICES \E m \in 1 .. Cardinality(Steps) : \E t \in Level(m)' :
                    /\ ActionsOf(Level(m - 1))' \cap fails' = {}
                    /\ executed' = ActionsOf(Level(m))'
                    /\ Head(failures') = plan'.action[t] /\ plan'.action[t] \in fails'
                    /\ \A u \in Level(m)' : plan'.action[u] \in fails' => t <= u
      BY DEF Stopped
    <3> n + 1 \in 1 .. Cardinality(Steps)
      BY <1>4
    <3> s \in Level(n + 1)'
      BY <1>8, <2>4
    <3> WITNESS n + 1 \in 1 .. Cardinality(Steps)
    <3> WITNESS s \in Level(n + 1)'
    <3>1. ActionsOf(Level((n + 1) - 1))' = ActionsOf(Level(n))
      BY <1>5, <2>5
    <3> QED
      BY <1>1, <1>8, <2>2, <2>3, <2>4, <2>5, <3>1
  <2> QED
    BY <1>7, <2>1, <2>6 DEF FirstInv, Waves
<1> QED
  BY <1>11, <1>12

(* A build without failures that runs out of ready steps ends well. *)
LEMMA FirstEnd == SafetyInv /\ FirstInv /\ End => FirstInv'
<1>0. End /\ keep_going => FirstInv'
  <2>1. End => keep_going' = keep_going
    BY DEF End, invocation
  <2> QED
    BY <2>1 DEF FirstInv
<1> SUFFICES ASSUME SafetyInv, FirstInv, End, ~keep_going PROVE FirstInv'
  BY <1>0
<1>1. /\ UNCHANGED <<plan, fails, reported, wave, wave_actions, failures, task, outcome, earliest>>
      /\ result = "running" /\ wave = {}
  BY DEF End, invocation, workers
<1>2. failures = <<>> /\ ActionsOf(reported) \cap fails = {} /\ wave_actions = <<>>
  BY <1>1 DEF FirstInv, Waves, SafetyInv, Phases
<1>3. result' \in {"ok", "inconsistent"}
  BY <1>2 DEF End
<1>4. Batch' = {}
  BY <1>1, <1>2 DEF Batch, ToSet
<1>5. Judged'
  BY <1>1, <1>4 DEF Judged
<1> QED
  BY <1>1, <1>2, <1>3, <1>5 DEF FirstInv, Waves, Stopped, ActionsOf

(* Every step of the build keeps the levels. *)
LEMMA FirstKept == SafetyInv /\ ReportInv /\ FirstInv /\ [Next]_vars => FirstInv'
<1> SUFFICES ASSUME SafetyInv, ReportInv, FirstInv, [Next]_vars PROVE FirstInv'
  OBVIOUS
<1>1. CASE Freeze
  BY <1>1, FirstFreeze
<1>2. CASE Discover
  BY <1>2, FirstDiscover
<1>3. CASE StartWave
  BY <1>3, FirstStartWave
<1>4. CASE FinishWave
  BY <1>4, FirstFinishWave
<1>5. CASE End
  BY <1>5, FirstEnd
<1>6. ASSUME NEW a \in Actions, Work(a) PROVE FirstInv'
  BY <1>6, FirstWork
<1>7. CASE UNCHANGED vars
  <2>1. UNCHANGED <<plan, keep_going, limited, fails, result, closure, indegree, ready, wave, wave_actions,
                    executed, failures, reported, waits, task, outcome, earliest, available>>
    BY <1>7 DEF vars, invocation, scheduler, workers
  <2>2. \A n : Level(n)' = Level(n)
    BY <2>1, SameLevel
  <2>3. Judged => Judged'
    <3>1. Batch' = Batch /\ NoFailure' = NoFailure /\ \A b : Position(b)' = Position(b)
      BY <2>1 DEF Batch, NoFailure, Position
    <3> QED
      BY <2>1, <3>1 DEF Judged
  <2>4. Waves => Waves'
    BY <2>1, <2>2 DEF Waves, Batch, ActionsOf, FirstStep
  <2>5. Stopped => Stopped'
    BY <2>1, <2>2 DEF Stopped, ActionsOf
  <2> QED
    BY <2>1, <2>3, <2>4, <2>5 DEF FirstInv, ActionsOf
<1> QED
  BY <1>1, <1>2, <1>3, <1>4, <1>5, <1>6, <1>7 DEF Next

(* The depth of a step is the first level that holds it. *)
LEMMA DepthIsLevel ==
    ASSUME SafetyInv, Started, NEW s \in closure
    PROVE  /\ Depth(s) \in 1 .. Cardinality(Steps)
           /\ \A n \in 0 .. Cardinality(Steps) : s \in Level(n) <=> Depth(s) <= n
<1> DEFINE N == Cardinality(Steps)
           S == {n \in 1 .. N : s \in Level(n)}
<1>1. /\ N \in Nat /\ Level(0) = {} /\ Level(N) = closure
      /\ \A m, n \in 0 .. N : m <= n => Level(m) \subseteq Level(n)
  BY ClosureLevels
<1>2. Depth(s) = Min(S)
  BY DEF Depth, Level, Levels
<1> HIDE DEF N
<1>3. N # 0
  BY <1>1
<1>4. N \in S /\ S \in SUBSET Nat /\ S # {}
  BY <1>1, <1>3
<1>5. Min(S) \in S /\ \A y \in S : Min(S) <= y
  <2> HIDE DEF S
  <2> QED
    BY <1>4, MinIsLeast
<1>6. Depth(s) \in 1 .. N /\ Depth(s) \in 0 .. N /\ s \in Level(Depth(s))
  BY <1>1, <1>2, <1>5
<1>7. ASSUME NEW n \in 0 .. N, s \in Level(n) PROVE Depth(s) <= n
  <2>1. n # 0
    BY <1>1, <1>7
  <2>2. n \in S
    BY <1>1, <1>7, <2>1
  <2> HIDE DEF S
  <2> QED
    BY <1>2, <1>5, <2>2
<1>8. ASSUME NEW n \in 0 .. N, Depth(s) <= n PROVE s \in Level(n)
  BY <1>1, <1>6, <1>8
<1>9. Depth(s) \in 1 .. N /\ \A n \in 0 .. N : s \in Level(n) <=> Depth(s) <= n
  BY <1>6, <1>7, <1>8
<1> QED
  BY <1>9 DEF N

(* Without keep_going the first failure reported is that of the lowest     *)
(* step of the first failing wave, though later workers may observe theirs *)
(* first: ActionCancellation keeps the earliest failure of a wave by       *)
(* position, and the build stops at the end of that wave (scheduling.rs).  *)
THEOREM BuildFirstFailure == Spec => []FirstFailure
<1>1. SafetyInv /\ ReportInv /\ FirstInv => FirstFailure
  <2> SUFFICES ASSUME SafetyInv, ReportInv, FirstInv, ~keep_going, result \in {"ok", "failed"}
               PROVE  FirstFailure
    BY DEF FirstFailure
  <2> DEFINE N == Cardinality(Steps)
  <2>s. Started /\ TypeOK
    BY DEF Started, SafetyInv, PermitsExclude
  <2>1. CASE result = "ok"
    <3>1. reported = closure /\ ActionsOf(reported) \cap fails = {}
      BY <2>1 DEF ReportInv, FirstInv
    <3>2. Failing = {}
      BY <3>1 DEF Failing, Attempted, ActionsOf
    <3> QED
      BY <2>1, <3>2 DEF FirstFailure
  <2>2. CASE result = "failed"
    <3>0. PICK n \in 1 .. N : \E s \in Level(n) :
            /\ ActionsOf(Level(n - 1)) \cap fails = {}
            /\ executed = ActionsOf(Level(n))
            /\ Head(failures) = plan.action[s] /\ plan.action[s] \in fails
            /\ \A u \in Level(n) : plan.action[u] \in fails => s <= u
      BY <2>2 DEF FirstInv, Stopped
    <3>1. PICK s \in Level(n) :
            /\ ActionsOf(Level(n - 1)) \cap fails = {}
            /\ executed = ActionsOf(Level(n))
            /\ Head(failures) = plan.action[s] /\ plan.action[s] \in fails
            /\ \A u \in Level(n) : plan.action[u] \in fails => s <= u
      BY <3>0
    <3>2. /\ N \in Nat /\ Level(0) = {}
          /\ \A m \in 0 .. N : Level(m) \subseteq closure
          /\ \A m \in 1 .. N : Level(m) = {t \in closure : plan.dependencies[t] \subseteq Level(m - 1)}
          /\ \A l, m \in 0 .. N : l <= m => Level(l) \subseteq Level(m)
      BY <2>s, ClosureLevels
    <3>3. \A t \in closure : /\ Depth(t) \in 1 .. N
                             /\ \A m \in 0 .. N : t \in Level(m) <=> Depth(t) <= m
      BY <2>s, DepthIsLevel
    <3> HIDE DEF N
    <3>4. n \in 0 .. N /\ n - 1 \in 0 .. N /\ n \in Nat
      BY <3>2
    <3>5. Level(n - 1) \subseteq Completable
      <4> DEFINE T == {m \in 0 .. N : m <= n - 1 => Level(m) \subseteq Completable}
      <4>1. T \in SUBSET (0 .. N) /\ 0 \in T
        BY <3>2
      <4>2. ASSUME NEW m \in 1 .. N, m - 1 \in T PROVE m \in T
        <5> SUFFICES ASSUME m <= n - 1, NEW t \in Level(m) PROVE t \in Completable
          BY <3>2
        <5>1. m - 1 <= n - 1 /\ m \in 0 .. N
          BY <3>2, <3>4
        <5>2. t \in closure /\ plan.dependencies[t] \subseteq Completable
          BY <3>2, <4>2, <5>1
        <5>3. t \in Level(n - 1)
          BY <3>2, <3>4, <5>1
        <5>4. plan.action[t] \notin fails
          BY <3>1, <5>3 DEF ActionsOf
        <5> QED
          BY <2>s, <5>2, <5>4, CompletableSteps
      <4>3. \A m \in 0 .. N : m \in T
        <5> HIDE DEF T
        <5> QED
          BY <3>2, <4>1, <4>2, Induction
      <4> QED
        BY <3>4, <4>3
    <3>6. s \in Failing
      BY <3>1, <3>2, <3>4, <3>5 DEF Failing, Attempted
    <3>7. ASSUME NEW t \in Failing PROVE t \in closure /\ plan.action[t] \in fails /\ Depth(t) >= n
      <4>1. t \in closure /\ plan.action[t] \in fails
        BY DEF Failing, Attempted
      <4>2. t \notin Level(n - 1)
        BY <3>1, <4>1 DEF ActionsOf
      <4>3. ~(Depth(t) <= n - 1) /\ Depth(t) \in Nat
        BY <3>3, <3>4, <4>1, <4>2
      <4> QED
        BY <3>4, <4>1, <4>3
    <3>8. Depth(s) = n
      <4>1. Depth(s) <= n /\ Depth(s) >= n /\ Depth(s) \in Nat
        BY <3>1, <3>2, <3>3, <3>4, <3>6, <3>7
      <4> QED
        BY <3>4, <4>1
    <3> DEFINE D == {Depth(t) : t \in Failing}
               E == {t \in Failing : Depth(t) = n}
    <3>9. Min(D) = n
      <4>1. D \in SUBSET Nat /\ n \in D /\ D # {} /\ \A y \in D : y >= n
        BY <3>3, <3>6, <3>7, <3>8
      <4> HIDE DEF D
      <4>2. Min(D) \in D /\ Min(D) <= n
        BY <4>1, MinIsLeast
      <4>3. Min(D) \in Nat /\ Min(D) >= n
        BY <4>1, <4>2
      <4> QED
        BY <3>4, <4>2, <4>3
    <3>10. Min(E) = s
      <4>1. s \in E /\ E # {}
        BY <3>6, <3>8
      <4>2. E \in SUBSET Nat
        BY <3>7, StepsAssumption, <2>s DEF TypeOK
      <4>3. \A u \in E : s <= u
        <5>1. TAKE u \in E
        <5>2. u \in Level(n)
          BY <3>3, <3>4, <3>7
        <5> QED
          BY <3>1, <3>7, <5>2
      <4> HIDE DEF E
      <4>4. Min(E) \in E /\ Min(E) <= s
        BY <4>1, <4>2, MinIsLeast
      <4>5. Min(E) \in Nat /\ s \in Nat /\ s <= Min(E)
        BY <4>1, <4>2, <4>3, <4>4
      <4> QED
        BY <4>4, <4>5
    <3>11. {t \in closure : Depth(t) <= n} = Level(n)
      BY <3>2, <3>3, <3>4
    <3>12. executed = ActionsOf({t \in closure : Depth(t) <= n})
      BY <3>1, <3>11
    <3>13. Failing # {}
      BY <3>6
    <3> DEFINE last  == Min({Depth(t) : t \in Failing})
               first == Min({t \in Failing : Depth(t) = last})
    <3>14. last = n
      BY <3>9
    <3>15. first = s
      BY <3>10, <3>14
    <3>16. Head(failures) = plan.action[first] /\ executed = ActionsOf({t \in closure : Depth(t) <= last})
      BY <3>1, <3>12, <3>14, <3>15
    <3> HIDE DEF D, E
    <3> QED
      BY <2>2, <3>13, <3>16 DEF FirstFailure
  <2> QED
    BY <2>1, <2>2
<1>2. Init => SafetyInv /\ ReportInv /\ FirstInv
  BY SafetyInit, ReportInit, FirstInit
<1>3. (SafetyInv /\ ReportInv /\ FirstInv) /\ [Next]_vars => (SafetyInv /\ ReportInv /\ FirstInv)'
  BY SafetyStep, ReportStep, FirstKept
<1> QED
  BY <1>1, <1>2, <1>3, PTL DEF Spec

=============================================================================
