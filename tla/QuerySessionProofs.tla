------------------------- MODULE QuerySessionProofs -------------------------
(***************************************************************************)
(* For every finite set of threads and every nesting bound, the barrier of *)
(* QuerySession is exclusive, its count is exact, its guards never fail,   *)
(* and it loses no wake-up; and for any number of owners, workers and      *)
(* tasks a batch is over before a retirement begins.                       *)
(***************************************************************************)
EXTENDS QuerySessionBatch, FiniteSetTheorems, TLAPS

(* Whoever passed the first loop of enter_retirement owns the flag alone,  *)
(* and the count stays at zero once its holder has seen it.                *)
FlagOwned ==
    \A t \in Threads : pc[t] \in {"drain", "retire"} =>
        /\ retiring
        /\ pc[t] = "retire" => active = 0
        /\ \A u \in Threads \ {t} : pc[u] \notin {"drain", "retire"}

(* Only threads inside one of the three wait loops sleep. *)
SleepersWait == \A t \in asleep : pc[t] \in {"admit", "close", "drain"}

IInv ==
    /\ TypeOK
    /\ ActivityCounted
    /\ FlagOwned
    /\ NoBarrierFailure
    /\ SleepersWait
    /\ NoLostWakeup

-----------------------------------------------------------------------------
(* The set of threads inside an activity is finite and its size a natural. *)
LEMMA InActivityFinite ==
    /\ IsFiniteSet(InActivity)
    /\ Cardinality(InActivity) \in Nat
    /\ Cardinality(InActivity) = 0 <=> InActivity = {}
  BY ThreadsAssumption, FS_Subset, FS_CardinalityType, FS_EmptySet DEF InActivity

(* The initial state satisfies the invariant. *)
LEMMA InitIInv == Init => IInv
<1> SUFFICES ASSUME Init PROVE IInv
  OBVIOUS
<1>1. InActivity = {}
  BY DEF Init, InActivity
<1>2. ActivityCounted
  BY <1>1, FS_EmptySet DEF Init, ActivityCounted
<1> QED
  BY <1>2 DEF Init, IInv, TypeOK, Locations, FlagOwned, NoBarrierFailure,
              SleepersWait, NoLostWakeup

(* A step that leaves every depth's sign and the count alone keeps the     *)
(* count exact.                                                            *)
LEMMA CountKept ==
    ASSUME ActivityCounted, UNCHANGED active, InActivity' = InActivity,
           \A t \in InActivity : pc'[t] = "run"
    PROVE  ActivityCounted'
  BY DEF ActivityCounted

(* Every step preserves the invariant. *)
LEMMA NextIInv == IInv /\ [Next]_vars => IInv'
<1> SUFFICES ASSUME IInv, [Next]_vars PROVE IInv'
  OBVIOUS
<1> USE DEF IInv, TypeOK, Locations
<1>a. CASE UNCHANGED vars
  BY <1>a DEF vars, ActivityCounted, InActivity, FlagOwned, NoBarrierFailure,
              SleepersWait, NoLostWakeup, MustWait
<1>b. ASSUME NEW t \in Threads, Step(t) PROVE IInv'
  <2>1. CASE EnterNested(t)
    <3> USE <2>1 DEF EnterNested
    <3>1. TypeOK'
      BY MaxDepthAssumption
    <3>2. ActivityCounted'
      <4>1. InActivity' = InActivity
        BY MaxDepthAssumption DEF InActivity
      <4> QED BY <4>1, CountKept DEF ActivityCounted
    <3> QED
      BY <3>1, <3>2 DEF FlagOwned, NoBarrierFailure, SleepersWait,
                        NoLostWakeup, MustWait
  <2>2. CASE RequestActivity(t)
    <3> USE <2>2 DEF RequestActivity, Goto
    <3>1. TypeOK'
      OBVIOUS
    <3>2. ActivityCounted'
      <4>1. InActivity' = InActivity
        BY DEF InActivity
      <4> QED BY <4>1, CountKept DEF ActivityCounted, InActivity
    <3>3. NoLostWakeup' /\ SleepersWait'
      BY DEF NoLostWakeup, MustWait, SleepersWait
    <3> QED
      BY <3>1, <3>2, <3>3 DEF FlagOwned, NoBarrierFailure
  <2>3. CASE AdmitWait(t)
    <3> USE <2>3 DEF AdmitWait
    <3>1. ActivityCounted'
      <4>1. InActivity' = InActivity
        BY DEF InActivity
      <4> QED BY <4>1, CountKept DEF ActivityCounted
    <3> QED
      BY <3>1 DEF FlagOwned, NoBarrierFailure, SleepersWait, NoLostWakeup, MustWait
  <2>4. CASE Admit(t)
    <3> USE <2>4 DEF Admit, Goto
    <3>1. TypeOK'
      OBVIOUS
    <3>2. ActivityCounted'
      <4>1. InActivity' = InActivity \cup {t} /\ t \notin InActivity
        BY DEF InActivity, ActivityCounted
      <4>2. Cardinality(InActivity') = Cardinality(InActivity) + 1
        BY <4>1, FS_AddElement, InActivityFinite
      <4> QED BY <4>1, <4>2 DEF ActivityCounted
    <3>3. FlagOwned'
      BY DEF FlagOwned
    <3> QED
      BY <3>1, <3>2, <3>3 DEF NoBarrierFailure, SleepersWait, NoLostWakeup, MustWait
  <2>5. CASE LeaveNested(t)
    <3> USE <2>5 DEF LeaveNested
    <3>1. TypeOK'
      OBVIOUS
    <3>2. ActivityCounted'
      <4>1. InActivity' = InActivity
        BY DEF InActivity
      <4> QED BY <4>1, CountKept DEF ActivityCounted
    <3> QED
      BY <3>1, <3>2 DEF FlagOwned, NoBarrierFailure, SleepersWait,
                        NoLostWakeup, MustWait
  <2>6. CASE LeaveOutermost(t)
    <3> USE <2>6 DEF LeaveOutermost, Goto
    <3>1. t \in InActivity /\ active # 0
      BY InActivityFinite DEF InActivity, ActivityCounted
    <3>2. TypeOK'
      BY <3>1
    <3>3. ActivityCounted'
      <4>1. InActivity' = InActivity \ {t}
        BY DEF InActivity
      <4>2. Cardinality(InActivity') = Cardinality(InActivity) - 1
        BY <3>1, <4>1, FS_RemoveElement, InActivityFinite
      <4> QED BY <3>1, <4>1, <4>2, InActivityFinite DEF ActivityCounted, InActivity
    <3>4. FlagOwned'
      BY <3>1 DEF FlagOwned
    <3>5. NoLostWakeup' /\ SleepersWait'
      BY <3>1 DEF NoLostWakeup, SleepersWait
    <3> QED
      BY <3>1, <3>2, <3>3, <3>4, <3>5 DEF NoBarrierFailure
  <2>7. CASE NotifyAll(t)
    <3> USE <2>7 DEF NotifyAll, Goto
    <3>1. ActivityCounted'
      <4>1. InActivity' = InActivity
        BY DEF InActivity
      <4> QED BY <4>1, CountKept DEF ActivityCounted
    <3> QED
      BY <3>1 DEF FlagOwned, NoBarrierFailure, SleepersWait, NoLostWakeup
  <2>8. CASE RequestRetirement(t)
    <3> USE <2>8 DEF RequestRetirement, Goto
    <3>1. ActivityCounted'
      <4>1. InActivity' = InActivity
        BY DEF InActivity
      <4> QED BY <4>1, CountKept DEF ActivityCounted, InActivity
    <3>2. NoLostWakeup' /\ SleepersWait'
      BY DEF NoLostWakeup, MustWait, SleepersWait
    <3> QED
      BY <3>1, <3>2 DEF FlagOwned, NoBarrierFailure
  <2>9. CASE CloseWait(t)
    <3> USE <2>9 DEF CloseWait
    <3>1. ActivityCounted'
      <4>1. InActivity' = InActivity
        BY DEF InActivity
      <4> QED BY <4>1, CountKept DEF ActivityCounted
    <3> QED
      BY <3>1 DEF FlagOwned, NoBarrierFailure, SleepersWait, NoLostWakeup, MustWait
  <2>10. CASE Close(t)
    <3> USE <2>10 DEF Close, Goto
    <3>1. TypeOK'
      OBVIOUS
    <3>2. ActivityCounted'
      <4>1. InActivity' = InActivity
        BY DEF InActivity
      <4> QED BY <4>1, CountKept DEF ActivityCounted, InActivity
    <3>3. FlagOwned'
      BY DEF FlagOwned
    <3>4. NoLostWakeup' /\ SleepersWait'
      BY DEF NoLostWakeup, MustWait, SleepersWait
    <3> QED
      BY <3>1, <3>2, <3>3, <3>4 DEF NoBarrierFailure
  <2>11. CASE DrainWait(t)
    <3> USE <2>11 DEF DrainWait
    <3>1. ActivityCounted'
      <4>1. InActivity' = InActivity
        BY DEF InActivity
      <4> QED BY <4>1, CountKept DEF ActivityCounted
    <3> QED
      BY <3>1 DEF FlagOwned, NoBarrierFailure, SleepersWait, NoLostWakeup, MustWait
  <2>12. CASE Drained(t)
    <3> USE <2>12 DEF Drained, Goto
    <3>1. TypeOK'
      OBVIOUS
    <3>2. ActivityCounted'
      <4>1. InActivity' = InActivity
        BY DEF InActivity
      <4> QED BY <4>1, CountKept DEF ActivityCounted, InActivity
    <3>3. FlagOwned'
      BY DEF FlagOwned
    <3>4. NoLostWakeup' /\ SleepersWait'
      BY DEF NoLostWakeup, MustWait, SleepersWait
    <3> QED
      BY <3>1, <3>2, <3>3, <3>4 DEF NoBarrierFailure
  <2>13. CASE Release(t)
    <3> USE <2>13 DEF Release, Goto
    <3>1. retiring
      BY DEF FlagOwned
    <3>2. TypeOK'
      BY <3>1
    <3>3. ActivityCounted'
      <4>1. InActivity' = InActivity
        BY DEF InActivity
      <4> QED BY <4>1, CountKept DEF ActivityCounted, InActivity
    <3>4. FlagOwned'
      BY <3>1 DEF FlagOwned
    <3>5. NoLostWakeup' /\ SleepersWait'
      BY <3>1 DEF NoLostWakeup, SleepersWait
    <3> QED
      BY <3>1, <3>2, <3>3, <3>4, <3>5 DEF NoBarrierFailure
  <2> QED
    BY <1>b, <2>1, <2>2, <2>3, <2>4, <2>5, <2>6, <2>7, <2>8, <2>9, <2>10,
       <2>11, <2>12, <2>13 DEF Step
<1> QED
  BY <1>a, <1>b DEF Next

(* The invariant implies the properties the runs check. *)
LEMMA IInvImplies == IInv => TypeOK /\ ActivityCounted /\ RetirementExclusive
                             /\ NoBarrierFailure /\ NoLostWakeup
<1> SUFFICES ASSUME IInv PROVE RetirementExclusive
  BY DEF IInv
<1> SUFFICES ASSUME NEW t \in Threads, pc[t] = "retire"
             PROVE  /\ retiring
                    /\ InActivity = {}
                    /\ \A u \in Threads \ {t} : pc[u] \notin {"drain", "retire"}
  BY DEF RetirementExclusive
<1>1. active = 0
  BY DEF IInv, FlagOwned
<1>2. InActivity = {}
  BY <1>1, InActivityFinite DEF IInv, ActivityCounted
<1> QED
  BY <1>2 DEF IInv, FlagOwned

(* The barrier's variables keep their types. *)
THEOREM TypeCorrect == Spec => []TypeOK
<1>1. Init => IInv
  BY InitIInv
<1>2. IInv /\ [Next]_vars => IInv'
  BY NextIInv
<1>3. IInv => TypeOK
  BY IInvImplies
<1> QED
  BY <1>1, <1>2, <1>3, PTL DEF Spec

(* enter_retirement and the two Drop implementations give a retirement the *)
(* session for itself: no activity, no second retirement.                  *)
THEOREM RetirementIsExclusive == Spec => []RetirementExclusive
<1>1. Init => IInv
  BY InitIInv
<1>2. IInv /\ [Next]_vars => IInv'
  BY NextIInv
<1>3. IInv => RetirementExclusive
  BY IInvImplies
<1> QED
  BY <1>1, <1>2, <1>3, PTL DEF Spec

(* QueryActivityState.active is exactly the number of threads inside an    *)
(* activity, and the count checks of the Drop implementations never fail.  *)
THEOREM CountIsExact == Spec => [](ActivityCounted /\ NoBarrierFailure)
<1>1. Init => IInv
  BY InitIInv
<1>2. IInv /\ [Next]_vars => IInv'
  BY NextIInv
<1>3. IInv => ActivityCounted /\ NoBarrierFailure
  BY IInvImplies
<1> QED
  BY <1>1, <1>2, <1>3, PTL DEF Spec

(* Notifying after the mutex was released loses no wake-up. *)
THEOREM WakeupsAreKept == Spec => []NoLostWakeup
<1>1. Init => IInv
  BY InitIInv
<1>2. IInv /\ [Next]_vars => IInv'
  BY NextIInv
<1>3. IInv => NoLostWakeup
  BY IInvImplies
<1> QED
  BY <1>1, <1>2, <1>3, PTL DEF Spec

-----------------------------------------------------------------------------
(* Batches: the barrier's own invariant carries over, and an owner with    *)
(* unfinished tasks is inside an activity.                                 *)

BatchTypeOK ==
    /\ todo \in [Threads -> Nat]
    /\ serves \in [Threads -> Threads \cup {Nobody}]

(* Tasks that are queued or running have an owner that keeps its lease,    *)
(* and owners are not workers.                                             *)
Leases ==
    /\ \A o \in Threads : todo[o] > 0 => o \notin Workers /\ depth[o] > 0
    /\ \A w \in Threads : serves[w] # Nobody =>
          /\ w \in Workers
          /\ serves[w] \notin Workers /\ depth[serves[w]] > 0

BatchIInv == IInv /\ BatchTypeOK /\ Leases

-----------------------------------------------------------------------------
(* A step of the barrier changes the depth of its own thread only. *)
LEMMA StepIsLocal ==
    ASSUME TypeOK, NEW t \in Threads, Step(t), NEW u \in Threads, u # t
    PROVE  depth'[u] = depth[u]
  BY DEF TypeOK, Step, EnterNested, RequestActivity, AdmitWait, Admit, LeaveNested,
         LeaveOutermost, NotifyAll, RequestRetirement, CloseWait, Close,
         DrainWait, Drained, Release

(* Batches add nothing to what the barrier's own steps do. *)
LEMMA SessionKept == BatchIInv /\ [BatchNext]_allVars => IInv'
<1> SUFFICES ASSUME BatchIInv, [BatchNext]_allVars PROVE IInv'
  OBVIOUS
<1>1. [Next]_vars
  BY DEF BatchNext, allVars, SessionStep, RunTasks, OwnerRunsTask, TakeTask,
         FinishTask, Next
<1> QED
  BY <1>1, NextIInv DEF BatchIInv

(* Initially there is no task. *)
LEMMA BatchInitial == BatchInit => BatchIInv
  BY InitIInv DEF BatchInit, BatchIInv, BatchTypeOK, Leases

(* Every step keeps the leases. *)
LEMMA BatchPreserved == BatchIInv /\ [BatchNext]_allVars => BatchIInv'
<1> SUFFICES ASSUME BatchIInv, [BatchNext]_allVars PROVE BatchIInv'
  OBVIOUS
<1>0. IInv'
  BY SessionKept
<1>t. depth \in [Threads -> Nat] /\ TypeOK
  BY DEF BatchIInv, IInv, TypeOK
<1> USE WorkersAssumption, BatchSizeAssumption DEF BatchIInv, BatchTypeOK
<1>1. CASE UNCHANGED allVars
  BY <1>0, <1>1 DEF allVars, vars, batchVars, Leases
<1>2. ASSUME NEW t \in Threads, SessionStep(t) PROVE BatchIInv'
  <2>1. BatchTypeOK'
    BY <1>2 DEF SessionStep, batchVars
  <2>0. Step(t)
    BY <1>2 DEF SessionStep
  <2>2. \A o \in Threads : o # t => depth'[o] = depth[o]
    BY <1>t, <2>0, StepIsLocal
  <2>3. todo' = todo /\ serves' = serves
    BY <1>2 DEF SessionStep, batchVars
  <2>4. \A o \in Threads : todo[o] > 0 => o \notin Workers /\ depth'[o] > 0
    <3> SUFFICES ASSUME NEW o \in Threads, todo[o] > 0
                 PROVE  o \notin Workers /\ depth'[o] > 0
      OBVIOUS
    <3>1. o \notin Workers /\ depth[o] > 0 /\ o # t
      BY <1>2 DEF Leases, SessionStep, MayStep, Joining
    <3> QED BY <3>1, <2>2
  <2>5. \A w \in Threads : serves[w] # Nobody =>
            w \in Workers /\ serves[w] \notin Workers /\ depth'[serves[w]] > 0
    <3> SUFFICES ASSUME NEW w \in Threads, serves[w] # Nobody
                 PROVE  w \in Workers /\ serves[w] \notin Workers /\ depth'[serves[w]] > 0
      OBVIOUS
    <3>1. /\ w \in Workers /\ serves[w] \in Threads
          /\ serves[w] \notin Workers /\ depth[serves[w]] > 0
      BY DEF Leases
    <3>2. serves[w] # t
      BY <1>2, <3>1 DEF SessionStep, MayStep, Joining
    <3> QED BY <3>1, <3>2, <2>2
  <2> QED
    BY <1>0, <2>1, <2>3, <2>4, <2>5 DEF Leases
<1>3. ASSUME NEW t \in Threads, RunTasks(t) PROVE BatchIInv'
  <2>1. BatchTypeOK'
    BY <1>3 DEF RunTasks
  <2>2. Leases'
    BY <1>3 DEF RunTasks, Leases, vars
  <2> QED
    BY <1>0, <2>1, <2>2
<1>4. ASSUME NEW t \in Threads, OwnerRunsTask(t) PROVE BatchIInv'
  <2>1. BatchTypeOK'
    BY <1>4 DEF OwnerRunsTask
  <2>2. Leases'
    BY <1>4 DEF OwnerRunsTask, Leases, vars
  <2> QED
    BY <1>0, <2>1, <2>2
<1>5. ASSUME NEW w \in Workers, NEW o \in Threads, TakeTask(w, o) PROVE BatchIInv'
  <2>1. BatchTypeOK'
    BY <1>5 DEF TakeTask
  <2>2. Leases'
    BY <1>5 DEF TakeTask, Leases, vars
  <2> QED
    BY <1>0, <2>1, <2>2
<1>6. ASSUME NEW w \in Workers, FinishTask(w) PROVE BatchIInv'
  <2>1. BatchTypeOK'
    BY <1>6 DEF FinishTask
  <2>2. Leases'
    BY <1>6 DEF FinishTask, Leases, vars
  <2> QED
    BY <1>0, <2>1, <2>2
<1> QED
  BY <1>1, <1>2, <1>3, <1>4, <1>5, <1>6 DEF BatchNext

-----------------------------------------------------------------------------
(* No task of any batch is queued or running while a retirement guard      *)
(* exists: run_tasks keeps the owner's activity open until its tasks have  *)
(* ended, and the barrier waits for that activity.                         *)
THEOREM BatchesPrecedeRetirement == BatchSpec => []TasksEndBeforeRetirement
<1>1. BatchIInv => TasksEndBeforeRetirement
  <2> SUFFICES ASSUME BatchIInv, NEW r \in Threads, pc[r] = "retire", NEW t \in Threads
               PROVE  todo[t] = 0 /\ serves[t] = Nobody
    BY DEF TasksEndBeforeRetirement
  <2>1. active = 0
    BY DEF BatchIInv, IInv, FlagOwned
  <2>2. InActivity = {}
    BY <2>1, InActivityFinite DEF BatchIInv, IInv, ActivityCounted
  <2>3. \A u \in Threads : ~(depth[u] > 0)
    BY <2>2 DEF InActivity
  <2> QED
    BY <2>3 DEF BatchIInv, BatchTypeOK, Leases
<1> QED
  BY <1>1, BatchInitial, BatchPreserved, PTL DEF BatchSpec

(* Batches do not weaken the barrier: a retirement is still alone. *)
THEOREM BatchedRetirementIsExclusive == BatchSpec => []RetirementExclusive
<1>1. BatchIInv => RetirementExclusive
  BY IInvImplies DEF BatchIInv
<1> QED
  BY <1>1, BatchInitial, BatchPreserved, PTL DEF BatchSpec

=============================================================================
