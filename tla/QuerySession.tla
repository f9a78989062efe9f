---------------------------- MODULE QuerySession ----------------------------
(***************************************************************************)
(* The activity / retirement barrier of a query session                    *)
(* (crates/nia-query/src/session.rs).                                      *)
(*                                                                         *)
(* Every cache operation runs inside an activity.  An activity is counted  *)
(* once per outermost entry of a thread; deeper entries only bump the      *)
(* thread-local depth.  Retirement closes admission, waits until the count *)
(* is zero, and then owns the caches until its guard is dropped.           *)
(*                                                                         *)
(* Waiting on the condition variable activity_ready is explicit: a thread  *)
(* that found its condition false is in "asleep" and takes no step until a *)
(* notify_all empties the set (parking_lot condition variables do not wake *)
(* spuriously).  The code drops the mutex before it notifies when a guard  *)
(* is dropped, so these notifications are steps of their own.              *)
(***************************************************************************)
EXTENDS Naturals, FiniteSets

CONSTANTS
    Threads,    \* threads that share the session
    MaxDepth    \* bound on the nesting of one thread's activities

ASSUME ThreadsAssumption == IsFiniteSet(Threads)
ASSUME MaxDepthAssumption == MaxDepth \in Nat \ {0}

VARIABLES
    active,     \* QueryActivityState.active
    retiring,   \* QueryActivityState.retiring
    depth,      \* QUERY_ACTIVITY_DEPTHS of each thread, for this session
    pc,         \* where each thread is, see Locations
    asleep,     \* threads blocked in activity_ready.wait
    failed      \* internal_failure is set by one of the two guards

vars == <<active, retiring, depth, pc, asleep, failed>>

(***************************************************************************)
(* "run"    outside the barrier's code: idle, or inside an activity        *)
(* "admit"  in enter_activity's loop        "close"  in enter_retirement's *)
(*          first loop                      "drain"  in its second loop    *)
(* "retire" holding a QueryRetirementGuard  "notify" guard dropped, mutex  *)
(*          released, notify_all not called yet                            *)
(***************************************************************************)
Locations == {"run", "admit", "close", "drain", "retire", "notify"}

Init ==
    /\ active = 0
    /\ retiring = FALSE
    /\ depth = [t \in Threads |-> 0]
    /\ pc = [t \in Threads |-> "run"]
    /\ asleep = {}
    /\ failed = FALSE

Goto(t, l) == pc' = [pc EXCEPT ![t] = l]

-----------------------------------------------------------------------------
(* Faulty variants of the operations below.  PROJECT.json pairs each one   *)
(* with the property that must reject it; Next does not use them.          *)

(* Faulty: admission ignores a retirement in progress. *)
AdmitWhileRetiring(t) ==
    /\ pc[t] = "admit" /\ t \notin asleep
    /\ active' = active + 1
    /\ depth' = [depth EXCEPT ![t] = 1]
    /\ Goto(t, "run")
    /\ UNCHANGED <<retiring, asleep, failed>>

(* Faulty: every frame is counted, not only the outermost one. *)
EnterNestedCounting(t) ==
    /\ pc[t] = "run"
    /\ depth[t] \in 1 .. (MaxDepth - 1)
    /\ depth' = [depth EXCEPT ![t] = @ + 1]
    /\ active' = active + 1
    /\ UNCHANGED <<retiring, pc, asleep, failed>>

(* Faulty: the guard's Drop does not notify. *)
LeaveOutermostSilently(t) ==
    /\ pc[t] = "run" /\ depth[t] = 1
    /\ depth' = [depth EXCEPT ![t] = 0]
    /\ active' = active - 1
    /\ UNCHANGED <<retiring, pc, asleep, failed>>

-----------------------------------------------------------------------------
(* enter_activity *)

(* The thread is already inside an activity of this session: only the      *)
(* thread-local depth changes, also while a retirement waits.              *)
EnterNested(t) ==
    /\ pc[t] = "run"
    /\ depth[t] \in 1 .. (MaxDepth - 1)
    /\ depth' = [depth EXCEPT ![t] = @ + 1]
    /\ UNCHANGED <<active, retiring, pc, asleep, failed>>

RequestActivity(t) ==
    /\ pc[t] = "run" /\ depth[t] = 0
    /\ Goto(t, "admit")
    /\ UNCHANGED <<active, retiring, depth, asleep, failed>>

AdmitWait(t) ==
    /\ pc[t] = "admit" /\ t \notin asleep
    /\ retiring
    /\ asleep' = asleep \cup {t}
    /\ UNCHANGED <<active, retiring, depth, pc, failed>>

Admit(t) ==
    /\ pc[t] = "admit" /\ t \notin asleep
    /\ ~retiring
    /\ active' = active + 1
    /\ depth' = [depth EXCEPT ![t] = 1]
    /\ Goto(t, "run")
    /\ UNCHANGED <<retiring, asleep, failed>>

-----------------------------------------------------------------------------
(* Drop for QueryActivityGuard *)

LeaveNested(t) ==
    /\ pc[t] = "run" /\ depth[t] > 1
    /\ depth' = [depth EXCEPT ![t] = @ - 1]
    /\ UNCHANGED <<active, retiring, pc, asleep, failed>>

LeaveOutermost(t) ==
    /\ pc[t] = "run" /\ depth[t] = 1
    /\ depth' = [depth EXCEPT ![t] = 0]
    /\ IF active = 0               \* "query activity count underflow"
         THEN failed' = TRUE /\ UNCHANGED <<active, pc>>
         ELSE active' = active - 1 /\ Goto(t, "notify") /\ UNCHANGED failed
    /\ UNCHANGED <<retiring, asleep>>

(* activity_ready.notify_all() after the mutex was released. *)
NotifyAll(t) ==
    /\ pc[t] = "notify"
    /\ asleep' = {}
    /\ Goto(t, "run")
    /\ UNCHANGED <<active, retiring, depth, failed>>

-----------------------------------------------------------------------------
(* enter_retirement and Drop for QueryRetirementGuard *)

(* Inside an activity the call is refused with an error and changes        *)
(* nothing, so only threads outside every activity get past this line.     *)
RequestRetirement(t) ==
    /\ pc[t] = "run" /\ depth[t] = 0
    /\ Goto(t, "close")
    /\ UNCHANGED <<active, retiring, depth, asleep, failed>>

CloseWait(t) ==
    /\ pc[t] = "close" /\ t \notin asleep
    /\ retiring
    /\ asleep' = asleep \cup {t}
    /\ UNCHANGED <<active, retiring, depth, pc, failed>>

(* Sets retiring, notifies, and tests the count without releasing the      *)
(* mutex in between.                                                       *)
Close(t) ==
    /\ pc[t] = "close" /\ t \notin asleep
    /\ ~retiring
    /\ retiring' = TRUE
    /\ \/ active = 0 /\ asleep' = {} /\ Goto(t, "retire")
       \/ active > 0 /\ asleep' = {t} /\ Goto(t, "drain")
    /\ UNCHANGED <<active, depth, failed>>

DrainWait(t) ==
    /\ pc[t] = "drain" /\ t \notin asleep
    /\ active > 0
    /\ asleep' = asleep \cup {t}
    /\ UNCHANGED <<active, retiring, depth, pc, failed>>

Drained(t) ==
    /\ pc[t] = "drain" /\ t \notin asleep
    /\ active = 0
    /\ Goto(t, "retire")
    /\ UNCHANGED <<active, retiring, depth, asleep, failed>>

Release(t) ==
    /\ pc[t] = "retire"
    /\ IF retiring
         THEN retiring' = FALSE /\ Goto(t, "notify") /\ UNCHANGED failed
         ELSE failed' = TRUE /\ Goto(t, "run") /\ UNCHANGED retiring
                                \* "query retirement guard released twice"
    /\ UNCHANGED <<active, depth, asleep>>

-----------------------------------------------------------------------------
Step(t) ==
    \/ EnterNested(t) \/ RequestActivity(t) \/ AdmitWait(t) \/ Admit(t)
    \/ LeaveNested(t) \/ LeaveOutermost(t) \/ NotifyAll(t)
    \/ RequestRetirement(t) \/ CloseWait(t) \/ Close(t)
    \/ DrainWait(t) \/ Drained(t) \/ Release(t)

Next == \E t \in Threads : Step(t)

Spec == Init /\ [][Next]_vars

-----------------------------------------------------------------------------
(* Every variable has its type. *)
TypeOK ==
    /\ active \in Nat
    /\ retiring \in BOOLEAN
    /\ depth \in [Threads -> Nat]
    /\ pc \in [Threads -> Locations]
    /\ asleep \subseteq Threads
    /\ failed \in BOOLEAN

InActivity == {t \in Threads : depth[t] > 0}

(* The shared count is the number of threads inside an activity, however   *)
(* deep each of them is nested (session.rs, "Activity is counted once per  *)
(* outermost thread-local entry"); no thread inside one waits here.        *)
ActivityCounted ==
    /\ active = Cardinality(InActivity)
    /\ \A t \in InActivity : pc[t] = "run"

(* While a retirement guard exists its holder is alone: no other thread is *)
(* inside an activity, draining or holding a guard, and admission is       *)
(* closed.  This is what lets retirement remove slots and edges without    *)
(* taking any other lock for the whole transaction.                        *)
RetirementExclusive ==
    \A t \in Threads : pc[t] = "retire" =>
        /\ retiring
        /\ InActivity = {}
        /\ \A u \in Threads \ {t} : pc[u] \notin {"drain", "retire"}

(* The two Drop implementations never meet the impossible counts they test *)
(* for, so they never poison the session.                                  *)
NoBarrierFailure == ~failed

MustWait(t) ==
    \/ pc[t] \in {"admit", "close"} /\ retiring
    \/ pc[t] = "drain" /\ active > 0

(* A sleeping thread sleeps for a reason that still holds, or somebody is  *)
(* about to call notify_all: no wake-up is lost between dropping the mutex *)
(* and notifying.                                                          *)
NoLostWakeup ==
    \A t \in asleep : MustWait(t) \/ \E u \in Threads : pc[u] = "notify"

=============================================================================
