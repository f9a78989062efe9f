------------------------- MODULE MemoryBudgetProofs -------------------------
(***************************************************************************)
(* For every machine and every finite set of threads, the memory budget    *)
(* counts its permits exactly, keeps the lanes within half of the memory,  *)
(* and leaves no thread asleep without another one that will wake it.      *)
(***************************************************************************)
EXTENDS MemoryBudget, FiniteSetTheorems, TLAPS

(* Threads inside acquire or Drop hold no permit, and only threads inside  *)
(* acquire sleep.                                                          *)
Places ==
    /\ \A t \in Threads : pc[t] # "run" => depth[t] = 0
    /\ \A t \in asleep : pc[t] = "acquire"

IInv == TypeOK /\ PermitsCounted /\ Places /\ SleepersHaveWaker

-----------------------------------------------------------------------------
(* Rounding down twice never exceeds the memory it divides. *)
LEMMA LanesRoundDown ==
    ASSUME NEW limit \in Nat, NEW lane \in Nat \ {0}, NEW n \in Nat,
           n <= (limit \div 2) \div lane
    PROVE  2 * lane * n <= limit
<1> DEFINE half == limit \div 2
           q == half \div lane
<1>1. half \in Nat /\ 2 * half <= limit
  OBVIOUS
<1>2. q \in Nat /\ lane * q <= half
  BY <1>1
<1> HIDE DEF q, half
<1>3. n <= q
  BY DEF q, half
<1>4. lane * n <= lane * q
  BY <1>2, <1>3
<1>5. lane * n \in Nat /\ 2 * lane * n = 2 * (lane * n)
  OBVIOUS
<1> QED
  BY <1>1, <1>2, <1>4, <1>5

(* There is always one lane, and a second one only where half of a known   *)
(* limit has room for it.                                                  *)
LEMMA CapacityBounds ==
    /\ Capacity \in Nat \ {0}
    /\ Capacity > 1 => Limit \in Nat /\ Capacity <= (Limit \div 2) \div LaneMemory
<1>1. CASE Limit = Unknown
  BY <1>1, MachineAssumption DEF Capacity, memory_task_capacity, AtMost, AtLeast
<1>2. CASE Limit \in Nat
  <2>1. (Limit \div 2) \div LaneMemory \in Nat
    BY <1>2, MachineAssumption
  <2> DEFINE q == (Limit \div 2) \div LaneMemory
  <2>2. Capacity = AtLeast(AtMost(AtMost(AtLeast(Cpus, 1), MaxLanes), AtLeast(q, 1)), 1)
    BY <1>2, MachineAssumption DEF Capacity, memory_task_capacity
  <2> HIDE DEF q
  <2>3. q \in Nat
    BY <2>1 DEF q
  <2>4. Capacity \in Nat \ {0} /\ (Capacity > 1 => Capacity <= q)
    BY <2>2, <2>3, MachineAssumption DEF AtMost, AtLeast
  <2> QED
    BY <1>2, <2>4 DEF q
<1> QED
  BY <1>1, <1>2, MachineAssumption

(* The holders are a finite set. *)
LEMMA HoldersFinite ==
    /\ IsFiniteSet(Holders)
    /\ Cardinality(Holders) \in Nat
    /\ Cardinality(Holders) = 0 <=> Holders = {}
  BY ThreadsAssumption, FS_Subset, FS_CardinalityType, FS_EmptySet DEF Holders

(* The initial state satisfies the invariant. *)
LEMMA InitIInv == Init => IInv
<1> SUFFICES ASSUME Init PROVE IInv
  OBVIOUS
<1>1. Holders = {}
  BY DEF Init, Holders
<1>2. PermitsCounted
  BY <1>1, FS_EmptySet DEF Init, PermitsCounted
<1>3. TypeOK
  <2>1. Capacity \in Nat
    BY CapacityBounds
  <2>2. active \in 0 .. Capacity
    BY <2>1 DEF Init
  <2> QED
    BY <2>2 DEF Init, TypeOK
<1>4. Places /\ SleepersHaveWaker
  BY DEF Init, Places, SleepersHaveWaker
<1> QED
  BY <1>2, <1>3, <1>4 DEF IInv

(* Every step preserves the invariant. *)
LEMMA NextIInv == IInv /\ [Next]_vars => IInv'
<1> SUFFICES ASSUME IInv, [Next]_vars PROVE IInv'
  OBVIOUS
<1> USE DEF IInv, TypeOK
<1>a. CASE UNCHANGED vars
  BY <1>a DEF vars, PermitsCounted, Holders, Places, SleepersHaveWaker
<1>b. ASSUME NEW t \in Threads, Request(t) PROVE IInv'
  <2> USE <1>b DEF Request, Goto
  <2>1. Holders' = Holders
    BY DEF Holders
  <2>2. SleepersHaveWaker'
    BY <2>1 DEF SleepersHaveWaker
  <2> QED
    BY <2>1, <2>2 DEF PermitsCounted, Places
<1>c. ASSUME NEW t \in Threads, AcquireNested(t) PROVE IInv'
  <2> USE <1>c DEF AcquireNested
  <2>1. Holders' = Holders
    BY MaxDepthAssumption DEF Holders
  <2>2. TypeOK'
    BY MaxDepthAssumption
  <2> QED
    BY <2>1, <2>2 DEF PermitsCounted, Places, SleepersHaveWaker
<1>d. ASSUME NEW t \in Threads, NEW available \in Available, AcquireWait(t, available)
      PROVE  IInv'
  <2> USE <1>d DEF AcquireWait
  <2>1. active > 0
    BY CapacityBounds DEF Refused, memory_pressure_allows
  <2>2. Holders # {} /\ Holders' = Holders
    BY <2>1, HoldersFinite DEF PermitsCounted, Holders
  <2> QED
    BY <2>2 DEF PermitsCounted, Places, SleepersHaveWaker
<1>e. ASSUME NEW t \in Threads, NEW available \in Available, Acquire(t, available)
      PROVE  IInv'
  <2> USE <1>e DEF Acquire, Goto
  <2>1. active' \in 0 .. Capacity
    BY CapacityBounds DEF Refused
  <2>2. Holders' = Holders \cup {t} /\ t \notin Holders
    BY DEF Holders, Places
  <2>3. Cardinality(Holders') = Cardinality(Holders) + 1
    BY <2>2, FS_AddElement, HoldersFinite
  <2>4. PermitsCounted'
    BY <2>3 DEF PermitsCounted
  <2> QED
    BY <2>1, <2>2, <2>4 DEF Places, SleepersHaveWaker
<1>f. ASSUME NEW t \in Threads, ReleaseNested(t) PROVE IInv'
  <2> USE <1>f DEF ReleaseNested
  <2>1. Holders' = Holders
    BY DEF Holders
  <2>2. TypeOK'
    OBVIOUS
  <2> QED
    BY <2>1, <2>2 DEF PermitsCounted, Places, SleepersHaveWaker
<1>g. ASSUME NEW t \in Threads, Release(t) PROVE IInv'
  <2> USE <1>g DEF Release, Goto
  <2>1. t \in Holders /\ active # 0
    BY HoldersFinite DEF Holders, PermitsCounted
  <2>2. active' = active - 1 /\ active' \in 0 .. Capacity
    BY <2>1, CapacityBounds
  <2>3. Holders' = Holders \ {t}
    BY DEF Holders
  <2>4. Cardinality(Holders') = Cardinality(Holders) - 1
    BY <2>1, <2>3, FS_RemoveElement, HoldersFinite
  <2>5. PermitsCounted'
    BY <2>1, <2>2, <2>4 DEF PermitsCounted
  <2> QED
    BY <2>1, <2>2, <2>5 DEF Places, SleepersHaveWaker
<1>h. ASSUME NEW t \in Threads, NotifyAll(t) PROVE IInv'
  <2> USE <1>h DEF NotifyAll, Goto
  <2>1. Holders' = Holders
    BY DEF Holders
  <2> QED
    BY <2>1 DEF PermitsCounted, Places, SleepersHaveWaker
<1> QED
  BY <1>a, <1>b, <1>c, <1>d, <1>e, <1>f, <1>g, <1>h DEF Next, Step

(* The invariant holds in every reachable state. *)
LEMMA Invariant == Spec => []IInv
  BY InitIInv, NextIInv, PTL DEF Spec

-----------------------------------------------------------------------------
(* acquire and Drop keep every variable in its type; in particular the     *)
(* count never exceeds the capacity.                                       *)
THEOREM TypeCorrect == Spec => []TypeOK
<1>1. IInv => TypeOK
  BY DEF IInv
<1> QED
  BY <1>1, Invariant, PTL

(* The count of MemoryBudgetState is exactly the number of threads that    *)
(* hold a permit, and Drop never meets an underflow.                       *)
THEOREM CountIsExact == Spec => []PermitsCounted
<1>1. IInv => PermitsCounted
  BY DEF IInv
<1> QED
  BY <1>1, Invariant, PTL

(* Concurrent lanes fit into half of the memory limit, on every machine.   *)
THEOREM LanesFit == Spec => []LanesFitMemory
<1>1. IInv => LanesFitMemory
  <2> SUFFICES ASSUME IInv, Cardinality(Holders) > 1
               PROVE  Limit # Unknown /\ 2 * LaneMemory * Cardinality(Holders) <= Limit
    BY DEF LanesFitMemory
  <2>1. Cardinality(Holders) \in Nat /\ Cardinality(Holders) <= Capacity
    BY HoldersFinite DEF IInv, TypeOK, PermitsCounted
  <2>2. Limit \in Nat /\ Capacity <= (Limit \div 2) \div LaneMemory
    BY <2>1, CapacityBounds
  <2>3. Cardinality(Holders) <= (Limit \div 2) \div LaneMemory
    BY <2>1, <2>2, CapacityBounds, MachineAssumption
  <2> QED
    BY <2>1, <2>2, <2>3, LanesRoundDown, MachineAssumption
<1> QED
  BY <1>1, Invariant, PTL

(* Whoever sleeps in acquire has a holder, or a thread about to notify, to *)
(* wait for, whatever the memory readings were.                            *)
THEOREM NobodySleepsAlone == Spec => []SleepersHaveWaker
<1>1. IInv => SleepersHaveWaker
  BY DEF IInv
<1> QED
  BY <1>1, Invariant, PTL

=============================================================================
