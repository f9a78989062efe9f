------------------------ MODULE QueryWaitGraphProofs ------------------------
(***************************************************************************)
(* For every set of nodes and every finite set of threads, blocked queries *)
(* never wait in a circle, and the reference counts of the wait-for graph  *)
(* are exact.                                                              *)
(***************************************************************************)
EXTENDS QueryWaitGraph, FiniteSetTheorems, TLAPS

(* No non-empty set of nodes in which every node waits for one of the set. *)
Acyclic(e) ==
    \A S \in SUBSET Nodes : S # {} => \E n \in S : \A m \in S : e[n][m] = 0

Graphs == [Nodes -> [Nodes -> Nat]]

-----------------------------------------------------------------------------
(* A node reaches itself, and what it reaches is closed under waiting. *)
LEMMA ReachBasics ==
    ASSUME NEW e \in Graphs, NEW n \in Nodes
    PROVE  n \in Reach(e, n) /\ Reach(e, n) \in SUBSET Nodes /\ Closed(e, Reach(e, n))
  BY DEF Reach, Closed

(* Adding an edge whose target does not reach its source closes no cycle:  *)
(* a cyclic set would also be cyclic, before the step, on the part of it   *)
(* that the target reaches.                                                *)
LEMMA AddEdgeAcyclic ==
    ASSUME NEW e \in Graphs, NEW from \in Nodes, NEW to \in Nodes,
           Acyclic(e), from \notin Reach(e, to)
    PROVE  Acyclic([e EXCEPT ![from][to] = @ + 1])
<1> DEFINE f == [e EXCEPT ![from][to] = @ + 1]
           R == Reach(e, to)
<1>1. f \in Graphs
  BY DEF Graphs
<1>2. ASSUME NEW a \in Nodes, NEW b \in Nodes, ~(a = from /\ b = to)
      PROVE  f[a][b] = e[a][b]
  BY <1>2 DEF Graphs
<1>3. SUFFICES ASSUME NEW S \in SUBSET Nodes, S # {},
                      \A n \in S : \E m \in S : f[n][m] # 0
               PROVE  FALSE
  BY DEF Acyclic
<1>4. to \in R /\ R \in SUBSET Nodes /\ Closed(e, R)
  BY ReachBasics
<1>5. from \in S /\ to \in S
  <2>1. SUFFICES ASSUME ~(from \in S /\ to \in S) PROVE FALSE
    OBVIOUS
  <2>2. \A n \in S : \E m \in S : e[n][m] # 0
    BY <1>2, <1>3, <2>1
  <2> QED
    BY <1>3, <2>2 DEF Acyclic
<1>6. S \cap R # {} /\ S \cap R \in SUBSET Nodes
  BY <1>4, <1>5
<1>7. \A n \in S \cap R : \E m \in S \cap R : e[n][m] # 0
  <2>1. TAKE n \in S \cap R
  <2>2. PICK m \in S : f[n][m] # 0
    BY <1>3
  <2>3. n # from /\ n \in Nodes /\ m \in Nodes
    BY <1>4
  <2>4. e[n][m] # 0 /\ e[n][m] \in Nat
    BY <1>2, <2>2, <2>3 DEF Graphs
  <2>5. m \in R
    BY <1>4, <2>3, <2>4 DEF Closed
  <2> QED
    BY <2>2, <2>4, <2>5
<1> QED
  BY <1>6, <1>7 DEF Acyclic

(* Removing edges closes no cycle. *)
LEMMA RemoveEdgeAcyclic ==
    ASSUME NEW e \in Graphs, NEW f \in Graphs, Acyclic(e),
           \A a, b \in Nodes : e[a][b] = 0 => f[a][b] = 0
    PROVE  Acyclic(f)
<1> SUFFICES ASSUME NEW S \in SUBSET Nodes, S # {}
             PROVE  \E n \in S : \A m \in S : f[n][m] = 0
  BY DEF Acyclic
<1>1. PICK n \in S : \A m \in S : e[n][m] = 0
  BY DEF Acyclic
<1> QED
  BY <1>1

-----------------------------------------------------------------------------
IInv ==
    /\ TypeOK
    /\ NoWaitCycle
    /\ CountsAreGuards

(* Sets of guards are finite. *)
LEMMA GuardsFinite ==
    /\ \A a, b \in Nodes : IsFiniteSet(HoldersOf(a, b)) /\ Cardinality(HoldersOf(a, b)) \in Nat
    /\ \A b \in Nodes : IsFiniteSet(WaitersOn(b)) /\ Cardinality(WaitersOn(b)) \in Nat
  BY WaitersAssumption, FS_Subset, FS_CardinalityType DEF HoldersOf, WaitersOn

(* The initial graph is empty. *)
LEMMA InitIInv == Init => IInv
<1> SUFFICES ASSUME Init PROVE IInv
  OBVIOUS
<1>1. /\ \A a, b \in Nodes : HoldersOf(a, b) = {}
      /\ \A b \in Nodes : WaitersOn(b) = {}
  BY NoneAssumption DEF Init, HoldersOf, WaitersOn
<1>2. CountsAreGuards
  BY <1>1, FS_EmptySet DEF Init, CountsAreGuards
<1> QED
  BY <1>2 DEF Init, IInv, TypeOK, NoWaitCycle

(* begin counts the guard it hands out. *)
LEMMA BeginCounts ==
    ASSUME TypeOK, CountsAreGuards, NEW w \in Waiters, NEW from \in Nodes,
           NEW to \in Nodes, Begin(w, from, to)
    PROVE  CountsAreGuards'
<1> USE DEF TypeOK, Begin
<1>0. /\ <<from, to>> # None
      /\ guard' \in [Waiters -> (Nodes \X Nodes) \cup {None}]
      /\ \A v \in Waiters : guard'[v] = IF v = w THEN <<from, to>> ELSE guard[v]
  BY NoneAssumption
<1>1. ASSUME NEW a \in Nodes, NEW b \in Nodes
      PROVE  edges'[a][b] = Cardinality(HoldersOf(a, b)')
  <2>1. CASE a = from /\ b = to
    <3>1. HoldersOf(a, b)' = HoldersOf(a, b) \cup {w} /\ w \notin HoldersOf(a, b)
      BY <1>0, <2>1 DEF HoldersOf
    <3>2. Cardinality(HoldersOf(a, b)') = Cardinality(HoldersOf(a, b)) + 1
      BY <3>1, GuardsFinite, FS_AddElement
    <3> QED BY <2>1, <3>2 DEF CountsAreGuards
  <2>2. CASE ~(a = from /\ b = to)
    <3>1. HoldersOf(a, b)' = HoldersOf(a, b)
      <4>1. <<from, to>> # <<a, b>> /\ None # <<a, b>>
        BY <2>2, NoneAssumption
      <4> QED BY <1>0, <4>1 DEF HoldersOf
    <3>2. edges'[a][b] = edges[a][b]
      BY <2>2
    <3> QED BY <3>1, <3>2 DEF CountsAreGuards
  <2> QED BY <2>1, <2>2
<1>2. ASSUME NEW b \in Nodes
      PROVE  incoming'[b] = Cardinality(WaitersOn(b)')
  <2>1. CASE b = to
    <3>1. WaitersOn(b)' = WaitersOn(b) \cup {w} /\ w \notin WaitersOn(b)
      BY <1>0, <2>1 DEF WaitersOn
    <3>2. Cardinality(WaitersOn(b)') = Cardinality(WaitersOn(b)) + 1
      BY <3>1, GuardsFinite, FS_AddElement
    <3> QED BY <2>1, <3>2 DEF CountsAreGuards
  <2>2. CASE b # to
    <3>1. WaitersOn(b)' = WaitersOn(b)
      BY <1>0, <2>2 DEF WaitersOn
    <3> QED BY <2>2, <3>1 DEF CountsAreGuards
  <2> QED BY <2>1, <2>2
<1> QED
  BY <1>1, <1>2 DEF CountsAreGuards

(* What a guard refers to has both counts above zero, so end never reports *)
(* an edge released out of order.                                          *)
LEMMA GuardCounted ==
    ASSUME TypeOK, CountsAreGuards, NEW w \in Waiters, guard[w] # None
    PROVE  /\ guard[w][1] \in Nodes /\ guard[w][2] \in Nodes
           /\ guard[w] = <<guard[w][1], guard[w][2]>>
           /\ edges[guard[w][1]][guard[w][2]] > 0
           /\ incoming[guard[w][2]] > 0
<1> DEFINE a == guard[w][1]
           b == guard[w][2]
<1>1. a \in Nodes /\ b \in Nodes /\ guard[w] = <<a, b>>
  BY DEF TypeOK
<1>2. w \in HoldersOf(a, b) /\ w \in WaitersOn(b)
  BY <1>1 DEF HoldersOf, WaitersOn
<1>3. Cardinality(HoldersOf(a, b)) # 0 /\ Cardinality(WaitersOn(b)) # 0
  BY <1>1, <1>2, GuardsFinite, FS_EmptySet
<1>4. edges[a][b] # 0 /\ incoming[b] # 0
  BY <1>1, <1>3 DEF CountsAreGuards
<1>5. edges[a][b] \in Nat /\ incoming[b] \in Nat
  BY <1>1 DEF TypeOK
<1> QED
  BY <1>1, <1>4, <1>5

(* end gives back exactly the guard's own share of the counts. *)
LEMMA EndCounts ==
    ASSUME TypeOK, CountsAreGuards, NEW w \in Waiters, End(w)
    PROVE  CountsAreGuards'
<1> DEFINE from == guard[w][1]
           to   == guard[w][2]
<1>1. /\ from \in Nodes /\ to \in Nodes /\ guard[w] = <<from, to>>
      /\ edges[from][to] > 0 /\ incoming[to] > 0
  BY GuardCounted DEF End
<1>2. /\ edges' = [edges EXCEPT ![from][to] = @ - 1]
      /\ incoming' = [incoming EXCEPT ![to] = @ - 1]
      /\ guard' = [guard EXCEPT ![w] = None]
  BY <1>1 DEF End
<1>a. \A v \in Waiters : guard'[v] = IF v = w THEN None ELSE guard[v]
  BY <1>2 DEF TypeOK
<1>b. /\ \A v \in WaitersOn(to) : guard[v] # None /\ guard[v][2] = to
      /\ w \in WaitersOn(to)
      /\ \A b \in Nodes \ {to} : w \notin WaitersOn(b)
  BY <1>1 DEF WaitersOn, End
<1> HIDE DEF from, to
<1> USE DEF TypeOK
<1>3. ASSUME NEW a \in Nodes, NEW b \in Nodes
      PROVE  edges'[a][b] = Cardinality(HoldersOf(a, b)')
  <2>1. CASE a = from /\ b = to
    <3>1. HoldersOf(a, b)' = HoldersOf(a, b) \ {w} /\ w \in HoldersOf(a, b)
      <4>1. None # <<a, b>> /\ guard[w] = <<a, b>>
        BY <1>1, <2>1, NoneAssumption
      <4> QED BY <1>a, <4>1 DEF HoldersOf
    <3>2. Cardinality(HoldersOf(a, b)') = Cardinality(HoldersOf(a, b)) - 1
      BY <3>1, GuardsFinite, FS_RemoveElement
    <3> QED BY <1>1, <1>2, <2>1, <3>2 DEF CountsAreGuards
  <2>2. CASE ~(a = from /\ b = to)
    <3>1. HoldersOf(a, b)' = HoldersOf(a, b)
      <4>1. None # <<a, b>> /\ guard[w] # <<a, b>>
        BY <1>1, <2>2, NoneAssumption
      <4> QED BY <1>a, <4>1 DEF HoldersOf
    <3>2. edges'[a][b] = edges[a][b]
      BY <1>1, <1>2, <2>2
    <3> QED BY <3>1, <3>2 DEF CountsAreGuards
  <2> QED BY <2>1, <2>2
<1>4. ASSUME NEW b \in Nodes
      PROVE  incoming'[b] = Cardinality(WaitersOn(b)')
  <2>1. CASE b = to
    <3>1. WaitersOn(b)' = WaitersOn(b) \ {w} /\ w \in WaitersOn(b)
      BY <1>a, <1>b, <2>1 DEF WaitersOn
    <3>2. Cardinality(WaitersOn(b)') = Cardinality(WaitersOn(b)) - 1
      BY <3>1, GuardsFinite, FS_RemoveElement
    <3> QED BY <1>1, <1>2, <2>1, <3>2 DEF CountsAreGuards
  <2>2. CASE b # to
    <3>1. WaitersOn(b)' = WaitersOn(b)
      BY <1>a, <1>b, <2>2 DEF WaitersOn
    <3> QED BY <1>1, <1>2, <2>2, <3>1 DEF CountsAreGuards
  <2> QED BY <2>1, <2>2
<1> QED
  BY <1>3, <1>4 DEF CountsAreGuards

(* Every step preserves the invariant. *)
LEMMA NextIInv == IInv /\ [Next]_vars => IInv'
<1> SUFFICES ASSUME IInv, [Next]_vars PROVE IInv'
  OBVIOUS
<1>0. TypeOK /\ NoWaitCycle /\ CountsAreGuards /\ edges \in Graphs /\ Acyclic(edges)
  BY DEF IInv, TypeOK, Graphs, NoWaitCycle, Acyclic
<1>k. ASSUME UNCHANGED <<edges, incoming, frames, guard>>, failed' \in BOOLEAN
      PROVE  IInv'
  <2>1. TypeOK' /\ NoWaitCycle'
    BY <1>0, <1>k DEF TypeOK, NoWaitCycle
  <2>2. CountsAreGuards'
    <3>1. /\ \A a, b \in Nodes : HoldersOf(a, b)' = HoldersOf(a, b)
          /\ \A b \in Nodes : WaitersOn(b)' = WaitersOn(b)
      BY <1>k DEF HoldersOf, WaitersOn
    <3> QED BY <1>0, <1>k, <3>1 DEF CountsAreGuards
  <2> QED BY <2>1, <2>2 DEF IInv
<1>1. CASE UNCHANGED vars
  BY <1>0, <1>1, <1>k DEF vars, TypeOK
<1>2. ASSUME NEW w \in Waiters, NEW from \in Nodes, NEW to \in Nodes,
             Begin(w, from, to)
      PROVE  IInv'
  <2>1. TypeOK'
    BY <1>0, <1>2 DEF TypeOK, Begin
  <2>2. NoWaitCycle'
    <3>1. Acyclic([edges EXCEPT ![from][to] = @ + 1])
      BY <1>0, <1>2, AddEdgeAcyclic DEF Begin
    <3> QED BY <1>2, <3>1 DEF Begin, NoWaitCycle, Acyclic
  <2>3. CountsAreGuards'
    BY <1>0, <1>2, BeginCounts
  <2> QED BY <2>1, <2>2, <2>3 DEF IInv
<1>3. ASSUME NEW w \in Waiters, NEW from \in Nodes, NEW to \in Nodes,
             BeginCycle(w, from, to)
      PROVE  IInv'
  <2>1. failed' \in BOOLEAN
    BY <1>0, <1>3 DEF BeginCycle, TypeOK
  <2> QED BY <1>3, <1>k, <2>1 DEF BeginCycle
<1>4. ASSUME NEW w \in Waiters, End(w) PROVE IInv'
  <2> DEFINE from == guard[w][1]
             to   == guard[w][2]
  <2>1. /\ from \in Nodes /\ to \in Nodes
        /\ edges[from][to] > 0 /\ incoming[to] > 0
    BY <1>0, <1>4, GuardCounted DEF End
  <2>2. /\ edges' = [edges EXCEPT ![from][to] = @ - 1]
        /\ incoming' = [incoming EXCEPT ![to] = @ - 1]
        /\ frames' \subseteq frames
        /\ guard' = [guard EXCEPT ![w] = None]
        /\ UNCHANGED failed
    BY <1>4, <2>1 DEF End
  <2> HIDE DEF from, to
  <2>3. TypeOK'
    BY <1>0, <2>1, <2>2 DEF TypeOK
  <2>4. NoWaitCycle'
    <3>1. edges' \in Graphs
      BY <2>3 DEF TypeOK, Graphs
    <3>2. \A a, b \in Nodes : edges[a][b] = 0 => edges'[a][b] = 0
      BY <1>0, <2>1, <2>2 DEF Graphs
    <3>3. Acyclic(edges')
      BY <1>0, <3>1, <3>2, RemoveEdgeAcyclic
    <3> QED BY <3>3 DEF NoWaitCycle, Acyclic
  <2>5. CountsAreGuards'
    BY <1>0, <1>4, EndCounts
  <2> QED BY <2>3, <2>4, <2>5 DEF IInv
<1> QED
  BY <1>1, <1>2, <1>3, <1>4 DEF Next

(* The graph's variables keep their types. *)
THEOREM TypeCorrect == Spec => []TypeOK
<1>1. IInv => TypeOK
  BY DEF IInv
<1> QED
  BY <1>1, InitIInv, NextIInv, PTL DEF Spec

(* begin refuses every wait that would close a circle, whatever the number *)
(* of threads, queries and shared parents.                                 *)
THEOREM WaitsAreAcyclic == Spec => []NoWaitCycle
<1>1. IInv => NoWaitCycle
  BY DEF IInv
<1> QED
  BY <1>1, InitIInv, NextIInv, PTL DEF Spec

(* edges and incoming count the guards that exist, so end never fails.     *)
THEOREM CountsAreExact == Spec => []CountsAreGuards
<1>1. IInv => CountsAreGuards
  BY DEF IInv
<1> QED
  BY <1>1, InitIInv, NextIInv, PTL DEF Spec

-----------------------------------------------------------------------------
(* The nodes that some guard mentions. *)
Live == {n \in Nodes : \E w \in Waiters :
             guard[w] # None /\ n \in {guard[w][1], guard[w][2]}}

(* A node is mentioned by a guard exactly when one of its counts says so.  *)
LEMMA LiveByCounts ==
    ASSUME TypeOK, CountsAreGuards, NEW n \in Nodes
    PROVE  n \in Live <=> HasOutgoing(edges, n) \/ incoming[n] # 0
<1>1. ASSUME n \in Live PROVE HasOutgoing(edges, n) \/ incoming[n] # 0
  <2>1. PICK w \in Waiters : guard[w] # None /\ n \in {guard[w][1], guard[w][2]}
    BY <1>1 DEF Live
  <2>2. /\ guard[w][1] \in Nodes /\ guard[w][2] \in Nodes
        /\ edges[guard[w][1]][guard[w][2]] > 0
        /\ incoming[guard[w][2]] > 0
    BY <2>1, GuardCounted
  <2> QED BY <2>1, <2>2 DEF HasOutgoing
<1>2. ASSUME HasOutgoing(edges, n) PROVE n \in Live
  <2>1. PICK m \in Nodes : edges[n][m] > 0
    BY <1>2 DEF HasOutgoing
  <2>2. HoldersOf(n, m) # {}
    <3>1. Cardinality(HoldersOf(n, m)) # 0
      BY <2>1 DEF CountsAreGuards
    <3> QED BY <3>1, FS_EmptySet
  <2>3. PICK w \in Waiters : guard[w] = <<n, m>>
    BY <2>2 DEF HoldersOf
  <2>4. guard[w] # None /\ guard[w][1] = n
    BY <2>1, <2>3, NoneAssumption
  <2> QED BY <2>4 DEF Live
<1>3. ASSUME incoming[n] # 0 PROVE n \in Live
  <2>1. WaitersOn(n) # {}
    BY <1>3, FS_EmptySet DEF CountsAreGuards
  <2> QED BY <2>1 DEF WaitersOn, Live
<1> QED
  BY <1>1, <1>2, <1>3

(* The same for all nodes, as a formula that also holds of the next state. *)
LEMMA LiveEverywhere ==
    TypeOK /\ CountsAreGuards =>
        \A n \in Nodes : n \in Live <=> HasOutgoing(edges, n) \/ incoming[n] # 0
  BY LiveByCounts

(* A node other than its target that reaches a target has an edge. *)
LEMMA ReachingHasOutgoing ==
    ASSUME NEW e \in Graphs, NEW n \in Nodes, NEW m \in Nodes,
           m \in Reach(e, n), m # n
    PROVE  HasOutgoing(e, n)
<1> SUFFICES ASSUME ~HasOutgoing(e, n) PROVE FALSE
  OBVIOUS
<1>1. Closed(e, {n}) /\ {n} \in SUBSET Nodes
  BY DEF Closed, HasOutgoing
<1> QED
  BY <1>1 DEF Reach

FullInv == IInv /\ FramesAreLive /\ NoGraphFailure

(* Frames follow the guards, and neither operation fails. *)
LEMMA NextFullInv == FullInv /\ [Next]_vars => FullInv'
<1> SUFFICES ASSUME FullInv, [Next]_vars PROVE FullInv'
  OBVIOUS
<1>0. /\ IInv /\ TypeOK /\ CountsAreGuards /\ edges \in Graphs
      /\ frames = Live /\ failed = FALSE
  BY DEF FullInv, IInv, TypeOK, Graphs, FramesAreLive, Live, NoGraphFailure
<1>i. IInv' /\ TypeOK' /\ CountsAreGuards'
  BY <1>0, NextIInv DEF IInv
<1>s. SUFFICES frames' = Live' /\ failed' = FALSE
  BY <1>i DEF FullInv, FramesAreLive, Live, NoGraphFailure
<1>1. CASE UNCHANGED vars
  BY <1>0, <1>1 DEF vars, Live
<1>2. ASSUME NEW w \in Waiters, NEW from \in Nodes, NEW to \in Nodes,
             Begin(w, from, to)
      PROVE  frames' = Live' /\ failed' = FALSE
  <2>1. /\ <<from, to>> # None /\ guard[w] = None
        /\ \A v \in Waiters : guard'[v] = IF v = w THEN <<from, to>> ELSE guard[v]
        /\ frames' = frames \cup {from, to} /\ UNCHANGED failed
    BY <1>0, <1>2, NoneAssumption DEF Begin, TypeOK
  <2>2. Live' = Live \cup {from, to}
    BY <2>1 DEF Live
  <2> QED BY <1>0, <2>1, <2>2
<1>3. ASSUME NEW w \in Waiters, NEW from \in Nodes, NEW to \in Nodes,
             BeginCycle(w, from, to)
      PROVE  frames' = Live' /\ failed' = FALSE
  <2>1. ASSUME NEW n \in Reach(edges, to) \ (frames \cup {from, to}),
               from \in Reach(edges, n)
        PROVE  FALSE
    <3>1. n \in Nodes /\ n # from
      BY <2>1 DEF Reach
    <3>2. HasOutgoing(edges, n)
      BY <1>0, <2>1, <3>1, ReachingHasOutgoing
    <3>3. n \in Live
      BY <1>0, <3>1, <3>2, LiveByCounts
    <3> QED BY <1>0, <2>1, <3>3
  <2>2. failed' = FALSE
    BY <1>0, <1>3, <2>1 DEF BeginCycle
  <2>3. Live' = Live /\ frames' = frames
    BY <1>3 DEF BeginCycle, Live
  <2> QED BY <1>0, <2>2, <2>3
<1>4. ASSUME NEW w \in Waiters, End(w)
      PROVE  frames' = Live' /\ failed' = FALSE
  <2> DEFINE from == guard[w][1]
             to   == guard[w][2]
             Dead == {n \in {from, to} : ~HasOutgoing(edges', n) /\ incoming'[n] = 0}
  <2>1. /\ from \in Nodes /\ to \in Nodes
        /\ edges[from][to] > 0 /\ incoming[to] > 0
    BY <1>0, <1>4, GuardCounted DEF End
  <2>2. frames' = frames \ Dead /\ UNCHANGED failed
    BY <1>4, <2>1 DEF End
  <2>3. guard[w] # None /\ \A v \in Waiters : guard'[v] = IF v = w THEN None ELSE guard[v]
    BY <1>0, <1>4 DEF End, TypeOK
  <2>4. Live' \subseteq Live /\ Live \ Live' \subseteq {from, to}
    BY <2>3 DEF Live
  <2>5. \A n \in Nodes : n \in Live' <=> HasOutgoing(edges', n) \/ incoming'[n] # 0
    <3>1. (TypeOK /\ CountsAreGuards =>
              \A n \in Nodes : n \in Live <=> HasOutgoing(edges, n) \/ incoming[n] # 0)'
      BY LiveEverywhere, PTL
    <3> QED BY <1>i, <3>1 DEF HasOutgoing
  <2>6. Dead = {from, to} \ Live'
    BY <2>1, <2>5
  <2>7. Live \ Dead = Live'
    BY <2>4, <2>6
  <2> QED BY <1>0, <2>2, <2>7
<1> QED
  BY <1>1, <1>2, <1>3, <1>4 DEF Next

(* A cycle can always be reported with its frames, end always finds the    *)
(* edge it releases, and no frame outlives the waits that needed it.       *)
THEOREM GraphNeverFails == Spec => [](FramesAreLive /\ NoGraphFailure)
<1>1. Init => FullInv
  <2>1. ASSUME Init PROVE FramesAreLive /\ NoGraphFailure
    BY <2>1, NoneAssumption DEF Init, FramesAreLive, NoGraphFailure
  <2> QED BY <2>1, InitIInv DEF FullInv
<1>2. FullInv => FramesAreLive /\ NoGraphFailure
  BY DEF FullInv
<1> QED
  BY <1>1, <1>2, NextFullInv, PTL DEF Spec

=============================================================================
