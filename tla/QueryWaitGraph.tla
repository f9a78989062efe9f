--------------------------- MODULE QueryWaitGraph ---------------------------
(***************************************************************************)
(* The process-wide wait-for graph between blocked queries                 *)
(* (QueryWaitGraph in crates/nia-query/src/lib.rs, begin_query_wait and    *)
(* QueryWaitGuard in session.rs).                                          *)
(*                                                                         *)
(* A thread that runs query "from" and finds the slot of "to" busy calls   *)
(* begin before it blocks and drops its guard after it woke up.  Several   *)
(* executor lanes may run on behalf of the same parent query, so one edge  *)
(* can be held many times: edges and incoming carry reference counts.      *)
(* Whether "to" already reaches "from" is what path() decides; Reach is    *)
(* its specification, and QueryWaitPath checks the search itself.          *)
(***************************************************************************)
EXTENDS Naturals, FiniteSets

CONSTANTS
    Nodes,      \* query nodes, of any database and session of the process
    Waiters,    \* threads
    None        \* no guard

ASSUME WaitersAssumption == IsFiniteSet(Waiters)
ASSUME NoneAssumption == None \notin Nodes \X Nodes

VARIABLES
    edges,      \* edges[from][to], 0 where the map has no entry
    incoming,   \* incoming[to], 0 where the map has no entry
    frames,     \* nodes whose QueryFrame is retained
    guard,      \* the QueryWaitGuard each thread holds, or None
    failed      \* an internal error: a count or a frame was missing

vars == <<edges, incoming, frames, guard, failed>>

Init ==
    /\ edges = [n \in Nodes |-> [m \in Nodes |-> 0]]
    /\ incoming = [n \in Nodes |-> 0]
    /\ frames = {}
    /\ guard = [w \in Waiters |-> None]
    /\ failed = FALSE

-----------------------------------------------------------------------------
(* Reachability: the nodes every successor-closed set around n contains. *)

Closed(e, S) == \A n \in S : \A m \in Nodes : e[n][m] > 0 => m \in S

Reach(e, n) ==
    {m \in Nodes : \A S \in SUBSET Nodes : n \in S /\ Closed(e, S) => m \in S}

HasOutgoing(e, n) == \E m \in Nodes : e[n][m] > 0

-----------------------------------------------------------------------------
(* Faulty variants of the operations below, named in PROJECT.json. *)

(* Faulty: only a direct two-query cycle is refused. *)
BeginDirectOnly(w, from, to) ==
    /\ guard[w] = None
    /\ from # to /\ edges[to][from] = 0
    /\ edges' = [edges EXCEPT ![from][to] = @ + 1]
    /\ incoming' = [incoming EXCEPT ![to] = @ + 1]
    /\ frames' = frames \cup {from, to}
    /\ guard' = [guard EXCEPT ![w] = <<from, to>>]
    /\ UNCHANGED failed

(* Faulty: a repeated edge is recorded once. *)
BeginUncounted(w, from, to) ==
    /\ guard[w] = None
    /\ from \notin Reach(edges, to)
    /\ edges' = [edges EXCEPT ![from][to] = 1]
    /\ incoming' = [incoming EXCEPT ![to] = @ + 1]
    /\ frames' = frames \cup {from, to}
    /\ guard' = [guard EXCEPT ![w] = <<from, to>>]
    /\ UNCHANGED failed

(* Faulty: end drops both frames whenever the edge itself is gone. *)
EndDroppingFrames(w) ==
    /\ guard[w] # None
    /\ LET from == guard[w][1]
           to   == guard[w][2]
       IN  /\ edges' = [edges EXCEPT ![from][to] = @ - 1]
           /\ incoming' = [incoming EXCEPT ![to] = @ - 1]
           /\ frames' = IF edges'[from][to] = 0 THEN frames \ {from, to} ELSE frames
           /\ UNCHANGED failed
    /\ guard' = [guard EXCEPT ![w] = None]

-----------------------------------------------------------------------------
(* begin, when no path leads from "to" back to "from": the wait is allowed. *)
Begin(w, from, to) ==
    /\ guard[w] = None
    /\ from \notin Reach(edges, to)
    /\ edges' = [edges EXCEPT ![from][to] = @ + 1]
    /\ incoming' = [incoming EXCEPT ![to] = @ + 1]
    /\ frames' = frames \cup {from, to}
    /\ guard' = [guard EXCEPT ![w] = <<from, to>>]
    /\ UNCHANGED failed

(* begin, when a path exists: the frames along it become a Cycle error.    *)
(* The two frames of the caller are always at hand; the others must have   *)
(* been retained.                                                          *)
BeginCycle(w, from, to) ==
    /\ guard[w] = None
    /\ from \in Reach(edges, to)
    /\ failed' = \/ failed
                 \/ \E n \in Reach(edges, to) \ (frames \cup {from, to}) :
                        from \in Reach(edges, n)
    /\ UNCHANGED <<edges, incoming, frames, guard>>

(* Drop for QueryWaitGuard: end(from, to). *)
End(w) ==
    /\ guard[w] # None
    /\ LET from == guard[w][1]
           to   == guard[w][2]
       IN  IF edges[from][to] = 0 \/ incoming[to] = 0
             THEN failed' = TRUE /\ UNCHANGED <<edges, incoming, frames>>
             ELSE /\ edges' = [edges EXCEPT ![from][to] = @ - 1]
                  /\ incoming' = [incoming EXCEPT ![to] = @ - 1]
                  /\ frames' = frames \ {n \in {from, to} :
                                 ~HasOutgoing(edges', n) /\ incoming'[n] = 0}
                  /\ UNCHANGED failed
    /\ guard' = [guard EXCEPT ![w] = None]

Next ==
    \E w \in Waiters :
        \/ \E from, to \in Nodes : Begin(w, from, to) \/ BeginCycle(w, from, to)
        \/ End(w)

Spec == Init /\ [][Next]_vars

-----------------------------------------------------------------------------
(* Every variable has its type. *)
TypeOK ==
    /\ edges \in [Nodes -> [Nodes -> Nat]]
    /\ incoming \in [Nodes -> Nat]
    /\ frames \subseteq Nodes
    /\ guard \in [Waiters -> (Nodes \X Nodes) \cup {None}]
    /\ failed \in BOOLEAN

(* Blocked queries never wait in a circle, through any number of threads,  *)
(* parents and branches: every set of nodes has one that waits for none of *)
(* the set ("a process-wide wait-for graph catches cross-thread waits that *)
(* would otherwise deadlock", lib.rs).                                     *)
NoWaitCycle ==
    \A S \in SUBSET Nodes :
        S # {} => \E n \in S : \A m \in S : edges[n][m] = 0

HoldersOf(from, to) == {w \in Waiters : guard[w] = <<from, to>>}
WaitersOn(to) == {w \in Waiters : guard[w] # None /\ guard[w][2] = to}

(* Reference counts are the guards that exist, so lanes of one parent that *)
(* wait for the same query can release their edges in any order.           *)
CountsAreGuards ==
    /\ \A a, b \in Nodes : edges[a][b] = Cardinality(HoldersOf(a, b))
    /\ \A b \in Nodes : incoming[b] = Cardinality(WaitersOn(b))

(* A frame is retained exactly while some guard mentions its node: a cycle *)
(* can always be reported, and retired queries leave nothing behind.       *)
FramesAreLive ==
    frames = {n \in Nodes : \E w \in Waiters :
                  guard[w] # None /\ n \in {guard[w][1], guard[w][2]}}

(* Neither begin nor end meets a missing count or frame. *)
NoGraphFailure == ~failed

=============================================================================
