---------------------------- MODULE QueryWaitPath ----------------------------
(***************************************************************************)
(* The search QueryWaitGraph::path makes before a query may block: a fast  *)
(* walk while every node has a single target, then a breadth-first search  *)
(* with a map of predecessors.  Checked against Reach on every graph the   *)
(* wait-for graph can hold.                                                *)
(***************************************************************************)
EXTENDS QueryWaitGraph, Sequences, SequencesExt

NoPath == <<>>

Targets(e, n) == {m \in Nodes : e[n][m] > 0}
Sources(e) == {n \in Nodes : HasOutgoing(e, n)}

(* The walk along single targets.  "hops" counts loop iterations; the loop *)
(* gives up with None at a node without targets, and once it has made one  *)
(* hop per source.  It falls through to the search at a branching node, or *)
(* at once when there is no edge at all.                                   *)
RECURSIVE Walk(_, _, _, _)
Walk(e, trail, to, hops) ==
    LET targets == Targets(e, Last(trail))
        next    == CHOOSE m \in targets : TRUE
    IN  IF hops = Cardinality(Sources(e)) THEN "search"
        ELSE IF targets = {} THEN NoPath
        ELSE IF Cardinality(targets) > 1 THEN "search"
        ELSE IF next = to THEN Append(trail, next)
        ELSE IF hops + 1 = Cardinality(Sources(e)) THEN NoPath
        ELSE Walk(e, Append(trail, next), to, hops + 1)

(* The search: previous holds, for every node seen, the path it was found  *)
(* by (the code stores the predecessor and rebuilds the path from it).     *)
RECURSIVE Search(_, _, _, _)
Search(e, pending, previous, to) ==
    IF pending = <<>> THEN NoPath
    ELSE LET current == Head(pending)
             targets == Targets(e, current)
             fresh   == targets \ DOMAIN previous
         IN  IF to \in targets THEN Append(previous[current], to)
             ELSE Search(e, Tail(pending) \o SetToSeq(fresh),
                         [n \in DOMAIN previous \cup fresh |->
                             IF n \in fresh THEN Append(previous[current], n)
                                            ELSE previous[n]],
                         to)

BreadthFirst(e, from, to) ==
    Search(e, <<from>>, [n \in {from} |-> <<from>>], to)

(* Faulty: the walk gives up one hop early. *)
ShortWalkPath(e, from, to) ==
    IF from = to THEN <<from>>
    ELSE IF Cardinality(Sources(e)) <= 1 THEN NoPath
    ELSE LET walk == Walk(e, <<from>>, to, 1)
         IN  IF walk = "search" THEN BreadthFirst(e, from, to) ELSE walk

path(e, from, to) ==
    IF from = to THEN <<from>>
    ELSE LET walk == Walk(e, <<from>>, to, 0)
         IN  IF walk = "search" THEN BreadthFirst(e, from, to) ELSE walk

(* path() finds a way exactly when the target is reachable, and what it    *)
(* returns is a way: it starts and ends right and follows waiting edges.   *)
PathIsReachability ==
    \A from, to \in Nodes :
        LET p == path(edges, from, to)
        IN  /\ p # NoPath <=> to \in Reach(edges, from)
            /\ p # NoPath =>
                 /\ p[1] = from /\ Last(p) = to
                 /\ \A i \in 1 .. (Len(p) - 1) : edges[p[i]][p[i + 1]] > 0

=============================================================================
