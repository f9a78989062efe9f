--------------------------- MODULE MCBuildSchedule ---------------------------
(* Drafts of four steps for checking BuildSchedule. *)
EXTENDS BuildSchedule

CONSTANTS a, b, c

FourSteps == 1 .. 4

(* Step 4 is selected; steps 2 and 3 may form a cycle, step 1 may be a     *)
(* dependency or unselected.                                               *)
Dependencies ==
    {<<{}, d2, d3, d4>> :
        d2 \in SUBSET {1, 3}, d3 \in SUBSET {1, 2}, d4 \in {{1, 3}, {2, 3}, {1, 2, 3}}}

(* Three actions for four steps: one is shared. *)
ActionMaps == {<<a, b, c, b>>, <<a, b, a, c>>, <<a, b, b, c>>, <<a, b, c, a>>}

(* What b and c read. *)
Reads ==
    {[x \in {a, b, c} |-> IF x = b THEN rb ELSE IF x = c THEN rc ELSE {}] :
        rb \in {{}, {a}}, rc \in {{}, {a}, {b}}}

SmallDrafts ==
    {[dependencies |-> d, action |-> m, inputs |-> r] :
        d \in Dependencies, m \in ActionMaps, r \in Reads}

=============================================================================
