----------------------------- MODULE OutputStore -----------------------------
(***************************************************************************)
(* What recoverable publication promises of one action's output set        *)
(* (crates/nia-build/README.md, "Publication and Locks"): whoever reads    *)
(* the outputs, after recovery if a build was interrupted, finds either    *)
(* all outputs of one publication or all that were there before it.        *)
(***************************************************************************)
EXTENDS Naturals

CONSTANTS
    Outputs,
    Versions,   \* the publications that may happen
    Absent

VARIABLES
    store,      \* the version of each output that recovery leaves in place
    void        \* the promise is lost

vars == <<store, void>>

Init ==
    /\ store \in [Outputs -> {0, Absent}]
    /\ void = FALSE

(* A publication replaces the complete set at once. *)
Replace(v) ==
    /\ store' = [o \in Outputs |-> v]
    /\ UNCHANGED void

(* The promise ends where a publication begins on outputs whose            *)
(* interrupted predecessor still has its prepared journal: recovery may    *)
(* then undo parts of an accepted publication.                             *)
Void == void' = TRUE /\ store' \in [Outputs -> Versions \cup {Absent}]

Next == (\E v \in Versions : Replace(v)) \/ Void

Spec == Init /\ [][Next]_vars

=============================================================================
