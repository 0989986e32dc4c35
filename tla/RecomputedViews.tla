-------------------------- MODULE RecomputedViews ---------------------------
(***************************************************************************)
(* What incremental maintenance promises: the views are as if each refresh *)
(* recomputed them from the source table.  DeltaBatch implements this      *)
(* specification (DeltaBatch!Implements).                                  *)
(***************************************************************************)
CONSTANTS
    IsTable(_),        \* what a source table may be
    GroundTruth(_)     \* the views of a source table, recomputed

VARIABLES
    source,            \* the source table
    target             \* the target tables of the views

vars == <<source, target>>

Init ==
    /\ IsTable(source)
    /\ target = GroundTruth(source)

Change ==
    /\ IsTable(source')
    /\ UNCHANGED target

Refresh ==
    /\ target' = GroundTruth(source)
    /\ UNCHANGED source

Spec == Init /\ [][Change \/ Refresh]_vars
=============================================================================
