---------------------------- MODULE MCLifecycle -----------------------------
(* Lifecycle on small instances, its bounds given by the .cfg files: three *)
(* commits leave room for one before, one inside and one after a setup,    *)
(* three commands for a setup, its loss and the one that repairs it.       *)
EXTENDS Lifecycle

AnyDiscipline == SUBSET {"setup", "teardown"}

StoppedForTeardown == {{"teardown"}}
=============================================================================
