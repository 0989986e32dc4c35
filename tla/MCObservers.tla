----------------------------- MODULE MCObservers ----------------------------
(* Observers on a small instance, its bounds given by the .cfg file.       *)
EXTENDS Observers
=============================================================================
