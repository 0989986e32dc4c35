---------------------------- MODULE MCBatchTimer ----------------------------
(* A small clock, its times given by the .cfg file in one unit.            *)
EXTENDS BatchTimer
=============================================================================
