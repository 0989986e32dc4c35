---------------------------- MODULE MCSchemaDrift ---------------------------
(* A small instance: two published tables with a view each, and one name   *)
(* no view is over.                                                        *)
EXTENDS SchemaDrift, TLC

CONSTANTS r1, r2, orders, items, other

MCRelId == {r1, r2}
MCName == {orders, items, other}
MCSources == {orders, items}
MCInitialName == r1 :> orders @@ r2 :> items
=============================================================================
