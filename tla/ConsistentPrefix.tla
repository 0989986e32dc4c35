-------------------------- MODULE ConsistentPrefix --------------------------
(***************************************************************************)
(* What the pipeline promises about one slot, with no daemon in it: the    *)
(* views always show the source as it was after some prefix of its         *)
(* committed transactions, that prefix only grows, and it grows by whole   *)
(* transactions, several of them at a time if need be.  Pipeline           *)
(* implements this specification (Pipeline!Implements).                    *)
(***************************************************************************)
EXTENDS Naturals, Sequences

VARIABLES
    history,           \* committed source transactions, in commit order
    view               \* transactions whose effect the target tables show

vars == <<history, view>>

Init ==
    /\ history = <<>>
    /\ view = <<>>

Commit ==
    /\ Len(history') = Len(history) + 1
    /\ SubSeq(history', 1, Len(history)) = history
    /\ UNCHANGED view

CatchUp(n) ==
    /\ view' = SubSeq(history, 1, n)
    /\ UNCHANGED history

Next ==
    \/ Commit
    \/ \E n \in Len(view) + 1 .. Len(history) : CatchUp(n)

Spec == Init /\ [][Next]_vars
=============================================================================
