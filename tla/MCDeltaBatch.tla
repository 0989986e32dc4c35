---------------------------- MODULE MCDeltaBatch ----------------------------
(* A small instance: two keys, values -1 .. 1 and NULL, one grouped and    *)
(* one global view.                                                        *)
EXTENDS DeltaBatch, TLC

CONSTANTS r1, r2, r3, a, b, byKey, overall

MCRowId == {r1, r2, r3}
MCKey == {a, b}
MCViews == {byKey, overall}
MCGrouped == {byKey}

RowSymmetry == Permutations(MCRowId)
KeySymmetry == Permutations(MCKey)
MCSymmetry == RowSymmetry \cup KeySymmetry
=============================================================================
