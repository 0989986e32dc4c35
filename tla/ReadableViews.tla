--------------------------- MODULE ReadableViews ----------------------------
(***************************************************************************)
(* What the target tables show a reader over the lives of many slots.  A   *)
(* source commits one transaction after the other; the views appear with   *)
(* all of the first so many, go forward by any number, and disappear.  Of  *)
(* an operator who lets a daemon run into a setup nothing is promised.     *)
(***************************************************************************)
EXTENDS Naturals

CONSTANTS
    None,              \* there are no target tables
    MaxCommits         \* bound: transactions the source commits

VARIABLES
    undisturbed,       \* no daemon runs during a setup
    wal,               \* transactions committed
    target             \* how often each is in the views, or None

vars == <<undisturbed, wal, target>>

FirstOf(n) == [k \in 1 .. MaxCommits |-> IF k <= n THEN 1 ELSE 0]

Init ==
    /\ undisturbed \in BOOLEAN
    /\ wal = 0
    /\ target = None

Commit ==
    /\ wal < MaxCommits
    /\ wal' = wal + 1
    /\ UNCHANGED <<undisturbed, target>>

Build ==
    /\ target = None
    /\ \E n \in 0 .. wal : target' = FirstOf(n)
    /\ UNCHANGED <<undisturbed, wal>>

Advance ==
    /\ \E m \in 0 .. wal, n \in 0 .. wal :
        m < n /\ target = FirstOf(m) /\ target' = FirstOf(n)
    /\ UNCHANGED <<undisturbed, wal>>

Drop ==
    /\ target' = None
    /\ UNCHANGED <<undisturbed, wal>>

Disturb ==
    /\ ~undisturbed
    /\ UNCHANGED <<undisturbed, wal>>

Next == Commit \/ Build \/ Advance \/ Drop \/ Disturb

Spec == Init /\ [][Next]_vars
=============================================================================
