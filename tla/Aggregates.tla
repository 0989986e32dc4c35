----------------------------- MODULE Aggregates -----------------------------
(***************************************************************************)
(* A source table and its GROUP BY aggregates, computed from scratch, as   *)
(* the backfill of setup does (aggregates.py).  Every view keeps, for each *)
(* of its groups, the three storage columns that back all its aggregates:  *)
(* the number of rows (__walflux_rows, count( * )), the number of rows     *)
(* with a value (count(col), and __nn of sum and avg), and the running     *)
(* total (__sum).                                                          *)
(*                                                                         *)
(* A table maps row identities to rows, so it may hold equal rows.  Values *)
(* are integers: a numeric column in units of its scale.                   *)
(***************************************************************************)
EXTENDS Integers, FiniteSets

CONSTANTS
    RowId,             \* identities of source rows
    Key,               \* values of the grouping columns; NULL may be one
    MaxValue,          \* bound on the aggregated column
    Null,              \* the aggregated column without a value
    Views,             \* views over the table
    Grouped            \* those with a group_by; the others are global

ASSUME AggregatesAssumption ==
    /\ MaxValue \in Nat
    /\ Null \notin Int
    /\ Grouped \subseteq Views

Value == -MaxValue .. MaxValue

Row == [key : Key, val : Value \cup {Null}]

IsTable(table) ==
    /\ DOMAIN table \subseteq RowId
    /\ IsFiniteSet(DOMAIN table)
    /\ table \in [DOMAIN table -> Row]

Storage == [rows : Int, nn : Int, sum : Int]

-----------------------------------------------------------------------------
(* The group of a row: its key columns as a tuple, or the empty tuple.     *)
GroupOf(v, row) == IF v \in Grouped THEN <<row.key>> ELSE <<>>

GroupKeys == {<<k>> : k \in Key} \cup {<<>>}

Members(table, v, g) == {i \in DOMAIN table : GroupOf(v, table[i]) = g}

(* count( * ), count(col) and coalesce(sum(col), 0) of the rows in a set of *)
(* identities.  A sum is counted in units: a row with value n > 0 puts the *)
(* pairs <<i, 1>> .. <<i, n>> among the units above zero, one with value   *)
(* -n those below.                                                         *)
Counted(table, S) == {i \in S : table[i].val # Null}

Amount(row) == IF row.val = Null THEN 0 ELSE row.val

UnitsAbove(table, S) == {u \in S \X (1 .. MaxValue) : u[2] <= Amount(table[u[1]])}

UnitsBelow(table, S) == {u \in S \X (1 .. MaxValue) : u[2] <= -Amount(table[u[1]])}

Measure(table, S) ==
    [rows |-> Cardinality(S),
     nn   |-> Cardinality(Counted(table, S)),
     sum  |-> Cardinality(UnitsAbove(table, S)) - Cardinality(UnitsBelow(table, S))]

(* SELECT ... FROM table GROUP BY key; without a GROUP BY, exactly one row *)
(* even of an empty table.                                                 *)
Groups(table, v) ==
    IF v \in Grouped THEN {GroupOf(v, table[i]) : i \in DOMAIN table} ELSE {<<>>}

GroupBy(table, v) == [g \in Groups(table, v) |-> Measure(table, Members(table, v, g))]

GroundTruth(table) == [v \in Views |-> GroupBy(table, v)]
=============================================================================
