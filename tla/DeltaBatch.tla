----------------------------- MODULE DeltaBatch -----------------------------
(***************************************************************************)
(* Incremental maintenance of the views of one source table: row events    *)
(* are folded into per-group deltas (DeltaBatch of aggregates.py, fed by   *)
(* Daemon._row_ops and _flush), and a flush runs the batch's statements.   *)
(*                                                                         *)
(* source is the table after the last event folded, so it runs ahead of    *)
(* target by what the batch holds.  The daemon folds the events of a batch *)
(* in one go when it flushes; here each is folded as it happens, which no  *)
(* one can tell, and a flush may come after any event: transactions of one *)
(* event are included.                                                     *)
(***************************************************************************)
EXTENDS Aggregates

CONSTANTS Unchanged    \* protocol.UNCHANGED_TOAST

ASSUME DeltaBatchAssumption == Unchanged \notin Key \cup Int \cup {Null}

VARIABLES
    source,            \* the source table
    deltas,            \* DeltaBatch._deltas
    truncated,         \* DeltaBatch._truncated
    target             \* the target table of each view

vars == <<source, deltas, truncated, target>>

-----------------------------------------------------------------------------
(* Deltas are shaped like the storage columns they are added to.           *)
Zeros == [rows |-> 0, nn |-> 0, sum |-> 0]

Plus(a, b) == [rows |-> a.rows + b.rows, nn |-> a.nn + b.nn, sum |-> a.sum + b.sum]

Signed(sign, d) == [rows |-> sign * d.rows, nn |-> sign * d.nn, sum |-> sign * d.sum]

NoRows == [g \in {} |-> Zeros]

(* What one row event contributes, before its sign.                        *)
Contribution(row) ==
    [rows |-> 1, nn |-> IF row.val = Null THEN 0 ELSE 1, sum |-> Amount(row)]

(* The deltas of one view after one more row event.                        *)
Folded(groups, g, d) ==
    [x \in DOMAIN groups \cup {g} |->
        IF x # g THEN groups[x]
        ELSE IF g \in DOMAIN groups THEN Plus(groups[g], d) ELSE d]

Fold(batch, row, sign) ==
    [v \in Views |-> Folded(batch[v], GroupOf(v, row), Signed(sign, Contribution(row)))]

(* The new tuple of an update still has the marker in a TOASTed column it  *)
(* did not rewrite; the old tuple has the value.  (mutant) The value is    *)
(* taken for missing.                                                      *)
SubstitutedByNull(old, tuple) ==
    [tuple EXCEPT !.val = IF tuple.val = Unchanged THEN Null ELSE tuple.val,
                  !.key = IF tuple.key = Unchanged THEN old.key ELSE tuple.key]
Substituted(old, tuple) ==
    [key |-> IF tuple.key = Unchanged THEN old.key ELSE tuple.key,
     val |-> IF tuple.val = Unchanged THEN old.val ELSE tuple.val]

(* A truncate forgets the deltas so far; a global view gets a zero delta,  *)
(* so that its one row comes back after the DELETE.  (mutants) Without     *)
(* that; the deltas are kept.                                              *)
AfterTruncateUnseeded(v) == NoRows
AfterTruncateKept(v) == deltas[v]
AfterTruncate(v) == IF v \in Grouped THEN NoRows ELSE [g \in {<<>>} |-> Zeros]

-----------------------------------------------------------------------------
(* The statements of a batch, in their order: DELETE of truncated views,   *)
(* one additive upsert per touched group, DELETE of groups without rows.   *)
Kept(v) == IF v \in truncated THEN NoRows ELSE target[v]

Upserted(rows, groups) ==
    [g \in DOMAIN rows \cup DOMAIN groups |->
        IF g \notin DOMAIN groups THEN rows[g]
        ELSE IF g \in DOMAIN rows THEN Plus(rows[g], groups[g]) ELSE groups[g]]

Cleaned(rows) == [g \in {x \in DOMAIN rows : rows[x].rows > 0} |-> rows[g]]

NeedsCleanup(v) == v \in Grouped /\ (v \in truncated \/ DOMAIN deltas[v] # {})

(* (mutant) The cleanup runs before the upserts.                           *)
FlushedCleanupFirst(v) == Upserted(Cleaned(Kept(v)), deltas[v])
Flushed(v) ==
    IF NeedsCleanup(v) THEN Cleaned(Upserted(Kept(v), deltas[v]))
                       ELSE Upserted(Kept(v), deltas[v])

-----------------------------------------------------------------------------
(* setup backfills the targets from a table that already has rows.         *)
Init ==
    /\ source \in UNION {[S -> Row] : S \in SUBSET RowId}
    /\ IsFiniteSet(DOMAIN source)
    /\ target = GroundTruth(source)
    /\ deltas = [v \in Views |-> NoRows]
    /\ truncated = {}

Insert(i, row) ==
    /\ i \notin DOMAIN source
    /\ source' = [j \in DOMAIN source \cup {i} |-> IF j = i THEN row ELSE source[j]]
    /\ deltas' = Fold(deltas, row, 1)
    /\ UNCHANGED <<truncated, target>>

Delete(i) ==
    /\ i \in DOMAIN source
    /\ source' = [j \in DOMAIN source \ {i} |-> source[j]]
    /\ deltas' = Fold(deltas, source[i], -1)
    /\ UNCHANGED <<truncated, target>>

(* An update is delete(old) + insert(new).  toasted: the columns that      *)
(* arrive as a marker because the update left a TOASTed value as it was.   *)
Update(i, row, toasted) ==
    /\ i \in DOMAIN source
    /\ "key" \in toasted => row.key = source[i].key
    /\ "val" \in toasted => row.val = source[i].val
    /\ source' = [source EXCEPT ![i] = row]
    /\ LET tuple == [key |-> IF "key" \in toasted THEN Unchanged ELSE row.key,
                     val |-> IF "val" \in toasted THEN Unchanged ELSE row.val]
       IN  deltas' = Fold(Fold(deltas, source[i], -1), Substituted(source[i], tuple), 1)
    /\ UNCHANGED <<truncated, target>>

Truncate ==
    /\ source' = [j \in {} |-> source[j]]
    /\ deltas' = [v \in Views |-> AfterTruncate(v)]
    /\ truncated' = Views
    /\ UNCHANGED target

Flush ==
    /\ target' = [v \in Views |-> Flushed(v)]
    /\ deltas' = [v \in Views |-> NoRows]
    /\ truncated' = {}
    /\ UNCHANGED source

Next ==
    \/ \E i \in RowId, row \in Row : Insert(i, row)
    \/ \E i \in RowId : Delete(i)
    \/ \E i \in RowId, row \in Row, toasted \in SUBSET {"key", "val"} : Update(i, row, toasted)
    \/ Truncate
    \/ Flush

Spec == Init /\ [][Next]_vars

-----------------------------------------------------------------------------
IsRows(f) == DOMAIN f \subseteq GroupKeys /\ f \in [DOMAIN f -> Storage]

(* Every variable holds a value of its kind, and no target counts less     *)
(* than no rows.                                                           *)
TypeOK ==
    /\ IsTable(source)
    /\ truncated \subseteq Views
    /\ DOMAIN deltas = Views /\ DOMAIN target = Views
    /\ \A v \in Views :
          /\ IsRows(deltas[v])
          /\ IsRows(target[v])
          /\ \A g \in DOMAIN target[v] : target[v][g].rows >= 0

(* Wherever the batch is cut, flushing it leaves the views as GROUP BY of  *)
(* the source would: the same groups, with NULL aggregates where it has    *)
(* them, whatever was inserted, moved between groups, cancelled out,       *)
(* emptied or truncated in between (DeltaBatch.statements).                *)
FlushIsGroundTruth == [v \in Views |-> Flushed(v)] = GroundTruth(source)

(* The views change only by becoming what recomputing them would give.     *)
Recompute == INSTANCE RecomputedViews

Implements == Recompute!Spec

(* Why: group by group, what the target keeps and what the batch adds make *)
(* up the measure of the group's rows; a group kept and not touched has    *)
(* rows; and the one row of a global view is kept or about to be inserted. *)
At(rows, g) == IF g \in DOMAIN rows THEN rows[g] ELSE Zeros

Bridge(v, table, kept, groups) ==
    /\ \A g \in GroupKeys : Plus(At(kept, g), At(groups, g)) = Measure(table, Members(table, v, g))
    /\ v \in Grouped =>
          \A g \in DOMAIN kept : g \notin DOMAIN groups => kept[g].rows > 0
    /\ v \notin Grouped => DOMAIN kept \cup DOMAIN groups = {<<>>}

DeltasBridge == \A v \in Views : Bridge(v, source, Kept(v), deltas[v])
=============================================================================
