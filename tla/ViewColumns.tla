----------------------------- MODULE ViewColumns -----------------------------
(***************************************************************************)
(* From a view of the configuration to the columns of its target table:    *)
(* what _parse_view and _parse_aggregate of config.py accept, and the      *)
(* names target_ddl of aggregates.py makes of it.                          *)
(*                                                                         *)
(* An identifier is a stem of some length and a suffix; of identifiers the *)
(* code knows no more than whether they are equal, how long they are, and  *)
(* whether they end in one of the suffixes it uses itself.                 *)
(***************************************************************************)
EXTENDS Naturals, Sequences, SequencesExt

CONSTANTS
    Stems,             \* stems, among them the two bookkeeping columns
    StemBytes,         \* their lengths
    RowsColumn,        \* __walflux_rows
    GlobalKey,         \* __walflux_all
    MaxGroupBy,        \* bound: group_by columns of a view
    MaxAggregates      \* bound: aggregates of a view

ASSUME ViewColumnsAssumption ==
    /\ {RowsColumn, GlobalKey} \subseteq Stems
    /\ StemBytes \in [Stems -> Nat]
    /\ StemBytes[RowsColumn] <= 63 /\ StemBytes[GlobalKey] <= 63
    /\ MaxGroupBy \in Nat /\ MaxAggregates \in Nat

VARIABLES
    groupBy,           \* group_by columns accepted so far
    aggregates,        \* aggregates accepted so far
    parsing            \* "group_by", "aggregates", then "accepted" or "ConfigError"

viewVars == <<groupBy, aggregates, parsing>>

-----------------------------------------------------------------------------
MaxIdentBytes == 63

StorageSuffixes == {"none", "__sum", "__nn"}

Identifier == [stem : Stems, suffix : StorageSuffixes]

Named(stem) == [stem |-> stem, suffix |-> "none"]

SuffixBytes(suffix) == CASE suffix = "none" -> 0 [] suffix = "__nn" -> 4 [] suffix = "__sum" -> 5

Bytes(id) == StemBytes[id.stem] + SuffixBytes(id.suffix)

Fns == {"count", "sum", "avg"}

Aggregate == [fn : Fns, alias : Identifier]

Summed(agg) == agg.fn \in {"sum", "avg"}

IsIdent(id) == Bytes(id) <= MaxIdentBytes

-----------------------------------------------------------------------------
(* The checks of a group_by column and of an aggregate's alias.            *)
MayGroupBy(col) ==
    /\ IsIdent(col)
    /\ col # Named(RowsColumn)
    /\ \A i \in DOMAIN groupBy : groupBy[i] # col

(* (mutant) Suffixes are free to use.                                      *)
ReservedRows(alias) == alias = Named(RowsColumn)
Reserved(alias) == alias = Named(RowsColumn) \/ alias.suffix # "none"

(* A summed alias leaves room for its storage columns.  (mutant) For the   *)
(* shorter of them.                                                        *)
StorageBytesShort == SuffixBytes("__nn")
StorageBytes == SuffixBytes("__sum")

MayAggregate(agg) ==
    /\ IsIdent(agg.alias)
    /\ \A i \in DOMAIN aggregates : aggregates[i].alias # agg.alias
    /\ \A i \in DOMAIN groupBy : groupBy[i] # agg.alias
    /\ ~Reserved(agg.alias)
    /\ Summed(agg) => Bytes(agg.alias) + StorageBytes <= MaxIdentBytes

-----------------------------------------------------------------------------
ViewInit ==
    /\ groupBy = <<>>
    /\ aggregates = <<>>
    /\ parsing = "group_by"

ParseGroupBy(col) ==
    /\ parsing = "group_by"
    /\ Len(groupBy) < MaxGroupBy
    /\ \/ MayGroupBy(col) /\ groupBy' = Append(groupBy, col) /\ UNCHANGED parsing
       \/ ~MayGroupBy(col) /\ parsing' = "ConfigError" /\ UNCHANGED groupBy
    /\ UNCHANGED aggregates

GroupByEnds ==
    /\ parsing = "group_by"
    /\ parsing' = "aggregates"
    /\ UNCHANGED <<groupBy, aggregates>>

ParseAggregate(agg) ==
    /\ parsing = "aggregates"
    /\ Len(aggregates) < MaxAggregates
    /\ \/ MayAggregate(agg) /\ aggregates' = Append(aggregates, agg) /\ UNCHANGED parsing
       \/ ~MayAggregate(agg) /\ parsing' = "ConfigError" /\ UNCHANGED aggregates
    /\ UNCHANGED groupBy

(* A view needs an aggregate.                                              *)
AggregatesEnd ==
    /\ parsing = "aggregates"
    /\ parsing' = IF aggregates = <<>> THEN "ConfigError" ELSE "accepted"
    /\ UNCHANGED <<groupBy, aggregates>>

ViewNext ==
    \/ \E col \in Identifier : ParseGroupBy(col)
    \/ \E agg \in Aggregate : ParseAggregate(agg)
    \/ GroupByEnds \/ AggregatesEnd

ViewSpec == ViewInit /\ [][ViewNext]_viewVars

-----------------------------------------------------------------------------
(* target_ddl: the key columns, the row count, and of each aggregate its   *)
(* storage columns, to which the generated column of a sum or an average   *)
(* is added.                                                               *)
KeyColumns == IF groupBy = <<>> THEN <<Named(GlobalKey)>> ELSE groupBy

Storage(alias, suffix) == [stem |-> alias.stem, suffix |-> suffix]

AggregateColumns(agg) ==
    IF Summed(agg)
    THEN <<Storage(agg.alias, "__sum"), Storage(agg.alias, "__nn"), agg.alias>>
    ELSE <<agg.alias>>

TargetColumns ==
    KeyColumns \o <<Named(RowsColumn)>>
        \o FlattenSeq([i \in DOMAIN aggregates |-> AggregateColumns(aggregates[i])])

-----------------------------------------------------------------------------
(* Every name made of an accepted view is one quote_ident lets pass, so    *)
(* that setup does not fail halfway on a name the configuration allowed    *)
(* (config.py:128-133, common.py:64).                                      *)
NamesFit ==
    parsing = "accepted" =>
        \A i \in DOMAIN TargetColumns : Bytes(TargetColumns[i]) <= MaxIdentBytes

(* No two columns of a target table have the same name, except in the two  *)
(* ways the checks overlook: a group_by column named like the storage of   *)
(* an alias, and an alias named like the key of a global view              *)
(* (config.py:123-127, 163-169).                                           *)
Overlooked(col) ==
    \/ groupBy = <<>> /\ col = Named(GlobalKey)
    \/ col.suffix # "none" /\ \E i \in DOMAIN groupBy : groupBy[i] = col

ColumnsDistinct ==
    parsing = "accepted" =>
        \A i, j \in DOMAIN TargetColumns :
            i < j /\ TargetColumns[i] = TargetColumns[j] => Overlooked(TargetColumns[i])
=============================================================================
