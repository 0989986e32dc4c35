----------------------------- MODULE SchemaDrift ----------------------------
(***************************************************************************)
(* How row events find their views: the relation cache of a daemon process *)
(* (_on_relation and _row_ops of daemon.py), fed by a source whose tables  *)
(* are renamed and altered while the daemon runs, halts and is restarted.  *)
(*                                                                         *)
(* The publication follows a table's identity, the views its name.  Before *)
(* an event of a table, a session describes the table as it was at that    *)
(* event, unless it did so already.  Every event is a transaction of its   *)
(* own; the n-th of them ends at n.  The views over one table stand or     *)
(* fall together, so they are represented by the table's name.  A session  *)
(* starts at what the slot has confirmed, which a lost acknowledgement     *)
(* leaves behind the checkpoint; what it redelivers is read, but not       *)
(* applied.                                                                *)
(***************************************************************************)
EXTENDS Naturals, Sequences

CONSTANTS
    RelId,             \* the published tables
    Name,              \* names a table can have, schema included
    Sources,           \* those some view is over (keys of _views_by_table)
    InitialName,       \* the names the tables had when setup ran
    None,              \* not described, not cached
    MaxEvents,         \* bound: row events
    MaxChanges,        \* bound: changes to the tables' definitions
    MaxProcesses       \* bound: daemon processes

ASSUME SchemaDriftAssumption ==
    /\ Sources \subseteq Name
    /\ InitialName \in [RelId -> Name]
    /\ None \notin [name : Name, fits : BOOLEAN, full : BOOLEAN]
    /\ MaxEvents \in Nat /\ MaxChanges \in Nat /\ MaxProcesses \in Nat

VARIABLES
    catalog,           \* definition of each table
    wal,               \* events on them
    changes,           \* changes so far
    up,                \* a process is running
    processes,         \* processes so far
    described,         \* what its session has described of each table
    relations,         \* Daemon._relations
    viewRels,          \* Daemon._view_rel_ids
    read,              \* events handled by the process
    buffer,            \* sealed operations not yet flushed
    confirmed,         \* events before the slot's position
    checkpoint,        \* events before the checkpoint
    applied            \* operations in the views

sourceVars  == <<catalog, wal, changes>>
processVars == <<up, processes, described, relations, viewRels, read, buffer>>
viewVars    == <<confirmed, checkpoint, applied>>
vars == <<sourceVars, processVars, viewVars>>

-----------------------------------------------------------------------------
(* A definition: the table's name, whether it has every column its views   *)
(* need, whether its replica identity is FULL.                             *)
Definition == [name : Name, fits : BOOLEAN, full : BOOLEAN]

(* An update or a delete needs the old row; an insert or a truncate not.   *)
Kinds == {"insert", "change"}

Event == [rel : RelId, kind : Kinds, def : Definition]

(* An operation: the n-th event, resolved to the views over a table.       *)
Operation == Sources \X (1 .. MaxEvents)

NotDescribed == [r \in RelId |-> None]

-----------------------------------------------------------------------------
(* A relation message replaces the cached relation.                        *)
(* (mutant) The first one stays.                                           *)
CachedFirst(r, def) == IF relations[r] = None THEN def ELSE relations[r]
Cached(r, def) == def

(* It ends the process if the table had views under its old name, or lacks *)
(* a column.  (mutants) Only columns matter; only a table's first          *)
(* description is looked at.                                               *)
DriftsByColumns(r, def) == def.name \in Sources /\ ~def.fits
DriftsAtFirst(r, def) == def.name \in Sources /\ ~def.fits /\ r \notin viewRels
Drifts(r, def) ==
    IF def.name \in Sources THEN ~def.fits ELSE r \in viewRels

(* An update or a delete must bring the old row.  (mutant) It may be gone. *)
LacksOldRowNever(event) == FALSE
LacksOldRow(event) == event.kind = "change" /\ ~event.def.full

-----------------------------------------------------------------------------
Init ==
    /\ catalog = [r \in RelId |-> [name |-> InitialName[r], fits |-> TRUE, full |-> TRUE]]
    /\ wal = <<>>
    /\ changes = 0
    /\ up = FALSE
    /\ processes = 0
    /\ described = NotDescribed
    /\ relations = NotDescribed
    /\ viewRels = {}
    /\ read = 0
    /\ buffer = {}
    /\ confirmed = 0
    /\ checkpoint = 0
    /\ applied = {}

(* ALTER TABLE: a free name, columns, or the replica identity.             *)
Alter(r, def) ==
    /\ changes < MaxChanges
    /\ def # catalog[r]
    /\ \A s \in RelId \ {r} : catalog[s].name # def.name
    /\ catalog' = [catalog EXCEPT ![r] = def]
    /\ changes' = changes + 1
    /\ UNCHANGED <<wal, processVars, viewVars>>

Commit(r, kind) ==
    /\ Len(wal) < MaxEvents
    /\ wal' = Append(wal, [rel |-> r, kind |-> kind, def |-> catalog[r]])
    /\ UNCHANGED <<catalog, changes, processVars, viewVars>>

-----------------------------------------------------------------------------
(* A process starts with an empty memory, and so does its session, at the  *)
(* position of the slot.                                                   *)
Start ==
    /\ ~up
    /\ processes < MaxProcesses
    /\ up' = TRUE
    /\ processes' = processes + 1
    /\ read' = confirmed
    /\ UNCHANGED <<sourceVars, described, relations, viewRels, buffer, viewVars>>

Ends ==
    /\ up' = FALSE
    /\ described' = NotDescribed
    /\ relations' = NotDescribed
    /\ viewRels' = {}
    /\ read' = 0
    /\ buffer' = {}
    /\ UNCHANGED <<sourceVars, processes, viewVars>>

Crash == up /\ Ends

-----------------------------------------------------------------------------
NextEvent == wal[read + 1]

HasNext == up /\ read < Len(wal)

Described == described[NextEvent.rel] = NextEvent.def

(* _on_relation                                                            *)
OnRelation ==
    /\ HasNext
    /\ ~Described
    /\ LET r == NextEvent.rel
           def == NextEvent.def
       IN  /\ ~Drifts(r, def)
           /\ described' = [described EXCEPT ![r] = def]
           /\ relations' = [relations EXCEPT ![r] = Cached(r, def)]
           /\ viewRels' = IF def.name \in Sources THEN viewRels \cup {r} ELSE viewRels
    /\ UNCHANGED <<sourceVars, up, processes, read, buffer, viewVars>>

HaltOnRelation ==
    /\ HasNext
    /\ ~Described
    /\ Drifts(NextEvent.rel, NextEvent.def)
    /\ Ends

CachedName == relations[NextEvent.rel].name

(* _row_ops, and the skip rule at the commit: a table no view is over      *)
(* yields no operation, and a redelivered event none that is kept.         *)
NewOps ==
    IF CachedName \in Sources /\ read >= checkpoint
    THEN {<<CachedName, read + 1>>} ELSE {}

OnRow ==
    /\ HasNext
    /\ Described
    /\ CachedName \in Sources => ~LacksOldRow(NextEvent)
    /\ read' = read + 1
    /\ buffer' = buffer \cup NewOps
    /\ UNCHANGED <<sourceVars, up, processes, described, relations, viewRels, viewVars>>

HaltOnRow ==
    /\ HasNext
    /\ Described
    /\ CachedName \in Sources /\ LacksOldRow(NextEvent)
    /\ Ends

Flush ==
    /\ up
    /\ checkpoint < read
    /\ applied' = applied \cup buffer
    /\ checkpoint' = read
    /\ buffer' = {}
    /\ UNCHANGED <<sourceVars, up, processes, described, relations, viewRels, read>>
    /\ UNCHANGED confirmed

(* The acknowledgement of a flush, which the end of the process may lose.  *)
Ack ==
    /\ up
    /\ confirmed < checkpoint /\ checkpoint <= read
    /\ confirmed' = checkpoint
    /\ UNCHANGED <<sourceVars, processVars, checkpoint, applied>>

-----------------------------------------------------------------------------
Source ==
    \/ \E r \in RelId, def \in Definition : Alter(r, def)
    \/ \E r \in RelId, kind \in Kinds : Commit(r, kind)

Process ==
    \/ Start \/ Crash
    \/ OnRelation \/ HaltOnRelation \/ OnRow \/ HaltOnRow
    \/ Flush \/ Ack

Next == Source \/ Process

Spec == Init /\ [][Next]_vars

-----------------------------------------------------------------------------
(* The states are of the declared types, memory is empty between two       *)
(* processes, and the cache is what the session has described.             *)
TypeOK ==
    /\ catalog \in [RelId -> Definition]
    /\ wal \in Seq(Event) /\ Len(wal) <= MaxEvents
    /\ changes \in 0 .. MaxChanges
    /\ up \in BOOLEAN /\ processes \in 0 .. MaxProcesses
    /\ described \in [RelId -> Definition \cup {None}]
    /\ relations = described
    /\ viewRels \subseteq RelId
    /\ read \in 0 .. Len(wal)
    /\ checkpoint \in 0 .. Len(wal)
    /\ buffer \subseteq Operation
    /\ applied \subseteq Operation
    /\ confirmed \in 0 .. checkpoint
    /\ up => confirmed <= read
    /\ ~up => described = NotDescribed /\ viewRels = {} /\ read = 0 /\ buffer = {}

(* An event changes the views over the name its table had at the event and *)
(* no others, and only if it can be folded: every column is there, and the *)
(* old row where there is one.                                             *)
Foldable(event) == event.def.fits /\ ~(event.kind = "change" /\ ~event.def.full)

RoutedByName ==
    \A op \in applied \cup buffer :
        wal[op[2]].def.name = op[1] /\ Foldable(wal[op[2]])

(* However often it is restarted, the daemon does not pass an event of a   *)
(* table under a configured name without applying it: one it cannot fold   *)
(* stops it for good.                                                      *)
DriftNeverPassed ==
    \A n \in 1 .. checkpoint :
        wal[n].def.name \in Sources
            => <<wal[n].def.name, n>> \in applied /\ Foldable(wal[n])

(* A process that has routed a table's events to views does not ignore the *)
(* table later on, whatever it is called by then (what it is sent again,   *)
(* its predecessor applied).                                               *)
NeverFreezesInProcess ==
    [][\A n \in checkpoint + 1 .. MaxEvents :
          (up /\ n = read + 1 /\ read' = n /\ wal[n].rel \in viewRels)
            => \E s \in Sources : <<s, n>> \in buffer']_vars

(* Nor, says docs/SPEC.md:445-448, do the views of a table that once had   *)
(* any ever silently freeze.  They do: a restarted process has no memory   *)
(* of the table.                                                           *)
NeverFreezes ==
    \A n \in 1 .. checkpoint :
        (\E op \in applied : op[2] < n /\ wal[op[2]].rel = wal[n].rel)
            => \E s \in Sources : <<s, n>> \in applied

(* Nor, says DESIGN.md:266-267, are views quietly fed from another table   *)
(* than the one they were backfilled from.  They are, when that table has  *)
(* taken over the configured name.                                         *)
FedByTheirTable ==
    \A op \in applied : InitialName[wal[op[2]].rel] = op[1]
=============================================================================
