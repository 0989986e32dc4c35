------------------------- MODULE SchemaDriftProofs --------------------------
(***************************************************************************)
(* The safety properties of SchemaDrift, for any tables, names and views   *)
(* and any number of events, changes and processes.                        *)
(***************************************************************************)
EXTENDS SchemaDrift, TLAPS

-----------------------------------------------------------------------------
(* What is applied lies before the checkpoint, what is buffered after it   *)
(* and has been read.                                                      *)
OpsInPlace ==
    /\ \A op \in applied : op[2] <= checkpoint
    /\ \A op \in buffer : checkpoint < op[2] /\ op[2] <= read

(* A table whose events the process routes to views was described to it    *)
(* with all columns, and one it routed there once is still called so.      *)
CacheFits ==
    /\ \A r \in RelId :
        described[r] # None /\ described[r].name \in Sources => described[r].fits
    /\ \A r \in viewRels : described[r] # None /\ described[r].name \in Sources

(* What has been read after the checkpoint is in the buffer, if any view   *)
(* is over it.                                                             *)
ReadIsBuffered ==
    \A n \in checkpoint + 1 .. read :
        wal[n].def.name \in Sources
            => <<wal[n].def.name, n>> \in buffer /\ Foldable(wal[n])

IInv ==
    /\ TypeOK
    /\ OpsInPlace
    /\ CacheFits
    /\ RoutedByName
    /\ DriftNeverPassed
    /\ ReadIsBuffered

-----------------------------------------------------------------------------
LEMMA InitIInv == Init => IInv
<1> SUFFICES ASSUME Init PROVE IInv
  OBVIOUS
<1> USE SchemaDriftAssumption DEF Init
<1>1. catalog \in [RelId -> Definition]
  BY DEF Definition
<1>2. wal \in Seq(Event) /\ Len(wal) = 0
  OBVIOUS
<1>3. described \in [RelId -> Definition \cup {None}]
  BY DEF NotDescribed
<1>4. up \in BOOLEAN /\ ~up
  OBVIOUS
<1>5. /\ changes \in 0 .. MaxChanges /\ processes \in 0 .. MaxProcesses
      /\ read \in 0 .. Len(wal) /\ checkpoint \in 0 .. Len(wal) /\ confirmed \in 0 .. checkpoint
      /\ Len(wal) <= MaxEvents
  BY <1>2
<1>6. TypeOK
  BY <1>1, <1>2, <1>3, <1>4, <1>5 DEF TypeOK
<1>7. OpsInPlace /\ CacheFits /\ RoutedByName /\ DriftNeverPassed /\ ReadIsBuffered
  BY DEF OpsInPlace, CacheFits, RoutedByName, DriftNeverPassed, ReadIsBuffered, NotDescribed
<1> QED
  BY <1>6, <1>7 DEF IInv

(* The next event, while there is one, and how the process knows it.       *)
LEMMA NextEventType ==
    ASSUME TypeOK, HasNext
    PROVE  /\ read + 1 \in 1 .. Len(wal) /\ Len(wal) \in Nat /\ read \in Nat
           /\ NextEvent = wal[read + 1] /\ NextEvent \in Event
           /\ NextEvent.rel \in RelId /\ NextEvent.def \in Definition
           /\ NextEvent.def # None
<1>1. /\ read + 1 \in 1 .. Len(wal) /\ Len(wal) \in Nat /\ read \in Nat
  BY DEF TypeOK, HasNext
<1>2. wal[read + 1] \in Event
  BY <1>1 DEF TypeOK
<1> QED
  BY <1>1, <1>2, SchemaDriftAssumption DEF NextEvent, Event, Definition

(* What the process knows of the table of a row is what held at the row.   *)
LEMMA CacheIsCurrent ==
    ASSUME TypeOK, HasNext, Described
    PROVE  CachedName = NextEvent.def.name /\ CachedName \in Name
BY NextEventType DEF TypeOK, Described, CachedName, Definition

(* A row's new operations.                                                 *)
LEMMA NewOpsOfRow ==
    ASSUME TypeOK, HasNext, Described
    PROVE  \A op \in NewOps :
               /\ op = <<NextEvent.def.name, read + 1>>
               /\ NextEvent.def.name \in Sources /\ read >= checkpoint
BY CacheIsCurrent DEF NewOps

(* Every step keeps the types.                                             *)
LEMMA TypeStep == IInv /\ [Next]_vars => TypeOK'
<1> SUFFICES ASSUME IInv, [Next]_vars PROVE TypeOK'
  OBVIOUS
<1> USE SchemaDriftAssumption
<1>1. ASSUME NEW r \in RelId, NEW def \in Definition, Alter(r, def)
      PROVE  TypeOK'
  BY <1>1 DEF Alter, IInv, TypeOK, processVars, viewVars
<1>2. ASSUME NEW r \in RelId, NEW kind \in Kinds, Commit(r, kind)
      PROVE  TypeOK'
  <2>1. [rel |-> r, kind |-> kind, def |-> catalog[r]] \in Event
    BY DEF IInv, TypeOK, Event
  <2>2. wal' \in Seq(Event) /\ Len(wal') = Len(wal) + 1 /\ Len(wal') <= MaxEvents
    BY <1>2, <2>1 DEF Commit, IInv, TypeOK
  <2> QED
    BY <1>2, <2>2 DEF Commit, IInv, TypeOK, processVars, viewVars
<1>3. CASE Start
  BY <1>3 DEF Start, IInv, TypeOK, sourceVars, viewVars
<1>4. CASE Ends
  <2>1. described' \in [RelId -> Definition \cup {None}]
    BY <1>4 DEF Ends, NotDescribed
  <2>2. up' \in BOOLEAN /\ ~up'
    BY <1>4 DEF Ends
  <2>3. read' \in 0 .. Len(wal)
    BY <1>4 DEF Ends, IInv, TypeOK
  <2> QED
    BY <1>4, <2>1, <2>2, <2>3 DEF Ends, IInv, TypeOK, sourceVars, viewVars
<1>5. CASE OnRelation
  <2>1. NextEvent.rel \in RelId /\ NextEvent.def \in Definition
    BY <1>5, NextEventType DEF OnRelation, IInv
  <2>2. described' \in [RelId -> Definition \cup {None}] /\ relations' = described'
    BY <1>5, <2>1 DEF OnRelation, Cached, IInv, TypeOK
  <2>3. viewRels' \subseteq RelId
    BY <1>5, <2>1 DEF OnRelation, IInv, TypeOK
  <2> QED
    BY <1>5, <2>2, <2>3 DEF OnRelation, HasNext, IInv, TypeOK, sourceVars, viewVars
<1>6. CASE OnRow
  <2>1. read' \in 0 .. Len(wal) /\ confirmed <= read'
    BY <1>6, NextEventType DEF OnRow, HasNext, IInv, TypeOK
  <2>2. buffer' \subseteq Operation
    <3>1. read + 1 \in 1 .. MaxEvents
      BY <1>6, NextEventType DEF OnRow, IInv, TypeOK
    <3> QED
      BY <1>6, <3>1, NewOpsOfRow DEF OnRow, IInv, TypeOK, Operation
  <2> QED
    BY <1>6, <2>1, <2>2 DEF OnRow, HasNext, IInv, TypeOK, sourceVars, viewVars
<1>7. CASE Flush
  BY <1>7 DEF Flush, IInv, TypeOK, sourceVars
<1>8. CASE Ack
  BY <1>8 DEF Ack, IInv, TypeOK, sourceVars, processVars
<1>9. CASE UNCHANGED vars
  BY <1>9 DEF IInv, TypeOK, vars, sourceVars, processVars, viewVars
<1> QED
  BY <1>1, <1>2, <1>3, <1>4, <1>5, <1>6, <1>7, <1>8, <1>9
     DEF Next, Source, Process, Crash, HaltOnRelation, HaltOnRow

(* A source's step keeps the events there are.                             *)
LEMMA EventsStay ==
    ASSUME IInv, [Next]_vars, NEW n \in 1 .. Len(wal)
    PROVE  wal'[n] = wal[n]
<1> USE DEF sourceVars
<1>1. ASSUME NEW r \in RelId, NEW kind \in Kinds, Commit(r, kind)
      PROVE  wal'[n] = wal[n]
  BY <1>1 DEF Commit, IInv, TypeOK
<1>2. UNCHANGED wal \/ \E r \in RelId, kind \in Kinds : Commit(r, kind)
  BY DEF Next, Source, Process, Alter, Start, Crash, Ends, OnRelation, HaltOnRelation,
         OnRow, HaltOnRow, Flush, Ack, vars
<1> QED
  BY <1>1, <1>2

LEMMA OpsStep == IInv /\ [Next]_vars => OpsInPlace'
<1> SUFFICES ASSUME IInv, [Next]_vars PROVE OpsInPlace'
  OBVIOUS
<1> USE DEF IInv, OpsInPlace
<1>1. ASSUME NEW r \in RelId, NEW def \in Definition, Alter(r, def)
      PROVE  OpsInPlace'
  BY <1>1 DEF Alter, processVars, viewVars
<1>2. ASSUME NEW r \in RelId, NEW kind \in Kinds, Commit(r, kind)
      PROVE  OpsInPlace'
  BY <1>2 DEF Commit, processVars, viewVars
<1>3. CASE Start
  BY <1>3 DEF Start, TypeOK, viewVars
<1>4. CASE Ends
  BY <1>4 DEF Ends, viewVars
<1>5. CASE OnRelation
  BY <1>5 DEF OnRelation, viewVars
<1>6. CASE OnRow
  <2>1. \A op \in NewOps : op[2] = read + 1 /\ checkpoint < read + 1
    BY <1>6, NewOpsOfRow DEF OnRow, TypeOK
  <2>2. \A op \in buffer : checkpoint < op[2] /\ op[2] <= read + 1
    BY DEF TypeOK, Operation
  <2> QED
    BY <1>6, <2>1, <2>2, NextEventType DEF OnRow, viewVars
<1>7. CASE Flush
  <2>1. \A op \in applied : op[2] <= read
    BY <1>7 DEF Flush, TypeOK, Operation
  <2> QED
    BY <1>7, <2>1 DEF Flush
<1>8. CASE Ack
  BY <1>8 DEF Ack, processVars
<1>9. CASE UNCHANGED vars
  BY <1>9 DEF vars, processVars, viewVars
<1> QED
  BY <1>1, <1>2, <1>3, <1>4, <1>5, <1>6, <1>7, <1>8, <1>9
     DEF Next, Source, Process, Crash, HaltOnRelation, HaltOnRow

LEMMA CacheStep == IInv /\ [Next]_vars => CacheFits'
<1> SUFFICES ASSUME IInv, [Next]_vars PROVE CacheFits'
  OBVIOUS
<1> USE DEF IInv, CacheFits
<1>1. CASE UNCHANGED <<described, viewRels>>
  BY <1>1
<1>2. CASE Ends
  BY <1>2 DEF Ends, NotDescribed
<1>3. CASE OnRelation
  <2>1. /\ NextEvent.rel \in RelId /\ NextEvent.def # None
        /\ NextEvent.def.name \in Sources => NextEvent.def.fits
        /\ NextEvent.rel \in viewRels => NextEvent.def.name \in Sources
    BY <1>3, NextEventType DEF OnRelation, Drifts
  <2>2. described' = [described EXCEPT ![NextEvent.rel] = NextEvent.def]
    BY <1>3 DEF OnRelation
  <2>3. viewRels' = IF NextEvent.def.name \in Sources
                    THEN viewRels \cup {NextEvent.rel} ELSE viewRels
    BY <1>3 DEF OnRelation
  <2>4. ASSUME NEW r \in RelId
        PROVE  described'[r] = IF r = NextEvent.rel THEN NextEvent.def ELSE described[r]
    BY <2>2 DEF TypeOK
  <2> QED
    BY <2>1, <2>3, <2>4 DEF TypeOK
<1>4. UNCHANGED <<described, viewRels>> \/ Ends \/ OnRelation
  BY DEF Next, Source, Process, Alter, Commit, Start, Crash, HaltOnRelation, OnRow, HaltOnRow,
         Flush, Ack, vars, processVars
<1> QED
  BY <1>1, <1>2, <1>3, <1>4

(* A row the process accepts can be folded, if a view is over its table.   *)
LEMMA AcceptedRow ==
    ASSUME IInv, OnRow, NextEvent.def.name \in Sources
    PROVE  Foldable(NextEvent)
<1>1. /\ HasNext /\ Described /\ CachedName \in Sources /\ ~LacksOldRow(NextEvent)
  BY CacheIsCurrent DEF OnRow, IInv
<1>2. NextEvent.rel \in RelId /\ NextEvent.def # None
  BY <1>1, NextEventType DEF IInv
<1>3. NextEvent.def.fits
  BY <1>1, <1>2 DEF IInv, CacheFits, Described
<1> QED
  BY <1>1, <1>3 DEF LacksOldRow, Foldable

LEMMA RoutedStep == IInv /\ [Next]_vars => RoutedByName'
<1> SUFFICES ASSUME IInv, [Next]_vars, NEW op \in applied' \cup buffer'
             PROVE  wal'[op[2]].def.name = op[1] /\ Foldable(wal'[op[2]])
  BY DEF RoutedByName, Foldable
<1>1. CASE op \in applied \cup buffer
  <2>1. op[2] \in 1 .. Len(wal)
    BY <1>1 DEF IInv, TypeOK, OpsInPlace, Operation
  <2> QED
    BY <1>1, <2>1, EventsStay DEF IInv, RoutedByName
<1>2. CASE OnRow /\ op \in NewOps
  <2>1. /\ op = <<NextEvent.def.name, read + 1>> /\ NextEvent.def.name \in Sources
        /\ NextEvent = wal[read + 1]
    BY <1>2, NewOpsOfRow, NextEventType DEF OnRow, IInv
  <2>2. UNCHANGED wal /\ Foldable(wal[read + 1])
    BY <1>2, <2>1, AcceptedRow DEF OnRow, sourceVars
  <2> QED
    BY <2>1, <2>2
<1>3. op \in applied \cup buffer \/ (OnRow /\ op \in NewOps)
  BY DEF Next, Source, Process, Alter, Commit, Start, Crash, Ends, OnRelation, HaltOnRelation,
         OnRow, HaltOnRow, Flush, Ack, vars, processVars, viewVars
<1> QED
  BY <1>1, <1>2, <1>3

LEMMA BufferedStep == IInv /\ [Next]_vars => ReadIsBuffered'
<1> SUFFICES ASSUME IInv, [Next]_vars, NEW n \in checkpoint' + 1 .. read',
                    wal'[n].def.name \in Sources
             PROVE  <<wal'[n].def.name, n>> \in buffer' /\ Foldable(wal'[n])
  BY DEF ReadIsBuffered, Foldable
<1>1. CASE UNCHANGED <<read, buffer, checkpoint>>
  <2>1. n \in 1 .. Len(wal) /\ n \in checkpoint + 1 .. read
    BY <1>1 DEF IInv, TypeOK
  <2> QED
    BY <1>1, <2>1, EventsStay DEF IInv, ReadIsBuffered
<1>2. CASE Start \/ Ends \/ Flush
  BY <1>2 DEF Start, Ends, Flush, IInv, TypeOK, viewVars
<1>3. CASE OnRow
  <2>1. /\ UNCHANGED <<wal, checkpoint>> /\ read' = read + 1 /\ read \in Nat
        /\ buffer' = buffer \cup NewOps /\ checkpoint \in Nat
    BY <1>3 DEF OnRow, sourceVars, viewVars, IInv, TypeOK
  <2>2. CASE n = read + 1
    <3>1. NextEvent = wal[n] /\ NextEvent.def.name \in Sources /\ read >= checkpoint
      BY <1>3, <2>1, <2>2, NextEventType DEF OnRow, IInv
    <3>2. Foldable(NextEvent)
      BY <1>3, <3>1, AcceptedRow
    <3>3. <<NextEvent.def.name, n>> \in NewOps
      BY <1>3, <2>2, <3>1, CacheIsCurrent DEF OnRow, NewOps, IInv
    <3> QED
      BY <2>1, <3>1, <3>2, <3>3
  <2>3. CASE n # read + 1
    <3>1. n \in checkpoint + 1 .. read
      BY <2>1, <2>3
    <3> QED
      BY <2>1, <3>1 DEF IInv, ReadIsBuffered
  <2> QED
    BY <2>2, <2>3
<1>4. UNCHANGED <<read, buffer, checkpoint>> \/ Start \/ Ends \/ Flush \/ OnRow
  BY DEF Next, Source, Process, Alter, Commit, Crash, OnRelation, HaltOnRelation, HaltOnRow,
         Ack, vars, processVars, viewVars
<1> QED
  BY <1>1, <1>2, <1>3, <1>4

LEMMA PassedStep == IInv /\ [Next]_vars => DriftNeverPassed'
<1> SUFFICES ASSUME IInv, [Next]_vars, NEW n \in 1 .. checkpoint', wal'[n].def.name \in Sources
             PROVE  <<wal'[n].def.name, n>> \in applied' /\ Foldable(wal'[n])
  BY DEF DriftNeverPassed, Foldable
<1>1. CASE UNCHANGED <<checkpoint, applied>>
  <2>1. n \in 1 .. Len(wal) /\ n \in 1 .. checkpoint
    BY <1>1 DEF IInv, TypeOK
  <2> QED
    BY <1>1, <2>1, EventsStay DEF IInv, DriftNeverPassed
<1>2. CASE Flush
  <2>1. /\ UNCHANGED wal /\ checkpoint' = read /\ applied' = applied \cup buffer
        /\ n \in 1 .. checkpoint \/ n \in checkpoint + 1 .. read
    BY <1>2 DEF Flush, sourceVars, IInv, TypeOK
  <2> QED
    BY <2>1 DEF IInv, DriftNeverPassed, ReadIsBuffered
<1>3. UNCHANGED <<checkpoint, applied>> \/ Flush
  BY DEF Next, Source, Process, Alter, Commit, Start, Crash, Ends, OnRelation,
         HaltOnRelation, OnRow, HaltOnRow, Ack, vars, viewVars
<1> QED
  BY <1>1, <1>2, <1>3

(* The inductive invariant.                                                *)
THEOREM DriftInvariance == Spec => []IInv
<1>1. IInv /\ [Next]_vars => IInv'
  BY TypeStep, OpsStep, CacheStep, RoutedStep, BufferedStep, PassedStep DEF IInv
<1> QED
  BY <1>1, InitIInv, PTL DEF Spec

-----------------------------------------------------------------------------
(* The states are of the declared types, and the cache is what the session *)
(* has described.                                                          *)
THEOREM DriftTypes == Spec => []TypeOK
<1>1. IInv => TypeOK
  BY DEF IInv
<1> QED
  BY <1>1, DriftInvariance, PTL

(* Events reach the views over the name their table had, and only if they  *)
(* can be folded (_on_relation, _row_ops).                                 *)
THEOREM Routing == Spec => []RoutedByName
<1>1. IInv => RoutedByName
  BY DEF IInv
<1> QED
  BY <1>1, DriftInvariance, PTL

(* No restart passes an event under a configured name unapplied.           *)
THEOREM DriftStops == Spec => []DriftNeverPassed
<1>1. IInv => DriftNeverPassed
  BY DEF IInv
<1> QED
  BY <1>1, DriftInvariance, PTL

(* A process does not begin to ignore a table whose events it routed.      *)
THEOREM NoFreezeInProcess == Spec => NeverFreezesInProcess
<1> DEFINE Step == \A n \in checkpoint + 1 .. MaxEvents :
                      (up /\ n = read + 1 /\ read' = n /\ wal[n].rel \in viewRels)
                        => \E s \in Sources : <<s, n>> \in buffer'
<1>1. IInv /\ [Next]_vars => [Step]_vars
  <2> SUFFICES ASSUME IInv, [Next]_vars, NEW n \in checkpoint + 1 .. MaxEvents,
                      up, n = read + 1, read' = n, wal[n].rel \in viewRels
               PROVE  \E s \in Sources : <<s, n>> \in buffer'
    OBVIOUS
  <2>1. read' # read /\ read >= checkpoint /\ read \in Nat
    BY DEF IInv, TypeOK
  <2>2. ~Start /\ ~Ends
    BY <2>1 DEF Start, Ends
  <2>3. OnRow
    BY <2>1, <2>2 DEF Next, Source, Process, Alter, Commit, Crash, OnRelation,
                HaltOnRelation, HaltOnRow, Flush, Ack, vars, processVars
  <2>4. NextEvent = wal[n] /\ CachedName = described[NextEvent.rel].name
    BY <2>3, NextEventType DEF OnRow, IInv, TypeOK, CachedName
  <2>5. CachedName \in Sources
    BY <2>4 DEF IInv, CacheFits
  <2> QED
    BY <2>1, <2>3, <2>5 DEF OnRow, NewOps
<1> QED
  BY <1>1, DriftInvariance, PTL DEF Spec, NeverFreezesInProcess
=============================================================================
