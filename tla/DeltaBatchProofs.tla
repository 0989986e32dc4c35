-------------------------- MODULE DeltaBatchProofs --------------------------
(***************************************************************************)
(* Proofs about DeltaBatch: a flush yields the ground truth, and so the    *)
(* batch implements RecomputedViews.                                       *)
(*                                                                         *)
(* Measure is a count of sets, so adding one row to a set of rows adds its *)
(* Contribution (MeasureAdd).  From that, folding an event keeps the       *)
(* Bridge between target, deltas and source (FoldAdds, FoldRemoves), and   *)
(* the Bridge is what makes the statements' outcome GROUP BY (BridgeIs-    *)
(* GroundTruth).                                                           *)
(***************************************************************************)
EXTENDS DeltaBatch, FiniteSetTheorems, TLAPS

(* Sums count units: adding a row whose amount is n adds n units when n is *)
(* positive and none otherwise.                                            *)
UnitsUnder(height, S) == {u \in S \X (1 .. MaxValue) : u[2] <= height[u[1]]}

LEMMA UnitsFinite ==
  ASSUME NEW height, NEW S, IsFiniteSet(S)
  PROVE  IsFiniteSet(UnitsUnder(height, S)) /\ Cardinality(UnitsUnder(height, S)) \in Nat
<1>1. IsFiniteSet(S \X (1 .. MaxValue))
  <2>1. MaxValue \in Int /\ 1 \in Int
    BY AggregatesAssumption
  <2>2. IsFiniteSet(1 .. MaxValue)
    BY <2>1, FS_Interval
  <2> QED
    BY <2>2, FS_Product
<1>2. UnitsUnder(height, S) \in SUBSET (S \X (1 .. MaxValue))
  BY DEF UnitsUnder
<1> QED
  BY <1>1, <1>2, FS_Subset, FS_CardinalityType

LEMMA UnitsAdd ==
  ASSUME NEW S, IsFiniteSet(S), NEW i, i \notin S, NEW f, NEW h,
         \A j \in S : h[j] = f[j], h[i] \in Value
  PROVE  Cardinality(UnitsUnder(h, S \cup {i})) =
            Cardinality(UnitsUnder(f, S)) + (IF h[i] > 0 THEN h[i] ELSE 0)
<1> DEFINE n == IF h[i] > 0 THEN h[i] ELSE 0
           New == {i} \X (1 .. n)
<1>1. n \in 0 .. MaxValue /\ MaxValue \in Nat /\ h[i] \in Int
  BY AggregatesAssumption DEF Value
<1>2. UnitsUnder(h, S \cup {i}) = UnitsUnder(f, S) \cup New
  <2>1. ASSUME NEW u \in UnitsUnder(h, S \cup {i}) PROVE u \in UnitsUnder(f, S) \cup New
    <3>1. u = <<u[1], u[2]>> /\ u[1] \in S \cup {i} /\ u[2] \in 1 .. MaxValue /\ u[2] <= h[u[1]]
      BY DEF UnitsUnder
    <3>2. CASE u[1] = i
      <4>1. u[2] \in 1 .. n
        BY <3>1, <3>2, <1>1
      <4> QED
        BY <3>1, <3>2, <4>1
    <3>3. CASE u[1] \in S
      BY <3>1, <3>3 DEF UnitsUnder
    <3> QED
      BY <3>1, <3>2, <3>3
  <2>2. ASSUME NEW u \in UnitsUnder(f, S) PROVE u \in UnitsUnder(h, S \cup {i})
    BY DEF UnitsUnder
  <2>3. ASSUME NEW u \in New PROVE u \in UnitsUnder(h, S \cup {i})
    <3>1. u = <<u[1], u[2]>> /\ u[1] = i /\ u[2] \in 1 .. n
      OBVIOUS
    <3>2. u[2] \in 1 .. MaxValue /\ u[2] <= h[i]
      BY <3>1, <1>1
    <3> QED
      BY <3>1, <3>2 DEF UnitsUnder
  <2> QED
    BY <2>1, <2>2, <2>3
<1>3. UnitsUnder(f, S) \cap New = {}
  BY DEF UnitsUnder
<1> HIDE DEF n
<1>4. IsFiniteSet(New) /\ Cardinality(New) = n
  <2>1. IsFiniteSet({i}) /\ Cardinality({i}) = 1
    BY FS_Singleton
  <2>2. n \in Int /\ n >= 0 /\ 1 \in Int
    BY <1>1
  <2>3. IsFiniteSet(1 .. n) /\ Cardinality(1 .. n) = IF 1 > n THEN 0 ELSE n - 1 + 1
    BY <2>2, FS_Interval
  <2>4. Cardinality(1 .. n) = n
    BY <2>2, <2>3
  <2>5. IsFiniteSet(New) /\ Cardinality(New) = Cardinality({i}) * Cardinality(1 .. n)
    BY <2>1, <2>3, FS_Product
  <2>6. 1 * n = n
    BY <2>2
  <2> QED
    BY <2>1, <2>4, <2>5, <2>6
<1>5. IsFiniteSet(UnitsUnder(f, S)) /\ Cardinality(UnitsUnder(f, S)) \in Nat
  BY UnitsFinite
<1> HIDE DEF New
<1>6. Cardinality(UnitsUnder(f, S) \cup New) =
        Cardinality(UnitsUnder(f, S)) + Cardinality(New) - Cardinality(UnitsUnder(f, S) \cap New)
  BY <1>4, <1>5, FS_Union
<1>7. Cardinality({}) = 0
  BY FS_EmptySet
<1>8. Cardinality(UnitsUnder(h, S \cup {i})) = Cardinality(UnitsUnder(f, S)) + n - 0
  BY <1>2, <1>3, <1>4, <1>6, <1>7
<1>9. Cardinality(UnitsUnder(h, S \cup {i})) = Cardinality(UnitsUnder(f, S)) + n
  BY <1>1, <1>5, <1>8
<1> QED
  BY <1>9 DEF n

(* Above and below zero are units under the amounts and their negations.   *)
Up(table) == [j \in DOMAIN table |-> Amount(table[j])]
Down(table) == [j \in DOMAIN table |-> -Amount(table[j])]

LEMMA UnitsAreUnder ==
  ASSUME NEW table, NEW S \in SUBSET DOMAIN table
  PROVE  /\ UnitsAbove(table, S) = UnitsUnder(Up(table), S)
         /\ UnitsBelow(table, S) = UnitsUnder(Down(table), S)
BY DEF UnitsAbove, UnitsBelow, UnitsUnder, Up, Down

LEMMA AmountType ==
  ASSUME NEW row \in Row
  PROVE  Amount(row) \in Value /\ -Amount(row) \in Value /\ Amount(row) \in Int
BY AggregatesAssumption DEF Amount, Row, Value

(* A measure is made of integers, and counts no rows only of the empty set.*)
LEMMA MeasureType ==
  ASSUME NEW table, NEW S \in SUBSET DOMAIN table, IsFiniteSet(S)
  PROVE  /\ Measure(table, S) \in Storage
         /\ Measure(table, S).rows \in Nat
         /\ Measure(table, S).rows = 0 <=> S = {}
         /\ S = {} => Measure(table, S) = Zeros
<1>1. Cardinality(S) \in Nat /\ (Cardinality(S) = 0 <=> S = {})
  BY FS_CardinalityType, FS_EmptySet
<1>2. Counted(table, S) \in SUBSET S
  BY DEF Counted
<1>3. Cardinality(Counted(table, S)) \in Nat
  BY <1>2, FS_Subset, FS_CardinalityType
<1>4. Cardinality(UnitsAbove(table, S)) \in Nat /\ Cardinality(UnitsBelow(table, S)) \in Nat
  BY UnitsAreUnder, UnitsFinite
<1>5. Measure(table, S) \in Storage /\ Measure(table, S).rows = Cardinality(S)
  BY <1>1, <1>3, <1>4 DEF Measure, Storage
<1>6. ASSUME S = {} PROVE Measure(table, S) = Zeros
  <2>1. Counted(table, S) = {} /\ UnitsAbove(table, S) = {} /\ UnitsBelow(table, S) = {}
    BY <1>6 DEF Counted, UnitsAbove, UnitsBelow
  <2>2. Cardinality({}) = 0
    BY FS_EmptySet
  <2> QED
    BY <1>6, <2>1, <2>2 DEF Measure, Zeros
<1> QED
  BY <1>1, <1>5, <1>6

(* The measure of some rows does not depend on the others.                 *)
LEMMA MeasureLocal ==
  ASSUME NEW s, NEW t, NEW S, \A j \in S : s[j] = t[j]
  PROVE  Measure(s, S) = Measure(t, S)
<1>1. Counted(s, S) = Counted(t, S)
  BY DEF Counted
<1>2. UnitsAbove(s, S) = UnitsAbove(t, S) /\ UnitsBelow(s, S) = UnitsBelow(t, S)
  BY DEF UnitsAbove, UnitsBelow
<1> QED
  BY <1>1, <1>2 DEF Measure

(* One more row adds its contribution.                                     *)
LEMMA MeasureAdd ==
  ASSUME NEW t, NEW S \in SUBSET DOMAIN t, IsFiniteSet(S),
         NEW i \in DOMAIN t, i \notin S, t[i] \in Row
  PROVE  Measure(t, S \cup {i}) = Plus(Measure(t, S), Contribution(t[i]))
<1>1. Cardinality(S \cup {i}) = Cardinality(S) + 1
  BY FS_AddElement
<1>2. Cardinality(Counted(t, S \cup {i})) =
        Cardinality(Counted(t, S)) + (IF t[i].val = Null THEN 0 ELSE 1)
  <2>1. Counted(t, S) \in SUBSET S
    BY DEF Counted
  <2>2. IsFiniteSet(Counted(t, S)) /\ i \notin Counted(t, S) /\ Cardinality(Counted(t, S)) \in Nat
    BY <2>1, FS_Subset, FS_CardinalityType
  <2>3. CASE t[i].val = Null
    <3>1. Counted(t, S \cup {i}) = Counted(t, S)
      BY <2>3 DEF Counted
    <3> QED
      BY <2>2, <2>3, <3>1
  <2>4. CASE t[i].val # Null
    <3>1. Counted(t, S \cup {i}) = Counted(t, S) \cup {i}
      BY <2>4 DEF Counted
    <3> QED
      BY <2>2, <2>4, <3>1, FS_AddElement
  <2> QED
    BY <2>3, <2>4
<1> DEFINE n == Amount(t[i])
<1>3. n \in Value /\ -n \in Value /\ n \in Int
  BY AmountType
<1>4. Cardinality(UnitsAbove(t, S \cup {i})) =
        Cardinality(UnitsAbove(t, S)) + (IF n > 0 THEN n ELSE 0)
  <2>1. Up(t)[i] = n
    BY DEF Up
  <2>2. Cardinality(UnitsUnder(Up(t), S \cup {i})) =
          Cardinality(UnitsUnder(Up(t), S)) + (IF n > 0 THEN n ELSE 0)
    BY <1>3, <2>1, UnitsAdd
  <2> QED
    BY <2>2, UnitsAreUnder, S \cup {i} \in SUBSET DOMAIN t
<1>5. Cardinality(UnitsBelow(t, S \cup {i})) =
        Cardinality(UnitsBelow(t, S)) + (IF -n > 0 THEN -n ELSE 0)
  <2>1. Down(t)[i] = -n
    BY DEF Down
  <2>2. Cardinality(UnitsUnder(Down(t), S \cup {i})) =
          Cardinality(UnitsUnder(Down(t), S)) + (IF -n > 0 THEN -n ELSE 0)
    BY <1>3, <2>1, UnitsAdd
  <2> QED
    BY <2>2, UnitsAreUnder, S \cup {i} \in SUBSET DOMAIN t
<1>6. Cardinality(UnitsAbove(t, S)) \in Nat /\ Cardinality(UnitsBelow(t, S)) \in Nat
  BY UnitsAreUnder, UnitsFinite
<1>7. Cardinality(UnitsAbove(t, S \cup {i})) - Cardinality(UnitsBelow(t, S \cup {i})) =
        Cardinality(UnitsAbove(t, S)) - Cardinality(UnitsBelow(t, S)) + n
  BY <1>3, <1>4, <1>5, <1>6
<1> QED
  BY <1>1, <1>2, <1>7 DEF Measure, Plus, Contribution

(***************************************************************************)
(* Folding one event.                                                      *)
(***************************************************************************)
LEMMA GroupOfType ==
  ASSUME NEW v \in Views, NEW row \in Row
  PROVE  GroupOf(v, row) \in GroupKeys /\ (v \notin Grouped => GroupOf(v, row) = <<>>)
BY DEF GroupOf, GroupKeys, Row

LEMMA ContributionType ==
  ASSUME NEW row \in Row
  PROVE  Contribution(row) \in Storage
BY AmountType DEF Contribution, Storage

LEMMA MembersType ==
  ASSUME NEW t, IsTable(t), NEW v, NEW g
  PROVE  Members(t, v, g) \in SUBSET DOMAIN t /\ IsFiniteSet(Members(t, v, g))
<1>1. Members(t, v, g) \in SUBSET DOMAIN t
  BY DEF Members
<1> QED
  BY <1>1, FS_Subset DEF IsTable

(* A table with one more row measures the same in every group but that of  *)
(* the row, where it measures the row's contribution more.                 *)
LEMMA GroupMeasure ==
  ASSUME NEW t, NEW u, IsTable(t), IsTable(u), NEW i, i \notin DOMAIN t,
         DOMAIN u = DOMAIN t \cup {i}, \A j \in DOMAIN t : u[j] = t[j],
         NEW v, NEW g
  PROVE  Measure(u, Members(u, v, g)) =
           IF GroupOf(v, u[i]) = g THEN Plus(Measure(t, Members(t, v, g)), Contribution(u[i]))
                                   ELSE Measure(t, Members(t, v, g))
<1> DEFINE S == Members(t, v, g)
<1>1. S \in SUBSET DOMAIN t /\ IsFiniteSet(S) /\ i \notin S /\ S \in SUBSET DOMAIN u
  BY MembersType
<1>2. u[i] \in Row /\ i \in DOMAIN u
  BY DEF IsTable
<1>3. Measure(u, S) = Measure(t, S)
  BY <1>1, MeasureLocal
<1>4. Members(u, v, g) = IF GroupOf(v, u[i]) = g THEN S \cup {i} ELSE S
  BY DEF Members
<1>5. Measure(u, S \cup {i}) = Plus(Measure(u, S), Contribution(u[i]))
  BY <1>1, <1>2, MeasureAdd
<1> QED
  BY <1>3, <1>4, <1>5

(* Deltas add up like the integers they are made of.                       *)
LEMMA PlusType ==
  ASSUME NEW a \in Storage, NEW b \in Storage
  PROVE  Plus(a, b) \in Storage
BY DEF Plus, Storage

LEMMA PlusAssociative ==
  ASSUME NEW a \in Storage, NEW b \in Storage, NEW c \in Storage
  PROVE  Plus(a, Plus(b, c)) = Plus(Plus(a, b), c)
BY DEF Plus, Storage

LEMMA PlusZeros ==
  ASSUME NEW a \in Storage
  PROVE  Plus(Zeros, a) = a /\ Plus(a, Zeros) = a /\ Zeros \in Storage
BY DEF Plus, Storage, Zeros

LEMMA PlusCancels ==
  ASSUME NEW a \in Storage, NEW d \in Storage
  PROVE  /\ Plus(Plus(a, d), Signed(-1, d)) = a
         /\ Signed(1, d) = d /\ Signed(-1, d) \in Storage
BY DEF Plus, Storage, Signed

LEMMA AtType ==
  ASSUME NEW rows, IsRows(rows), NEW g
  PROVE  At(rows, g) \in Storage
BY DEF At, IsRows, Storage, Zeros

LEMMA AtFolded ==
  ASSUME NEW groups, IsRows(groups), NEW g, NEW d \in Storage, NEW x
  PROVE  At(Folded(groups, g, d), x) = IF x = g THEN Plus(At(groups, g), d) ELSE At(groups, x)
BY PlusZeros DEF At, Folded

LEMMA FoldedType ==
  ASSUME NEW groups, IsRows(groups), NEW g \in GroupKeys, NEW d \in Storage
  PROVE  /\ IsRows(Folded(groups, g, d))
         /\ DOMAIN Folded(groups, g, d) = DOMAIN groups \cup {g}
<1> DEFINE F == Folded(groups, g, d)
<1>1. DOMAIN F = DOMAIN groups \cup {g}
  BY DEF Folded
<1>2. \A x \in DOMAIN F : F[x] \in Storage
  BY PlusType DEF Folded, IsRows
<1>3. F = [x \in DOMAIN F |-> F[x]]
  BY DEF Folded
<1> HIDE DEF F
<1>4. DOMAIN F \subseteq GroupKeys
  BY <1>1 DEF IsRows
<1>5. IsRows(F)
  BY <1>2, <1>3, <1>4 DEF IsRows
<1> QED
  BY <1>1, <1>5 DEF F

(* A row that enters the table, folded with a plus.                        *)
LEMMA FoldAdds ==
  ASSUME NEW t, NEW u, IsTable(t), IsTable(u), NEW i, i \notin DOMAIN t,
         DOMAIN u = DOMAIN t \cup {i}, \A j \in DOMAIN t : u[j] = t[j],
         NEW v \in Views, NEW kept, NEW groups, IsRows(kept), IsRows(groups),
         Bridge(v, t, kept, groups)
  PROVE  LET new == Folded(groups, GroupOf(v, u[i]), Signed(1, Contribution(u[i])))
         IN  Bridge(v, u, kept, new) /\ IsRows(new)
<1> DEFINE g == GroupOf(v, u[i])
           d == Contribution(u[i])
           new == Folded(groups, g, Signed(1, d))
<1>1. u[i] \in Row
  BY DEF IsTable
<1>2. d \in Storage /\ g \in GroupKeys /\ (v \notin Grouped => g = <<>>)
  BY <1>1, ContributionType, GroupOfType
<1>3. \A x : Measure(u, Members(u, v, x)) =
                IF x = g THEN Plus(Measure(t, Members(t, v, x)), d) ELSE Measure(t, Members(t, v, x))
  BY GroupMeasure
<1> HIDE DEF g, d
<1>4. Signed(1, d) = d /\ Signed(1, d) \in Storage
  BY <1>2, PlusCancels, PlusZeros
<1>5. IsRows(new) /\ DOMAIN new = DOMAIN groups \cup {g}
  BY <1>2, <1>4, FoldedType
<1>6. \A x : At(new, x) = IF x = g THEN Plus(At(groups, g), d) ELSE At(groups, x)
  BY <1>2, <1>4, AtFolded
<1> HIDE DEF new
<1>7. ASSUME NEW x \in GroupKeys
      PROVE  Plus(At(kept, x), At(new, x)) = Measure(u, Members(u, v, x))
  <2>1. Plus(At(kept, x), At(groups, x)) = Measure(t, Members(t, v, x))
    BY DEF Bridge
  <2>2. At(kept, x) \in Storage /\ At(groups, x) \in Storage
    BY AtType
  <2>3. Plus(At(kept, x), Plus(At(groups, x), d)) = Plus(Plus(At(kept, x), At(groups, x)), d)
    BY <1>2, <2>2, PlusAssociative
  <2> QED
    BY <1>3, <1>6, <2>1, <2>3
<1>8. Bridge(v, u, kept, new)
  BY <1>2, <1>5, <1>7 DEF Bridge
<1> QED
  BY <1>5, <1>8 DEF new, g, d

(* A row that leaves the table, folded with a minus.                       *)
LEMMA FoldRemoves ==
  ASSUME NEW t, NEW u, IsTable(t), IsTable(u), NEW i, i \notin DOMAIN t,
         DOMAIN u = DOMAIN t \cup {i}, \A j \in DOMAIN t : u[j] = t[j],
         NEW v \in Views, NEW kept, NEW groups, IsRows(kept), IsRows(groups),
         Bridge(v, u, kept, groups)
  PROVE  LET new == Folded(groups, GroupOf(v, u[i]), Signed(-1, Contribution(u[i])))
         IN  Bridge(v, t, kept, new) /\ IsRows(new)
<1> DEFINE g == GroupOf(v, u[i])
           d == Contribution(u[i])
           new == Folded(groups, g, Signed(-1, d))
<1>1. u[i] \in Row
  BY DEF IsTable
<1>2. d \in Storage /\ g \in GroupKeys /\ (v \notin Grouped => g = <<>>)
  BY <1>1, ContributionType, GroupOfType
<1>3. \A x : Measure(u, Members(u, v, x)) =
                IF x = g THEN Plus(Measure(t, Members(t, v, x)), d) ELSE Measure(t, Members(t, v, x))
  BY GroupMeasure
<1>0. \A x : Measure(t, Members(t, v, x)) \in Storage
  BY MembersType, MeasureType
<1> HIDE DEF g, d
<1>4. Signed(-1, d) \in Storage
  BY <1>2, PlusCancels, PlusZeros
<1>5. IsRows(new) /\ DOMAIN new = DOMAIN groups \cup {g}
  BY <1>2, <1>4, FoldedType
<1>6. \A x : At(new, x) = IF x = g THEN Plus(At(groups, g), Signed(-1, d)) ELSE At(groups, x)
  BY <1>4, AtFolded
<1> HIDE DEF new
<1>7. ASSUME NEW x \in GroupKeys
      PROVE  Plus(At(kept, x), At(new, x)) = Measure(t, Members(t, v, x))
  <2>1. Plus(At(kept, x), At(groups, x)) = Measure(u, Members(u, v, x))
    BY DEF Bridge
  <2>2. At(kept, x) \in Storage /\ At(groups, x) \in Storage
    BY AtType
  <2>3. Plus(At(kept, x), Plus(At(groups, x), Signed(-1, d))) =
          Plus(Plus(At(kept, x), At(groups, x)), Signed(-1, d))
    BY <1>4, <2>2, PlusAssociative
  <2>4. Plus(Plus(Measure(t, Members(t, v, x)), d), Signed(-1, d)) = Measure(t, Members(t, v, x))
    BY <1>0, <1>2, PlusCancels
  <2> QED
    BY <1>3, <1>6, <2>1, <2>3, <2>4
<1>8. Bridge(v, t, kept, new)
  BY <1>2, <1>5, <1>7 DEF Bridge
<1> QED
  BY <1>5, <1>8 DEF new, g, d

(***************************************************************************)
(* What the statements of a batch leave behind.                            *)
(***************************************************************************)
LEMMA UpsertedIsSum ==
  ASSUME NEW kept, NEW groups, IsRows(kept), IsRows(groups)
  PROVE  /\ DOMAIN Upserted(kept, groups) = DOMAIN kept \cup DOMAIN groups
         /\ \A g \in DOMAIN kept \cup DOMAIN groups :
               Upserted(kept, groups)[g] = Plus(At(kept, g), At(groups, g))
<1>1. \A g \in DOMAIN kept : kept[g] \in Storage
  BY DEF IsRows
<1>2. \A g \in DOMAIN groups : groups[g] \in Storage
  BY DEF IsRows
<1> QED
  BY <1>1, <1>2, PlusZeros DEF Upserted, At

(* A group that is neither kept nor touched has no rows.                   *)
LEMMA GroupsAreTouched ==
  ASSUME NEW t, IsTable(t), NEW v \in Views, NEW kept, NEW groups, IsRows(kept), IsRows(groups),
         Bridge(v, t, kept, groups), NEW g \in GroupKeys, Members(t, v, g) # {}
  PROVE  g \in DOMAIN kept \cup DOMAIN groups
<1> SUFFICES ASSUME g \notin DOMAIN kept \cup DOMAIN groups PROVE FALSE
  OBVIOUS
<1>1. At(kept, g) = Zeros /\ At(groups, g) = Zeros
  BY DEF At
<1>2. Measure(t, Members(t, v, g)) = Zeros
  <2>1. Plus(At(kept, g), At(groups, g)) = Measure(t, Members(t, v, g))
    BY DEF Bridge
  <2>2. Plus(Zeros, Zeros) = Zeros
    BY DEF Plus, Zeros
  <2> QED
    BY <1>1, <2>1, <2>2
<1>3. Measure(t, Members(t, v, g)).rows = 0
  BY <1>2 DEF Zeros
<1> QED
  BY <1>3, MembersType, MeasureType

LEMMA GroupsType ==
  ASSUME NEW t, IsTable(t), NEW v \in Views
  PROVE  /\ Groups(t, v) \subseteq GroupKeys
         /\ v \in Grouped => \A g : g \in Groups(t, v) <=> Members(t, v, g) # {}
<1>1. \A i \in DOMAIN t : t[i] \in Row
  BY DEF IsTable
<1>2. Groups(t, v) \subseteq GroupKeys
  BY <1>1, GroupOfType DEF Groups, GroupKeys
<1>3. v \in Grouped => \A g : g \in Groups(t, v) <=> Members(t, v, g) # {}
  BY DEF Groups, Members
<1> QED
  BY <1>2, <1>3

(* A grouped view, cleaned of the groups without rows, is GROUP BY.        *)
LEMMA CleanedIsGroundTruth ==
  ASSUME NEW t, IsTable(t), NEW v \in Grouped, NEW kept, NEW groups, IsRows(kept), IsRows(groups),
         Bridge(v, t, kept, groups)
  PROVE  Cleaned(Upserted(kept, groups)) = GroupBy(t, v)
<1> DEFINE U == Upserted(kept, groups)
<1>0. v \in Views
  BY AggregatesAssumption
<1>1. DOMAIN U = DOMAIN kept \cup DOMAIN groups /\ DOMAIN U \subseteq GroupKeys
  BY UpsertedIsSum DEF IsRows
<1>2. \A g \in DOMAIN U : U[g] = Measure(t, Members(t, v, g))
  <2>1. \A g \in DOMAIN U : U[g] = Plus(At(kept, g), At(groups, g))
    BY UpsertedIsSum
  <2>2. \A g \in GroupKeys : Plus(At(kept, g), At(groups, g)) = Measure(t, Members(t, v, g))
    BY DEF Bridge
  <2> QED
    BY <1>1, <2>1, <2>2
<1> HIDE DEF U
<1>3. \A g : /\ Measure(t, Members(t, v, g)).rows \in Nat
             /\ Measure(t, Members(t, v, g)).rows = 0 <=> Members(t, v, g) = {}
  BY MembersType, MeasureType
<1>4. {g \in DOMAIN U : U[g].rows > 0} = Groups(t, v)
  <2>1. \A g \in DOMAIN U : U[g].rows > 0 <=> g \in Groups(t, v)
    BY <1>0, <1>2, <1>3, GroupsType
  <2>2. \A g \in Groups(t, v) : g \in GroupKeys /\ Members(t, v, g) # {}
    BY <1>0, GroupsType
  <2>3. \A g \in Groups(t, v) : g \in DOMAIN U
    BY <1>0, <1>1, <2>2, GroupsAreTouched
  <2> QED
    BY <2>1, <2>3
<1>5. Cleaned(U) = [g \in Groups(t, v) |-> U[g]]
  BY <1>4 DEF Cleaned
<1>6. \A g \in Groups(t, v) : U[g] = Measure(t, Members(t, v, g))
  BY <1>2, <1>4
<1>7. Cleaned(U) = GroupBy(t, v)
  BY <1>5, <1>6 DEF GroupBy
<1> QED
  BY <1>7 DEF U

(* A grouped view the batch does not touch needs no cleanup.               *)
LEMMA UntouchedNeedsNoCleanup ==
  ASSUME NEW kept, NEW groups, IsRows(kept), DOMAIN groups = {},
         \A g \in DOMAIN kept : kept[g].rows > 0
  PROVE  Cleaned(Upserted(kept, groups)) = Upserted(kept, groups)
<1> DEFINE U == Upserted(kept, groups)
<1>1. U = [g \in DOMAIN kept |-> kept[g]]
  BY DEF Upserted
<1>2. \A g \in DOMAIN U : U[g].rows > 0
  BY <1>1
<1> HIDE DEF U
<1>3. {g \in DOMAIN U : U[g].rows > 0} = DOMAIN U
  BY <1>2
<1>4. Cleaned(U) = [g \in DOMAIN U |-> U[g]]
  BY <1>3 DEF Cleaned
<1>5. Cleaned(U) = U
  BY <1>1, <1>4
<1> QED
  BY <1>5 DEF U

(* The one row of a global view.                                           *)
LEMMA GlobalIsGroundTruth ==
  ASSUME NEW t, IsTable(t), NEW v \in Views, v \notin Grouped, NEW kept, NEW groups,
         IsRows(kept), IsRows(groups), Bridge(v, t, kept, groups)
  PROVE  Upserted(kept, groups) = GroupBy(t, v)
<1> DEFINE U == Upserted(kept, groups)
<1>1. DOMAIN U = {<<>>} /\ <<>> \in GroupKeys
  BY UpsertedIsSum DEF Bridge, GroupKeys
<1>2. U[<<>>] = Measure(t, Members(t, v, <<>>))
  BY ZenonT(60), <1>1, UpsertedIsSum DEF Bridge
<1>3. U = [g \in DOMAIN U |-> U[g]]
  BY DEF Upserted
<1> HIDE DEF U
<1>4. Groups(t, v) = {<<>>}
  BY DEF Groups
<1>5. U = GroupBy(t, v)
  BY <1>1, <1>2, <1>3, <1>4 DEF GroupBy
<1> QED
  BY <1>5 DEF U

(* And back: views that are the ground truth, and an empty batch.          *)
LEMMA GroundTruthBridges ==
  ASSUME NEW t, IsTable(t), NEW v \in Views
  PROVE  /\ IsRows(GroupBy(t, v)) /\ IsRows(NoRows)
         /\ \A g \in DOMAIN GroupBy(t, v) : GroupBy(t, v)[g].rows >= 0
         /\ Bridge(v, t, GroupBy(t, v), NoRows)
<1> DEFINE G == GroupBy(t, v)
<1>1. DOMAIN G = Groups(t, v) /\ G = [g \in DOMAIN G |-> G[g]]
  BY DEF GroupBy
<1>2. \A g \in DOMAIN G : G[g] = Measure(t, Members(t, v, g))
  BY DEF GroupBy
<1> HIDE DEF G
<1>3. \A g : /\ Measure(t, Members(t, v, g)) \in Storage
             /\ Measure(t, Members(t, v, g)).rows \in Nat
             /\ Measure(t, Members(t, v, g)).rows = 0 <=> Members(t, v, g) = {}
             /\ Members(t, v, g) = {} => Measure(t, Members(t, v, g)) = Zeros
  BY MembersType, MeasureType
<1>4. IsRows(G)
  BY <1>1, <1>2, <1>3, GroupsType DEF IsRows
<1>5. \A g \in DOMAIN G : G[g].rows \in Nat
  BY <1>2, <1>3
<1>6. DOMAIN NoRows = {} /\ IsRows(NoRows)
  BY DEF NoRows, IsRows
<1>7. \A g \in GroupKeys : At(G, g) = Measure(t, Members(t, v, g))
  <2>1. ASSUME NEW g \in GroupKeys, g \notin DOMAIN G PROVE Members(t, v, g) = {}
    <3>1. CASE v \in Grouped
      BY <1>1, <2>1, <3>1, GroupsType
    <3>2. CASE v \notin Grouped
      BY <1>1, <2>1, <3>2 DEF Groups, Members, GroupOf
    <3> QED
      BY <3>1, <3>2
  <2> QED
    BY <1>2, <1>3, <2>1 DEF At
<1>8. \A g : At(NoRows, g) = Zeros
  BY <1>6 DEF At
<1>9. \A g \in GroupKeys : Plus(At(G, g), At(NoRows, g)) = Measure(t, Members(t, v, g))
  BY <1>3, <1>7, <1>8, PlusZeros
<1>10. v \in Grouped => \A g \in DOMAIN G : G[g].rows > 0
  BY <1>1, <1>2, <1>3, GroupsType
<1>11. v \notin Grouped => DOMAIN G \cup DOMAIN NoRows = {<<>>}
  BY <1>1, <1>6 DEF Groups
<1>12. Bridge(v, t, G, NoRows)
  BY <1>9, <1>10, <1>11 DEF Bridge
<1> QED
  BY <1>4, <1>5, <1>6, <1>12 DEF G

(***************************************************************************)
(* The inductive invariant: types, and the bridge.                         *)
(***************************************************************************)
Inv == TypeOK /\ DeltasBridge

LEMMA TypesOfRows ==
  ASSUME TypeOK, NEW v \in Views
  PROVE  IsRows(Kept(v)) /\ IsRows(deltas[v]) /\ IsRows(target[v])
BY DEF TypeOK, Kept, NoRows, IsRows

(* The outcome of the statements, for every view.                          *)
LEMMA BridgeIsGroundTruth ==
  ASSUME Inv, NEW v \in Views
  PROVE  Flushed(v) = GroupBy(source, v)
<1>1. /\ IsTable(source) /\ IsRows(Kept(v)) /\ IsRows(deltas[v])
      /\ Bridge(v, source, Kept(v), deltas[v])
  BY TypesOfRows DEF Inv, TypeOK, DeltasBridge
<1>2. CASE NeedsCleanup(v)
  <2>1. v \in Grouped
    BY <1>2 DEF NeedsCleanup
  <2> QED
    BY <1>1, <1>2, <2>1, CleanedIsGroundTruth DEF Flushed
<1>3. CASE v \in Grouped /\ ~NeedsCleanup(v)
  <2>1. DOMAIN deltas[v] = {}
    BY <1>3 DEF NeedsCleanup
  <2>4. \A g \in DOMAIN Kept(v) : Kept(v)[g].rows > 0
    BY <1>1, <1>3, <2>1 DEF Bridge
  <2>2. Cleaned(Upserted(Kept(v), deltas[v])) = Upserted(Kept(v), deltas[v])
    BY <1>1, <2>1, <2>4, UntouchedNeedsNoCleanup
  <2>3. Cleaned(Upserted(Kept(v), deltas[v])) = GroupBy(source, v)
    BY <1>1, <1>3, CleanedIsGroundTruth
  <2> QED
    BY <1>3, <2>2, <2>3 DEF Flushed
<1>4. CASE v \notin Grouped
  BY <1>1, <1>4, GlobalIsGroundTruth DEF Flushed, NeedsCleanup
<1> QED
  BY <1>2, <1>3, <1>4

(* Setup's backfill establishes the invariant.                             *)
LEMMA InitInv == Init => Inv
<1> SUFFICES ASSUME Init PROVE Inv
  OBVIOUS
<1>1. IsTable(source)
  BY DEF Init, IsTable
<1>2. \A v \in Views : /\ target[v] = GroupBy(source, v) /\ deltas[v] = NoRows
                       /\ Kept(v) = GroupBy(source, v)
  BY DEF Init, Kept, GroundTruth
<1>3. DeltasBridge
  BY <1>1, <1>2, GroundTruthBridges DEF DeltasBridge
<1>4. TypeOK
  <2>1. DOMAIN deltas = Views /\ DOMAIN target = Views /\ truncated \subseteq Views
    BY DEF Init, GroundTruth
  <2>2. \A v \in Views : /\ IsRows(deltas[v]) /\ IsRows(target[v])
                         /\ \A g \in DOMAIN target[v] : target[v][g].rows >= 0
    BY <1>1, <1>2, GroundTruthBridges
  <2> QED
    BY <1>1, <2>1, <2>2 DEF TypeOK
<1> QED
  BY <1>3, <1>4 DEF Inv

(* Kept depends on the target and the truncated set only.                  *)
LEMMA KeptStays ==
  ASSUME NEW v, UNCHANGED <<truncated, target>>
  PROVE  Kept(v)' = Kept(v)
BY DEF Kept

(* What a step that folds events has to establish.                         *)
LEMMA FoldingKeepsInv ==
  ASSUME Inv, IsTable(source)', UNCHANGED <<truncated, target>>, DOMAIN deltas' = Views,
         \A v \in Views : IsRows(deltas'[v]) /\ Bridge(v, source', Kept(v), deltas'[v])
  PROVE  Inv'
<1>1. TypeOK'
  BY DEF Inv, TypeOK, IsRows
<1>2. DeltasBridge'
  BY KeptStays DEF DeltasBridge
<1> QED
  BY <1>1, <1>2 DEF Inv

LEMMA InsertInv ==
  ASSUME Inv, NEW i \in RowId, NEW row \in Row, Insert(i, row)
  PROVE  Inv'
<1> USE DEF Insert
<1>1. IsTable(source)
  BY DEF Inv, TypeOK
<1>2. /\ DOMAIN source' = DOMAIN source \cup {i} /\ source'[i] = row
      /\ \A j \in DOMAIN source : source'[j] = source[j]
  OBVIOUS
<1>3. IsTable(source)'
  <2>1. IsFiniteSet(DOMAIN source')
    BY <1>1, <1>2, FS_AddElement DEF IsTable
  <2> QED
    BY <1>1, <2>1 DEF IsTable
<1>4. DOMAIN deltas' = Views
  BY DEF Fold
<1>5. ASSUME NEW v \in Views
      PROVE  IsRows(deltas'[v]) /\ Bridge(v, source', Kept(v), deltas'[v])
  <2>1. deltas'[v] = Folded(deltas[v], GroupOf(v, source'[i]), Signed(1, Contribution(source'[i])))
    BY <1>2 DEF Fold
  <2>2. Bridge(v, source, Kept(v), deltas[v]) /\ IsRows(Kept(v)) /\ IsRows(deltas[v])
    BY TypesOfRows DEF Inv, DeltasBridge
  <2>3. i \notin DOMAIN source
    OBVIOUS
  <2> HIDE DEF Insert
  <2> QED
    BY <1>1, <1>2, <1>3, <2>1, <2>2, <2>3, FoldAdds
<1>6. UNCHANGED <<truncated, target>>
  OBVIOUS
<1> HIDE DEF Insert
<1> QED
  BY <1>3, <1>4, <1>5, <1>6, FoldingKeepsInv

LEMMA DeleteInv ==
  ASSUME Inv, NEW i \in RowId, Delete(i)
  PROVE  Inv'
<1> USE DEF Delete
<1>1. IsTable(source)
  BY DEF Inv, TypeOK
<1>2. /\ DOMAIN source = DOMAIN source' \cup {i} /\ i \notin DOMAIN source'
      /\ \A j \in DOMAIN source' : source[j] = source'[j]
  OBVIOUS
<1>3. IsTable(source)'
  <2>1. IsFiniteSet(DOMAIN source')
    BY <1>1, <1>2, FS_Subset DEF IsTable
  <2> QED
    BY <1>1, <1>2, <2>1 DEF IsTable
<1>4. DOMAIN deltas' = Views
  BY DEF Fold
<1>5. ASSUME NEW v \in Views
      PROVE  IsRows(deltas'[v]) /\ Bridge(v, source', Kept(v), deltas'[v])
  <2>1. deltas'[v] = Folded(deltas[v], GroupOf(v, source[i]), Signed(-1, Contribution(source[i])))
    BY DEF Fold
  <2>2. Bridge(v, source, Kept(v), deltas[v]) /\ IsRows(Kept(v)) /\ IsRows(deltas[v])
    BY TypesOfRows DEF Inv, DeltasBridge
  <2> HIDE DEF Delete
  <2> QED
    BY <1>1, <1>2, <1>3, <2>1, <2>2, FoldRemoves
<1>6. UNCHANGED <<truncated, target>>
  OBVIOUS
<1> HIDE DEF Delete
<1> QED
  BY <1>3, <1>4, <1>5, <1>6, FoldingKeepsInv

(* An update is a row that leaves and a row that enters, and the marker of *)
(* an unchanged column stands for the value it leaves.                     *)
LEMMA UpdateInv ==
  ASSUME Inv, NEW i \in RowId, NEW row \in Row, NEW toasted \in SUBSET {"key", "val"},
         Update(i, row, toasted)
  PROVE  Inv'
<1> DEFINE old == source[i]
           between == [j \in DOMAIN source \ {i} |-> source[j]]
<1>1. IsTable(source) /\ i \in DOMAIN source
  BY DEF Inv, TypeOK, Update
<1>2. /\ DOMAIN source' = DOMAIN source /\ source'[i] = row
      /\ \A j \in DOMAIN source \ {i} : source'[j] = source[j]
  BY <1>1 DEF Update
<1>3. /\ DOMAIN source = DOMAIN between \cup {i} /\ i \notin DOMAIN between
      /\ \A j \in DOMAIN between : source[j] = between[j] /\ source'[j] = between[j]
  BY <1>1, <1>2
<1>4. IsTable(between)
  <2>1. IsFiniteSet(DOMAIN between)
    BY <1>1, FS_Subset DEF IsTable
  <2> QED
    BY <1>1, <2>1 DEF IsTable
<1>5. IsTable(source)'
  BY <1>1 DEF IsTable, Update
<1>6. deltas' = Fold(Fold(deltas, old, -1), row, 1)
  <2> DEFINE tuple == [key |-> IF "key" \in toasted THEN Unchanged ELSE row.key,
                       val |-> IF "val" \in toasted THEN Unchanged ELSE row.val]
  <2>1. row.key # Unchanged /\ row.val # Unchanged /\ row = [key |-> row.key, val |-> row.val]
    BY DeltaBatchAssumption DEF Row, Value
  <2>2. ("key" \in toasted => row.key = old.key) /\ ("val" \in toasted => row.val = old.val)
    BY DEF Update
  <2>3. Substituted(old, tuple) = [key |-> row.key, val |-> row.val]
    BY <2>1, <2>2 DEF Substituted
  <2>4. deltas' = Fold(Fold(deltas, old, -1), Substituted(old, tuple), 1)
    BY DEF Update
  <2> QED
    BY <2>1, <2>3, <2>4
<1> HIDE DEF between, old
<1>7. ASSUME NEW v \in Views
      PROVE  IsRows(deltas'[v]) /\ Bridge(v, source', Kept(v), deltas'[v])
  <2> DEFINE mid == Folded(deltas[v], GroupOf(v, source[i]), Signed(-1, Contribution(source[i])))
  <2>1. deltas'[v] = Folded(mid, GroupOf(v, source'[i]), Signed(1, Contribution(source'[i])))
    BY <1>2, <1>6 DEF Fold, old
  <2>2. Bridge(v, source, Kept(v), deltas[v]) /\ IsRows(Kept(v)) /\ IsRows(deltas[v])
    BY TypesOfRows DEF Inv, DeltasBridge
  <2>3. Bridge(v, between, Kept(v), mid) /\ IsRows(mid)
    BY <1>1, <1>3, <1>4, <2>2, FoldRemoves
  <2> HIDE DEF mid
  <2>4. DOMAIN source' = DOMAIN between \cup {i}
    BY <1>2, <1>3
  <2> QED
    BY <1>3, <1>4, <1>5, <2>1, <2>2, <2>3, <2>4, FoldAdds
<1>8. DOMAIN deltas' = Views
  BY <1>6 DEF Fold
<1> QED
  BY <1>5, <1>7, <1>8, FoldingKeepsInv DEF Update

(* After a truncate nothing is kept and nothing is counted.                *)
LEMMA TruncateInv ==
  ASSUME Inv, Truncate
  PROVE  Inv'
<1>1. DOMAIN source' = {} /\ IsTable(source)'
  BY FS_EmptySet DEF Truncate, IsTable
<1>2. ASSUME NEW v \in Views
      PROVE  /\ Kept(v)' = NoRows /\ DOMAIN NoRows = {}
             /\ IsRows(deltas'[v])
             /\ \A g : At(deltas'[v], g) = Zeros
             /\ v \notin Grouped => DOMAIN deltas'[v] = {<<>>}
  BY DEF Truncate, Kept, NoRows, AfterTruncate, IsRows, GroupKeys, Zeros, Storage, At
<1>3. \A v, g : Measure(source', Members(source', v, g)) = Zeros
  <2>1. \A v, g : Members(source', v, g) = {}
    BY <1>1 DEF Members
  <2> QED
    BY <1>1, <2>1, MeasureType, FS_EmptySet
<1>4. DeltasBridge'
  <2> SUFFICES ASSUME NEW v \in Views PROVE Bridge(v, source', NoRows, deltas'[v])
    BY <1>2 DEF DeltasBridge
  <2>1. \A g : At(NoRows, g) = Zeros
    BY <1>2 DEF At
  <2>2. Plus(Zeros, Zeros) = Zeros
    BY DEF Plus, Zeros
  <2> QED
    BY <1>2, <1>3, <2>1, <2>2 DEF Bridge
<1>5. TypeOK'
  <2>1. DOMAIN deltas' = Views /\ truncated' = Views /\ target' = target
    BY DEF Truncate
  <2> QED
    BY <1>1, <1>2, <2>1 DEF Inv, TypeOK
<1> QED
  BY <1>4, <1>5 DEF Inv

(* A flush leaves the ground truth and an empty batch.                     *)
LEMMA FlushInv ==
  ASSUME Inv, Flush
  PROVE  Inv'
<1>1. IsTable(source) /\ source' = source /\ truncated' = {}
  BY DEF Inv, TypeOK, Flush
<1>2. \A v \in Views : target'[v] = GroupBy(source, v) /\ deltas'[v] = NoRows
  BY BridgeIsGroundTruth DEF Flush
<1>3. \A v \in Views : Kept(v)' = GroupBy(source, v)
  BY <1>1, <1>2 DEF Kept
<1>4. DeltasBridge'
  BY <1>1, <1>2, <1>3, GroundTruthBridges DEF DeltasBridge
<1>5. TypeOK'
  <2>1. DOMAIN deltas' = Views /\ DOMAIN target' = Views
    BY DEF Flush
  <2>2. \A v \in Views : /\ IsRows(deltas'[v]) /\ IsRows(target'[v])
                         /\ \A g \in DOMAIN target'[v] : target'[v][g].rows >= 0
    BY <1>1, <1>2, GroundTruthBridges
  <2> QED
    BY <1>1, <2>1, <2>2 DEF TypeOK
<1> QED
  BY <1>4, <1>5 DEF Inv

LEMMA NextInv == Inv /\ [Next]_vars => Inv'
<1> SUFFICES ASSUME Inv, [Next]_vars PROVE Inv'
  OBVIOUS
<1>1. CASE \E i \in RowId, row \in Row : Insert(i, row)
  BY <1>1, InsertInv
<1>2. CASE \E i \in RowId : Delete(i)
  BY <1>2, DeleteInv
<1>3. CASE \E i \in RowId, row \in Row, toasted \in SUBSET {"key", "val"} : Update(i, row, toasted)
  BY <1>3, UpdateInv
<1>4. CASE Truncate
  BY <1>4, TruncateInv
<1>5. CASE Flush
  BY <1>5, FlushInv
<1>6. CASE UNCHANGED vars
  BY <1>6 DEF vars, Inv, TypeOK, DeltasBridge, Kept
<1> QED
  BY <1>1, <1>2, <1>3, <1>4, <1>5, <1>6 DEF Next

(***************************************************************************)
(* The theorems.                                                           *)
(***************************************************************************)
LEMMA Invariance == Spec => []Inv
<1> QED
  BY InitInv, NextInv, PTL DEF Spec

(* Types hold, and no target ever counts less than no rows.                *)
THEOREM TypeCorrect == Spec => []TypeOK
<1>1. Inv => TypeOK
  BY DEF Inv
<1> QED
  BY Invariance, <1>1, PTL

(* Target plus deltas is the source, group by group.                       *)
THEOREM DeltasAccountForSource == Spec => []DeltasBridge
<1>1. Inv => DeltasBridge
  BY DEF Inv
<1> QED
  BY Invariance, <1>1, PTL

(* Wherever a batch is cut, flushing it yields GROUP BY of the source.     *)
THEOREM FlushYieldsGroundTruth == Spec => []FlushIsGroundTruth
<1>1. Inv => FlushIsGroundTruth
  BY BridgeIsGroundTruth DEF FlushIsGroundTruth, GroundTruth
<1> QED
  BY Invariance, <1>1, PTL

(* Incremental maintenance implements recomputation.                       *)
THEOREM BatchImplements == Spec => Implements
<1>1. Init => Recompute!Init
  BY InitInv DEF Inv, TypeOK, Init, Recompute!Init
<1>2. ASSUME Inv, Inv', [Next]_vars
      PROVE  [Recompute!Change \/ Recompute!Refresh]_(Recompute!vars)
  <2>1. IsTable(source)'
    BY <1>2 DEF Inv, TypeOK
  <2>2. CASE target' = target
    BY <2>1, <2>2 DEF Recompute!Change
  <2>3. CASE Flush
    <3>1. target' = GroundTruth(source) /\ source' = source
      BY <1>2, <2>3, BridgeIsGroundTruth DEF Flush, GroundTruth
    <3> QED
      BY <3>1 DEF Recompute!Refresh
  <2>4. target' = target \/ Flush
    BY <1>2 DEF Next, Insert, Delete, Update, Truncate, vars
  <2> QED
    BY <2>2, <2>3, <2>4
<1> QED
  BY Invariance, <1>1, <1>2, PTL DEF Spec, Implements, Recompute!Spec
=============================================================================
