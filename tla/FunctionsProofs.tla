--------------------------- MODULE FunctionsProofs ---------------------------
(***************************************************************************)
(* The column names of a view, for every configuration, and the error of a *)
(* sum, for every precision and every value.                               *)
(*                                                                         *)
(* Both, and DecoderProofs, need induction over numbers and facts about    *)
(* FlattenSeq, which come first.  Induction is over a set of numbers,      *)
(* given as a set: it follows from a least element of what is not in it.   *)
(***************************************************************************)
EXTENDS DecimalSum, ViewColumns, SequenceTheorems, WellFoundedInduction, TLAPS

-----------------------------------------------------------------------------
(* A set of naturals that is not empty has a least element.                *)
LEMMA Least ==
    ASSUME NEW S \in SUBSET Nat, S # {}
    PROVE  \E n \in S : \A m \in S : n <= m
<1>1. IsWellFoundedOn(OpToRel(<, Nat), Nat)
  BY NatLessThanWellFounded
<1>2. PICK n \in S : \A m \in S : ~ (<<m, n>> \in OpToRel(<, Nat))
  BY <1>1, WFMin
<1>3. \A m \in S : ~ (m < n)
  BY <1>2 DEF OpToRel
<1> QED
  BY <1>3

(* Induction, for a property given by the set of numbers that have it.     *)
LEMMA Induction ==
    ASSUME NEW S, 0 \in S, \A n \in Nat : n \in S => n + 1 \in S
    PROVE  \A n \in Nat : n \in S
<1> SUFFICES ASSUME Nat \ S # {} PROVE FALSE
  OBVIOUS
<1>1. PICK n \in Nat \ S : \A m \in Nat \ S : n <= m
  <2>1. Nat \ S \in SUBSET Nat
    OBVIOUS
  <2> QED
    BY <2>1, Least
<1>2. n \in Nat /\ n # 0 /\ n \notin S
  BY <1>1
<1>3. n - 1 \in Nat /\ (n - 1) + 1 = n
  BY <1>2
<1>4. n - 1 \in S
  BY <1>1, <1>2, <1>3
<1> QED
  BY <1>2, <1>3, <1>4

-----------------------------------------------------------------------------
(* FlattenSeq is defined by recursion over its argument: there is a        *)
(* function that satisfies the equation, and it is the one chosen.         *)
Flattening(g, ss, n) == g = [i \in 1 .. n |-> IF i = 1 THEN ss[i] ELSE g[i - 1] \o ss[i]]

(* Its value at a position.                                                *)
LEMMA FlatteningAt ==
    ASSUME NEW ss, NEW n \in Nat, NEW g, Flattening(g, ss, n), NEW i \in 1 .. n
    PROVE  g[i] = IF i = 1 THEN ss[i] ELSE g[i - 1] \o ss[i]
<1> DEFINE step(j) == IF j = 1 THEN ss[j] ELSE g[j - 1] \o ss[j]
<1>1. g = [j \in 1 .. n |-> step(j)]
  BY DEF Flattening
<1> HIDE DEF step
<1>2. g[i] = step(i)
  BY <1>1
<1> QED
  BY <1>2 DEF step

(* It exists for every length.                                             *)
LEMMA FlatteningExists ==
    ASSUME NEW ss, NEW n \in Nat
    PROVE  \E g : Flattening(g, ss, n)
<1> DEFINE T == {m \in Nat : \E g : Flattening(g, ss, m)}
<1>1. 0 \in T
  <2> DEFINE g == [i \in 1 .. 0 |-> {}]
  <2>1. Flattening(g, ss, 0)
    BY DEF Flattening
  <2> QED
    BY <2>1
<1>2. ASSUME NEW m \in Nat, m \in T
      PROVE  m + 1 \in T
  <2>1. PICK g : Flattening(g, ss, m)
    BY <1>2
  <2> DEFINE step(i) == IF i = 1 THEN ss[i] ELSE g[i - 1] \o ss[i]
             h == [i \in 1 .. m + 1 |-> step(i)]
  <2> HIDE DEF step
  <2>6. \A i \in 1 .. m + 1 : h[i] = step(i)
    OBVIOUS
  <2>7. \A i \in 1 .. m : g[i] = step(i)
    BY <2>1, FlatteningAt DEF step
  <2>2. \A i \in 1 .. m : h[i] = g[i]
    <3> HIDE DEF h
    <3>1. \A i \in 1 .. m : i \in 1 .. m + 1
      OBVIOUS
    <3> QED
      BY <3>1, <2>6, <2>7
  <2>3. \A i \in 1 .. m + 1 : h[i] = IF i = 1 THEN ss[i] ELSE h[i - 1] \o ss[i]
    <3> HIDE DEF h
    <3> SUFFICES ASSUME NEW i \in 1 .. m + 1
                 PROVE  h[i] = IF i = 1 THEN ss[i] ELSE h[i - 1] \o ss[i]
      OBVIOUS
    <3>1. i # 1 => i - 1 \in 1 .. m
      OBVIOUS
    <3>2. i # 1 => h[i - 1] = g[i - 1]
      BY <3>1, <2>2
    <3> QED
      BY <3>2, <2>6 DEF step
  <2>4. h = [i \in 1 .. m + 1 |-> h[i]]
    OBVIOUS
  <2> HIDE DEF h
  <2>5. Flattening(h, ss, m + 1)
    BY <2>3, <2>4 DEF Flattening
  <2> QED
    BY <2>5
<1> HIDE DEF T
<1>3. n \in T
  BY <1>1, <1>2, Induction
<1> QED
  BY <1>3 DEF T

(* FlattenSeq is the last value of such a function.                        *)
LEMMA FlattenDef ==
    ASSUME NEW ss, NEW n \in Nat, n = Len(ss), n # 0
    PROVE  \E g : Flattening(g, ss, n) /\ FlattenSeq(ss) = g[n]
<1> DEFINE f == CHOOSE g : g = [i \in 1 .. n |-> IF i = 1 THEN ss[i] ELSE g[i - 1] \o ss[i]]
<1>1. \E g : g = [i \in 1 .. n |-> IF i = 1 THEN ss[i] ELSE g[i - 1] \o ss[i]]
  BY FlatteningExists DEF Flattening
<1>2. f = [i \in 1 .. n |-> IF i = 1 THEN ss[i] ELSE f[i - 1] \o ss[i]]
  BY <1>1
<1>3. FlattenSeq(ss) = f[n]
  BY DEF FlattenSeq
<1> QED
  BY <1>2, <1>3 DEF Flattening

(* Equal so far, equal so far.                                             *)
LEMMA FlatteningUnique ==
    ASSUME NEW ss, NEW tt, NEW n \in Nat, NEW m \in Nat, m <= n, NEW g, NEW h,
           Flattening(g, ss, n), Flattening(h, tt, m),
           \A i \in 1 .. m : tt[i] = ss[i]
    PROVE  \A i \in 1 .. m : h[i] = g[i]
<1> DEFINE T == {k \in Nat : k \in 1 .. m => h[k] = g[k]}
<1>1. 0 \in T
  OBVIOUS
<1>2. ASSUME NEW k \in Nat, k \in T
      PROVE  k + 1 \in T
  <2> SUFFICES ASSUME k + 1 \in 1 .. m
               PROVE  h[k + 1] = g[k + 1]
    OBVIOUS
  <2>1. /\ h[k + 1] = IF k + 1 = 1 THEN tt[k + 1] ELSE h[(k + 1) - 1] \o tt[k + 1]
        /\ g[k + 1] = IF k + 1 = 1 THEN ss[k + 1] ELSE g[(k + 1) - 1] \o ss[k + 1]
    <3>1. k + 1 \in 1 .. n
      OBVIOUS
    <3>2. h[k + 1] = IF k + 1 = 1 THEN tt[k + 1] ELSE h[(k + 1) - 1] \o tt[k + 1]
      BY FlatteningAt
    <3>3. g[k + 1] = IF k + 1 = 1 THEN ss[k + 1] ELSE g[(k + 1) - 1] \o ss[k + 1]
      BY <3>1, FlatteningAt
    <3> QED
      BY <3>2, <3>3
  <2>2. tt[k + 1] = ss[k + 1] /\ (k + 1) - 1 = k
    OBVIOUS
  <2>3. k + 1 = 1 \/ h[k] = g[k]
    BY <1>2
  <2> QED
    BY <2>1, <2>2, <2>3
<1> HIDE DEF T
<1>3. \A k \in Nat : k \in T
  BY <1>1, <1>2, Induction
<1> QED
  BY <1>3 DEF T

(* What a beginning of the sequences flattens to is a value on the way.    *)
StartOf(tt, ss, n) ==
    /\ Len(tt) \in Nat /\ Len(tt) # 0 /\ Len(tt) <= n
    /\ \A i \in 1 .. Len(tt) : tt[i] = ss[i]

LEMMA FlattenStart ==
    ASSUME NEW ss, NEW n \in Nat, NEW g, Flattening(g, ss, n),
           NEW tt, StartOf(tt, ss, n)
    PROVE  FlattenSeq(tt) = g[Len(tt)]
<1>1. PICK h : Flattening(h, tt, Len(tt)) /\ FlattenSeq(tt) = h[Len(tt)]
  BY FlattenDef DEF StartOf
<1>2. \A i \in 1 .. Len(tt) : h[i] = g[i]
  BY <1>1, FlatteningUnique DEF StartOf
<1> QED
  BY <1>1, <1>2 DEF StartOf

(* Flattened one after the other.                                          *)
FlatUpTo(ss, k) == FlattenSeq(SubSeq(ss, 1, k))

(* From nothing, one sequence at a time.                                   *)
LEMMA FlatSteps ==
    ASSUME NEW S, NEW ss \in Seq(Seq(S)), NEW n \in Nat, n = Len(ss)
    PROVE  /\ FlatUpTo(ss, 0) = <<>>
           /\ \A k \in 1 .. n : FlatUpTo(ss, k) = FlatUpTo(ss, k - 1) \o ss[k]
           /\ FlattenSeq(ss) = FlatUpTo(ss, n)
<1>1. n \in Nat /\ \A i \in 1 .. n : ss[i] \in Seq(S)
  BY LenProperties, ElementOfSeq
<1>2. \A k \in 0 .. n : /\ SubSeq(ss, 1, k) \in Seq(Seq(S)) /\ Len(SubSeq(ss, 1, k)) = k
                        /\ \A i \in 1 .. k : SubSeq(ss, 1, k)[i] = ss[i]
  <2> SUFFICES ASSUME NEW k \in 0 .. n
               PROVE  /\ SubSeq(ss, 1, k) \in Seq(Seq(S)) /\ Len(SubSeq(ss, 1, k)) = k
                      /\ \A i \in 1 .. k : SubSeq(ss, 1, k)[i] = ss[i]
    OBVIOUS
  <2>1. k \in Int /\ 1 \in Int /\ \A i \in 1 .. k : ss[i] \in Seq(S)
    BY <1>1
  <2>2. /\ SubSeq(ss, 1, k) \in Seq(Seq(S))
        /\ Len(SubSeq(ss, 1, k)) = IF 1 <= k THEN k - 1 + 1 ELSE 0
        /\ \A i \in 1 .. k - 1 + 1 : SubSeq(ss, 1, k)[i] = ss[1 + i - 1]
    BY <2>1, SubSeqProperties
  <2> QED
    BY <1>1, <2>2
<1>3. SubSeq(ss, 1, 0) = <<>> /\ FlatUpTo(ss, 0) = <<>>
  <2>1. SubSeq(ss, 1, 0) \in Seq(Seq(S)) /\ Len(SubSeq(ss, 1, 0)) = 0
    BY <1>1, <1>2
  <2>2. SubSeq(ss, 1, 0) = <<>>
    BY <2>1, EmptySeq
  <2> QED
    BY <2>1, <2>2 DEF FlatUpTo, FlattenSeq
<1>4. PICK g : Flattening(g, ss, n)
  BY <1>1, FlatteningExists
<1>5. \A k \in 1 .. n : FlatUpTo(ss, k) = g[k]
  <2> SUFFICES ASSUME NEW k \in 1 .. n
               PROVE  FlatUpTo(ss, k) = g[k]
    OBVIOUS
  <2>1. k \in Nat /\ k # 0 /\ k \in 0 .. n /\ k <= n
    BY <1>1
  <2>2. PICK tt : tt = SubSeq(ss, 1, k)
    OBVIOUS
  <2>3. k = Len(tt) /\ StartOf(tt, ss, n)
    BY <1>2, <2>1, <2>2 DEF StartOf
  <2>4. FlattenSeq(tt) = g[Len(tt)]
    BY <1>4, <2>3, FlattenStart
  <2> QED
    BY <2>2, <2>3, <2>4 DEF FlatUpTo
<1>6. \A k \in 1 .. n : FlatUpTo(ss, k) = FlatUpTo(ss, k - 1) \o ss[k]
  <2> SUFFICES ASSUME NEW k \in 1 .. n
               PROVE  FlatUpTo(ss, k) = FlatUpTo(ss, k - 1) \o ss[k]
    OBVIOUS
  <2>1. g[k] = IF k = 1 THEN ss[k] ELSE g[k - 1] \o ss[k]
    BY <1>1, <1>4, FlatteningAt
  <2>2. CASE k = 1
    <3>1. ss[1] \in Seq(S) /\ <<>> \o ss[1] = ss[1]
      BY <1>1, <2>2, EmptySeq, ConcatEmptySeq
    <3> QED
      BY <1>3, <1>5, <2>1, <2>2, <3>1
  <2>3. CASE k # 1
    <3>1. k - 1 \in 1 .. n
      BY <1>1, <2>3
    <3> QED
      BY <1>5, <2>1, <2>3, <3>1
  <2> QED
    BY <2>2, <2>3
<1>7. FlattenSeq(ss) = FlatUpTo(ss, n)
  <2>1. SubSeq(ss, 1, n) = ss
    BY <1>1, <1>2, SeqEqual
  <2> QED
    BY <2>1 DEF FlatUpTo
<1> QED
  BY <1>3, <1>6, <1>7

(* A concatenation, position by position.                                  *)
LEMMA Concatenated ==
    ASSUME NEW S, NEW a \in Seq(S), NEW b \in Seq(S), NEW c, c = a \o b
    PROVE  /\ c \in Seq(S)
           /\ Len(a) \in Nat /\ Len(b) \in Nat /\ Len(c) = Len(a) + Len(b)
           /\ \A p \in 1 .. Len(a) : c[p] = a[p]
           /\ \A p \in 1 .. Len(b) : c[Len(a) + p] = b[p]
<1>1. /\ c \in Seq(S) /\ Len(c) = Len(a) + Len(b)
      /\ \A i \in 1 .. Len(a) + Len(b) : c[i] = IF i <= Len(a) THEN a[i] ELSE b[i - Len(a)]
  BY ConcatProperties
<1>2. Len(a) \in Nat /\ Len(b) \in Nat
  BY LenProperties
<1>3. \A p \in 1 .. Len(b) : c[Len(a) + p] = b[p]
  <2> SUFFICES ASSUME NEW p \in 1 .. Len(b)
               PROVE  c[Len(a) + p] = b[p]
    OBVIOUS
  <2>1. /\ Len(a) + p \in 1 .. Len(a) + Len(b) /\ ~ (Len(a) + p <= Len(a))
        /\ (Len(a) + p) - Len(a) = p
    BY <1>2
  <2> QED
    BY <1>1, <2>1
<1> QED
  BY <1>1, <1>2, <1>3

(* The same, as one fact to carry around.                                  *)
Joined(S, c, a, b) ==
    /\ c \in Seq(S)
    /\ Len(a) \in Nat /\ Len(b) \in Nat /\ Len(c) = Len(a) + Len(b)
    /\ \A p \in 1 .. Len(a) : c[p] = a[p]
    /\ \A p \in 1 .. Len(b) : c[Len(a) + p] = b[p]

LEMMA Joining ==
    ASSUME NEW S, NEW a \in Seq(S), NEW b \in Seq(S)
    PROVE  Joined(S, a \o b, a, b)
<1>1. PICK c : c = a \o b
  OBVIOUS
<1>2. Joined(S, c, a, b)
  BY <1>1, Concatenated DEF Joined
<1> QED
  BY <1>1, <1>2

(* Two sequences around one element.                                       *)
LEMMA AroundOne ==
    ASSUME NEW S, NEW a \in Seq(S), NEW e \in S, NEW b \in Seq(S), NEW c, c = (a \o <<e>>) \o b
    PROVE  /\ c \in Seq(S)
           /\ Len(a) \in Nat /\ Len(b) \in Nat /\ Len(c) = Len(a) + 1 + Len(b)
           /\ \A p \in 1 .. Len(a) : c[p] = a[p]
           /\ c[Len(a) + 1] = e
           /\ \A p \in 1 .. Len(b) : c[Len(a) + 1 + p] = b[p]
<1>1. PICK r : r = <<e>>
  OBVIOUS
<1>2. r \in Seq(S) /\ Len(r) = 1 /\ r[1] = e
  BY <1>1
<1>3. PICK d : d = a \o r
  OBVIOUS
<1>4. Joined(S, d, a, r)
  BY <1>2, <1>3, Joining
<1>5. /\ d \in Seq(S) /\ Len(a) \in Nat /\ Len(d) = Len(a) + 1 /\ d[Len(a) + 1] = e
      /\ \A p \in 1 .. Len(a) : d[p] = a[p]
  <2>1. 1 \in 1 .. Len(r)
    BY <1>2
  <2> QED
    BY <1>2, <1>4, <2>1 DEF Joined
<1>6. c = d \o b
  BY <1>1, <1>3
<1>7. Joined(S, c, d, b)
  BY <1>5, <1>6, Joining
<1>8. Len(a) + 1 \in 1 .. Len(d) /\ \A p \in 1 .. Len(a) : p \in 1 .. Len(d)
  BY <1>5
<1> QED
  BY <1>5, <1>7, <1>8 DEF Joined

(* What is flattened so far is a sequence, whose length grows block by     *)
(* block.                                                                  *)
LEMMA FlatType ==
    ASSUME NEW S, NEW ss \in Seq(Seq(S)), NEW n \in Nat, n = Len(ss)
    PROVE  /\ \A k \in 1 .. n : ss[k] \in Seq(S)
           /\ \A k \in 0 .. n : FlatUpTo(ss, k) \in Seq(S)
           /\ \A k \in 1 .. n :
                  Len(FlatUpTo(ss, k)) = Len(FlatUpTo(ss, k - 1)) + Len(ss[k])
<1> DEFINE T == {k \in Nat : k <= n => FlatUpTo(ss, k) \in Seq(S)}
<1>1. \A k \in 1 .. n : ss[k] \in Seq(S)
  BY LenProperties, ElementOfSeq
<1>2. 0 \in T
  <2>1. FlatUpTo(ss, 0) = <<>> /\ <<>> \in Seq(S)
    BY FlatSteps, EmptySeq
  <2> QED
    BY <2>1
<1>3. ASSUME NEW k \in Nat, k \in T
      PROVE  k + 1 \in T
  <2> SUFFICES ASSUME k + 1 <= n
               PROVE  FlatUpTo(ss, k + 1) \in Seq(S)
    OBVIOUS
  <2>1. k + 1 \in 1 .. n /\ (k + 1) - 1 = k /\ FlatUpTo(ss, k) \in Seq(S)
    BY <1>3
  <2>2. FlatUpTo(ss, k + 1) = FlatUpTo(ss, (k + 1) - 1) \o ss[k + 1]
    BY <2>1, FlatSteps
  <2>3. FlatUpTo(ss, k + 1) = FlatUpTo(ss, k) \o ss[k + 1] /\ ss[k + 1] \in Seq(S)
    BY <1>1, <2>1, <2>2
  <2> QED
    BY <2>1, <2>3, Concatenated
<1> HIDE DEF T
<1>4. \A k \in Nat : k \in T
  BY <1>2, <1>3, Induction
<1>5. \A k \in 0 .. n : FlatUpTo(ss, k) \in Seq(S)
  BY <1>4 DEF T
<1>6. \A k \in 1 .. n : Len(FlatUpTo(ss, k)) = Len(FlatUpTo(ss, k - 1)) + Len(ss[k])
  <2> SUFFICES ASSUME NEW k \in 1 .. n
               PROVE  Len(FlatUpTo(ss, k)) = Len(FlatUpTo(ss, k - 1)) + Len(ss[k])
    OBVIOUS
  <2>1. k - 1 \in 0 .. n
    OBVIOUS
  <2>2. FlatUpTo(ss, k) = FlatUpTo(ss, k - 1) \o ss[k]
    BY FlatSteps
  <2> QED
    BY <1>1, <1>5, <2>1, <2>2, ConcatProperties
<1> QED
  BY <1>1, <1>5, <1>6

(* Where block k of the sequences begins.                                  *)
Offset(ss, k) == Len(FlatUpTo(ss, k - 1))

(* The j-th element of block k.                                            *)
IsAt(ss, flat, p, k, j) == p = Offset(ss, k) + j /\ flat[p] = ss[k][j]

(* Every position of the flattened sequence is one of a block.             *)
LEMMA FlatPosition ==
    ASSUME NEW S, NEW ss \in Seq(Seq(S)), NEW n \in Nat, n = Len(ss)
    PROVE  \A p \in 1 .. Len(FlattenSeq(ss)) :
               \E k \in 1 .. n : \E j \in 1 .. Len(ss[k]) : IsAt(ss, FlattenSeq(ss), p, k, j)
<1> DEFINE Found(m) == \A p \in 1 .. Len(FlatUpTo(ss, m)) :
                           \E k \in 1 .. m : \E j \in 1 .. Len(ss[k]) :
                               IsAt(ss, FlatUpTo(ss, m), p, k, j)
           T == {m \in Nat : m <= n => Found(m)}
<1>1. 0 \in T
  <2>1. FlatUpTo(ss, 0) = <<>> /\ Len(<<>>) = 0
    BY FlatSteps
  <2>2. 1 .. Len(FlatUpTo(ss, 0)) = {}
    BY <2>1
  <2> QED
    BY <2>2
<1>2. ASSUME NEW m \in Nat, m \in T
      PROVE  m + 1 \in T
  <2> SUFFICES ASSUME m + 1 <= n, NEW p \in 1 .. Len(FlatUpTo(ss, m + 1))
               PROVE  \E k \in 1 .. m + 1 : \E j \in 1 .. Len(ss[k]) :
                          IsAt(ss, FlatUpTo(ss, m + 1), p, k, j)
    OBVIOUS
  <2>1. m \in 0 .. n /\ m + 1 \in 1 .. n /\ (m + 1) - 1 = m /\ Found(m)
    BY <1>2
  <2> HIDE DEF Found
  <2>2. /\ FlatUpTo(ss, m) \in Seq(S) /\ ss[m + 1] \in Seq(S)
        /\ FlatUpTo(ss, m + 1) = FlatUpTo(ss, m) \o ss[m + 1]
    <3>1. FlatUpTo(ss, m + 1) = FlatUpTo(ss, (m + 1) - 1) \o ss[m + 1]
      BY <2>1, FlatSteps
    <3> QED
      BY <2>1, <3>1, FlatType
  <2>3. /\ Len(FlatUpTo(ss, m)) \in Nat /\ Len(ss[m + 1]) \in Nat
        /\ Len(FlatUpTo(ss, m + 1)) = Len(FlatUpTo(ss, m)) + Len(ss[m + 1])
        /\ \A i \in 1 .. Len(FlatUpTo(ss, m)) : FlatUpTo(ss, m + 1)[i] = FlatUpTo(ss, m)[i]
        /\ \A i \in 1 .. Len(ss[m + 1]) :
               FlatUpTo(ss, m + 1)[Len(FlatUpTo(ss, m)) + i] = ss[m + 1][i]
    BY <2>2, Concatenated
  <2>4. CASE p <= Len(FlatUpTo(ss, m))
    <3>1. p \in 1 .. Len(FlatUpTo(ss, m))
      BY <2>3, <2>4
    <3>2. PICK k \in 1 .. m : \E j \in 1 .. Len(ss[k]) : IsAt(ss, FlatUpTo(ss, m), p, k, j)
      BY <2>1, <3>1 DEF Found
    <3>3. PICK j \in 1 .. Len(ss[k]) : IsAt(ss, FlatUpTo(ss, m), p, k, j)
      BY <3>2
    <3>4. IsAt(ss, FlatUpTo(ss, m + 1), p, k, j) /\ k \in 1 .. m + 1
      BY <2>3, <3>1, <3>3 DEF IsAt
    <3> QED
      BY <3>4
  <2>5. CASE ~ (p <= Len(FlatUpTo(ss, m)))
    <3>1. p - Len(FlatUpTo(ss, m)) \in 1 .. Len(ss[m + 1])
      BY <2>3, <2>5
    <3>2. IsAt(ss, FlatUpTo(ss, m + 1), p, m + 1, p - Len(FlatUpTo(ss, m)))
      <4>1. Offset(ss, m + 1) = Len(FlatUpTo(ss, m))
        BY <2>1 DEF Offset
      <4>2. p = Len(FlatUpTo(ss, m)) + (p - Len(FlatUpTo(ss, m)))
        BY <2>3
      <4>3. FlatUpTo(ss, m + 1)[Len(FlatUpTo(ss, m)) + (p - Len(FlatUpTo(ss, m)))]
                = ss[m + 1][p - Len(FlatUpTo(ss, m))]
        BY <2>3, <3>1
      <4> QED
        BY <4>1, <4>2, <4>3 DEF IsAt
    <3>3. m + 1 \in 1 .. m + 1
      OBVIOUS
    <3> QED
      BY <3>1, <3>2, <3>3
  <2> QED
    BY <2>4, <2>5
<1> HIDE DEF T
<1>3. n \in T
  BY <1>1, <1>2, Induction
<1>4. FlattenSeq(ss) = FlatUpTo(ss, n)
  BY FlatSteps
<1> QED
  BY <1>3, <1>4 DEF T

(* And every block is in it, at its place.                                 *)
LEMMA FlatBlock ==
    ASSUME NEW S, NEW ss \in Seq(Seq(S)), NEW n \in Nat, n = Len(ss)
    PROVE  \A k \in 1 .. n : \A j \in 1 .. Len(ss[k]) :
               /\ Offset(ss, k) + j \in 1 .. Len(FlattenSeq(ss))
               /\ FlattenSeq(ss)[Offset(ss, k) + j] = ss[k][j]
<1> DEFINE InPlace(m, k, j) == /\ Offset(ss, k) + j \in 1 .. Len(FlatUpTo(ss, m))
                               /\ FlatUpTo(ss, m)[Offset(ss, k) + j] = ss[k][j]
           T == {m \in Nat : m <= n =>
                     \A k \in 1 .. m : \A j \in 1 .. Len(ss[k]) : InPlace(m, k, j)}
<1>1. 0 \in T
  OBVIOUS
<1>2. ASSUME NEW m \in Nat, m \in T
      PROVE  m + 1 \in T
  <2> SUFFICES ASSUME m + 1 <= n, NEW k \in 1 .. m + 1, NEW j \in 1 .. Len(ss[k])
               PROVE  InPlace(m + 1, k, j)
    OBVIOUS
  <2>1. /\ m \in 0 .. n /\ m + 1 \in 1 .. n /\ (m + 1) - 1 = m
        /\ \A i \in 1 .. m : \A l \in 1 .. Len(ss[i]) : InPlace(m, i, l)
    BY <1>2
  <2>2. /\ FlatUpTo(ss, m) \in Seq(S) /\ ss[m + 1] \in Seq(S)
        /\ FlatUpTo(ss, m + 1) = FlatUpTo(ss, m) \o ss[m + 1]
    <3>1. FlatUpTo(ss, m + 1) = FlatUpTo(ss, (m + 1) - 1) \o ss[m + 1]
      BY <2>1, FlatSteps
    <3> QED
      BY <2>1, <3>1, FlatType
  <2>3. /\ Len(FlatUpTo(ss, m)) \in Nat /\ Len(ss[m + 1]) \in Nat
        /\ Len(FlatUpTo(ss, m + 1)) = Len(FlatUpTo(ss, m)) + Len(ss[m + 1])
        /\ \A i \in 1 .. Len(FlatUpTo(ss, m)) : FlatUpTo(ss, m + 1)[i] = FlatUpTo(ss, m)[i]
        /\ \A i \in 1 .. Len(ss[m + 1]) :
               FlatUpTo(ss, m + 1)[Len(FlatUpTo(ss, m)) + i] = ss[m + 1][i]
    BY <2>2, Concatenated
  <2>4. CASE k \in 1 .. m
    <3>1. InPlace(m, k, j)
      BY <2>1, <2>4
    <3> DEFINE q == Offset(ss, k) + j
    <3>2. q \in 1 .. Len(FlatUpTo(ss, m)) /\ FlatUpTo(ss, m)[q] = ss[k][j]
      BY <3>1
    <3> HIDE DEF q
    <3>3. q \in 1 .. Len(FlatUpTo(ss, m + 1)) /\ FlatUpTo(ss, m + 1)[q] = FlatUpTo(ss, m)[q]
      BY <2>3, <3>2
    <3> QED
      BY <3>2, <3>3 DEF q
  <2>5. CASE k = m + 1
    <3>1. Offset(ss, k) = Len(FlatUpTo(ss, m))
      BY <2>1, <2>5 DEF Offset
    <3>2. j \in 1 .. Len(ss[m + 1])
      BY <2>5
    <3>3. /\ Len(FlatUpTo(ss, m)) + j \in 1 .. Len(FlatUpTo(ss, m + 1))
          /\ FlatUpTo(ss, m + 1)[Len(FlatUpTo(ss, m)) + j] = ss[m + 1][j]
      BY <2>3, <3>2
    <3> QED
      BY <2>5, <3>1, <3>3
  <2> QED
    BY <2>4, <2>5
<1> HIDE DEF T
<1>3. n \in T
  BY <1>1, <1>2, Induction
<1>4. FlattenSeq(ss) = FlatUpTo(ss, n)
  BY FlatSteps
<1> QED
  BY <1>3, <1>4 DEF T

-----------------------------------------------------------------------------
(* The checks of a name are made once, against the names before it: what   *)
(* they leave is said of any two names.                                    *)
ViewTypeOK ==
    /\ groupBy \in Seq(Identifier)
    /\ aggregates \in Seq(Aggregate)
    /\ parsing \in {"group_by", "aggregates", "accepted", "ConfigError"}

GroupByChecked ==
    /\ \A i \in 1 .. Len(groupBy) : IsIdent(groupBy[i]) /\ groupBy[i] # Named(RowsColumn)
    /\ \A i, j \in 1 .. Len(groupBy) : i # j => groupBy[i] # groupBy[j]

AggregateChecked(agg) ==
    /\ IsIdent(agg.alias) /\ ~Reserved(agg.alias)
    /\ Summed(agg) => Bytes(agg.alias) + StorageBytes <= MaxIdentBytes
    /\ \A i \in 1 .. Len(groupBy) : groupBy[i] # agg.alias

AggregatesChecked ==
    /\ parsing = "group_by" => aggregates = <<>>
    /\ \A i \in 1 .. Len(aggregates) : AggregateChecked(aggregates[i])
    /\ \A i, j \in 1 .. Len(aggregates) : i # j => aggregates[i].alias # aggregates[j].alias

ViewIInv == ViewTypeOK /\ GroupByChecked /\ AggregatesChecked

(* Nothing is accepted before anything is checked.                         *)
LEMMA ViewInitIInv == ViewInit => ViewIInv
<1> SUFFICES ASSUME ViewInit PROVE ViewIInv
  OBVIOUS
<1>1. /\ groupBy = <<>> /\ aggregates = <<>> /\ parsing = "group_by"
      /\ Len(groupBy) = 0 /\ Len(aggregates) = 0
  BY DEF ViewInit
<1>2. ViewTypeOK
  BY <1>1, EmptySeq DEF ViewTypeOK
<1>3. GroupByChecked /\ AggregatesChecked
  BY <1>1 DEF GroupByChecked, AggregatesChecked
<1> QED
  BY <1>2, <1>3 DEF ViewIInv

(* A name that is added was checked against all before it.                 *)
LEMMA ViewNextIInv == ViewIInv /\ [ViewNext]_viewVars => ViewIInv'
<1> SUFFICES ASSUME ViewIInv, [ViewNext]_viewVars
             PROVE  ViewIInv'
  OBVIOUS
<1> USE DEF ViewIInv
<1>1. ASSUME NEW col \in Identifier, ParseGroupBy(col)
      PROVE  ViewIInv'
  <2>1. /\ groupBy \in Seq(Identifier) /\ Len(groupBy) \in Nat
        /\ aggregates = <<>> /\ aggregates' = <<>>
        /\ DOMAIN groupBy = 1 .. Len(groupBy)
    BY <1>1, LenProperties DEF ViewTypeOK, AggregatesChecked, ParseGroupBy
  <2>2. CASE MayGroupBy(col) /\ groupBy' = Append(groupBy, col) /\ parsing' = parsing
    <3>1. /\ groupBy' \in Seq(Identifier) /\ Len(groupBy') = Len(groupBy) + 1
          /\ \A i \in 1 .. Len(groupBy) : groupBy'[i] = groupBy[i]
          /\ groupBy'[Len(groupBy) + 1] = col
      BY <2>1, <2>2, AppendProperties
    <3>2. IsIdent(col) /\ col # Named(RowsColumn) /\ \A i \in 1 .. Len(groupBy) : groupBy[i] # col
      BY <2>1, <2>2 DEF MayGroupBy
    <3>3. \A i \in 1 .. Len(groupBy') : i \in 1 .. Len(groupBy) \/ i = Len(groupBy) + 1
      BY <2>1, <3>1
    <3>4. GroupByChecked'
      BY <3>1, <3>2, <3>3 DEF GroupByChecked, IsIdent, Bytes, Named
    <3>5. ViewTypeOK'
      BY <2>1, <2>2, <3>1, EmptySeq DEF ViewTypeOK
    <3>6. AggregatesChecked'
      BY <2>1 DEF AggregatesChecked
    <3> QED
      BY <3>4, <3>5, <3>6
  <2>3. CASE parsing' = "ConfigError" /\ groupBy' = groupBy
    BY <2>1, <2>3 DEF ViewTypeOK, GroupByChecked, AggregatesChecked
  <2> QED
    BY <1>1, <2>2, <2>3 DEF ParseGroupBy
<1>2. ASSUME NEW agg \in Aggregate, ParseAggregate(agg)
      PROVE  ViewIInv'
  <2>1. /\ groupBy \in Seq(Identifier) /\ aggregates \in Seq(Aggregate) /\ Len(aggregates) \in Nat
        /\ DOMAIN groupBy = 1 .. Len(groupBy) /\ DOMAIN aggregates = 1 .. Len(aggregates)
        /\ groupBy' = groupBy /\ parsing = "aggregates"
    BY <1>2, LenProperties DEF ViewTypeOK, ParseAggregate
  <2>2. GroupByChecked'
    BY <2>1 DEF GroupByChecked
  <2>3. CASE MayAggregate(agg) /\ aggregates' = Append(aggregates, agg) /\ parsing' = parsing
    <3>1. /\ aggregates' \in Seq(Aggregate) /\ Len(aggregates') = Len(aggregates) + 1
          /\ \A i \in 1 .. Len(aggregates) : aggregates'[i] = aggregates[i]
          /\ aggregates'[Len(aggregates) + 1] = agg
      BY <2>1, <2>3, AppendProperties
    <3>2. AggregateChecked(agg) /\ \A i \in 1 .. Len(aggregates) : aggregates[i].alias # agg.alias
      BY <2>1, <2>3 DEF MayAggregate, AggregateChecked
    <3>3. \A i \in 1 .. Len(aggregates') : i \in 1 .. Len(aggregates) \/ i = Len(aggregates) + 1
      BY <2>1, <3>1
    <3>4. \A i \in 1 .. Len(aggregates') : AggregateChecked(aggregates'[i])
      BY <3>1, <3>2, <3>3 DEF AggregatesChecked
    <3>5. \A i \in 1 .. Len(aggregates') : AggregateChecked(aggregates[i])'
      BY <2>1, <3>4 DEF AggregateChecked
    <3>6. AggregatesChecked'
      BY <2>1, <2>3, <3>1, <3>2, <3>3, <3>5 DEF AggregatesChecked
    <3> QED
      BY <2>1, <2>2, <2>3, <3>1, <3>6 DEF ViewTypeOK
  <2>4. CASE parsing' = "ConfigError" /\ aggregates' = aggregates
    BY <2>1, <2>2, <2>4 DEF ViewTypeOK, AggregatesChecked, AggregateChecked
  <2> QED
    BY <1>2, <2>3, <2>4 DEF ParseAggregate
<1>3. ASSUME GroupByEnds \/ AggregatesEnd \/ UNCHANGED viewVars
      PROVE  ViewIInv'
  BY <1>3 DEF ViewTypeOK, GroupByChecked, AggregatesChecked, AggregateChecked,
              GroupByEnds, AggregatesEnd, viewVars
<1> QED
  BY <1>1, <1>2, <1>3 DEF ViewNext

(* The columns of each aggregate.                                          *)
Blocks == [i \in DOMAIN aggregates |-> AggregateColumns(aggregates[i])]

(* A column of the table is a key, the row count, or one of an aggregate's.*)
KeyAt(p) == p \in 1 .. Len(KeyColumns) /\ TargetColumns[p] = KeyColumns[p]

RowsAt(p) == p = Len(KeyColumns) + 1 /\ TargetColumns[p] = Named(RowsColumn)

OfAggregate(p, k, j) ==
    /\ p = Len(KeyColumns) + 1 + (Offset(Blocks, k) + j)
    /\ TargetColumns[p] = Blocks[k][j]

AggregateAt(p) ==
    \E k \in 1 .. Len(aggregates) : \E j \in 1 .. Len(Blocks[k]) : OfAggregate(p, k, j)

(* They are columns, of every aggregate in its place.                      *)
LEMMA BlocksType ==
    ASSUME ViewTypeOK
    PROVE  /\ Blocks \in Seq(Seq(Identifier)) /\ Len(Blocks) = Len(aggregates)
           /\ Len(aggregates) \in Nat
           /\ \A i \in 1 .. Len(aggregates) : aggregates[i] \in Aggregate
           /\ \A i \in 1 .. Len(aggregates) : Blocks[i] = AggregateColumns(aggregates[i])
<1>1. /\ Len(aggregates) \in Nat /\ DOMAIN aggregates = 1 .. Len(aggregates)
      /\ \A i \in 1 .. Len(aggregates) : aggregates[i] \in Aggregate
  BY LenProperties, ElementOfSeq DEF ViewTypeOK
<1>2. ASSUME NEW agg \in Aggregate
      PROVE  AggregateColumns(agg) \in Seq(Identifier)
  <2>1. agg.alias \in Identifier
    BY DEF Aggregate
  <2>2. Storage(agg.alias, "__sum") \in Identifier /\ Storage(agg.alias, "__nn") \in Identifier
    BY <2>1 DEF Identifier, StorageSuffixes, Storage
  <2> QED
    BY <2>1, <2>2 DEF AggregateColumns
<1>3. Blocks = [i \in 1 .. Len(aggregates) |-> AggregateColumns(aggregates[i])]
  BY <1>1 DEF Blocks
<1>4. \A i \in 1 .. Len(aggregates) : AggregateColumns(aggregates[i]) \in Seq(Identifier)
  BY <1>1, <1>2
<1>5. Blocks \in Seq(Seq(Identifier)) /\ Len(Blocks) = Len(aggregates)
  BY <1>1, <1>3, <1>4, IsASeq, LenProperties
<1> QED
  BY <1>1, <1>3, <1>5

(* The key is the group_by columns, or the one of a global view.           *)
LEMMA KeyColumnsType ==
    ASSUME ViewTypeOK
    PROVE  /\ KeyColumns \in Seq(Identifier) /\ Len(KeyColumns) \in Nat
           /\ \/ /\ groupBy = <<>>
                 /\ Len(KeyColumns) = 1 /\ KeyColumns[1] = Named(GlobalKey)
              \/ KeyColumns = groupBy
<1>1. Named(GlobalKey) \in Identifier
  BY ViewColumnsAssumption DEF Named, Identifier, StorageSuffixes
<1>2. <<Named(GlobalKey)>> \in Seq(Identifier)
  BY <1>1
<1> QED
  BY <1>2, LenProperties DEF KeyColumns, ViewTypeOK

(* The lengths of the suffixes.                                            *)
LEMMA SuffixLengths ==
    SuffixBytes("none") = 0 /\ SuffixBytes("__nn") = 4 /\ SuffixBytes("__sum") = 5
  BY Zenon DEF SuffixBytes

(* And nothing else is in the table.                                       *)
LEMMA ColumnPosition ==
    ASSUME ViewTypeOK
    PROVE  \A p \in DOMAIN TargetColumns : p \in Nat /\ (KeyAt(p) \/ RowsAt(p) \/ AggregateAt(p))
<1>1. Named(RowsColumn) \in Identifier
  BY ViewColumnsAssumption DEF Named, Identifier, StorageSuffixes
<1>2. PICK F : F = FlattenSeq(Blocks)
  OBVIOUS
<1>3. F \in Seq(Identifier)
  <2>1. FlattenSeq(Blocks) = FlatUpTo(Blocks, Len(aggregates))
    BY BlocksType, FlatSteps
  <2>2. Len(aggregates) \in 0 .. Len(aggregates)
    BY BlocksType
  <2> QED
    BY <1>2, <2>1, <2>2, BlocksType, FlatType
<1>4. PICK K : K = KeyColumns
  OBVIOUS
<1>5. PICK T : T = TargetColumns
  OBVIOUS
<1>6. T = (K \o <<Named(RowsColumn)>>) \o F
  BY <1>2, <1>4, <1>5 DEF TargetColumns, Blocks
<1>7. K \in Seq(Identifier)
  BY <1>4, KeyColumnsType
<1>8. /\ T \in Seq(Identifier)
      /\ Len(K) \in Nat /\ Len(F) \in Nat /\ Len(T) = Len(K) + 1 + Len(F)
      /\ \A p \in 1 .. Len(K) : T[p] = K[p]
      /\ T[Len(K) + 1] = Named(RowsColumn)
      /\ \A p \in 1 .. Len(F) : T[Len(K) + 1 + p] = F[p]
  BY <1>1, <1>3, <1>6, <1>7, AroundOne
<1>9. DOMAIN T = 1 .. Len(T)
  BY <1>8, LenProperties
<1> SUFFICES ASSUME NEW p \in 1 .. Len(T)
             PROVE  KeyAt(p) \/ RowsAt(p) \/ AggregateAt(p)
  BY <1>5, <1>8, <1>9
<1>10. CASE p <= Len(K)
  <2>1. p \in 1 .. Len(K) /\ T[p] = K[p]
    BY <1>8, <1>10
  <2> QED
    BY <1>4, <1>5, <2>1 DEF KeyAt
<1>11. CASE p = Len(K) + 1
  BY <1>4, <1>5, <1>8, <1>11 DEF RowsAt
<1>12. CASE p > Len(K) + 1
  <2>1. PICK q : q \in 1 .. Len(F) /\ p = Len(K) + 1 + q
    <3>1. p - (Len(K) + 1) \in 1 .. Len(F) /\ p = Len(K) + 1 + (p - (Len(K) + 1))
      BY <1>8, <1>12
    <3> QED
      BY <3>1
  <2>2. T[p] = F[q]
    BY <1>8, <2>1
  <2>3. PICK k \in 1 .. Len(aggregates) :
                 \E j \in 1 .. Len(Blocks[k]) : IsAt(Blocks, F, q, k, j)
    BY <1>2, <2>1, BlocksType, FlatPosition
  <2>4. PICK j \in 1 .. Len(Blocks[k]) : IsAt(Blocks, F, q, k, j)
    BY <2>3
  <2>5. OfAggregate(p, k, j)
    BY <1>4, <1>5, <2>1, <2>2, <2>4 DEF OfAggregate, IsAt
  <2> QED
    BY <2>5 DEF AggregateAt
<1> QED
  BY <1>5, <1>8, <1>9, <1>10, <1>11, <1>12

(* The columns of an aggregate that was accepted.                          *)
LEMMA StorageOf ==
    ASSUME ViewTypeOK, NEW k \in 1 .. Len(aggregates), AggregateChecked(aggregates[k]),
           NEW j \in 1 .. Len(Blocks[k]), NEW c, c = Blocks[k][j]
    PROVE  /\ c.stem = aggregates[k].alias.stem
           /\ aggregates[k].alias \in Identifier /\ aggregates[k].alias.suffix = "none"
           /\ Bytes(c) <= MaxIdentBytes
           /\ c # Named(RowsColumn)
           /\ c.suffix = "none" => c = aggregates[k].alias
           /\ \A i \in 1 .. Len(Blocks[k]) : Blocks[k][i] = c => i = j
<1>1. PICK agg : agg = aggregates[k]
  OBVIOUS
<1>2. agg \in Aggregate /\ Blocks[k] = AggregateColumns(agg)
  BY <1>1, BlocksType
<1>3. PICK a : a = agg.alias
  OBVIOUS
<1>4. /\ a \in Identifier /\ a.suffix = "none" /\ a # Named(RowsColumn)
      /\ IsIdent(a)
      /\ Summed(agg) => Bytes(a) + StorageBytes <= MaxIdentBytes
  BY <1>1, <1>2, <1>3 DEF AggregateChecked, Reserved, Aggregate
<1>5. StemBytes[a.stem] \in Nat
  BY <1>4, ViewColumnsAssumption DEF Identifier
<1>6. Bytes(a) = StemBytes[a.stem]
  BY <1>4, <1>5, SuffixLengths DEF Bytes
<1>7. CASE Summed(agg)
  <2>1. Blocks[k] = <<Storage(a, "__sum"), Storage(a, "__nn"), a>>
    BY <1>2, <1>3, <1>7 DEF AggregateColumns
  <2>2. StemBytes[a.stem] + 5 <= 63
    <3> QED
      BY <1>4, <1>6, <1>7, SuffixLengths DEF StorageBytes, MaxIdentBytes
  <2>3. /\ Storage(a, "__sum").suffix = "__sum" /\ Storage(a, "__sum").stem = a.stem
        /\ Storage(a, "__nn").suffix = "__nn" /\ Storage(a, "__nn").stem = a.stem
    BY DEF Storage
  <2>4. PICK b : b = Blocks[k]
    OBVIOUS
  <2>5. /\ Len(b) = 3
        /\ b[1].suffix = "__sum" /\ b[1].stem = a.stem
        /\ b[2].suffix = "__nn" /\ b[2].stem = a.stem
        /\ b[3] = a
    BY <2>1, <2>3, <2>4
  <2>6. j \in 1 .. 3 /\ c = b[j]
    BY <2>4, <2>5
  <2>7. /\ c.stem = a.stem
        /\ j = 1 => c.suffix = "__sum"
        /\ j = 2 => c.suffix = "__nn"
        /\ j = 3 => c.suffix = "none"
    BY <1>4, <2>5, <2>6
  <2>9. ASSUME NEW i \in 1 .. Len(Blocks[k]), Blocks[k][i] = c
        PROVE  i = j
    <3>1. i \in 1 .. 3 /\ c = b[i]
      BY <2>4, <2>5, <2>9
    <3>2. /\ i = 1 => c.suffix = "__sum"
          /\ i = 2 => c.suffix = "__nn"
          /\ i = 3 => c.suffix = "none"
      BY <1>4, <2>5, <3>1
    <3> QED
      BY <2>6, <2>7, <3>1, <3>2
  <2>10. Bytes(c) <= MaxIdentBytes
    <3>1. SuffixBytes(c.suffix) \in 0 .. 5
      BY <2>6, <2>7, SuffixLengths
    <3> QED
      BY <1>5, <2>2, <2>7, <3>1 DEF Bytes, MaxIdentBytes
  <2>11. c.suffix = "none" => c = a
    BY <2>5, <2>6, <2>7
  <2>12. c # Named(RowsColumn)
    <3>1. Named(RowsColumn).suffix = "none"
      BY DEF Named
    <3> QED
      BY <1>4, <2>11, <3>1
  <2> QED
    BY <1>1, <1>3, <1>4, <2>7, <2>9, <2>10, <2>11, <2>12
<1>8. CASE ~Summed(agg)
  <2>1. Blocks[k] = <<a>>
    BY <1>2, <1>3, <1>8 DEF AggregateColumns
  <2>2. j = 1 /\ c = a /\ \A i \in 1 .. Len(Blocks[k]) : i = 1
    BY <2>1
  <2> QED
    BY <1>1, <1>3, <1>4, <2>2 DEF IsIdent
<1> QED
  BY <1>7, <1>8

(* Every kind of column fits: a storage column because the room for it was *)
(* checked with the alias.                                                 *)
LEMMA ViewIInvNamesFit == ViewIInv => NamesFit
<1> SUFFICES ASSUME ViewIInv, NEW p \in DOMAIN TargetColumns
             PROVE  Bytes(TargetColumns[p]) <= MaxIdentBytes
  BY DEF NamesFit
<1>1. ViewTypeOK /\ GroupByChecked /\ AggregatesChecked
  BY DEF ViewIInv
<1>2. /\ Bytes(Named(GlobalKey)) <= MaxIdentBytes
      /\ Bytes(Named(RowsColumn)) <= MaxIdentBytes
  BY ViewColumnsAssumption DEF Named, Bytes, SuffixBytes, MaxIdentBytes
<1>3. CASE KeyAt(p)
  BY <1>1, <1>2, <1>3, KeyColumnsType DEF KeyAt, GroupByChecked, IsIdent
<1>4. CASE RowsAt(p)
  BY <1>2, <1>4 DEF RowsAt
<1>5. CASE AggregateAt(p)
  BY <1>1, <1>5, StorageOf DEF AggregateAt, OfAggregate, AggregatesChecked
<1> QED
  BY <1>1, <1>3, <1>4, <1>5, ColumnPosition

(* Any two columns, by where they come from.                               *)
LEMMA ViewIInvColumnsDistinct == ViewIInv => ColumnsDistinct
<1> SUFFICES ASSUME ViewIInv, NEW p \in DOMAIN TargetColumns, NEW q \in DOMAIN TargetColumns,
                    p < q, TargetColumns[p] = TargetColumns[q]
             PROVE  Overlooked(TargetColumns[p])
  BY DEF ColumnsDistinct
<1>1. ViewTypeOK /\ GroupByChecked /\ AggregatesChecked
  BY DEF ViewIInv
<1>2. ASSUME NEW x, KeyAt(x)
      PROVE  \/ groupBy = <<>> /\ x = 1 /\ TargetColumns[x] = Named(GlobalKey)
             \/ x \in 1 .. Len(groupBy) /\ TargetColumns[x] = groupBy[x]
  BY <1>1, <1>2, KeyColumnsType DEF KeyAt
<1>3. ASSUME NEW x, NEW y, KeyAt(x), RowsAt(y), TargetColumns[x] = TargetColumns[y]
      PROVE  Overlooked(TargetColumns[x])
  BY <1>1, <1>2, <1>3 DEF RowsAt, GroupByChecked, Overlooked
<1>4. ASSUME NEW x, NEW y, KeyAt(x), AggregateAt(y), TargetColumns[x] = TargetColumns[y]
      PROVE  Overlooked(TargetColumns[x])
  <2>1a. PICK k \in 1 .. Len(aggregates) : \E j \in 1 .. Len(Blocks[k]) : OfAggregate(y, k, j)
    BY <1>4 DEF AggregateAt
  <2>1. PICK j \in 1 .. Len(Blocks[k]) : OfAggregate(y, k, j)
    BY <2>1a
  <2>2. AggregateChecked(aggregates[k])
    BY <1>1 DEF AggregatesChecked
  <2>3. PICK c : c = TargetColumns[x]
    OBVIOUS
  <2>4. c = Blocks[k][j]
    BY <1>4, <2>1, <2>3 DEF OfAggregate
  <2>5. c.suffix = "none" => c = aggregates[k].alias
    BY <1>1, <2>2, <2>4, StorageOf
  <2>6. CASE x \in 1 .. Len(groupBy) /\ c = groupBy[x]
    <3>1. c # aggregates[k].alias
      BY <2>2, <2>6 DEF AggregateChecked
    <3>2. x \in DOMAIN groupBy
      BY <1>1, <2>6, LenProperties DEF ViewTypeOK
    <3> QED
      BY <2>3, <2>5, <2>6, <3>1, <3>2 DEF Overlooked
  <2>7. CASE groupBy = <<>> /\ c = Named(GlobalKey)
    BY <2>3, <2>7 DEF Overlooked
  <2> QED
    BY <1>2, <1>4, <2>3, <2>6, <2>7
<1>5. ASSUME NEW x, NEW y, RowsAt(x), AggregateAt(y), TargetColumns[x] = TargetColumns[y]
      PROVE  FALSE
  <2>1a. PICK k \in 1 .. Len(aggregates) : \E j \in 1 .. Len(Blocks[k]) : OfAggregate(y, k, j)
    BY <1>5 DEF AggregateAt
  <2>1. PICK j \in 1 .. Len(Blocks[k]) : OfAggregate(y, k, j)
    BY <2>1a
  <2>2. AggregateChecked(aggregates[k])
    BY <1>1 DEF AggregatesChecked
  <2>3. Blocks[k][j] # Named(RowsColumn)
    BY <1>1, <2>2, StorageOf
  <2> QED
    BY <1>5, <2>1, <2>3 DEF RowsAt, OfAggregate
<1>6. ASSUME NEW x, NEW y, AggregateAt(x), AggregateAt(y), x # y,
             TargetColumns[x] = TargetColumns[y]
      PROVE  FALSE
  <2>1a. PICK k \in 1 .. Len(aggregates) : \E j \in 1 .. Len(Blocks[k]) : OfAggregate(x, k, j)
    BY <1>6 DEF AggregateAt
  <2>1. PICK j \in 1 .. Len(Blocks[k]) : OfAggregate(x, k, j)
    BY <2>1a
  <2>2a. PICK l \in 1 .. Len(aggregates) : \E i \in 1 .. Len(Blocks[l]) : OfAggregate(y, l, i)
    BY <1>6 DEF AggregateAt
  <2>2. PICK i \in 1 .. Len(Blocks[l]) : OfAggregate(y, l, i)
    BY <2>2a
  <2>3. AggregateChecked(aggregates[k]) /\ AggregateChecked(aggregates[l])
    BY <1>1 DEF AggregatesChecked
  <2>4. PICK c : c = TargetColumns[x]
    OBVIOUS
  <2>5. c = Blocks[k][j] /\ c = Blocks[l][i]
    BY <1>6, <2>1, <2>2, <2>4 DEF OfAggregate
  <2>6. /\ c.stem = aggregates[k].alias.stem
        /\ aggregates[k].alias \in Identifier /\ aggregates[k].alias.suffix = "none"
        /\ \A m \in 1 .. Len(Blocks[k]) : Blocks[k][m] = c => m = j
    <3>1. c = Blocks[k][j] /\ AggregateChecked(aggregates[k])
      BY <2>3, <2>5
    <3> QED
      BY <1>1, <3>1, StorageOf
  <2>7. /\ c.stem = aggregates[l].alias.stem
        /\ aggregates[l].alias \in Identifier /\ aggregates[l].alias.suffix = "none"
    BY <1>1, <2>3, <2>5, StorageOf
  <2>8. aggregates[k].alias = aggregates[l].alias
    <3>1. PICK a : a = aggregates[k].alias
      OBVIOUS
    <3>2. PICK b : b = aggregates[l].alias
      OBVIOUS
    <3>3. a \in Identifier /\ b \in Identifier /\ a.stem = b.stem /\ a.suffix = b.suffix
      BY <2>6, <2>7, <3>1, <3>2
    <3> QED
      BY <3>1, <3>2, <3>3 DEF Identifier
  <2>9. k = l
    BY <1>1, <2>8 DEF AggregatesChecked
  <2>10. i = j
    BY <2>5, <2>6, <2>9
  <2> QED
    BY <1>6, <2>1, <2>2, <2>9, <2>10 DEF OfAggregate
<1>7. /\ p # q
      /\ KeyAt(p) \/ RowsAt(p) \/ AggregateAt(p)
      /\ KeyAt(q) \/ RowsAt(q) \/ AggregateAt(q)
  BY <1>1, ColumnPosition
<1>8. ~ (RowsAt(p) /\ RowsAt(q))
  BY <1>7 DEF RowsAt
<1>9. ~ (KeyAt(p) /\ KeyAt(q))
  BY <1>1, <1>2, <1>7 DEF GroupByChecked
<1> QED
  BY <1>3, <1>4, <1>5, <1>6, <1>7, <1>8, <1>9

(* What the checks of _parse_view and _parse_aggregate leave, view by view *)
(* (config.py:93-187).                                                     *)
THEOREM ViewInvariant == ViewSpec => []ViewIInv
  BY ViewInitIInv, ViewNextIInv, PTL DEF ViewSpec

(* However long the names and however many the columns: no name that       *)
(* target_ddl makes of an accepted view is longer than an identifier may   *)
(* be (config.py:128-133).                                                 *)
THEOREM ViewNamesFit == ViewSpec => []NamesFit
  BY ViewInvariant, ViewIInvNamesFit, PTL

(* However many columns: no two columns of a target table have the same    *)
(* name, but for the two ways the checks overlook (config.py:123-127,      *)
(* 163-169).                                                               *)
THEOREM ViewColumnsDistinct == ViewSpec => []ColumnsDistinct
  BY ViewInvariant, ViewIInvColumnsDistinct, PTL

-----------------------------------------------------------------------------
(* TenTo is defined by recursion: there is one function that satisfies the *)
(* equation.                                                               *)
Powers(p, n) == p = [i \in 0 .. n |-> IF i = 0 THEN 1 ELSE 10 * p[i - 1]]

(* Its value at a position.                                                *)
LEMMA PowersAt ==
    ASSUME NEW n \in Nat, NEW p, Powers(p, n), NEW i \in 0 .. n
    PROVE  p[i] = IF i = 0 THEN 1 ELSE 10 * p[i - 1]
<1> DEFINE step(j) == IF j = 0 THEN 1 ELSE 10 * p[j - 1]
<1>1. p = [j \in 0 .. n |-> step(j)]
  BY DEF Powers
<1> HIDE DEF step
<1>2. p[i] = step(i)
  BY <1>1
<1> QED
  BY <1>2 DEF step

(* It exists for every length.                                             *)
LEMMA PowersExist ==
    ASSUME NEW n \in Nat
    PROVE  \E p : Powers(p, n)
<1> DEFINE T == {m \in Nat : \E p : Powers(p, m)}
<1>1. 0 \in T
  <2> DEFINE p == [i \in 0 .. 0 |-> 1]
  <2>1. Powers(p, 0)
    BY DEF Powers
  <2> QED
    BY <2>1
<1>2. ASSUME NEW m \in Nat, m \in T
      PROVE  m + 1 \in T
  <2>1. PICK p : Powers(p, m)
    BY <1>2
  <2> DEFINE step(i) == IF i = 0 THEN 1 ELSE 10 * p[i - 1]
             q == [i \in 0 .. m + 1 |-> step(i)]
  <2> HIDE DEF step
  <2>2. \A i \in 0 .. m + 1 : q[i] = step(i)
    OBVIOUS
  <2>3. \A i \in 0 .. m : p[i] = step(i)
    BY <2>1, PowersAt DEF step
  <2>4. q = [i \in 0 .. m + 1 |-> q[i]]
    OBVIOUS
  <2> HIDE DEF q
  <2>5. \A i \in 0 .. m : q[i] = p[i]
    <3>1. \A i \in 0 .. m : i \in 0 .. m + 1
      OBVIOUS
    <3> QED
      BY <3>1, <2>2, <2>3
  <2>6. \A i \in 0 .. m + 1 : q[i] = IF i = 0 THEN 1 ELSE 10 * q[i - 1]
    <3> SUFFICES ASSUME NEW i \in 0 .. m + 1
                 PROVE  q[i] = IF i = 0 THEN 1 ELSE 10 * q[i - 1]
      OBVIOUS
    <3>1. i # 0 => i - 1 \in 0 .. m
      OBVIOUS
    <3>2. i # 0 => q[i - 1] = p[i - 1]
      BY <3>1, <2>5
    <3> QED
      BY <3>2, <2>2 DEF step
  <2>7. Powers(q, m + 1)
    BY <2>4, <2>6 DEF Powers
  <2> QED
    BY <2>7
<1> HIDE DEF T
<1>3. n \in T
  BY <1>1, <1>2, Induction
<1> QED
  BY <1>3 DEF T

(* And the shorter is the beginning of the longer.                         *)
LEMMA PowersAgree ==
    ASSUME NEW n \in Nat, NEW m \in Nat, m <= n, NEW p, NEW q, Powers(p, n), Powers(q, m)
    PROVE  p[m] = q[m]
<1> DEFINE T == {k \in Nat : k <= m => p[k] = q[k]}
<1>1. 0 \in T
  <2>1. 0 \in 0 .. n /\ 0 \in 0 .. m
    OBVIOUS
  <2>2. p[0] = 1 /\ q[0] = 1
    BY <2>1, PowersAt
  <2> QED
    BY <2>2
<1>2. ASSUME NEW k \in Nat, k \in T
      PROVE  k + 1 \in T
  <2> SUFFICES ASSUME k + 1 <= m
               PROVE  p[k + 1] = q[k + 1]
    OBVIOUS
  <2>1. k + 1 \in 0 .. n /\ k + 1 \in 0 .. m /\ (k + 1) - 1 = k /\ p[k] = q[k] /\ k + 1 # 0
    BY <1>2
  <2>2. p[k + 1] = 10 * p[(k + 1) - 1]
    BY <2>1, PowersAt
  <2>3. q[k + 1] = 10 * q[(k + 1) - 1]
    BY <2>1, PowersAt
  <2> QED
    BY <2>1, <2>2, <2>3
<1> HIDE DEF T
<1>3. m \in T
  BY <1>1, <1>2, Induction
<1> QED
  BY <1>3 DEF T

(* TenTo is the last value of such a function.                             *)
LEMMA TenToDef ==
    ASSUME NEW n \in Nat
    PROVE  \E p : Powers(p, n) /\ TenTo(n) = p[n]
<1> DEFINE f == CHOOSE p : p = [i \in 0 .. n |-> IF i = 0 THEN 1 ELSE 10 * p[i - 1]]
<1>1. \E p : p = [i \in 0 .. n |-> IF i = 0 THEN 1 ELSE 10 * p[i - 1]]
  BY PowersExist DEF Powers
<1>2. f = [i \in 0 .. n |-> IF i = 0 THEN 1 ELSE 10 * f[i - 1]]
  BY <1>1
<1>3. TenTo(n) = f[n]
  BY DEF TenTo
<1> QED
  BY <1>2, <1>3 DEF Powers

(* What is needed of the powers of ten.                                    *)
LEMMA TenToZero == TenTo(0) = 1
<1>1. PICK p : Powers(p, 0) /\ TenTo(0) = p[0]
  BY TenToDef
<1>2. 0 \in 0 .. 0
  OBVIOUS
<1> QED
  BY <1>1, <1>2, PowersAt

(* Each is ten times the one before.                                       *)
LEMMA TenToNext ==
    ASSUME NEW n \in Nat
    PROVE  TenTo(n + 1) = 10 * TenTo(n)
<1>1. PICK p : Powers(p, n) /\ TenTo(n) = p[n]
  BY TenToDef
<1>2. n + 1 \in Nat /\ n <= n + 1 /\ n + 1 \in 0 .. n + 1 /\ n + 1 # 0 /\ (n + 1) - 1 = n
  OBVIOUS
<1>3. PICK q : Powers(q, n + 1) /\ TenTo(n + 1) = q[n + 1]
  BY <1>2, TenToDef
<1>4. q[n] = p[n]
  BY <1>1, <1>2, <1>3, PowersAgree
<1>5. q[n + 1] = 10 * q[(n + 1) - 1]
  BY <1>2, <1>3, PowersAt
<1> QED
  BY <1>1, <1>2, <1>3, <1>4, <1>5

(* All are positive.                                                       *)
LEMMA TenToType == \A n \in Nat : TenTo(n) \in Nat \ {0}
<1> DEFINE T == {n \in Nat : TenTo(n) \in Nat \ {0}}
<1>1. 0 \in T
  BY TenToZero
<1>2. ASSUME NEW n \in Nat, n \in T
      PROVE  n + 1 \in T
  BY <1>2, TenToNext
<1> HIDE DEF T
<1>3. \A n \in Nat : n \in T
  BY <1>1, <1>2, Induction
<1> QED
  BY <1>3 DEF T

(* And they grow.                                                          *)
LEMMA TenToGrows ==
    ASSUME NEW m \in Nat, NEW n \in Nat, m <= n
    PROVE  TenTo(m) <= TenTo(n)
<1> DEFINE T == {k \in Nat : TenTo(m) <= TenTo(m + k)}
<1>1. 0 \in T
  BY TenToType
<1>2. ASSUME NEW k \in Nat, k \in T
      PROVE  k + 1 \in T
  <2>1. m + k \in Nat /\ m + (k + 1) = (m + k) + 1 /\ TenTo(m) <= TenTo(m + k)
    BY <1>2
  <2>2. TenTo((m + k) + 1) = 10 * TenTo(m + k)
    BY <2>1, TenToNext
  <2>3. TenTo(m) \in Nat /\ TenTo(m + k) \in Nat
    BY <2>1, TenToType
  <2> QED
    BY <2>1, <2>2, <2>3
<1> HIDE DEF T
<1>3. \A k \in Nat : k \in T
  BY <1>1, <1>2, Induction
<1>4. n - m \in Nat /\ m + (n - m) = n
  OBVIOUS
<1>5. n - m \in T
  BY <1>3, <1>4
<1> QED
  BY <1>4, <1>5 DEF T

-----------------------------------------------------------------------------
(* Rounding moves a number by at most half of the place, and a number in   *)
(* units of one not at all.                                                *)
LEMMA NearestError ==
    ASSUME NEW n \in Int, NEW p \in Nat \ {0}
    PROVE  /\ NearestEven(n, p) \in Int
           /\ 2 * Abs(NearestEven(n, p) - n) <= p
           /\ p = 1 => NearestEven(n, p) = n
<1>1. PICK r : r = n % p
  OBVIOUS
<1>2. r \in Int /\ 0 <= r /\ r < p
  BY <1>1
<1>3. CASE 2 * r > p \/ (2 * r = p /\ (n \div p) % 2 = 1)
  <2>1. NearestEven(n, p) = n - r + p
    BY <1>1, <1>3 DEF NearestEven
  <2>2. 2 * r >= p
    BY <1>2, <1>3
  <2> QED
    BY <1>2, <2>1, <2>2 DEF Abs
<1>4. CASE ~ (2 * r > p \/ (2 * r = p /\ (n \div p) % 2 = 1))
  <2>1. NearestEven(n, p) = n - r
    BY <1>1, <1>4 DEF NearestEven
  <2>2. 2 * r <= p
    BY <1>2, <1>4
  <2> QED
    BY <1>2, <2>1, <2>2 DEF Abs
<1> QED
  BY <1>3, <1>4

(* The digits beyond the precision: as few as will do, of a number that    *)
(* has no more than Dropped of them.                                       *)
LEMMA ExcessOf ==
    ASSUME NEW n \in Int, Abs(n) < TenTo(Digits + Dropped)
    PROVE  /\ Excess(n) \in 0 .. Dropped
           /\ Abs(n) < TenTo(Digits + Excess(n))
           /\ \A j \in 0 .. Excess(n) - 1 : Abs(n) >= TenTo(Digits + j)
<1> DEFINE S == {k \in 0 .. Dropped : Abs(n) < TenTo(Digits + k)}
<1>1. Digits \in Nat /\ Dropped \in Nat /\ Abs(n) \in Int
  BY DecimalSumAssumption DEF Abs
<1>2. S \in SUBSET Nat /\ S # {}
  BY <1>1
<1>3. PICK k \in S : \A m \in S : k <= m
  <2> HIDE DEF S
  <2> QED
    BY <1>2, Least
<1>4. k \in 0 .. Dropped /\ Abs(n) < TenTo(Digits + k)
  BY <1>3
<1>5. \A j \in 0 .. k - 1 : Abs(n) >= TenTo(Digits + j)
  <2> SUFFICES ASSUME NEW j \in 0 .. k - 1
               PROVE  Abs(n) >= TenTo(Digits + j)
    OBVIOUS
  <2>1. j \in 0 .. Dropped /\ j \notin S /\ Digits + j \in Nat
    BY <1>1, <1>3, <1>4
  <2>2. ~ (Abs(n) < TenTo(Digits + j)) /\ TenTo(Digits + j) \in Nat
    BY <2>1, TenToType
  <2> QED
    BY <1>1, <2>2
<1> QED
  BY <1>4, <1>5 DEF Excess

(* A number is rounded by at most half of the largest place, and not at    *)
(* all when it fits.                                                       *)
LEMMA RoundedError ==
    ASSUME NEW n \in Int, Abs(n) < TenTo(Digits + Dropped)
    PROVE  /\ Rounded(n) \in Int
           /\ 2 * Abs(Rounded(n) - n) <= Scale
           /\ Abs(n) < Limit => Rounded(n) = n
<1>1. Digits \in Nat /\ Dropped \in Nat /\ Abs(n) \in Int
  BY DecimalSumAssumption DEF Abs
<1>2. Excess(n) \in Nat /\ Excess(n) <= Dropped
  BY <1>1, ExcessOf
<1>3. PICK p : p = Place(n)
  OBVIOUS
<1>4. p \in Nat \ {0} /\ p <= Scale /\ Scale \in Nat
  BY <1>1, <1>2, <1>3, TenToType, TenToGrows DEF Place, Scale
<1>5. Rounded(n) = NearestEven(n, p)
  BY <1>3 DEF Rounded
<1>6. Abs(n) < Limit => p = 1
  <2> SUFFICES ASSUME Abs(n) < Limit, Excess(n) # 0
               PROVE  FALSE
    BY <1>3, TenToZero DEF Place
  <2>1. 0 \in 0 .. Excess(n) - 1 /\ Digits + 0 = Digits
    BY <1>1, <1>2
  <2>2. Abs(n) >= TenTo(Digits)
    BY <2>1, ExcessOf
  <2>3. TenTo(Digits) \in Nat
    BY <1>1, TenToType
  <2> QED
    BY <1>1, <2>2, <2>3 DEF Limit
<1>7. /\ NearestEven(n, p) \in Int /\ 2 * Abs(NearestEven(n, p) - n) <= p
      /\ p = 1 => NearestEven(n, p) = n
  BY <1>4, NearestError
<1>8. 2 * Abs(NearestEven(n, p) - n) <= Scale
  <2>1. Abs(NearestEven(n, p) - n) \in Int
    BY <1>7 DEF Abs
  <2> QED
    BY <1>4, <1>7, <2>1
<1> QED
  BY <1>5, <1>6, <1>7, <1>8

-----------------------------------------------------------------------------
(* What one row may add to the delta of a batch.                           *)
Worst == MaxAmount + Scale

SumTypeOK ==
    /\ exact \in Int /\ stored \in Int /\ delta \in Int /\ partial \in Int
    /\ fits \in BOOLEAN /\ events \in 0 .. MaxEvents

(* A batch cannot have grown further than its rows and their rounding took *)
(* it, so that no sum needs more than Dropped digits too many; each row    *)
(* costs at most one Scale; and as long as all fits, nothing is lost.      *)
SumIInv ==
    /\ SumTypeOK
    /\ Abs(delta) <= events * Worst
    /\ Abs(stored + delta - exact) <= events * Scale
    /\ fits => /\ delta = partial /\ Abs(partial) < Limit
               /\ stored + delta = exact

(* What the assumption gives.                                              *)
LEMMA SumConstants ==
    /\ Digits \in Nat /\ Dropped \in Nat /\ MaxEvents \in Nat /\ MaxAmount \in Nat
    /\ Scale \in Nat \ {0} /\ Limit \in Nat \ {0} /\ Worst \in Nat \ {0}
    /\ TenTo(Digits + Dropped) \in Nat
    /\ \A a \in Amounts : a \in Int /\ Abs(a) <= MaxAmount
    /\ MaxEvents * Worst < TenTo(Digits + Dropped)
<1>1. Digits \in Nat /\ Dropped \in Nat /\ MaxEvents \in Nat /\ MaxAmount \in Nat
  BY DecimalSumAssumption
<1>2. Scale \in Nat \ {0} /\ Limit \in Nat \ {0}
  BY <1>1, TenToType DEF Scale, Limit
<1>3. Digits + Dropped \in Nat
  BY <1>1
<1>4. TenTo(Digits + Dropped) \in Nat
  BY <1>3, TenToType
<1>5. /\ \A a \in Amounts : a \in Int /\ Abs(a) <= MaxAmount
      /\ MaxEvents * (MaxAmount + Scale) < TenTo(Digits + Dropped)
  BY DecimalSumAssumption
<1> QED
  BY <1>1, <1>2, <1>4, <1>5 DEF Worst

(* A product, one further.                                                 *)
LEMMA OneMore ==
    ASSUME NEW n \in Nat, NEW c \in Nat
    PROVE  n * c \in Nat /\ (n + 1) * c = n * c + c
  OBVIOUS

(* Monotony of a product.                                                  *)
LEMMA NoMoreThan ==
    ASSUME NEW n \in Nat, NEW m \in Nat, n <= m, NEW c \in Nat
    PROVE  n * c <= m * c
  OBVIOUS

(* Nothing summed, nothing lost.                                           *)
LEMMA SumInitIInv == SumInit => SumIInv
<1> SUFFICES ASSUME SumInit PROVE SumIInv
  OBVIOUS
<1>1. 0 * Worst = 0 /\ 0 * Scale = 0
  BY SumConstants
<1> QED
  BY <1>1, SumConstants DEF SumInit, SumIInv, SumTypeOK, Abs

(* A row rounds twice: its value, and the sum.                             *)
LEMMA FoldError ==
    ASSUME SumIInv, NEW amount \in Amounts, NEW sign \in {-1, 1}, FoldValue(amount, sign)
    PROVE  SumIInv'
<1> DEFINE add == sign * amount
           added == Rounded(add)
           sum == delta + added
<1>1. /\ amount \in Int /\ Abs(amount) <= MaxAmount
      /\ exact \in Int /\ stored \in Int /\ delta \in Int /\ partial \in Int
      /\ fits \in BOOLEAN /\ events \in Nat /\ events < MaxEvents
      /\ events' = events + 1
  BY SumConstants DEF SumIInv, SumTypeOK, FoldValue
<1>2. add \in Int /\ Abs(add) = Abs(amount)
  <2>1. CASE sign = 1
    BY <1>1, <2>1
  <2>2. CASE sign = -1
    BY <1>1, <2>2 DEF Abs
  <2> QED
    BY <2>1, <2>2
<1> HIDE DEF add
<1>3. (events + 1) * Worst <= MaxEvents * Worst
  <2>1. events + 1 \in Nat /\ events + 1 <= MaxEvents
    BY <1>1, SumConstants
  <2> QED
    BY <2>1, SumConstants, NoMoreThan
<1>4. events * Worst \in Nat /\ (events + 1) * Worst = events * Worst + Worst
  BY <1>1, SumConstants, OneMore
<1>5. events * Scale \in Nat /\ (events + 1) * Scale = events * Scale + Scale
  BY <1>1, SumConstants, OneMore
<1>6. Abs(add) < TenTo(Digits + Dropped)
  BY <1>1, <1>2, <1>3, <1>4, SumConstants DEF Worst, Abs
<1>7. /\ added \in Int /\ 2 * Abs(added - add) <= Scale
      /\ Abs(add) < Limit => added = add
  BY <1>2, <1>6, RoundedError
<1> HIDE DEF added
<1>8. Abs(delta) <= events * Worst /\ Abs(stored + delta - exact) <= events * Scale
  BY DEF SumIInv
<1>9. sum \in Int /\ 2 * Abs(sum) <= 2 * (events * Worst) + 2 * MaxAmount + Scale
  BY <1>1, <1>2, <1>4, <1>7, <1>8, SumConstants DEF Abs
<1>10. Abs(sum) < TenTo(Digits + Dropped)
  BY <1>3, <1>4, <1>9, SumConstants DEF Abs, Worst
<1>11. /\ Rounded(sum) \in Int /\ 2 * Abs(Rounded(sum) - sum) <= Scale
       /\ Abs(sum) < Limit => Rounded(sum) = sum
  BY <1>9, <1>10, RoundedError
<1>12. /\ exact' = exact + add /\ delta' = Rounded(sum) /\ partial' = partial + add
       /\ fits' = (fits /\ Abs(amount) < Limit /\ Abs(partial') < Limit)
       /\ stored' = stored
  BY DEF FoldValue, sum, added, add
<1>13. Abs(delta') <= (events + 1) * Worst
  BY <1>4, <1>9, <1>11, <1>12, SumConstants DEF Abs, Worst
<1>14. Abs(stored' + delta' - exact') <= (events + 1) * Scale
  BY <1>1, <1>2, <1>5, <1>7, <1>8, <1>11, <1>12, SumConstants DEF Abs
<1>15. fits' => delta' = partial' /\ Abs(partial') < Limit /\ stored' + delta' = exact'
  <2> SUFFICES ASSUME fits'
               PROVE  delta' = partial' /\ Abs(partial') < Limit /\ stored' + delta' = exact'
    OBVIOUS
  <2>1. fits /\ Abs(amount) < Limit /\ Abs(partial') < Limit
    BY <1>12
  <2>2. delta = partial /\ stored + delta = exact
    BY <2>1 DEF SumIInv
  <2>3. added = add
    BY <1>2, <1>7, <2>1
  <2>4. sum = partial'
    BY <1>12, <2>2, <2>3
  <2> QED
    BY <1>1, <1>2, <1>11, <1>12, <2>1, <2>2, <2>3, <2>4
<1>16. SumTypeOK'
  BY <1>1, <1>2, <1>11, <1>12, SumConstants DEF SumTypeOK
<1> QED
  BY <1>1, <1>13, <1>14, <1>15, <1>16 DEF SumIInv

(* A flush moves the delta to the column without rounding it.              *)
LEMMA SumNextIInv == SumIInv /\ [SumNext]_sumVars => SumIInv'
<1> SUFFICES ASSUME SumIInv, [SumNext]_sumVars PROVE SumIInv'
  OBVIOUS
<1>1. ASSUME NEW amount \in Amounts, NEW sign \in {-1, 1}, FoldValue(amount, sign)
      PROVE  SumIInv'
  BY <1>1, FoldError
<1>2. CASE FlushSum
  <2>1. /\ delta \in Int /\ stored' = stored + delta /\ delta' = 0 /\ partial' = 0
        /\ exact' = exact /\ fits' = fits /\ events' = events
        /\ exact \in Int /\ stored \in Int /\ fits \in BOOLEAN /\ events \in 0 .. MaxEvents
    BY <1>2 DEF FlushSum, NextDelta, SumIInv, SumTypeOK
  <2>2. events * Worst \in Nat
    BY <2>1, SumConstants
  <2>3. stored' + delta' - exact' = stored + delta - exact /\ stored' + delta' = stored + delta
    BY <2>1
  <2>4. Abs(0) = 0
    BY DEF Abs
  <2>5. SumTypeOK'
    BY <2>1 DEF SumTypeOK
  <2> QED
    BY <2>1, <2>2, <2>3, <2>4, <2>5, SumConstants DEF SumIInv
<1>3. CASE UNCHANGED sumVars
  BY <1>3 DEF SumIInv, SumTypeOK, sumVars
<1> QED
  BY <1>1, <1>2, <1>3 DEF SumNext

(* The error of a sum and the size of a delta grow with the rows           *)
(* (aggregates.py:299-306).                                                *)
THEOREM SumInvariant == SumSpec => []SumIInv
  BY SumInitIInv, SumNextIInv, PTL DEF SumSpec

(* For every precision, every set of values and every number of rows: a    *)
(* sum is exact as long as values and partial sums fit the context, and    *)
(* off by at most one Scale a row otherwise (aggregates.py:303-306).       *)
THEOREM SumErrorIsBounded == SumSpec => []SumErrorBounded
<1>1. SumIInv => SumErrorBounded
  <2> SUFFICES ASSUME SumIInv PROVE SumErrorBounded
    OBVIOUS
  <2>1. exact \in Int /\ stored \in Int /\ delta \in Int /\ fits \in BOOLEAN
    BY DEF SumIInv, SumTypeOK
  <2>2. CASE fits
    <3>1. stored + delta - exact = 0
      BY <2>1, <2>2 DEF SumIInv
    <3> QED
      BY <2>2, <3>1 DEF SumErrorBounded, Abs
  <2>3. CASE ~fits
    BY <2>3 DEF SumIInv, SumErrorBounded
  <2> QED
    BY <2>2, <2>3
<1> QED
  BY <1>1, SumInvariant, PTL
=============================================================================
