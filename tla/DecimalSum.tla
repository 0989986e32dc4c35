----------------------------- MODULE DecimalSum ------------------------------
(***************************************************************************)
(* How exact the running total of a sum is (_as_decimal and _apply of      *)
(* aggregates.py).  The deltas of a batch are added up by Python's decimal *)
(* arithmetic, which rounds every result to the significant digits of its  *)
(* context; the flush adds the batch's delta to the numeric column of the  *)
(* target, which does not round.                                           *)
(*                                                                         *)
(* Numbers are integers, in units of the last decimal place any of the     *)
(* values has.                                                             *)
(***************************************************************************)
EXTENDS Integers

CONSTANTS
    Amounts,           \* values of the aggregated column
    MaxAmount,         \* the largest of them
    Digits,            \* the context's precision (28)
    Dropped,           \* digits that the largest sum has beyond it
    MaxEvents          \* bound: row events

(* The powers of ten.                                                      *)
TenTo(n) ==
    LET power[i \in 0 .. n] == IF i = 0 THEN 1 ELSE 10 * power[i - 1]
    IN  power[n]

Abs(n) == IF n < 0 THEN -n ELSE n

(* The first number of too many digits, and the last decimal place that is *)
(* left of the largest sum.                                                *)
Limit == TenTo(Digits)
Scale == TenTo(Dropped)

(* Dropped is large enough for what MaxEvents rows can add up to.          *)
ASSUME DecimalSumAssumption ==
    /\ Digits \in Nat \ {0} /\ Dropped \in Nat /\ MaxEvents \in Nat /\ MaxAmount \in Nat
    /\ Amounts \subseteq Int /\ \A a \in Amounts : Abs(a) <= MaxAmount
    /\ MaxEvents * (MaxAmount + Scale) < TenTo(Digits + Dropped)

VARIABLES
    exact,             \* sum() over the source
    stored,            \* the __sum column
    delta,             \* the batch's delta of it
    partial,           \* what delta would be without rounding
    fits,              \* every value and partial sum so far had at most Digits digits
    events             \* row events so far

sumVars == <<exact, stored, delta, partial, fits, events>>

-----------------------------------------------------------------------------
(* The digits of a number beyond the precision, and the decimal place that *)
(* is the last without them.                                               *)
Excess(n) ==
    CHOOSE k \in 0 .. Dropped :
        /\ Abs(n) < TenTo(Digits + k)
        /\ \A j \in 0 .. k - 1 : Abs(n) >= TenTo(Digits + j)

Place(n) == TenTo(Excess(n))

(* ROUND_HALF_EVEN.                                                        *)
NearestEven(n, p) ==
    LET r == n % p
        up == 2 * r > p \/ (2 * r = p /\ (n \div p) % 2 = 1)
    IN  IF up THEN n - r + p ELSE n - r

Rounded(n) == NearestEven(n, Place(n))

(* A new batch starts from zero.  (mutant) It goes on from the last one.   *)
NextDeltaCarried == delta
NextDelta == 0

-----------------------------------------------------------------------------
SumInit ==
    /\ exact = 0
    /\ stored = 0
    /\ delta = 0
    /\ partial = 0
    /\ fits = TRUE
    /\ events = 0

(* A row is inserted or deleted, in any order in which the daemon may meet *)
(* their values.                                                           *)
FoldValue(amount, sign) ==
    /\ events < MaxEvents
    /\ events' = events + 1
    /\ exact' = exact + sign * amount
    /\ delta' = Rounded(delta + Rounded(sign * amount))
    /\ partial' = partial + sign * amount
    /\ fits' = (fits /\ Abs(amount) < Limit /\ Abs(partial') < Limit)
    /\ UNCHANGED stored

FlushSum ==
    /\ partial # 0 \/ delta # 0
    /\ stored' = stored + delta
    /\ delta' = NextDelta
    /\ partial' = 0
    /\ UNCHANGED <<exact, fits, events>>

SumNext ==
    \/ \E amount \in Amounts, sign \in {-1, 1} : FoldValue(amount, sign)
    \/ FlushSum

SumSpec == SumInit /\ [][SumNext]_sumVars

-----------------------------------------------------------------------------
(* Sums are exact as long as the values and the partial sums of every      *)
(* batch fit the context, however large the stored total grows             *)
(* (aggregates.py:303-306).  Where they do not fit, a row event costs at   *)
(* most twice half of the last place that is left: its sign and its        *)
(* addition are rounded.  What a batch has lost stays lost                 *)
(* (aggregates.py:305).                                                    *)
SumErrorBounded == Abs(stored + delta - exact) <= IF fits THEN 0 ELSE events * Scale
=============================================================================
