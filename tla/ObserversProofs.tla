--------------------------- MODULE ObserversProofs ---------------------------
(***************************************************************************)
(* What verify.py and status may conclude, for every number of orders,     *)
(* other WAL records and runs.  A comparison is made when nobody but the   *)
(* run itself has committed anything since its target was captured, and    *)
(* the views hold everything up to the target.                             *)
(***************************************************************************)
EXTENDS Observers, SequenceTheorems, TLAPS

-----------------------------------------------------------------------------
(* LSNs ascend, and what the slot has let go of the history is in the      *)
(* views, wherever slot and checkpoint are to each other.                  *)
HistoryInOrder ==
    /\ \A i \in 1 .. Len(history) : history[i].end <= lsn
    /\ \A i, j \in 1 .. Len(history) : i < j => history[i].end < history[j].end
    /\ Len(view) <= Len(history)
    /\ checkpoint # None =>
          \A i \in 1 .. Len(history) : history[i].end <= confirmed => i <= Len(view)

(* The bounds leave room for what is still to be written.                  *)
ToWrite == IF verify = "insert" THEN 2 ELSE IF verify = "delete" THEN 1 ELSE 0

RoomLeft ==
    /\ lsn <= Len(history) + MaxBackground
    /\ Len(history) + ToWrite <= orders + 2 * run
    /\ generator = "open" => orders < MaxOrders

(* While a run is at work, what lies past its target is its own marker.    *)
OnlyTheMarkerFollows ==
    verify # "idle" =>
        /\ Exited
        /\ \A i \in 1 .. Len(history) :
               history[i].end > target => history[i].kind # "order" /\ history[i].run = run

CaughtUpAtCompare == verify = "compare" => CaughtUp

(* A report begun is not ahead of the slot, and in a finished one the      *)
(* checkpoint accounts for the slot.                                       *)
ReportInOrder ==
    status # None =>
        /\ checkpoint # None
        /\ status \in [confirmed : Lsn, checkpoint : Lsn \cup {None}]
        /\ status.confirmed <= confirmed
        /\ status.checkpoint # None =>
              \A i \in 1 .. Len(history) :
                  history[i].end <= status.confirmed => history[i].end <= status.checkpoint

IInv ==
    /\ TypeOK
    /\ HistoryInOrder
    /\ RoomLeft
    /\ OnlyTheMarkerFollows
    /\ CaughtUpAtCompare
    /\ OnlyTheMarkerDiffers
    /\ ReportInOrder

-----------------------------------------------------------------------------
LEMMA Bounds ==
    /\ MaxOrders \in Nat /\ MaxBackground \in Nat /\ MaxRuns \in Nat
    /\ Lsn \subseteq Nat /\ None \notin Lsn /\ None \notin Nat
BY ObserversAssumption DEF Lsn

(* A prefix, element by element and as a subsequence.                      *)
LEMMA PrefixOf ==
    ASSUME NEW S, NEW s \in Seq(S), NEW n \in 0 .. Len(s)
    PROVE  /\ SubSeq(s, 1, n) \in Seq(S)
           /\ Len(SubSeq(s, 1, n)) = n
           /\ \A i \in 1 .. n : SubSeq(s, 1, n)[i] = s[i]
<1>1. Len(s) \in Nat
  BY LenProperties
<1>2. \A i \in 1 .. n : s[i] \in S
  BY <1>1, ElementOfSeq
<1> QED
  BY <1>1, <1>2, SubSeqProperties

LEMMA IsPrefix ==
    ASSUME NEW S, NEW s \in Seq(S), NEW t \in Seq(S), Len(t) <= Len(s),
           \A i \in 1 .. Len(t) : t[i] = s[i]
    PROVE  t = SubSeq(s, 1, Len(t))
<1>1. Len(t) \in 0 .. Len(s)
  BY LenProperties
<1> QED
  BY <1>1, PrefixOf, SeqEqual

(* What the invariant says of the history and the views.                   *)
LEMMA HistoryTypes ==
    ASSUME TypeOK, HistoryInOrder
    PROVE  /\ history \in Seq(Transaction) /\ view \in Seq(Transaction)
           /\ Len(history) \in Nat /\ Len(view) \in Nat
           /\ \A i \in 1 .. Len(history) : history[i] \in Transaction /\ history[i].end \in Nat
           /\ \A i \in 1 .. Len(view) : view[i] = history[i]
           /\ lsn \in Nat /\ confirmed \in Nat /\ target \in Nat
           /\ checkpoint # None => checkpoint \in Nat
<1>1. /\ history \in Seq(Transaction) /\ Len(history) \in Nat
      /\ view \in Seq(Transaction) /\ Len(view) \in Nat
      /\ lsn \in Nat
  BY LenProperties, Bounds DEF TypeOK
<1>2. confirmed \in Nat /\ target \in Nat /\ (checkpoint # None => checkpoint \in Nat)
  BY <1>1 DEF TypeOK
<1>3. \A i \in 1 .. Len(history) : history[i] \in Transaction /\ history[i].end \in Nat
  <2>1. \A i \in 1 .. Len(history) : history[i] \in Transaction
    BY <1>1, ElementOfSeq
  <2>2. \A txn \in Transaction : txn.end \in Nat
    BY Bounds DEF Transaction
  <2> QED
    BY <2>1, <2>2
<1>4. Len(view) \in 0 .. Len(history)
  BY <1>1 DEF HistoryInOrder
<1>5. \A i \in 1 .. Len(view) : view[i] = history[i]
  BY <1>1, <1>4, PrefixOf DEF TypeOK
<1> QED
  BY <1>1, <1>2, <1>3, <1>5

LEMMA InitInvariant == Init => IInv
<1> SUFFICES ASSUME Init PROVE IInv
  OBVIOUS
<1>1. history = <<>> /\ view = <<>> /\ Len(history) = 0 /\ Len(view) = 0
  BY DEF Init, Pipeline!Init
<1>2. /\ history \in Seq(Transaction) /\ view \in Seq(Transaction)
      /\ view = SubSeq(history, 1, Len(view))
  <2>1. Len(<<>>) = 0 /\ <<>> \in Seq(Transaction)
    BY EmptySeq
  <2> QED
    BY <1>1, <2>1, IsPrefix
<1>3. TypeOK
  <2>1. lsn \in Lsn /\ orders \in 0 .. MaxOrders /\ run \in 0 .. MaxRuns
    BY ObserversAssumption DEF Init, Lsn
  <2>2. /\ checkpoint = None /\ confirmed \in 0 .. lsn /\ target \in 0 .. lsn
        /\ Len(history) <= lsn /\ missing \subseteq Transaction
    BY <1>1, ObserversAssumption DEF Init
  <2> QED
    BY <1>2, <2>1, <2>2 DEF Init, TypeOK
<1>4. HistoryInOrder /\ RoomLeft /\ OnlyTheMarkerFollows /\ CaughtUpAtCompare
  BY <1>1, ObserversAssumption DEF Init, HistoryInOrder, RoomLeft, ToWrite, OnlyTheMarkerFollows,
      CaughtUpAtCompare
<1>5. OnlyTheMarkerDiffers /\ ReportInOrder
  BY DEF Init, OnlyTheMarkerDiffers, ReportInOrder
<1> QED
  BY <1>3, <1>4, <1>5 DEF IInv

-----------------------------------------------------------------------------
(* There is room for the next record or transaction.                       *)
LEMMA RoomInLsn ==
    ASSUME IInv
    PROVE  /\ lsn < Len(history) + MaxBackground => lsn + 1 \in Lsn
           /\ generator = "open" => lsn + 1 \in Lsn
           /\ verify \in {"insert", "delete"} => lsn + 1 \in Lsn
<1>1. /\ Len(history) \in Nat /\ lsn \in Nat
  BY HistoryTypes DEF IInv
<1>2. orders \in 0 .. MaxOrders /\ run \in 0 .. MaxRuns
  BY DEF IInv, TypeOK
<1>3. ToWrite \in {0, 1, 2} /\ (verify \in {"insert", "delete"} => ToWrite >= 1)
  BY DEF ToWrite
<1> QED
  BY <1>1, <1>2, <1>3, ObserversAssumption DEF IInv, RoomLeft, Lsn

(* What publishing a transaction does to the history.                      *)
LEMMA Published ==
    ASSUME IInv, NEW kind \in Kinds, NEW r \in 0 .. MaxRuns, lsn + 1 \in Lsn, Publish(kind, r)
    PROVE  /\ lsn' = lsn + 1 /\ view' = view
           /\ history' \in Seq(Transaction)
           /\ Len(history') = Len(history) + 1
           /\ \A i \in 1 .. Len(history) : history'[i] = history[i]
           /\ history'[Len(history) + 1] = [kind |-> kind, run |-> r, end |-> lsn + 1]
           /\ view = SubSeq(history', 1, Len(view))
           /\ Deleted(history) \subseteq Deleted(history')
           /\ kind = "delete" => r \in Deleted(history')
<1> DEFINE new == [kind |-> kind, run |-> r, end |-> lsn + 1]
<1>1. new \in Transaction
  BY DEF Transaction
<1>2. lsn' = lsn + 1 /\ history' = Append(history, new) /\ view' = view
  BY DEF Publish, Pipeline!Commit
<1>3. /\ history \in Seq(Transaction) /\ view \in Seq(Transaction)
      /\ Len(history) \in Nat /\ Len(view) \in Nat /\ Len(view) <= Len(history)
      /\ \A i \in 1 .. Len(view) : view[i] = history[i]
  BY HistoryTypes DEF IInv, HistoryInOrder
<1>4. /\ history' \in Seq(Transaction)
      /\ Len(history') = Len(history) + 1
      /\ \A i \in 1 .. Len(history) : history'[i] = history[i]
      /\ history'[Len(history) + 1] = new
  <2> HIDE DEF new
  <2> QED
    BY <1>1, <1>2, <1>3, AppendProperties
<1>5. view = SubSeq(history', 1, Len(view))
  <2>1. Len(view) <= Len(history') /\ \A i \in 1 .. Len(view) : view[i] = history'[i]
    BY <1>3, <1>4
  <2> QED
    BY <1>3, <1>4, <2>1, IsPrefix
<1>6. Deleted(history) \subseteq Deleted(history')
  BY <1>3, <1>4 DEF Deleted
<1>7. kind = "delete" => r \in Deleted(history')
  <2>1. Len(history') \in 1 .. Len(history')
    BY <1>3, <1>4
  <2> QED
    BY <1>3, <1>4, <2>1 DEF Deleted
<1> QED
  BY <1>2, <1>4, <1>5, <1>6, <1>7

-----------------------------------------------------------------------------
(* An order or a marker is published: what holds of the history goes on.   *)
LEMMA PublishKeepsOrder ==
    ASSUME IInv, NEW kind \in Kinds, NEW r \in 0 .. MaxRuns, lsn + 1 \in Lsn, Publish(kind, r),
           UNCHANGED <<checkpoint, confirmed, status>>
    PROVE  /\ HistoryInOrder' /\ ReportInOrder'
           /\ Len(history') <= lsn'
           /\ checkpoint' # None =>
                 \A i \in 1 .. Len(history') : history'[i].end <= checkpoint' <=> i <= Len(view')
           /\ checkpoint' \in 0 .. lsn' \cup {None} /\ confirmed' \in 0 .. lsn'
<1>1. /\ lsn' = lsn + 1 /\ view' = view
      /\ Len(history') = Len(history) + 1
      /\ \A i \in 1 .. Len(history) : history'[i] = history[i]
      /\ history'[Len(history) + 1].end = lsn + 1
  <2>1. /\ lsn' = lsn + 1 /\ view' = view /\ Len(history') = Len(history) + 1
        /\ \A i \in 1 .. Len(history) : history'[i] = history[i]
        /\ history'[Len(history) + 1] = [kind |-> kind, run |-> r, end |-> lsn + 1]
    BY Published
  <2> QED
    BY <2>1
<1>2. /\ Len(history) \in Nat /\ Len(view) \in Nat /\ Len(view) <= Len(history)
      /\ lsn \in Nat /\ confirmed \in Nat /\ (checkpoint # None => checkpoint \in Nat)
      /\ \A i \in 1 .. Len(history) : history[i].end \in Nat
  BY HistoryTypes DEF IInv, HistoryInOrder
<1>3. /\ \A i \in 1 .. Len(history) : history[i].end <= lsn
      /\ \A i, j \in 1 .. Len(history) : i < j => history[i].end < history[j].end
      /\ confirmed <= lsn
  BY <1>2 DEF IInv, HistoryInOrder, TypeOK
<1>4. HistoryInOrder'
  <2>1. \A i \in 1 .. Len(history') : history'[i].end <= lsn'
    BY <1>1, <1>2, <1>3
  <2>2. \A i, j \in 1 .. Len(history') : i < j => history'[i].end < history'[j].end
    <3> SUFFICES ASSUME NEW i \in 1 .. Len(history'), NEW j \in 1 .. Len(history'), i < j
                 PROVE  history'[i].end < history'[j].end
      OBVIOUS
    <3>1. i \in 1 .. Len(history) /\ history'[i] = history[i] /\ history[i].end <= lsn
      BY <1>1, <1>2, <1>3
    <3>2. CASE j = Len(history) + 1
      BY <1>1, <1>2, <3>1, <3>2
    <3>3. CASE j \in 1 .. Len(history)
      BY <1>1, <1>3, <3>1, <3>3
    <3>4. j = Len(history) + 1 \/ j \in 1 .. Len(history)
      BY <1>1, <1>2
    <3> QED
      BY <3>2, <3>3, <3>4
  <2>3. checkpoint # None =>
            \A i \in 1 .. Len(history') : history'[i].end <= confirmed => i <= Len(view')
    <3> SUFFICES ASSUME checkpoint # None, NEW i \in 1 .. Len(history'),
                        history'[i].end <= confirmed
                 PROVE  i <= Len(view')
      OBVIOUS
    <3>1. i # Len(history) + 1
      BY <1>1, <1>2, <1>3
    <3>2. i \in 1 .. Len(history) /\ history[i].end <= confirmed
      BY <1>1, <1>2, <3>1
    <3> QED
      BY <1>1, <3>2 DEF IInv, HistoryInOrder
  <2> QED
    BY <1>1, <1>2, <2>1, <2>2, <2>3 DEF HistoryInOrder
<1>5. ReportInOrder'
  <2> SUFFICES ASSUME status # None
               PROVE  /\ checkpoint # None
                      /\ status \in [confirmed : Lsn, checkpoint : Lsn \cup {None}]
                      /\ status.confirmed <= confirmed
                      /\ status.checkpoint # None =>
                            \A i \in 1 .. Len(history') :
                                history'[i].end <= status.confirmed
                                    => history'[i].end <= status.checkpoint
    BY DEF ReportInOrder, Lsn
  <2>1. /\ checkpoint # None
        /\ status \in [confirmed : Lsn, checkpoint : Lsn \cup {None}]
        /\ status.confirmed <= confirmed /\ status.confirmed \in Nat
    BY Bounds DEF IInv, ReportInOrder
  <2>2. ASSUME status.checkpoint # None, NEW i \in 1 .. Len(history'),
               history'[i].end <= status.confirmed
        PROVE  history'[i].end <= status.checkpoint
    <3>1. i # Len(history) + 1
      BY <1>1, <1>2, <1>3, <2>1, <2>2
    <3>2. i \in 1 .. Len(history) /\ history'[i] = history[i]
      BY <1>1, <1>2, <3>1
    <3> QED
      BY <2>2, <3>2 DEF IInv, ReportInOrder
  <2> QED
    BY <2>1, <2>2
<1>6. /\ Len(history) <= lsn /\ confirmed \in 0 .. lsn /\ checkpoint \in 0 .. lsn \cup {None}
      /\ checkpoint # None =>
            \A i \in 1 .. Len(history) : history[i].end <= checkpoint <=> i <= Len(view)
  BY DEF IInv, TypeOK
<1>7. /\ Len(history') <= lsn' /\ confirmed' \in 0 .. lsn'
      /\ checkpoint' \in 0 .. lsn' \cup {None}
  BY <1>1, <1>2, <1>6
<1>8. checkpoint' # None =>
          \A i \in 1 .. Len(history') : history'[i].end <= checkpoint' <=> i <= Len(view')
  <2> SUFFICES ASSUME checkpoint # None, NEW i \in 1 .. Len(history')
               PROVE  history'[i].end <= checkpoint <=> i <= Len(view)
    BY <1>1
  <2>1. checkpoint <= lsn
    BY <1>6, <1>2
  <2>2. CASE i = Len(history) + 1
    BY <1>1, <1>2, <2>1, <2>2
  <2>3. CASE i # Len(history) + 1
    BY <1>1, <1>2, <1>6, <2>3
  <2> QED
    BY <2>2, <2>3
<1> QED
  BY <1>4, <1>5, <1>7, <1>8

LEMMA CommitOrderStep == IInv /\ CommitOrder => IInv'
<1> SUFFICES ASSUME IInv, CommitOrder PROVE IInv'
  OBVIOUS
<1>1. /\ Publish("order", 0) /\ generator = "open" /\ generator' = "loop" /\ orders' = orders + 1
      /\ UNCHANGED <<checkpoint, confirmed, stop, verify, run, target, missing, verdict, status>>
  BY DEF CommitOrder, verifyVars
<1>2. lsn + 1 \in Lsn /\ 0 \in 0 .. MaxRuns /\ "order" \in Kinds
  BY <1>1, RoomInLsn, ObserversAssumption DEF Kinds
<1>3. verify = "idle"
  BY <1>1 DEF IInv, OnlyTheMarkerFollows, Exited
<1>4. /\ lsn' = lsn + 1 /\ history' \in Seq(Transaction) /\ Len(history') = Len(history) + 1
      /\ view' = view /\ view = SubSeq(history', 1, Len(view))
  BY <1>1, <1>2, Published
<1>5. /\ Len(history) \in Nat /\ lsn \in Nat /\ view \in Seq(Transaction)
  BY HistoryTypes DEF IInv
<1>6. RoomLeft' /\ orders' \in 0 .. MaxOrders
  BY <1>1, <1>3, <1>4, <1>5, ObserversAssumption DEF IInv, RoomLeft, ToWrite, TypeOK
<1>7. /\ HistoryInOrder' /\ ReportInOrder'
      /\ Len(history') <= lsn'
      /\ checkpoint' # None =>
            \A i \in 1 .. Len(history') : history'[i].end <= checkpoint' <=> i <= Len(view')
      /\ checkpoint' \in 0 .. lsn' \cup {None} /\ confirmed' \in 0 .. lsn'
  BY <1>1, <1>2, PublishKeepsOrder
<1>8. TypeOK'
  <2>1. target' \in 0 .. lsn'
    BY <1>1, <1>4, <1>5 DEF IInv, TypeOK
  <2>2. /\ generator' \in {"loop", "open"} /\ stop' \in BOOLEAN /\ verify' = "idle"
        /\ run' \in 0 .. MaxRuns /\ missing' \subseteq Transaction
        /\ verdict' \in {"none", "PASS", "FAIL", "TIMEOUT"}
    BY <1>1, <1>3 DEF IInv, TypeOK
  <2>3. lsn' \in Lsn
    BY <1>2, <1>4
  <2> QED
    BY <1>4, <1>5, <1>6, <1>7, <2>1, <2>2, <2>3 DEF TypeOK, Transaction, Lsn
<1>9. OnlyTheMarkerFollows' /\ CaughtUpAtCompare' /\ OnlyTheMarkerDiffers'
  BY <1>1, <1>3 DEF IInv, OnlyTheMarkerFollows, CaughtUpAtCompare, OnlyTheMarkerDiffers
<1> QED
  BY <1>6, <1>7, <1>8, <1>9 DEF IInv

LEMMA WriteMarkerStep == IInv /\ WriteMarker => IInv'
<1> SUFFICES ASSUME IInv, WriteMarker PROVE IInv'
  OBVIOUS
<1>1. PICK kind \in {"insert", "delete"} :
          /\ Publish(kind, run)
          /\ kind = "insert" => verify = "insert" /\ verify' = "delete"
          /\ kind = "delete" => verify = "delete" /\ verify' = "wait"
          /\ UNCHANGED <<checkpoint, confirmed, generator, stop, orders>>
          /\ UNCHANGED <<run, target, missing, verdict, status>>
  BY DEF WriteMarker, generatorVars
<1>2. lsn + 1 \in Lsn /\ run \in 0 .. MaxRuns /\ kind \in Kinds
  BY <1>1, RoomInLsn DEF Kinds, IInv, TypeOK
<1>3. /\ lsn' = lsn + 1 /\ history' \in Seq(Transaction) /\ Len(history') = Len(history) + 1
      /\ view' = view /\ view = SubSeq(history', 1, Len(view))
      /\ \A i \in 1 .. Len(history) : history'[i] = history[i]
      /\ history'[Len(history) + 1] = [kind |-> kind, run |-> run, end |-> lsn + 1]
      /\ kind = "delete" => run \in Deleted(history')
  BY <1>1, <1>2, Published
<1>4. Len(history) \in Nat /\ lsn \in Nat /\ view \in Seq(Transaction)
  BY HistoryTypes DEF IInv
<1>5. RoomLeft'
  BY <1>1, <1>3, <1>4, ObserversAssumption DEF IInv, RoomLeft, ToWrite, TypeOK
<1>6. /\ HistoryInOrder' /\ ReportInOrder'
      /\ Len(history') <= lsn'
      /\ checkpoint' # None =>
            \A i \in 1 .. Len(history') : history'[i].end <= checkpoint' <=> i <= Len(view')
      /\ checkpoint' \in 0 .. lsn' \cup {None} /\ confirmed' \in 0 .. lsn'
  BY <1>1, <1>2, PublishKeepsOrder
<1>7. TypeOK'
  <2>1. target' \in 0 .. lsn'
    BY <1>1, <1>3, <1>4 DEF IInv, TypeOK
  <2>2. /\ generator' \in {"loop", "open"} /\ stop' \in BOOLEAN /\ orders' \in 0 .. MaxOrders
        /\ run' \in 0 .. MaxRuns /\ missing' \subseteq Transaction
        /\ verdict' \in {"none", "PASS", "FAIL", "TIMEOUT"}
    BY <1>1 DEF IInv, TypeOK
  <2>3. /\ verify' \in {"idle", "insert", "delete", "wait", "compare"}
        /\ verify' \in {"wait", "compare"} => run' \in Deleted(history')
    BY <1>1, <1>3
  <2>4. lsn' \in Lsn
    BY <1>2, <1>3
  <2> QED
    BY <1>3, <1>4, <1>6, <2>1, <2>2, <2>3, <2>4 DEF TypeOK, Transaction, Lsn, Deleted
<1>8. OnlyTheMarkerFollows'
  <2>1. Exited /\ \A i \in 1 .. Len(history) :
            history[i].end > target => history[i].kind # "order" /\ history[i].run = run
    BY <1>1 DEF IInv, OnlyTheMarkerFollows
  <2>2. \A i \in 1 .. Len(history') :
            history'[i].end > target' => history'[i].kind # "order" /\ history'[i].run = run'
    BY <1>1, <1>3, <1>4, <2>1
  <2> QED
    BY <1>1, <2>1, <2>2 DEF OnlyTheMarkerFollows, Exited
<1>9. CaughtUpAtCompare' /\ OnlyTheMarkerDiffers'
  BY <1>1 DEF IInv, CaughtUpAtCompare, OnlyTheMarkerDiffers
<1> QED
  BY <1>5, <1>6, <1>7, <1>8, <1>9 DEF IInv

-----------------------------------------------------------------------------
(* The views catch up, or are set up: what is in them stays their start.   *)
LEMMA SetupStep == IInv /\ Setup => IInv'
<1> SUFFICES ASSUME IInv, Setup PROVE IInv'
  OBVIOUS
<1>1. /\ checkpoint = None /\ checkpoint' = lsn /\ confirmed' = lsn /\ view' = history
      /\ UNCHANGED <<history, lsn, generator, stop, orders>>
      /\ UNCHANGED <<verify, run, target, missing, verdict, status>>
  BY DEF Setup, sourceVars, generatorVars, verifyVars
<1>2. /\ history \in Seq(Transaction) /\ Len(history) \in Nat /\ lsn \in Nat
      /\ \A i \in 1 .. Len(history) : history[i].end <= lsn
  BY HistoryTypes DEF IInv, HistoryInOrder
<1>3. HistoryInOrder' /\ RoomLeft'
  BY <1>1, <1>2 DEF IInv, HistoryInOrder, RoomLeft, ToWrite
<1>4. OnlyTheMarkerFollows' /\ OnlyTheMarkerDiffers' /\ CaughtUpAtCompare' /\ ReportInOrder'
  BY <1>1 DEF IInv, OnlyTheMarkerFollows, Exited, OnlyTheMarkerDiffers, CaughtUpAtCompare,
      CaughtUp, ReportInOrder
<1>5. TypeOK'
  <2>1. view' = SubSeq(history', 1, Len(view'))
    BY <1>1, <1>2, IsPrefix
  <2>2. lsn \in 0 .. lsn /\ \A i \in 1 .. Len(history) : history[i].end <= lsn <=> i <= Len(history)
    BY <1>2
  <2> QED
    BY <1>1, <1>2, <2>1, <2>2 DEF IInv, TypeOK, Transaction, Lsn, Deleted
<1> QED
  BY <1>3, <1>4, <1>5 DEF IInv

LEMMA FlushStep == IInv /\ Flush => IInv'
<1> SUFFICES ASSUME IInv, Flush PROVE IInv'
  OBVIOUS
<1>1. PICK n \in Len(view) + 1 .. Len(history) :
          /\ view' = SubSeq(history, 1, n)
          /\ checkpoint' = history[n].end
  BY DEF Flush, Pipeline!CatchUp
<1>2. /\ checkpoint # None
      /\ UNCHANGED <<history, lsn, confirmed, generator, stop, orders>>
      /\ UNCHANGED <<verify, run, target, missing, verdict, status>>
  BY DEF Flush, Pipeline!CatchUp, generatorVars, verifyVars
<1>3. /\ history \in Seq(Transaction) /\ Len(history) \in Nat /\ Len(view) \in Nat /\ lsn \in Nat
      /\ confirmed \in Nat /\ checkpoint \in Nat /\ target \in Nat
      /\ \A i \in 1 .. Len(history) : history[i].end \in Nat
  BY <1>2, HistoryTypes DEF IInv
<1>4. /\ \A i \in 1 .. Len(history) : history[i].end <= lsn
      /\ \A i, j \in 1 .. Len(history) : i < j => history[i].end < history[j].end
      /\ \A i \in 1 .. Len(history) : history[i].end <= confirmed => i <= Len(view)
  BY <1>2 DEF IInv, HistoryInOrder
<1>5. n \in 1 .. Len(history) /\ n \in 0 .. Len(history) /\ Len(view) < n
  BY <1>3
<1>6. checkpoint < history[n].end
  <2>1. ~(history[n].end <= checkpoint)
    BY <1>2, <1>3, <1>5 DEF IInv, TypeOK
  <2> QED
    BY <1>3, <1>5, <2>1
<1>7. view' \in Seq(Transaction) /\ Len(view') = n
  BY <1>1, <1>3, <1>5, PrefixOf
<1>8. HistoryInOrder' /\ RoomLeft'
  <2>1. \A i \in 1 .. Len(history) : history[i].end <= confirmed => i <= n
    BY <1>3, <1>4, <1>5
  <2>2. HistoryInOrder'
    BY <1>2, <1>4, <1>5, <1>7, <2>1 DEF HistoryInOrder
  <2>3. RoomLeft'
    BY <1>2 DEF IInv, RoomLeft, ToWrite
  <2> QED
    BY <2>2, <2>3
<1>9. CaughtUpAtCompare'
  <2>1. SUFFICES ASSUME verify = "compare" PROVE checkpoint' # None /\ checkpoint' >= target
    BY <1>2 DEF CaughtUpAtCompare, CaughtUp
  <2>2. checkpoint >= target
    BY <2>1 DEF IInv, CaughtUpAtCompare, CaughtUp
  <2> QED
    BY <1>1, <1>3, <1>5, <1>6, <2>2, ObserversAssumption
<1>10. OnlyTheMarkerFollows' /\ OnlyTheMarkerDiffers'
  BY <1>2 DEF IInv, OnlyTheMarkerFollows, Exited, OnlyTheMarkerDiffers
<1>11. ReportInOrder'
  BY <1>1, <1>2, <1>3, <1>5, ObserversAssumption DEF IInv, ReportInOrder, Lsn
<1>12. TypeOK'
  <2>1. checkpoint' \in 0 .. lsn
    BY <1>1, <1>3, <1>4, <1>5
  <2>2. \A i \in 1 .. Len(history) : history[i].end <= history[n].end <=> i <= n
    <3> SUFFICES ASSUME NEW i \in 1 .. Len(history)
                 PROVE  history[i].end <= history[n].end <=> i <= n
      OBVIOUS
    <3>1. CASE i < n
      BY <1>3, <1>4, <1>5, <3>1
    <3>2. CASE i = n
      BY <1>3, <1>5, <3>2
    <3>3. CASE n < i
      BY <1>3, <1>4, <1>5, <3>3
    <3> QED
      BY <1>5, <3>1, <3>2, <3>3
  <2> QED
    BY <1>1, <1>2, <1>7, <2>1, <2>2 DEF IInv, TypeOK, Transaction, Lsn, Deleted
<1> QED
  BY <1>8, <1>9, <1>10, <1>11, <1>12 DEF IInv

-----------------------------------------------------------------------------
(* The comparison: the views hold all up to the target, so that what is in *)
(* one of the two only can be traced to a later transaction, which is the  *)
(* run's own.                                                              *)
LEMMA Compared ==
    ASSUME IInv, verify = "compare",
           NEW txn \in (Rows(history) \ Rows(view)) \cup (Rows(view) \ Rows(history))
    PROVE  txn \in Transaction /\ txn.kind = "insert" /\ txn.run = run
<1>1. /\ history \in Seq(Transaction) /\ Len(history) \in Nat /\ Len(view) \in Nat
      /\ Len(view) <= Len(history) /\ target \in Nat
      /\ \A i \in 1 .. Len(history) : history[i] \in Transaction /\ history[i].end \in Nat
      /\ \A i \in 1 .. Len(view) : view[i] = history[i]
  BY HistoryTypes DEF IInv, HistoryInOrder
<1>2. \A i \in 1 .. Len(history) :
          i > Len(view) => history[i].kind # "order" /\ history[i].run = run
  <2> SUFFICES ASSUME NEW i \in 1 .. Len(history), i > Len(view)
               PROVE  history[i].kind # "order" /\ history[i].run = run
    OBVIOUS
  <2>1. checkpoint # None /\ checkpoint >= target /\ checkpoint \in Nat
    BY HistoryTypes DEF IInv, CaughtUpAtCompare, CaughtUp
  <2>2. ~(history[i].end <= checkpoint)
    BY <1>1, <2>1 DEF IInv, TypeOK
  <2>3. history[i].end > target
    BY <1>1, <2>1, <2>2
  <2> QED
    BY <2>3 DEF IInv, OnlyTheMarkerFollows
<1>3. CASE txn \in Rows(history) \ Rows(view)
  <2>1. PICK i \in 1 .. Len(history) :
            /\ txn = history[i]
            /\ txn.kind = "order" \/ (txn.kind = "insert" /\ txn.run \notin Deleted(history))
    BY <1>3 DEF Rows
  <2>2. ~(i <= Len(view))
    <3> SUFFICES ASSUME i <= Len(view) PROVE FALSE
      OBVIOUS
    <3>1. i \in 1 .. Len(view) /\ view[i] = txn
      BY <1>1, <2>1
    <3>2. Deleted(view) \subseteq Deleted(history)
      BY <1>1 DEF Deleted
    <3>3. txn \in Rows(view)
      BY <2>1, <3>1, <3>2 DEF Rows
    <3> QED
      BY <1>3, <3>3
  <2> QED
    BY <1>1, <1>2, <2>1, <2>2
<1>4. CASE txn \in Rows(view) \ Rows(history)
  <2>1. PICK i \in 1 .. Len(view) :
            /\ txn = view[i]
            /\ txn.kind = "order" \/ (txn.kind = "insert" /\ txn.run \notin Deleted(view))
    BY <1>4 DEF Rows
  <2>2. i \in 1 .. Len(history) /\ history[i] = txn
    BY <1>1, <2>1
  <2>3. txn.kind = "insert" /\ txn.run \in Deleted(history)
    BY <1>4, <2>1, <2>2 DEF Rows
  <2>4. PICK k \in 1 .. Len(history) : history[k].kind = "delete" /\ history[k].run = txn.run
    BY <2>3 DEF Deleted
  <2>5. ~(k <= Len(view))
    BY <1>1, <2>1, <2>3, <2>4 DEF Deleted
  <2> QED
    BY <1>1, <1>2, <2>2, <2>3, <2>4, <2>5
<1> QED
  BY <1>3, <1>4

-----------------------------------------------------------------------------
(* The steps that leave history, views and checkpoint alone.               *)
LEMMA OutsideStep ==
    IInv /\ (Background \/ Ack \/ KeepAlive \/ Execute \/ RequestStop \/ UNCHANGED vars) => IInv'
<1> SUFFICES ASSUME IInv, Background \/ Ack \/ KeepAlive \/ Execute \/ RequestStop \/ UNCHANGED vars
             PROVE  IInv'
  OBVIOUS
<1>1. /\ UNCHANGED <<history, view, checkpoint, verify, run, target, missing, verdict, status>>
      /\ lsn' = lsn \/ (lsn' = lsn + 1 /\ lsn < Len(history) + MaxBackground)
      /\ \/ confirmed' = confirmed
         \/ /\ checkpoint # None
            /\ confirmed < confirmed' /\ confirmed' \in 0 .. lsn
            /\ \A i \in 1 .. Len(history) :
                  history[i].end > confirmed => history[i].end > confirmed' \/ i <= Len(view)
      /\ generator' = generator
            \/ (generator = "loop" /\ ~stop /\ orders < MaxOrders /\ generator' = "open")
      /\ stop' = stop \/ (~stop /\ stop')
      /\ orders' = orders
  <2>1. Len(history) \in Nat /\ lsn \in Nat /\ confirmed \in Nat
    BY HistoryTypes DEF IInv
  <2>2. CASE Ack
    <3>1. /\ checkpoint # None /\ confirmed < checkpoint /\ confirmed' = checkpoint
          /\ UNCHANGED <<history, lsn, view, checkpoint, verify, run, target, missing, verdict>>
          /\ UNCHANGED <<status, generator, stop, orders>>
      BY <2>2 DEF Ack, sourceVars, generatorVars, verifyVars
    <3>2. /\ checkpoint \in 0 .. lsn
          /\ \A i \in 1 .. Len(history) : history[i].end <= checkpoint <=> i <= Len(view)
      BY <3>1 DEF IInv, TypeOK
    <3>3. \A i \in 1 .. Len(history) : history[i].end \in Nat
      BY HistoryTypes DEF IInv
    <3>4. \A i \in 1 .. Len(history) : history[i].end > checkpoint \/ i <= Len(view)
      BY <2>1, <3>2, <3>3
    <3> QED
      BY <3>1, <3>2, <3>4
  <2>3. CASE KeepAlive
    <3>1. PICK sent \in confirmed + 1 .. lsn :
              /\ \A i \in 1 .. Len(history) : history[i].end > confirmed => history[i].end > sent
              /\ confirmed' = sent
      BY <2>3 DEF KeepAlive
    <3>2. /\ checkpoint # None
          /\ UNCHANGED <<history, lsn, view, checkpoint, verify, run, target, missing, verdict>>
          /\ UNCHANGED <<status, generator, stop, orders>>
      BY <2>3 DEF KeepAlive, sourceVars, generatorVars, verifyVars
    <3>3. confirmed < sent /\ sent \in 0 .. lsn
      BY <2>1, <3>1
    <3> QED
      BY <3>1, <3>2, <3>3
  <2>4. CASE Background \/ Execute \/ RequestStop \/ UNCHANGED vars
    BY <2>1, <2>4, ObserversAssumption DEF Background, Execute, RequestStop, vars, sourceVars,
        pipelineVars, generatorVars, verifyVars
  <2> QED
    BY <2>2, <2>3, <2>4
<1>2. /\ Len(history) \in Nat /\ lsn \in Nat /\ confirmed \in Nat
      /\ (checkpoint # None => checkpoint \in Nat)
      /\ \A i \in 1 .. Len(history) : history[i].end \in Nat
  BY HistoryTypes DEF IInv
<1>3. lsn' \in Lsn /\ lsn <= lsn' /\ lsn' \in Nat
  BY <1>1, <1>2, RoomInLsn DEF IInv, TypeOK
<1>4. HistoryInOrder'
  <2>1. \A i \in 1 .. Len(history) : history[i].end <= lsn'
    BY <1>2, <1>3 DEF IInv, HistoryInOrder
  <2>2. checkpoint # None =>
            \A i \in 1 .. Len(history) : history[i].end <= confirmed' => i <= Len(view)
    <3> SUFFICES ASSUME checkpoint # None, NEW i \in 1 .. Len(history),
                        history[i].end <= confirmed', ~(i <= Len(view))
                 PROVE  FALSE
      OBVIOUS
    <3>1. history[i].end \in Nat /\ confirmed' \in Nat
      BY <1>1, <1>2
    <3>2. ~(history[i].end <= confirmed)
      BY DEF IInv, HistoryInOrder
    <3> QED
      BY <1>1, <1>2, <3>1, <3>2
  <2> QED
    BY <1>1, <2>1, <2>2 DEF IInv, HistoryInOrder
<1>5. RoomLeft'
  BY <1>1, <1>2, ObserversAssumption DEF IInv, RoomLeft, ToWrite
<1>6. OnlyTheMarkerFollows' /\ OnlyTheMarkerDiffers' /\ CaughtUpAtCompare'
  BY <1>1 DEF IInv, OnlyTheMarkerFollows, Exited, OnlyTheMarkerDiffers, CaughtUpAtCompare,
      CaughtUp
<1>7. ReportInOrder'
  BY <1>1, <1>2 DEF IInv, ReportInOrder, Lsn
<1>8. TypeOK'
  <2>1. Len(history) <= lsn' /\ checkpoint \in 0 .. lsn' \cup {None} /\ target \in 0 .. lsn'
    BY <1>2, <1>3 DEF IInv, TypeOK
  <2>2. confirmed' \in 0 .. lsn'
    BY <1>1, <1>2, <1>3 DEF IInv, TypeOK
  <2>3. generator' \in {"loop", "open"} /\ stop' \in BOOLEAN
    BY <1>1 DEF IInv, TypeOK
  <2> QED
    BY <1>1, <1>3, <2>1, <2>2, <2>3 DEF IInv, TypeOK, Transaction, Lsn, Deleted
<1> QED
  BY <1>4, <1>5, <1>6, <1>7, <1>8 DEF IInv

(* The steps of verify.py that write nothing.                              *)
LEMMA VerifyStep ==
    IInv /\ (Begin \/ Wait \/ Compare \/ VerifyDies) => IInv'
<1> SUFFICES ASSUME IInv, Begin \/ Wait \/ Compare \/ VerifyDies PROVE IInv'
  OBVIOUS
<1>1. UNCHANGED <<history, lsn, view, checkpoint, confirmed, generator, stop, orders, status>>
  BY DEF Begin, Wait, Compare, VerifyDies, sourceVars, pipelineVars, generatorVars
<1>2. /\ Len(history) \in Nat /\ lsn \in Nat
      /\ \A i \in 1 .. Len(history) : history[i].end \in Nat /\ history[i].end <= lsn
  BY HistoryTypes DEF IInv, HistoryInOrder
<1>3. HistoryInOrder' /\ ReportInOrder'
  BY <1>1 DEF IInv, HistoryInOrder, ReportInOrder, Lsn
<1>4. CASE Begin
  <2>1. /\ verify = "idle" /\ Exited /\ run < MaxRuns /\ run' = run + 1 /\ target' = lsn
        /\ verify' = "insert" /\ missing' = {} /\ verdict' = "none"
    BY <1>4 DEF Begin, Target, AfterCapture
  <2>2. run' \in 0 .. MaxRuns /\ run \in 0 .. MaxRuns
    BY <2>1, ObserversAssumption DEF IInv, TypeOK
  <2>3. RoomLeft'
    BY <1>1, <1>2, <2>1, <2>2, ObserversAssumption DEF IInv, RoomLeft, ToWrite, TypeOK
  <2>4. OnlyTheMarkerFollows' /\ CaughtUpAtCompare' /\ OnlyTheMarkerDiffers'
    BY <1>1, <1>2, <2>1 DEF OnlyTheMarkerFollows, Exited, CaughtUpAtCompare,
        OnlyTheMarkerDiffers
  <2>5. TypeOK'
    BY <1>1, <1>2, <2>1, <2>2 DEF IInv, TypeOK, Transaction, Lsn, Deleted
  <2> QED
    BY <1>3, <2>3, <2>4, <2>5 DEF IInv
<1>5. CASE Wait
  <2>1. /\ UNCHANGED <<run, target, missing>> /\ verify = "wait"
        /\ verify' = "idle" \/ (verify' = "compare" /\ CaughtUp)
        /\ verdict' = verdict \/ verdict' = "TIMEOUT"
    BY <1>5 DEF Wait
  <2>2. RoomLeft'
    BY <1>1, <2>1 DEF IInv, RoomLeft, ToWrite
  <2>3. OnlyTheMarkerFollows' /\ CaughtUpAtCompare' /\ OnlyTheMarkerDiffers'
    BY <1>1, <2>1 DEF IInv, OnlyTheMarkerFollows, Exited, CaughtUpAtCompare, CaughtUp,
        OnlyTheMarkerDiffers
  <2>4. TypeOK'
    BY <1>1, <2>1 DEF IInv, TypeOK, Transaction, Lsn, Deleted
  <2> QED
    BY <1>3, <2>2, <2>3, <2>4 DEF IInv
<1>6. CASE Compare
  <2>1. /\ UNCHANGED <<run, target>> /\ verify = "compare" /\ verify' = "idle"
        /\ missing' = (Rows(history) \ Rows(view)) \cup (Rows(view) \ Rows(history))
        /\ verdict' \in {"PASS", "FAIL"}
    BY <1>6 DEF Compare
  <2>2. \A txn \in missing' : txn \in Transaction /\ txn.kind = "insert" /\ txn.run = run
    BY <2>1, Compared
  <2>3. RoomLeft'
    BY <1>1, <1>2, <2>1, ObserversAssumption DEF IInv, RoomLeft, ToWrite, TypeOK
  <2>4. OnlyTheMarkerFollows' /\ CaughtUpAtCompare' /\ OnlyTheMarkerDiffers'
    BY <2>1, <2>2 DEF OnlyTheMarkerFollows, CaughtUpAtCompare, OnlyTheMarkerDiffers
  <2>5. TypeOK'
    BY <1>1, <2>1, <2>2 DEF IInv, TypeOK, Transaction, Lsn, Deleted
  <2> QED
    BY <1>3, <2>3, <2>4, <2>5 DEF IInv
<1>7. CASE VerifyDies
  <2>1. UNCHANGED <<run, target, missing, verdict>> /\ verify' = "idle"
    BY <1>7 DEF VerifyDies
  <2>2. RoomLeft'
    BY <1>1, <1>2, <2>1, ObserversAssumption DEF IInv, RoomLeft, ToWrite, TypeOK
  <2>3. OnlyTheMarkerFollows' /\ CaughtUpAtCompare' /\ OnlyTheMarkerDiffers'
    BY <2>1 DEF IInv, OnlyTheMarkerFollows, CaughtUpAtCompare, OnlyTheMarkerDiffers
  <2>4. TypeOK'
    BY <1>1, <2>1 DEF IInv, TypeOK, Transaction, Lsn, Deleted
  <2> QED
    BY <1>3, <2>2, <2>3, <2>4 DEF IInv
<1> QED
  BY <1>4, <1>5, <1>6, <1>7

(* status reads the slot first: when it comes to the checkpoint, the slot  *)
(* it has read has only been passed.                                       *)
LEMMA StatusStep == IInv /\ (StatusReads \/ StatusReadsOn) => IInv'
<1> SUFFICES ASSUME IInv, StatusReads \/ StatusReadsOn PROVE IInv'
  OBVIOUS
<1>1. UNCHANGED <<history, lsn, view, checkpoint, confirmed, generator, stop, orders>>
  BY DEF StatusReads, StatusReadsOn, sourceVars, pipelineVars, generatorVars
<1>2. UNCHANGED <<verify, run, target, missing, verdict>>
  BY DEF StatusReads, StatusReadsOn, verifyVars
<1>3. /\ TypeOK' /\ HistoryInOrder' /\ RoomLeft' /\ OnlyTheMarkerFollows' /\ CaughtUpAtCompare'
      /\ OnlyTheMarkerDiffers'
  BY <1>1, <1>2 DEF IInv, TypeOK, Transaction, Lsn, Deleted, HistoryInOrder, RoomLeft, ToWrite,
      OnlyTheMarkerFollows, Exited, CaughtUpAtCompare, CaughtUp, OnlyTheMarkerDiffers
<1>4. /\ confirmed \in Lsn /\ confirmed \in Nat
      /\ checkpoint # None =>
            /\ checkpoint \in Nat /\ checkpoint \in Lsn
            /\ \A i \in 1 .. Len(history) :
                  history[i].end <= confirmed => history[i].end <= checkpoint
  <2>1. lsn \in Nat /\ lsn \in Lsn /\ confirmed \in 0 .. lsn /\ checkpoint \in 0 .. lsn \cup {None}
    BY HistoryTypes DEF IInv, TypeOK
  <2> QED
    BY <2>1, ObserversAssumption DEF IInv, HistoryInOrder, TypeOK, Lsn
<1>5. ReportInOrder'
  <2>1. CASE StatusReads
    BY <1>1, <1>4, <2>1, Bounds DEF StatusReads, ReadsFirst, ReportInOrder
  <2>2. CASE StatusReadsOn
    <3>1. /\ checkpoint # None /\ status \in [confirmed : Lsn, checkpoint : Lsn \cup {None}]
          /\ status.confirmed \in Nat /\ status.confirmed # None /\ status.confirmed <= confirmed
      BY <2>2, Bounds DEF StatusReadsOn, IInv, ReportInOrder
    <3>2. \/ status' = None
          \/ status' = [status EXCEPT !.checkpoint = checkpoint]
      BY <2>2, <3>1 DEF StatusReadsOn
    <3>3. \A i \in 1 .. Len(history) :
              history[i].end <= status.confirmed => history[i].end <= checkpoint
      <4>1. \A i \in 1 .. Len(history) : history[i].end \in Nat
        BY HistoryTypes DEF IInv
      <4> QED
        BY <1>4, <3>1, <4>1
    <3> QED
      BY <1>1, <1>4, <3>1, <3>2, <3>3 DEF ReportInOrder
  <2> QED
    BY <2>1, <2>2
<1> QED
  BY <1>3, <1>5 DEF IInv

-----------------------------------------------------------------------------
LEMMA Invariant == Spec => []IInv
<1>1. IInv /\ [Next]_vars => IInv'
  BY CommitOrderStep, WriteMarkerStep, SetupStep, FlushStep, OutsideStep, VerifyStep, StatusStep
  DEF Next
<1> QED
  BY InitInvariant, <1>1, PTL DEF Spec

(* The states stay of their types, the LSNs within what can be written,    *)
(* and the views end at the checkpoint (verify.py:90-112).                 *)
THEOREM TypeCorrect == Spec => []TypeOK
BY Invariant, PTL DEF IInv

(* verify.py can be wrong about its own marker only: a pipeline that keeps *)
(* its promise is never blamed for an order of the generator               *)
(* (verify.py:90-112).                                                     *)
THEOREM VerdictTraced == Spec => []OnlyTheMarkerDiffers
BY Invariant, PTL DEF IInv

(* In a report of status, the checkpoint accounts for all transactions the *)
(* slot has let go, also where the slot is past it (daemon.py:328-342).    *)
THEOREM StatusAccounts == Spec => []StatusAccountsForSlot
<1>1. IInv => StatusAccountsForSlot
  BY DEF IInv, ReportInOrder, StatusAccountsForSlot
<1> QED
  BY Invariant, <1>1, PTL
=============================================================================
