--------------------------- MODULE PipelineProofs ---------------------------
(***************************************************************************)
(* Theorems about Pipeline for every batch size, every set of transactions *)
(* and every number of faults.                                             *)
(***************************************************************************)
EXTENDS Pipeline, SequenceTheorems, TLAPS

Inv == TypeOK /\ MemoryMatchesSlot

(* The variables start with values of their kind.                          *)
LEMMA InitTypeOK == Init => TypeOK
<1> SUFFICES ASSUME Init PROVE TypeOK
  OBVIOUS
<1>1. <<>> \in Seq(Txn) /\ <<>> \in Seq(Op)
  OBVIOUS
<1>2. slotActive \in BOOLEAN /\ stop \in BOOLEAN
  BY DEF Init
<1>3. cursor \in [txn : Nat \ {0}, part : Nat] /\ tx \in [state : TxStates, batch : Seq(Txn)]
  BY <1>1 DEF Init, TxStates, NoTx
<1> QED
  BY <1>1, <1>2, <1>3 DEF Init, TypeOK, DaemonStates

(* The last element of a nonempty batch has an end LSN.                    *)
LEMMA EndOfType ==
  ASSUME NEW b \in Seq(Txn), b # <<>>
  PROVE  /\ Len(b) \in Nat \ {0}
         /\ b[Len(b)] \in Txn
         /\ EndOf(b) \in Nat
<1>1. Len(b) \in Nat \ {0}
  BY EmptySeq
<1>2. b[Len(b)] \in Txn
  BY <1>1, ElementOfSeq
<1> QED
  BY <1>1, <1>2 DEF EndOf, Txn

(* What a process that ends and a session that ends leave is well typed.   *)
LEMMA EndsType ==
  /\ <<>> \in Seq(Txn) /\ <<>> \in Seq(Op)
  /\ NoTx \in [state : TxStates, batch : Seq(Txn)]
  /\ ProcessEnds => /\ pc' \in DaemonStates /\ stop' \in BOOLEAN
                    /\ checkpointLsn' \in Nat /\ flushLsn' \in Nat
                    /\ openOps' \in Seq(Op) /\ pending' \in Seq(Txn)
  /\ SessionEnds => /\ slotActive' \in BOOLEAN /\ feedback' \in Nat
                    /\ cursor' \in [txn : Nat \ {0}, part : Nat]
<1>1. <<>> \in Seq(Txn) /\ <<>> \in Seq(Op)
  OBVIOUS
<1>2. NoTx \in [state : TxStates, batch : Seq(Txn)]
  BY <1>1 DEF NoTx, TxStates
<1>3. ProcessEnds => pc' \in DaemonStates /\ stop' \in BOOLEAN
  BY DEF ProcessEnds, DaemonStates
<1>4. ProcessEnds => checkpointLsn' \in Nat /\ flushLsn' \in Nat
  BY DEF ProcessEnds
<1>5. ProcessEnds => openOps' \in Seq(Op) /\ pending' \in Seq(Txn)
  BY <1>1 DEF ProcessEnds
<1>6. SessionEnds => slotActive' \in BOOLEAN
  BY DEF SessionEnds
<1>7. SessionEnds => feedback' \in Nat /\ cursor' \in [txn : Nat \ {0}, part : Nat]
  BY DEF SessionEnds, NoCursor
<1> QED
  BY <1>1, <1>2, <1>3, <1>4, <1>5, <1>6, <1>7

(* Every step keeps the variables' kinds.                                  *)
LEMMA NextTypeOK == Inv /\ [Next]_vars => TypeOK'
<1> SUFFICES ASSUME Inv, [Next]_vars
             PROVE  TypeOK'
  OBVIOUS
<1> USE PipelineAssumption DEF Inv, TypeOK, TxStates, DaemonStates, serverVars, daemonVars, dbVars
<1>1. ASSUME NEW ops \in Transactions, SourceCommit(ops)
      PROVE  TypeOK'
  <2>1. [end_lsn |-> Len(wal) + 1, ops |-> ops] \in Txn
    BY DEF Txn
  <2>2. wal' \in Seq(Txn)
    BY <1>1, <2>1, AppendProperties DEF SourceCommit
  <2> QED
    BY <1>1, <2>2 DEF SourceCommit
<1>2. CASE Startup
  <2>1. CASE ReadCheckpoint
    BY <2>1 DEF ReadCheckpoint
  <2>2. CASE StartReplication
    <3>1. slotActive' \in BOOLEAN /\ cursor' \in [txn : Nat \ {0}, part : Nat]
      BY <2>2 DEF StartReplication
    <3> QED
      BY <2>2, <3>1 DEF StartReplication
  <2>3. CASE SlotBusy
    BY <2>3, EndsType DEF SlotBusy
  <2> QED
    BY <1>2, <2>1, <2>2, <2>3 DEF Startup
<1>3. CASE Messages
  <2>1. CASE HandleBegin
    <3>1. openOps' \in Seq(Op)
      BY <2>1, EndsType DEF HandleBegin
    <3>2. cursor' \in [txn : Nat \ {0}, part : Nat]
      BY <2>1 DEF HandleBegin
    <3> QED
      BY <2>1, <3>1, <3>2 DEF HandleBegin, FlushIfDue
  <2>2. CASE HandleRow
    <3>1. cursor.txn \in 1 .. Len(wal)
      BY <2>2 DEF HandleRow
    <3>2. wal[cursor.txn] \in Txn
      BY <3>1, ElementOfSeq
    <3>3. wal[cursor.txn].ops[cursor.part] \in Op
      BY <2>2, <3>2, ElementOfSeq DEF HandleRow, Txn
    <3>4. openOps' \in Seq(Op)
      BY <2>2, <3>3, AppendProperties DEF HandleRow
    <3>5. cursor' \in [txn : Nat \ {0}, part : Nat]
      BY <2>2 DEF HandleRow
    <3> QED
      BY <2>2, <3>4, <3>5 DEF HandleRow, FlushIfDue
  <2>3. CASE HandleCommit
    <3>1. cursor.txn \in 1 .. Len(wal)
      BY <2>3 DEF HandleCommit
    <3>2. wal[cursor.txn] \in Txn
      BY <3>1, ElementOfSeq
    <3>3. [end_lsn |-> wal[cursor.txn].end_lsn, ops |-> openOps] \in Txn
      BY <3>2 DEF Txn
    <3>4. pending' \in Seq(Txn)
      BY <2>3, <3>3, AppendProperties DEF HandleCommit
    <3> QED
      BY <2>3, <3>4 DEF HandleCommit, FlushIfDue
  <2>4. CASE Wake
    BY <2>4 DEF Wake
  <2>5. CASE KeepAlive
    BY <2>5 DEF KeepAlive, KeepAlivePosition
  <2> QED
    BY <1>3, <2>1, <2>2, <2>3, <2>4, <2>5 DEF Messages
<1>4. CASE Flush
  <2>1. CASE ExecuteFlush
    BY <2>1 DEF ExecuteFlush
  <2>2. CASE HaltOnPoison
    BY <2>2, EndsType DEF HaltOnPoison
  <2>3. CASE SendCommit
    BY <2>3 DEF SendCommit
  <2>4. CASE ServerCommit
    <3>1. tx.batch \in Seq(Txn) /\ tx.batch # <<>>
      BY <2>4 DEF ServerCommit, MemoryMatchesSlot, FlushTransaction
    <3>2. target' \in Seq(Txn) /\ checkpoint' \in Nat
      BY <2>4, <3>1, EndOfType, ConcatProperties DEF ServerCommit, Durable
    <3> QED
      BY <2>4, <3>2 DEF ServerCommit, NoTx
  <2>5. CASE Ack
    <3>1. pending # <<>>
      BY <2>5 DEF Ack, MemoryMatchesSlot, MemoryOfProcess
    <3>2. EndOf(pending) \in Nat
      BY <3>1, EndOfType
    <3> QED
      BY <2>5, <3>2 DEF Ack, AckPosition
  <2> QED
    BY <1>4, <2>1, <2>2, <2>3, <2>4, <2>5 DEF Flush
<1>5. CASE Stopping
  <2>1. CASE RequestStop
    <3>1. stop' \in BOOLEAN
      BY <2>1 DEF RequestStop
    <3> QED
      BY <2>1, <3>1 DEF RequestStop
  <2>2. CASE LeaveLoop /\ ProcessEnds
    BY <2>2, EndsType DEF LeaveLoop
  <2>3. CASE LeaveLoop /\ ~ProcessEnds
    BY <2>3 DEF LeaveLoop
  <2> QED
    BY <1>5, <2>1, <2>2, <2>3 DEF Stopping
<1>6. CASE Walsender
  <2>1. CASE ConfirmFlush
    BY <2>1 DEF ConfirmFlush
  <2>2. CASE ReleaseSlot
    BY <2>2, EndsType DEF ReleaseSlot
  <2> QED
    BY <1>6, <2>1, <2>2 DEF Walsender
<1>7. CASE Faults
  <2>1. CASE Crash
    <3>1. tx' \in [state : TxStates, batch : Seq(Txn)]
      BY <2>1, EndsType DEF Crash
    <3>2. faults' \in Nat
      BY SMTT(30), <2>1 DEF Crash
    <3> HIDE DEF DaemonStates, TxStates
    <3> QED
      BY <2>1, <3>1, <3>2, EndsType DEF Crash
  <2>2. CASE OrphanCommits
    <3>1. tx.batch \in Seq(Txn) /\ tx.batch # <<>>
      BY <2>2 DEF OrphanCommits, MemoryMatchesSlot, FlushTransaction
    <3>2. target' \in Seq(Txn) /\ checkpoint' \in Nat
      BY <2>2, <3>1, EndOfType, ConcatProperties DEF OrphanCommits, Durable
    <3> QED
      BY <2>2, <3>2 DEF OrphanCommits, NoTx
  <2>3. CASE OrphanAborts
    BY <2>3 DEF OrphanAborts, NoTx
  <2>4. CASE ServerRestart
    <3>1. target' \in Seq(Txn) /\ checkpoint' \in Nat
      <4>1. CASE tx.state \in {"sent", "orphan"} /\ Durable
        <5>1. tx.batch \in Seq(Txn) /\ tx.batch # <<>>
          BY <4>1 DEF MemoryMatchesSlot, FlushTransaction
        <5> QED
          BY <4>1, <5>1, EndOfType, ConcatProperties DEF Durable
      <4>2. CASE UNCHANGED <<checkpoint, target>>
        BY <4>2
      <4> QED
        BY <2>4, <4>1, <4>2 DEF ServerRestart
    <3> QED
      BY <2>4, <3>1, EndsType DEF ServerRestart
  <2> QED
    BY <1>7, <2>1, <2>2, <2>3, <2>4 DEF Faults
<1>8. CASE UNCHANGED vars
  BY <1>8 DEF vars
<1> QED
  BY <1>1, <1>2, <1>3, <1>4, <1>5, <1>6, <1>7, <1>8 DEF Next

(* Appending the next element of a sequence to a prefix of it.             *)
LEMMA PrefixAppend ==
  ASSUME NEW S, NEW seq \in Seq(S), NEW p \in 1 .. Len(seq)
  PROVE  Append(SubSeq(seq, 1, p - 1), seq[p]) = SubSeq(seq, 1, p)
<1>1. SubSeq(seq, 1, p - 1) \in Seq(S)
  BY SubSeqProperties, ElementOfSeq, LenProperties
<1>2. seq[p] \in S
  BY ElementOfSeq
<1>3. Append(SubSeq(seq, 1, p - 1), seq[p]) = SubSeq(seq, 1, p - 1) \o <<seq[p]>>
  BY <1>1, <1>2, AppendIsConcat
<1>4. 1 \in 1 .. Len(seq) /\ p \in 1 .. Len(seq)
  BY LenProperties
<1>5. SubSeq(seq, 1, p) = SubSeq(seq, 1, p - 1) \o <<seq[p]>>
  BY <1>4, SubSeqRecursiveSecond
<1> QED
  BY <1>3, <1>5

(* A sequence that agrees with a prefix of another is that prefix.         *)
LEMMA IsPrefixOf ==
  ASSUME NEW S, NEW s \in Seq(S), NEW t \in Seq(S), Len(t) <= Len(s),
         \A i \in 1 .. Len(t) : t[i] = s[i]
  PROVE  t = SubSeq(s, 1, Len(t))
<1>1. Len(t) \in Nat /\ Len(s) \in Nat
  BY LenProperties
<1>2. \A i \in 1 .. Len(t) : s[i] \in S
  BY <1>1, ElementOfSeq
<1>3. /\ SubSeq(s, 1, Len(t)) \in Seq(S)
      /\ Len(SubSeq(s, 1, Len(t))) = Len(t)
      /\ \A i \in 1 .. Len(t) : SubSeq(s, 1, Len(t))[i] = s[i]
  BY <1>1, <1>2, SubSeqProperties
<1> QED
  BY <1>3, SeqEqual

(* The positions hold on when nothing they speak of changes but the memory *)
(* of a process that ends.                                                 *)
LEMMA PositionsKept ==
  ASSUME TypeOK, Positions, checkpointLsn' \in {0, checkpointLsn},
         UNCHANGED <<wal, confirmed, feedback, checkpoint, target>>
  PROVE  Positions'
<1>1. Len(wal) \in Nat
  BY LenProperties DEF TypeOK
<1>2. \A n : Applied(n)' <=> Applied(n)
  BY DEF Applied
<1> QED
  BY <1>1, <1>2 DEF Positions, TypeOK

(* The session's position holds on while only the pc moves.                *)
LEMMA SessionKept ==
  ASSUME SessionPosition, Attached' => Attached,
         UNCHANGED <<wal, confirmed, feedback, cursor, openOps, pending, target>>
  PROVE  SessionPosition'
<1>1. FromSource(pending)' <=> FromSource(pending)
  BY DEF FromSource
<1>2. \A n : Applied(n)' <=> Applied(n)
  BY DEF Applied
<1>3. \A n : In(pending, n)' <=> In(pending, n)
  BY DEF In
<1>4. EndOf(pending)' = EndOf(pending)
  BY DEF EndOf
<1> QED
  BY <1>1, <1>2, <1>3, <1>4 DEF SessionPosition

(* ReadCheckpoint keeps the buffers, the slot and the flush consistent.    *)
LEMMA ReadCheckpointKeeps == Inv /\ ReadCheckpoint => MemoryMatchesSlot'
<1> SUFFICES ASSUME Inv, ReadCheckpoint PROVE MemoryMatchesSlot'
  OBVIOUS
<1> USE DEF Inv, TypeOK, MemoryMatchesSlot, ReadCheckpoint, serverVars, daemonVars, dbVars, Attached
<1>1. SourceInOrder'
  BY DEF SourceInOrder
<1>2. MemoryOfProcess'
  BY DEF MemoryOfProcess
<1>3. SessionPosition'
  BY DEF SessionPosition, FromSource, Applied, In
<1>4. FlushTransaction'
  BY DEF FlushTransaction, FromSource, EndOf, Applied, In, NoTx
<1>5. Positions'
  BY DEF Positions, Applied
<1> QED
  BY <1>1, <1>2, <1>3, <1>4, <1>5

(* StartReplication keeps the buffers, the slot and the flush consistent.  *)
LEMMA StartReplicationKeeps == Inv /\ StartReplication => MemoryMatchesSlot'
<1> SUFFICES ASSUME Inv, StartReplication PROVE MemoryMatchesSlot'
  OBVIOUS
<1> USE DEF Inv, TypeOK, MemoryMatchesSlot, StartReplication, serverVars, daemonVars, dbVars, Attached
<1>1. SourceInOrder'
  BY DEF SourceInOrder, Positions, MemoryOfProcess
<1>2. MemoryOfProcess'
  BY DEF MemoryOfProcess, Positions
<1>3. SessionPosition'
  BY DEF SessionPosition, FromSource, Applied, In, Positions, MemoryOfProcess
<1>4. FlushTransaction'
  BY DEF FlushTransaction, FromSource, EndOf, Applied, In, NoTx, Positions, MemoryOfProcess
<1>5. Positions'
  BY DEF Positions, Applied, MemoryOfProcess
<1> QED
  BY <1>1, <1>2, <1>3, <1>4, <1>5

(* SlotBusy keeps the buffers, the slot and the flush consistent.          *)
LEMMA SlotBusyKeeps == Inv /\ SlotBusy => MemoryMatchesSlot'
<1> SUFFICES ASSUME Inv, SlotBusy PROVE MemoryMatchesSlot'
  OBVIOUS
<1> USE DEF Inv, TypeOK, MemoryMatchesSlot, SlotBusy, serverVars, daemonVars, dbVars, Attached
<1>1. SourceInOrder'
  BY DEF SourceInOrder, ProcessEnds
<1>2. MemoryOfProcess'
  BY DEF MemoryOfProcess, ProcessEnds
<1>3. SessionPosition'
  BY DEF SessionPosition, FromSource, Applied, In, ProcessEnds
<1>4. FlushTransaction'
  BY DEF FlushTransaction, FromSource, EndOf, Applied, In, NoTx, ProcessEnds
<1>5. Positions'
  BY DEF Positions, Applied, ProcessEnds
<1> QED
  BY <1>1, <1>2, <1>3, <1>4, <1>5

(* HandleBegin keeps the buffers, the slot and the flush consistent.       *)
LEMMA HandleBeginKeeps == Inv /\ HandleBegin => MemoryMatchesSlot'
<1> SUFFICES ASSUME Inv, HandleBegin PROVE MemoryMatchesSlot'
  OBVIOUS
<1>0. pc = "loop" /\ pc' \in {"loop", "flush"} /\ (pc' = "flush" => pending # <<>>)
  BY DEF HandleBegin, Reading, FlushIfDue
<1> USE DEF Inv, TypeOK, MemoryMatchesSlot, HandleBegin, serverVars, daemonVars, dbVars, Attached
<1>1. SourceInOrder'
  BY <1>0 DEF SourceInOrder
<1>2. MemoryOfProcess'
  BY <1>0 DEF MemoryOfProcess
<1>3. SessionPosition'
  BY <1>0 DEF SessionPosition, FromSource, Applied, In, MemoryOfProcess
<1>4. FlushTransaction'
  BY ZenonT(60), <1>0 DEF FlushTransaction, FromSource, EndOf, Applied, In, NoTx
<1>5. Positions'
  BY <1>0 DEF Positions, Applied
<1> QED
  BY <1>1, <1>2, <1>3, <1>4, <1>5

(* HandleRow keeps the buffers, the slot and the flush consistent.         *)
LEMMA HandleRowKeeps == Inv /\ HandleRow => MemoryMatchesSlot'
<1> SUFFICES ASSUME Inv, HandleRow PROVE MemoryMatchesSlot'
  OBVIOUS
<1>0. pc = "loop" /\ pc' \in {"loop", "flush"} /\ (pc' = "flush" => pending # <<>>)
  BY DEF HandleRow, Reading, FlushIfDue
<1> USE DEF Inv, TypeOK, MemoryMatchesSlot, HandleRow, serverVars, daemonVars, dbVars, Attached
<1>1. SourceInOrder'
  BY <1>0 DEF SourceInOrder
<1>2. MemoryOfProcess'
  BY <1>0 DEF MemoryOfProcess
<1>3. SessionPosition'
  <2> DEFINE ops == wal[cursor.txn].ops
  <2>1. cursor.txn \in 1 .. Len(wal) /\ cursor.part \in 1 .. Len(ops)
    BY DEF Reading
  <2>2. ops \in Seq(Op)
    <3>1. wal[cursor.txn] \in Txn
      BY <2>1, ElementOfSeq
    <3> QED
      BY <3>1 DEF Txn
  <2>3. openOps = SubSeq(ops, 1, cursor.part - 1)
    BY <2>1, <1>0 DEF SessionPosition
  <2>4. openOps' = SubSeq(ops, 1, cursor.part)
    BY <2>1, <2>2, <2>3, PrefixAppend
  <2>5. /\ UNCHANGED <<wal, confirmed, feedback, pending, target>>
        /\ cursor'.txn = cursor.txn /\ cursor'.part = cursor.part + 1
    OBVIOUS
  <2>6. FromSource(pending)' <=> FromSource(pending)
    BY <2>5 DEF FromSource
  <2>7. \A n : (Applied(n)' <=> Applied(n)) /\ (In(pending, n)' <=> In(pending, n))
    BY <2>5 DEF Applied, In
  <2>8. EndOf(pending)' = EndOf(pending)
    BY <2>5 DEF EndOf
  <2>9. cursor'.part - 1 = cursor.part /\ cursor'.part <= Len(ops) + 1
    BY <2>1, <2>5
  <2>10. Attached /\ SessionPosition
    BY <1>0
  <2> HIDE DEF Inv, TypeOK, MemoryMatchesSlot, HandleRow, Attached
  <2> QED
    <3>1. /\ cursor'.txn <= Len(wal') + 1
          /\ cursor'.txn <= Len(wal') /\ cursor'.part <= Len(wal'[cursor'.txn].ops) + 1
          /\ openOps' = SubSeq(wal'[cursor'.txn].ops, 1, cursor'.part - 1)
      BY <2>1, <2>4, <2>5, <2>9
    <3>2. confirmed' < cursor'.txn /\ feedback' < cursor'.txn /\ FromSource(pending)'
      BY <2>5, <2>6, <2>10 DEF SessionPosition
    <3>3. \A i \in 1 .. Len(pending') :
            /\ pending'[i].end_lsn > confirmed' /\ pending'[i].end_lsn > feedback'
            /\ pending'[i].end_lsn < cursor'.txn
            /\ pending'[i].end_lsn <= EndOf(pending)'
      BY <2>5, <2>8, <2>10 DEF SessionPosition
    <3>4. \A n \in 1 .. cursor'.txn - 1 : Applied(n)' \/ In(pending, n)'
      BY <2>5, <2>7, <2>10 DEF SessionPosition
    <3> QED
      BY <3>1, <3>2, <3>3, <3>4 DEF SessionPosition
<1>4. FlushTransaction'
  BY <1>0 DEF FlushTransaction, FromSource, EndOf, Applied, In, NoTx
<1>5. Positions'
  BY <1>0 DEF Positions, Applied
<1> QED
  BY <1>1, <1>2, <1>3, <1>4, <1>5

(* Wake keeps the buffers, the slot and the flush consistent.              *)
LEMMA WakeKeeps == Inv /\ Wake => MemoryMatchesSlot'
<1> SUFFICES ASSUME Inv, Wake PROVE MemoryMatchesSlot'
  OBVIOUS
<1> USE DEF Inv, TypeOK, MemoryMatchesSlot, Wake, serverVars, daemonVars, dbVars, Attached
<1>1. SourceInOrder'
  BY DEF SourceInOrder, WakeFlushes, MemoryOfProcess
<1>2. MemoryOfProcess'
  BY DEF MemoryOfProcess, WakeFlushes
<1>3. SessionPosition'
  BY DEF SessionPosition, FromSource, Applied, In, WakeFlushes, MemoryOfProcess
<1>4. FlushTransaction'
  <2>1. pc = "loop" /\ pc' = "flush" /\ UNCHANGED <<wal, confirmed, feedback, pending, dbVars>>
    BY DEF Reading
  <2>2. tx.state \notin {"open", "sent"}
    BY <2>1 DEF FlushTransaction
  <2> QED
    BY <2>1, <2>2 DEF FlushTransaction, FromSource, EndOf, Applied, In
<1>5. Positions'
  BY DEF Positions, Applied, WakeFlushes, MemoryOfProcess
<1> QED
  BY <1>1, <1>2, <1>3, <1>4, <1>5

(* KeepAlive keeps the buffers, the slot and the flush consistent.         *)
LEMMA KeepAliveKeeps == Inv /\ KeepAlive => MemoryMatchesSlot'
<1> SUFFICES ASSUME Inv, KeepAlive PROVE MemoryMatchesSlot'
  OBVIOUS
<1> USE DEF Inv, TypeOK, MemoryMatchesSlot, KeepAlive, serverVars, daemonVars, dbVars, Attached
<1>1. SourceInOrder'
  BY DEF SourceInOrder, KeepAlivePosition, MemoryOfProcess
<1>2. MemoryOfProcess'
  BY DEF MemoryOfProcess, KeepAlivePosition
<1>3. SessionPosition'
  BY DEF SessionPosition, FromSource, Applied, In, KeepAlivePosition, MemoryOfProcess
<1>4. FlushTransaction'
  BY DEF FlushTransaction, FromSource, EndOf, Applied, In, NoTx, KeepAlivePosition, MemoryOfProcess
<1>5. Positions'
  BY DEF Positions, Applied, KeepAlivePosition, MemoryOfProcess
<1> QED
  BY <1>1, <1>2, <1>3, <1>4, <1>5

(* RequestStop keeps the buffers, the slot and the flush consistent.       *)
LEMMA RequestStopKeeps == Inv /\ RequestStop => MemoryMatchesSlot'
<1> SUFFICES ASSUME Inv, RequestStop PROVE MemoryMatchesSlot'
  OBVIOUS
<1> USE DEF Inv, TypeOK, MemoryMatchesSlot, RequestStop, serverVars, daemonVars, dbVars, Attached
<1>1. SourceInOrder'
  BY DEF SourceInOrder, MemoryOfProcess
<1>2. MemoryOfProcess'
  BY DEF MemoryOfProcess
<1>3. SessionPosition'
  BY DEF SessionPosition, FromSource, Applied, In, MemoryOfProcess
<1>4. FlushTransaction'
  BY DEF FlushTransaction, FromSource, EndOf, Applied, In, NoTx, MemoryOfProcess
<1>5. Positions'
  BY DEF Positions, Applied, MemoryOfProcess
<1> QED
  BY <1>1, <1>2, <1>3, <1>4, <1>5

(* LeaveLoop keeps the buffers, the slot and the flush consistent.         *)
LEMMA LeaveLoopKeeps == Inv /\ LeaveLoop => MemoryMatchesSlot'
<1> SUFFICES ASSUME Inv, LeaveLoop PROVE MemoryMatchesSlot'
  OBVIOUS
<1> USE DEF Inv, TypeOK, MemoryMatchesSlot, LeaveLoop, serverVars, daemonVars, dbVars, Attached
<1>1. SourceInOrder'
  BY DEF SourceInOrder, LeavesFor, ProcessEnds, MemoryOfProcess
<1>2. MemoryOfProcess'
  BY DEF MemoryOfProcess, LeavesFor, ProcessEnds
<1>3. SessionPosition'
  <2>1. CASE ProcessEnds
    <3>1. ~Attached'
      BY <2>1 DEF ProcessEnds
    <3> QED
      BY <3>1 DEF SessionPosition
  <2>2. CASE UNCHANGED <<openOps, pending>>
    BY <2>2, SessionKept
  <2> QED
    BY <2>1, <2>2
<1>4. FlushTransaction'
  BY DEF FlushTransaction, FromSource, EndOf, Applied, In, NoTx, LeavesFor, ProcessEnds, MemoryOfProcess
<1>5. Positions'
  <2>1. checkpointLsn' \in {0, checkpointLsn}
    BY DEF ProcessEnds
  <2> QED
    BY <2>1, PositionsKept
<1> QED
  BY <1>1, <1>2, <1>3, <1>4, <1>5

(* ExecuteFlush keeps the buffers, the slot and the flush consistent.      *)
LEMMA ExecuteFlushKeeps == Inv /\ ExecuteFlush => MemoryMatchesSlot'
<1> SUFFICES ASSUME Inv, ExecuteFlush PROVE MemoryMatchesSlot'
  OBVIOUS
<1> USE DEF Inv, TypeOK, MemoryMatchesSlot, ExecuteFlush, serverVars, daemonVars, dbVars, Attached
<1>1. SourceInOrder'
  BY DEF SourceInOrder, SessionPosition, MemoryOfProcess
<1>2. MemoryOfProcess'
  BY DEF MemoryOfProcess, SessionPosition
<1>3. SessionPosition'
  BY DEF SessionPosition, FromSource, Applied, In, MemoryOfProcess
<1>4. FlushTransaction'
  <2>1. /\ pending # <<>> /\ FromSource(pending)
        /\ \A i \in 1 .. Len(pending) :
              pending[i].end_lsn > confirmed /\ pending[i].end_lsn > feedback
                /\ pending[i].end_lsn < cursor.txn
        /\ \A n \in 1 .. cursor.txn - 1 : Applied(n) \/ In(pending, n)
    BY DEF MemoryOfProcess, SessionPosition
  <2>2. Len(pending) \in 1 .. Len(pending) /\ EndOf(pending) \in Nat
    BY <2>1, EndOfType
  <2>3. confirmed < EndOf(pending) /\ feedback < EndOf(pending) /\ EndOf(pending) < cursor.txn
    BY <2>1, <2>2 DEF EndOf
  <2>4. \A n \in 1 .. EndOf(pending) : Applied(n) \/ In(pending, n)
    BY <2>1, <2>2, <2>3
  <2>5. tx'.state = "open" /\ tx'.batch = pending
    OBVIOUS
  <2> QED
    BY <2>1, <2>2, <2>3, <2>4, <2>5 DEF FlushTransaction, FromSource, EndOf, Applied, In
<1>5. Positions'
  BY DEF Positions, Applied, SessionPosition, MemoryOfProcess
<1> QED
  BY <1>1, <1>2, <1>3, <1>4, <1>5

(* HaltOnPoison keeps the buffers, the slot and the flush consistent.      *)
LEMMA HaltOnPoisonKeeps == Inv /\ HaltOnPoison => MemoryMatchesSlot'
<1> SUFFICES ASSUME Inv, HaltOnPoison PROVE MemoryMatchesSlot'
  OBVIOUS
<1> USE DEF Inv, TypeOK, MemoryMatchesSlot, HaltOnPoison, serverVars, daemonVars, dbVars, Attached
<1>1. SourceInOrder'
  BY DEF SourceInOrder, ProcessEnds
<1>2. MemoryOfProcess'
  BY DEF MemoryOfProcess, ProcessEnds
<1>3. SessionPosition'
  BY DEF SessionPosition, FromSource, Applied, In, ProcessEnds
<1>4. FlushTransaction'
  BY DEF FlushTransaction, FromSource, EndOf, Applied, In, NoTx, ProcessEnds
<1>5. Positions'
  BY DEF Positions, Applied, ProcessEnds
<1> QED
  BY <1>1, <1>2, <1>3, <1>4, <1>5

(* SendCommit keeps the buffers, the slot and the flush consistent.        *)
LEMMA SendCommitKeeps == Inv /\ SendCommit => MemoryMatchesSlot'
<1> SUFFICES ASSUME Inv, SendCommit PROVE MemoryMatchesSlot'
  OBVIOUS
<1> USE DEF Inv, TypeOK, MemoryMatchesSlot, SendCommit, serverVars, daemonVars, dbVars, Attached
<1>1. SourceInOrder'
  BY DEF SourceInOrder
<1>2. MemoryOfProcess'
  BY DEF MemoryOfProcess
<1>3. SessionPosition'
  BY DEF SessionPosition, FromSource, Applied, In
<1>4. FlushTransaction'
  BY DEF FlushTransaction, FromSource, EndOf, Applied, In, NoTx
<1>5. Positions'
  BY DEF Positions, Applied
<1> QED
  BY <1>1, <1>2, <1>3, <1>4, <1>5

(* ConfirmFlush keeps the buffers, the slot and the flush consistent.      *)
LEMMA ConfirmFlushKeeps == Inv /\ ConfirmFlush => MemoryMatchesSlot'
<1> SUFFICES ASSUME Inv, ConfirmFlush PROVE MemoryMatchesSlot'
  OBVIOUS
<1> USE DEF Inv, TypeOK, MemoryMatchesSlot, ConfirmFlush, serverVars, daemonVars, dbVars, Attached
<1>1. SourceInOrder'
  BY DEF SourceInOrder, SessionPosition
<1>2. MemoryOfProcess'
  BY DEF MemoryOfProcess, SessionPosition
<1>3. SessionPosition'
  BY DEF SessionPosition, FromSource, Applied, In
<1>4. FlushTransaction'
  BY DEF FlushTransaction, FromSource, EndOf, Applied, In, NoTx, SessionPosition
<1>5. Positions'
  BY DEF Positions, Applied, SessionPosition
<1> QED
  BY <1>1, <1>2, <1>3, <1>4, <1>5

(* ReleaseSlot keeps the buffers, the slot and the flush consistent.       *)
LEMMA ReleaseSlotKeeps == Inv /\ ReleaseSlot => MemoryMatchesSlot'
<1> SUFFICES ASSUME Inv, ReleaseSlot PROVE MemoryMatchesSlot'
  OBVIOUS
<1> USE DEF Inv, TypeOK, MemoryMatchesSlot, ReleaseSlot, serverVars, daemonVars, dbVars, Attached
<1>1. SourceInOrder'
  BY DEF SourceInOrder, SessionEnds, NoCursor, MemoryOfProcess
<1>2. MemoryOfProcess'
  BY DEF MemoryOfProcess, SessionEnds, NoCursor
<1>3. SessionPosition'
  BY DEF SessionPosition, FromSource, Applied, In, SessionEnds, NoCursor, MemoryOfProcess
<1>4. FlushTransaction'
  <2>1. feedback' = 0 /\ UNCHANGED <<wal, confirmed, pc, pending, tx, checkpoint, target>>
    BY DEF SessionEnds
  <2>2. \A batch : FromSource(batch)' <=> FromSource(batch)
    BY <2>1 DEF FromSource
  <2>3. tx.state # "none" => EndOf(tx.batch) >= 0
    BY EndOfType DEF FlushTransaction
  <2>4. EndOf(tx.batch)' = EndOf(tx.batch) /\ EndOf(pending)' = EndOf(pending)
    BY <2>1 DEF EndOf
  <2>5. \A n : (Applied(n)' <=> Applied(n)) /\ (In(tx.batch, n)' <=> In(tx.batch, n))
    BY <2>1 DEF Applied, In
  <2>6. FromSource(tx.batch)' <=> FromSource(tx.batch)
    BY <2>1 DEF FromSource
  <2>7. FlushTransaction
    OBVIOUS
  <2> HIDE DEF Inv, TypeOK, MemoryMatchesSlot, ReleaseSlot, Attached
  <2> QED
    BY <2>1, <2>3, <2>4, <2>5, <2>6, <2>7 DEF FlushTransaction, NoTx
<1>5. Positions'
  BY DEF Positions, Applied, SessionEnds, NoCursor, MemoryOfProcess
<1> QED
  BY <1>1, <1>2, <1>3, <1>4, <1>5

(* Crash keeps the buffers, the slot and the flush consistent.             *)
LEMMA CrashKeeps == Inv /\ Crash => MemoryMatchesSlot'
<1> SUFFICES ASSUME Inv, Crash PROVE MemoryMatchesSlot'
  OBVIOUS
<1> USE DEF Inv, TypeOK, MemoryMatchesSlot, Crash, serverVars, daemonVars, dbVars, Attached
<1>1. SourceInOrder'
  BY DEF SourceInOrder, ProcessEnds
<1>2. MemoryOfProcess'
  BY DEF MemoryOfProcess, ProcessEnds
<1>3. SessionPosition'
  BY DEF SessionPosition, FromSource, Applied, In, ProcessEnds
<1>4. FlushTransaction'
  BY DEF FlushTransaction, FromSource, EndOf, Applied, In, NoTx, ProcessEnds
<1>5. Positions'
  BY DEF Positions, Applied, ProcessEnds
<1> QED
  BY <1>1, <1>2, <1>3, <1>4, <1>5

(* OrphanAborts keeps the buffers, the slot and the flush consistent.      *)
LEMMA OrphanAbortsKeeps == Inv /\ OrphanAborts => MemoryMatchesSlot'
<1> SUFFICES ASSUME Inv, OrphanAborts PROVE MemoryMatchesSlot'
  OBVIOUS
<1> USE DEF Inv, TypeOK, MemoryMatchesSlot, OrphanAborts, serverVars, daemonVars, dbVars, Attached
<1>1. SourceInOrder'
  BY DEF SourceInOrder
<1>2. MemoryOfProcess'
  BY DEF MemoryOfProcess
<1>3. SessionPosition'
  BY DEF SessionPosition, FromSource, Applied, In
<1>4. FlushTransaction'
  BY DEF FlushTransaction, FromSource, EndOf, Applied, In, NoTx
<1>5. Positions'
  BY DEF Positions, Applied
<1> QED
  BY <1>1, <1>2, <1>3, <1>4, <1>5

(* Committed transactions keep their place in the WAL.                     *)
LEMMA SourceCommitKeeps ==
  ASSUME Inv, NEW ops \in Transactions, SourceCommit(ops)
  PROVE  MemoryMatchesSlot'
<1> USE DEF Inv, TypeOK, MemoryMatchesSlot, SourceCommit, daemonVars, dbVars, Attached
<1>1. [end_lsn |-> Len(wal) + 1, ops |-> ops] \in Txn
  BY PipelineAssumption DEF Txn
<1>2. /\ Len(wal') = Len(wal) + 1 /\ Len(wal) \in Nat
      /\ \A n \in 1 .. Len(wal) : wal'[n] = wal[n]
      /\ wal'[Len(wal) + 1] = [end_lsn |-> Len(wal) + 1, ops |-> ops]
  BY <1>1, AppendProperties, LenProperties
<1>3. SourceInOrder'
  BY <1>2 DEF SourceInOrder
<1>4. MemoryOfProcess'
  BY DEF MemoryOfProcess
<1>5. /\ \A n \in 1 .. Len(wal) : Applied(n) => Applied(n)'
      /\ \A n \in 1 .. Len(wal) : In(pending, n) => In(pending, n)'
      /\ \A n \in 1 .. Len(wal) : In(tx.batch, n) => In(tx.batch, n)'
  BY <1>2 DEF Applied, In
<1>6. /\ FromSource(pending) => FromSource(pending)'
      /\ FromSource(tx.batch) => FromSource(tx.batch)'
  <2>1. \A n \in 1 .. Len(wal) : n \in 1 .. Len(wal') /\ wal'[n] = wal[n]
    BY <1>2
  <2>2. pending' = pending /\ tx' = tx
    OBVIOUS
  <2> HIDE DEF Inv, TypeOK, MemoryMatchesSlot, SourceCommit
  <2>3. FromSource(pending) => FromSource(pending)'
    BY <2>1, <2>2 DEF FromSource
  <2>4. FromSource(tx.batch) => FromSource(tx.batch)'
    BY <2>1, <2>2 DEF FromSource
  <2> QED
    BY <2>3, <2>4
<1>7. SessionPosition'
  <2> SUFFICES ASSUME Attached' PROVE SessionPosition'
    BY DEF SessionPosition
  <2>1. cursor.txn <= Len(wal) + 1 /\ cursor.txn \in Nat \ {0} /\ UNCHANGED <<cursor, pending, openOps>>
    BY DEF SessionPosition
  <2>0. \A n \in 1 .. cursor.txn - 1 : n \in 1 .. Len(wal) /\ (Applied(n) \/ In(pending, n))
    BY <1>2, <2>1 DEF SessionPosition
  <2>2. \A n \in 1 .. cursor.txn - 1 : Applied(n)' \/ In(pending, n)'
    BY <1>5, <2>0
  <2>3. cursor.part > 0 =>
          /\ cursor.txn <= Len(wal')
          /\ cursor.part <= Len(wal'[cursor.txn].ops) + 1
          /\ openOps = SubSeq(wal'[cursor.txn].ops, 1, cursor.part - 1)
    BY <1>2, <2>1 DEF SessionPosition
  <2>4. FromSource(pending)'
    BY <1>6 DEF SessionPosition
  <2>5. confirmed < cursor.txn /\ feedback < cursor.txn /\ UNCHANGED <<confirmed, feedback>>
    BY DEF SessionPosition
  <2>6. \A i \in 1 .. Len(pending) :
              /\ pending[i].end_lsn > confirmed /\ pending[i].end_lsn > feedback
              /\ pending[i].end_lsn < cursor.txn /\ pending[i].end_lsn <= EndOf(pending)
    BY DEF SessionPosition
  <2> HIDE DEF FromSource, Applied, In
  <2> QED
    BY <1>2, <2>1, <2>2, <2>3, <2>4, <2>5, <2>6 DEF SessionPosition, EndOf
<1>8. FlushTransaction'
  <2>1. tx.state # "none" => EndOf(tx.batch) \in 1 .. Len(wal)
    <3> SUFFICES ASSUME tx.state # "none" PROVE EndOf(tx.batch) \in 1 .. Len(wal)
      OBVIOUS
    <3>1. tx.batch \in Seq(Txn) /\ tx.batch # <<>> /\ FromSource(tx.batch)
      BY DEF FlushTransaction
    <3> QED
      <4>1. Len(tx.batch) \in 1 .. Len(tx.batch)
        BY <3>1, EndOfType
      <4> QED
        BY <3>1, <4>1 DEF EndOf, FromSource
  <2>2. tx.state # "none" => \A n \in 1 .. EndOf(tx.batch) : Applied(n)' \/ In(tx.batch, n)'
    BY <1>5, <2>1 DEF FlushTransaction
  <2> QED
    BY <1>6, <2>2 DEF FlushTransaction, EndOf, NoTx
<1>9. Positions'
  BY <1>2, <1>5 DEF Positions
<1> QED
  BY <1>3, <1>4, <1>7, <1>8, <1>9

(* HandleCommit keeps the buffers, the slot and the flush consistent.      *)
LEMMA HandleCommitKeeps == Inv /\ HandleCommit => MemoryMatchesSlot'
<1> SUFFICES ASSUME Inv, HandleCommit PROVE MemoryMatchesSlot'
  OBVIOUS
<1> USE DEF Inv, TypeOK, MemoryMatchesSlot, dbVars, Attached
<1> DEFINE t == wal[cursor.txn]
           sealed == [end_lsn |-> t.end_lsn, ops |-> openOps]
<1>1. /\ pc = "loop" /\ ~stop /\ cursor.txn \in 1 .. Len(wal)
      /\ cursor.part = Len(t.ops) + 1
      /\ cursor' = [txn |-> cursor.txn + 1, part |-> 0]
      /\ openOps' = <<>>
      /\ UNCHANGED <<wal, confirmed, slotActive, feedback>>
      /\ UNCHANGED <<stop, checkpointLsn, flushLsn, dbVars, faults>>
  BY DEF HandleCommit, Reading
<1>2. pc' \in {"loop", "flush"} /\ (pc' = "flush" => pending' # <<>>)
  BY DEF HandleCommit, FlushIfDue
<1>3. pending' = IF IsNew(t.end_lsn) THEN Append(pending, sealed) ELSE pending
  BY DEF HandleCommit
<1>4. t \in Txn /\ t.end_lsn = cursor.txn /\ t.ops \in Seq(Op)
  <2>1. t \in Txn
    BY <1>1, ElementOfSeq
  <2> QED
    BY <2>1, <1>1 DEF Txn, SourceInOrder
<1>5. openOps = t.ops
  <2>1. openOps = SubSeq(t.ops, 1, Len(t.ops))
    BY <1>1, <1>4, LenProperties DEF SessionPosition
  <2> QED
    BY <2>1, <1>4, SubSeqFull
<1>6. sealed = t
  BY <1>4, <1>5 DEF Txn
<1>7. \/ pending' = pending /\ cursor.txn <= checkpointLsn
      \/ pending' = Append(pending, t)
  BY <1>1, <1>3, <1>4, <1>6 DEF IsNew
<1>8. SourceInOrder'
  BY <1>1 DEF SourceInOrder
<1>9. MemoryOfProcess'
  BY <1>1, <1>2 DEF MemoryOfProcess
<1>10. SessionPosition'
  <2> HIDE DEF t, sealed
  <2> USE DEF Attached
  <2>1. \A n \in Nat : Applied(n) <=> Applied(n)'
    BY <1>1 DEF Applied
  <2>2. CASE pending' = pending /\ cursor.txn <= checkpointLsn
    <3>1. \A n \in Nat : In(pending, n) <=> In(pending, n)'
      BY <1>1, <2>2 DEF In
    <3>2. \A n \in 1 .. cursor.txn : Applied(n)' \/ In(pending, n)'
      <4>1. \A n \in 1 .. cursor.txn : Applied(n)
        BY <1>1, <2>2 DEF Positions
      <4> QED
        BY <2>1, <4>1
    <3>3. FromSource(pending)'
      BY <1>1, <2>2 DEF SessionPosition, FromSource
    <3>4. /\ confirmed < cursor.txn /\ feedback < cursor.txn
          /\ \A i \in 1 .. Len(pending) :
              /\ pending[i].end_lsn > confirmed /\ pending[i].end_lsn > feedback
              /\ pending[i].end_lsn < cursor.txn /\ pending[i].end_lsn <= EndOf(pending)
      BY <1>1 DEF SessionPosition
    <3>5. \A i \in 1 .. Len(pending) : pending[i].end_lsn \in Nat
      BY <3>3, <2>2, <1>1 DEF FromSource
    <3>6. EndOf(pending)' = EndOf(pending)
      BY <2>2 DEF EndOf
    <3>8. /\ cursor'.txn = cursor.txn + 1 /\ cursor'.part = 0
          /\ pending' = pending /\ confirmed' = confirmed /\ feedback' = feedback
      BY <1>1, <2>2
    <3>7. \A i \in 1 .. Len(pending') :
              /\ pending'[i].end_lsn > confirmed' /\ pending'[i].end_lsn > feedback'
              /\ pending'[i].end_lsn < cursor'.txn /\ pending'[i].end_lsn <= EndOf(pending)'
      <4> SUFFICES ASSUME NEW i \in 1 .. Len(pending)
                   PROVE  /\ pending[i].end_lsn > confirmed /\ pending[i].end_lsn > feedback
                          /\ pending[i].end_lsn < cursor.txn + 1
                          /\ pending[i].end_lsn <= EndOf(pending)
        BY <3>6, <3>8
      <4>1. pending[i].end_lsn \in Nat /\ cursor.txn \in Nat
        BY <3>5
      <4>2. /\ pending[i].end_lsn > confirmed /\ pending[i].end_lsn > feedback
            /\ pending[i].end_lsn < cursor.txn /\ pending[i].end_lsn <= EndOf(pending)
        BY <3>4
      <4> HIDE DEF Inv, TypeOK, MemoryMatchesSlot, HandleCommit
      <4> QED
        BY <4>1, <4>2
    <3>9. /\ cursor'.txn <= Len(wal') + 1 /\ confirmed' < cursor'.txn /\ feedback' < cursor'.txn
      BY <1>1, <3>4, <3>8
    <3> QED
      BY <3>2, <3>3, <3>7, <3>8, <3>9, <1>1 DEF SessionPosition
  <2>3. CASE pending' = Append(pending, t)
    <3>1. /\ Len(pending') = Len(pending) + 1 /\ Len(pending) \in Nat
          /\ \A i \in 1 .. Len(pending) : pending'[i] = pending[i]
          /\ pending'[Len(pending) + 1] = t
      BY <2>3, <1>4, AppendProperties, LenProperties
    <3>2. \A n \in Nat : In(pending, n) => In(pending, n)'
      BY <1>1, <3>1 DEF In
    <3>3. ASSUME NEW n \in Nat, n = cursor.txn
          PROVE  In(pending, n)'
      <4>1. Len(pending) + 1 \in 1 .. Len(pending') /\ pending'[Len(pending) + 1] = wal'[n]
        BY <1>1, <3>1, <3>3 DEF t
      <4> QED
        BY <4>1 DEF In
    <3>4. \A n \in 1 .. cursor.txn : Applied(n)' \/ In(pending, n)'
      <4>1. \A n \in 1 .. cursor.txn - 1 : Applied(n) \/ In(pending, n)
        BY <1>1 DEF SessionPosition
      <4> QED
        BY <1>1, <2>1, <3>2, <3>3, <4>1
    <3>5. FromSource(pending)
      BY <1>1 DEF SessionPosition
    <3>6. FromSource(pending)'
      <4> SUFFICES ASSUME NEW i \in 1 .. Len(pending')
                   PROVE  /\ pending'[i].end_lsn \in 1 .. Len(wal')
                          /\ pending'[i] = wal'[pending'[i].end_lsn]
        BY DEF FromSource
      <4>1. CASE i \in 1 .. Len(pending)
        BY <1>1, <3>1, <3>5, <4>1 DEF FromSource
      <4>2. CASE i = Len(pending) + 1
        BY <1>1, <1>4, <3>1, <4>2 DEF t
      <4> QED
        BY <3>1, <4>1, <4>2
    <3>7. EndOf(pending)' = cursor.txn
      BY <1>4, <3>1 DEF EndOf
    <3>8. confirmed < cursor.txn /\ feedback < cursor.txn
      BY <1>1 DEF SessionPosition
    <3>9. \A i \in 1 .. Len(pending') :
              /\ pending'[i].end_lsn > confirmed
              /\ pending'[i].end_lsn > feedback
              /\ pending'[i].end_lsn < cursor.txn + 1
              /\ pending'[i].end_lsn <= cursor.txn
      <4> SUFFICES ASSUME NEW i \in 1 .. Len(pending')
                   PROVE  /\ pending'[i].end_lsn > confirmed
                          /\ pending'[i].end_lsn > feedback
                          /\ pending'[i].end_lsn < cursor.txn + 1
                          /\ pending'[i].end_lsn <= cursor.txn
        OBVIOUS
      <4>1. CASE i \in 1 .. Len(pending)
        <5>1. pending'[i] = pending[i] /\ pending[i].end_lsn \in Nat /\ cursor.txn \in Nat
          BY <1>1, <3>1, <3>5, <4>1 DEF FromSource
        <5>2. /\ pending[i].end_lsn > confirmed /\ pending[i].end_lsn > feedback
              /\ pending[i].end_lsn < cursor.txn
          BY <1>1, <4>1 DEF SessionPosition
        <5> QED
          BY SMTT(30), <5>1, <5>2
      <4>2. CASE i = Len(pending) + 1
        BY <1>1, <1>4, <3>1, <3>8, <4>2
      <4> QED
        BY <3>1, <4>1, <4>2
    <3> QED
      BY <1>1, <1>2, <3>4, <3>6, <3>7, <3>8, <3>9 DEF SessionPosition
  <2> QED
    BY <1>7, <2>2, <2>3
<1>11. FlushTransaction'
  BY <1>1, <1>2 DEF FlushTransaction, FromSource, EndOf, Applied, In, NoTx
<1>12. Positions'
  BY <1>1 DEF Positions, Applied
<1> QED
  BY <1>8, <1>9, <1>10, <1>11, <1>12

(* Once its commit is durable, a batch and all before it are applied.      *)
LEMMA DurableApplies ==
  ASSUME Inv, Durable, tx.state # "none", wal' = wal
  PROVE  /\ \A n \in 1 .. Len(wal) : Applied(n) => Applied(n)'
         /\ checkpoint' = EndOf(tx.batch) /\ checkpoint' \in 1 .. Len(wal)
         /\ \A n \in 1 .. checkpoint' : Applied(n)'
         /\ confirmed <= checkpoint' /\ feedback <= checkpoint'
<1> USE DEF Inv, TypeOK, MemoryMatchesSlot, Durable
<1>1. tx.batch \in Seq(Txn) /\ tx.batch # <<>> /\ FromSource(tx.batch)
  BY DEF FlushTransaction
<1>2. /\ Len(target') = Len(target) + Len(tx.batch)
      /\ Len(target) \in Nat /\ Len(tx.batch) \in Nat
      /\ \A i \in 1 .. Len(target) : target'[i] = target[i]
      /\ \A i \in 1 .. Len(tx.batch) : target'[Len(target) + i] = tx.batch[i]
  BY <1>1, ConcatProperties, LenProperties
<1>3. \A n \in 1 .. Len(wal) : Applied(n) => Applied(n)'
  BY <1>2 DEF Applied
<1>4. \A n \in 1 .. Len(wal) : In(tx.batch, n) => Applied(n)'
  <2> SUFFICES ASSUME NEW n \in 1 .. Len(wal), NEW i \in 1 .. Len(tx.batch), tx.batch[i] = wal[n]
               PROVE  Applied(n)'
    BY DEF In
  <2>1. Len(target) + i \in 1 .. Len(target') /\ target'[Len(target) + i] = wal'[n]
    BY <1>2
  <2> QED
    BY <2>1 DEF Applied
<1>5. checkpoint' = EndOf(tx.batch) /\ checkpoint' \in 1 .. Len(wal)
  BY <1>1, EndOfType DEF EndOf, FromSource
<1>6. confirmed <= checkpoint' /\ feedback <= checkpoint'
  BY <1>5 DEF FlushTransaction
<1>7. \A n \in 1 .. checkpoint' : Applied(n)'
  <2>1. \A n \in 1 .. EndOf(tx.batch) : Applied(n) \/ In(tx.batch, n)
    BY DEF FlushTransaction
  <2>2. \A n \in 1 .. EndOf(tx.batch) : n \in 1 .. Len(wal)
    BY <1>5
  <2>3. \A n \in 1 .. EndOf(tx.batch) : Applied(n)'
    BY <1>3, <1>4, <2>1, <2>2
  <2> QED
    BY <1>5, <2>3
<1> QED
  BY <1>3, <1>5, <1>6, <1>7

(* ServerCommit keeps the buffers, the slot and the flush consistent.      *)
LEMMA ServerCommitKeeps == Inv /\ ServerCommit => MemoryMatchesSlot'
<1> SUFFICES ASSUME Inv, ServerCommit PROVE MemoryMatchesSlot'
  OBVIOUS
<1> USE DEF Inv, TypeOK, MemoryMatchesSlot, serverVars, Attached
<1>1. /\ pc = "commit" /\ pc' = "ack" /\ tx.state = "sent" /\ tx' = NoTx /\ Durable
      /\ UNCHANGED <<stop, checkpointLsn, flushLsn, openOps, pending>>
      /\ UNCHANGED <<wal, confirmed, slotActive, feedback, cursor>>
  BY DEF ServerCommit
<1>2. /\ \A n \in 1 .. Len(wal) : Applied(n) => Applied(n)'
      /\ checkpoint' = EndOf(tx.batch) /\ checkpoint' \in 1 .. Len(wal)
      /\ \A n \in 1 .. checkpoint' : Applied(n)'
      /\ confirmed <= checkpoint' /\ feedback <= checkpoint'
  BY <1>1, DurableApplies
<1>3. SourceInOrder'
  BY <1>1 DEF SourceInOrder
<1>4. MemoryOfProcess'
  BY <1>1 DEF MemoryOfProcess
<1>5. SessionPosition'
  <2>1. Attached => \A n \in 1 .. cursor.txn - 1 : Applied(n)' \/ In(pending, n)'
    <3> SUFFICES ASSUME Attached, NEW n \in 1 .. cursor.txn - 1
                 PROVE  Applied(n)' \/ In(pending, n)'
      OBVIOUS
    <3>1. n \in 1 .. Len(wal) /\ (Applied(n) \/ In(pending, n))
      BY DEF SessionPosition
    <3>2. In(pending, n) => In(pending, n)'
      BY <1>1 DEF In
    <3> QED
      BY <1>2, <3>1, <3>2
  <2>2. FromSource(pending) => FromSource(pending)'
    BY <1>1 DEF FromSource
  <2> QED
    BY <1>1, <2>1, <2>2 DEF SessionPosition, EndOf
<1>6. FlushTransaction'
  BY <1>1, <1>2 DEF FlushTransaction, EndOf, NoTx
<1>7. Positions'
  BY <1>1, <1>2 DEF Positions
<1> QED
  BY <1>3, <1>4, <1>5, <1>6, <1>7

(* Ack keeps the buffers, the slot and the flush consistent.               *)
LEMMA AckKeeps == Inv /\ Ack => MemoryMatchesSlot'
<1> SUFFICES ASSUME Inv, Ack PROVE MemoryMatchesSlot'
  OBVIOUS
<1> USE DEF Inv, TypeOK, MemoryMatchesSlot, Attached
<1>1. /\ pc = "ack" /\ pc' = "loop" /\ pending' = <<>>
      /\ feedback' = EndOf(pending) /\ flushLsn' = EndOf(pending)
      /\ checkpointLsn' = EndOf(pending)
      /\ UNCHANGED <<stop, openOps, wal, confirmed, slotActive, cursor, tx, checkpoint, target>>
  BY DEF Ack, AckPosition, dbVars
<1>2. pending # <<>> /\ slotActive
  BY <1>1 DEF MemoryOfProcess
<1>3. EndOf(pending) = checkpoint /\ tx = NoTx
  BY <1>1 DEF FlushTransaction
<1>4. EndOf(pending) < cursor.txn /\ confirmed < cursor.txn
  BY <1>1, <1>2, EndOfType DEF SessionPosition, EndOf
<1>5. \A n \in 1 .. cursor.txn - 1 : Applied(n)
  <2> SUFFICES ASSUME NEW n \in 1 .. cursor.txn - 1, NEW i \in 1 .. Len(pending), pending[i] = wal[n]
               PROVE  Applied(n)
    BY <1>1 DEF SessionPosition, In
  <2>1. n \in 1 .. Len(wal) /\ wal[n].end_lsn = n
    BY <1>1 DEF SessionPosition, SourceInOrder
  <2>2. n <= checkpoint
    BY <1>1, <1>3, <2>1 DEF SessionPosition
  <2> QED
    BY <2>2 DEF Positions
<1>6. SourceInOrder'
  BY <1>1 DEF SourceInOrder
<1>7. MemoryOfProcess'
  BY <1>1, <1>2 DEF MemoryOfProcess
<1>8. SessionPosition'
  BY <1>1, <1>3, <1>4, <1>5 DEF SessionPosition, FromSource, Applied
<1>9. FlushTransaction'
  BY <1>1, <1>3 DEF FlushTransaction, NoTx
<1>10. Positions'
  <2>1. \A n \in Nat : Applied(n) <=> Applied(n)'
    BY <1>1 DEF Applied
  <2> QED
    BY <1>1, <1>3, <2>1 DEF Positions
<1> QED
  BY <1>6, <1>7, <1>8, <1>9, <1>10

(* OrphanCommits keeps the buffers, the slot and the flush consistent.     *)
LEMMA OrphanCommitsKeeps == Inv /\ OrphanCommits => MemoryMatchesSlot'
<1> SUFFICES ASSUME Inv, OrphanCommits PROVE MemoryMatchesSlot'
  OBVIOUS
<1> USE DEF Inv, TypeOK, MemoryMatchesSlot, serverVars, daemonVars, Attached
<1>1. /\ tx.state = "orphan" /\ tx' = NoTx /\ Durable
      /\ UNCHANGED <<serverVars, daemonVars, faults>>
  BY DEF OrphanCommits
<1>2. /\ \A n \in 1 .. Len(wal) : Applied(n) => Applied(n)'
      /\ checkpoint' = EndOf(tx.batch) /\ checkpoint' \in 1 .. Len(wal)
      /\ \A n \in 1 .. checkpoint' : Applied(n)'
      /\ confirmed <= checkpoint' /\ feedback <= checkpoint'
  BY <1>1, DurableApplies
<1>3. pc \notin {"commit", "ack"}
  BY <1>1 DEF FlushTransaction, NoTx
<1>4. SourceInOrder'
  BY <1>1 DEF SourceInOrder
<1>5. MemoryOfProcess'
  BY <1>1 DEF MemoryOfProcess
<1>6. SessionPosition'
  <2>1. Attached => \A n \in 1 .. cursor.txn - 1 : Applied(n)' \/ In(pending, n)'
    <3> SUFFICES ASSUME Attached, NEW n \in 1 .. cursor.txn - 1
                 PROVE  Applied(n)' \/ In(pending, n)'
      OBVIOUS
    <3>1. n \in 1 .. Len(wal) /\ (Applied(n) \/ In(pending, n))
      BY DEF SessionPosition
    <3>2. In(pending, n) => In(pending, n)'
      BY <1>1 DEF In
    <3> QED
      BY <1>2, <3>1, <3>2
  <2>2. FromSource(pending) => FromSource(pending)'
    BY <1>1 DEF FromSource
  <2> QED
    BY <1>1, <2>1, <2>2 DEF SessionPosition, EndOf
<1>7. FlushTransaction'
  BY <1>1, <1>3 DEF FlushTransaction, NoTx
<1>8. Positions'
  BY <1>1, <1>2 DEF Positions
<1> QED
  BY <1>4, <1>5, <1>6, <1>7, <1>8

(* ServerRestart keeps the buffers, the slot and the flush consistent.     *)
LEMMA ServerRestartKeeps == Inv /\ ServerRestart => MemoryMatchesSlot'
<1> SUFFICES ASSUME Inv, ServerRestart PROVE MemoryMatchesSlot'
  OBVIOUS
<1> USE DEF Inv, TypeOK, MemoryMatchesSlot, Attached
<1>1. /\ pc' = "down" /\ ~stop' /\ checkpointLsn' = 0 /\ flushLsn' = 0
      /\ openOps' = <<>> /\ pending' = <<>> /\ ~slotActive' /\ feedback' = 0
      /\ confirmed' \in 0 .. confirmed /\ tx' = NoTx /\ wal' = wal
  BY DEF ServerRestart, ProcessEnds, SessionEnds
<1>2. /\ checkpoint' \in Nat /\ confirmed <= checkpoint' /\ checkpoint' <= Len(wal)
      /\ \A n \in 1 .. checkpoint' : Applied(n)'
  <2>1. CASE tx.state \in {"sent", "orphan"} /\ Durable
    BY <2>1, <1>1, DurableApplies
  <2>2. CASE UNCHANGED <<checkpoint, target>>
    BY <2>2, <1>1 DEF Positions, Applied
  <2> QED
    BY <2>1, <2>2 DEF ServerRestart
<1>3. SourceInOrder'
  BY <1>1 DEF SourceInOrder
<1>4. MemoryOfProcess'
  BY <1>1 DEF MemoryOfProcess
<1>5. SessionPosition'
  BY <1>1 DEF SessionPosition
<1>6. FlushTransaction'
  BY <1>1 DEF FlushTransaction, NoTx
<1>7. Positions'
  BY <1>1, <1>2 DEF Positions
<1> QED
  BY <1>3, <1>4, <1>5, <1>6, <1>7

(* The buffers, the slot and a batch on its way stay consistent.           *)
LEMMA NextKeeps == Inv /\ [Next]_vars => MemoryMatchesSlot'
<1> SUFFICES ASSUME Inv, [Next]_vars PROVE MemoryMatchesSlot'
  OBVIOUS
<1>1. ASSUME NEW ops \in Transactions, SourceCommit(ops) PROVE MemoryMatchesSlot'
  BY <1>1, SourceCommitKeeps
<1>2. CASE Startup
  BY <1>2, ReadCheckpointKeeps, StartReplicationKeeps, SlotBusyKeeps DEF Startup
<1>3. CASE Messages
  BY <1>3, HandleBeginKeeps, HandleRowKeeps, HandleCommitKeeps, WakeKeeps, KeepAliveKeeps
     DEF Messages
<1>4. CASE Flush
  BY <1>4, ExecuteFlushKeeps, HaltOnPoisonKeeps, SendCommitKeeps, ServerCommitKeeps, AckKeeps
     DEF Flush
<1>5. CASE Stopping
  BY <1>5, RequestStopKeeps, LeaveLoopKeeps DEF Stopping
<1>6. CASE Walsender
  BY <1>6, ConfirmFlushKeeps, ReleaseSlotKeeps DEF Walsender
<1>7. CASE Faults
  BY <1>7, CrashKeeps, OrphanCommitsKeeps, OrphanAbortsKeeps, ServerRestartKeeps DEF Faults
<1>8. CASE UNCHANGED vars
  <2> USE <1>8 DEF vars, serverVars, daemonVars, dbVars, Inv, MemoryMatchesSlot
  <2>1. SourceInOrder'
    BY DEF SourceInOrder
  <2>2. MemoryOfProcess'
    BY DEF MemoryOfProcess, Attached
  <2>3. SessionPosition'
    BY DEF SessionPosition, Attached, FromSource, EndOf, Applied, In
  <2>4. FlushTransaction'
    BY DEF FlushTransaction, FromSource, EndOf, Applied, In, NoTx
  <2>5. Positions'
    BY DEF Positions, Applied
  <2> QED
    BY <2>1, <2>2, <2>3, <2>4, <2>5
<1> QED
  BY <1>1, <1>2, <1>3, <1>4, <1>5, <1>6, <1>7, <1>8 DEF Next

(* The initial state is consistent.                                        *)
LEMMA InitInv == Init => Inv
<1> SUFFICES ASSUME Init PROVE Inv
  OBVIOUS
<1> USE DEF Init
<1>1. SourceInOrder
  BY DEF SourceInOrder
<1>2. MemoryOfProcess
  BY DEF MemoryOfProcess, Attached
<1>3. SessionPosition
  BY DEF SessionPosition, Attached
<1>4. FlushTransaction
  BY DEF FlushTransaction, NoTx
<1>5. Positions
  BY DEF Positions
<1> QED
  BY <1>1, <1>2, <1>3, <1>4, <1>5, InitTypeOK DEF Inv, MemoryMatchesSlot

(* Type correctness, under any interleaving of crashes, restarts and       *)
(* undecided commits (_loop, _flush, ReplicationStream).                   *)
THEOREM TypeCorrect == Spec => []TypeOK
<1>1. Inv /\ [Next]_vars => Inv'
  BY NextTypeOK, NextKeeps DEF Inv
<1>2. Inv => TypeOK
  BY DEF Inv
<1> QED
  BY InitInv, <1>1, <1>2, PTL DEF Spec

(* What a process buffers is what the slot sent, what it has read is       *)
(* applied or pending, and a batch on its way ends after everything the    *)
(* slot was told (_loop, _flush, ReplicationStream.ack).                   *)
THEOREM BuffersConsistent == Spec => []MemoryMatchesSlot
<1>1. Inv /\ [Next]_vars => Inv'
  BY NextTypeOK, NextKeeps DEF Inv
<1>2. Inv => MemoryMatchesSlot
  BY DEF Inv
<1> QED
  BY InitInv, <1>1, <1>2, PTL DEF Spec

(* The slot never passes the checkpoint row, in whatever order acks,       *)
(* keepalives, crashes and undecided commits happen.                       *)
THEOREM SlotNeverAhead == Spec => []SlotBehindCheckpoint
<1>1. Inv => SlotBehindCheckpoint
  BY DEF Inv, TypeOK, MemoryMatchesSlot, MemoryOfProcess, Positions, SlotBehindCheckpoint
<1> QED
  BY TypeCorrect, BuffersConsistent, <1>1, PTL DEF Inv

(* At-least-once delivery needs no assumption on undecided commits.        *)
THEOREM AtLeastOnce == Spec => []NothingLost
<1>1. Inv => NothingLost
  <2> SUFFICES ASSUME Inv, NEW n \in 1 .. Len(wal), n <= checkpoint \/ n <= confirmed
               PROVE  \E i \in 1 .. Len(target) : target[i] = wal[n]
    BY DEF NothingLost
  <2>1. Positions /\ checkpoint \in Nat /\ confirmed \in Nat
    BY DEF Inv, TypeOK, MemoryMatchesSlot
  <2>2. n \in 1 .. checkpoint
    BY <2>1 DEF Positions
  <2> QED
    BY <2>1, <2>2 DEF Positions, Applied
<1> QED
  BY TypeCorrect, BuffersConsistent, <1>1, PTL DEF Inv

(***************************************************************************)
(* With commits that settle before a restart, the stronger invariant.      *)
(***************************************************************************)
InvSettled == Inv /\ CommitsSettle /\ MemoryMatchesCheckpoint

(* The initial state is in step.                                           *)
LEMMA InitSettled == CommitsSettle /\ Init => InvSettled
<1> SUFFICES ASSUME CommitsSettle, Init PROVE MemoryMatchesCheckpoint
  BY InitInv DEF InvSettled
<1> QED
  BY DEF Init, NoTx, MemoryMatchesCheckpoint, NextAfter, Attached

(* A batch that continues the checkpoint ends as far past it as it is long.*)
LEMMA EndOfNext ==
  ASSUME Inv, NEW batch \in Seq(Txn), batch # <<>>, NEW k \in Nat, NextAfter(k, batch)
  PROVE  EndOf(batch) = k + Len(batch) /\ EndOf(batch) <= Len(wal)
<1>1. Len(batch) \in Nat \ {0}
  BY EmptySeq
<1>2. k + Len(batch) \in 1 .. Len(wal) /\ batch[Len(batch)] = wal[k + Len(batch)]
  BY <1>1 DEF NextAfter
<1>3. wal[k + Len(batch)].end_lsn = k + Len(batch)
  BY <1>2 DEF Inv, MemoryMatchesSlot, SourceInOrder
<1> QED
  BY <1>2, <1>3 DEF EndOf

(* SourceCommit keeps memory in step with the checkpoint row.              *)
LEMMA SourceCommitInStep ==
  ASSUME InvSettled, NEW ops \in Transactions, SourceCommit(ops)
  PROVE  MemoryMatchesCheckpoint'
<1> USE DEF InvSettled, Inv, TypeOK, SourceCommit, daemonVars, dbVars
<1>1. [end_lsn |-> Len(wal) + 1, ops |-> ops] \in Txn
  BY PipelineAssumption DEF Txn
<1>2. /\ Len(wal') = Len(wal) + 1 /\ Len(wal) \in Nat
      /\ \A n \in 1 .. Len(wal) : wal'[n] = wal[n]
  BY <1>1, AppendProperties, LenProperties
<1>3. checkpoint <= Len(wal) /\ checkpointLsn <= Len(wal)
  BY DEF MemoryMatchesSlot, Positions
<1>4. ASSUME NEW batch \in Seq(Txn), NEW k \in Nat, NextAfter(k, batch)
      PROVE  \A i \in 1 .. Len(batch) : k + i <= Len(wal') /\ batch[i] = wal'[k + i]
  BY <1>2, <1>4, LenProperties DEF NextAfter
<1>5. tx.state # "none" => NextAfter(checkpoint, tx.batch)'
  BY <1>4 DEF MemoryMatchesCheckpoint, NextAfter
<1>6. Attached => NextAfter(checkpointLsn, pending)'
  BY <1>4 DEF MemoryMatchesCheckpoint, NextAfter
<1>7. \A n \in 1 .. checkpoint : target[n] = wal'[n]
  BY <1>2, <1>3 DEF MemoryMatchesCheckpoint
<1> QED
  BY <1>5, <1>6, <1>7 DEF MemoryMatchesCheckpoint, Attached

(* ReadCheckpoint keeps memory in step with the checkpoint row.            *)
LEMMA ReadCheckpointInStep == InvSettled /\ ReadCheckpoint => MemoryMatchesCheckpoint'
  BY DEF InvSettled, Inv, TypeOK, MemoryMatchesSlot, MemoryMatchesCheckpoint, ReadCheckpoint, serverVars,
     daemonVars, dbVars, Attached, NextAfter, MemoryOfProcess

(* StartReplication keeps memory in step with the checkpoint row.          *)
LEMMA StartReplicationInStep == InvSettled /\ StartReplication => MemoryMatchesCheckpoint'
  BY DEF InvSettled, Inv, TypeOK, MemoryMatchesSlot, MemoryMatchesCheckpoint, StartReplication, serverVars,
     daemonVars, dbVars, Attached, NextAfter, MemoryOfProcess, Positions

(* SlotBusy keeps memory in step with the checkpoint row.                  *)
LEMMA SlotBusyInStep == InvSettled /\ SlotBusy => MemoryMatchesCheckpoint'
  BY DEF InvSettled, Inv, TypeOK, MemoryMatchesSlot, MemoryMatchesCheckpoint, SlotBusy, serverVars,
     daemonVars, dbVars, Attached, NextAfter, ProcessEnds

(* Wake keeps memory in step with the checkpoint row.                      *)
LEMMA WakeInStep == InvSettled /\ Wake => MemoryMatchesCheckpoint'
  BY DEF InvSettled, Inv, TypeOK, MemoryMatchesSlot, MemoryMatchesCheckpoint, Wake, serverVars,
     daemonVars, dbVars, Attached, NextAfter, Reading

(* KeepAlive keeps memory in step with the checkpoint row.                 *)
LEMMA KeepAliveInStep == InvSettled /\ KeepAlive => MemoryMatchesCheckpoint'
  BY DEF InvSettled, Inv, TypeOK, MemoryMatchesSlot, MemoryMatchesCheckpoint, KeepAlive, serverVars,
     daemonVars, dbVars, Attached, NextAfter

(* RequestStop keeps memory in step with the checkpoint row.               *)
LEMMA RequestStopInStep == InvSettled /\ RequestStop => MemoryMatchesCheckpoint'
  BY DEF InvSettled, Inv, TypeOK, MemoryMatchesSlot, MemoryMatchesCheckpoint, RequestStop, serverVars,
     daemonVars, dbVars, Attached, NextAfter

(* HaltOnPoison keeps memory in step with the checkpoint row.              *)
LEMMA HaltOnPoisonInStep == InvSettled /\ HaltOnPoison => MemoryMatchesCheckpoint'
  BY DEF InvSettled, Inv, TypeOK, MemoryMatchesSlot, MemoryMatchesCheckpoint, HaltOnPoison, serverVars,
     daemonVars, dbVars, Attached, NextAfter, ProcessEnds, FlushTransaction

(* SendCommit keeps memory in step with the checkpoint row.                *)
LEMMA SendCommitInStep == InvSettled /\ SendCommit => MemoryMatchesCheckpoint'
  BY DEF InvSettled, Inv, TypeOK, MemoryMatchesSlot, MemoryMatchesCheckpoint, SendCommit, serverVars,
     daemonVars, dbVars, Attached, NextAfter

(* ConfirmFlush keeps memory in step with the checkpoint row.              *)
LEMMA ConfirmFlushInStep == InvSettled /\ ConfirmFlush => MemoryMatchesCheckpoint'
  BY DEF InvSettled, Inv, TypeOK, MemoryMatchesSlot, MemoryMatchesCheckpoint, ConfirmFlush, serverVars,
     daemonVars, dbVars, Attached, NextAfter

(* ReleaseSlot keeps memory in step with the checkpoint row.               *)
LEMMA ReleaseSlotInStep == InvSettled /\ ReleaseSlot => MemoryMatchesCheckpoint'
  BY DEF InvSettled, Inv, TypeOK, MemoryMatchesSlot, MemoryMatchesCheckpoint, ReleaseSlot, serverVars,
     daemonVars, dbVars, Attached, NextAfter, SessionEnds

(* Crash keeps memory in step with the checkpoint row.                     *)
LEMMA CrashInStep == InvSettled /\ Crash => MemoryMatchesCheckpoint'
  BY DEF InvSettled, Inv, TypeOK, MemoryMatchesSlot, MemoryMatchesCheckpoint, Crash, serverVars,
     daemonVars, dbVars, Attached, NextAfter, ProcessEnds, NoTx

(* OrphanAborts keeps memory in step with the checkpoint row.              *)
LEMMA OrphanAbortsInStep == InvSettled /\ OrphanAborts => MemoryMatchesCheckpoint'
  BY DEF InvSettled, Inv, TypeOK, MemoryMatchesSlot, MemoryMatchesCheckpoint, OrphanAborts, serverVars,
     daemonVars, dbVars, Attached, NextAfter, NoTx

(* LeaveLoop keeps memory in step with the checkpoint row.                 *)
LEMMA LeaveLoopInStep == InvSettled /\ LeaveLoop => MemoryMatchesCheckpoint'
  BY DEF InvSettled, Inv, TypeOK, MemoryMatchesSlot, MemoryMatchesCheckpoint, LeaveLoop, serverVars,
     daemonVars, dbVars, Attached, NextAfter, ProcessEnds

(* HandleBegin keeps memory in step with the checkpoint row.               *)
LEMMA HandleBeginInStep == InvSettled /\ HandleBegin => MemoryMatchesCheckpoint'
<1> SUFFICES ASSUME InvSettled, HandleBegin PROVE MemoryMatchesCheckpoint'
  OBVIOUS
<1>1. pc = "loop" /\ pc' \in {"loop", "flush"}
  BY DEF HandleBegin, Reading, FlushIfDue
<1>2. UNCHANGED <<wal, checkpoint, target, tx, checkpointLsn, pending>> /\ cursor'.txn = cursor.txn
  BY DEF HandleBegin, dbVars
<1> QED
  BY <1>1, <1>2 DEF InvSettled, MemoryMatchesCheckpoint, NextAfter, Attached

(* HandleRow keeps memory in step with the checkpoint row.                 *)
LEMMA HandleRowInStep == InvSettled /\ HandleRow => MemoryMatchesCheckpoint'
<1> SUFFICES ASSUME InvSettled, HandleRow PROVE MemoryMatchesCheckpoint'
  OBVIOUS
<1>1. pc = "loop" /\ pc' \in {"loop", "flush"}
  BY DEF HandleRow, Reading, FlushIfDue
<1>2. UNCHANGED <<wal, checkpoint, target, tx, checkpointLsn, pending>> /\ cursor'.txn = cursor.txn
  BY DEF HandleRow, dbVars
<1> QED
  BY <1>1, <1>2 DEF InvSettled, MemoryMatchesCheckpoint, NextAfter, Attached

(* HandleCommit keeps memory in step with the checkpoint row.              *)
LEMMA HandleCommitInStep == InvSettled /\ HandleCommit => MemoryMatchesCheckpoint'
<1> SUFFICES ASSUME InvSettled, HandleCommit PROVE MemoryMatchesCheckpoint'
  OBVIOUS
<1> USE DEF InvSettled, Inv, TypeOK, MemoryMatchesSlot
<1>1. /\ pc = "loop" /\ pc' \in {"loop", "flush"} /\ cursor.txn \in 1 .. Len(wal)
      /\ cursor'.txn = cursor.txn + 1
      /\ UNCHANGED <<wal, checkpoint, target, tx, checkpointLsn>>
  BY DEF HandleCommit, Reading, FlushIfDue, dbVars
<1>2. /\ NextAfter(checkpointLsn, pending)
      /\ cursor.txn <= checkpointLsn + Len(pending) + 1
      /\ pending # <<>> => cursor.txn = checkpointLsn + Len(pending) + 1
  BY <1>1 DEF MemoryMatchesCheckpoint, Attached
<1>3. wal[cursor.txn] \in Txn /\ wal[cursor.txn].end_lsn = cursor.txn
  <2>1. wal[cursor.txn] \in Txn
    BY <1>1, ElementOfSeq
  <2> QED
    BY <2>1, <1>1 DEF SourceInOrder
<1>4. FromSource(pending)' /\ SourceInOrder'
  BY HandleCommitKeeps, <1>1 DEF SessionPosition, Attached
<1>5. CASE pending' = pending /\ cursor.txn <= checkpointLsn
  <2>1. pending = <<>>
    BY <1>2, <1>5, LenProperties
  <2> QED
    BY <1>1, <1>5, <2>1 DEF MemoryMatchesCheckpoint, NextAfter, Attached
<1>6. CASE cursor.txn > checkpointLsn /\ \E ops \in Seq(Op) :
              pending' = Append(pending, [end_lsn |-> cursor.txn, ops |-> ops])
  <2>1. PICK ops \in Seq(Op) : pending' = Append(pending, [end_lsn |-> cursor.txn, ops |-> ops])
    BY <1>6
  <2>2. [end_lsn |-> cursor.txn, ops |-> ops] \in Txn
    BY DEF Txn
  <2>3. /\ Len(pending') = Len(pending) + 1 /\ Len(pending) \in Nat
        /\ \A i \in 1 .. Len(pending) : pending'[i] = pending[i]
        /\ pending'[Len(pending) + 1] = [end_lsn |-> cursor.txn, ops |-> ops]
    BY <2>1, <2>2, AppendProperties, LenProperties
  <2>4. pending'[Len(pending) + 1] = wal[cursor.txn]
    <3>1. Len(pending) + 1 \in 1 .. Len(pending')
      BY <2>3
    <3>2. pending'[Len(pending) + 1] = wal'[pending'[Len(pending) + 1].end_lsn]
      BY <3>1, <1>4 DEF FromSource
    <3> QED
      BY <3>2, <2>3, <1>1
  <2>5. cursor.txn = checkpointLsn + Len(pending) + 1
    BY <1>2, <1>6, <2>3
  <2>6. NextAfter(checkpointLsn, pending)'
    <3> SUFFICES ASSUME NEW i \in 1 .. Len(pending')
                 PROVE  checkpointLsn + i <= Len(wal) /\ pending'[i] = wal[checkpointLsn + i]
      BY <1>1 DEF NextAfter
    <3>1. CASE i \in 1 .. Len(pending)
      BY <1>2, <2>3, <3>1 DEF NextAfter
    <3>2. CASE i = Len(pending) + 1
      BY <1>1, <2>3, <2>4, <2>5, <3>2
    <3> QED
      BY <2>3, <3>1, <3>2
  <2>7. tx.state # "none" => NextAfter(checkpoint, tx.batch)'
    BY <1>1 DEF MemoryMatchesCheckpoint, NextAfter
  <2>8. cursor'.txn = checkpointLsn' + Len(pending') + 1
    BY <1>1, <2>3, <2>5
  <2> QED
    BY <1>1, <2>6, <2>7, <2>8 DEF MemoryMatchesCheckpoint, Attached
<1> QED
  BY <1>3, <1>5, <1>6 DEF HandleCommit, IsNew

(* ExecuteFlush keeps memory in step with the checkpoint row.              *)
LEMMA ExecuteFlushInStep == InvSettled /\ ExecuteFlush => MemoryMatchesCheckpoint'
<1> SUFFICES ASSUME InvSettled, ExecuteFlush PROVE MemoryMatchesCheckpoint'
  OBVIOUS
<1>1. /\ pc = "flush" /\ pc' = "commit" /\ tx'.state = "open" /\ tx'.batch = pending
      /\ UNCHANGED <<wal, cursor, checkpointLsn, pending, checkpoint, target>>
  BY DEF ExecuteFlush, serverVars
<1> QED
  BY <1>1 DEF InvSettled, MemoryMatchesCheckpoint, NextAfter, Attached

(* A durable commit moves checkpoint and views on together, in order.      *)
LEMMA DurableInStep ==
  ASSUME InvSettled, Durable, tx.state # "none", wal' = wal
  PROVE  /\ tx.batch \in Seq(Txn) /\ Len(tx.batch) \in Nat \ {0}
         /\ checkpoint' = checkpoint + Len(tx.batch)
         /\ checkpoint' <= Len(wal)
         /\ Len(target') = checkpoint'
         /\ \A n \in 1 .. checkpoint' : target'[n] = wal[n]
<1> USE DEF InvSettled, Inv, TypeOK
<1>1. tx.batch \in Seq(Txn) /\ tx.batch # <<>>
  BY DEF MemoryMatchesSlot, FlushTransaction
<1>2. NextAfter(checkpoint, tx.batch) /\ Len(target) = checkpoint
      /\ \A n \in 1 .. checkpoint : target[n] = wal[n]
  BY DEF MemoryMatchesCheckpoint
<1>3. Len(tx.batch) \in Nat \ {0}
  BY <1>1, EmptySeq
<1>4. checkpoint' = checkpoint + Len(tx.batch) /\ checkpoint' <= Len(wal)
  BY <1>1, <1>2, EndOfNext DEF Durable
<1>5. /\ Len(target') = Len(target) + Len(tx.batch)
      /\ \A i \in 1 .. Len(target) + Len(tx.batch) :
            target'[i] = IF i <= Len(target) THEN target[i] ELSE tx.batch[i - Len(target)]
  BY <1>1, ConcatProperties DEF Durable
<1>6. ASSUME NEW n \in 1 .. checkpoint'
      PROVE  target'[n] = wal[n]
  <2>1. CASE n <= checkpoint
    BY <1>2, <1>3, <1>4, <1>5, <1>6, <2>1
  <2>2. CASE n > checkpoint
    <3>1. n - checkpoint \in 1 .. Len(tx.batch)
      BY <1>3, <1>4, <2>2
    <3>2. tx.batch[n - checkpoint] = wal[checkpoint + (n - checkpoint)]
      BY <3>1, <1>2 DEF NextAfter
    <3> QED
      BY <1>2, <1>3, <1>4, <1>5, <2>2, <3>2
  <2> QED
    BY <1>3, <1>4, <2>1, <2>2
<1> QED
  BY <1>1, <1>2, <1>3, <1>4, <1>5, <1>6

(* ServerCommit keeps memory in step with the checkpoint row.              *)
LEMMA ServerCommitInStep == InvSettled /\ ServerCommit => MemoryMatchesCheckpoint'
<1> SUFFICES ASSUME InvSettled, ServerCommit PROVE MemoryMatchesCheckpoint'
  OBVIOUS
<1>1. /\ pc = "commit" /\ pc' = "ack" /\ tx.state = "sent" /\ tx' = NoTx /\ Durable
      /\ UNCHANGED <<wal, cursor, checkpointLsn, pending>>
  BY DEF ServerCommit, serverVars
<1>2. tx.batch = pending
  BY <1>1 DEF InvSettled, Inv, MemoryMatchesSlot, FlushTransaction
<1>3. /\ checkpoint' = checkpoint + Len(tx.batch)
      /\ Len(target') = checkpoint'
      /\ \A n \in 1 .. checkpoint' : target'[n] = wal[n]
  BY <1>1, DurableInStep
<1>4. checkpointLsn = checkpoint
  BY <1>1 DEF InvSettled, MemoryMatchesCheckpoint
<1> QED
  BY <1>1, <1>2, <1>3, <1>4 DEF InvSettled, MemoryMatchesCheckpoint, NextAfter, Attached, NoTx

(* Ack keeps memory in step with the checkpoint row.                       *)
LEMMA AckInStep == InvSettled /\ Ack => MemoryMatchesCheckpoint'
<1> SUFFICES ASSUME InvSettled, Ack PROVE MemoryMatchesCheckpoint'
  OBVIOUS
<1> USE DEF InvSettled, Inv, TypeOK
<1>1. /\ pc = "ack" /\ pc' = "loop" /\ pending' = <<>>
      /\ checkpointLsn' = EndOf(pending)
      /\ UNCHANGED <<wal, cursor, tx, checkpoint, target>>
  BY DEF Ack, dbVars
<1>2. pending # <<>> /\ checkpoint = EndOf(pending) /\ tx = NoTx
  BY <1>1 DEF MemoryMatchesSlot, MemoryOfProcess, FlushTransaction
<1>3. cursor.txn = checkpoint + 1
  BY <1>1, <1>2 DEF MemoryMatchesCheckpoint, Attached
<1> QED
  BY <1>1, <1>2, <1>3 DEF MemoryMatchesCheckpoint, NextAfter, Attached, NoTx

(* OrphanCommits keeps memory in step with the checkpoint row.             *)
LEMMA OrphanCommitsInStep == InvSettled /\ OrphanCommits => MemoryMatchesCheckpoint'
<1> SUFFICES ASSUME InvSettled, OrphanCommits PROVE MemoryMatchesCheckpoint'
  OBVIOUS
<1>1. /\ tx.state = "orphan" /\ tx' = NoTx /\ Durable /\ wal' = wal /\ pc' = pc
  BY DEF OrphanCommits, serverVars, daemonVars
<1>2. pc = "down"
  BY <1>1 DEF InvSettled, MemoryMatchesCheckpoint
<1>3. Len(target') = checkpoint' /\ \A n \in 1 .. checkpoint' : target'[n] = wal[n]
  BY <1>1, DurableInStep
<1> QED
  BY <1>1, <1>2, <1>3 DEF MemoryMatchesCheckpoint, Attached, NoTx

(* ServerRestart keeps memory in step with the checkpoint row.             *)
LEMMA ServerRestartInStep == InvSettled /\ ServerRestart => MemoryMatchesCheckpoint'
<1> SUFFICES ASSUME InvSettled, ServerRestart PROVE MemoryMatchesCheckpoint'
  OBVIOUS
<1>1. pc' = "down" /\ tx' = NoTx /\ wal' = wal
  BY DEF ServerRestart, ProcessEnds
<1>2. Len(target') = checkpoint' /\ \A n \in 1 .. checkpoint' : target'[n] = wal[n]
  <2>1. CASE tx.state \in {"sent", "orphan"} /\ Durable
    BY <1>1, <2>1, DurableInStep
  <2>2. CASE UNCHANGED <<checkpoint, target>>
    BY <1>1, <2>2 DEF InvSettled, MemoryMatchesCheckpoint
  <2> QED
    BY <2>1, <2>2 DEF ServerRestart
<1> QED
  BY <1>1, <1>2 DEF MemoryMatchesCheckpoint, Attached, NoTx

(* The checkpoint in memory, the sealed transactions and a batch on its    *)
(* way stay in step with the checkpoint row.                               *)
LEMMA NextInStep == InvSettled /\ [Next]_vars => MemoryMatchesCheckpoint'
<1> SUFFICES ASSUME InvSettled, [Next]_vars PROVE MemoryMatchesCheckpoint'
  OBVIOUS
<1>1. ASSUME NEW ops \in Transactions, SourceCommit(ops) PROVE MemoryMatchesCheckpoint'
  BY <1>1, SourceCommitInStep
<1>2. CASE Startup
  BY <1>2, ReadCheckpointInStep, StartReplicationInStep, SlotBusyInStep DEF Startup
<1>3. CASE Messages
  BY <1>3, HandleBeginInStep, HandleRowInStep, HandleCommitInStep, WakeInStep, KeepAliveInStep
     DEF Messages
<1>4. CASE Flush
  BY <1>4, ExecuteFlushInStep, HaltOnPoisonInStep, SendCommitInStep, ServerCommitInStep,
     AckInStep DEF Flush
<1>5. CASE Stopping
  BY <1>5, RequestStopInStep, LeaveLoopInStep DEF Stopping
<1>6. CASE Walsender
  BY <1>6, ConfirmFlushInStep, ReleaseSlotInStep DEF Walsender
<1>7. CASE Faults
  BY <1>7, CrashInStep, OrphanCommitsInStep, OrphanAbortsInStep, ServerRestartInStep DEF Faults
<1>8. CASE UNCHANGED vars
  BY <1>8 DEF vars, serverVars, daemonVars, dbVars, InvSettled, MemoryMatchesCheckpoint,
     NextAfter, Attached
<1> QED
  BY <1>1, <1>2, <1>3, <1>4, <1>5, <1>6, <1>7, <1>8 DEF Next

(* Both invariants hold throughout, if commits settle before a restart.    *)
LEMMA SettledInvariant == CommitsSettle /\ Spec => []InvSettled
<1>1. InvSettled /\ [Next]_vars => InvSettled'
  BY NextTypeOK, NextKeeps, NextInStep DEF InvSettled, Inv
<1> QED
  BY InitSettled, <1>1, PTL DEF Spec

(* Memory and checkpoint row agree, and what is sealed comes next without  *)
(* a gap, under the same assumption.                                       *)
THEOREM MemoryInStep == CommitsSettle /\ Spec => []MemoryMatchesCheckpoint
<1>1. InvSettled => MemoryMatchesCheckpoint
  BY DEF InvSettled
<1> QED
  BY SettledInvariant, <1>1, PTL

(* Exactly-once: under any interleaving of redelivery, crashes, restarts   *)
(* and stops the views show each transaction up to the checkpoint once,    *)
(* whole and in order, provided commits settle before a restart.           *)
THEOREM ExactlyOnceHolds == CommitsSettle /\ Spec => []ExactlyOnce
<1>1. InvSettled => ExactlyOnce
  <2> SUFFICES ASSUME InvSettled PROVE ExactlyOnce
    OBVIOUS
  <2> USE DEF InvSettled, Inv, TypeOK
  <2>1. checkpoint \in 0 .. Len(wal) /\ Len(wal) \in Nat
    BY LenProperties DEF MemoryMatchesSlot, Positions
  <2>2. Len(target) = checkpoint /\ \A n \in 1 .. checkpoint : target[n] = wal[n]
    BY DEF MemoryMatchesCheckpoint
  <2>5. target = SubSeq(wal, 1, checkpoint)
    BY <2>1, <2>2, IsPrefixOf
  <2> QED
    BY <2>1, <2>5 DEF ExactlyOnce
<1> QED
  BY SettledInvariant, <1>1, PTL

(* The steps that change the checkpoint or the target tables.              *)
LEMMA TargetSteps ==
  ASSUME Inv, [Next]_vars
  PROVE  \/ Durable /\ tx.state # "none" /\ wal' = wal
         \/ UNCHANGED <<checkpoint, target>>
<1> USE DEF serverVars, daemonVars, dbVars
<1>1. ASSUME NEW ops \in Transactions, SourceCommit(ops) PROVE UNCHANGED <<checkpoint, target>>
  BY <1>1 DEF SourceCommit
<1>2. Startup => UNCHANGED <<checkpoint, target>>
  BY DEF Startup, ReadCheckpoint, StartReplication, SlotBusy
<1>3. Messages => UNCHANGED <<checkpoint, target>>
  BY DEF Messages, HandleBegin, HandleRow, HandleCommit, Wake, KeepAlive
<1>4. Flush => \/ Durable /\ tx.state # "none" /\ wal' = wal
               \/ UNCHANGED <<checkpoint, target>>
  BY DEF Flush, ExecuteFlush, HaltOnPoison, SendCommit, ServerCommit, Ack
<1>5. Stopping => UNCHANGED <<checkpoint, target>>
  BY DEF Stopping, RequestStop, LeaveLoop
<1>6. Walsender => UNCHANGED <<checkpoint, target>>
  BY DEF Walsender, ConfirmFlush, ReleaseSlot
<1>7. Faults => \/ Durable /\ tx.state # "none" /\ wal' = wal
                \/ UNCHANGED <<checkpoint, target>>
  BY DEF Faults, Crash, OrphanCommits, OrphanAborts, ServerRestart
<1>8. UNCHANGED vars => UNCHANGED <<checkpoint, target>>
  BY DEF vars
<1> QED
  BY <1>1, <1>2, <1>3, <1>4, <1>5, <1>6, <1>7, <1>8 DEF Next

(* The checkpoint row never goes back.                                     *)
THEOREM CheckpointNeverBack == CommitsSettle /\ Spec => CheckpointMonotone
<1>1. InvSettled /\ [Next]_vars => [checkpoint' >= checkpoint]_vars
  <2> SUFFICES ASSUME InvSettled, [Next]_vars PROVE checkpoint' >= checkpoint
    OBVIOUS
  <2>1. checkpoint \in Nat
    BY DEF InvSettled, Inv, TypeOK
  <2>2. CASE Durable /\ tx.state # "none" /\ wal' = wal
    BY <2>1, <2>2, DurableInStep
  <2>3. CASE UNCHANGED <<checkpoint, target>>
    BY <2>1, <2>3
  <2> QED
    BY <2>2, <2>3, TargetSteps DEF InvSettled
<1> QED
  BY SettledInvariant, <1>1, PTL DEF Spec, CheckpointMonotone

(* A graceful stop leaves nothing behind that it has read whole: the only  *)
(* step out of the loop that is no fault is its end, with nothing pending. *)
THEOREM StopLeavesNothing == CommitsSettle /\ Spec => CleanStopFlushes
<1>1. InvSettled /\ [Next]_vars
        => [pc = "loop" /\ stop /\ pc' = "down" /\ faults' = faults
              => cursor.txn - 1 <= checkpoint]_vars
  <2> SUFFICES ASSUME InvSettled, Next, pc = "loop", pc' = "down", faults' = faults
               PROVE  cursor.txn - 1 <= checkpoint
    BY DEF vars
  <2> USE DEF InvSettled, Inv, TypeOK
  <2>1. ~\E ops \in Transactions : SourceCommit(ops)
    BY DEF SourceCommit, daemonVars
  <2>2. ~Startup /\ ~Flush /\ ~Walsender /\ ~RequestStop
    BY DEF Startup, ReadCheckpoint, StartReplication, SlotBusy, Flush, ExecuteFlush,
           HaltOnPoison, SendCommit, ServerCommit, Ack, Walsender, ConfirmFlush, ReleaseSlot,
           RequestStop, daemonVars
  <2>3. ~Messages
    BY DEF Messages, HandleBegin, HandleRow, HandleCommit, FlushIfDue, Wake, KeepAlive, daemonVars
  <2>4. ~Faults
    BY DEF Faults, Crash, OrphanCommits, OrphanAborts, ServerRestart, daemonVars
  <2>5. LeaveLoop /\ pending = <<>>
    BY <2>1, <2>2, <2>3, <2>4 DEF Next, Stopping, LeaveLoop, LeavesFor
  <2>6. cursor.txn <= checkpointLsn + Len(pending) + 1 /\ checkpointLsn = checkpoint
    BY DEF MemoryMatchesCheckpoint, Attached
  <2> QED
    BY <2>5, <2>6
<1> QED
  BY SettledInvariant, <1>1, PTL DEF Spec, CleanStopFlushes

(* Refinement: the pipeline is an implementation of ConsistentPrefix.      *)
THEOREM PipelineImplements == CommitsSettle /\ Spec => Implements
<1> USE DEF Abstract!vars
<1>1. Init => Abstract!Init
  BY DEF Init, Abstract!Init
<1>2. InvSettled /\ InvSettled' /\ [Next]_vars => [Abstract!Next]_(Abstract!vars)
  <2> SUFFICES ASSUME InvSettled, InvSettled', [Next]_vars,
                      UNCHANGED <<wal, target>> => FALSE
               PROVE  Abstract!Next
    OBVIOUS
  <2> USE DEF InvSettled, Inv, TypeOK
  <2>1. CASE Durable /\ tx.state # "none" /\ wal' = wal
    <3>1. /\ Len(tx.batch) \in Nat \ {0} /\ checkpoint' = checkpoint + Len(tx.batch)
          /\ checkpoint' <= Len(wal) /\ Len(target') = checkpoint'
          /\ \A n \in 1 .. checkpoint' : target'[n] = wal[n]
      BY <2>1, DurableInStep
    <3>2. Len(target) = checkpoint /\ Len(wal) \in Nat
      BY LenProperties DEF MemoryMatchesCheckpoint
    <3>3. checkpoint' \in Len(target) + 1 .. Len(wal)
      BY <3>1, <3>2
    <3>4. target' \in Seq(Txn) /\ wal \in Seq(Txn)
      OBVIOUS
    <3>5. target' = SubSeq(wal, 1, checkpoint')
      BY <3>1, <3>4, IsPrefixOf
    <3> QED
      BY <2>1, <3>3, <3>5 DEF Abstract!Next, Abstract!CatchUp
  <2>2. CASE UNCHANGED <<checkpoint, target>>
    <3>1. \E ops \in Transactions : wal' = Append(wal, [end_lsn |-> Len(wal) + 1, ops |-> ops])
      BY <2>2 DEF Next, SourceCommit, Startup, ReadCheckpoint, StartReplication, SlotBusy, Messages,
         HandleBegin, HandleRow, HandleCommit, Wake, KeepAlive, Flush, ExecuteFlush,
         HaltOnPoison, SendCommit, ServerCommit, Ack, Stopping, RequestStop, LeaveLoop,
         Walsender, ConfirmFlush, ReleaseSlot, Faults, Crash, OrphanCommits, OrphanAborts,
         ServerRestart, vars, serverVars, daemonVars, dbVars
    <3>2. PICK ops \in Transactions : wal' = Append(wal, [end_lsn |-> Len(wal) + 1, ops |-> ops])
      BY <3>1
    <3>3. [end_lsn |-> Len(wal) + 1, ops |-> ops] \in Txn
      BY PipelineAssumption DEF Txn
    <3>4. /\ Len(wal') = Len(wal) + 1 /\ Len(wal) \in Nat
          /\ \A n \in 1 .. Len(wal) : wal'[n] = wal[n]
      BY <3>2, <3>3, AppendProperties, LenProperties
    <3>5. SubSeq(wal', 1, Len(wal)) = wal
      <4>1. wal' \in Seq(Txn) /\ wal \in Seq(Txn)
        OBVIOUS
      <4> QED
        BY <3>4, <4>1, IsPrefixOf
    <3> QED
      BY <2>2, <3>4, <3>5 DEF Abstract!Next, Abstract!Commit
  <2> QED
    BY <2>1, <2>2, TargetSteps
<1> QED
  BY <1>1, <1>2, SettledInvariant, PTL DEF Spec, Implements, Abstract!Spec

(***************************************************************************)
(* No assumption on commits again: a transaction that cannot be folded.    *)
(***************************************************************************)
IsClean(t) == \A k \in 1 .. Len(t.ops) : t.ops[k] \notin Poison

OnlyClean ==
  /\ \A i \in 1 .. Len(target) : IsClean(target[i])
  /\ tx.state # "none" => \A i \in 1 .. Len(tx.batch) : IsClean(tx.batch[i])

(* Only batches that fold reach the database.                              *)
LEMMA OnlyCleanInvariant == Spec => []OnlyClean
<1>1. Init => OnlyClean
  BY DEF Init, OnlyClean, NoTx
<1>2. Inv /\ OnlyClean /\ [Next]_vars => OnlyClean'
  <2> SUFFICES ASSUME Inv, OnlyClean, [Next]_vars PROVE OnlyClean'
    OBVIOUS
  <2>1. \/ tx' = tx
        \/ tx'.state = "none"
        \/ tx'.batch = tx.batch /\ tx.state # "none"
        \/ tx'.batch = pending /\ CanFold(pending)
    <3> USE DEF serverVars, daemonVars, dbVars
    <3>1. ASSUME NEW ops \in Transactions, SourceCommit(ops) PROVE tx' = tx
      BY <3>1 DEF SourceCommit
    <3>2. Startup => tx' = tx
      BY DEF Startup, ReadCheckpoint, StartReplication, SlotBusy
    <3>3. Messages => tx' = tx
      BY DEF Messages, HandleBegin, HandleRow, HandleCommit, Wake, KeepAlive
    <3>4. HaltOnPoison \/ Ack => tx' = tx
      BY DEF HaltOnPoison, Ack
    <3>5. ExecuteFlush => tx'.batch = pending /\ CanFold(pending)
      BY DEF ExecuteFlush
    <3>6. SendCommit => tx'.batch = tx.batch /\ tx.state # "none"
      BY DEF SendCommit, Inv, TypeOK
    <3>7. ServerCommit \/ OrphanCommits \/ OrphanAborts \/ ServerRestart => tx'.state = "none"
      BY DEF ServerCommit, OrphanCommits, OrphanAborts, ServerRestart, NoTx
    <3>8. Stopping \/ Walsender => tx' = tx
      BY DEF Stopping, RequestStop, LeaveLoop, Walsender, ConfirmFlush, ReleaseSlot
    <3>9. Crash => \/ tx'.state = "none"
                   \/ tx'.batch = tx.batch /\ tx.state # "none"
      BY DEF Crash, NoTx, Inv, TypeOK
    <3>10. UNCHANGED vars => tx' = tx
      BY DEF vars
    <3> DEFINE Kept == \/ tx' = tx
                       \/ tx'.state = "none"
                       \/ tx'.batch = tx.batch /\ tx.state # "none"
                       \/ tx'.batch = pending /\ CanFold(pending)
    <3>11. Flush => Kept
      BY <3>4, <3>5, <3>6, <3>7 DEF Flush
    <3>12. Faults => Kept
      BY <3>7, <3>9 DEF Faults
    <3>13. Startup \/ Messages \/ Stopping \/ Walsender \/ UNCHANGED vars => Kept
      BY <3>2, <3>3, <3>8, <3>10
    <3>14. (\E ops \in Transactions : SourceCommit(ops)) => Kept
      BY <3>1
    <3> HIDE DEF Kept
    <3>15. Kept
      BY <3>11, <3>12, <3>13, <3>14 DEF Next
    <3> QED
      BY <3>15 DEF Kept
  <2>2. tx'.state # "none" => \A i \in 1 .. Len(tx'.batch) : IsClean(tx'.batch[i])
    BY <2>1 DEF OnlyClean, CanFold, IsClean
  <2>3. CASE Durable /\ tx.state # "none" /\ wal' = wal
    <3>1. tx.batch \in Seq(Txn) /\ target \in Seq(Txn)
      BY DEF Inv, TypeOK
    <3>2. /\ Len(target') = Len(target) + Len(tx.batch)
          /\ Len(target) \in Nat /\ Len(tx.batch) \in Nat
          /\ \A i \in 1 .. Len(target) + Len(tx.batch) :
               target'[i] = IF i <= Len(target) THEN target[i] ELSE tx.batch[i - Len(target)]
      BY <2>3, <3>1, ConcatProperties, LenProperties DEF Durable
    <3>3. \A i \in 1 .. Len(target') : IsClean(target'[i])
      <4> SUFFICES ASSUME NEW i \in 1 .. Len(target') PROVE IsClean(target'[i])
        OBVIOUS
      <4>1. CASE i <= Len(target)
        BY <3>2, <4>1 DEF OnlyClean
      <4>2. CASE i > Len(target)
        <5>1. i - Len(target) \in 1 .. Len(tx.batch)
          BY <3>2, <4>2
        <5> QED
          BY <2>3, <3>2, <4>2, <5>1 DEF OnlyClean
      <4> QED
        BY <3>2, <4>1, <4>2
    <3> QED
      BY <2>2, <3>3 DEF OnlyClean, IsClean
  <2>4. CASE UNCHANGED <<checkpoint, target>>
    BY <2>2, <2>4 DEF OnlyClean, IsClean
  <2> QED
    BY <2>3, <2>4, TargetSteps
<1>3. Inv /\ [Next]_vars => Inv'
  BY NextTypeOK, NextKeeps DEF Inv
<1> QED
  BY InitInv, <1>1, <1>2, <1>3, PTL DEF Spec

(* The views stop before a transaction that cannot be folded, whatever     *)
(* crashes and restarts happen, and so does the slot.                      *)
THEOREM PoisonStopsTheViews == Spec => []PoisonNeverPassed
<1>1. Inv /\ OnlyClean => PoisonNeverPassed
  <2> SUFFICES ASSUME Inv, OnlyClean, NEW n \in 1 .. Len(wal), ~IsClean(wal[n])
               PROVE  checkpoint < n /\ confirmed < n
    BY DEF PoisonNeverPassed, IsClean
  <2> USE DEF Inv, TypeOK
  <2>1. ~Applied(n)
    BY DEF OnlyClean, Applied
  <2>2. confirmed <= checkpoint /\ \A m \in 1 .. checkpoint : Applied(m)
    BY DEF MemoryMatchesSlot, Positions
  <2> QED
    BY <2>1, <2>2
<1> QED
  BY TypeCorrect, BuffersConsistent, OnlyCleanInvariant, <1>1, PTL DEF Inv
=============================================================================
