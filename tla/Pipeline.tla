------------------------------ MODULE Pipeline ------------------------------
(***************************************************************************)
(* The streaming pipeline of one slot: the source's WAL, the slot and its  *)
(* walsender, the daemon's loop and its flush, and the target database     *)
(* that holds the views and the checkpoint row (daemon.py, replication.py, *)
(* checkpoint.py).                                                         *)
(*                                                                         *)
(* LSNs are used by the code only through their order, so the end LSN of   *)
(* the n-th published commit is n, and 0 is the consistent point that      *)
(* setup wrote to the checkpoint row.  The target tables are represented   *)
(* by the sequence of transactions applied to them; module DeltaBatch      *)
(* says what applying does to the rows.                                    *)
(***************************************************************************)
EXTENDS Naturals, Sequences

CONSTANTS
    Op,                \* row operations
    Poison,            \* those whose fold raises (NaN, surviving TOAST marker)
    Transactions,      \* what one source transaction may contain
    BatchMaxTxns,      \* batch.max_txns
    MaxCommits,        \* bound: transactions the source commits
    MaxFaults,         \* bound: crashes, server restarts and stop requests
    CommitsSettle      \* no daemon reads the checkpoint while a commit sent
                       \* by its dead predecessor is still undecided

ASSUME PipelineAssumption ==
    /\ Poison \subseteq Op
    /\ Transactions \subseteq Seq(Op)
    /\ BatchMaxTxns \in Nat \ {0}
    /\ MaxCommits \in Nat
    /\ MaxFaults \in Nat
    /\ CommitsSettle \in BOOLEAN

VARIABLES
    wal,               \* published commits, decoded: a sequence of Txn
    confirmed,         \* confirmed_flush_lsn of the slot
    slotActive,        \* some walsender holds the slot
    feedback,          \* last position sent to the walsender (0: none)
    cursor,            \* next message of the session: transaction and part
    pc,                \* where the daemon is; "down" between two processes
    stop,              \* Daemon._stop and ReplicationStream._stopping
    checkpointLsn,     \* Daemon._checkpoint_lsn, in memory
    flushLsn,          \* ReplicationStream._flush_lsn, in memory
    openOps,           \* open_ops of _loop
    pending,           \* sealed transactions not yet flushed
    tx,                \* the flush transaction as the database sees it
    checkpoint,        \* commit_lsn of the walflux.checkpoint row
    target,            \* transactions applied to the target tables
    faults             \* faults so far

serverVars == <<wal, confirmed, slotActive, feedback, cursor>>
daemonVars == <<pc, stop, checkpointLsn, flushLsn, openOps, pending>>
dbVars     == <<tx, checkpoint, target>>
vars       == <<serverVars, daemonVars, dbVars, faults>>

-----------------------------------------------------------------------------
(* A sealed transaction, and a flush transaction: not begun, open with its *)
(* statements executed, COMMIT sent, or COMMIT sent by a daemon now dead.  *)

Txn == [end_lsn : Nat, ops : Seq(Op)]

TxStates == {"none", "open", "sent", "orphan"}

NoTx == [state |-> "none", batch |-> <<>>]

NoCursor == [txn |-> 1, part |-> 0]

DaemonStates == {"down", "connect", "loop", "flush", "commit", "ack"}

Attached == pc \in {"loop", "flush", "commit", "ack"}

EndOf(batch) == batch[Len(batch)].end_lsn

-----------------------------------------------------------------------------
(* The decisions of the loop and the flush.  Each is followed by nothing   *)
(* but its uses below; the variants marked (mutant) are used nowhere.      *)

(* The skip rule.  (mutants) Redelivery of the checkpoint itself passes;   *)
(* the slot's position is taken for the checkpoint.                        *)
IsNewInclusive(lsn) == lsn >= checkpointLsn
IsNewToSlot(lsn) == lsn > confirmed
IsNew(lsn) == lsn > checkpointLsn

(* The batch is full.                                                      *)
BatchIsFull(sealed) == Len(sealed) >= BatchMaxTxns

(* A wake flushes what is sealed.  (mutant) Only once the batch is full.   *)
WakeFlushesFull(sealed) == BatchIsFull(sealed)
WakeFlushes(sealed) == sealed # <<>>

(* After the loop, sealed transactions get a last flush.  (mutants) None;  *)
(* the process waits for the open transaction to be sealed.                *)
LeavesUnflushed == "down"
LeavesWhenSealed ==
    IF pending # <<>> THEN "flush" ELSE IF openOps # <<>> THEN "loop" ELSE "down"
LeavesFor == IF pending # <<>> THEN "flush" ELSE "down"

(* Folding the batch succeeds.  (mutant) A row it cannot fold is skipped.  *)
FoldSkipsPoison(batch) == TRUE
CanFold(batch) ==
    \A i \in 1 .. Len(batch) : \A k \in 1 .. Len(batch[i].ops) : batch[i].ops[k] \notin Poison

(* The position an idle read reports.  (mutants) What has been received;   *)
(* the last byte flushed, where the protocol wants the one after it.       *)
ReceivedPosition == cursor.txn - 1
LastByteFlushed == flushLsn - 1
KeepAlivePosition == flushLsn

(* The position ack reports.  (mutant) The one reported before.            *)
AckStale == flushLsn
AckPosition == EndOf(pending)

(* The server's commit of tx makes deltas and checkpoint durable together. *)
(* (mutant) Only the checkpoint is in the transaction.                     *)
DurableCheckpoint ==
    /\ checkpoint' = EndOf(tx.batch)
    /\ UNCHANGED target
Durable ==
    /\ target' = target \o tx.batch
    /\ checkpoint' = EndOf(tx.batch)

-----------------------------------------------------------------------------
Init ==
    /\ wal = <<>>
    /\ confirmed = 0
    /\ slotActive = FALSE
    /\ feedback = 0
    /\ cursor = [txn |-> 1, part |-> 0]
    /\ pc = "down"
    /\ stop = FALSE
    /\ checkpointLsn = 0
    /\ flushLsn = 0
    /\ openOps = <<>>
    /\ pending = <<>>
    /\ tx = NoTx
    /\ checkpoint = 0
    /\ target = <<>>
    /\ faults = 0

-----------------------------------------------------------------------------
(* The source commits a transaction on published tables.                   *)
SourceCommit(ops) ==
    /\ Len(wal) < MaxCommits
    /\ wal' = Append(wal, [end_lsn |-> Len(wal) + 1, ops |-> ops])
    /\ UNCHANGED <<confirmed, slotActive, feedback, cursor>>
    /\ UNCHANGED <<daemonVars, dbVars, faults>>

-----------------------------------------------------------------------------
(* A process starts.  run reads the checkpoint row first ...               *)
ReadCheckpoint ==
    /\ pc = "down"
    /\ CommitsSettle => tx.state # "orphan"
    /\ pc' = "connect"
    /\ checkpointLsn' = checkpoint
    /\ UNCHANGED <<stop, flushLsn, openOps, pending>>
    /\ UNCHANGED <<serverVars, dbVars, faults>>

(* ... and only then takes the slot, which replays every transaction that  *)
(* the slot has not confirmed.                                             *)
StartReplication ==
    /\ pc = "connect"
    /\ ~slotActive
    /\ pc' = "loop"
    /\ slotActive' = TRUE
    /\ cursor' = [txn |-> confirmed + 1, part |-> 0]
    /\ UNCHANGED <<wal, confirmed, feedback>>
    /\ UNCHANGED <<stop, checkpointLsn, flushLsn, openOps, pending>>
    /\ UNCHANGED <<dbVars, faults>>

(* However a process ends, its memory goes with it.                        *)
ProcessEnds ==
    /\ pc' = "down"
    /\ stop' = FALSE
    /\ checkpointLsn' = 0
    /\ flushLsn' = 0
    /\ openOps' = <<>>
    /\ pending' = <<>>

(* START_REPLICATION on a slot its old walsender still holds is an error.  *)
SlotBusy ==
    /\ pc = "connect"
    /\ slotActive
    /\ ProcessEnds
    /\ UNCHANGED <<serverVars, dbVars, faults>>

-----------------------------------------------------------------------------
(* One pass of the loop over a decoded message.  A pass that ends with     *)
(* sealed transactions pending tests the flush triggers: a full batch      *)
(* flushes, and below that the deadline may or may not have passed.        *)
Reading == pc = "loop" /\ ~stop

FlushIfDue(sealed) ==
    \/ sealed # <<>> /\ pc' = "flush"
    \/ ~BatchIsFull(sealed) /\ pc' = "loop"

HandleBegin ==
    /\ Reading
    /\ cursor.txn <= Len(wal) /\ cursor.part = 0
    /\ cursor' = [txn |-> cursor.txn, part |-> 1]
    /\ openOps' = <<>>
    /\ FlushIfDue(pending)
    /\ UNCHANGED <<wal, confirmed, slotActive, feedback>>
    /\ UNCHANGED <<stop, checkpointLsn, flushLsn, pending, dbVars, faults>>

HandleRow ==
    /\ Reading
    /\ cursor.txn <= Len(wal)
    /\ 1 <= cursor.part /\ cursor.part <= Len(wal[cursor.txn].ops)
    /\ cursor' = [txn |-> cursor.txn, part |-> cursor.part + 1]
    /\ openOps' = Append(openOps, wal[cursor.txn].ops[cursor.part])
    /\ FlushIfDue(pending)
    /\ UNCHANGED <<wal, confirmed, slotActive, feedback>>
    /\ UNCHANGED <<stop, checkpointLsn, flushLsn, pending, dbVars, faults>>

HandleCommit ==
    /\ Reading
    /\ cursor.txn <= Len(wal) /\ cursor.part = Len(wal[cursor.txn].ops) + 1
    /\ cursor' = [txn |-> cursor.txn + 1, part |-> 0]
    /\ openOps' = <<>>
    /\ LET lsn == wal[cursor.txn].end_lsn
       IN  pending' = IF IsNew(lsn)
                      THEN Append(pending, [end_lsn |-> lsn, ops |-> openOps])
                      ELSE pending
    /\ FlushIfDue(pending')
    /\ UNCHANGED <<wal, confirmed, slotActive, feedback>>
    /\ UNCHANGED <<stop, checkpointLsn, flushLsn, dbVars, faults>>

(* messages() yields None when its wake window passes without a message.   *)
Wake ==
    /\ Reading
    /\ WakeFlushes(pending)
    /\ pc' = "flush"
    /\ UNCHANGED <<stop, checkpointLsn, flushLsn, openOps, pending>>
    /\ UNCHANGED <<serverVars, dbVars, faults>>

(* On an idle read, feedback older than ten seconds is sent again.         *)
KeepAlive ==
    /\ Reading
    /\ feedback' = KeepAlivePosition
    /\ UNCHANGED <<wal, confirmed, slotActive, cursor>>
    /\ UNCHANGED <<daemonVars, dbVars, faults>>

-----------------------------------------------------------------------------
(* SIGTERM, once run has installed its handlers; before that it kills.     *)
RequestStop ==
    /\ Attached /\ ~stop
    /\ faults < MaxFaults
    /\ faults' = faults + 1
    /\ stop' = TRUE
    /\ UNCHANGED <<pc, checkpointLsn, flushLsn, openOps, pending>>
    /\ UNCHANGED <<serverVars, dbVars>>

(* The loop ends.  After a last flush this is reached again with nothing   *)
(* pending, and run closes the stream; an open buffer is dropped.          *)
LeaveLoop ==
    /\ pc = "loop" /\ stop
    /\ \/ /\ LeavesFor = "flush"
          /\ pc' = "flush"
          /\ UNCHANGED <<stop, checkpointLsn, flushLsn, openOps, pending>>
       \/ /\ LeavesFor = "down"
          /\ ProcessEnds
    /\ UNCHANGED <<serverVars, dbVars, faults>>

-----------------------------------------------------------------------------
(* _flush.  The batch is folded, then its statements and the checkpoint    *)
(* upsert run in an open transaction.  An undecided transaction of a dead  *)
(* predecessor holds the checkpoint row's lock, so the upsert waits for it.*)
ExecuteFlush ==
    /\ pc = "flush"
    /\ CanFold(pending)
    /\ tx = NoTx
    /\ tx' = [state |-> "open", batch |-> pending]
    /\ pc' = "commit"
    /\ UNCHANGED <<stop, checkpointLsn, flushLsn, openOps, pending>>
    /\ UNCHANGED <<serverVars, checkpoint, target, faults>>

(* The fold raises before any statement is built, and the daemon exits.    *)
HaltOnPoison ==
    /\ pc = "flush"
    /\ ~CanFold(pending)
    /\ ProcessEnds
    /\ UNCHANGED <<serverVars, dbVars, faults>>

SendCommit ==
    /\ pc = "commit"
    /\ tx.state = "open"
    /\ tx' = [tx EXCEPT !.state = "sent"]
    /\ UNCHANGED <<serverVars, daemonVars, checkpoint, target, faults>>

ServerCommit ==
    /\ pc = "commit"
    /\ tx.state = "sent"
    /\ Durable
    /\ tx' = NoTx
    /\ pc' = "ack"
    /\ UNCHANGED <<stop, checkpointLsn, flushLsn, openOps, pending>>
    /\ UNCHANGED <<serverVars, faults>>

(* stream.ack, then the in-memory checkpoint, then an empty batch.         *)
Ack ==
    /\ pc = "ack"
    /\ feedback' = AckPosition
    /\ flushLsn' = AckPosition
    /\ checkpointLsn' = EndOf(pending)
    /\ pending' = <<>>
    /\ pc' = "loop"
    /\ UNCHANGED <<stop, openOps>>
    /\ UNCHANGED <<wal, confirmed, slotActive, cursor, dbVars, faults>>

-----------------------------------------------------------------------------
(* The server's side of the session.  Feedback moves the slot forward.     *)
ConfirmFlush ==
    /\ slotActive
    /\ feedback > confirmed
    /\ confirmed' = feedback
    /\ UNCHANGED <<wal, slotActive, feedback, cursor>>
    /\ UNCHANGED <<daemonVars, dbVars, faults>>

SessionEnds ==
    /\ slotActive' = FALSE
    /\ feedback' = 0
    /\ cursor' = NoCursor

(* The walsender of a finished or killed daemon ends, and feedback it had  *)
(* not processed is lost.                                                  *)
ReleaseSlot ==
    /\ slotActive
    /\ ~Attached
    /\ SessionEnds
    /\ UNCHANGED <<wal, confirmed>>
    /\ UNCHANGED <<daemonVars, dbVars, faults>>

-----------------------------------------------------------------------------
(* The daemon is killed or fails.  An open transaction is rolled back; a   *)
(* sent COMMIT stays with the server, which decides it later.              *)
Crash ==
    /\ pc # "down"
    /\ faults < MaxFaults
    /\ faults' = faults + 1
    /\ ProcessEnds
    /\ tx' = IF tx.state \in {"sent", "orphan"}
             THEN [tx EXCEPT !.state = "orphan"] ELSE NoTx
    /\ UNCHANGED <<serverVars, checkpoint, target>>

OrphanCommits ==
    /\ tx.state = "orphan"
    /\ Durable
    /\ tx' = NoTx
    /\ UNCHANGED <<serverVars, daemonVars, faults>>

OrphanAborts ==
    /\ tx.state = "orphan"
    /\ tx' = NoTx
    /\ UNCHANGED <<serverVars, daemonVars, checkpoint, target, faults>>

(* The server restarts: every session ends, an undecided commit is decided *)
(* by its WAL record, and the slot comes back with a position it had saved *)
(* before.                                                                 *)
ServerRestart ==
    /\ faults < MaxFaults
    /\ faults' = faults + 1
    /\ ProcessEnds
    /\ SessionEnds
    /\ confirmed' \in 0 .. confirmed
    /\ tx' = NoTx
    /\ \/ tx.state \in {"sent", "orphan"} /\ Durable
       \/ UNCHANGED <<checkpoint, target>>
    /\ UNCHANGED wal

-----------------------------------------------------------------------------
Startup   == ReadCheckpoint \/ StartReplication \/ SlotBusy
Messages  == HandleBegin \/ HandleRow \/ HandleCommit \/ Wake \/ KeepAlive
Flush     == ExecuteFlush \/ HaltOnPoison \/ SendCommit \/ ServerCommit \/ Ack
Stopping  == RequestStop \/ LeaveLoop
Walsender == ConfirmFlush \/ ReleaseSlot
Faults    == Crash \/ OrphanCommits \/ OrphanAborts \/ ServerRestart

Next ==
    \/ \E ops \in Transactions : SourceCommit(ops)
    \/ Startup
    \/ Messages
    \/ Flush
    \/ Stopping
    \/ Walsender
    \/ Faults

Spec == Init /\ [][Next]_vars

-----------------------------------------------------------------------------
(* Fairness.  The supervisor restarts the process, the loop and the server *)
(* keep running, a message or a wake is always handled, and an undecided   *)
(* commit is decided.  Nothing is assumed of the source, of faults or of   *)
(* the deadline, and KeepAlive is not relied on.                           *)
Fairness ==
    /\ WF_vars(Startup)
    /\ WF_vars(HandleBegin \/ HandleRow \/ HandleCommit)
    /\ WF_vars(Wake)
    /\ WF_vars(Flush)
    /\ WF_vars(LeaveLoop)
    /\ WF_vars(ConfirmFlush)
    /\ WF_vars(ReleaseSlot)
    /\ WF_vars(OrphanCommits \/ OrphanAborts)

FairSpec == Spec /\ Fairness

-----------------------------------------------------------------------------
(* Every variable holds a value of its kind.                               *)
TypeOK ==
    /\ wal \in Seq(Txn)
    /\ confirmed \in Nat
    /\ slotActive \in BOOLEAN
    /\ feedback \in Nat
    /\ cursor \in [txn : Nat \ {0}, part : Nat]
    /\ pc \in DaemonStates
    /\ stop \in BOOLEAN
    /\ checkpointLsn \in Nat
    /\ flushLsn \in Nat
    /\ openOps \in Seq(Op)
    /\ pending \in Seq(Txn)
    /\ tx \in [state : TxStates, batch : Seq(Txn)]
    /\ checkpoint \in Nat
    /\ target \in Seq(Txn)
    /\ faults \in Nat

(* Exactly-once: the target tables show the transactions up to the         *)
(* checkpoint, each of them once, whole and in commit order, and nothing   *)
(* else, whatever was redelivered, dropped or killed (_loop's skip rule    *)
(* with _flush's single transaction).                                      *)
ExactlyOnce ==
    /\ checkpoint <= Len(wal)
    /\ target = SubSeq(wal, 1, checkpoint)

(* The slot is never confirmed beyond the checkpoint row, nor is a daemon  *)
(* about to confirm it: a transaction the target lacks can still be        *)
(* replayed (ack after commit in _flush, keepalive in ReplicationStream).  *)
SlotBehindCheckpoint ==
    /\ confirmed <= checkpoint
    /\ feedback <= checkpoint
    /\ flushLsn <= checkpoint

(* At-least-once, which needs no assumption on undecided commits: what is  *)
(* at or before the checkpoint has been applied, and what is after it is   *)
(* still the slot's to replay.                                             *)
NothingLost ==
    \A n \in 1 .. Len(wal) :
        (n <= checkpoint \/ n <= confirmed) => \E i \in 1 .. Len(target) : target[i] = wal[n]

(* A transaction that cannot be folded stops the views before it for good: *)
(* it is neither skipped nor half applied, and no flush passes it          *)
(* (_as_decimal, DeltaBatch._apply).                                       *)
PoisonNeverPassed ==
    \A n \in 1 .. Len(wal) :
        (\E k \in 1 .. Len(wal[n].ops) : wal[n].ops[k] \in Poison)
            => checkpoint < n /\ confirmed < n

(* What every process relies on, decided or undecided commits alike: the   *)
(* buffers hold the transactions the slot sent, whole and unaltered; what  *)
(* has been read of the session is applied or pending; and a batch on its  *)
(* way to the database ends after everything the slot was told.            *)
Applied(n) == \E i \in 1 .. Len(target) : target[i] = wal[n]
In(batch, n) == \E i \in 1 .. Len(batch) : batch[i] = wal[n]

SourceInOrder ==
    \A n \in 1 .. Len(wal) : wal[n].end_lsn = n /\ wal[n].ops \in Transactions

FromSource(batch) ==
    \A i \in 1 .. Len(batch) :
        /\ batch[i].end_lsn \in 1 .. Len(wal)
        /\ batch[i] = wal[batch[i].end_lsn]

MemoryOfProcess ==
    /\ ~Attached => flushLsn = 0 /\ openOps = <<>> /\ pending = <<>> /\ ~stop
    /\ ~slotActive => feedback = 0
    /\ Attached => slotActive /\ feedback = flushLsn
    /\ pc \in {"flush", "commit", "ack"} => pending # <<>>

SessionPosition ==
    Attached =>
        /\ cursor.txn <= Len(wal) + 1
        /\ cursor.part > 0 =>
              /\ cursor.txn <= Len(wal)
              /\ cursor.part <= Len(wal[cursor.txn].ops) + 1
              /\ openOps = SubSeq(wal[cursor.txn].ops, 1, cursor.part - 1)
        /\ confirmed < cursor.txn /\ feedback < cursor.txn
        /\ FromSource(pending)
        /\ \A i \in 1 .. Len(pending) :
              /\ pending[i].end_lsn > confirmed
              /\ pending[i].end_lsn > feedback
              /\ pending[i].end_lsn < cursor.txn
              /\ pending[i].end_lsn <= EndOf(pending)
        /\ \A n \in 1 .. cursor.txn - 1 : Applied(n) \/ In(pending, n)

FlushTransaction ==
    /\ pc = "commit" <=> tx.state \in {"open", "sent"}
    /\ pc = "commit" => tx.batch = pending
    /\ pc = "ack" => tx = NoTx /\ checkpoint = EndOf(pending)
    /\ tx.state = "none" => tx = NoTx
    /\ tx.state # "none" =>
          /\ tx.batch # <<>>
          /\ FromSource(tx.batch)
          /\ confirmed <= EndOf(tx.batch) /\ feedback <= EndOf(tx.batch)
          /\ \A n \in 1 .. EndOf(tx.batch) : Applied(n) \/ In(tx.batch, n)

Positions ==
    /\ confirmed <= checkpoint /\ feedback <= checkpoint
    /\ checkpoint <= Len(wal) /\ checkpointLsn <= Len(wal)
    /\ \A n \in 1 .. checkpoint : Applied(n)
    /\ \A n \in 1 .. checkpointLsn : Applied(n)

MemoryMatchesSlot ==
    /\ SourceInOrder
    /\ MemoryOfProcess
    /\ SessionPosition
    /\ FlushTransaction
    /\ Positions

(* What holds beside it once commits settle before a restart: the          *)
(* checkpoint in memory is the row's, the sealed transactions are the next *)
(* ones after it without a gap, and so is a batch on its way.              *)
NextAfter(n, batch) ==
    \A i \in 1 .. Len(batch) : n + i <= Len(wal) /\ batch[i] = wal[n + i]

MemoryMatchesCheckpoint ==
    /\ Len(target) = checkpoint
    /\ \A n \in 1 .. checkpoint : target[n] = wal[n]
    /\ tx.state = "orphan" => pc = "down"
    /\ tx.state # "none" => NextAfter(checkpoint, tx.batch)
    /\ pc \notin {"down", "ack"} => checkpointLsn = checkpoint
    /\ pc = "ack" => checkpoint = checkpointLsn + Len(pending)
    /\ Attached =>
          /\ NextAfter(checkpointLsn, pending)
          /\ cursor.txn <= checkpointLsn + Len(pending) + 1
          /\ pending # <<>> => cursor.txn = checkpointLsn + Len(pending) + 1

(* The checkpoint row never goes back, so neither do the views.            *)
CheckpointMonotone == [][checkpoint' >= checkpoint]_vars

(* A graceful stop leaves no complete transaction it has read unapplied:   *)
(* only the open buffer is dropped (the last flush of _loop).              *)
CleanStopFlushes ==
    [][pc = "loop" /\ stop /\ pc' = "down" /\ faults' = faults
          => cursor.txn - 1 <= checkpoint]_vars

(* The views show a growing prefix of the source's history.                *)
Abstract == INSTANCE ConsistentPrefix
              WITH history <- wal, view <- target

Implements == Abstract!Spec

(* Every committed transaction is eventually applied, even if nothing      *)
(* follows it on the stream (the None of messages()).                      *)
EventuallyApplied ==
    \A n \in 1 .. MaxCommits :
        (Len(wal) >= n) ~> (Len(wal) >= n /\ \E i \in 1 .. Len(target) : target[i] = wal[n])

(* A flush that is not interrupted before its acknowledgement is taken in  *)
(* by the slot releases the WAL it covers.                                 *)
AckReachesSlot ==
    \A n \in 1 .. MaxCommits :
        (pc = "ack" /\ EndOf(pending) = n) ~> (confirmed >= n \/ ~Attached)

(* A requested stop ends the process.                                      *)
StopEnds == stop ~> ~stop
=============================================================================
