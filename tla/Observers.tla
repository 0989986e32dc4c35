------------------------------ MODULE Observers ------------------------------
(***************************************************************************)
(* Who looks at the views and at the positions from outside: the check of  *)
(* the demo (demo/verify.py), run after its write generator                *)
(* (demo/generate.py) has stopped, and walflux status (status of           *)
(* daemon.py).  The pipeline between the source and the views is           *)
(* ConsistentPrefix, which Pipeline implements, with its two positions:    *)
(* the checkpoint, which is the end of a transaction, and what the slot    *)
(* has confirmed, which may be past it where nothing was published.        *)
(*                                                                         *)
(* An LSN counts everything that is written to the WAL; what is not        *)
(* published, background records and other databases, moves it too.  Two   *)
(* views are taken for different when different transactions are in them.  *)
(***************************************************************************)
EXTENDS Integers, Sequences

CONSTANTS
    None,              \* no checkpoint row, no report
    MaxOrders,         \* bound: transactions of the generator
    MaxBackground,     \* bound: unpublished WAL records
    MaxRuns            \* bound: runs of verify.py

ASSUME ObserversAssumption ==
    /\ None \notin Int
    /\ MaxOrders \in Nat /\ MaxBackground \in Nat /\ MaxRuns \in Nat

VARIABLES
    history,           \* published transactions, in commit order
    view,              \* those the target tables show
    lsn,               \* pg_current_wal_lsn()
    checkpoint,        \* the checkpoint row, or None before setup
    confirmed,         \* confirmed_flush_lsn of the slot
    generator,         \* what generate.py does: "loop", or "open" in a transaction
    stop,              \* its _stop
    orders,            \* transactions it has committed
    verify,            \* what verify.py does; "idle" between two runs
    run,               \* runs so far
    target,            \* target of wait_for_catchup
    missing,           \* what the comparison found in one of source and views only
    verdict,           \* what the last run printed
    status             \* what walflux status has read so far, or None

sourceVars    == <<history, lsn>>
pipelineVars  == <<view, checkpoint, confirmed>>
generatorVars == <<generator, stop, orders>>
verifyVars    == <<verify, run, target, missing, verdict>>
vars == <<sourceVars, pipelineVars, generatorVars, verifyVars, status>>

Pipeline == INSTANCE ConsistentPrefix

-----------------------------------------------------------------------------
Lsn == 0 .. MaxOrders + MaxBackground + 2 * MaxRuns

(* Nor is nothing a report.                                                *)
ASSUME NoneAssumption ==
    None \notin [confirmed : Lsn, checkpoint : Lsn \cup {None}]

(* A published transaction: an order, or the marker row of a run, inserted *)
(* or deleted again.                                                       *)
Kinds == {"order", "insert", "delete"}

Transaction == [kind : Kinds, run : 0 .. MaxRuns, end : Lsn]

(* The rows a list of transactions leaves behind; a deleted marker is gone. *)
Deleted(txns) == {txns[i].run : i \in {k \in 1 .. Len(txns) : txns[k].kind = "delete"}}

Rows(txns) ==
    {txns[i] : i \in {k \in 1 .. Len(txns) :
        \/ txns[k].kind = "order"
        \/ txns[k].kind = "insert" /\ txns[k].run \notin Deleted(txns)}}

Target == lsn

(* The LSN is captured first, then the marker is written and removed.      *)
(* (mutant) The wait leaves it to the WAL to move on by itself.            *)
AfterCaptureWaits == "wait"
AfterCapture == "insert"

(* The wait ends when there is a checkpoint at or past the target.         *)
(* (mutant) When there is one.                                             *)
CaughtUpEarly == checkpoint # None
CaughtUp == checkpoint # None /\ checkpoint >= target

(* The generator looks at _stop between two transactions and exits.        *)
Exited == stop /\ generator = "loop"

(* status reads the slot first and the checkpoint last.  (mutant) The      *)
(* other way round.                                                        *)
ReadsFirstCheckpoint == [confirmed |-> None, checkpoint |-> checkpoint]
ReadsFirst == [confirmed |-> confirmed, checkpoint |-> None]

-----------------------------------------------------------------------------
Init ==
    /\ Pipeline!Init
    /\ lsn = 0
    /\ checkpoint = None
    /\ confirmed = 0
    /\ generator = "loop"
    /\ stop = FALSE
    /\ orders = 0
    /\ verify = "idle"
    /\ run = 0
    /\ target = 0
    /\ missing = {}
    /\ verdict = "none"
    /\ status = None

(* A transaction commits and is published.                                 *)
Publish(kind, r) ==
    /\ lsn' = lsn + 1
    /\ history' = Append(history, [kind |-> kind, run |-> r, end |-> lsn'])
    /\ Pipeline!Commit

Background ==
    /\ lsn - Len(history) < MaxBackground
    /\ lsn' = lsn + 1
    /\ UNCHANGED <<history, pipelineVars, generatorVars, verifyVars, status>>

-----------------------------------------------------------------------------
(* setup: the views of a snapshot, and the slot's consistent point.        *)
Setup ==
    /\ checkpoint = None
    /\ view' = history
    /\ checkpoint' = lsn
    /\ confirmed' = lsn
    /\ UNCHANGED <<sourceVars, generatorVars, verifyVars, status>>

(* A flush: any number of transactions, their last end LSN the checkpoint. *)
Flush ==
    /\ checkpoint # None
    /\ \E n \in Len(view) + 1 .. Len(history) :
          /\ Pipeline!CatchUp(n)
          /\ checkpoint' = history[n].end
    /\ UNCHANGED <<lsn, confirmed, generatorVars, verifyVars, status>>

(* Feedback after a flush; psycopg2 reports no less than it did before.    *)
Ack ==
    /\ checkpoint # None /\ confirmed < checkpoint
    /\ confirmed' = checkpoint
    /\ UNCHANGED <<sourceVars, view, checkpoint, generatorVars, verifyVars, status>>

(* Feedback in between.  psycopg2 takes the position of a keepalive of the *)
(* server for flushed, if the last message it was sent is, and reports     *)
(* that in place of _flush_lsn: the slot moves on without the checkpoint,  *)
(* as far as the server has come without anything published.               *)
KeepAlive ==
    /\ checkpoint # None
    /\ \E sent \in confirmed + 1 .. lsn :
          /\ \A i \in 1 .. Len(history) : history[i].end > confirmed => history[i].end > sent
          /\ confirmed' = sent
    /\ UNCHANGED <<sourceVars, view, checkpoint, generatorVars, verifyVars, status>>

-----------------------------------------------------------------------------
(* The generator: one transaction per round, until it is asked to stop.    *)
Execute ==
    /\ generator = "loop"
    /\ ~stop
    /\ orders < MaxOrders
    /\ generator' = "open"
    /\ UNCHANGED <<sourceVars, pipelineVars, stop, orders, verifyVars, status>>

CommitOrder ==
    /\ generator = "open"
    /\ generator' = "loop"
    /\ Publish("order", 0)
    /\ orders' = orders + 1
    /\ UNCHANGED <<checkpoint, confirmed, stop, verifyVars, status>>

RequestStop ==
    /\ ~stop
    /\ stop' = TRUE
    /\ UNCHANGED <<sourceVars, pipelineVars, generator, orders, verifyVars, status>>

-----------------------------------------------------------------------------
(* verify.py is run once the generator has exited.                         *)
Begin ==
    /\ verify = "idle"
    /\ Exited
    /\ run < MaxRuns
    /\ run' = run + 1
    /\ target' = Target
    /\ verify' = AfterCapture
    /\ missing' = {}
    /\ verdict' = "none"
    /\ UNCHANGED <<sourceVars, pipelineVars, generatorVars, status>>

(* The marker's two autocommit transactions.                               *)
WriteMarker ==
    /\ \/ verify = "insert" /\ Publish("insert", run) /\ verify' = "delete"
       \/ verify = "delete" /\ Publish("delete", run) /\ verify' = "wait"
    /\ UNCHANGED <<checkpoint, confirmed, generatorVars>>
    /\ UNCHANGED <<run, target, missing, verdict, status>>

Wait ==
    /\ verify = "wait"
    /\ \/ CaughtUp /\ verify' = "compare" /\ UNCHANGED verdict
       \/ verify' = "idle" /\ verdict' = "TIMEOUT"
    /\ UNCHANGED <<sourceVars, pipelineVars, generatorVars, run, target, missing, status>>

(* All queries in one REPEATABLE READ snapshot.                            *)
Compare ==
    /\ verify = "compare"
    /\ missing' = (Rows(history) \ Rows(view)) \cup (Rows(view) \ Rows(history))
    /\ verdict' = IF missing' = {} THEN "PASS" ELSE "FAIL"
    /\ verify' = "idle"
    /\ UNCHANGED <<sourceVars, pipelineVars, generatorVars, run, target, status>>

VerifyDies ==
    /\ verify # "idle"
    /\ verify' = "idle"
    /\ UNCHANGED <<sourceVars, pipelineVars, generatorVars, run, target, missing, verdict, status>>

-----------------------------------------------------------------------------
(* status: the slot's row, then (the WAL position and) the checkpoint, one *)
(* autocommit statement each; it may be asked again.                       *)
StatusReads ==
    /\ checkpoint # None
    /\ status = None
    /\ status' = ReadsFirst
    /\ UNCHANGED <<sourceVars, pipelineVars, generatorVars, verifyVars>>

StatusReadsOn ==
    /\ status # None
    /\ \/ /\ status.confirmed = None
          /\ status' = [status EXCEPT !.confirmed = confirmed]
       \/ /\ status.checkpoint = None
          /\ status' = [status EXCEPT !.checkpoint = checkpoint]
       \/ /\ status.confirmed # None /\ status.checkpoint # None
          /\ status' = None
    /\ UNCHANGED <<sourceVars, pipelineVars, generatorVars, verifyVars>>

-----------------------------------------------------------------------------
Next ==
    \/ Background \/ Setup \/ Flush \/ Ack \/ KeepAlive
    \/ Execute \/ CommitOrder \/ RequestStop
    \/ Begin \/ WriteMarker \/ Wait \/ Compare \/ VerifyDies
    \/ StatusReads \/ StatusReadsOn

(* What is published is applied in the end: Pipeline!EventuallyApplied.    *)
Spec == Init /\ [][Next]_vars /\ WF_vars(Flush)

-----------------------------------------------------------------------------
(* The states are of the declared types, the views end at the checkpoint,  *)
(* and a run that waits has written and removed its marker.                *)
TypeOK ==
    /\ lsn \in Lsn /\ orders \in 0 .. MaxOrders
    /\ history \in Seq(Transaction) /\ Len(history) <= lsn
    /\ view \in Seq(Transaction) /\ view = SubSeq(history, 1, Len(view))
    /\ checkpoint \in 0 .. lsn \cup {None}
    /\ checkpoint # None =>
          \A i \in 1 .. Len(history) : history[i].end <= checkpoint <=> i <= Len(view)
    /\ confirmed \in 0 .. lsn
    /\ generator \in {"loop", "open"} /\ stop \in BOOLEAN
    /\ verify \in {"idle", "insert", "delete", "wait", "compare"} /\ run \in 0 .. MaxRuns
    /\ verify \in {"wait", "compare"} => run \in Deleted(history)
    /\ target \in 0 .. lsn
    /\ missing \subseteq Transaction
    /\ verdict \in {"none", "PASS", "FAIL", "TIMEOUT"}

(* A pipeline that keeps its promise is never blamed for a transaction of  *)
(* the generator.  All that can differ is the run's own marker, when the   *)
(* snapshot falls between the flush of its insert and that of its delete   *)
(* (verify.py:103-112).                                                    *)
OnlyTheMarkerDiffers ==
    \A txn \in missing : txn.kind = "insert" /\ txn.run = run

(* However little else happens on the server, the wait of a run can end by *)
(* itself: the marker takes the checkpoint past the target                 *)
(* (verify.py:98-101).                                                     *)
MarkerCatchesUp ==
    \A r \in 1 .. MaxRuns :
        (verify = "wait" /\ run = r /\ checkpoint # None)
            ~> (CaughtUp \/ run # r)

(* A report accounts for all the slot has let go: a transaction that is    *)
(* behind the slot's position is behind the checkpoint too, although the   *)
(* two are read at different moments of a running daemon, and either may   *)
(* be the greater.  Otherwise a report would show changes as lost          *)
(* (daemon.py:328-342).                                                    *)
StatusAccountsForSlot ==
    (status # None /\ status.confirmed # None /\ status.checkpoint # None) =>
        \A i \in 1 .. Len(history) :
            history[i].end <= status.confirmed => history[i].end <= status.checkpoint
=============================================================================
