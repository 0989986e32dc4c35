----------------------------- MODULE Lifecycle ------------------------------
(***************************************************************************)
(* The life of a slot and of the views that hang on it: walflux setup,     *)
(* setup --force and teardown (bootstrap.py), run by an operator beside a  *)
(* source that keeps committing and a daemon that a supervisor restarts.   *)
(*                                                                         *)
(* A command is a sequence of autocommit statements, any of which may be   *)
(* its last, and setup ends with one transaction inside the slot's         *)
(* snapshot.  The daemon is module Pipeline's, a transaction at a time,    *)
(* with commits decided at once and walsenders that end with it.  Position *)
(* n is the end of the n-th commit; target counts how often each commit is *)
(* in the views.                                                           *)
(***************************************************************************)
EXTENDS Naturals

CONSTANTS
    None,              \* no slot, no checkpoint row, no target tables
    Disciplines,       \* sets of commands, for which an operator stops the daemon
    MaxCommits,        \* bound: transactions the source commits
    MaxCommands,       \* bound: commands the operator runs
    MaxFaults          \* bound: daemons and commands that die

ASSUME LifecycleAssumption ==
    /\ Disciplines \subseteq SUBSET {"setup", "teardown"}
    /\ MaxCommits \in Nat /\ MaxCommands \in Nat /\ MaxFaults \in Nat

VARIABLES
    stoppedFor,        \* the discipline of this operator
    wal,               \* commits of the source so far
    publication,       \* the publication exists
    schema,            \* schema walflux with its checkpoint table exists
    slot,              \* the replication slot, or None
    checkpoint,        \* commit_lsn of the slot's checkpoint row, or None
    target,            \* the target tables, or None
    lock,              \* who holds the target tables: setup, a flush, or free
    command,           \* what the running command does next; idle between them
    force,             \* --force of the running setup
    point,             \* consistent_point of the slot it created
    conflict,          \* the checkpoint row changed after that slot's snapshot
    daemon,            \* what the daemon does next; "off" between processes
    checkpointLsn,     \* Daemon._checkpoint_lsn
    next,              \* next commit of the daemon's session
    commands,          \* commands so far
    faults             \* faults so far

catalogVars == <<wal, publication, slot>>
schemaVars  == <<schema, checkpoint, target, lock>>
commandVars == <<command, force, point, conflict>>
daemonVars  == <<daemon, checkpointLsn, next>>
boundVars   == <<stoppedFor, commands, faults>>
vars == <<catalogVars, schemaVars, commandVars, daemonVars, boundVars>>

-----------------------------------------------------------------------------
Position == 0 .. MaxCommits

(* The slot: held by a walsender, where it was created, what it has        *)
(* confirmed, and (of no use to the code) whether the setup that created   *)
(* it went through.                                                        *)
Slot == [active : BOOLEAN, start : Position, confirmed : Position, complete : BOOLEAN]

(* Nothing is none of these.                                               *)
ASSUME NoneAssumption ==
    None \notin Nat /\ None \notin Slot /\ None \notin [1 .. MaxCommits -> Nat]

SetupSteps == {"publish", "prepare", "clear", "create", "backfill", "finish"}

TeardownSteps == {"terminate", "dropSlot", "dropPublication", "dropSchema"}

DaemonStates == {"off", "connect", "stream", "flush", "commit", "ack"}

UpTo(n) == [k \in 1 .. MaxCommits |-> IF k <= n THEN 1 ELSE 0]

Streaming == daemon \in {"stream", "flush", "commit", "ack"}

(* An operator who stops the daemon for a command stops its supervisor     *)
(* first, and starts it when the command is done.                          *)
SetupsAlone == "setup" \in stoppedFor

TeardownsAlone == "teardown" \in stoppedFor

MayBegin(c) == c \in stoppedFor => daemon = "off"

DaemonMayStart ==
    /\ SetupsAlone => command \notin SetupSteps
    /\ TeardownsAlone => command \notin TeardownSteps

-----------------------------------------------------------------------------
(* setup deletes the old checkpoint row before it creates the slot.        *)
(* (mutant) It leaves the row for the backfill to overwrite.               *)
AfterPrepareCreates == "create"
AfterPrepare == "clear"

(* The backfill reads the snapshot exported with the slot.                 *)
(* (mutant) It reads the tables as they are.                               *)
BackfillsNow == UpTo(wal)
Backfilled == UpTo(point)

(* setup records the slot's consistent point.                              *)
Recorded == point

(* A walsender is terminated and its slot dropped before anything else.    *)
(* (mutant) Teardown starts with the schema.                               *)
TeardownStartsWithSchema == "dropSchema"
TeardownStart == "terminate"

InUse == slot # None /\ slot.active

(* The slot when its walsender is gone.                                    *)
Released == IF slot = None THEN None ELSE [slot EXCEPT !.active = FALSE]

(* The backfill runs REPEATABLE READ, which refuses to update a row that   *)
(* changed after the snapshot.  (mutant) READ COMMITTED overwrites it.     *)
RefusedNever == FALSE
Refused == conflict

MayTakeSlot == slot = None \/ (force /\ ~InUse)

(* run refuses to start without a checkpoint row, as without its table.    *)
(* (mutant) The table is enough.                                           *)
HasCheckpointTable == schema
HasCheckpoint == schema /\ checkpoint # None

-----------------------------------------------------------------------------
Init ==
    /\ stoppedFor \in Disciplines
    /\ wal = 0
    /\ publication = FALSE
    /\ schema = FALSE
    /\ slot = None
    /\ checkpoint = None
    /\ target = None
    /\ lock = "free"
    /\ command = "idle"
    /\ force = FALSE
    /\ point = 0
    /\ conflict = FALSE
    /\ daemon = "off"
    /\ checkpointLsn = 0
    /\ next = 1
    /\ commands = 0
    /\ faults = 0

SourceCommit ==
    /\ wal < MaxCommits
    /\ wal' = wal + 1
    /\ UNCHANGED <<publication, slot, schemaVars, commandVars, daemonVars, boundVars>>

-----------------------------------------------------------------------------
(* setup: the sources, then the schema with the checkpoint table.          *)
BeginSetup ==
    /\ command = "idle"
    /\ MayBegin("setup")
    /\ commands < MaxCommands
    /\ commands' = commands + 1
    /\ command' = "publish"
    /\ force' \in BOOLEAN
    /\ schema' = TRUE
    /\ UNCHANGED <<catalogVars, checkpoint, target, lock, point, conflict, daemonVars, stoppedFor, faults>>

(* _ensure_publication, before anything is known of the slot.              *)
EnsurePublication ==
    /\ command = "publish"
    /\ publication' = TRUE
    /\ command' = "prepare"
    /\ UNCHANGED <<wal, slot, schemaVars, force, point, conflict, daemonVars, boundVars>>

(* _prepare_slot: no slot is fine, one that is not in use is dropped if    *)
(* --force says so.                                                        *)
PrepareSlot ==
    /\ command = "prepare"
    /\ MayTakeSlot
    /\ slot' = None
    /\ command' = AfterPrepare
    /\ UNCHANGED <<wal, publication, schemaVars, force, point, conflict, daemonVars, boundVars>>

(* The row is locked while a flush has written it and not committed.       *)
ClearCheckpoint ==
    /\ command = "clear"
    /\ lock # "flush"
    /\ checkpoint' = None
    /\ command' = "create"
    /\ UNCHANGED <<catalogVars, schema, target, lock, force, point, conflict, daemonVars, boundVars>>

CreateSlot ==
    /\ command = "create"
    /\ slot' = [active |-> FALSE, start |-> wal, confirmed |-> wal, complete |-> FALSE]
    /\ point' = wal
    /\ conflict' = FALSE
    /\ command' = "backfill"
    /\ UNCHANGED <<wal, publication, schemaVars, force, daemonVars, boundVars>>

(* In the snapshot's transaction, DROP TABLE waits for whoever uses the    *)
(* targets and keeps everyone out until the end.                           *)
Backfill ==
    /\ command = "backfill"
    /\ lock = "free"
    /\ lock' = "setup"
    /\ command' = "finish"
    /\ UNCHANGED <<catalogVars, schema, checkpoint, target, force, point, conflict>>
    /\ UNCHANGED <<daemonVars, boundVars>>

(* write_checkpoint and COMMIT.                                            *)
FinishSetup ==
    /\ command = "finish"
    /\ ~Refused
    /\ target' = Backfilled
    /\ checkpoint' = Recorded
    /\ slot' = [slot EXCEPT !.complete = TRUE]
    /\ lock' = "free"
    /\ command' = "idle"
    /\ UNCHANGED <<wal, publication, schema, force, point, conflict, daemonVars, boundVars>>

-----------------------------------------------------------------------------
BeginTeardown ==
    /\ command = "idle"
    /\ MayBegin("teardown")
    /\ commands < MaxCommands
    /\ commands' = commands + 1
    /\ command' = TeardownStart
    /\ UNCHANGED <<catalogVars, schemaVars, force, point, conflict, daemonVars, stoppedFor, faults>>

(* pg_terminate_backend on the walsender that holds the slot, if any.      *)
TerminateWalsender ==
    /\ command = "terminate"
    /\ slot' = Released
    /\ command' = "dropSlot"
    /\ UNCHANGED <<wal, publication, schemaVars, force, point, conflict, daemonVars, boundVars>>

DropSlot ==
    /\ command = "dropSlot"
    /\ ~InUse
    /\ slot' = None
    /\ command' = "dropPublication"
    /\ UNCHANGED <<wal, publication, schemaVars, force, point, conflict, daemonVars, boundVars>>

DropPublication ==
    /\ command = "dropPublication"
    /\ publication' = FALSE
    /\ command' = "dropSchema"
    /\ UNCHANGED <<wal, slot, schemaVars, force, point, conflict, daemonVars, boundVars>>

DropSchema ==
    /\ command = "dropSchema"
    /\ lock = "free"
    /\ schema' = FALSE
    /\ checkpoint' = None
    /\ target' = None
    /\ command' = "idle"
    /\ UNCHANGED <<catalogVars, lock, force, point, conflict, daemonVars, boundVars>>

(* A command ends early: setup finds the slot there (or in use, with       *)
(* --force), ten attempts to drop the slot fail against a daemon that came *)
(* back, the checkpoint upsert is refused, or the command dies somewhere.  *)
CommandFails ==
    /\ \/ /\ \/ command = "prepare" /\ ~MayTakeSlot
             \/ command = "dropSlot" /\ InUse
             \/ command = "finish" /\ Refused
          /\ UNCHANGED faults
       \/ /\ command # "idle" /\ faults < MaxFaults
          /\ faults' = faults + 1
    /\ command' = "idle"
    /\ lock' = IF lock = "setup" THEN "free" ELSE lock
    /\ UNCHANGED <<catalogVars, schema, checkpoint, target, force, point, conflict>>
    /\ UNCHANGED <<daemonVars, stoppedFor, commands>>

-----------------------------------------------------------------------------
(* The daemon.  Without a checkpoint row it refuses to start.              *)
ReadCheckpoint ==
    /\ daemon = "off"
    /\ DaemonMayStart
    /\ HasCheckpoint
    /\ checkpointLsn' = checkpoint
    /\ daemon' = "connect"
    /\ UNCHANGED <<catalogVars, schemaVars, commandVars, next, boundVars>>

StartReplication ==
    /\ daemon = "connect"
    /\ slot # None /\ ~InUse
    /\ slot' = [slot EXCEPT !.active = TRUE]
    /\ next' = slot.confirmed + 1
    /\ daemon' = "stream"
    /\ UNCHANGED <<wal, publication, schemaVars, commandVars, checkpointLsn, boundVars>>

(* The skip rule, one transaction at a time.                               *)
Receive ==
    /\ daemon = "stream"
    /\ InUse /\ publication
    /\ next <= wal
    /\ \/ next > checkpointLsn /\ daemon' = "flush" /\ UNCHANGED next
       \/ next <= checkpointLsn /\ next' = next + 1 /\ UNCHANGED daemon
    /\ UNCHANGED <<catalogVars, schemaVars, commandVars, checkpointLsn, boundVars>>

ExecuteFlush ==
    /\ daemon = "flush"
    /\ lock = "free"
    /\ schema /\ target # None
    /\ lock' = "flush"
    /\ daemon' = "commit"
    /\ UNCHANGED <<catalogVars, schema, checkpoint, target, commandVars>>
    /\ UNCHANGED <<checkpointLsn, next, boundVars>>

CommitFlush ==
    /\ daemon = "commit"
    /\ target' = [target EXCEPT ![next] = @ + 1]
    /\ checkpoint' = next
    /\ conflict' = TRUE
    /\ lock' = "free"
    /\ daemon' = "ack"
    /\ UNCHANGED <<catalogVars, schema, command, force, point>>
    /\ UNCHANGED <<checkpointLsn, next, boundVars>>

Ack ==
    /\ daemon = "ack"
    /\ InUse
    /\ slot' = [slot EXCEPT !.confirmed = next]
    /\ checkpointLsn' = next
    /\ next' = next + 1
    /\ daemon' = "stream"
    /\ UNCHANGED <<wal, publication, schemaVars, commandVars, boundVars>>

(* The daemon ends: a missing slot, a terminated session, a dropped        *)
(* publication and missing tables are errors, and it may be killed.        *)
DaemonFails ==
    /\ \/ /\ \/ daemon = "connect" /\ slot = None
             \/ daemon \in {"stream", "ack"} /\ ~InUse
             \/ daemon = "stream" /\ ~publication /\ next <= wal
             \/ daemon = "flush" /\ lock = "free" /\ (~schema \/ target = None)
          /\ UNCHANGED faults
       \/ /\ daemon # "off" /\ faults < MaxFaults
          /\ faults' = faults + 1
    /\ daemon' = "off"
    /\ lock' = IF lock = "flush" THEN "free" ELSE lock
    /\ slot' = IF Streaming THEN Released ELSE slot
    /\ UNCHANGED <<wal, publication, schema, checkpoint, target, commandVars>>
    /\ UNCHANGED <<checkpointLsn, next, stoppedFor, commands>>

-----------------------------------------------------------------------------
Setup ==
    \/ BeginSetup \/ EnsurePublication \/ PrepareSlot \/ ClearCheckpoint
    \/ CreateSlot \/ Backfill \/ FinishSetup

Teardown ==
    \/ BeginTeardown \/ TerminateWalsender \/ DropSlot
    \/ DropPublication \/ DropSchema

Daemon ==
    \/ ReadCheckpoint \/ StartReplication \/ Receive
    \/ ExecuteFlush \/ CommitFlush \/ Ack \/ DaemonFails

Next == SourceCommit \/ Setup \/ Teardown \/ CommandFails \/ Daemon

Spec == Init /\ [][Next]_vars

-----------------------------------------------------------------------------
(* The states are of the declared types, a lock on the targets is held     *)
(* exactly inside the transaction of a setup or of a flush, a slot never   *)
(* confirms less than where it was created, and a daemon that started has  *)
(* a position to skip by.                                                  *)
TypeOK ==
    /\ stoppedFor \in Disciplines
    /\ wal \in Position
    /\ publication \in BOOLEAN /\ schema \in BOOLEAN
    /\ slot \in Slot \cup {None}
    /\ slot # None => slot.start <= slot.confirmed /\ slot.confirmed <= wal
    /\ checkpoint \in Position \cup {None}
    /\ target \in [1 .. MaxCommits -> Nat] \cup {None}
    /\ command \in SetupSteps \cup TeardownSteps \cup {"idle"}
    /\ force \in BOOLEAN /\ point \in Position /\ conflict \in BOOLEAN
    /\ daemon \in DaemonStates
    /\ checkpointLsn \in Position
    /\ next \in 1 .. MaxCommits + 1
    /\ lock \in {"free", "setup", "flush"}
    /\ (lock = "setup") <=> (command = "finish")
    /\ (lock = "flush") <=> (daemon = "commit")
    /\ commands \in 0 .. MaxCommands /\ faults \in 0 .. MaxFaults

HoldTheCheckpoint ==
    checkpoint # None => target # None /\ target = UpTo(checkpoint)

StreamMeetsCheckpoint ==
    slot # None /\ checkpoint # None => slot.confirmed <= checkpoint

(* Wherever setups and teardowns were cut off and daemons killed, target   *)
(* tables that have a checkpoint row hold every transaction up to it, once *)
(* each, and nothing else (bootstrap.py:102-106), if the daemon is stopped *)
(* for setups.                                                             *)
CompleteViews == SetupsAlone => HoldTheCheckpoint

(* Until the setup that created a slot has committed, and for ever if it   *)
(* died, there is no checkpoint row and run refuses to start               *)
(* (bootstrap.py:63-69).                                                   *)
InterruptedSetupLeavesNoCheckpoint ==
    slot # None /\ ~slot.complete => checkpoint = None

(* That is so if the daemon is stopped for setups.                         *)
InterruptedSetupIsRefused == SetupsAlone => InterruptedSetupLeavesNoCheckpoint

(* It is enough to stop the daemon for one of the two commands: a daemon   *)
(* that was not stopped for a setup can make it fail, but a setup that     *)
(* went through is never spoiled.  The views of its slot are complete, and *)
(* the stream goes on where they end: no slot begins, or has moved, past   *)
(* the checkpoint, which would leave the transactions in between in        *)
(* neither the backfill nor the stream.                                    *)
CompletedSetupServes ==
    SetupsAlone \/ TeardownsAlone =>
        (slot # None /\ slot.complete =>
            checkpoint # None /\ HoldTheCheckpoint /\ StreamMeetsCheckpoint)

(* A slot, which retains WAL until it is dropped, is never left behind     *)
(* without the schema and the publication: whatever a failed teardown      *)
(* leaves, the slot went first and is gone, or nothing else is.            *)
NoForgottenSlot ==
    slot # None => schema /\ publication

-----------------------------------------------------------------------------
(* What users who read the target tables meanwhile are promised: a prefix  *)
(* of the history that never goes back, through crashes, restarts and      *)
(* setups that are repeated, until a teardown drops it.                    *)
Readers == INSTANCE ReadableViews WITH undisturbed <- SetupsAlone

(* (bootstrap.py:107-131, daemon.py:299-305)                               *)
Implements == Readers!Spec
=============================================================================
