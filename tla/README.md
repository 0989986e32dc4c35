# WalFlux in TLA+

WalFlux keeps `GROUP BY` aggregate views of PostgreSQL tables up to date from a
logical replication slot. This directory holds a TLA+ model of it: what the
program does between its statements, what may go wrong there, and which
properties hold anyway. `tlc` checks them on small instances, `tlapm` proves
the most important ones for every value of the constants.

    tlc -config pipeline_safety.cfg MCPipeline
    tlapm PipelineProofs.tla

References such as `daemon.py:177` are to `src/walflux/`.

## 1. The system

| part | state | operations | talks to |
|---|---|---|---|
| PostgreSQL source: WAL, slot, walsender | commits in order; `confirmed_flush_lsn`; the session's position | commit, stream, take in feedback, replay from the slot, restart | daemon (pgoutput messages, feedback) |
| Daemon (`daemon.py`) | `_checkpoint_lsn`, `open_ops`, `pending`, `_stop`, relation cache | `run`, `_loop`, `_flush`, `_request_stop`, `_on_relation`, `_row_ops` | stream, target database, supervisor (signals, restart) |
| Replication stream (`replication.py`) | `_flush_lsn`, `_last_feedback`, `_stopping` | `messages`, `ack`, `_keepalive_if_due`, `stop`, `close` | walsender |
| Checkpoint (`checkpoint.py`) | one row per slot in `walflux.checkpoint` | `read_checkpoint`, `write_checkpoint` inside the caller's transaction | daemon, setup |
| Delta batch (`aggregates.py`) | deltas per view and group, truncated views | `apply_insert/delete/update/truncate`, `statements`, `backfill_sql`, `target_ddl` | daemon, setup, target tables |
| Bootstrap (`bootstrap.py`) | publication, slot, schema, targets, checkpoint row | `setup [--force]`, `teardown` | source, targets, and, unwillingly, a running daemon |
| Decoder (`protocol.py`) | a cursor over one message | `decode_message` | daemon |
| Configuration (`config.py`) | none beyond a call | `load_config`: which views and names are accepted | everyone |
| `walflux status` (`daemon.py:323`), demo check (`src/demo/verify.py`) and generator (`src/demo/generate.py`) | positions read at different moments; the captured target, the marker row | `status`, `wait_for_catchup`, `verify_view` | slot, checkpoint, source and targets of a running daemon |
| Command line (`cli.py`), helpers (`common.py`) | none | argument parsing, formatting | |

What is hard about it, and what makes each part correct:

* **Pipeline.** The slot delivers at least once; the process can die between any
  two statements; the server may decide a `COMMIT` after the client is gone and
  may come back from a crash with the slot at an older position. Correct means:
  every transaction is in the views exactly once, in order, whole; the slot
  never runs ahead of what is durable; and everything committed gets there.
* **Delta batch.** Row events of many transactions are folded before they are
  applied. Correct means: the result is what `GROUP BY` would compute, also for
  NULLs, group moves, cancelled changes, emptied groups and truncates, and
  independent of where the batch is cut.
* **Bootstrap.** Commands are sequences of autocommit statements beside a source
  that keeps committing and a supervisor that keeps restarting the daemon.
  Correct means: no state in which the daemon starts and skips or repeats a
  transaction, and no forgotten slot.
* **Schema drift guard.** The relation cache lives in memory only. Correct means:
  a change of the source that the views cannot follow stops the daemon.
* **Timing.** A deadline that is tested only after messages and wakes, a keepalive
  only when a read finds nothing, a stop flag only at the head of a loop.
  Correct means: a bound on each of these delays.
* **Observers.** Reports and checks read a moving system statement by statement.
  Correct means: they blame no pipeline that keeps its promise, and end.
* **Decoder, sums, names.** Pure functions with edges: buffers that end anywhere,
  sums beyond the decimal context's precision, names beyond PostgreSQL's.

`PROJECT.json` lists every component and, under `hazards`, each of these risks
with its line and the properties that would show it going wrong.

## 2. The modules

    ConsistentPrefix  <-implements-  Pipeline      MCPipeline     PipelineProofs
                      <-part of----  Observers     MCObservers    ObserversProofs
    RecomputedViews   <-implements-  DeltaBatch    MCDeltaBatch   DeltaBatchProofs
                                     (EXTENDS Aggregates)
    ReadableViews     <-implements-  Lifecycle     MCLifecycle    LifecycleProofs
                                     SchemaDrift   MCSchemaDrift  SchemaDriftProofs
                                     BatchTimer    MCBatchTimer   BatchTimerProofs
                                     Decoder,      MCFunctions    DecoderProofs
                                     DecimalSum,                  FunctionsProofs
                                     ViewColumns

Several modules define operators in pairs, such as `IsNewInclusive` and `IsNew`:
the second is what the code does and is used by the actions; the first, marked
`(mutant)`, is used nowhere. It is what a plausible bug would put there, and each
property is known to fail when one of them takes the place of the definition
after it.

### Pipeline

The streaming path of one slot. Positions are compared and never computed with
in the code, so the end LSN of the n-th published commit is n, and 0 is the
consistent point of setup. The target tables are the sequence of transactions
applied to them.

| variable | in the code |
|---|---|
| `wal` | the published commits |
| `confirmed`, `slotActive` | `confirmed_flush_lsn` and `active` of the slot |
| `feedback`, `cursor` | the walsender's session: last position it was sent, next message |
| `pc` | where `run` is: `down`, `connect` (checkpoint read, 103), `loop`, `flush` (286), `commit` (299-305), `ack` (311) |
| `stop`, `checkpointLsn`, `flushLsn`, `openOps`, `pending` | `_stop`/`_stopping`, `_checkpoint_lsn`, `_flush_lsn`, `open_ops`, `pending` |
| `tx` | the flush transaction in the database: none, open, `COMMIT` sent, or sent by a process now dead |
| `checkpoint`, `target` | the checkpoint row and the views |

| action | in the code |
|---|---|
| `ReadCheckpoint`, `StartReplication`, `SlotBusy` | `run` 96-127 in its order: row first, slot second |
| `HandleBegin`, `HandleRow`, `HandleCommit` | one pass of `_loop` per message, the flush triggers at its end included |
| `Wake`, `KeepAlive` | the `None` of `messages` and `_keepalive_if_due` |
| `RequestStop`, `LeaveLoop` | signal handler and the end of `_loop` |
| `ExecuteFlush`, `HaltOnPoison`, `SendCommit`, `ServerCommit`, `Ack` | `_flush`, cut where another actor can come between |
| `ConfirmFlush`, `ReleaseSlot` | the walsender |
| `Crash`, `OrphanCommits`, `OrphanAborts`, `ServerRestart` | a process killed anywhere; a `COMMIT` decided after its client died; a server restart, which may also bring the slot back at an older position |

A row whose fold raises (a non-finite number, a TOAST marker in an old row) is a
member of `Poison`; the batch it is in is never applied and the process ends.
The deadline (`batch_max_ms`) may pass at any time: a non-full batch may or may
not be flushed after a message. How late things may be is `BatchTimer`'s subject.

Assumed of PostgreSQL and psycopg2: `synchronous_commit` is on; the walsender
sees the client's feedback in order or not at all; one daemon per slot; a lock
on the checkpoint row held by an undecided transaction makes the next flush
wait. psycopg2 also answers keepalives of the server by itself and may report their
position (see `Observers`); it moves over unpublished WAL only, which the positions
here do not count. A walsender that dies
while its daemon lives makes the daemon's next read or ack raise: it is part of
`Crash`, and no separate state.

### Aggregates and DeltaBatch

`Aggregates` is the ground truth: a table of identified rows and the result of
`backfill_sql` on it, for grouped and global views, with the three storage
columns that carry every supported aggregate (`__walflux_rows`, `__nn`,
`__sum`). A sum is defined as a number of units, not by recursion, so that
theorems can be stated about it.

`DeltaBatch` has the source table, `_deltas`, `_truncated` and the targets. Its
actions are `Insert`, `Delete`, `Update` (with unchanged-TOAST markers in the
new tuple and their substitution, `daemon.py:259-272`), `Truncate`, and `Flush`,
which runs `statements()` in its order. The daemon keeps the events of a batch
and folds them when it flushes; the model folds each as it happens, which no
observer can tell, and lets a flush follow any event. Crashes and replays are
the pipeline's subject. A value is an integer number of units of the column's
scale, added without rounding, which is `DecimalSum`'s subject.

### Lifecycle

`setup`, `setup --force` and `teardown`, one action per statement that changes
state, beside a committing source and a daemon reduced to one transaction at a
time. `target` counts how often each transaction is in the views. The variable
`stoppedFor` is the operator's discipline, chosen at the start from the constant
`Disciplines`: the commands for which the daemon and its supervisor are stopped,
as docs/OPERATIONS.md asks for decommissioning and `_prepare_slot` asks for
`--force`. Each property says which discipline it needs.

| actions | in the code |
|---|---|
| `BeginSetup`, `EnsurePublication`, `PrepareSlot`, `ClearCheckpoint`, `CreateSlot` | `bootstrap.py:56-98`, `_ensure_publication`, `_prepare_slot` |
| `Backfill`, `FinishSetup` | the snapshot's transaction, 108-131; its `DROP TABLE` waits for whoever uses the targets, its checkpoint upsert fails if the row changed since the snapshot |
| `BeginTeardown`, `TerminateWalsender`, `DropSlot`, `DropPublication`, `DropSchema` | `bootstrap.py:150-169`, `_drop_slot_with_retry` |
| `CommandFails` | a command refused, failing, or killed after any statement |
| `ReadCheckpoint` ... `Ack`, `DaemonFails` | the daemon, as in `Pipeline`; its walsender ends with it |

`slot.complete` is no state of the program: it records whether the setup that
created the slot went through, for the properties to speak of.

`ReadableViews` is what a reader of the target tables is promised over many slots:
views appear with all of the first so many commits, go forward by any number, and
disappear; rebuilt views take the place of the old ones at once and are never
older than those. It promises nothing when daemons run into setups.

### SchemaDrift

How events find their views. Tables have an identity, which the publication and
pgoutput follow, and a name, which the configuration follows; they are renamed,
lose a needed column (`fits`) or their `REPLICA IDENTITY FULL` (`full`) at any
time. A session describes a table before its first event and after each change
(`described`); a process caches what it is told (`relations`) and which tables
ever had views (`viewRels`), buffers operations, flushes, halts or crashes, and
starts again with an empty memory from the position the slot has `confirmed`,
which a lost ack leaves behind the checkpoint: such events are described, cached
and checked again, and their operations dropped (`NewOps`, the skip rule). One
event is one transaction here: how transactions are buffered is `Pipeline`'s
subject.
`OnRelation`/`HaltOnRelation` are `_on_relation`, `OnRow`/`HaltOnRow` are
`_row_ops`; a truncate behaves like an insert. The decoder's checks of a message
and the two branches that a conforming server cannot reach (a row, or a truncate,
of a relation never described) are left out.

### BatchTimer

`messages` and the triggers of `_loop` with a clock. Time passes in `select`, at
work on a message (at most `MaxHandle`) and in a flush (at most `MaxFlush`);
everything else takes none. `ReadMessage`, `ReadNothing`, `WaitAgain`, `WakeUp`
are the branches of `messages`, where `WaitAgain` is a `select` that returns for
half a message; `Handled`, `Flushed`, `LoopEnds` those of `_loop`. `idle` is no
variable of the code: it remembers when a read last found nothing, which is when
a keepalive had its last chance.

### Observers

`verify.py` run after `generate.py`, perhaps cut off and run again, and `walflux
status`, over `ConsistentPrefix`, the specification `Pipeline` implements, whose
actions `Commit` and `CatchUp` its own use. An LSN counts all WAL, unpublished
records (`Background`) included. A run captures the LSN, writes and removes its
marker in two transactions, waits, and compares in one snapshot. What is compared
is which transactions are in, a marker that was removed leaving nothing.

The slot moves in two ways. `Ack` is the feedback after a flush. `KeepAlive` is
psycopg2's (2.9.12 in `uv.lock`): when a keepalive of the server finds that the last
message it was sent is confirmed, psycopg2 takes the keepalive's position for flushed
and reports it at once or in `_keepalive_if_due`'s `send_feedback`. On an idle stream
the slot so passes the checkpoint row, over WAL with nothing published in it. The
model lets the server have come any far, and a session that was sent nothing
forward too, since it has nothing to confirm.

### Decoder, DecimalSum, ViewColumns

Three parts without state between calls, each a small machine over one input,
run side by side by `MCFunctions`.

`Decoder` has a program of reads per message type (`Decoders`), executed over
buffers that an encoder, written from the message formats and not from the code,
has made: as they are, cut off after any byte, or with a byte of a tag replaced.
Which messages a server may send is a constant, `Messages(_)`, of which only
`WellFormed` is assumed: the fields of its type, as often as the type has them.
A byte is one of an integer of some width, a character, or a tag; which of these
it is, only the encoder knows and the decoder never looks at.

`DecimalSum` adds values with the rounding of Python's decimal context to deltas
and the deltas, unrounded, to the stored sum. `fits` is no variable of the code:
it remembers whether all values and all partial sums had at most `Digits` digits.

`ViewColumns` accepts `group_by` columns and aggregates one by one, as
`config.py` does, and lists the columns `target_ddl` makes of them; a name is a
stem of some length and one of the suffixes the code uses.

## 3. What the runs show

| run | instance | shows |
|---|---|---|
| `pipeline_safety` | 4 commits, batches of 2, 4 faults, one row that cannot be folded, `CommitsSettle = TRUE` | `ExactlyOnce`; `SlotBehindCheckpoint` (also for what a keepalive would report); `PoisonNeverPassed`; `CheckpointMonotone`; `CleanStopFlushes`; the inductive invariant `MemoryMatchesCheckpoint`; `Implements` (ConsistentPrefix) |
| `pipeline_progress` | 3 commits, 2 faults, `CommitsSettle = FALSE`, with fairness | `NothingLost` and its inductive invariant `MemoryMatchesSlot` although commits may be in doubt; every commit is applied in the end (`EventuallyApplied`), an uninterrupted ack releases WAL (`AckReachesSlot`), a requested stop ends (`StopEnds`) |
| `pipeline_undecided` | as `pipeline_safety` without `CommitsSettle` | violates `ExactlyOnce`: see Findings |
| `delta_batch` | 3 rows, 2 keys, values -1..1 and NULL, one grouped and one global view | `FlushIsGroundTruth`, its inductive invariant `DeltasBridge`, `Implements` (RecomputedViews) |
| `lifecycle` | 3 commits, 3 commands, 2 faults, all four disciplines | daemon stopped for setups: `CompleteViews`, `InterruptedSetupIsRefused`, and, as `Implements` (ReadableViews), nothing odd for readers; stopped for either: `CompletedSetupServes`, so that a daemon that meddles can make a forced setup fail, never spoil one that succeeds, which is `REPEATABLE READ`'s doing; always: `NoForgottenSlot` |
| `lifecycle_race` | the same, daemon stopped for teardowns only | violates `InterruptedSetupLeavesNoCheckpoint`: see Findings |
| `drift` | 2 tables, 3 names, 3 events, 2 changes of definition, 2 processes | `RoutedByName`; `DriftNeverPassed`, across restarts and redelivery; `NeverFreezesInProcess` |
| `drift_restart` | 1 change, 2 processes | violates `NeverFreezes`: see Findings |
| `drift_swap` | 2 changes, 1 process | violates `FedByTheirTable`: see Findings |
| `timer` | batches of 3, 3 ticks for `batch.max_ms`, a wake window of 2, keepalives every 4, messages of up to 1, flushes of up to 2, 12 ticks | a sealed transaction waits less than `batch.max_ms`, a window and a message (`BatchAgeBounded`); a stop ends within a step and the flushes owed (`StopBounded`); the client is heard of unless it is busy (`KeepaliveUnlessBusy`) |
| `observers` | 2 orders, 2 unpublished records, 2 runs of `verify.py` | `OnlyTheMarkerDiffers`, `MarkerCatchesUp` (no wait on an idle server is without end), `StatusAccountsForSlot` (no report shows the slot past a transaction its checkpoint lacks) |
| `functions` | 2 columns; 2 digits of precision, values of up to 2 more, 4 events; 2 `group_by` columns, 2 aggregates | `DecodesWhatWasSent`, `RefusesOnlyTheBroken`; `SumErrorBounded`; `NamesFit`, `ColumnsDistinct` |

The bounds. Exactly-once and its neighbours depend on how a checkpoint, a slot
position and a batch boundary lie to each other: four commits and batches of two
give a batch behind, across and ahead of a redelivered position, and four faults
let a crash, a slot regress, a second crash and a stop meet in one behaviour.
Three rows suffice for a group that is emptied, one that is left and one that is
entered, with equal rows among them; values of both signs and NULL give sums
that cancel without the group being empty. Three commands are a setup, its
repair and what follows. The properties of `lifecycle` also hold with four
commits, five commands and four faults. With no discipline at all
`CompletedSetupServes` fails: a daemon that a teardown cut off in the middle of a
flush can flush into the tables of the setup that follows.

For `drift`, two changes rename a table and rename it back, or rename two
tables; two processes are one that learned something and one that did not. For
`timer`, twelve ticks hold several batches, windows and keepalives, and a window
shorter than the deadline, which is not a multiple of it, lets a batch be missed
by a wake and grow old. For `observers`, unpublished records lie before and behind a
published one, and the slot passes either; the first run may die with its marker
in place, and a second meet it. For `functions`, two columns suffice to mistake
one for another; of the amounts 1, 88, 125 and 987 two fit the two digits but not
always together, one is a tie between two roundings, and two are beyond the
digits; stems have just the lengths where a suffix fits,
no longer fits, and where a name alone no longer does.

`CHECK_DEADLOCK FALSE` is used where the system may stop: for the lifecycle and
drift runs with the bounds on commands or processes spent, for a daemon's loop
that has ended (`timer`), for functions that have returned, and for observers
that are done, `verify.py` having been run for the last time. The pipeline never
stops.

Fairness (`Pipeline!Fairness`). Weak fairness for the start of a process,
justified by `Restart=on-failure` (deploy/walflux.service:22) and
`restart: unless-stopped` (deploy/docker-compose.yml:15), with a graceful stop
being the first half of a restart; for handling a message that is there; for
the wake, which `select` with a timeout guarantees (`replication.py:67-72`); for
each statement of a flush; for leaving the loop after a stop; for the walsender
reading feedback and exiting after its client; and for the server deciding a
commit. None for the source, for faults, for the deadline or for the keepalive,
so progress depends on none of these. Faults are bounded by `MaxFaults`: progress
is what happens once they cease. Progress is checked without poison, which
rightly stops the views. `Observers` assumes one thing, that a flush that can
happen does in the end: this is `Pipeline!EventuallyApplied`. None is assumed for
`verify.py` itself, its timeout or the source.

## 4. What is proved

All theorems hold for every value of the constants, under the modules' named
`ASSUME`s only. The bounds `MaxCommits`, `MaxFaults` are arbitrary naturals.

`PipelineProofs`

* `TypeCorrect`, `BuffersConsistent` (`MemoryMatchesSlot`), `SlotNeverAhead`,
  `AtLeastOnce`, `PoisonStopsTheViews`: unconditionally.
* `MemoryInStep` (`MemoryMatchesCheckpoint`), `ExactlyOnceHolds`,
  `CheckpointNeverBack`, `StopLeavesNothing` (`CleanStopFlushes`),
  `PipelineImplements`: under `CommitsSettle`, which `pipeline_undecided` shows
  to be necessary.

The argument. `ExactlyOnce` says nothing of memory, so no step preserves it on
its own. `MemoryMatchesSlot` adds what a process relies on whether or not a
predecessor's commit is decided: buffers hold what the slot sent, everything
read of the session is applied or pending, and a batch on its way to the
database ends after every position the slot was told, which keeps the slot
behind the checkpoint when a late commit writes an old checkpoint. It is
inductive alone and gives at-least-once. `MemoryMatchesCheckpoint` adds that
memory and row agree and the pending transactions are the next ones without a
gap; with `CommitsSettle` it is inductive relative to the first, and gives
exactly-once, monotone checkpoints and the refinement: a decided flush appends
a block of the history to the view, every other step stutters.

`DeltaBatchProofs`

* `TypeCorrect`, `DeltasAccountForSource` (`DeltasBridge`),
  `FlushYieldsGroundTruth`, `BatchImplements`.

`DeltasBridge` is the inductive invariant: for every group, what the target will
keep plus what the batch adds is the measure of the group's rows. `MeasureAdd`
says how a measure changes by one row, from which `FoldAdds` and `FoldRemoves`
follow; `CleanedIsGroundTruth` turns the bridge into equality with `GROUP BY`,
which is where the cleanup after the upserts and the seeded row of a truncated
global view are needed.

`BatchTimerProofs`

* `TimerTypes`, `BatchAge`, `Keepalive`, `StopInTime`.

Each bound on a delay is inductive only with what is known at every place of the
loop: how old the batch was when it was last looked at and how long ago that was
(`YoungAtLastLook`), how long the step under way may still take
(`StepsBounded`), and how long ago a stop came (`StopByPlace`). With `MaxHandle`
and `MaxFlush` arbitrary, the bounds say what the code adds to what it cannot
control.

`LifecycleProofs`

* `LifecycleTypes`, `NothingForgotten`: under any discipline or none.
* `ViewsComplete`, `InterruptedSetup`, and `LifecycleImplements` where readers are
  promised anything: daemon stopped for setups.
* `CompletedSetup`: daemon stopped for setups or for teardowns.

The argument has two halves that share only the order of the statements
(`CommandsInOrder`, `SessionInOrder`). Where setups run alone, a setup has the
checkpoint row to itself (`KeptApart`), a daemon agrees with its row unless a
teardown took that away (`DaemonAtItsRow`), and the targets hold a prefix even
without a row (`TargetsArePrefix`), no longer than the next setup's, which is why
readers never see them go back. Where teardowns run alone, a daemon that may
write keeps its slot in use (`HeldWhileStreaming`), so that no setup drops it; a
daemon that came into a setup stands at the start of the new slot
(`UndisturbedSoFar`), so that either it has not written when the setup
commits, or the setup fails; and from then on it continues where the row says,
also one that still remembers the row of the slot before (`GoesOn`).

`SchemaDriftProofs`

* `DriftTypes`, `Routing`, `DriftStops`, `NoFreezeInProcess`.

The invariant ties the two memories to the events: what is buffered are
operations of events after the checkpoint, none of an event that could not be
followed, and a cached relation is the definition at the last event that was
described.

`ObserversProofs`

* `TypeCorrect`, `VerdictTraced` (`OnlyTheMarkerDiffers`), `StatusAccounts`
  (`StatusAccountsForSlot`).

What makes a comparison fair is that nobody else wrote after the target was
captured (`OnlyTheMarkerFollows`, where the generator's exit is needed) and that the
views hold all up to the target (`CaughtUpAtCompare`): a row in one of the two only
then comes from a later transaction, the run's own (`Compared`). `ReportInOrder`
says that the slot, read first, was not beyond where it is when the checkpoint is
read; `HistoryInOrder`, that what the slot has let go is in the views, which does
not need the slot to be behind the checkpoint.

`FunctionsProofs`

* `ViewInvariant`, `ViewNamesFit` (`NamesFit`), `ViewColumnsDistinct`
  (`ColumnsDistinct`): for every set of names and any number of columns.
* `SumInvariant`, `SumErrorIsBounded` (`SumErrorBounded`): for every precision and
  every set of values.

For the names, the invariant is what the checks have compared so far; the columns
of a target table are a concatenation of blocks, and `ColumnPosition` says which
block a position falls into, so that two equal columns are two of the user's or
one of the exceptions in `Overlooked`. For the sums, `RoundedError` bounds what one
rounding costs by half a unit of the last place that remains, and the invariant
adds two of them per row, for the value's sign and for its addition.

`DecoderProofs`

* `DecoderInvariant`, `DecodingIsFaithful` (`DecodesWhatWasSent`),
  `NothingSoundIsRefused` (`RefusesOnlyTheBroken`): for every set of well-formed
  messages, of any length.

A decoder on a spoiled buffer does not know that it will fail, so an invariant in
terms of its buffer would have to say how. `DecoderIInv` speaks of an ideal decoder
over the bytes as they were sent (`Wire`) instead: from where the real one is, the
ideal one still has a run to the message that was sent (`Reaches`), what was read
so far is as it was sent, and the buffer differs from the wire only by being
shorter or by foreign tags. Every read of the real decoder is then the first step of
the ideal run: it decides by tags alone, and a foreign one ends it. A decoder that
has nothing more to read has read all there was (`Final`), so that nothing was cut
off; on a whole buffer the ideal run's first step can always be taken. That such a
run exists at the start is `EncodedGood`, one lemma per message type (`BeginGood`,
`RelationGood`, ...) over `LoopGood`, which says that a loop is passed when each of
its iterations is, however often it runs.

Induction over numbers is available in one form: a set of naturals has a least
element (`Least`), hence a set that holds 0 and is closed under successors holds
all (`Induction`), where the set is given as a set and not as an operator. From it
follow `TenTo` and `FlattenSeq` (`FlattenDef`, `FlatBlock`), whose definitions are
recursive functions.

Only model-checked: the four liveness properties (`EventuallyApplied`,
`AckReachesSlot`, `StopEnds`, `MarkerCatchesUp`), since reasoning under fairness
and about `ENABLED` is out of the prover's reach. The other properties of all
passing runs are proved.

## 5. Findings

* **In-doubt commit** (`pipeline_undecided`). DESIGN.md:58 says an in-doubt commit
  costs nothing since the checkpoint answers after the restart. It does if it is
  decided by then. `run` reads the row before it takes the slot and
  `write_checkpoint` overwrites the row unconditionally, so a `COMMIT` that lands
  in between is applied again.
* **Forced setup beside a supervisor** (`lifecycle_race`). The comment at
  bootstrap.py:63-69 and SPEC.md:387-392 promise that an interrupted setup leaves
  no checkpoint. A daemon restarted between `_prepare_slot` and the backfill
  holds the old checkpoint, attaches to the new slot and writes the row again,
  over views with a gap. The run `lifecycle` shows that stopping the supervisor
  is enough (`InterruptedSetupIsRefused`), and that only failed setups are
  affected (`CompletedSetupServes`).
* **Frozen views** (`drift_restart`). SPEC.md:445-448 says views of a renamed
  source never freeze silently. `_view_rel_ids` is lost with the process, and the
  supervisor restarts the process that halted, so they do after a restart.
* **Exchanged names** (`drift_swap`). A rename to a name that is also configured is
  not noticed (`daemon.py:206`): one table's events go into views backfilled from
  another, against DESIGN.md:266-267.

Smaller disagreements and limits, which the properties above take as they are:

* *What an interrupted setup leaves.* DESIGN.md:109-111 says the checkpoint is
  untouched; the code deletes the row first (`ClearCheckpoint`), as SPEC.md
  wants.
* *Deadlines.* A sealed transaction may wait for `batch.max_ms`, a wake window
  and a message, not only for `batch.max_ms` as the documents say; keepalives
  are sent "at least this often" (replication.py:19) and "regardless of
  progress" (55-57) only if a read finds nothing in between.
* *Verification.* `verify.py` can print FAIL for a correct pipeline: the
  marker's insert alone takes the checkpoint past the target, and a snapshot
  between its flush and the delete's finds a row in the views that the source no
  longer has.
* *Status.* Slot, WAL position and checkpoint are read in this order, so that a
  report never shows the slot past a transaction its checkpoint lacks. Either
  position may be the greater all the same: a checkpoint past `current_lsn` is one
  of a later moment, and a `confirmed_flush_lsn` past the checkpoint is psycopg2's
  forwarding on an idle stream, where replication.py:100 says the last flushed
  position is reported again.
* *Sums.* A batch whose values or partial sums need more than 28 digits loses what
  is rounded, for good. It is not enough that the partial sums fit: a value that
  does not is rounded by its sign before it is added.
* *Names.* Two collisions pass the checks of `config.py` and fail in setup after
  the slot was created (`Overlooked`): a `group_by` column named `x__sum` beside
  a sum called `x`, and an alias `__walflux_all` in a global view.
* *Halting again.* A daemon restarted after a halt on a renamed table halts
  again only if an ack was lost and a row of the table under its old name comes
  again.

## 6. Not modelled

`cli.py` and `__main__.py` parse arguments and print; `common.py` formats
positions and quotes names: nothing in them depends on order or state. Of the
decoder, `convert_value` and character encodings are left out; of the
configuration, the checks of single values and of the top level. Malformed input
of either ends the process, which is a `Crash`. Server checks of setup only
refuse. Several slots or several daemons are independent, or excluded by
PostgreSQL. DDL text, logging and exit codes are left out, as are the demo's
shell scripts and the tests.

One hazard has no property, since nothing in the repository says what should
happen: a setup that is refused has already changed the publication and replica
identities (bootstrap.py:61). A source table that is dropped and created again
leaves the publication; no code of the program is reached by that.

## 7. Plan

Everything planned is done: Pipeline, DeltaBatch, Lifecycle, SchemaDrift,
BatchTimer, Observers and the pure functions, all with proofs. What could follow:

1. A composition of `Pipeline` and `Lifecycle`, in place of the simple daemon of
   the latter: batches and undecided commits beside setups.
2. The remaining checks of `config.py`, if they come to depend on each other.
