-------------------------- MODULE LifecycleProofs ---------------------------
(***************************************************************************)
(* The properties of Lifecycle, for every number of commits, commands and  *)
(* faults and for every discipline of the operator.                        *)
(*                                                                         *)
(* What a checkpoint row is worth rests on who may write it when, and that *)
(* is known for different reasons under the two disciplines: a setup that  *)
(* runs alone has the row to itself, and a daemon that no teardown cuts    *)
(* off keeps its slot in use for as long as it may write.                  *)
(***************************************************************************)
EXTENDS Lifecycle, TLAPS

-----------------------------------------------------------------------------
(* What the order of the commands' statements gives, whatever daemons do.  *)
CommandsInOrder ==
    /\ command \in SetupSteps => schema
    /\ command \in SetupSteps \ {"publish"} => publication
    /\ slot # None => schema /\ publication
    /\ command \in {"clear", "create", "dropPublication", "dropSchema"} => slot = None
    /\ command \in {"backfill", "finish"} => slot # None /\ ~slot.complete
    /\ command \in {"backfill", "finish"} => point <= wal

(* What the daemon's order gives, whatever commands do.                    *)
SessionInOrder ==
    /\ checkpoint # None => checkpoint <= wal
    /\ checkpointLsn <= wal
    /\ Streaming => next <= wal + 1
    /\ daemon \in {"flush", "commit", "ack"} => next <= wal
    /\ daemon = "commit" => target # None
    /\ InUse => Streaming /\ slot.confirmed < next

-----------------------------------------------------------------------------
(* A setup that runs alone has the checkpoint row to itself.               *)
KeptApart ==
    /\ command \in SetupSteps => daemon = "off"
    /\ command \in {"create", "backfill", "finish"} => checkpoint = None
    /\ command \in {"backfill", "finish"} => slot.confirmed = point
    /\ slot # None => (slot.complete <=> checkpoint # None)

(* A daemon agrees with its row, if a teardown has not taken it away.      *)
DaemonAtItsRow ==
    /\ daemon # "off" => (checkpoint = None <=> target = None)
    /\ daemon # "off" /\ slot # None => checkpoint # None
    /\ daemon \in {"connect", "stream", "flush", "commit"} /\ checkpoint # None
         => checkpoint = checkpointLsn
    /\ daemon = "stream" => next <= checkpointLsn + 1
    /\ daemon \in {"flush", "commit"} => next = checkpointLsn + 1
    /\ daemon = "ack" /\ checkpoint # None => checkpoint = next

(* Also without a row the targets hold a prefix, no longer than the one a  *)
(* setup is about to put in its place.                                     *)
TargetsArePrefix ==
    target # None =>
        \E n \in 0 .. wal :
            target = UpTo(n) /\ (command \in {"backfill", "finish"} => n <= point)

SetupsAloneInv ==
    SetupsAlone =>
        /\ KeptApart
        /\ DaemonAtItsRow
        /\ TargetsArePrefix
        /\ HoldTheCheckpoint
        /\ StreamMeetsCheckpoint

-----------------------------------------------------------------------------
(* A daemon that no teardown cuts off streams from a slot in use, which    *)
(* setup does not drop.                                                    *)
HeldWhileStreaming ==
    /\ command \in TeardownSteps => daemon = "off"
    /\ Streaming => InUse

(* Until a daemon writes the checkpoint row, which fails the setup, a      *)
(* daemon that came into it stands at the start of the new slot.           *)
UndisturbedSoFar ==
    /\ command = "create" => checkpoint = None
    /\ command \in {"backfill", "finish"} /\ ~conflict =>
        /\ checkpoint = None
        /\ slot.confirmed = point
        /\ daemon # "ack"
        /\ daemon # "off" => checkpointLsn <= point
        /\ Streaming => next = point + 1

(* From the completion of its slot on, the daemon goes on where the row    *)
(* says, also one that read the row of the slot before.                    *)
GoesOn ==
    slot # None /\ slot.complete =>
        /\ checkpoint # None
        /\ slot.confirmed <= checkpoint
        /\ daemon # "off" => checkpointLsn <= checkpoint
        /\ daemon = "connect" => checkpointLsn = checkpoint \/ slot.confirmed = checkpoint
        /\ daemon = "stream" =>
             next <= checkpoint + 1 /\ (next <= checkpoint => checkpointLsn = checkpoint)
        /\ daemon \in {"flush", "commit"} => next = checkpoint + 1
        /\ daemon = "ack" => next = checkpoint

(* And the views hold what it says.                                        *)
KeepsHolding == slot # None /\ slot.complete => HoldTheCheckpoint

TeardownsAloneInv ==
    TeardownsAlone => HeldWhileStreaming /\ UndisturbedSoFar /\ GoesOn /\ KeepsHolding

IInv ==
    /\ TypeOK
    /\ CommandsInOrder
    /\ SessionInOrder
    /\ SetupsAloneInv
    /\ TeardownsAloneInv

-----------------------------------------------------------------------------
(* A prefix is well typed, and differs from no tables.                     *)
LEMMA PrefixType ==
    ASSUME NEW n
    PROVE  UpTo(n) \in [1 .. MaxCommits -> Nat] /\ UpTo(n) # None
<1>1. UpTo(n) \in [1 .. MaxCommits -> Nat]
  BY DEF UpTo
<1> QED
  BY <1>1, NoneAssumption

(* The transaction after a prefix, counted once more, makes the next one.  *)
LEMMA PrefixGrows ==
    ASSUME NEW n \in 1 .. MaxCommits
    PROVE  [UpTo(n - 1) EXCEPT ![n] = @ + 1] = UpTo(n)
<1> DEFINE f == [UpTo(n - 1) EXCEPT ![n] = @ + 1]
<1>1. f = [k \in 1 .. MaxCommits |-> f[k]] /\ UpTo(n) = [k \in 1 .. MaxCommits |-> UpTo(n)[k]]
  BY DEF UpTo
<1>2. ASSUME NEW k \in 1 .. MaxCommits
      PROVE  f[k] = UpTo(n)[k]
  <2>1. CASE k = n
    BY <2>1, LifecycleAssumption DEF UpTo
  <2>2. CASE k # n
    BY <2>2, LifecycleAssumption DEF UpTo
  <2> QED
    BY <2>1, <2>2
<1> QED
  BY <1>1, <1>2

(* A flush with the transaction that the targets lack.                     *)
LEMMA FlushGrows ==
    ASSUME TypeOK, next \in 1 .. MaxCommits, target = UpTo(next - 1), CommitFlush
    PROVE  target' = UpTo(next) /\ target' # None /\ checkpoint' = next /\ checkpoint' # None
<1>1. target' = UpTo(next)
  BY PrefixGrows DEF CommitFlush
<1> QED
  BY <1>1, PrefixType, NoneAssumption DEF CommitFlush

(* The fields of a slot, and of one that differs in one of them.           *)
LEMMA SlotFields ==
    \A s \in Slot :
        /\ s # None
        /\ s.active \in BOOLEAN /\ s.complete \in BOOLEAN
        /\ s.start \in Position /\ s.confirmed \in Position
        /\ s.start \in Nat /\ s.confirmed \in Nat
BY NoneAssumption, LifecycleAssumption DEF Slot, Position

LEMMA SlotActive ==
    ASSUME NEW s \in Slot, NEW b \in BOOLEAN
    PROVE  LET t == [s EXCEPT !.active = b]
           IN  /\ t \in Slot
               /\ t.active = b /\ t.start = s.start
               /\ t.confirmed = s.confirmed /\ t.complete = s.complete
BY DEF Slot

LEMMA SlotReleased ==
    ASSUME slot \in Slot \cup {None}
    PROVE  /\ slot = None => Released = None
           /\ slot # None =>
               /\ slot \in Slot /\ Released \in Slot /\ Released # None
               /\ Released.active = FALSE /\ Released.start = slot.start
               /\ Released.confirmed = slot.confirmed /\ Released.complete = slot.complete
BY SlotActive, NoneAssumption DEF Released

LEMMA SlotConfirmed ==
    ASSUME NEW s \in Slot, NEW n \in Position
    PROVE  LET t == [s EXCEPT !.confirmed = n]
           IN  /\ t \in Slot
               /\ t.active = s.active /\ t.start = s.start
               /\ t.confirmed = n /\ t.complete = s.complete
BY DEF Slot

LEMMA SlotComplete ==
    ASSUME NEW s \in Slot
    PROVE  LET t == [s EXCEPT !.complete = TRUE]
           IN  /\ t \in Slot
               /\ t.active = s.active /\ t.start = s.start
               /\ t.confirmed = s.confirmed /\ t.complete = TRUE
BY DEF Slot

LEMMA SlotNew ==
    ASSUME NEW n \in Position
    PROVE  LET t == [active |-> FALSE, start |-> n, confirmed |-> n, complete |-> FALSE]
           IN  /\ t \in Slot
               /\ t.active = FALSE /\ t.start = n /\ t.confirmed = n /\ t.complete = FALSE
BY DEF Slot

LEMMA InitIInv == Init => IInv
<1> SUFFICES ASSUME Init PROVE IInv
  OBVIOUS
<1> USE LifecycleAssumption, NoneAssumption DEF Init
<1>1. TypeOK
  <2>1. /\ publication \in BOOLEAN /\ schema \in BOOLEAN
        /\ force \in BOOLEAN /\ conflict \in BOOLEAN
    OBVIOUS
  <2>2. /\ wal \in Position /\ point \in Position /\ checkpointLsn \in Position
        /\ next \in 1 .. MaxCommits + 1
        /\ commands \in 0 .. MaxCommands /\ faults \in 0 .. MaxFaults
    BY DEF Position
  <2> QED
    BY <2>1, <2>2 DEF TypeOK, SetupSteps, TeardownSteps, DaemonStates
<1>2. CommandsInOrder /\ SessionInOrder
  BY DEF CommandsInOrder, SessionInOrder, SetupSteps, Streaming, InUse
<1>3. SetupsAloneInv
  BY DEF SetupsAloneInv, KeptApart, DaemonAtItsRow, TargetsArePrefix, HoldTheCheckpoint,
         StreamMeetsCheckpoint
<1>4. TeardownsAloneInv
  BY DEF TeardownsAloneInv, HeldWhileStreaming, UndisturbedSoFar, GoesOn, KeepsHolding,
         TeardownSteps, Streaming
<1> QED
  BY <1>1, <1>2, <1>3, <1>4 DEF IInv

(* Every step keeps the types.                                             *)
LEMMA TypeStep == IInv /\ [Next]_vars => TypeOK'
<1> SUFFICES ASSUME IInv, [Next]_vars PROVE TypeOK'
  OBVIOUS
<1> USE LifecycleAssumption, SlotFields
<1>1. CASE SourceCommit
  BY <1>1
     DEF SourceCommit, IInv, TypeOK, Position, schemaVars, commandVars, daemonVars,
         boundVars
<1>2. CASE BeginSetup
  BY <1>2
     DEF BeginSetup, MayBegin, IInv, TypeOK, SetupSteps, TeardownSteps, DaemonStates,
         catalogVars, daemonVars
<1>3. CASE EnsurePublication
  BY <1>3
     DEF EnsurePublication, IInv, TypeOK, SetupSteps, TeardownSteps, DaemonStates,
         schemaVars, daemonVars, boundVars
<1>4. CASE PrepareSlot
  BY <1>4
     DEF PrepareSlot, MayTakeSlot, AfterPrepare, IInv, TypeOK, SetupSteps, TeardownSteps,
         DaemonStates, schemaVars, daemonVars, boundVars
<1>5. CASE ClearCheckpoint
  BY <1>5
     DEF ClearCheckpoint, IInv, TypeOK, SetupSteps, TeardownSteps, DaemonStates,
         catalogVars, daemonVars, boundVars
<1>6. CASE CreateSlot
  <2>1. slot' \in Slot /\ slot'.start = wal /\ slot'.confirmed = wal
    BY <1>6, SlotNew DEF CreateSlot, IInv, TypeOK
  <2>2. /\ (slot \in Slot \cup {None})'
        /\ (slot # None => slot.start <= slot.confirmed /\ slot.confirmed <= wal)'
    BY <1>6, <2>1 DEF CreateSlot, IInv, TypeOK, Position
  <2>3. ( /\ publication \in BOOLEAN
          /\ schema \in BOOLEAN
          /\ force \in BOOLEAN
          /\ conflict \in BOOLEAN )'
    BY <1>6 DEF CreateSlot, IInv, TypeOK, schemaVars
  <2>4. ( /\ wal \in Position
          /\ point \in Position
          /\ checkpoint \in Position \cup {None}
          /\ target \in [1 .. MaxCommits -> Nat] \cup {None}
          /\ checkpointLsn \in Position
          /\ next \in 1 .. MaxCommits + 1
          /\ commands \in 0 .. MaxCommands
          /\ faults \in 0 .. MaxFaults )'
    BY <1>6 DEF CreateSlot, IInv, TypeOK, schemaVars, daemonVars, boundVars
  <2>5. ( /\ stoppedFor \in Disciplines
          /\ command \in SetupSteps \cup TeardownSteps \cup {"idle"}
          /\ daemon \in DaemonStates
          /\ lock \in {"free", "setup", "flush"}
          /\ ((lock = "setup") <=> (command = "finish"))
          /\ ((lock = "flush") <=> (daemon = "commit")) )'
    BY <1>6 DEF CreateSlot, IInv, TypeOK, schemaVars, daemonVars, boundVars, SetupSteps
  <2> QED
    BY <2>2, <2>3, <2>4, <2>5 DEF TypeOK
<1>7. CASE Backfill
  BY <1>7
     DEF Backfill, IInv, TypeOK, SetupSteps, TeardownSteps, DaemonStates, catalogVars,
         daemonVars, boundVars
<1>8. CASE FinishSetup
  <2>1. /\ slot \in Slot
        /\ slot' \in Slot /\ slot'.start = slot.start /\ slot'.confirmed = slot.confirmed
    BY <1>8, SlotComplete DEF FinishSetup, IInv, TypeOK, CommandsInOrder
  <2> QED
    BY <1>8, <2>1, PrefixType
       DEF FinishSetup, Refused, Recorded, Backfilled, IInv, TypeOK, daemonVars, boundVars
<1>9. CASE BeginTeardown
  BY <1>9
     DEF BeginTeardown, MayBegin, TeardownStart, IInv, TypeOK, SetupSteps, TeardownSteps,
         DaemonStates, catalogVars, schemaVars, daemonVars
<1>10. CASE TerminateWalsender
  BY <1>10, SlotReleased
     DEF TerminateWalsender, IInv, TypeOK, SetupSteps, TeardownSteps, InUse, Streaming,
         schemaVars, daemonVars, boundVars
<1>11. CASE DropSlot
  BY <1>11
     DEF DropSlot, InUse, IInv, TypeOK, SetupSteps, TeardownSteps, DaemonStates,
         schemaVars, daemonVars, boundVars
<1>12. CASE DropPublication
  BY <1>12
     DEF DropPublication, IInv, TypeOK, SetupSteps, TeardownSteps, DaemonStates,
         schemaVars, daemonVars, boundVars
<1>13. CASE DropSchema
  BY <1>13 DEF DropSchema, IInv, TypeOK, catalogVars, daemonVars, boundVars
<1>14. CASE CommandFails
  BY <1>14
     DEF CommandFails, MayTakeSlot, InUse, Refused, IInv, TypeOK, catalogVars, daemonVars
<1>15. CASE ReadCheckpoint
  BY <1>15
     DEF ReadCheckpoint, DaemonMayStart, HasCheckpoint, IInv, TypeOK, SetupSteps,
         TeardownSteps, DaemonStates, catalogVars, schemaVars, commandVars, boundVars
<1>16. CASE StartReplication
  <2>1. /\ slot \in Slot
        /\ slot' \in Slot /\ slot'.start = slot.start /\ slot'.confirmed = slot.confirmed
    BY <1>16, SlotActive DEF StartReplication, IInv, TypeOK
  <2> QED
    BY <1>16, <2>1
       DEF StartReplication, InUse, IInv, TypeOK, CommandsInOrder, SessionInOrder,
           Position, SetupSteps, TeardownSteps, DaemonStates, Streaming, schemaVars,
           commandVars, boundVars
<1>17. CASE Receive
  BY <1>17
     DEF Receive, InUse, IInv, TypeOK, CommandsInOrder, SessionInOrder, Position,
         SetupSteps, TeardownSteps, DaemonStates, Streaming, catalogVars, schemaVars,
         commandVars, boundVars
<1>18. CASE ExecuteFlush
  BY <1>18
     DEF ExecuteFlush, IInv, TypeOK, SetupSteps, TeardownSteps, DaemonStates, catalogVars,
         commandVars, boundVars
<1>19. CASE CommitFlush
  BY <1>19
     DEF CommitFlush, IInv, TypeOK, CommandsInOrder, SessionInOrder, Position, SetupSteps,
         TeardownSteps, DaemonStates, InUse, Streaming, catalogVars, boundVars
<1>20. CASE Ack
  <2>1. /\ slot \in Slot /\ slot # None /\ slot' = [slot EXCEPT !.confirmed = next]
        /\ slot.start <= slot.confirmed /\ slot.confirmed < next /\ next <= wal
    BY <1>20 DEF Ack, IInv, TypeOK, SessionInOrder, InUse
  <2>2. next \in 1 .. MaxCommits + 1 /\ wal \in 0 .. MaxCommits
    BY DEF IInv, TypeOK, Position
  <2>3. next \in Position /\ next + 1 \in 1 .. MaxCommits + 1
    BY <2>1, <2>2 DEF Position
  <2>4. slot' \in Slot /\ slot'.start = slot.start /\ slot'.confirmed = next
    BY <2>1, <2>3, SlotConfirmed
  <2>5. slot.start \in Position /\ slot.confirmed \in Position
    BY <2>1
  <2>6. slot'.start <= slot'.confirmed /\ slot'.confirmed <= wal
    BY <2>1, <2>2, <2>4, <2>5 DEF Position
  <2>7. /\ checkpointLsn' = next /\ next' = next + 1 /\ daemon = "ack" /\ daemon' = "stream"
        /\ UNCHANGED <<wal, publication, schema, checkpoint, target, command, force, point>>
        /\ UNCHANGED <<conflict, stoppedFor, lock, commands, faults>>
    BY <1>20 DEF Ack, schemaVars, commandVars, boundVars
  <2> QED
    BY <2>3, <2>4, <2>6, <2>7 DEF IInv, TypeOK, DaemonStates
<1>21. CASE DaemonFails
  <2>1. /\ (slot \in Slot \cup {None})'
        /\ (slot # None => slot.start <= slot.confirmed /\ slot.confirmed <= wal)'
    BY <1>21, SlotReleased DEF DaemonFails, IInv, TypeOK, Position
  <2>2. /\ (lock \in {"free", "setup", "flush"})'
        /\ ((lock = "setup") <=> (command = "finish"))'
        /\ ((lock = "flush") <=> (daemon = "commit"))'
    BY <1>21 DEF DaemonFails, IInv, TypeOK, commandVars
  <2>3. (faults \in 0 .. MaxFaults)'
    BY <1>21 DEF DaemonFails, IInv, TypeOK
  <2> QED
    BY <1>21, <2>1, <2>2, <2>3 DEF DaemonFails, IInv, TypeOK, commandVars, DaemonStates
<1>22. CASE UNCHANGED vars
  BY <1>22
     DEF IInv, TypeOK, vars, catalogVars, schemaVars, commandVars, daemonVars, boundVars
<1> QED
  BY <1>1, <1>2, <1>3, <1>4, <1>5, <1>6, <1>7, <1>8, <1>9, <1>10, <1>11, <1>12, <1>13,
     <1>14, <1>15, <1>16, <1>17, <1>18, <1>19, <1>20, <1>21, <1>22
     DEF Next, Setup, Teardown, Daemon

(* Every step keeps the order of the statements.                           *)
LEMMA CommandsStep == IInv /\ [Next]_vars => CommandsInOrder'
<1> SUFFICES ASSUME IInv, [Next]_vars PROVE CommandsInOrder'
  OBVIOUS
<1> USE LifecycleAssumption, SlotFields
<1>1. CASE SourceCommit
  BY <1>1
     DEF SourceCommit, IInv, TypeOK, CommandsInOrder, Position, SetupSteps, schemaVars,
         commandVars, daemonVars, boundVars
<1>2. CASE BeginSetup
  BY <1>2
     DEF BeginSetup, MayBegin, IInv, CommandsInOrder, SetupSteps, catalogVars, daemonVars
<1>3. CASE EnsurePublication
  BY <1>3
     DEF EnsurePublication, IInv, CommandsInOrder, SetupSteps, schemaVars, daemonVars,
         boundVars
<1>4. CASE PrepareSlot
  BY <1>4
     DEF PrepareSlot, MayTakeSlot, AfterPrepare, IInv, CommandsInOrder, SetupSteps,
         schemaVars, daemonVars, boundVars
<1>5. CASE ClearCheckpoint
  BY <1>5
     DEF ClearCheckpoint, IInv, CommandsInOrder, SetupSteps, catalogVars, daemonVars,
         boundVars
<1>6. CASE CreateSlot
  BY <1>6, SlotNew
     DEF CreateSlot, IInv, TypeOK, CommandsInOrder, SetupSteps, schemaVars, daemonVars,
         boundVars
<1>7. CASE Backfill
  BY <1>7
     DEF Backfill, IInv, CommandsInOrder, SetupSteps, catalogVars, daemonVars, boundVars
<1>8. CASE FinishSetup
  BY <1>8, SlotComplete
     DEF FinishSetup, Refused, Recorded, Backfilled, IInv, CommandsInOrder, SetupSteps,
         daemonVars, boundVars
<1>9. CASE BeginTeardown
  BY <1>9
     DEF BeginTeardown, MayBegin, TeardownStart, IInv, CommandsInOrder, SetupSteps,
         catalogVars, schemaVars, daemonVars
<1>10. CASE TerminateWalsender
  BY <1>10, SlotReleased
     DEF TerminateWalsender, IInv, CommandsInOrder, SetupSteps, schemaVars, daemonVars,
         boundVars
<1>11. CASE DropSlot
  BY <1>11
     DEF DropSlot, InUse, IInv, CommandsInOrder, SetupSteps, schemaVars, daemonVars,
         boundVars
<1>12. CASE DropPublication
  BY <1>12
     DEF DropPublication, IInv, CommandsInOrder, SetupSteps, schemaVars, daemonVars,
         boundVars
<1>13. CASE DropSchema
  BY <1>13
     DEF DropSchema, IInv, CommandsInOrder, SetupSteps, catalogVars, daemonVars, boundVars
<1>14. CASE CommandFails
  BY <1>14
     DEF CommandFails, MayTakeSlot, InUse, Refused, IInv, CommandsInOrder, SetupSteps,
         catalogVars, daemonVars
<1>15. CASE ReadCheckpoint
  BY <1>15
     DEF ReadCheckpoint, DaemonMayStart, HasCheckpoint, IInv, CommandsInOrder, SetupSteps,
         catalogVars, schemaVars, commandVars, boundVars
<1>16. CASE StartReplication
  BY <1>16, SlotActive
     DEF StartReplication, InUse, IInv, TypeOK, CommandsInOrder, SetupSteps, schemaVars,
         commandVars, boundVars
<1>17. CASE Receive
  BY <1>17
     DEF Receive, InUse, IInv, CommandsInOrder, SetupSteps, catalogVars, schemaVars,
         commandVars, boundVars
<1>18. CASE ExecuteFlush
  BY <1>18
     DEF ExecuteFlush, IInv, CommandsInOrder, SetupSteps, catalogVars, commandVars,
         boundVars
<1>19. CASE CommitFlush
  BY <1>19 DEF CommitFlush, IInv, CommandsInOrder, SetupSteps, catalogVars, boundVars
<1>20. CASE Ack
  <2>1. slot \in Slot /\ next \in Position
    BY <1>20 DEF Ack, InUse, IInv, TypeOK, SessionInOrder, Position
  <2>2. slot' \in Slot /\ slot'.active = slot.active /\ slot'.confirmed = next
        /\ slot'.start = slot.start /\ slot'.complete = slot.complete
    BY <1>20, <2>1, SlotConfirmed DEF Ack
  <2> QED
    BY <1>20, <2>1, <2>2
       DEF Ack, InUse, IInv, CommandsInOrder, SetupSteps, schemaVars, commandVars,
           boundVars
<1>21. CASE DaemonFails
  BY <1>21, SlotReleased
     DEF DaemonFails, InUse, Streaming, IInv, TypeOK, CommandsInOrder, SetupSteps,
         commandVars
<1>22. CASE UNCHANGED vars
  BY <1>22
     DEF IInv, CommandsInOrder, SetupSteps, vars, catalogVars, schemaVars, commandVars,
         daemonVars, boundVars
<1> QED
  BY <1>1, <1>2, <1>3, <1>4, <1>5, <1>6, <1>7, <1>8, <1>9, <1>10, <1>11, <1>12, <1>13,
     <1>14, <1>15, <1>16, <1>17, <1>18, <1>19, <1>20, <1>21, <1>22
     DEF Next, Setup, Teardown, Daemon

(* Every step keeps the order of the daemon.                               *)
LEMMA SessionStep == IInv /\ [Next]_vars => SessionInOrder'
<1> SUFFICES ASSUME IInv, [Next]_vars PROVE SessionInOrder'
  OBVIOUS
<1> USE LifecycleAssumption, SlotFields
<1>1. CASE SourceCommit
  BY <1>1
     DEF SourceCommit, IInv, TypeOK, CommandsInOrder, SessionInOrder, Position, InUse,
         Streaming, schemaVars, commandVars, daemonVars, boundVars
<1>2. CASE BeginSetup
  BY <1>2
     DEF BeginSetup, MayBegin, IInv, TypeOK, CommandsInOrder, SessionInOrder, InUse,
         Streaming, catalogVars, daemonVars
<1>3. CASE EnsurePublication
  BY <1>3
     DEF EnsurePublication, IInv, TypeOK, CommandsInOrder, SessionInOrder, InUse,
         Streaming, schemaVars, daemonVars, boundVars
<1>4. CASE PrepareSlot
  BY <1>4
     DEF PrepareSlot, MayTakeSlot, AfterPrepare, InUse, IInv, TypeOK, CommandsInOrder,
         SessionInOrder, Streaming, schemaVars, daemonVars, boundVars
<1>5. CASE ClearCheckpoint
  BY <1>5
     DEF ClearCheckpoint, IInv, TypeOK, CommandsInOrder, SessionInOrder, InUse, Streaming,
         catalogVars, daemonVars, boundVars
<1>6. CASE CreateSlot
  BY <1>6, SlotNew
     DEF CreateSlot, IInv, TypeOK, CommandsInOrder, SessionInOrder, InUse, Streaming,
         schemaVars, daemonVars, boundVars
<1>7. CASE Backfill
  BY <1>7
     DEF Backfill, IInv, TypeOK, CommandsInOrder, SessionInOrder, InUse, Streaming,
         catalogVars, daemonVars, boundVars
<1>8. CASE FinishSetup
  BY <1>8, SlotComplete
     DEF FinishSetup, Refused, Recorded, Backfilled, IInv, TypeOK, CommandsInOrder,
         SessionInOrder, InUse, Streaming, daemonVars, boundVars
<1>9. CASE BeginTeardown
  BY <1>9
     DEF BeginTeardown, MayBegin, TeardownStart, IInv, TypeOK, CommandsInOrder,
         SessionInOrder, InUse, Streaming, catalogVars, schemaVars, daemonVars
<1>10. CASE TerminateWalsender
  BY <1>10, SlotReleased
     DEF TerminateWalsender, IInv, TypeOK, CommandsInOrder, SessionInOrder, InUse,
         Streaming, schemaVars, daemonVars, boundVars
<1>11. CASE DropSlot
  BY <1>11
     DEF DropSlot, InUse, IInv, SessionInOrder, Streaming, schemaVars, daemonVars,
         boundVars
<1>12. CASE DropPublication
  BY <1>12
     DEF DropPublication, IInv, TypeOK, CommandsInOrder, SessionInOrder, InUse, Streaming,
         schemaVars, daemonVars, boundVars
<1>13. CASE DropSchema
  BY <1>13
     DEF DropSchema, IInv, TypeOK, CommandsInOrder, SessionInOrder, InUse, Streaming,
         catalogVars, daemonVars, boundVars
<1>14. CASE CommandFails
  BY <1>14
     DEF CommandFails, MayTakeSlot, InUse, Refused, IInv, SessionInOrder, Streaming,
         catalogVars, daemonVars
<1>15. CASE ReadCheckpoint
  BY <1>15
     DEF ReadCheckpoint, DaemonMayStart, HasCheckpoint, IInv, TypeOK, CommandsInOrder,
         SessionInOrder, InUse, Streaming, catalogVars, schemaVars, commandVars, boundVars
<1>16. CASE StartReplication
  BY <1>16, SlotActive
     DEF StartReplication, InUse, IInv, TypeOK, SessionInOrder, Position, Streaming,
         schemaVars, commandVars, boundVars
<1>17. CASE Receive
  BY <1>17
     DEF Receive, InUse, IInv, TypeOK, SessionInOrder, Position, Streaming, catalogVars,
         schemaVars, commandVars, boundVars
<1>18. CASE ExecuteFlush
  BY <1>18
     DEF ExecuteFlush, IInv, TypeOK, CommandsInOrder, SessionInOrder, InUse, Streaming,
         catalogVars, commandVars, boundVars
<1>19. CASE CommitFlush
  BY <1>19
     DEF CommitFlush, IInv, TypeOK, CommandsInOrder, SessionInOrder, InUse, Streaming,
         catalogVars, boundVars
<1>20. CASE Ack
  <2>1. slot \in Slot /\ next \in Position
    BY <1>20 DEF Ack, InUse, IInv, TypeOK, SessionInOrder, Position
  <2>2. slot' \in Slot /\ slot'.active = slot.active /\ slot'.confirmed = next
        /\ slot'.start = slot.start /\ slot'.complete = slot.complete
    BY <1>20, <2>1, SlotConfirmed DEF Ack
  <2> QED
    BY <1>20, <2>1, <2>2
       DEF Ack, InUse, IInv, TypeOK, SessionInOrder, Position, Streaming, schemaVars,
           commandVars, boundVars
<1>21. CASE DaemonFails
  BY <1>21, SlotReleased
     DEF DaemonFails, InUse, Streaming, IInv, TypeOK, SessionInOrder, commandVars
<1>22. CASE UNCHANGED vars
  BY <1>22
     DEF IInv, TypeOK, CommandsInOrder, SessionInOrder, InUse, Streaming, vars,
         catalogVars, schemaVars, commandVars, daemonVars, boundVars
<1> QED
  BY <1>1, <1>2, <1>3, <1>4, <1>5, <1>6, <1>7, <1>8, <1>9, <1>10, <1>11, <1>12, <1>13,
     <1>14, <1>15, <1>16, <1>17, <1>18, <1>19, <1>20, <1>21, <1>22
     DEF Next, Setup, Teardown, Daemon

(* Every step keeps daemons out of a setup that runs alone.                *)
LEMMA KeptApartStep ==
    ASSUME IInv, [Next]_vars, SetupsAlone
    PROVE  KeptApart'
<1> USE LifecycleAssumption, SlotFields
<1>1. CASE SourceCommit
  BY <1>1
     DEF SourceCommit, IInv, SetupsAloneInv, SetupsAlone, KeptApart, SetupSteps,
         schemaVars, commandVars, daemonVars, boundVars
<1>2. CASE BeginSetup
  BY <1>2
     DEF BeginSetup, MayBegin, IInv, SetupsAloneInv, SetupsAlone, KeptApart, SetupSteps,
         catalogVars, daemonVars
<1>3. CASE EnsurePublication
  BY <1>3
     DEF EnsurePublication, IInv, SetupsAloneInv, SetupsAlone, KeptApart, SetupSteps,
         schemaVars, daemonVars, boundVars
<1>4. CASE PrepareSlot
  BY <1>4
     DEF PrepareSlot, MayTakeSlot, AfterPrepare, IInv, SetupsAloneInv, SetupsAlone,
         KeptApart, SetupSteps, schemaVars, daemonVars, boundVars
<1>5. CASE ClearCheckpoint
  BY <1>5
     DEF ClearCheckpoint, IInv, TypeOK, CommandsInOrder, SetupsAloneInv, SetupsAlone,
         KeptApart, SetupSteps, InUse, catalogVars, daemonVars, boundVars
<1>6. CASE CreateSlot
  BY <1>6, SlotNew
     DEF CreateSlot, IInv, SetupsAloneInv, SetupsAlone, KeptApart, SetupSteps, schemaVars,
         daemonVars, boundVars
<1>7. CASE Backfill
  BY <1>7
     DEF Backfill, IInv, SetupsAloneInv, SetupsAlone, KeptApart, SetupSteps, catalogVars,
         daemonVars, boundVars
<1>8. CASE FinishSetup
  BY <1>8, SlotComplete, NoneAssumption
     DEF FinishSetup, Refused, Recorded, Backfilled, IInv, TypeOK, SetupsAloneInv,
         SetupsAlone, KeptApart, Position, SetupSteps, daemonVars, boundVars
<1>9. CASE BeginTeardown
  BY <1>9
     DEF BeginTeardown, MayBegin, TeardownStart, IInv, SetupsAloneInv, SetupsAlone,
         KeptApart, SetupSteps, catalogVars, schemaVars, daemonVars
<1>10. CASE TerminateWalsender
  BY <1>10, SlotReleased
     DEF TerminateWalsender, IInv, TypeOK, SetupsAloneInv, SetupsAlone, KeptApart,
         SetupSteps, schemaVars, daemonVars, boundVars
<1>11. CASE DropSlot
  BY <1>11
     DEF DropSlot, InUse, IInv, SetupsAloneInv, SetupsAlone, KeptApart, SetupSteps,
         schemaVars, daemonVars, boundVars
<1>12. CASE DropPublication
  BY <1>12
     DEF DropPublication, IInv, SetupsAloneInv, SetupsAlone, KeptApart, SetupSteps,
         schemaVars, daemonVars, boundVars
<1>13. CASE DropSchema
  BY <1>13
     DEF DropSchema, IInv, TypeOK, CommandsInOrder, SetupsAloneInv, SetupsAlone,
         KeptApart, SetupSteps, InUse, catalogVars, daemonVars, boundVars
<1>14. CASE CommandFails
  BY <1>14
     DEF CommandFails, MayTakeSlot, InUse, Refused, IInv, SetupsAloneInv, SetupsAlone,
         KeptApart, SetupSteps, catalogVars, daemonVars
<1>15. CASE ReadCheckpoint
  BY <1>15
     DEF ReadCheckpoint, DaemonMayStart, HasCheckpoint, IInv, SetupsAloneInv, SetupsAlone,
         KeptApart, SetupSteps, catalogVars, schemaVars, commandVars, boundVars
<1>16. CASE StartReplication
  BY <1>16, SlotActive
     DEF StartReplication, InUse, IInv, SetupsAloneInv, SetupsAlone, KeptApart,
         SetupSteps, schemaVars, commandVars, boundVars
<1>17. CASE Receive
  BY <1>17
     DEF Receive, InUse, IInv, SetupsAloneInv, SetupsAlone, KeptApart, SetupSteps,
         catalogVars, schemaVars, commandVars, boundVars
<1>18. CASE ExecuteFlush
  BY <1>18
     DEF ExecuteFlush, IInv, SetupsAloneInv, SetupsAlone, KeptApart, SetupSteps,
         catalogVars, commandVars, boundVars
<1>19. CASE CommitFlush
  BY <1>19, NoneAssumption
     DEF CommitFlush, IInv, TypeOK, CommandsInOrder, SessionInOrder, SetupsAloneInv,
         SetupsAlone, KeptApart, DaemonAtItsRow, SetupSteps, InUse, Streaming,
         catalogVars, boundVars
<1>20. CASE Ack
  BY <1>20, SlotConfirmed
     DEF Ack, InUse, IInv, SetupsAloneInv, SetupsAlone, KeptApart, SetupSteps, schemaVars,
         commandVars, boundVars
<1>21. CASE DaemonFails
  BY <1>21, SlotReleased
     DEF DaemonFails, InUse, Streaming, IInv, TypeOK, SetupsAloneInv, SetupsAlone,
         KeptApart, SetupSteps, commandVars
<1>22. CASE UNCHANGED vars
  BY <1>22
     DEF IInv, SetupsAloneInv, SetupsAlone, KeptApart, SetupSteps, vars, catalogVars,
         schemaVars, commandVars, daemonVars, boundVars
<1> QED
  BY <1>1, <1>2, <1>3, <1>4, <1>5, <1>6, <1>7, <1>8, <1>9, <1>10, <1>11, <1>12, <1>13,
     <1>14, <1>15, <1>16, <1>17, <1>18, <1>19, <1>20, <1>21, <1>22
     DEF Next, Setup, Teardown, Daemon

(* Every step keeps a daemon with its row, if setups run alone.            *)
LEMMA AtItsRowStep ==
    ASSUME IInv, [Next]_vars, SetupsAlone
    PROVE  DaemonAtItsRow'
<1> USE LifecycleAssumption, SlotFields
<1>1. CASE SourceCommit
  BY <1>1
     DEF SourceCommit, IInv, SetupsAloneInv, SetupsAlone, DaemonAtItsRow, schemaVars,
         commandVars, daemonVars, boundVars
<1>2. CASE BeginSetup
  BY <1>2
     DEF BeginSetup, MayBegin, IInv, SetupsAloneInv, SetupsAlone, DaemonAtItsRow,
         catalogVars, daemonVars
<1>3. CASE EnsurePublication
  BY <1>3
     DEF EnsurePublication, IInv, SetupsAloneInv, SetupsAlone, DaemonAtItsRow, schemaVars,
         daemonVars, boundVars
<1>4. CASE PrepareSlot
  BY <1>4
     DEF PrepareSlot, MayTakeSlot, AfterPrepare, IInv, SetupsAloneInv, SetupsAlone,
         DaemonAtItsRow, schemaVars, daemonVars, boundVars
<1>5. CASE ClearCheckpoint
  BY <1>5
     DEF ClearCheckpoint, IInv, TypeOK, SetupsAloneInv, SetupsAlone, KeptApart,
         DaemonAtItsRow, SetupSteps, TeardownSteps, InUse, Streaming, catalogVars,
         daemonVars, boundVars
<1>6. CASE CreateSlot
  BY <1>6, SlotNew
     DEF CreateSlot, IInv, TypeOK, SetupsAloneInv, SetupsAlone, KeptApart, DaemonAtItsRow,
         SetupSteps, TeardownSteps, InUse, Streaming, schemaVars, daemonVars, boundVars
<1>7. CASE Backfill
  BY <1>7
     DEF Backfill, IInv, SetupsAloneInv, SetupsAlone, DaemonAtItsRow, catalogVars,
         daemonVars, boundVars
<1>8. CASE FinishSetup
  BY <1>8, SlotComplete
     DEF FinishSetup, Refused, Recorded, Backfilled, IInv, TypeOK, SetupsAloneInv,
         SetupsAlone, KeptApart, DaemonAtItsRow, SetupSteps, TeardownSteps, InUse,
         Streaming, daemonVars, boundVars
<1>9. CASE BeginTeardown
  BY <1>9
     DEF BeginTeardown, MayBegin, TeardownStart, IInv, SetupsAloneInv, SetupsAlone,
         DaemonAtItsRow, catalogVars, schemaVars, daemonVars
<1>10. CASE TerminateWalsender
  BY <1>10, SlotReleased
     DEF TerminateWalsender, IInv, SetupsAloneInv, SetupsAlone, DaemonAtItsRow,
         schemaVars, daemonVars, boundVars
<1>11. CASE DropSlot
  BY <1>11
     DEF DropSlot, InUse, IInv, SetupsAloneInv, SetupsAlone, DaemonAtItsRow, schemaVars,
         daemonVars, boundVars
<1>12. CASE DropPublication
  BY <1>12
     DEF DropPublication, IInv, SetupsAloneInv, SetupsAlone, DaemonAtItsRow, schemaVars,
         daemonVars, boundVars
<1>13. CASE DropSchema
  BY <1>13
     DEF DropSchema, IInv, TypeOK, CommandsInOrder, SetupsAloneInv, SetupsAlone,
         DaemonAtItsRow, SetupSteps, InUse, catalogVars, daemonVars, boundVars
<1>14. CASE CommandFails
  BY <1>14
     DEF CommandFails, MayTakeSlot, InUse, Refused, IInv, SetupsAloneInv, SetupsAlone,
         DaemonAtItsRow, catalogVars, daemonVars
<1>15. CASE ReadCheckpoint
  BY <1>15
     DEF ReadCheckpoint, DaemonMayStart, HasCheckpoint, IInv, CommandsInOrder,
         SessionInOrder, SetupsAloneInv, SetupsAlone, KeptApart, DaemonAtItsRow,
         SetupSteps, InUse, Streaming, StreamMeetsCheckpoint, HoldTheCheckpoint,
         catalogVars, schemaVars, commandVars, boundVars
<1>16. CASE StartReplication
  BY <1>16, SlotActive
     DEF StartReplication, InUse, IInv, TypeOK, CommandsInOrder, SessionInOrder,
         SetupsAloneInv, SetupsAlone, KeptApart, DaemonAtItsRow, Position, SetupSteps,
         Streaming, StreamMeetsCheckpoint, HoldTheCheckpoint, schemaVars, commandVars,
         boundVars
<1>17. CASE Receive
  BY <1>17
     DEF Receive, InUse, IInv, TypeOK, SetupsAloneInv, SetupsAlone, DaemonAtItsRow,
         Position, catalogVars, schemaVars, commandVars, boundVars
<1>18. CASE ExecuteFlush
  BY <1>18
     DEF ExecuteFlush, IInv, SetupsAloneInv, SetupsAlone, DaemonAtItsRow, catalogVars,
         commandVars, boundVars
<1>19. CASE CommitFlush
  <2>1. /\ next \in 1 .. MaxCommits /\ target # None /\ checkpoint # None
        /\ target = UpTo(checkpoint) /\ next - 1 = checkpoint
    BY <1>19
       DEF CommitFlush, IInv, TypeOK, SessionInOrder, SetupsAloneInv, DaemonAtItsRow,
           HoldTheCheckpoint, Position, SetupsAlone
  <2>2. target' = UpTo(next) /\ target' # None /\ checkpoint' = next /\ checkpoint' # None
    BY <1>19, <2>1, FlushGrows DEF IInv
  <2> QED
    BY <1>19, <2>2 DEF CommitFlush, DaemonAtItsRow, KeptApart
<1>20. CASE Ack
  BY <1>20, SlotConfirmed
     DEF Ack, InUse, IInv, TypeOK, SetupsAloneInv, SetupsAlone, DaemonAtItsRow,
         schemaVars, commandVars, boundVars
<1>21. CASE DaemonFails
  BY <1>21, SlotReleased
     DEF DaemonFails, InUse, Streaming, IInv, SetupsAloneInv, SetupsAlone, DaemonAtItsRow,
         commandVars
<1>22. CASE UNCHANGED vars
  BY <1>22
     DEF IInv, SetupsAloneInv, SetupsAlone, DaemonAtItsRow, vars, catalogVars, schemaVars,
         commandVars, daemonVars, boundVars
<1> QED
  BY <1>1, <1>2, <1>3, <1>4, <1>5, <1>6, <1>7, <1>8, <1>9, <1>10, <1>11, <1>12, <1>13,
     <1>14, <1>15, <1>16, <1>17, <1>18, <1>19, <1>20, <1>21, <1>22
     DEF Next, Setup, Teardown, Daemon

(* Every step keeps the slot behind the row, if setups run alone.          *)
LEMMA MeetsStep ==
    ASSUME IInv, [Next]_vars, SetupsAlone
    PROVE  StreamMeetsCheckpoint'
<1> USE LifecycleAssumption, SlotFields
<1>1. CASE SourceCommit
  BY <1>1
     DEF SourceCommit, IInv, SetupsAloneInv, SetupsAlone, StreamMeetsCheckpoint,
         schemaVars, commandVars, daemonVars, boundVars
<1>2. CASE BeginSetup
  BY <1>2
     DEF BeginSetup, MayBegin, IInv, SetupsAloneInv, SetupsAlone, StreamMeetsCheckpoint,
         catalogVars, daemonVars
<1>3. CASE EnsurePublication
  BY <1>3
     DEF EnsurePublication, IInv, SetupsAloneInv, SetupsAlone, StreamMeetsCheckpoint,
         schemaVars, daemonVars, boundVars
<1>4. CASE PrepareSlot
  BY <1>4
     DEF PrepareSlot, MayTakeSlot, AfterPrepare, IInv, SetupsAloneInv, SetupsAlone,
         StreamMeetsCheckpoint, schemaVars, daemonVars, boundVars
<1>5. CASE ClearCheckpoint
  BY <1>5
     DEF ClearCheckpoint, IInv, SetupsAloneInv, SetupsAlone, StreamMeetsCheckpoint,
         catalogVars, daemonVars, boundVars
<1>6. CASE CreateSlot
  BY <1>6, SlotNew
     DEF CreateSlot, IInv, TypeOK, SetupsAloneInv, SetupsAlone, KeptApart, SetupSteps,
         TeardownSteps, InUse, Streaming, StreamMeetsCheckpoint, schemaVars, daemonVars,
         boundVars
<1>7. CASE Backfill
  BY <1>7
     DEF Backfill, IInv, SetupsAloneInv, SetupsAlone, StreamMeetsCheckpoint, catalogVars,
         daemonVars, boundVars
<1>8. CASE FinishSetup
  BY <1>8, SlotComplete
     DEF FinishSetup, Refused, Recorded, Backfilled, IInv, TypeOK, CommandsInOrder,
         SessionInOrder, SetupsAloneInv, SetupsAlone, KeptApart, DaemonAtItsRow,
         SetupSteps, InUse, Streaming, StreamMeetsCheckpoint, daemonVars, boundVars
<1>9. CASE BeginTeardown
  BY <1>9
     DEF BeginTeardown, MayBegin, TeardownStart, IInv, SetupsAloneInv, SetupsAlone,
         StreamMeetsCheckpoint, catalogVars, schemaVars, daemonVars
<1>10. CASE TerminateWalsender
  BY <1>10, SlotReleased
     DEF TerminateWalsender, IInv, TypeOK, SetupsAloneInv, SetupsAlone,
         StreamMeetsCheckpoint, schemaVars, daemonVars, boundVars
<1>11. CASE DropSlot
  BY <1>11
     DEF DropSlot, InUse, IInv, SetupsAloneInv, SetupsAlone, StreamMeetsCheckpoint,
         schemaVars, daemonVars, boundVars
<1>12. CASE DropPublication
  BY <1>12
     DEF DropPublication, IInv, SetupsAloneInv, SetupsAlone, StreamMeetsCheckpoint,
         schemaVars, daemonVars, boundVars
<1>13. CASE DropSchema
  BY <1>13
     DEF DropSchema, IInv, SetupsAloneInv, SetupsAlone, StreamMeetsCheckpoint,
         catalogVars, daemonVars, boundVars
<1>14. CASE CommandFails
  BY <1>14
     DEF CommandFails, MayTakeSlot, InUse, Refused, IInv, SetupsAloneInv, SetupsAlone,
         StreamMeetsCheckpoint, catalogVars, daemonVars
<1>15. CASE ReadCheckpoint
  BY <1>15
     DEF ReadCheckpoint, DaemonMayStart, HasCheckpoint, IInv, SetupsAloneInv, SetupsAlone,
         StreamMeetsCheckpoint, catalogVars, schemaVars, commandVars, boundVars
<1>16. CASE StartReplication
  BY <1>16, SlotActive
     DEF StartReplication, InUse, IInv, SetupsAloneInv, SetupsAlone,
         StreamMeetsCheckpoint, schemaVars, commandVars, boundVars
<1>17. CASE Receive
  BY <1>17
     DEF Receive, InUse, IInv, SetupsAloneInv, SetupsAlone, StreamMeetsCheckpoint,
         catalogVars, schemaVars, commandVars, boundVars
<1>18. CASE ExecuteFlush
  BY <1>18
     DEF ExecuteFlush, IInv, SetupsAloneInv, SetupsAlone, StreamMeetsCheckpoint,
         catalogVars, commandVars, boundVars
<1>19. CASE CommitFlush
  BY <1>19
     DEF CommitFlush, IInv, TypeOK, CommandsInOrder, SessionInOrder, SetupsAloneInv,
         SetupsAlone, KeptApart, DaemonAtItsRow, Position, SetupSteps, InUse, Streaming,
         StreamMeetsCheckpoint, catalogVars, boundVars
<1>20. CASE Ack
  BY <1>20, SlotConfirmed
     DEF Ack, InUse, IInv, TypeOK, CommandsInOrder, SessionInOrder, SetupsAloneInv,
         SetupsAlone, KeptApart, DaemonAtItsRow, SetupSteps, Streaming,
         StreamMeetsCheckpoint, schemaVars, commandVars, boundVars
<1>21. CASE DaemonFails
  BY <1>21, SlotReleased
     DEF DaemonFails, InUse, Streaming, IInv, TypeOK, SetupsAloneInv, SetupsAlone,
         StreamMeetsCheckpoint, commandVars
<1>22. CASE UNCHANGED vars
  BY <1>22
     DEF IInv, SetupsAloneInv, SetupsAlone, StreamMeetsCheckpoint, vars, catalogVars,
         schemaVars, commandVars, daemonVars, boundVars
<1> QED
  BY <1>1, <1>2, <1>3, <1>4, <1>5, <1>6, <1>7, <1>8, <1>9, <1>10, <1>11, <1>12, <1>13,
     <1>14, <1>15, <1>16, <1>17, <1>18, <1>19, <1>20, <1>21, <1>22
     DEF Next, Setup, Teardown, Daemon

(* Every step keeps the targets what the row says they are, if setups run  *)
(* alone.                                                                  *)
LEMMA HoldStep ==
    ASSUME IInv, [Next]_vars, SetupsAlone
    PROVE  HoldTheCheckpoint'
<1> USE LifecycleAssumption, SlotFields
<1>1. CASE SourceCommit
  BY <1>1
     DEF SourceCommit, IInv, SetupsAloneInv, SetupsAlone, HoldTheCheckpoint, schemaVars,
         commandVars, daemonVars, boundVars
<1>2. CASE BeginSetup
  BY <1>2
     DEF BeginSetup, MayBegin, IInv, SetupsAloneInv, SetupsAlone, HoldTheCheckpoint,
         catalogVars, daemonVars
<1>3. CASE EnsurePublication
  BY <1>3
     DEF EnsurePublication, IInv, SetupsAloneInv, SetupsAlone, HoldTheCheckpoint,
         schemaVars, daemonVars, boundVars
<1>4. CASE PrepareSlot
  BY <1>4
     DEF PrepareSlot, MayTakeSlot, AfterPrepare, IInv, SetupsAloneInv, SetupsAlone,
         HoldTheCheckpoint, schemaVars, daemonVars, boundVars
<1>5. CASE ClearCheckpoint
  BY <1>5
     DEF ClearCheckpoint, IInv, SetupsAloneInv, SetupsAlone, HoldTheCheckpoint,
         catalogVars, daemonVars, boundVars
<1>6. CASE CreateSlot
  BY <1>6, SlotNew
     DEF CreateSlot, IInv, SetupsAloneInv, SetupsAlone, HoldTheCheckpoint, schemaVars,
         daemonVars, boundVars
<1>7. CASE Backfill
  BY <1>7
     DEF Backfill, IInv, SetupsAloneInv, SetupsAlone, HoldTheCheckpoint, catalogVars,
         daemonVars, boundVars
<1>8. CASE FinishSetup
  BY <1>8, PrefixType DEF FinishSetup, Backfilled, Recorded, HoldTheCheckpoint
<1>9. CASE BeginTeardown
  BY <1>9
     DEF BeginTeardown, MayBegin, TeardownStart, IInv, SetupsAloneInv, SetupsAlone,
         HoldTheCheckpoint, catalogVars, schemaVars, daemonVars
<1>10. CASE TerminateWalsender
  BY <1>10, SlotReleased
     DEF TerminateWalsender, IInv, SetupsAloneInv, SetupsAlone, HoldTheCheckpoint,
         schemaVars, daemonVars, boundVars
<1>11. CASE DropSlot
  BY <1>11
     DEF DropSlot, InUse, IInv, SetupsAloneInv, SetupsAlone, HoldTheCheckpoint,
         schemaVars, daemonVars, boundVars
<1>12. CASE DropPublication
  BY <1>12
     DEF DropPublication, IInv, SetupsAloneInv, SetupsAlone, HoldTheCheckpoint,
         schemaVars, daemonVars, boundVars
<1>13. CASE DropSchema
  BY <1>13
     DEF DropSchema, IInv, SetupsAloneInv, SetupsAlone, HoldTheCheckpoint, catalogVars,
         daemonVars, boundVars
<1>14. CASE CommandFails
  BY <1>14
     DEF CommandFails, MayTakeSlot, InUse, Refused, IInv, SetupsAloneInv, SetupsAlone,
         HoldTheCheckpoint, catalogVars, daemonVars
<1>15. CASE ReadCheckpoint
  BY <1>15
     DEF ReadCheckpoint, DaemonMayStart, HasCheckpoint, IInv, SetupsAloneInv, SetupsAlone,
         HoldTheCheckpoint, catalogVars, schemaVars, commandVars, boundVars
<1>16. CASE StartReplication
  BY <1>16, SlotActive
     DEF StartReplication, InUse, IInv, SetupsAloneInv, SetupsAlone, HoldTheCheckpoint,
         schemaVars, commandVars, boundVars
<1>17. CASE Receive
  BY <1>17
     DEF Receive, InUse, IInv, SetupsAloneInv, SetupsAlone, HoldTheCheckpoint,
         catalogVars, schemaVars, commandVars, boundVars
<1>18. CASE ExecuteFlush
  BY <1>18
     DEF ExecuteFlush, IInv, SetupsAloneInv, SetupsAlone, HoldTheCheckpoint, catalogVars,
         commandVars, boundVars
<1>19. CASE CommitFlush
  <2>1. /\ next \in 1 .. MaxCommits /\ target # None /\ checkpoint # None
        /\ target = UpTo(checkpoint) /\ next - 1 = checkpoint
    BY <1>19
       DEF CommitFlush, IInv, TypeOK, SessionInOrder, SetupsAloneInv, DaemonAtItsRow,
           HoldTheCheckpoint, Position, SetupsAlone
  <2>2. target' = UpTo(next) /\ target' # None /\ checkpoint' = next /\ checkpoint' # None
    BY <1>19, <2>1, FlushGrows DEF IInv
  <2> QED
    BY <2>2 DEF HoldTheCheckpoint
<1>20. CASE Ack
  BY <1>20, SlotConfirmed
     DEF Ack, InUse, IInv, SetupsAloneInv, SetupsAlone, HoldTheCheckpoint, schemaVars,
         commandVars, boundVars
<1>21. CASE DaemonFails
  BY <1>21, SlotReleased
     DEF DaemonFails, InUse, Streaming, IInv, SetupsAloneInv, SetupsAlone,
         HoldTheCheckpoint, commandVars
<1>22. CASE UNCHANGED vars
  BY <1>22
     DEF IInv, SetupsAloneInv, SetupsAlone, HoldTheCheckpoint, vars, catalogVars,
         schemaVars, commandVars, daemonVars, boundVars
<1> QED
  BY <1>1, <1>2, <1>3, <1>4, <1>5, <1>6, <1>7, <1>8, <1>9, <1>10, <1>11, <1>12, <1>13,
     <1>14, <1>15, <1>16, <1>17, <1>18, <1>19, <1>20, <1>21, <1>22
     DEF Next, Setup, Teardown, Daemon

(* Every step keeps the targets a prefix, if setups run alone.             *)
LEMMA PrefixStep ==
    ASSUME IInv, [Next]_vars, SetupsAlone
    PROVE  TargetsArePrefix'
<1> USE LifecycleAssumption, SlotFields
<1>1. CASE SourceCommit
  BY <1>1
     DEF SourceCommit, IInv, TypeOK, SetupsAloneInv, SetupsAlone, TargetsArePrefix,
         Position, schemaVars, commandVars, daemonVars, boundVars
<1>2. CASE BeginSetup
  BY <1>2
     DEF BeginSetup, MayBegin, IInv, SetupsAloneInv, SetupsAlone, TargetsArePrefix,
         catalogVars, daemonVars
<1>3. CASE EnsurePublication
  BY <1>3
     DEF EnsurePublication, IInv, SetupsAloneInv, SetupsAlone, TargetsArePrefix,
         schemaVars, daemonVars, boundVars
<1>4. CASE PrepareSlot
  BY <1>4
     DEF PrepareSlot, MayTakeSlot, AfterPrepare, IInv, SetupsAloneInv, SetupsAlone,
         TargetsArePrefix, schemaVars, daemonVars, boundVars
<1>5. CASE ClearCheckpoint
  BY <1>5
     DEF ClearCheckpoint, IInv, SetupsAloneInv, SetupsAlone, TargetsArePrefix,
         catalogVars, daemonVars, boundVars
<1>6. CASE CreateSlot
  BY <1>6, SlotNew
     DEF CreateSlot, IInv, SetupsAloneInv, SetupsAlone, TargetsArePrefix, schemaVars,
         daemonVars, boundVars
<1>7. CASE Backfill
  BY <1>7
     DEF Backfill, IInv, SetupsAloneInv, SetupsAlone, TargetsArePrefix, catalogVars,
         daemonVars, boundVars
<1>8. CASE FinishSetup
  <2>1. point \in 0 .. wal' /\ target' = UpTo(point) /\ command' = "idle"
    BY <1>8 DEF FinishSetup, Backfilled, IInv, TypeOK, CommandsInOrder, Position
  <2> QED
    BY <2>1 DEF TargetsArePrefix
<1>9. CASE BeginTeardown
  BY <1>9
     DEF BeginTeardown, MayBegin, TeardownStart, IInv, SetupsAloneInv, SetupsAlone,
         TargetsArePrefix, catalogVars, schemaVars, daemonVars
<1>10. CASE TerminateWalsender
  BY <1>10, SlotReleased
     DEF TerminateWalsender, IInv, SetupsAloneInv, SetupsAlone, TargetsArePrefix,
         schemaVars, daemonVars, boundVars
<1>11. CASE DropSlot
  BY <1>11
     DEF DropSlot, InUse, IInv, SetupsAloneInv, SetupsAlone, TargetsArePrefix, schemaVars,
         daemonVars, boundVars
<1>12. CASE DropPublication
  BY <1>12
     DEF DropPublication, IInv, SetupsAloneInv, SetupsAlone, TargetsArePrefix, schemaVars,
         daemonVars, boundVars
<1>13. CASE DropSchema
  BY <1>13
     DEF DropSchema, IInv, SetupsAloneInv, SetupsAlone, TargetsArePrefix, catalogVars,
         daemonVars, boundVars
<1>14. CASE CommandFails
  BY <1>14
     DEF CommandFails, MayTakeSlot, InUse, Refused, IInv, SetupsAloneInv, SetupsAlone,
         TargetsArePrefix, catalogVars, daemonVars
<1>15. CASE ReadCheckpoint
  BY <1>15
     DEF ReadCheckpoint, DaemonMayStart, HasCheckpoint, IInv, SetupsAloneInv, SetupsAlone,
         TargetsArePrefix, catalogVars, schemaVars, commandVars, boundVars
<1>16. CASE StartReplication
  BY <1>16, SlotActive
     DEF StartReplication, InUse, IInv, SetupsAloneInv, SetupsAlone, TargetsArePrefix,
         schemaVars, commandVars, boundVars
<1>17. CASE Receive
  BY <1>17
     DEF Receive, InUse, IInv, SetupsAloneInv, SetupsAlone, TargetsArePrefix, catalogVars,
         schemaVars, commandVars, boundVars
<1>18. CASE ExecuteFlush
  BY <1>18
     DEF ExecuteFlush, IInv, SetupsAloneInv, SetupsAlone, TargetsArePrefix, catalogVars,
         commandVars, boundVars
<1>19. CASE CommitFlush
  <2>1. /\ next \in 1 .. MaxCommits /\ target # None /\ checkpoint # None
        /\ target = UpTo(checkpoint) /\ next - 1 = checkpoint
    BY <1>19
       DEF CommitFlush, IInv, TypeOK, SessionInOrder, SetupsAloneInv, DaemonAtItsRow,
           HoldTheCheckpoint, Position, SetupsAlone
  <2>2. target' = UpTo(next) /\ target' # None /\ checkpoint' = next /\ checkpoint' # None
    BY <1>19, <2>1, FlushGrows DEF IInv
  <2>3. next \in 0 .. wal' /\ (command \in {"backfill", "finish"} => FALSE)'
    BY <1>19
       DEF CommitFlush, IInv, TypeOK, SessionInOrder, SetupsAloneInv, KeptApart,
           SetupSteps, SetupsAlone, catalogVars
  <2> QED
    BY <2>2, <2>3 DEF TargetsArePrefix
<1>20. CASE Ack
  BY <1>20, SlotConfirmed
     DEF Ack, InUse, IInv, SetupsAloneInv, SetupsAlone, TargetsArePrefix, schemaVars,
         commandVars, boundVars
<1>21. CASE DaemonFails
  BY <1>21, SlotReleased
     DEF DaemonFails, InUse, Streaming, IInv, SetupsAloneInv, SetupsAlone,
         TargetsArePrefix, commandVars
<1>22. CASE UNCHANGED vars
  BY <1>22
     DEF IInv, SetupsAloneInv, SetupsAlone, TargetsArePrefix, vars, catalogVars,
         schemaVars, commandVars, daemonVars, boundVars
<1> QED
  BY <1>1, <1>2, <1>3, <1>4, <1>5, <1>6, <1>7, <1>8, <1>9, <1>10, <1>11, <1>12, <1>13,
     <1>14, <1>15, <1>16, <1>17, <1>18, <1>19, <1>20, <1>21, <1>22
     DEF Next, Setup, Teardown, Daemon

(* Every step leaves a streaming daemon its slot, if teardowns run alone.  *)
LEMMA HeldStep ==
    ASSUME IInv, [Next]_vars, TeardownsAlone
    PROVE  HeldWhileStreaming'
<1> USE LifecycleAssumption, SlotFields
<1>1. CASE SourceCommit
  BY <1>1
     DEF SourceCommit, IInv, TeardownsAloneInv, TeardownsAlone, HeldWhileStreaming,
         TeardownSteps, InUse, Streaming, schemaVars, commandVars, daemonVars, boundVars
<1>2. CASE BeginSetup
  BY <1>2
     DEF BeginSetup, MayBegin, IInv, TeardownsAloneInv, TeardownsAlone,
         HeldWhileStreaming, TeardownSteps, InUse, Streaming, catalogVars, daemonVars
<1>3. CASE EnsurePublication
  BY <1>3
     DEF EnsurePublication, IInv, TeardownsAloneInv, TeardownsAlone, HeldWhileStreaming,
         TeardownSteps, InUse, Streaming, schemaVars, daemonVars, boundVars
<1>4. CASE PrepareSlot
  BY <1>4
     DEF PrepareSlot, MayTakeSlot, AfterPrepare, InUse, IInv, TeardownsAloneInv,
         TeardownsAlone, HeldWhileStreaming, TeardownSteps, Streaming, schemaVars,
         daemonVars, boundVars
<1>5. CASE ClearCheckpoint
  BY <1>5
     DEF ClearCheckpoint, IInv, TeardownsAloneInv, TeardownsAlone, HeldWhileStreaming,
         TeardownSteps, InUse, Streaming, catalogVars, daemonVars, boundVars
<1>6. CASE CreateSlot
  BY <1>6, SlotNew
     DEF CreateSlot, IInv, TypeOK, CommandsInOrder, TeardownsAloneInv, TeardownsAlone,
         HeldWhileStreaming, SetupSteps, TeardownSteps, InUse, Streaming, schemaVars,
         daemonVars, boundVars
<1>7. CASE Backfill
  BY <1>7
     DEF Backfill, IInv, TeardownsAloneInv, TeardownsAlone, HeldWhileStreaming,
         TeardownSteps, InUse, Streaming, catalogVars, daemonVars, boundVars
<1>8. CASE FinishSetup
  BY <1>8, SlotComplete
     DEF FinishSetup, Refused, Recorded, Backfilled, IInv, TypeOK, TeardownsAloneInv,
         TeardownsAlone, HeldWhileStreaming, TeardownSteps, InUse, Streaming, daemonVars,
         boundVars
<1>9. CASE BeginTeardown
  BY <1>9
     DEF BeginTeardown, MayBegin, TeardownStart, IInv, TeardownsAloneInv, TeardownsAlone,
         HeldWhileStreaming, TeardownSteps, InUse, Streaming, catalogVars, schemaVars,
         daemonVars
<1>10. CASE TerminateWalsender
  BY <1>10, SlotReleased
     DEF TerminateWalsender, IInv, TeardownsAloneInv, TeardownsAlone, HeldWhileStreaming,
         TeardownSteps, InUse, Streaming, schemaVars, daemonVars, boundVars
<1>11. CASE DropSlot
  BY <1>11
     DEF DropSlot, InUse, IInv, TeardownsAloneInv, TeardownsAlone, HeldWhileStreaming,
         TeardownSteps, Streaming, schemaVars, daemonVars, boundVars
<1>12. CASE DropPublication
  BY <1>12
     DEF DropPublication, IInv, TeardownsAloneInv, TeardownsAlone, HeldWhileStreaming,
         TeardownSteps, InUse, Streaming, schemaVars, daemonVars, boundVars
<1>13. CASE DropSchema
  BY <1>13
     DEF DropSchema, IInv, TeardownsAloneInv, TeardownsAlone, HeldWhileStreaming,
         TeardownSteps, InUse, Streaming, catalogVars, daemonVars, boundVars
<1>14. CASE CommandFails
  BY <1>14
     DEF CommandFails, MayTakeSlot, InUse, Refused, IInv, TeardownsAloneInv,
         TeardownsAlone, HeldWhileStreaming, TeardownSteps, Streaming, catalogVars,
         daemonVars
<1>15. CASE ReadCheckpoint
  BY <1>15
     DEF ReadCheckpoint, DaemonMayStart, HasCheckpoint, IInv, TeardownsAloneInv,
         TeardownsAlone, HeldWhileStreaming, TeardownSteps, InUse, Streaming, catalogVars,
         schemaVars, commandVars, boundVars
<1>16. CASE StartReplication
  BY <1>16, SlotActive
     DEF StartReplication, InUse, IInv, TypeOK, TeardownsAloneInv, TeardownsAlone,
         HeldWhileStreaming, TeardownSteps, Streaming, schemaVars, commandVars, boundVars
<1>17. CASE Receive
  BY <1>17
     DEF Receive, InUse, IInv, TeardownsAloneInv, TeardownsAlone, HeldWhileStreaming,
         TeardownSteps, Streaming, catalogVars, schemaVars, commandVars, boundVars
<1>18. CASE ExecuteFlush
  BY <1>18
     DEF ExecuteFlush, IInv, TeardownsAloneInv, TeardownsAlone, HeldWhileStreaming,
         TeardownSteps, InUse, Streaming, catalogVars, commandVars, boundVars
<1>19. CASE CommitFlush
  BY <1>19
     DEF CommitFlush, IInv, TeardownsAloneInv, TeardownsAlone, HeldWhileStreaming,
         TeardownSteps, InUse, Streaming, catalogVars, boundVars
<1>20. CASE Ack
  BY <1>20, SlotConfirmed
     DEF Ack, InUse, IInv, TypeOK, CommandsInOrder, SessionInOrder, TeardownsAloneInv,
         TeardownsAlone, HeldWhileStreaming, Position, SetupSteps, TeardownSteps,
         Streaming, schemaVars, commandVars, boundVars
<1>21. CASE DaemonFails
  BY <1>21, SlotReleased
     DEF DaemonFails, InUse, Streaming, IInv, TeardownsAloneInv, TeardownsAlone,
         HeldWhileStreaming, TeardownSteps, commandVars
<1>22. CASE UNCHANGED vars
  BY <1>22
     DEF IInv, TeardownsAloneInv, TeardownsAlone, HeldWhileStreaming, TeardownSteps,
         InUse, Streaming, vars, catalogVars, schemaVars, commandVars, daemonVars,
         boundVars
<1> QED
  BY <1>1, <1>2, <1>3, <1>4, <1>5, <1>6, <1>7, <1>8, <1>9, <1>10, <1>11, <1>12, <1>13,
     <1>14, <1>15, <1>16, <1>17, <1>18, <1>19, <1>20, <1>21, <1>22
     DEF Next, Setup, Teardown, Daemon

(* Every step keeps a daemon that came into a setup at the start of its    *)
(* slot.                                                                   *)
LEMMA UndisturbedStep ==
    ASSUME IInv, [Next]_vars, TeardownsAlone
    PROVE  UndisturbedSoFar'
<1> USE LifecycleAssumption, SlotFields
<1>1. CASE SourceCommit
  BY <1>1
     DEF SourceCommit, IInv, TeardownsAloneInv, TeardownsAlone, Streaming,
         UndisturbedSoFar, schemaVars, commandVars, daemonVars, boundVars
<1>2. CASE BeginSetup
  BY <1>2
     DEF BeginSetup, MayBegin, IInv, TeardownsAloneInv, TeardownsAlone, Streaming,
         UndisturbedSoFar, catalogVars, daemonVars
<1>3. CASE EnsurePublication
  BY <1>3
     DEF EnsurePublication, IInv, TeardownsAloneInv, TeardownsAlone, Streaming,
         UndisturbedSoFar, schemaVars, daemonVars, boundVars
<1>4. CASE PrepareSlot
  BY <1>4
     DEF PrepareSlot, MayTakeSlot, AfterPrepare, IInv, TeardownsAloneInv, TeardownsAlone,
         Streaming, UndisturbedSoFar, schemaVars, daemonVars, boundVars
<1>5. CASE ClearCheckpoint
  BY <1>5
     DEF ClearCheckpoint, IInv, TeardownsAloneInv, TeardownsAlone, Streaming,
         UndisturbedSoFar, catalogVars, daemonVars, boundVars
<1>6. CASE CreateSlot
  BY <1>6, SlotNew
     DEF CreateSlot, IInv, CommandsInOrder, SessionInOrder, TeardownsAloneInv,
         TeardownsAlone, HeldWhileStreaming, SetupSteps, InUse, Streaming,
         UndisturbedSoFar, schemaVars, daemonVars, boundVars
<1>7. CASE Backfill
  BY <1>7
     DEF Backfill, IInv, TeardownsAloneInv, TeardownsAlone, Streaming, UndisturbedSoFar,
         catalogVars, daemonVars, boundVars
<1>8. CASE FinishSetup
  BY <1>8, SlotComplete
     DEF FinishSetup, Refused, Recorded, Backfilled, IInv, TeardownsAloneInv,
         TeardownsAlone, Streaming, UndisturbedSoFar, daemonVars, boundVars
<1>9. CASE BeginTeardown
  BY <1>9
     DEF BeginTeardown, MayBegin, TeardownStart, IInv, TeardownsAloneInv, TeardownsAlone,
         Streaming, UndisturbedSoFar, catalogVars, schemaVars, daemonVars
<1>10. CASE TerminateWalsender
  BY <1>10, SlotReleased
     DEF TerminateWalsender, IInv, TeardownsAloneInv, TeardownsAlone, Streaming,
         UndisturbedSoFar, schemaVars, daemonVars, boundVars
<1>11. CASE DropSlot
  BY <1>11
     DEF DropSlot, InUse, IInv, TeardownsAloneInv, TeardownsAlone, Streaming,
         UndisturbedSoFar, schemaVars, daemonVars, boundVars
<1>12. CASE DropPublication
  BY <1>12
     DEF DropPublication, IInv, TeardownsAloneInv, TeardownsAlone, Streaming,
         UndisturbedSoFar, schemaVars, daemonVars, boundVars
<1>13. CASE DropSchema
  BY <1>13
     DEF DropSchema, IInv, TeardownsAloneInv, TeardownsAlone, Streaming, UndisturbedSoFar,
         catalogVars, daemonVars, boundVars
<1>14. CASE CommandFails
  BY <1>14
     DEF CommandFails, MayTakeSlot, InUse, Refused, IInv, TeardownsAloneInv,
         TeardownsAlone, Streaming, UndisturbedSoFar, catalogVars, daemonVars
<1>15. CASE ReadCheckpoint
  BY <1>15
     DEF ReadCheckpoint, DaemonMayStart, HasCheckpoint, IInv, TeardownsAloneInv,
         TeardownsAlone, Streaming, UndisturbedSoFar, catalogVars, schemaVars,
         commandVars, boundVars
<1>16. CASE StartReplication
  BY <1>16, SlotActive
     DEF StartReplication, InUse, IInv, TeardownsAloneInv, TeardownsAlone, Streaming,
         UndisturbedSoFar, schemaVars, commandVars, boundVars
<1>17. CASE Receive
  BY <1>17
     DEF Receive, InUse, IInv, TypeOK, TeardownsAloneInv, TeardownsAlone, Position,
         Streaming, UndisturbedSoFar, catalogVars, schemaVars, commandVars, boundVars
<1>18. CASE ExecuteFlush
  BY <1>18
     DEF ExecuteFlush, IInv, TeardownsAloneInv, TeardownsAlone, Streaming,
         UndisturbedSoFar, catalogVars, commandVars, boundVars
<1>19. CASE CommitFlush
  BY <1>19
     DEF CommitFlush, IInv, CommandsInOrder, SessionInOrder, TeardownsAloneInv,
         TeardownsAlone, HeldWhileStreaming, SetupSteps, InUse, Streaming,
         UndisturbedSoFar, catalogVars, boundVars
<1>20. CASE Ack
  BY <1>20, SlotConfirmed
     DEF Ack, InUse, IInv, TeardownsAloneInv, TeardownsAlone, Streaming, UndisturbedSoFar,
         schemaVars, commandVars, boundVars
<1>21. CASE DaemonFails
  BY <1>21, SlotReleased
     DEF DaemonFails, InUse, Streaming, IInv, TypeOK, TeardownsAloneInv, TeardownsAlone,
         UndisturbedSoFar, commandVars
<1>22. CASE UNCHANGED vars
  BY <1>22
     DEF IInv, TeardownsAloneInv, TeardownsAlone, Streaming, UndisturbedSoFar, vars,
         catalogVars, schemaVars, commandVars, daemonVars, boundVars
<1> QED
  BY <1>1, <1>2, <1>3, <1>4, <1>5, <1>6, <1>7, <1>8, <1>9, <1>10, <1>11, <1>12, <1>13,
     <1>14, <1>15, <1>16, <1>17, <1>18, <1>19, <1>20, <1>21, <1>22
     DEF Next, Setup, Teardown, Daemon

(* Every step keeps the daemon at the end of the views of a completed      *)
(* slot.                                                                   *)
LEMMA GoesOnStep ==
    ASSUME IInv, [Next]_vars, TeardownsAlone
    PROVE  GoesOn'
<1> USE LifecycleAssumption, SlotFields
<1>1. CASE SourceCommit
  BY <1>1
     DEF SourceCommit, IInv, TeardownsAloneInv, TeardownsAlone, GoesOn, schemaVars,
         commandVars, daemonVars, boundVars
<1>2. CASE BeginSetup
  BY <1>2
     DEF BeginSetup, MayBegin, IInv, TeardownsAloneInv, TeardownsAlone, GoesOn,
         catalogVars, daemonVars
<1>3. CASE EnsurePublication
  BY <1>3
     DEF EnsurePublication, IInv, TeardownsAloneInv, TeardownsAlone, GoesOn, schemaVars,
         daemonVars, boundVars
<1>4. CASE PrepareSlot
  BY <1>4
     DEF PrepareSlot, MayTakeSlot, AfterPrepare, IInv, TeardownsAloneInv, TeardownsAlone,
         GoesOn, schemaVars, daemonVars, boundVars
<1>5. CASE ClearCheckpoint
  BY <1>5
     DEF ClearCheckpoint, IInv, TypeOK, CommandsInOrder, TeardownsAloneInv,
         TeardownsAlone, SetupSteps, InUse, GoesOn, catalogVars, daemonVars, boundVars
<1>6. CASE CreateSlot
  BY <1>6, SlotNew
     DEF CreateSlot, IInv, TeardownsAloneInv, TeardownsAlone, GoesOn, schemaVars,
         daemonVars, boundVars
<1>7. CASE Backfill
  BY <1>7
     DEF Backfill, IInv, TeardownsAloneInv, TeardownsAlone, GoesOn, catalogVars,
         daemonVars, boundVars
<1>8. CASE FinishSetup
  BY <1>8, SlotComplete, NoneAssumption
     DEF FinishSetup, Refused, Recorded, Backfilled, IInv, TypeOK, CommandsInOrder,
         SessionInOrder, TeardownsAloneInv, TeardownsAlone, HeldWhileStreaming,
         SetupSteps, InUse, Streaming, UndisturbedSoFar, GoesOn, daemonVars, boundVars
<1>9. CASE BeginTeardown
  BY <1>9
     DEF BeginTeardown, MayBegin, TeardownStart, IInv, TeardownsAloneInv, TeardownsAlone,
         GoesOn, catalogVars, schemaVars, daemonVars
<1>10. CASE TerminateWalsender
  BY <1>10, SlotReleased
     DEF TerminateWalsender, IInv, TypeOK, TeardownsAloneInv, TeardownsAlone, GoesOn,
         schemaVars, daemonVars, boundVars
<1>11. CASE DropSlot
  BY <1>11
     DEF DropSlot, InUse, IInv, TeardownsAloneInv, TeardownsAlone, GoesOn, schemaVars,
         daemonVars, boundVars
<1>12. CASE DropPublication
  BY <1>12
     DEF DropPublication, IInv, TeardownsAloneInv, TeardownsAlone, GoesOn, schemaVars,
         daemonVars, boundVars
<1>13. CASE DropSchema
  BY <1>13
     DEF DropSchema, IInv, TypeOK, CommandsInOrder, TeardownsAloneInv, TeardownsAlone,
         SetupSteps, InUse, GoesOn, catalogVars, daemonVars, boundVars
<1>14. CASE CommandFails
  BY <1>14
     DEF CommandFails, MayTakeSlot, InUse, Refused, IInv, TeardownsAloneInv,
         TeardownsAlone, GoesOn, catalogVars, daemonVars
<1>15. CASE ReadCheckpoint
  BY <1>15
     DEF ReadCheckpoint, DaemonMayStart, HasCheckpoint, IInv, TypeOK, TeardownsAloneInv,
         TeardownsAlone, Position, GoesOn, catalogVars, schemaVars, commandVars, boundVars
<1>16. CASE StartReplication
  BY <1>16, SlotActive
     DEF StartReplication, InUse, IInv, TypeOK, TeardownsAloneInv, TeardownsAlone,
         Position, GoesOn, schemaVars, commandVars, boundVars
<1>17. CASE Receive
  BY <1>17
     DEF Receive, InUse, IInv, TypeOK, TeardownsAloneInv, TeardownsAlone, Position,
         GoesOn, catalogVars, schemaVars, commandVars, boundVars
<1>18. CASE ExecuteFlush
  BY <1>18
     DEF ExecuteFlush, IInv, TeardownsAloneInv, TeardownsAlone, GoesOn, catalogVars,
         commandVars, boundVars
<1>19. CASE CommitFlush
  BY <1>19, NoneAssumption
     DEF CommitFlush, IInv, TypeOK, TeardownsAloneInv, TeardownsAlone, Position, GoesOn,
         catalogVars, boundVars
<1>20. CASE Ack
  BY <1>20, SlotConfirmed
     DEF Ack, InUse, IInv, TypeOK, TeardownsAloneInv, TeardownsAlone, GoesOn, schemaVars,
         commandVars, boundVars
<1>21. CASE DaemonFails
  BY <1>21, SlotReleased
     DEF DaemonFails, InUse, Streaming, IInv, TypeOK, TeardownsAloneInv, TeardownsAlone,
         GoesOn, commandVars
<1>22. CASE UNCHANGED vars
  BY <1>22
     DEF IInv, TeardownsAloneInv, TeardownsAlone, GoesOn, vars, catalogVars, schemaVars,
         commandVars, daemonVars, boundVars
<1> QED
  BY <1>1, <1>2, <1>3, <1>4, <1>5, <1>6, <1>7, <1>8, <1>9, <1>10, <1>11, <1>12, <1>13,
     <1>14, <1>15, <1>16, <1>17, <1>18, <1>19, <1>20, <1>21, <1>22
     DEF Next, Setup, Teardown, Daemon

(* Every step keeps the views of a completed slot what the row says they   *)
(* are.                                                                    *)
LEMMA KeepsHoldingStep ==
    ASSUME IInv, [Next]_vars, TeardownsAlone
    PROVE  KeepsHolding'
<1> USE LifecycleAssumption, SlotFields
<1>1. CASE SourceCommit
  BY <1>1
     DEF SourceCommit, IInv, TeardownsAloneInv, TeardownsAlone, KeepsHolding,
         HoldTheCheckpoint, schemaVars, commandVars, daemonVars, boundVars
<1>2. CASE BeginSetup
  BY <1>2
     DEF BeginSetup, MayBegin, IInv, TeardownsAloneInv, TeardownsAlone, KeepsHolding,
         HoldTheCheckpoint, catalogVars, daemonVars
<1>3. CASE EnsurePublication
  BY <1>3
     DEF EnsurePublication, IInv, TeardownsAloneInv, TeardownsAlone, KeepsHolding,
         HoldTheCheckpoint, schemaVars, daemonVars, boundVars
<1>4. CASE PrepareSlot
  BY <1>4
     DEF PrepareSlot, MayTakeSlot, AfterPrepare, IInv, TeardownsAloneInv, TeardownsAlone,
         KeepsHolding, HoldTheCheckpoint, schemaVars, daemonVars, boundVars
<1>5. CASE ClearCheckpoint
  BY <1>5
     DEF ClearCheckpoint, IInv, TeardownsAloneInv, TeardownsAlone, KeepsHolding,
         HoldTheCheckpoint, catalogVars, daemonVars, boundVars
<1>6. CASE CreateSlot
  BY <1>6, SlotNew
     DEF CreateSlot, IInv, TeardownsAloneInv, TeardownsAlone, KeepsHolding,
         HoldTheCheckpoint, schemaVars, daemonVars, boundVars
<1>7. CASE Backfill
  BY <1>7
     DEF Backfill, IInv, TeardownsAloneInv, TeardownsAlone, KeepsHolding,
         HoldTheCheckpoint, catalogVars, daemonVars, boundVars
<1>8. CASE FinishSetup
  BY <1>8, PrefixType
     DEF FinishSetup, Backfilled, Recorded, KeepsHolding, HoldTheCheckpoint
<1>9. CASE BeginTeardown
  BY <1>9
     DEF BeginTeardown, MayBegin, TeardownStart, IInv, TeardownsAloneInv, TeardownsAlone,
         KeepsHolding, HoldTheCheckpoint, catalogVars, schemaVars, daemonVars
<1>10. CASE TerminateWalsender
  BY <1>10, SlotReleased
     DEF TerminateWalsender, IInv, TypeOK, TeardownsAloneInv, TeardownsAlone,
         KeepsHolding, HoldTheCheckpoint, schemaVars, daemonVars, boundVars
<1>11. CASE DropSlot
  BY <1>11
     DEF DropSlot, InUse, IInv, TeardownsAloneInv, TeardownsAlone, KeepsHolding,
         HoldTheCheckpoint, schemaVars, daemonVars, boundVars
<1>12. CASE DropPublication
  BY <1>12
     DEF DropPublication, IInv, TeardownsAloneInv, TeardownsAlone, KeepsHolding,
         HoldTheCheckpoint, schemaVars, daemonVars, boundVars
<1>13. CASE DropSchema
  BY <1>13
     DEF DropSchema, IInv, TeardownsAloneInv, TeardownsAlone, KeepsHolding,
         HoldTheCheckpoint, catalogVars, daemonVars, boundVars
<1>14. CASE CommandFails
  BY <1>14
     DEF CommandFails, MayTakeSlot, InUse, Refused, IInv, TeardownsAloneInv,
         TeardownsAlone, KeepsHolding, HoldTheCheckpoint, catalogVars, daemonVars
<1>15. CASE ReadCheckpoint
  BY <1>15
     DEF ReadCheckpoint, DaemonMayStart, HasCheckpoint, IInv, TeardownsAloneInv,
         TeardownsAlone, KeepsHolding, HoldTheCheckpoint, catalogVars, schemaVars,
         commandVars, boundVars
<1>16. CASE StartReplication
  BY <1>16, SlotActive
     DEF StartReplication, InUse, IInv, TeardownsAloneInv, TeardownsAlone, KeepsHolding,
         HoldTheCheckpoint, schemaVars, commandVars, boundVars
<1>17. CASE Receive
  BY <1>17
     DEF Receive, InUse, IInv, TeardownsAloneInv, TeardownsAlone, KeepsHolding,
         HoldTheCheckpoint, catalogVars, schemaVars, commandVars, boundVars
<1>18. CASE ExecuteFlush
  BY <1>18
     DEF ExecuteFlush, IInv, TeardownsAloneInv, TeardownsAlone, KeepsHolding,
         HoldTheCheckpoint, catalogVars, commandVars, boundVars
<1>19. CASE CommitFlush
  <2> SUFFICES ASSUME slot # None, slot.complete
               PROVE  HoldTheCheckpoint'
    BY <1>19 DEF CommitFlush, KeepsHolding, catalogVars
  <2>1. /\ next \in 1 .. MaxCommits /\ target = UpTo(checkpoint)
        /\ checkpoint \in Nat /\ next = checkpoint + 1
    BY <1>19
       DEF CommitFlush, IInv, TypeOK, SessionInOrder, TeardownsAloneInv, TeardownsAlone,
           GoesOn, KeepsHolding, HoldTheCheckpoint, Position
  <2>2. target = UpTo(next - 1)
    BY <2>1
  <2>3. target' = UpTo(next) /\ target' # None /\ checkpoint' = next
    BY <1>19, <2>1, <2>2, FlushGrows DEF IInv
  <2> QED
    BY <2>3 DEF HoldTheCheckpoint
<1>20. CASE Ack
  BY <1>20, SlotConfirmed
     DEF Ack, InUse, IInv, TeardownsAloneInv, TeardownsAlone, KeepsHolding,
         HoldTheCheckpoint, schemaVars, commandVars, boundVars
<1>21. CASE DaemonFails
  BY <1>21, SlotReleased
     DEF DaemonFails, InUse, Streaming, IInv, TypeOK, TeardownsAloneInv, TeardownsAlone,
         KeepsHolding, HoldTheCheckpoint, commandVars
<1>22. CASE UNCHANGED vars
  BY <1>22
     DEF IInv, TeardownsAloneInv, TeardownsAlone, KeepsHolding, HoldTheCheckpoint, vars,
         catalogVars, schemaVars, commandVars, daemonVars, boundVars
<1> QED
  BY <1>1, <1>2, <1>3, <1>4, <1>5, <1>6, <1>7, <1>8, <1>9, <1>10, <1>11, <1>12, <1>13,
     <1>14, <1>15, <1>16, <1>17, <1>18, <1>19, <1>20, <1>21, <1>22
     DEF Next, Setup, Teardown, Daemon

LEMMA DisciplineStays == [Next]_vars => UNCHANGED stoppedFor
BY DEF Next, Setup, Teardown, Daemon, vars, boundVars, SourceCommit, BeginSetup,
       EnsurePublication, PrepareSlot, ClearCheckpoint, CreateSlot, Backfill, FinishSetup,
       BeginTeardown, TerminateWalsender, DropSlot, DropPublication, DropSchema,
       CommandFails, ReadCheckpoint, StartReplication, Receive, ExecuteFlush, CommitFlush,
       Ack, DaemonFails

LEMMA StepIInv == IInv /\ [Next]_vars => IInv'
<1> SUFFICES ASSUME IInv, [Next]_vars PROVE IInv'
  OBVIOUS
<1>1. UNCHANGED stoppedFor
  BY DisciplineStays
<1>2. SetupsAlone => KeptApart' /\ DaemonAtItsRow' /\ StreamMeetsCheckpoint'
  BY KeptApartStep, AtItsRowStep, MeetsStep
<1>3. SetupsAlone => HoldTheCheckpoint' /\ TargetsArePrefix'
  BY HoldStep, PrefixStep
<1>4. SetupsAloneInv'
  BY <1>1, <1>2, <1>3 DEF SetupsAloneInv, SetupsAlone
<1>5. TeardownsAlone => HeldWhileStreaming' /\ UndisturbedSoFar' /\ GoesOn' /\ KeepsHolding'
  BY HeldStep, UndisturbedStep, GoesOnStep, KeepsHoldingStep
<1>6. TeardownsAloneInv'
  BY <1>1, <1>5 DEF TeardownsAloneInv, TeardownsAlone
<1> QED
  BY <1>4, <1>6, TypeStep, CommandsStep, SessionStep DEF IInv

(* The inductive invariant.                                                *)
THEOREM Invariance == Spec => []IInv
BY InitIInv, StepIInv, PTL DEF Spec

-----------------------------------------------------------------------------
(* The states are of the declared types, under every discipline.           *)
THEOREM LifecycleTypes == Spec => []TypeOK
<1>1. IInv => TypeOK
  BY DEF IInv
<1> QED
  BY <1>1, Invariance, PTL

(* Target tables with a checkpoint row hold exactly what it says           *)
(* (bootstrap.py:102-106), wherever commands and daemons died.             *)
THEOREM ViewsComplete == Spec => []CompleteViews
<1>1. IInv => CompleteViews
  BY DEF IInv, SetupsAloneInv, CompleteViews
<1> QED
  BY <1>1, Invariance, PTL

(* A slot whose setup did not go through has no checkpoint row, and run    *)
(* refuses to start (bootstrap.py:63-69).                                  *)
THEOREM InterruptedSetup == Spec => []InterruptedSetupIsRefused
<1>1. IInv => InterruptedSetupIsRefused
  BY DEF IInv, SetupsAloneInv, KeptApart, InterruptedSetupIsRefused,
         InterruptedSetupLeavesNoCheckpoint
<1> QED
  BY <1>1, Invariance, PTL

(* No slot is left behind, under every discipline.                         *)
THEOREM NothingForgotten == Spec => []NoForgottenSlot
<1>1. IInv => NoForgottenSlot
  BY DEF IInv, CommandsInOrder, NoForgottenSlot
<1> QED
  BY <1>1, Invariance, PTL

(* A setup that went through serves its daemon, if the daemon is stopped   *)
(* for setups or for teardowns.                                            *)
THEOREM CompletedSetup == Spec => []CompletedSetupServes
<1>1. IInv => CompletedSetupServes
  <2> SUFFICES ASSUME IInv, slot # None, slot.complete, SetupsAlone \/ TeardownsAlone
               PROVE  checkpoint # None /\ HoldTheCheckpoint /\ StreamMeetsCheckpoint
    BY DEF CompletedSetupServes
  <2>1. CASE SetupsAlone
    BY <2>1 DEF IInv, SetupsAloneInv, KeptApart
  <2>2. CASE TeardownsAlone
    BY <2>2 DEF IInv, TeardownsAloneInv, GoesOn, KeepsHolding, StreamMeetsCheckpoint
  <2> QED
    BY <2>1, <2>2
<1> QED
  BY <1>1, Invariance, PTL

-----------------------------------------------------------------------------
LEMMA ImplementsInit == Init => Readers!Init
BY DEF Init, Readers!Init, SetupsAlone

LEMMA ImplementsStep == IInv /\ [Next]_vars => [Readers!Next]_Readers!vars
<1> SUFFICES ASSUME IInv, [Next]_vars PROVE [Readers!Next]_Readers!vars
  OBVIOUS
<1> USE DEF Readers!Next, Readers!vars
<1>1. UNCHANGED SetupsAlone
  BY DisciplineStays DEF SetupsAlone
<1>2. CASE SourceCommit
  BY <1>1, <1>2 DEF SourceCommit, schemaVars, Readers!Commit
<1>3. CASE ~SourceCommit
  <2>1. UNCHANGED wal
    BY <1>3
       DEF Next, Setup, Teardown, Daemon, vars, catalogVars, BeginSetup,
           EnsurePublication, PrepareSlot, ClearCheckpoint, CreateSlot, Backfill,
           FinishSetup, BeginTeardown, TerminateWalsender, DropSlot, DropPublication,
           DropSchema, CommandFails, ReadCheckpoint, StartReplication, Receive,
           ExecuteFlush, CommitFlush, Ack, DaemonFails
  <2>2. CASE ~SetupsAlone
    BY <1>1, <2>1, <2>2 DEF Readers!Disturb
  <2>3. CASE SetupsAlone /\ FinishSetup
    <3>1. target' = UpTo(point) /\ point \in 0 .. wal
      BY <2>3 DEF FinishSetup, Backfilled, IInv, TypeOK, CommandsInOrder, Position
    <3>2. CASE target = None
      BY <1>1, <2>1, <3>1, <3>2 DEF Readers!Build, Readers!FirstOf, UpTo
    <3>3. CASE target # None
      <4>1. PICK m \in 0 .. wal : target = UpTo(m) /\ m <= point
        BY <2>3, <3>3 DEF FinishSetup, IInv, SetupsAloneInv, TargetsArePrefix
      <4>2. CASE m = point
        BY <1>1, <2>1, <3>1, <4>1, <4>2
      <4>3. CASE m < point
        BY <1>1, <2>1, <3>1, <4>1, <4>3 DEF Readers!Advance, Readers!FirstOf, UpTo
      <4> QED
        BY <3>1, <4>1, <4>2, <4>3 DEF IInv, TypeOK, Position
    <3> QED
      BY <3>2, <3>3
  <2>4. CASE SetupsAlone /\ CommitFlush
    <3>1. /\ checkpoint \in 0 .. wal /\ next \in 0 .. wal /\ next \in 1 .. MaxCommits
          /\ target = UpTo(checkpoint) /\ next - 1 = checkpoint
      BY <2>4, LifecycleAssumption
         DEF CommitFlush, IInv, TypeOK, SessionInOrder, SetupsAloneInv, DaemonAtItsRow,
             HoldTheCheckpoint, Position
    <3>2. target' = UpTo(next)
      BY <2>4, <3>1, FlushGrows DEF IInv
    <3>3. checkpoint < next
      BY <3>1
    <3> QED
      BY <1>1, <2>1, <3>1, <3>2, <3>3 DEF Readers!Advance, Readers!FirstOf, UpTo
  <2>5. CASE DropSchema
    BY <1>1, <2>1, <2>5 DEF DropSchema, Readers!Drop
  <2>6. CASE UNCHANGED target
    BY <1>1, <2>1, <2>6
  <2>7. UNCHANGED target \/ FinishSetup \/ CommitFlush \/ DropSchema
    BY <1>3
       DEF Next, Setup, Teardown, Daemon, vars, schemaVars, BeginSetup, EnsurePublication,
           PrepareSlot, ClearCheckpoint, CreateSlot, Backfill, BeginTeardown,
           TerminateWalsender, DropSlot, DropPublication, CommandFails, ReadCheckpoint,
           StartReplication, Receive, ExecuteFlush, Ack, DaemonFails
  <2> QED
    BY <2>2, <2>3, <2>4, <2>5, <2>6, <2>7
<1> QED
  BY <1>2, <1>3

(* Readers of the target tables see a prefix that never goes back, until a *)
(* teardown, if the daemon is stopped for setups.                          *)
THEOREM LifecycleImplements == Spec => Implements
<1>1. Init => Readers!Init
  BY ImplementsInit
<1>2. IInv /\ [Next]_vars => [Readers!Next]_Readers!vars
  BY ImplementsStep
<1> QED
  BY <1>1, <1>2, Invariance, PTL DEF Spec, Implements, Readers!Spec

=============================================================================
