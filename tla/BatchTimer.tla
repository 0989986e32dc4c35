------------------------------ MODULE BatchTimer -----------------------------
(***************************************************************************)
(* The clock of the daemon: how long a sealed transaction can wait to be   *)
(* flushed, a stop to be noticed and the server to hear from the client.   *)
(* messages() of replication.py and the flush triggers of _loop            *)
(* (daemon.py), which Pipeline leaves to chance.                           *)
(*                                                                         *)
(* Time passes in three places: in select(), which returns at the end of   *)
(* the wake window at the latest and earlier when something arrives; while *)
(* a message is handled; and while a batch is flushed.                     *)
(***************************************************************************)
EXTENDS Integers

CONSTANTS
    BatchMaxTxns,      \* batch.max_txns
    BatchMaxMs,        \* batch.max_ms
    WakeSeconds,       \* _WAKE_SECONDS, the longest wake window
    KeepaliveSeconds,  \* _KEEPALIVE_SECONDS
    MaxHandle,         \* the longest a message takes
    MaxFlush,          \* the longest a flush takes
    MaxTime,           \* bound: the end of time
    None               \* no time

ASSUME BatchTimerAssumption ==
    /\ BatchMaxTxns \in Nat \ {0} /\ BatchMaxMs \in Nat \ {0}
    /\ WakeSeconds \in Nat \ {0} /\ KeepaliveSeconds \in Nat \ {0}
    /\ MaxHandle \in Nat /\ MaxFlush \in Nat /\ MaxTime \in Nat
    /\ None \notin Int

VARIABLES
    now,               \* time.monotonic()
    at,                \* where the process is
    pending,           \* sealed transactions not yet flushed
    oldest,            \* when the first of them was sealed, or None
    lastYield,         \* last_yield of messages()
    lastFeedback,      \* ReplicationStream._last_feedback
    since,             \* when the flush began
    idle,              \* when a read last found nothing (no variable of the code)
    stopAt             \* when the stop was requested, or None

vars == <<now, at, pending, oldest, lastYield, lastFeedback, since, idle, stopAt>>

-----------------------------------------------------------------------------
(* Where the process is: at the head of messages()' loop, in select(), at  *)
(* work on a message, in a flush, or out of _loop.                         *)
Places == {"loop", "wait", "handle", "flush", "ended"}

Time == 0 .. MaxTime

(* The wake window: at least every batch.max_ms.                           *)
Wake == IF BatchMaxMs < WakeSeconds THEN BatchMaxMs ELSE WakeSeconds

(* A stop request ends messages() at the head of its loop.  (mutant) Only  *)
(* _loop looks at it, when it is handed a message.                         *)
StoppingByMessage == FALSE
Stopping == stopAt # None

(* Every message is followed by a look at the batch's size and age.        *)
(* (mutants) The age is left to the wake; the size may be passed.          *)
DueBySize(n, first) == n >= BatchMaxTxns
DueLate(n, first) == n > 0 /\ (n > BatchMaxTxns \/ now - first >= BatchMaxMs)
Due(n, first) == n > 0 /\ (n >= BatchMaxTxns \/ now - first >= BatchMaxMs)

(* _keepalive_if_due.  (mutant) The last read did it.                      *)
KeepaliveDueRarely == now - lastFeedback >= KeepaliveSeconds /\ idle < lastFeedback
KeepaliveDue == now - lastFeedback >= KeepaliveSeconds

-----------------------------------------------------------------------------
Init ==
    /\ now = 0
    /\ at = "loop"
    /\ pending = 0
    /\ oldest = None
    /\ lastYield = 0
    /\ lastFeedback = 0
    /\ since = 0
    /\ idle = 0
    /\ stopAt = None

MayLast ==
    \/ at = "wait" /\ now < lastYield + Wake
    \/ at = "handle" /\ now < lastYield + MaxHandle
    \/ at = "flush" /\ now < since + MaxFlush

Tick ==
    /\ now < MaxTime
    /\ MayLast
    /\ now' = now + 1
    /\ UNCHANGED <<at, pending, oldest, lastYield, lastFeedback, since, idle, stopAt>>

(* The signal handler sets a flag; select() goes on waiting.               *)
RequestStop ==
    /\ stopAt = None
    /\ at # "ended"
    /\ stopAt' = now
    /\ UNCHANGED <<now, at, pending, oldest, lastYield, lastFeedback, since, idle>>

-----------------------------------------------------------------------------
BeginFlush ==
    /\ at' = "flush"
    /\ since' = now

ReadMessage ==
    /\ at = "loop"
    /\ ~Stopping
    /\ at' = "handle"
    /\ lastYield' = now
    /\ UNCHANGED <<now, pending, oldest, lastFeedback, since, idle, stopAt>>

(* Nothing to read: the keepalive if it is due, then select().             *)
ReadNothing ==
    /\ at = "loop"
    /\ ~Stopping
    /\ at' = "wait"
    /\ idle' = now
    /\ lastFeedback' = IF KeepaliveDue THEN now ELSE lastFeedback
    /\ UNCHANGED <<now, pending, oldest, lastYield, since, stopAt>>

(* select() returns early: something has arrived, if only half a message.  *)
WaitAgain ==
    /\ at = "wait"
    /\ now < lastYield + Wake \/ Stopping
    /\ at' = "loop"
    /\ UNCHANGED <<now, pending, oldest, lastYield, lastFeedback, since, idle, stopAt>>

(* The wake window is over: None is yielded, and what is sealed flushed.   *)
WakeUp ==
    /\ at = "wait"
    /\ now >= lastYield + Wake
    /\ ~Stopping
    /\ lastYield' = now
    /\ \/ pending > 0 /\ BeginFlush
       \/ pending = 0 /\ at' = "loop" /\ UNCHANGED since
    /\ UNCHANGED <<now, pending, oldest, lastFeedback, idle, stopAt>>

(* A message has been handled: a Commit after the checkpoint seals a       *)
(* transaction, any other leaves the batch as it is.                       *)
Handled ==
    /\ at = "handle"
    /\ \/ /\ pending' = pending + 1
          /\ oldest' = IF oldest = None THEN now ELSE oldest
       \/ UNCHANGED <<pending, oldest>>
    /\ \/ Due(pending', oldest') /\ BeginFlush
       \/ ~Due(pending', oldest') /\ at' = "loop" /\ UNCHANGED since
    /\ UNCHANGED <<now, lastYield, lastFeedback, idle, stopAt>>

(* COMMIT, and ack() with its feedback.                                    *)
Flushed ==
    /\ at = "flush"
    /\ at' = "loop"
    /\ pending' = 0
    /\ oldest' = None
    /\ lastFeedback' = now
    /\ UNCHANGED <<now, lastYield, since, idle, stopAt>>

(* messages() ends at the head of its loop, or _loop breaks off when it is *)
(* handed a message; what is sealed is flushed, once.                      *)
LoopEnds ==
    /\ Stopping
    /\ at = "loop" \/ (at = "handle" /\ now = lastYield)
    /\ \/ pending > 0 /\ BeginFlush
       \/ pending = 0 /\ at' = "ended" /\ UNCHANGED since
    /\ UNCHANGED <<now, pending, oldest, lastYield, lastFeedback, idle, stopAt>>

Next ==
    \/ Tick \/ RequestStop
    \/ ReadMessage \/ ReadNothing \/ WaitAgain \/ WakeUp
    \/ Handled \/ Flushed \/ LoopEnds

Spec == Init /\ [][Next]_vars

-----------------------------------------------------------------------------
(* The states are of the declared types, no time lies ahead, the age of a  *)
(* batch is known exactly when there is one, and a batch at its size is    *)
(* not left to grow.                                                       *)
TypeOK ==
    /\ now \in Time /\ at \in Places
    /\ pending \in 0 .. BatchMaxTxns
    /\ at # "flush" => pending < BatchMaxTxns
    /\ (oldest = None) <=> (pending = 0)
    /\ lastYield \in 0 .. now /\ lastFeedback \in 0 .. now
    /\ since \in 0 .. now /\ idle \in 0 .. now
    /\ oldest \in 0 .. now \cup {None}
    /\ stopAt \in 0 .. now \cup {None}

(* How old the oldest sealed transaction is, until its flush begins.       *)
Age == (IF at = "flush" THEN since ELSE now) - oldest

(* The flush of a sealed transaction begins less than batch.max_ms, one    *)
(* wake window and one message after it was sealed, whether the stream     *)
(* runs, pauses or trickles: batch.max_ms alone is not the limit           *)
(* (daemon.py:153-194).                                                    *)
BatchAgeBounded ==
    pending > 0 => Age < BatchMaxMs + Wake + MaxHandle

(* The server hears from the client every _KEEPALIVE_SECONDS, give or take *)
(* a wake window, for as long as reads find nothing in between; it is late *)
(* by no more than the time the stream, or a flush, has not paused         *)
(* (replication.py:61-72).                                                 *)
KeepaliveUnlessBusy ==
    /\ idle - lastFeedback < KeepaliveSeconds
    /\ at = "wait" => now - lastFeedback < KeepaliveSeconds + Wake

(* A stop request ends the loop after one wake window or one message, and  *)
(* one flush (daemon.py:142, 196-200).                                     *)
LongestStep == IF Wake > MaxHandle THEN Wake ELSE MaxHandle

StopBounded ==
    stopAt # None /\ at # "ended" => now - stopAt <= LongestStep + MaxFlush
=============================================================================
