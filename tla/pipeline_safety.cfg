\* Exactly-once, with crashes, server restarts, stops and a poison row.
CONSTANTS
    Op <- MCOp
    Poison <- MCPoison
    Transactions <- WithPoison
    BatchMaxTxns = 2
    MaxCommits = 4
    MaxFaults = 4
    CommitsSettle = TRUE
SPECIFICATION Spec
INVARIANTS
    TypeOK
    ExactlyOnce
    SlotBehindCheckpoint
    PoisonNeverPassed
    MemoryMatchesCheckpoint
PROPERTIES
    CheckpointMonotone
    CleanStopFlushes
    Implements
