\* A wake window shorter than batch.max_ms, messages and flushes that take time.
CONSTANTS
    BatchMaxTxns = 3
    BatchMaxMs = 3
    WakeSeconds = 2
    KeepaliveSeconds = 4
    MaxHandle = 1
    MaxFlush = 2
    MaxTime = 12
    None = None
SPECIFICATION Spec
INVARIANTS
    TypeOK
    BatchAgeBounded
    KeepaliveUnlessBusy
    StopBounded
CHECK_DEADLOCK FALSE
