\* Nothing lost and everything applied in the end, even when a restarted
\* daemon reads the checkpoint before its predecessor's commit is decided.
CONSTANTS
    Op <- MCOp
    Poison = {}
    Transactions <- ShortAndLong
    BatchMaxTxns = 2
    MaxCommits = 3
    MaxFaults = 2
    CommitsSettle = FALSE
SPECIFICATION FairSpec
INVARIANTS
    NothingLost
    MemoryMatchesSlot
PROPERTIES
    EventuallyApplied
    AckReachesSlot
    StopEnds
