\* The in-doubt commit: a daemon may read the checkpoint before its predecessor's commit is decided.
CONSTANTS
    Op <- MCOp
    Poison <- MCPoison
    Transactions <- ShortAndLong
    BatchMaxTxns = 2
    MaxCommits = 4
    MaxFaults = 2
    CommitsSettle = FALSE
SPECIFICATION Spec
INVARIANTS
    ExactlyOnce
