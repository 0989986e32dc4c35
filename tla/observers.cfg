\* Two runs of verify.py, the first perhaps cut off, beside a generator, background WAL and status.
CONSTANTS
    None = None
    MaxOrders = 2
    MaxBackground = 2
    MaxRuns = 2
SPECIFICATION Spec
INVARIANTS
    TypeOK
    OnlyTheMarkerDiffers
    StatusAccountsForSlot
PROPERTIES
    MarkerCatchesUp
CHECK_DEADLOCK FALSE
