\* Flushes of inserts, updates, deletes and truncates of up to two rows.
CONSTANTS
    r1 = r1
    r2 = r2
    r3 = r3
    a = a
    b = b
    byKey = byKey
    overall = overall
    RowId <- MCRowId
    Key <- MCKey
    MaxValue = 1
    Null = Null
    Unchanged = Unchanged
    Views <- MCViews
    Grouped <- MCGrouped
SPECIFICATION Spec
SYMMETRY MCSymmetry
INVARIANTS
    TypeOK
    FlushIsGroundTruth
    DeltasBridge
PROPERTIES
    Implements
